----------------------------- MODULE EgressProofs -----------------------------
(***************************************************************************)
(* For any callers, proxies and bounds.                                    *)
(***************************************************************************)
EXTENDS Egress, TLAPS

(* No permission is from a later time than the one in force, and so is no  *)
(* wipe; each has a number of its own.                                     *)
Past(g) == g[1] <= generation /\ g[2] <= epoch
GrantsArePast ==
  /\ Past(landed)
  /\ \A c \in Callers : ~At(c, "idle") => Past(call[c].granted)
  /\ \A c \in Callers : At(c, "clearing") => call[c].wait \in {None} \cup 1..epoch
  /\ \A w \in wipes : w.id <= epoch /\ \A v \in wipes : v.id = w.id => v = w

(* One in force speaks of the vault as it is, and only such a one flies.   *)
InForceIsAsConfigured ==
  \A c \in Callers :
    /\ ~At(c, "idle") /\ stillGranted(c) =>
         unlocked /\ call[c].route = stored /\ Allowed(stored)
    /\ At(c, "flying") => stillGranted(c)

(* What was built on the cached session of this epoch has it there still,  *)
(* so that forgetting reaches the routing that is shown.                   *)
OfThisEpoch(c) == ~At(c, "idle") /\ call[c].granted[2] = epoch
OnTheCached(c) == call[c] \in Built \/ (At(c, "applying") /\ ~call[c].fresh)
SessionIsCached ==
  /\ \A c \in Callers : OfThisEpoch(c) /\ OnTheCached(c) => cached # None
  /\ routing # None => cached # None /\ unlocked /\ routing.via = stored

(* While no wipe failed there is one partition.                            *)
OnePartition ==
  spoiled = 0 =>
    /\ cached \in {None, 0} /\ \A w \in wipes : w.part = 0
    /\ \A c \in Callers : call[c] \in Applying \cup Built => call[c].part = 0
    /\ \A p \in Partitions : p # 0 => jar[p] = {}

(* Who got past the wait has seen the last wipe of its epoch settle.       *)
WaitedForTheWipe ==
  \A c \in Callers : OfThisEpoch(c) =>
    clearing = None \/ (At(c, "clearing") /\ call[c].wait = clearing)

(* Older cookies are only where a wipe is going to take them.              *)
CookiesAreCovered ==
  spoiled = 0 /\ clearing = None =>
    \A p \in Partitions : jar[p] \subseteq {currentGrant} /\ (jar[p] # {} => cached # None)

(* As long as no wipe overtook an older one: the newest wipe settles last, *)
(* so who asked earlier waits no longer, and what is queued is in order.   *)
ClearingIsNewest == \A w \in wipes : clearing # None /\ w.id <= clearing
Unwiped(c) == At(c, "clearing") /\ ~Wiped(c)
WaitsInTurn ==
  \A c, d \in Callers :
    Unwiped(c) /\ At(d, "clearing") /\ Older(call[c].granted, call[d].granted) =>
      Unwiped(d) /\ call[c].wait <= call[d].wait
QueueIsInTurn ==
  /\ \A c, d \in Callers : At(c, "clearing") /\ At(d, "applying") =>
       ~Older(call[c].granted, call[d].granted)
  /\ \A i, j \in DOMAIN queue : i < j => ~Older(call[queue[j]].granted, call[queue[i]].granted)
  /\ \A c \in Callers : At(c, "clearing") \/ At(c, "applying") => ~Older(call[c].granted, landed)
InTurn == overtaken \/ (ClearingIsNewest /\ WaitsInTurn /\ QueueIsInTurn)

IInv ==
  /\ TypeOK /\ GrantsArePast /\ InForceIsAsConfigured /\ SessionIsCached
  /\ OnePartition /\ WaitedForTheWipe /\ CookiesAreCovered /\ InTurn
-----------------------------------------------------------------------------
(* What a step does to one caller.                                         *)
Call == {Idle} \cup Waiting \cup Applying \cup Built

LEMMA CallKinds ==
  ASSUME TypeOK, NEW c \in Callers
  PROVE  /\ call[c] \in Call
         /\ At(c, "idle") => call[c] = Idle
         /\ At(c, "clearing") => call[c] \in Waiting
         /\ At(c, "applying") => call[c] \in Applying
         /\ At(c, "built") \/ At(c, "resolving") \/ At(c, "flying") => call[c] \in Built
         /\ ~At(c, "idle") => call[c].granted \in Grant /\ call[c].route \in Routes
<1>1. call[c] \in Call
  BY DEF TypeOK, Call
<1>2. CASE call[c] = Idle
  BY <1>1, <1>2 DEF At, Idle
<1>3. CASE call[c] \in Waiting
  BY <1>1, <1>3 DEF At, Waiting
<1>4. CASE call[c] \in Applying
  BY <1>1, <1>4 DEF At, Applying
<1>5. CASE call[c] \in Built
  BY <1>1, <1>5 DEF At, Built
<1> QED BY <1>1, <1>2, <1>3, <1>4, <1>5 DEF Call

LEMMA GrantParts ==
  \A g \in Grant : g[1] \in 0..MaxForgets /\ g[2] \in 0..MaxForgets /\ g = <<g[1], g[2]>>
BY DEF Grant

LEMMA BecomesOnly ==
  ASSUME TypeOK, NEW c \in Callers, NEW next \in Call, Becomes(c, next)
  PROVE  /\ call' \in [Callers -> Call] /\ call'[c] = next
         /\ \A d \in Callers \ {c} : call'[d] = call[d]
BY DEF TypeOK, Becomes, Call

(* A caller that keeps its permission and all that was built on it, or     *)
(* gives everything up.                                                    *)
Kept(before, after) ==
  \/ after = before
  \/ after = Idle
  \/ /\ before \in Built /\ after \in Built
     /\ after.granted = before.granted /\ after.route = before.route /\ after.part = before.part

LEMMA MovesKeeps ==
  ASSUME TypeOK, NEW c \in Callers, call[c] \in Built,
         NEW pc \in {"built", "resolving", "flying"}, Moves(c, pc)
  PROVE  /\ call' \in [Callers -> Call] /\ call'[c].pc = pc
         /\ \A d \in Callers : Kept(call[d], call'[d])
         /\ \A d \in Callers \ {c} : call'[d] = call[d]
<1> DEFINE next == [call[c] EXCEPT !.pc = pc]
<1>1. /\ next \in Built /\ next.pc = pc /\ next.granted = call[c].granted
      /\ next.route = call[c].route /\ next.part = call[c].part
  BY DEF Built
<1>2. Becomes(c, next) /\ next \in Call
  BY <1>1 DEF Moves, Call
<1> HIDE DEF next
<1>3. /\ call' \in [Callers -> Call] /\ call'[c] = next
      /\ \A d \in Callers \ {c} : call'[d] = call[d]
  BY <1>2, BecomesOnly
<1> QED BY <1>1, <1>3 DEF Kept

LEMMA AbortedKeeps ==
  ASSUME NEW before \in [Callers -> Call], Aborted(before)
  PROVE  /\ call' \in [Callers -> Call]
         /\ \A d \in Callers : Kept(before[d], call'[d]) /\ call'[d].pc # "flying"
         /\ \A d \in Callers : before[d] \notin Built => call'[d] = before[d]
<1>1. call' = [c \in Callers |->
                 IF before[c].pc = "flying" THEN [before[c] EXCEPT !.pc = "built"] ELSE before[c]]
  BY DEF Aborted
<1>2. ASSUME NEW d \in Callers
      PROVE  /\ call'[d] \in Call /\ Kept(before[d], call'[d]) /\ call'[d].pc # "flying"
             /\ before[d] \notin Built => call'[d] = before[d]
  <2>1. CASE before[d].pc = "flying"
    <3>1. before[d] \in Built
      BY <2>1 DEF Call, Idle, Waiting, Applying
    <3>2. call'[d] = [before[d] EXCEPT !.pc = "built"]
      BY <1>1, <2>1
    <3> QED BY <3>1, <3>2 DEF Built, Call, Kept
  <2>2. CASE before[d].pc # "flying"
    BY <1>1, <2>2 DEF Kept
  <2> QED BY <2>1, <2>2
<1> QED BY <1>1, <1>2
-----------------------------------------------------------------------------
(* Every step either withdraws the permission in force or goes on under it.*)
Withdrawal ==
  /\ call' \in [Callers -> Call]
  /\ generation' \in 0..MaxForgets /\ epoch' \in 0..MaxForgets
  /\ generation' >= generation /\ epoch' >= epoch /\ <<generation', epoch'>> # currentGrant
  /\ \A d \in Callers : Kept(call[d], call'[d]) /\ call'[d].pc # "flying"
  /\ jar' = jar /\ spoiled' = spoiled /\ overtaken' = overtaken
  /\ \/ epoch' = epoch /\ cached = None /\ UNCHANGED <<store, routing, call>>
     \/ /\ epoch' = epoch + 1 /\ routing' = None /\ cached' = None
        /\ \/ cached = None /\ UNCHANGED <<wipes, clearing>>
           \/ /\ clearing' = epoch'
              /\ \E p \in Partitions :
                   /\ wipes' = wipes \cup {[id |-> epoch', part |-> p]}
                   /\ p = cached \/ \E c \in Callers : call[c] \in Applying /\ p = call[c].part

Asks(d) ==
  /\ Calm /\ At(d, "idle") /\ unlocked /\ Allowed(stored)
  /\ call'[d] = [pc |-> "clearing", granted |-> currentGrant, route |-> stored, wait |-> clearing]
Applies(d) ==
  /\ call[d] \in Waiting /\ Wiped(d) /\ call'[d] \in Applying
  /\ call'[d].granted = call[d].granted /\ call'[d].route = call[d].route
  /\ call'[d].fresh = (cached = None)
  /\ call'[d].part = IF cached = None THEN spoiled ELSE cached
Builds(d) ==
  /\ call[d] \in Waiting \cup Applying /\ (call[d] \in Waiting => Wiped(d)) /\ stillGranted(d)
  /\ call'[d] \in Built /\ call'[d].pc = "built"
  /\ call'[d].granted = call[d].granted /\ call'[d].route = call[d].route
  /\ call'[d].part = IF call[d] \in Waiting THEN cached ELSE call[d].part
  /\ cached' = IF call[d] \in Applying /\ call[d].fresh THEN call[d].part ELSE cached
  /\ call[d] \in Waiting => cached # None

OneAtATime == \A c, d \in Callers : call'[c] # call[c] /\ call'[d] # call[d] => c = d
CallersGoOn ==
  /\ call' \in [Callers -> Call] /\ OneAtATime
  /\ \A d \in Callers :
       /\ Kept(call[d], call'[d]) \/ Asks(d) \/ Applies(d) \/ Builds(d)
       /\ call'[d].pc = "flying" => call'[d] = call[d] \/ stillGranted(d)
CacheGoesOn ==
  \/ cached' = cached
  \/ \E c \in Callers : call[c] \in Applying /\ call[c].fresh /\ cached' = call[c].part
RoutingGoesOn ==
  \/ routing' = routing
  \/ \E c \in Callers :
       /\ ~At(c, "idle") /\ stillGranted(c) /\ routing'.via = call[c].route
       /\ call[c] \in Built \/ Builds(c)
VaultGoesOn ==
  /\ stored' = stored /\ (requireProxies' => requireProxies)
  /\ unlocked' = unlocked \/ (unlocked' = TRUE /\ UNCHANGED call)
Settles(w) ==
  /\ UNCHANGED call /\ wipes' = wipes \ {w}
  /\ clearing' = IF clearing = w.id THEN None ELSE clearing
  /\ overtaken' = FALSE => overtaken = FALSE /\ \A v \in wipes : ~(v.id < w.id)
  /\ spoiled' > 0 \/ (spoiled' = spoiled /\ jar' = [jar EXCEPT ![w.part] = {}])
StoreGoesOn == UNCHANGED <<spoiled, wipes, clearing, overtaken>> \/ \E w \in wipes : Settles(w)
JarGoesOn ==
  \/ jar' = jar
  \/ \E p \in Partitions : jar' = [jar EXCEPT ![p] = {}]
  \/ \E c \in Callers :
       At(c, "flying") /\ jar' = [jar EXCEPT ![call[c].part] = @ \cup {call[c].granted}]
Continuation ==
  /\ UNCHANGED grants
  /\ CallersGoOn /\ CacheGoesOn /\ RoutingGoesOn /\ VaultGoesOn /\ StoreGoesOn /\ JarGoesOn

LEMMA ForgetWithdraws ==
  ASSUME TypeOK, NEW before \in [Callers -> Call], NEW session \in Partitions \cup {None},
         \A d \in Callers : before[d] \in {call[d], Idle},
         Forget(session, before), session # None \/ cached = None,
         session = cached \/ \E c \in Callers : call[c] \in Applying /\ session = call[c].part,
         generation' \in {generation, generation + 1} \cap (0..MaxForgets), jar' = jar
  PROVE  Withdrawal
<1>1. /\ epoch \in 0..MaxForgets /\ generation \in 0..MaxForgets
  BY GrantParts DEF TypeOK, currentGrant, Grant
<1>2. /\ epoch' = epoch + 1 /\ epoch' \in 0..MaxForgets
  BY <1>1, RouteAssumption DEF Forget
<1>3. /\ generation' \in 0..MaxForgets /\ generation' >= generation
      /\ <<generation', epoch'>> # currentGrant
  BY <1>1, <1>2 DEF currentGrant
<1>4. /\ call' \in [Callers -> Call]
      /\ \A d \in Callers : Kept(before[d], call'[d]) /\ call'[d].pc # "flying"
  BY AbortedKeeps DEF Forget
<1>5. \A d \in Callers : Kept(call[d], call'[d])
  <2> SUFFICES ASSUME NEW d \in Callers PROVE Kept(call[d], call'[d])  OBVIOUS
  <2>1. CASE before[d] = call[d]
    BY <1>4, <2>1
  <2>2. CASE before[d] = Idle
    BY <1>4, <2>2 DEF Kept, Built, Idle
  <2> QED BY <2>1, <2>2
<1>6. /\ routing' = None /\ cached' = None /\ spoiled' = spoiled /\ overtaken' = overtaken
  BY DEF Forget
<1>7. \/ session = None /\ UNCHANGED <<wipes, clearing>>
      \/ session # None /\ clearing' = epoch' /\ wipes' = wipes \cup {[id |-> epoch', part |-> session]}
  BY DEF Forget
<1> QED BY <1>1, <1>2, <1>3, <1>4, <1>5, <1>6, <1>7 DEF Withdrawal

LEMMA ForgetAllWithdraws ==
  ASSUME TypeOK, ForgetAll, jar' = jar
  PROVE  Withdrawal
<1>1. /\ epoch \in 0..MaxForgets /\ generation \in 0..MaxForgets
      /\ generation' = generation + 1 /\ generation' \in 0..MaxForgets
  BY GrantParts, RouteAssumption DEF TypeOK, currentGrant, Grant, ForgetAll
<1>2. CASE cached # None \/ InAir
  <2>1. Forget(cached, call) /\ call \in [Callers -> Call] /\ cached \in Partitions \cup {None}
    BY <1>2 DEF ForgetAll, TypeOK, Call
  <2> QED BY <1>1, <2>1, ForgetWithdraws
<1>3. CASE ~(cached # None \/ InAir)
  <2>1. UNCHANGED <<epoch, store, routing, call>> /\ cached = None
        /\ call \in [Callers -> Call]
        /\ \A d \in Callers : call[d].pc # "flying"
    BY <1>3 DEF ForgetAll, InAir, At, TypeOK, Call
  <2>2. \A d \in Callers : Kept(call[d], call'[d])
    BY <2>1 DEF Kept
  <2> QED BY <1>1, <2>1, <2>2 DEF Withdrawal, store, currentGrant
<1> QED BY <1>2, <1>3

(* Where only callers change, each keeping what it had.                    *)
LEMMA OnlyCallersGoOn ==
  ASSUME UNCHANGED <<vault, grants, store, jar>>, call' \in [Callers -> Call], OneAtATime,
         \A d \in Callers : Kept(call[d], call'[d]),
         \A d \in Callers : call'[d].pc = "flying" => call'[d] = call[d] \/ stillGranted(d),
         RoutingGoesOn
  PROVE  Continuation
BY DEF Continuation, CallersGoOn, CacheGoesOn, VaultGoesOn, StoreGoesOn, JarGoesOn,
       vault, grants, store

LEMMA GivingUpKeeps ==
  ASSUME TypeOK, NEW c \in Callers, Becomes(c, Idle)
  PROVE  /\ call' \in [Callers -> Call] /\ OneAtATime
         /\ \A d \in Callers : Kept(call[d], call'[d])
         /\ \A d \in Callers : call'[d].pc = "flying" => call'[d] = call[d]
<1>1. Idle \in Call /\ Idle.pc = "idle"  BY DEF Call, Idle
<1> QED BY <1>1, BecomesOnly DEF Kept, OneAtATime

LEMMA GrantedShape ==
  ASSUME TypeOK, NEW c \in Callers, NEW session \in Partitions \cup {None}, NEW part \in Partitions,
         Granted(c, session, part), UNCHANGED <<vault, generation, jar>>,
         \/ call[c] \in Waiting /\ Wiped(c) /\ cached # None /\ session = cached /\ part = cached
         \/ /\ call[c] \in Applying /\ part = call[c].part
            /\ session = IF call[c].fresh THEN call[c].part ELSE cached
  PROVE  Withdrawal \/ Continuation
<1>0. /\ epoch \in 0..MaxForgets /\ generation \in 0..MaxForgets
      /\ call \in [Callers -> Call]
  BY GrantParts DEF TypeOK, currentGrant, Grant, Call
<1>s. /\ session # None \/ cached = None
      /\ ~At(c, "idle")
      /\ session = cached \/ (call[c] \in Applying /\ call[c].fresh /\ session = call[c].part)
  BY RouteAssumption DEF Partitions, At, Waiting, Applying
<1>1. CASE stillGranted(c)
  <2> DEFINE next == [pc |-> "built", granted |-> call[c].granted, route |-> call[c].route,
                      part |-> part]
  <2>1. next \in Built /\ next.pc = "built" /\ next.granted = call[c].granted
        /\ next.route = call[c].route /\ next.part = part
    BY CallKinds, <1>s DEF Built
  <2>2. /\ Becomes(c, next) /\ cached' = session
        /\ routing' = IF call[c].route = System THEN Off ELSE routing
        /\ UNCHANGED <<epoch, spoiled, wipes, clearing, overtaken>>
    BY <1>1 DEF Granted
  <2>3. next \in Call  BY <2>1 DEF Call
  <2> HIDE DEF next
  <2>4. /\ call' \in [Callers -> Call] /\ call'[c] = next
        /\ \A d \in Callers \ {c} : call'[d] = call[d]
    BY <2>2, <2>3, BecomesOnly
  <2>5. Builds(c)
    BY <1>1, <2>1, <2>2, <2>4, <1>s DEF Builds, Waiting, Applying
  <2>6. CallersGoOn
    BY <2>1, <2>4, <2>5 DEF CallersGoOn, Kept, OneAtATime
  <2>7. RoutingGoesOn
    BY <1>1, <1>s, <2>2, <2>5 DEF RoutingGoesOn, Off
  <2>8. CacheGoesOn
    BY <2>2, <1>s DEF CacheGoesOn
  <2> QED BY <2>2, <2>6, <2>7, <2>8
          DEF Continuation, VaultGoesOn, StoreGoesOn, JarGoesOn, vault, grants
<1>2. CASE ~stillGranted(c) /\ generation # call[c].granted[1]
  <2> DEFINE before == [call EXCEPT ![c] = Idle]
  <2>1. Forget(session, before)
    BY <1>2 DEF Granted, Refused
  <2>2. before \in [Callers -> Call] /\ \A d \in Callers : before[d] \in {call[d], Idle}
    BY <1>0 DEF Call
  <2> HIDE DEF before
  <2> QED BY <1>0, <1>s, <2>1, <2>2, ForgetWithdraws
<1>3. CASE ~stillGranted(c) /\ generation = call[c].granted[1]
  <2>1. /\ Becomes(c, Idle) /\ cached' = session
        /\ UNCHANGED <<epoch, spoiled, wipes, clearing, overtaken, routing>>
    BY <1>3 DEF Granted, Refused
  <2>2. CallersGoOn
    BY <2>1, GivingUpKeeps DEF CallersGoOn
  <2>3. CacheGoesOn
    BY <2>1, <1>s DEF CacheGoesOn
  <2> QED BY <2>1, <2>2, <2>3
          DEF Continuation, RoutingGoesOn, VaultGoesOn, StoreGoesOn, JarGoesOn, vault, grants
<1> QED BY <1>1, <1>2, <1>3
LEMMA HeadIsApplying ==
  ASSUME TypeOK, queue # <<>>
  PROVE  Head(queue) \in Callers /\ call[Head(queue)] \in Applying
<1>1. Head(queue) \in Range(queue) /\ Head(queue) \in Callers
  <2>1. queue \in Seq(Callers) /\ 1 \in DOMAIN queue /\ Head(queue) = queue[1]
    BY DEF TypeOK
  <2> QED BY <2>1 DEF Range
<1>2. At(Head(queue), "applying")
  BY <1>1 DEF TypeOK
<1> QED BY <1>1, <1>2, CallKinds

LEMMA StepShape ==
  ASSUME TypeOK, [Next]_vars PROVE Withdrawal \/ Continuation
<1> DEFINE Shape == Withdrawal \/ Continuation
<1> HIDE DEF Shape
<1>r. UNCHANGED routing => RoutingGoesOn  BY DEF RoutingGoesOn
<1>1. ASSUME NEW c \in Callers, ForAccount(c) PROVE Shape
  <2> DEFINE next == [pc |-> "clearing", granted |-> currentGrant, route |-> stored,
                      wait |-> clearing]
  <2>1. next \in Call
    BY DEF TypeOK, Call, Waiting, Ids
  <2>2. Becomes(c, next) /\ next.pc = "clearing"
    BY <1>1 DEF ForAccount
  <2> HIDE DEF next
  <2>3. /\ call' \in [Callers -> Call] /\ call'[c] = next
        /\ \A d \in Callers \ {c} : call'[d] = call[d]
    BY <2>1, <2>2, BecomesOnly
  <2>4. Asks(c)
    BY <1>1, <2>3 DEF ForAccount, Asks, next
  <2>5. CallersGoOn
    BY <2>2, <2>3, <2>4 DEF CallersGoOn, Kept, OneAtATime
  <2> QED BY <1>1, <1>r, <2>5
          DEF ForAccount, Shape, Continuation, CacheGoesOn, VaultGoesOn, StoreGoesOn, JarGoesOn,
              vault, grants, store
<1>2. ASSUME NEW c \in Callers, Reuse(c) PROVE Shape
  <2>1. call[c] \in Waiting /\ Wiped(c) /\ cached # None
    BY <1>2, CallKinds DEF Reuse, First, Resumed
  <2>2. cached \in Partitions
    BY <2>1 DEF TypeOK
  <2>3. Granted(c, cached, cached) /\ UNCHANGED <<vault, generation, jar>>
    BY <1>2 DEF Reuse
  <2> QED BY <2>1, <2>2, <2>3, GrantedShape DEF Shape
<1>3. ASSUME NEW c \in Callers, Apply(c) PROVE Shape
  <2> DEFINE next == [pc |-> "applying", granted |-> call[c].granted, route |-> call[c].route,
                      fresh |-> cached = None,
                      part |-> IF cached = None THEN spoiled ELSE cached]
  <2>1. call[c] \in Waiting /\ Wiped(c)
    BY <1>3, CallKinds DEF Apply, First, Resumed
  <2>2. next \in Applying
    BY <2>1 DEF TypeOK, Waiting, Applying
  <2>3. Becomes(c, next) /\ next \in Call
    BY <1>3, <2>2 DEF Apply, Call
  <2>4. /\ next.granted = call[c].granted /\ next.route = call[c].route
        /\ next.fresh = (cached = None) /\ next.pc = "applying"
        /\ next.part = IF cached = None THEN spoiled ELSE cached
    OBVIOUS
  <2> HIDE DEF next
  <2>5. /\ call' \in [Callers -> Call] /\ call'[c] = next
        /\ \A d \in Callers \ {c} : call'[d] = call[d]
    BY <2>3, BecomesOnly
  <2>6. Applies(c)
    BY <2>1, <2>2, <2>4, <2>5 DEF Applies
  <2>7. CallersGoOn
    BY <2>4, <2>5, <2>6 DEF CallersGoOn, Kept, OneAtATime
  <2> QED BY <1>3, <1>r, <2>7
          DEF Apply, Shape, Continuation, CacheGoesOn, VaultGoesOn, StoreGoesOn, JarGoesOn,
              vault, grants, store
<1>4. ASSUME NEW c \in Callers, Applied(c) PROVE Shape
  <2>1. call[c] \in Applying
    BY <1>4, HeadIsApplying DEF Applied
  <2>2. /\ call[c].part \in Partitions
        /\ (IF call[c].fresh THEN call[c].part ELSE cached) \in Partitions \cup {None}
    BY <2>1 DEF Applying, TypeOK
  <2>3. /\ Granted(c, IF call[c].fresh THEN call[c].part ELSE cached, call[c].part)
        /\ UNCHANGED <<vault, generation, jar>>
    BY <1>4 DEF Applied
  <2> QED BY <2>1, <2>2, <2>3, GrantedShape DEF Shape
<1>5. ASSUME NEW c \in Callers, Becomes(c, Idle), UNCHANGED <<vault, grants, store, jar>>,
             RoutingGoesOn
      PROVE  Shape
  BY <1>5, GivingUpKeeps, OnlyCallersGoOn DEF Shape
<1>6. ASSUME NEW c \in Callers, ApplyFails(c) \/ Revoked(c) \/ Ends(c) PROVE Shape
  BY <1>5, <1>6, <1>r DEF ApplyFails, Revoked, Ends
<1>7. ASSUME NEW c \in Callers, NotRouted(c) PROVE Shape
  <2>1. call[c] \in Built
    BY <1>7, CallKinds DEF NotRouted
  <2>2. RoutingGoesOn
    BY <1>7, <2>1 DEF NotRouted, recordRouting, RoutingGoesOn, Blocked, At
  <2> QED BY <1>5, <1>7, <2>2 DEF NotRouted
<1>8. ASSUME NEW c \in Callers, NEW pc \in {"built", "resolving", "flying"}, Moves(c, pc),
             call[c] \in Built, pc = "flying" => stillGranted(c), UNCHANGED <<vault, grants, store>>,
             JarGoesOn, RoutingGoesOn
      PROVE  Shape
  <2>1. /\ call' \in [Callers -> Call] /\ call'[c].pc = pc
        /\ \A d \in Callers : Kept(call[d], call'[d])
        /\ \A d \in Callers \ {c} : call'[d] = call[d]
    BY <1>8, MovesKeeps
  <2>2. CallersGoOn
    BY <1>8, <2>1 DEF CallersGoOn, OneAtATime
  <2> QED BY <1>8, <2>2
          DEF Shape, Continuation, CacheGoesOn, VaultGoesOn, StoreGoesOn, vault, grants, store
<1>9. ASSUME NEW c \in Callers, Perform(c) PROVE Shape
  <2>1. call[c] \in Built
    BY <1>9, CallKinds DEF Perform
  <2> QED BY <1>8, <1>9, <1>r, <2>1 DEF Perform, JarGoesOn
<1>10. ASSUME NEW c \in Callers, RoutedAndSent(c) PROVE Shape
  <2>1. call[c] \in Built /\ stillGranted(c)
    BY <1>10, CallKinds DEF RoutedAndSent, Rechecked
  <2>2. RoutingGoesOn
    BY <1>10, <2>1 DEF RoutedAndSent, RoutingGoesOn, Verified, At
  <2> QED BY <1>8, <1>10, <2>1, <2>2 DEF RoutedAndSent, JarGoesOn
<1>11. ASSUME NEW c \in Callers, Answered(c) PROVE Shape
  <2>1. call[c] \in Built
    BY <1>11, CallKinds DEF Answered
  <2>2. JarGoesOn
    BY <1>11 DEF Answered, JarGoesOn
  <2> QED BY <1>8, <1>11, <1>r, <2>1, <2>2 DEF Answered
<1>c. UNCHANGED call => CallersGoOn  BY DEF CallersGoOn, Kept, OneAtATime, TypeOK, Call
<1>12. ASSUME NEW w \in wipes, Wipe(w) \/ WipeFails(w) PROVE Shape
  <2>1. /\ UNCHANGED <<vault, grants, cached, routing, call>> /\ wipes' = wipes \ {w}
        /\ clearing' = IF clearing = w.id THEN None ELSE clearing
    BY <1>12 DEF Wipe, WipeFails, Settled
  <2>a. overtaken' = FALSE => overtaken = FALSE /\ \A v \in wipes : ~(v.id < w.id)
    <3>1. overtaken' = (overtaken \/ \E v \in wipes : v.id < w.id)
      BY <1>12, Zenon DEF Wipe, WipeFails, Settled
    <3>2. overtaken \in BOOLEAN
      BY Zenon DEF TypeOK
    <3> QED BY <3>1, <3>2, Zenon
  <2>b. spoiled' > 0 \/ (spoiled' = spoiled /\ jar' = [jar EXCEPT ![w.part] = {}])
    BY <1>12 DEF Wipe, WipeFails, TypeOK, Partitions
  <2>2. StoreGoesOn
    BY <2>1, <2>a, <2>b DEF StoreGoesOn, Settles
  <2>3. JarGoesOn
    BY <1>12 DEF Wipe, WipeFails, JarGoesOn, TypeOK
  <2> QED BY <1>c, <1>r, <2>1, <2>2, <2>3 DEF Shape, Continuation, CacheGoesOn, VaultGoesOn, vault, grants
<1>13. ASSUME NEW r \in Routes, SaveProxy(r) PROVE Shape
  <2>1. call \in [Callers -> Call] /\ cached \in Partitions \cup {None}
        /\ generation' \in {generation, generation + 1} \cap (0..MaxForgets)
    BY <1>13, GrantParts DEF SaveProxy, TypeOK, Call, currentGrant
  <2> QED BY <1>13, <2>1, ForgetWithdraws DEF SaveProxy, Shape
<1>14. CASE RequireProxies \/ Lock
  BY <1>14, ForgetAllWithdraws DEF RequireProxies, Lock, Shape
<1>15. CASE AllowDirect \/ Unlock \/ UNCHANGED vars
  <2>1. UNCHANGED <<stored, grants, store, jar, routing, call>>
    BY <1>15 DEF AllowDirect, Unlock, vars, vault
  <2>2. (unlocked' = unlocked \/ unlocked' = TRUE) /\ (requireProxies' => requireProxies)
    <3>1. CASE AllowDirect  BY <3>1 DEF AllowDirect
    <3>2. CASE Unlock  BY <3>2 DEF Unlock
    <3>3. CASE UNCHANGED vars
      <4>1. UNCHANGED <<unlocked, stored, requireProxies>>  BY <3>3 DEF vars, vault
      <4> QED BY <4>1, Zenon
    <3> QED BY <1>15, <3>1, <3>2, <3>3
  <2> QED BY <1>c, <1>r, <2>1, <2>2
          DEF Shape, Continuation, CacheGoesOn, VaultGoesOn, StoreGoesOn, JarGoesOn, grants, store
<1> QED BY <1>1, <1>2, <1>3, <1>4, <1>6, <1>7, <1>9, <1>10, <1>11, <1>12, <1>13, <1>14, <1>15
        DEF Next, Operation, Shape
-----------------------------------------------------------------------------
LEMMA Kinds ==
  /\ \A x \in Call :
       /\ x.pc = "idle" <=> x = Idle
       /\ x.pc = "clearing" <=> x \in Waiting
       /\ x.pc = "applying" <=> x \in Applying
       /\ x.pc \in {"built", "resolving", "flying"} <=> x \in Built
  /\ \A x \in Applying \cup Built : x.part \in Partitions
  /\ Idle \notin Waiting \cup Applying \cup Built
  /\ Waiting \cap Applying = {} /\ Waiting \cap Built = {} /\ Applying \cap Built = {}
BY DEF Call, Idle, Waiting, Applying, Built

(* Whoever has a permission after a step had it before, or asked for it.   *)
LEMMA PermissionsAreCarried ==
  ASSUME TypeOK, Withdrawal \/ Continuation, NEW d \in Callers, ~At(d, "idle")'
  PROVE  \/ /\ ~At(d, "idle") /\ call'[d].granted = call[d].granted
            /\ call'[d].route = call[d].route
         \/ Continuation /\ Asks(d)
<1>1. call[d] \in Call /\ call'[d] \in Call /\ call'[d] # Idle
  BY Kinds DEF TypeOK, Call, Withdrawal, Continuation, CallersGoOn, At, Idle
<1>2. CASE Kept(call[d], call'[d])
  BY <1>1, <1>2, Kinds DEF Kept, At
<1>3. CASE Continuation /\ (Asks(d) \/ Applies(d) \/ Builds(d))
  BY <1>1, <1>3, Kinds DEF Applies, Builds, At, Waiting, Applying
<1> QED BY <1>2, <1>3 DEF Withdrawal, Continuation, CallersGoOn

LEMMA TimeIsNumbers ==
  ASSUME TypeOK
  PROVE  /\ generation \in 0..MaxForgets /\ epoch \in 0..MaxForgets
         /\ landed[1] \in Nat /\ landed[2] \in Nat
         /\ \A c \in Callers : ~At(c, "idle") =>
              /\ call[c].granted \in Grant
              /\ call[c].granted[1] \in Nat /\ call[c].granted[2] \in Nat
         /\ \A w \in wipes : w.id \in Nat /\ w.part \in Partitions
         /\ \A c \in Callers : At(c, "clearing") => call[c].wait \in Nat \cup {None}
<1>1. \A g \in Grant : g[1] \in 0..MaxForgets /\ g[2] \in 0..MaxForgets
  BY GrantParts
<1>2. /\ currentGrant \in Grant /\ landed \in Grant
      /\ \A w \in wipes : w \in [id : Ids, part : Partitions]
  BY DEF TypeOK
<1>3. \A c \in Callers : ~At(c, "idle") => call[c].granted \in Grant
  BY CallKinds
<1>4. \A c \in Callers : At(c, "clearing") => call[c].wait \in Ids \cup {None}
  BY CallKinds DEF Waiting
<1> QED BY <1>1, <1>2, <1>3, <1>4 DEF currentGrant, Ids

LEMMA GrantsStep ==
  ASSUME TypeOK, GrantsArePast, Withdrawal \/ Continuation,
         landed' = landed \/ \E c \in Callers : ~At(c, "idle") /\ landed' = call[c].granted
  PROVE  GrantsArePast'
<1>1. /\ generation' \in Nat /\ epoch' \in Nat /\ generation' >= generation /\ epoch' >= epoch
  BY TimeIsNumbers DEF Withdrawal, Continuation, grants
<1>2. Past(landed)'
  BY <1>1, TimeIsNumbers DEF GrantsArePast, Past
<1>3. ASSUME NEW d \in Callers, ~At(d, "idle")' PROVE Past(call[d].granted)'
  <2>1. CASE ~At(d, "idle") /\ call'[d].granted = call[d].granted
    BY <1>1, <2>1, TimeIsNumbers DEF GrantsArePast, Past
  <2>2. CASE Continuation /\ Asks(d)
    BY <1>1, <2>2, TimeIsNumbers DEF Continuation, Asks, grants, currentGrant, Past
  <2> QED BY <1>3, <2>1, <2>2, PermissionsAreCarried
<1>4. ASSUME NEW d \in Callers, At(d, "clearing")'
      PROVE  (call[d].wait \in {None} \cup 1..epoch)'
  <2>1. call[d] \in Call /\ call'[d] \in Waiting /\ call'[d] \in Call
    BY <1>4, Kinds DEF TypeOK, Call, Withdrawal, Continuation, CallersGoOn, At
  <2>2. CASE Kept(call[d], call'[d])
    <3>1. call'[d] = call[d] /\ At(d, "clearing")
      BY <2>1, <2>2, Kinds DEF Kept, At
    <3> QED BY <1>1, <3>1, TimeIsNumbers DEF GrantsArePast
  <2>3. CASE Continuation /\ Asks(d)
    <3>1. call'[d].wait = clearing /\ epoch' = epoch
      BY <2>3 DEF Asks, Continuation, grants
    <3>2. clearing = None \/ \E w \in wipes : clearing = w.id
      BY DEF TypeOK
    <3>3. \A w \in wipes : w.id \in 1..epoch
      BY TimeIsNumbers DEF GrantsArePast, TypeOK, Ids
    <3> QED BY <3>1, <3>2, <3>3
  <2>4. ~Applies(d) /\ ~Builds(d)
    BY <2>1, Kinds DEF Applies, Builds
  <2> QED BY <2>2, <2>3, <2>4 DEF Withdrawal, Continuation, CallersGoOn
<1>5. ASSUME NEW w \in wipes'
      PROVE  w.id <= epoch' /\ \A v \in wipes' : v.id = w.id => v = w
  <2>1. \A v \in wipes : v.id \in Nat /\ v.id <= epoch /\ \A u \in wipes : u.id = v.id => u = v
    BY TimeIsNumbers DEF GrantsArePast
  <2>2. CASE wipes' \subseteq wipes
    BY <1>1, <2>1, <2>2, TimeIsNumbers
  <2>3. CASE epoch' = epoch + 1 /\ \E p : wipes' = wipes \cup {[id |-> epoch', part |-> p]}
    <3>1. PICK p : wipes' = wipes \cup {[id |-> epoch', part |-> p]}
      BY <2>3
    <3>2. \A v \in wipes' : v \in wipes \/ v = [id |-> epoch', part |-> p]
      BY <3>1
    <3>3. \A v \in wipes : v.id <= epoch' /\ v.id # epoch'
      BY <2>1, <2>3, TimeIsNumbers
    <3>4. [id |-> epoch', part |-> p].id = epoch'
      OBVIOUS
    <3> QED BY <1>1, <2>1, <3>2, <3>3, <3>4
  <2>4. CASE wipes' = wipes
    BY <2>2, <2>4
  <2> QED BY <2>2, <2>3, <2>4 DEF Withdrawal, Continuation, StoreGoesOn, Settles, store
<1> QED BY <1>2, <1>3, <1>4, <1>5 DEF GrantsArePast

LEMMA InForceStep ==
  ASSUME TypeOK, GrantsArePast, InForceIsAsConfigured, Withdrawal \/ Continuation
  PROVE  InForceIsAsConfigured'
<1> SUFFICES ASSUME NEW d \in Callers
             PROVE  /\ (~At(d, "idle") /\ stillGranted(d))' =>
                         (unlocked /\ call[d].route = stored /\ Allowed(stored))'
                    /\ At(d, "flying")' => stillGranted(d)'
  BY DEF InForceIsAsConfigured
<1>1. CASE Withdrawal
  <2>1. ~At(d, "flying")'
    BY <1>1 DEF Withdrawal, At
  <2>2. ASSUME ~At(d, "idle")', stillGranted(d)' PROVE FALSE
    <3>0. ~Asks(d) \/ ~Continuation
      BY <1>1 DEF Withdrawal, Continuation, grants, currentGrant
    <3>1. ~At(d, "idle") /\ call'[d].granted = call[d].granted
      BY <1>1, <2>2, <3>0, PermissionsAreCarried
    <3>2. call[d].granted = <<generation', epoch'>>
      BY <2>2, <3>1 DEF stillGranted, currentGrant
    <3>3. generation' <= generation /\ epoch' <= epoch
      BY <3>1, <3>2 DEF GrantsArePast, Past
    <3>4. generation' = generation /\ epoch' = epoch
      BY <1>1, <3>3, TimeIsNumbers DEF Withdrawal
    <3> QED BY <1>1, <3>4 DEF Withdrawal, currentGrant
  <2> QED BY <2>1, <2>2
<1>2. CASE Continuation
  <2>1. currentGrant' = currentGrant /\ stored' = stored
        /\ (unlocked => unlocked') /\ (Allowed(stored) => Allowed(stored)')
    BY <1>2 DEF Continuation, VaultGoesOn, grants, currentGrant, Allowed
  <2>2. ASSUME ~At(d, "idle")', stillGranted(d)'
        PROVE  (unlocked /\ call[d].route = stored /\ Allowed(stored))'
    <3>1. CASE /\ ~At(d, "idle") /\ call'[d].granted = call[d].granted
               /\ call'[d].route = call[d].route
      BY <2>1, <2>2, <3>1 DEF InForceIsAsConfigured, stillGranted
    <3>2. CASE Asks(d)
      BY <2>1, <3>2 DEF Asks
    <3> QED BY <1>2, <2>2, <3>1, <3>2, PermissionsAreCarried
  <2>3. ASSUME At(d, "flying")' PROVE stillGranted(d)'
    <3>1. call'[d] = call[d] \/ stillGranted(d)
      BY <1>2, <2>3 DEF Continuation, CallersGoOn, At
    <3>2. stillGranted(d)
      BY <2>3, <3>1 DEF InForceIsAsConfigured, At
    <3>3. ~Asks(d) /\ ~At(d, "idle")'
      BY <2>3 DEF Asks, At
    <3> QED BY <1>2, <2>1, <3>2, <3>3, PermissionsAreCarried DEF stillGranted
  <2> QED BY <2>2, <2>3
<1> QED BY <1>1, <1>2

LEMMA NoneIsNoPartition == None \notin Partitions /\ None \notin Nat
BY RouteAssumption DEF Partitions

LEMMA EpochMoves ==
  ASSUME TypeOK, GrantsArePast, Withdrawal, epoch' = epoch + 1, NEW d \in Callers
  PROVE  ~OfThisEpoch(d)'
<1> SUFFICES ASSUME ~At(d, "idle")', call'[d].granted[2] = epoch' PROVE FALSE
  BY DEF OfThisEpoch
<1>1. ~Continuation
  BY TimeIsNumbers DEF Withdrawal, Continuation, grants, currentGrant
<1>2. ~At(d, "idle") /\ call'[d].granted = call[d].granted
  BY <1>1, PermissionsAreCarried
<1> QED BY <1>2, TimeIsNumbers DEF GrantsArePast, Past

LEMMA SessionStep ==
  ASSUME TypeOK, GrantsArePast, InForceIsAsConfigured, SessionIsCached,
         Withdrawal \/ Continuation
  PROVE  SessionIsCached'
<1>1. CASE Withdrawal
  <2>1. CASE epoch' = epoch + 1 /\ routing' = None
    BY <1>1, <2>1, EpochMoves DEF SessionIsCached
  <2>2. CASE cached = None /\ epoch' = epoch /\ UNCHANGED <<store, routing, call>>
    <3>1. routing = None
      BY <2>2 DEF SessionIsCached
    <3> QED BY <2>2, <3>1 DEF SessionIsCached, OfThisEpoch, OnTheCached, At, store
  <2> QED BY <1>1, <2>1, <2>2 DEF Withdrawal
<1>2. CASE Continuation
  <2>1. /\ epoch' = epoch /\ stored' = stored /\ (unlocked => unlocked')
        /\ cached' = cached \/ cached' # None
    BY <1>2, Kinds, NoneIsNoPartition
    DEF Continuation, grants, VaultGoesOn, CacheGoesOn
  <2>2. ASSUME NEW d \in Callers, Builds(d), OfThisEpoch(d) PROVE cached' # None
    <3>1. CASE call[d] \in Waiting
      BY <2>1, <2>2, <3>1 DEF Builds
    <3>2. CASE call[d] \in Applying /\ call[d].fresh
      BY <2>2, <3>2, Kinds, NoneIsNoPartition DEF Builds
    <3>3. CASE call[d] \in Applying /\ ~call[d].fresh
      <4>1. At(d, "applying")
        BY <3>3, Kinds DEF Call, At
      <4> QED BY <2>1, <2>2, <3>3, <4>1 DEF SessionIsCached, OnTheCached
    <3> QED BY <2>2, <3>1, <3>2, <3>3 DEF Builds
  <2>3. ASSUME NEW d \in Callers, OfThisEpoch(d)', OnTheCached(d)' PROVE cached' # None
    <3>1. call[d] \in Call /\ call'[d] \in Call
      BY <1>2 DEF TypeOK, Call, Continuation, CallersGoOn
    <3>2. CASE Kept(call[d], call'[d])
      <4>1. OfThisEpoch(d) /\ OnTheCached(d)
        BY <2>1, <2>3, <3>1, <3>2, Kinds DEF Kept, OfThisEpoch, OnTheCached, At
      <4> QED BY <2>1, <4>1 DEF SessionIsCached
    <3>3. CASE Asks(d)
      BY <2>3, <3>1, <3>3, Kinds DEF Asks, OnTheCached, At
    <3>4. CASE Applies(d)
      BY <2>1, <2>3, <3>1, <3>4, Kinds DEF Applies, OnTheCached
    <3>5. CASE Builds(d)
      <4>1. OfThisEpoch(d)
        BY <2>1, <2>3, <3>1, <3>5, Kinds DEF Builds, OfThisEpoch, At
      <4> QED BY <2>2, <3>5, <4>1
    <3> QED BY <1>2, <3>2, <3>3, <3>4, <3>5 DEF Continuation, CallersGoOn
  <2>4. ASSUME routing' # None PROVE (cached # None /\ unlocked /\ routing.via = stored)'
    <3>1. CASE routing' = routing
      BY <2>1, <2>4, <3>1 DEF SessionIsCached
    <3>2. ASSUME NEW c \in Callers, ~At(c, "idle"), stillGranted(c),
                 routing'.via = call[c].route, call[c] \in Built \/ Builds(c)
          PROVE  (cached # None /\ unlocked /\ routing.via = stored)'
      <4>1. OfThisEpoch(c)
        BY <3>2 DEF OfThisEpoch, stillGranted, currentGrant
      <4>2. cached' # None
        BY <2>1, <2>2, <3>2, <4>1 DEF SessionIsCached, OnTheCached
      <4> QED BY <2>1, <3>2, <4>2 DEF InForceIsAsConfigured
    <3> QED BY <1>2, <3>1, <3>2 DEF Continuation, RoutingGoesOn
  <2> QED BY <2>3, <2>4 DEF SessionIsCached
<1> QED BY <1>1, <1>2
LEMMA PartitionStep ==
  ASSUME TypeOK, OnePartition, Withdrawal \/ Continuation
  PROVE  OnePartition'
<1> SUFFICES ASSUME spoiled' = 0
             PROVE  /\ cached' \in {None, 0} /\ \A w \in wipes' : w.part = 0
                    /\ \A c \in Callers : call'[c] \in Applying \cup Built => call'[c].part = 0
                    /\ \A p \in Partitions : p # 0 => jar'[p] = {}
  BY DEF OnePartition
<1>1. spoiled = 0
  BY DEF Withdrawal, Continuation, StoreGoesOn, Settles, store
<1>2. /\ cached \in {None, 0} /\ \A w \in wipes : w.part = 0
      /\ \A c \in Callers : call[c] \in Applying \cup Built => call[c].part = 0
      /\ \A p \in Partitions : p # 0 => jar[p] = {}
  BY <1>1 DEF OnePartition
<1>3. cached' \in {None, 0}
  BY <1>2 DEF Withdrawal, Continuation, CacheGoesOn, store
<1>4. \A w \in wipes' : w.part = 0
  <2>1. CASE wipes' \subseteq wipes
    BY <1>2, <2>1
  <2>2. ASSUME NEW p \in Partitions, wipes' = wipes \cup {[id |-> epoch', part |-> p]},
               p = cached \/ \E c \in Callers : call[c] \in Applying /\ p = call[c].part
        PROVE  \A w \in wipes' : w.part = 0
    <3>1. p = 0
      BY <1>2, <2>2, NoneIsNoPartition
    <3> QED BY <1>2, <2>2, <3>1
  <2> QED BY <2>1, <2>2 DEF Withdrawal, Continuation, StoreGoesOn, Settles, store
<1>5. ASSUME NEW d \in Callers, call'[d] \in Applying \cup Built PROVE call'[d].part = 0
  <2>1. CASE Kept(call[d], call'[d])
    BY <1>2, <1>5, <2>1, Kinds DEF Kept
  <2>2. CASE Asks(d)
    BY <1>5, <2>2 DEF Asks, Applying, Built
  <2>3. CASE Applies(d)
    BY <1>1, <1>2, <2>3 DEF Applies
  <2>4. CASE Builds(d)
    BY <1>2, <2>4 DEF Builds
  <2> QED BY <2>1, <2>2, <2>3, <2>4 DEF Withdrawal, Continuation, CallersGoOn
<1>6. ASSUME NEW p \in Partitions, p # 0 PROVE jar'[p] = {}
  <2>1. CASE jar' = jar
    BY <1>2, <1>6, <2>1
  <2>2. ASSUME NEW q, jar' = [jar EXCEPT ![q] = {}] PROVE jar'[p] = {}
    BY <1>2, <1>6, <2>2 DEF TypeOK
  <2>3. ASSUME NEW c \in Callers, At(c, "flying"),
               jar' = [jar EXCEPT ![call[c].part] = @ \cup {call[c].granted}]
        PROVE  jar'[p] = {}
    <3>1. call[c].part = 0
      BY <1>2, <2>3, CallKinds
    <3> QED BY <1>2, <1>6, <2>3, <3>1 DEF TypeOK
  <2> QED BY <2>1, <2>2, <2>3 DEF Withdrawal, Continuation, JarGoesOn
<1> QED BY <1>3, <1>4, <1>5, <1>6

LEMMA WaitStep ==
  ASSUME TypeOK, GrantsArePast, WaitedForTheWipe, Withdrawal \/ Continuation
  PROVE  WaitedForTheWipe'
<1> SUFFICES ASSUME NEW d \in Callers, OfThisEpoch(d)', clearing' # None
             PROVE  (At(d, "clearing") /\ call[d].wait = clearing)'
  BY DEF WaitedForTheWipe
<1>1. CASE Withdrawal
  <2>1. UNCHANGED <<epoch, store, call>>
    BY <1>1, EpochMoves DEF Withdrawal
  <2> QED BY <2>1 DEF WaitedForTheWipe, OfThisEpoch, At, store
<1>2. CASE Continuation
  <2>1. epoch' = epoch /\ clearing' = clearing /\ clearing # None
    BY <1>2 DEF Continuation, grants, StoreGoesOn, Settles
  <2>2. call[d] \in Call /\ call'[d] \in Call
    BY <1>2 DEF TypeOK, Call, Continuation, CallersGoOn
  <2>3. OfThisEpoch(d) => call[d] \in Waiting /\ call[d].wait = clearing
    BY <2>1, <2>2, Kinds DEF WaitedForTheWipe, At
  <2>4. OfThisEpoch(d) => ~Wiped(d)
    <3>1. \E w \in wipes : clearing = w.id
      BY <2>1 DEF TypeOK
    <3> QED BY <2>3, <3>1 DEF Wiped
  <2>5. CASE Asks(d)
    BY <2>1, <2>5 DEF Asks, At
  <2>6. CASE ~Asks(d)
    <3>1. OfThisEpoch(d)
      BY <1>2, <2>1, <2>6, PermissionsAreCarried DEF OfThisEpoch
    <3>2. ~Applies(d) /\ ~Builds(d)
      BY <2>3, <2>4, <3>1, Kinds DEF Applies, Builds
    <3>3. Kept(call[d], call'[d])
      BY <1>2, <2>6, <3>2 DEF Continuation, CallersGoOn
    <3>4. call'[d] = call[d]
      BY <2>2, <2>3, <3>1, <3>3, Kinds DEF Kept, OfThisEpoch, At
    <3> QED BY <2>1, <2>2, <2>3, <3>1, <3>4, Kinds DEF At
  <2> QED BY <2>5, <2>6
<1> QED BY <1>1, <1>2

LEMMA CookiesStep ==
  ASSUME TypeOK, InForceIsAsConfigured, SessionIsCached, OnePartition, CookiesAreCovered,
         Withdrawal \/ Continuation
  PROVE  CookiesAreCovered'
<1> SUFFICES ASSUME spoiled' = 0, clearing' = None, NEW p \in Partitions
             PROVE  (jar[p] \subseteq {currentGrant} /\ (jar[p] # {} => cached # None))'
  BY DEF CookiesAreCovered
<1>1. spoiled = 0
  BY DEF Withdrawal, Continuation, StoreGoesOn, Settles, store
<1>2. CASE Withdrawal
  <2>1. epoch' # None
    BY <1>2, NoneIsNoPartition DEF Withdrawal
  <2>2. cached = None /\ clearing = None
    BY <1>2, <2>1 DEF Withdrawal, store
  <2>3. jar'[p] = {}
    BY <1>1, <1>2, <2>2 DEF Withdrawal, CookiesAreCovered
  <2> QED BY <2>3
<1>3. CASE Continuation
  <2>1. currentGrant' = currentGrant /\ (cached' = cached \/ cached' # None)
    BY <1>3, Kinds, NoneIsNoPartition DEF Continuation, CacheGoesOn, grants, currentGrant
  <2>2. CASE clearing = None
    <3>1. jar[p] \subseteq {currentGrant} /\ (jar[p] # {} => cached # None)
      BY <1>1, <2>2 DEF CookiesAreCovered
    <3>2. CASE jar' = jar
      BY <2>1, <3>1, <3>2
    <3>3. ASSUME NEW q \in Partitions, jar' = [jar EXCEPT ![q] = {}]
          PROVE  jar'[p] = {} \/ jar'[p] = jar[p]
      BY <3>3 DEF TypeOK
    <3>4. ASSUME NEW c \in Callers, At(c, "flying"),
                 jar' = [jar EXCEPT ![call[c].part] = @ \cup {call[c].granted}]
          PROVE  /\ jar'[p] \in {jar[p], jar[p] \cup {currentGrant}}
                 /\ cached # None
      <4>1. stillGranted(c) /\ call[c] \in Built /\ ~At(c, "idle")
        BY <3>4, CallKinds DEF InForceIsAsConfigured, At
      <4>2. OfThisEpoch(c) /\ OnTheCached(c) /\ call[c].granted = currentGrant
        BY <4>1 DEF OfThisEpoch, OnTheCached, stillGranted, currentGrant
      <4>3. cached # None
        BY <4>2 DEF SessionIsCached
      <4> QED BY <3>4, <4>2, <4>3 DEF TypeOK
    <3> QED BY <1>3, <2>1, <3>1, <3>2, <3>3, <3>4 DEF Continuation, JarGoesOn
  <2>3. CASE clearing # None
    <3>1. PICK w \in wipes : jar' = [jar EXCEPT ![w.part] = {}]
      BY <1>3, <2>3 DEF Continuation, StoreGoesOn, Settles
    <3>2. w.part = 0 /\ (p # 0 => jar[p] = {})
      BY <1>1 DEF OnePartition
    <3>3. jar'[p] = {}
      BY <3>1, <3>2 DEF TypeOK
    <3> QED BY <3>3
  <2> QED BY <2>2, <2>3
<1> QED BY <1>2, <1>3
-----------------------------------------------------------------------------
(* What a step does to the queue of applications and to the record of them.*)
Applicants == {c \in Callers : At(c, "applying")}
QueueStays == UNCHANGED <<queue, landed>> /\ Applicants' = Applicants
Joins(c) ==
  /\ First(c) /\ c \notin Applicants /\ UNCHANGED landed
  /\ queue' = Append(queue, c) /\ Applicants' = Applicants \cup {c}
HeadLeaves ==
  /\ queue # <<>> /\ queue' = Tail(queue) /\ Applicants' = Applicants \ {Head(queue)}
  /\ landed' \in {landed, call[Head(queue)].granted}

LEMMA Leaving ==
  ASSUME TypeOK, NEW c \in Callers, NEW next \in Call, Becomes(c, next), next.pc # "applying"
  PROVE  Applicants' = Applicants \ {c}
<1>1. \A d \in Callers : call'[d] = IF d = c THEN next ELSE call[d]
  BY BecomesOnly
<1> QED BY <1>1 DEF Applicants, At

LEMMA AbortedLeavesQueue ==
  ASSUME NEW before \in [Callers -> Call], Aborted(before)
  PROVE  Applicants' = {d \in Callers : before[d].pc = "applying"}
<1>1. \A d \in Callers : call'[d].pc = "applying" <=> before[d].pc = "applying"
  <2> TAKE d \in Callers
  <2>1. call' = [c \in Callers |->
                   IF before[c].pc = "flying" THEN [before[c] EXCEPT !.pc = "built"] ELSE before[c]]
    BY DEF Aborted
  <2>2. before[d].pc = "flying" => call'[d].pc = "built"
    <3>1. before[d].pc = "flying" => before[d] \in Built
      BY Kinds
    <3> QED BY <2>1, <3>1 DEF Built
  <2> QED BY <2>1, <2>2
<1> QED BY <1>1 DEF Applicants, At

LEMMA GrantedLeaves ==
  ASSUME TypeOK, NEW c \in Callers, NEW session, NEW part \in Partitions, ~At(c, "idle"),
         Granted(c, session, part)
  PROVE  Applicants' = Applicants \ {c}
<1>1. CASE stillGranted(c)
  <2> DEFINE next == [pc |-> "built", granted |-> call[c].granted, route |-> call[c].route,
                      part |-> part]
  <2>1. next \in Built
    BY CallKinds DEF Built
  <2>2. next \in Call /\ Becomes(c, next) /\ next.pc # "applying"
    BY <1>1, <2>1 DEF Granted, Call
  <2> HIDE DEF next
  <2> QED BY <2>2, Leaving
<1>2. CASE ~stillGranted(c) /\ generation # call[c].granted[1]
  <2> DEFINE before == [call EXCEPT ![c] = Idle]
  <2>1. Aborted(before)
    BY <1>2 DEF Granted, Refused, Forget
  <2>2. before \in [Callers -> Call]
        /\ \A d \in Callers : before[d] = IF d = c THEN Idle ELSE call[d]
    BY DEF TypeOK, Call
  <2> HIDE DEF before
  <2> QED BY <2>1, <2>2, AbortedLeavesQueue DEF Applicants, At, Idle
<1>3. CASE ~stillGranted(c) /\ generation = call[c].granted[1]
  <2>1. Becomes(c, Idle) /\ Idle \in Call /\ Idle.pc # "applying"
    BY <1>3 DEF Granted, Refused, Call, Idle
  <2> QED BY <2>1, Leaving
<1> QED BY <1>1, <1>2, <1>3

LEMMA QueueShape ==
  ASSUME TypeOK, [Next]_vars
  PROVE  QueueStays \/ HeadLeaves \/ \E c \in Callers : Joins(c)
<1> DEFINE Shape == QueueStays \/ HeadLeaves \/ \E c \in Callers : Joins(c)
<1> HIDE DEF Shape
<1>i. Idle \in Call /\ Idle.pc # "applying" /\ Idle.pc = "idle"
  BY DEF Call, Idle
<1>f. call \in [Callers -> Call]
  BY DEF TypeOK, Call
<1>1. ASSUME NEW c \in Callers, NEW next \in Call, Becomes(c, next), next.pc # "applying",
             ~At(c, "applying"), UNCHANGED <<queue, landed>>
      PROVE  Shape
  BY <1>1, Leaving DEF QueueStays, Applicants, Shape
<1>2. ASSUME NEW c \in Callers, ForAccount(c) PROVE Shape
  <2> DEFINE next == [pc |-> "clearing", granted |-> currentGrant, route |-> stored,
                      wait |-> clearing]
  <2>1. next \in Call
    BY DEF TypeOK, Call, Waiting, Ids
  <2>2. Becomes(c, next) /\ next.pc # "applying" /\ ~At(c, "applying")
        /\ UNCHANGED <<queue, landed>>
    BY <1>2 DEF ForAccount, chromium, At
  <2> HIDE DEF next
  <2> QED BY <1>1, <2>1, <2>2
<1>3. ASSUME NEW c \in Callers, Reuse(c) PROVE Shape
  <2>1. cached \in Partitions /\ At(c, "clearing") /\ Granted(c, cached, cached)
        /\ UNCHANGED <<queue, landed>>
    BY <1>3 DEF Reuse, First, Resumed, TypeOK, chromium
  <2>2. Applicants' = Applicants \ {c}
    BY <2>1, GrantedLeaves DEF At
  <2> QED BY <2>1, <2>2 DEF Shape, QueueStays, Applicants, At
<1>4. ASSUME NEW c \in Callers, Apply(c) PROVE Shape
  <2> DEFINE next == [pc |-> "applying", granted |-> call[c].granted, route |-> call[c].route,
                      fresh |-> cached = None,
                      part |-> IF cached = None THEN spoiled ELSE cached]
  <2>1. call[c] \in Waiting /\ At(c, "clearing")
    BY <1>4, CallKinds DEF Apply, First, Resumed
  <2>2. next \in Applying
    BY <2>1 DEF TypeOK, Waiting, Applying
  <2>3. Becomes(c, next) /\ next \in Call /\ next.pc = "applying"
    BY <1>4, <2>2 DEF Apply, Call
  <2> HIDE DEF next
  <2>4. \A d \in Callers : call'[d] = IF d = c THEN next ELSE call[d]
    BY <2>3, BecomesOnly
  <2>5. Applicants' = Applicants \cup {c} /\ c \notin Applicants
    BY <2>1, <2>3, <2>4 DEF Applicants, At
  <2> QED BY <1>4, <2>5 DEF Apply, SetProxy, Joins, Shape
<1>5. ASSUME NEW c \in Callers, Applied(c) PROVE Shape
  <2>1. call[c] \in Applying /\ ~At(c, "idle")
    BY <1>5, HeadIsApplying DEF Applied, Applying, At
  <2>2. Applicants' = Applicants \ {c}
    BY <1>5, <2>1, GrantedLeaves DEF Applied, Applying
  <2> QED BY <1>5, <2>2 DEF Applied, Lands, HeadLeaves, Shape
<1>6. ASSUME NEW c \in Callers, ApplyFails(c) PROVE Shape
  <2>1. Applicants' = Applicants \ {c}
    BY <1>6, <1>i, Leaving DEF ApplyFails
  <2> QED BY <1>6, <2>1 DEF ApplyFails, ChainGoesOn, HeadLeaves, Shape
<1>7. ASSUME NEW c \in Callers, Revoked(c) \/ Ends(c) \/ NotRouted(c) PROVE Shape
  <2>1. Becomes(c, Idle) /\ ~At(c, "applying") /\ UNCHANGED <<queue, landed>>
    BY <1>7 DEF Revoked, Ends, NotRouted, At, chromium
  <2> QED BY <1>1, <1>i, <2>1
<1>8. ASSUME NEW c \in Callers, Perform(c) \/ RoutedAndSent(c) \/ Answered(c) PROVE Shape
  <2>1. call[c] \in Built /\ ~At(c, "applying") /\ UNCHANGED <<queue, landed>>
    BY <1>8, CallKinds DEF Perform, RoutedAndSent, Answered, At, chromium
  <2>2. PICK pc \in {"built", "resolving", "flying"} : Moves(c, pc)
    BY <1>8 DEF Perform, RoutedAndSent, Answered
  <2>3. \A d \in Callers : call'[d].pc = IF d = c THEN pc ELSE call[d].pc
    BY <2>1, <2>2, MovesKeeps
  <2>4. Applicants' = Applicants
    BY <2>1, <2>3 DEF Applicants, At
  <2> QED BY <2>1, <2>4 DEF QueueStays, Shape
<1>9. ASSUME UNCHANGED <<queue, landed>>, UNCHANGED call \/ Aborted(call) PROVE Shape
  <2>1. CASE UNCHANGED call
    BY <1>9, <2>1 DEF QueueStays, Applicants, At, Shape
  <2>2. CASE Aborted(call)
    BY <1>9, <1>f, <2>2, AbortedLeavesQueue DEF QueueStays, Applicants, At, Shape
  <2> QED BY <1>9, <2>1, <2>2
<1>10. ASSUME NEW w \in wipes, Wipe(w) \/ WipeFails(w) PROVE Shape
  BY <1>9, <1>10 DEF Wipe, WipeFails, Settled, chromium
<1>11. ASSUME NEW r \in Routes, SaveProxy(r) PROVE Shape
  BY <1>9, <1>11 DEF SaveProxy, Forget, chromium
<1>12. CASE RequireProxies \/ Lock
  <2>1. ForgetAll /\ UNCHANGED <<queue, landed>>
    BY <1>12, Zenon DEF RequireProxies, Lock, chromium
  <2>2. UNCHANGED call \/ Aborted(call)
    BY <2>1 DEF ForgetAll, Forget
  <2> QED BY <1>9, <2>1, <2>2 DEF Shape
<1>13. CASE AllowDirect \/ Unlock \/ UNCHANGED vars
  <2>1. UNCHANGED <<chromium, call>>
    <3>1. CASE AllowDirect
      BY <3>1 DEF AllowDirect
    <3>2. CASE Unlock
      BY <3>2 DEF Unlock
    <3>3. CASE UNCHANGED vars
      BY <3>3 DEF vars
    <3> QED BY <1>13, <3>1, <3>2, <3>3
  <2> QED BY <1>9, <2>1 DEF chromium, Shape
<1> QED BY <1>2, <1>3, <1>4, <1>5, <1>6, <1>7, <1>8, <1>10, <1>11, <1>12, <1>13
        DEF Next, Operation, Shape

(* The queue holds each applicant once.                                    *)
Queued == queue \in Seq(Callers) /\ IsInjective(queue) /\ Range(queue) = Applicants

LEMMA QueueStep ==
  ASSUME TypeOK, [Next]_vars
  PROVE  Queued'
<1>1. Queued
  BY DEF TypeOK, Queued, Applicants
<1>2. CASE QueueStays
  BY <1>1, <1>2 DEF QueueStays, Queued, IsInjective, Range
<1>3. ASSUME NEW c \in Callers, Joins(c) PROVE Queued'
  <2>1. /\ queue' \in Seq(Callers) /\ DOMAIN queue' = 1..(Len(queue) + 1)
        /\ DOMAIN queue = 1..Len(queue) /\ Len(queue) \in Nat
        /\ \A i \in DOMAIN queue : queue'[i] = queue[i]
        /\ queue'[Len(queue) + 1] = c
    BY <1>1, <1>3 DEF Joins, Queued
  <2>2. \A i \in DOMAIN queue : queue[i] # c
    BY <1>1, <1>3 DEF Joins, Queued, Range
  <2>3. IsInjective(queue')
    BY <1>1, <2>1, <2>2 DEF Queued, IsInjective
  <2>4. Range(queue') = Range(queue) \cup {c}
    BY <2>1 DEF Range
  <2> QED BY <1>1, <1>3, <2>1, <2>3, <2>4 DEF Joins, Queued
<1>4. CASE HeadLeaves
  <2>1. /\ queue' \in Seq(Callers) /\ Len(queue) \in Nat \ {0}
        /\ DOMAIN queue = 1..Len(queue) /\ DOMAIN queue' = 1..(Len(queue) - 1)
        /\ \A i \in DOMAIN queue' : queue'[i] = queue[i + 1]
        /\ Head(queue) = queue[1]
    BY <1>1, <1>4 DEF HeadLeaves, Queued
  <2>2. IsInjective(queue')
    BY <1>1, <2>1 DEF Queued, IsInjective
  <2>3. Range(queue') = Range(queue) \ {Head(queue)}
    <3>1. ASSUME NEW x \in Range(queue) \ {Head(queue)} PROVE x \in Range(queue')
      <4>1. PICK i \in DOMAIN queue : x = queue[i]
        BY DEF Range
      <4>2. i - 1 \in DOMAIN queue' /\ queue'[i - 1] = x
        BY <2>1, <4>1, <3>1
      <4> QED BY <4>2 DEF Range
    <3>2. ASSUME NEW x \in Range(queue') PROVE x \in Range(queue) \ {Head(queue)}
      <4>1. PICK i \in DOMAIN queue' : x = queue'[i]
        BY DEF Range
      <4>2. i + 1 \in DOMAIN queue /\ 1 \in DOMAIN queue /\ x = queue[i + 1] /\ i + 1 # 1
        BY <2>1, <4>1
      <4> QED BY <1>1, <2>1, <4>2 DEF Range, Queued, IsInjective
    <3> QED BY <3>1, <3>2
  <2> QED BY <1>1, <1>4, <2>1, <2>2, <2>3 DEF HeadLeaves, Queued
<1> QED BY <1>2, <1>3, <1>4, QueueShape
-----------------------------------------------------------------------------
LEMMA FlagsStep ==
  ASSUME TypeOK, [Next]_vars
  PROVE  unlocked' \in BOOLEAN /\ requireProxies' \in BOOLEAN /\ overtaken' \in BOOLEAN
<1>t. unlocked \in BOOLEAN /\ requireProxies \in BOOLEAN /\ overtaken \in BOOLEAN
  BY Zenon DEF TypeOK
<1>u. ASSUME UNCHANGED <<vault, overtaken>>
      PROVE  unlocked' \in BOOLEAN /\ requireProxies' \in BOOLEAN /\ overtaken' \in BOOLEAN
  <2>1. unlocked' = unlocked /\ requireProxies' = requireProxies /\ overtaken' = overtaken
    BY <1>u DEF vault
  <2> QED BY <1>t, <2>1, Zenon
<1>1. ASSUME NEW c \in Callers, Operation(c)
      PROVE  unlocked' \in BOOLEAN /\ requireProxies' \in BOOLEAN /\ overtaken' \in BOOLEAN
  <2>1. UNCHANGED <<vault, overtaken>>
    BY <1>1 DEF Operation, ForAccount, Reuse, Apply, Applied, ApplyFails, Perform, RoutedAndSent,
       NotRouted, Revoked, Answered, Ends, Granted, Refused, Forget, store
  <2> QED BY <1>u, <2>1
<1>2. ASSUME NEW w \in wipes, Wipe(w) \/ WipeFails(w)
      PROVE  unlocked' \in BOOLEAN /\ requireProxies' \in BOOLEAN /\ overtaken' \in BOOLEAN
  <2>1. UNCHANGED vault /\ overtaken' = (overtaken \/ \E v \in wipes : v.id < w.id)
    BY <1>2, Zenon DEF Wipe, WipeFails, Settled
  <2>2. unlocked' = unlocked /\ requireProxies' = requireProxies
    BY <2>1 DEF vault
  <2>3. overtaken' \in BOOLEAN
    BY <2>1, Zenon
  <2> QED BY <1>t, <2>2, <2>3, Zenon
<1>3. overtaken' = overtaken \/ \E w \in wipes : Wipe(w) \/ WipeFails(w)
  <2>1. ASSUME ForgetAll PROVE overtaken' = overtaken
    BY <2>1 DEF ForgetAll, Forget, store
  <2>2. ASSUME NEW r \in Routes, SaveProxy(r) PROVE overtaken' = overtaken
    BY <2>2 DEF SaveProxy, Forget
  <2>3. ASSUME NEW c \in Callers, Operation(c) PROVE overtaken' = overtaken
    BY <2>3 DEF Operation, ForAccount, Reuse, Apply, Applied, ApplyFails, Perform, RoutedAndSent,
       NotRouted, Revoked, Answered, Ends, Granted, Refused, Forget, store
  <2>4. AllowDirect \/ Unlock \/ UNCHANGED vars => overtaken' = overtaken
    BY DEF AllowDirect, Unlock, vars, store
  <2> QED BY <2>1, <2>2, <2>3, <2>4 DEF Next, RequireProxies, Lock
<1>4. ASSUME NEW r \in Routes, SaveProxy(r)
      PROVE  unlocked' = unlocked /\ requireProxies' = requireProxies
  BY <1>4 DEF SaveProxy
<1>5. CASE RequireProxies \/ AllowDirect
  <2>1. unlocked' = unlocked /\ requireProxies' \in BOOLEAN
    BY <1>5 DEF RequireProxies, AllowDirect
  <2>2. overtaken' = overtaken
    BY <1>5 DEF RequireProxies, AllowDirect, ForgetAll, Forget, store
  <2> QED BY <1>t, <2>1, <2>2, Zenon
<1>6. CASE Lock \/ Unlock
  <2>1. requireProxies' = requireProxies /\ unlocked' \in BOOLEAN
    BY <1>6 DEF Lock, Unlock
  <2>2. overtaken' = overtaken
    BY <1>6 DEF Lock, Unlock, ForgetAll, Forget, store
  <2> QED BY <1>t, <2>1, <2>2, Zenon
<1>7. CASE UNCHANGED vars
  <2>1. UNCHANGED <<vault, overtaken>>
    BY <1>7 DEF vars, store
  <2> QED BY <1>u, <2>1
<1>8. ASSUME NEW r \in Routes, SaveProxy(r)
      PROVE  unlocked' \in BOOLEAN /\ requireProxies' \in BOOLEAN /\ overtaken' \in BOOLEAN
  <2>1. overtaken' = overtaken
    BY <1>8 DEF SaveProxy, Forget
  <2> QED BY <1>t, <1>4, <1>8, <2>1, Zenon
<1> QED BY <1>1, <1>2, <1>5, <1>6, <1>7, <1>8 DEF Next

(* Only the head of the queue changes what is applied.                     *)
LEMMA ChromiumStep ==
  ASSUME TypeOK, [Next]_vars
  PROVE  /\ config' \in [Partitions -> Routes] /\ appliedProxy' \in Routes \cup {None}
         /\ landed' \in Grant /\ spoiled' \in Partitions /\ stored' \in Routes
<1>t. /\ config \in [Partitions -> Routes] /\ appliedProxy \in Routes \cup {None}
      /\ landed \in Grant /\ spoiled \in Partitions /\ stored \in Routes
  BY DEF TypeOK
<1>1. ASSUME NEW c \in Callers, Applied(c) PROVE UNCHANGED <<stored, spoiled>> /\ Lands(c)
                                                 /\ call[c] \in Applying
  BY <1>1, HeadIsApplying DEF Applied, Granted, Refused, Forget, vault
<1>2. ASSUME NEW c \in Callers, Applied(c)
      PROVE  /\ config' \in [Partitions -> Routes] /\ appliedProxy' \in Routes
             /\ landed' \in Grant
  BY <1>t, <1>1, <1>2 DEF Lands, Applying
<1>3. ASSUME NEW c \in Callers, Operation(c), ~Applied(c)
      PROVE  UNCHANGED <<config, landed, stored, spoiled>> /\ appliedProxy' \in {appliedProxy, None}
  BY <1>3 DEF Operation, ForAccount, Reuse, Apply, ApplyFails, Perform, RoutedAndSent,
     NotRouted, Revoked, Answered, Ends, Granted, Refused, Forget, store, chromium, vault
<1>4. ASSUME NEW w \in wipes, Wipe(w) \/ WipeFails(w)
      PROVE  UNCHANGED <<chromium, vault>> /\ spoiled' \in Partitions
  BY <1>t, <1>4, RouteAssumption DEF Wipe, WipeFails, Settled, Partitions
<1>5. ASSUME NEW r \in Routes, SaveProxy(r)
      PROVE  UNCHANGED <<chromium, spoiled>> /\ stored' \in Routes
  BY <1>5 DEF SaveProxy, Forget
<1>6. ASSUME RequireProxies \/ Lock PROVE UNCHANGED <<chromium, spoiled, stored>>
  BY <1>6 DEF RequireProxies, Lock, ForgetAll, Forget, store
<1>7. ASSUME AllowDirect \/ Unlock \/ UNCHANGED vars PROVE UNCHANGED <<chromium, spoiled, stored>>
  BY <1>7 DEF AllowDirect, Unlock, vars, store, vault
<1>8. CASE \E c \in Callers : Operation(c)
  BY <1>t, <1>1, <1>2, <1>3, <1>8 DEF Operation
<1>9. CASE UNCHANGED chromium /\ stored' \in Routes /\ spoiled' \in Partitions
  BY <1>t, <1>9 DEF chromium
<1>10. UNCHANGED vault => stored' = stored
  BY DEF vault
<1> QED BY <1>t, <1>4, <1>5, <1>6, <1>7, <1>8, <1>9, <1>10 DEF Next

LEMMA ClearingStep ==
  ASSUME TypeOK, GrantsArePast, [Next]_vars
  PROVE  clearing' = None \/ clearing' \in {w.id : w \in wipes'}
<1>1. clearing = None \/ \E w \in wipes : w.id = clearing
  BY DEF TypeOK
<1>2. CASE UNCHANGED <<wipes, clearing>>
  BY <1>1, <1>2
<1>3. ASSUME NEW w \in wipes, Wipe(w) \/ WipeFails(w)
      PROVE  clearing' = None \/ clearing' \in {v.id : v \in wipes'}
  BY <1>1, <1>3 DEF Wipe, WipeFails, Settled
<1>4. ASSUME NEW session, NEW before, Forget(session, before)
      PROVE  clearing' = None \/ clearing' \in {v.id : v \in wipes'}
  <2>1. CASE session = None
    BY <1>1, <1>4, <2>1 DEF Forget
  <2>2. CASE session # None
    <3>1. /\ clearing' = epoch'
          /\ [id |-> epoch', part |-> session] \in wipes'
      BY <1>4, <2>2 DEF Forget
    <3>2. [id |-> epoch', part |-> session].id = epoch'
      OBVIOUS
    <3> QED BY <3>1, <3>2
  <2> QED BY <2>1, <2>2
<1>5. ASSUME NEW c \in Callers, NEW session, NEW part, Granted(c, session, part)
      PROVE  clearing' = None \/ clearing' \in {v.id : v \in wipes'}
  BY <1>2, <1>4, <1>5 DEF Granted, Refused
<1>6. ASSUME ForgetAll PROVE clearing' = None \/ clearing' \in {v.id : v \in wipes'}
  BY <1>2, <1>4, <1>6 DEF ForgetAll, store
<1>7. ASSUME NEW c \in Callers, Operation(c)
      PROVE  clearing' = None \/ clearing' \in {v.id : v \in wipes'}
  <2>1. CASE Reuse(c) \/ Applied(c)
    BY <1>5, <2>1 DEF Reuse, Applied
  <2>2. CASE ~(Reuse(c) \/ Applied(c))
    BY <1>2, <1>7, <2>2 DEF Operation, ForAccount, Apply, ApplyFails, Perform, RoutedAndSent,
       NotRouted, Revoked, Answered, Ends, store
  <2> QED BY <2>1, <2>2
<1>8. AllowDirect \/ Unlock \/ UNCHANGED vars => UNCHANGED <<wipes, clearing>>
  BY DEF AllowDirect, Unlock, vars, store
<1> QED BY <1>2, <1>3, <1>4, <1>6, <1>7, <1>8 DEF Next, SaveProxy, RequireProxies, Lock

LEMMA TypeStep ==
  ASSUME TypeOK, GrantsArePast, SessionIsCached', [Next]_vars
  PROVE  TypeOK'
<1>s. Withdrawal \/ Continuation
  BY StepShape
<1>1. ({unlocked, requireProxies, overtaken} \subseteq BOOLEAN)'
  BY FlagsStep, Zenon
<1>2. currentGrant' \in Grant
  BY <1>s, TimeIsNumbers DEF Withdrawal, Continuation, grants, currentGrant, Grant
<1>3. cached' \in Partitions \cup {None}
  BY <1>s, Kinds DEF Withdrawal, Continuation, CacheGoesOn, TypeOK, store
<1>4. wipes' \subseteq [id : Ids, part : Partitions]
  <2>1. wipes \subseteq [id : Ids, part : Partitions]
    BY DEF TypeOK
  <2>2. ASSUME NEW p \in Partitions, epoch' = epoch + 1, epoch' \in 0..MaxForgets
        PROVE  [id |-> epoch', part |-> p] \in [id : Ids, part : Partitions]
    BY <2>2, TimeIsNumbers DEF Ids
  <2> QED BY <1>s, <2>1, <2>2 DEF Withdrawal, Continuation, StoreGoesOn, Settles, store
<1>5. jar' \in [Partitions -> SUBSET Grant]
  <2>1. jar \in [Partitions -> SUBSET Grant]
    BY DEF TypeOK
  <2>2. ASSUME NEW c \in Callers, At(c, "flying") PROVE call[c].granted \in Grant
    BY <2>2, CallKinds DEF At
  <2> QED BY <1>s, <2>1, <2>2 DEF Withdrawal, Continuation, JarGoesOn
<1>6. routing' = None \/ (routing.via)' \in Routes
  BY ChromiumStep DEF SessionIsCached
<1>7. call' \in [Callers -> {Idle} \cup Waiting \cup Applying \cup Built]
  BY <1>s DEF Withdrawal, Continuation, CallersGoOn, Call
<1> QED BY <1>1, <1>2, <1>3, <1>4, <1>5, <1>6, <1>7, QueueStep, ChromiumStep, ClearingStep
        DEF TypeOK, Queued, Applicants
-----------------------------------------------------------------------------
(* Times are compared like numbers of two digits.                          *)
LEMMA OlderIsAnOrder ==
  ASSUME NEW f, NEW g, NEW h, f[1] \in Nat, f[2] \in Nat, g[1] \in Nat, g[2] \in Nat,
         h[1] \in Nat, h[2] \in Nat
  PROVE  ~Older(f, f) /\ (~Older(g, f) /\ ~Older(h, g) => ~Older(h, f))
BY DEF Older

LEMMA NothingIsLater ==
  ASSUME TypeOK, GrantsArePast
  PROVE  /\ ~Older(currentGrant, landed)
         /\ \A d \in Callers : ~At(d, "idle") => ~Older(currentGrant, call[d].granted)
BY TimeIsNumbers DEF GrantsArePast, Past, Older, currentGrant

LEMMA InTurnNow ==
  ASSUME TypeOK, InTurn, Withdrawal \/ Continuation, overtaken' = FALSE
  PROVE  ClearingIsNewest /\ WaitsInTurn /\ QueueIsInTurn
<1>1. overtaken = FALSE
  BY DEF Withdrawal, Continuation, StoreGoesOn, Settles, store
<1> QED BY <1>1 DEF InTurn

LEMMA NewestStep ==
  ASSUME TypeOK, GrantsArePast, ClearingIsNewest, Withdrawal \/ Continuation, overtaken' = FALSE
  PROVE  ClearingIsNewest'
<1>1. CASE UNCHANGED <<wipes, clearing>>
  BY <1>1 DEF ClearingIsNewest
<1>2. ASSUME NEW w \in wipes, Settles(w) PROVE ClearingIsNewest'
  <2> SUFFICES ASSUME NEW v \in wipes' PROVE clearing' # None /\ v.id <= clearing'
    BY DEF ClearingIsNewest
  <2>1. v \in wipes /\ v # w /\ v.id \in Nat /\ w.id \in Nat /\ ~(v.id < w.id)
    BY <1>2, TimeIsNumbers DEF Settles
  <2>2. v.id # w.id
    BY <2>1 DEF GrantsArePast
  <2>3. clearing # None /\ v.id <= clearing /\ w.id <= clearing /\ clearing \in Nat
    BY <2>1, TimeIsNumbers DEF ClearingIsNewest, TypeOK, Ids
  <2>4. clearing # w.id
    BY <2>1, <2>2, <2>3
  <2> QED BY <1>2, <2>3, <2>4 DEF Settles
<1>3. ASSUME NEW p, wipes' = wipes \cup {[id |-> epoch', part |-> p]}, clearing' = epoch',
             epoch' = epoch + 1
      PROVE  ClearingIsNewest'
  <2> SUFFICES ASSUME NEW v \in wipes' PROVE clearing' # None /\ v.id <= clearing'
    BY DEF ClearingIsNewest
  <2>1. clearing' # None
    BY <1>3, TimeIsNumbers, NoneIsNoPartition
  <2>2. CASE v \in wipes
    BY <1>3, <2>1, <2>2, TimeIsNumbers DEF GrantsArePast
  <2>3. CASE v = [id |-> epoch', part |-> p]
    BY <1>3, <2>1, <2>3, TimeIsNumbers
  <2> QED BY <1>3, <2>2, <2>3
<1> QED BY <1>1, <1>2, <1>3 DEF Withdrawal, Continuation, StoreGoesOn, store

(* Whoever waits to go on has waited so far, or asks now.                  *)
LEMMA WaitersCarryOn ==
  ASSUME TypeOK, Withdrawal \/ Continuation, NEW d \in Callers, At(d, "clearing")'
  PROVE  (At(d, "clearing") /\ call'[d] = call[d]) \/ (Continuation /\ Asks(d))
<1>1. call[d] \in Call /\ call'[d] \in Call /\ call'[d] \in Waiting
  BY Kinds DEF TypeOK, Call, Withdrawal, Continuation, CallersGoOn, At
<1>2. Kept(call[d], call'[d]) => call'[d] = call[d]
  BY <1>1, Kinds DEF Kept
<1>3. ~Applies(d) /\ ~Builds(d)
  BY <1>1, Kinds DEF Applies, Builds
<1> QED BY <1>1, <1>2, <1>3, Kinds DEF Withdrawal, Continuation, CallersGoOn, At

LEMMA WaitsStep ==
  ASSUME TypeOK, GrantsArePast, ClearingIsNewest, WaitsInTurn, Withdrawal \/ Continuation,
         overtaken' = FALSE
  PROVE  WaitsInTurn'
<1> SUFFICES ASSUME NEW c \in Callers, NEW d \in Callers, Unwiped(c)', At(d, "clearing")',
                    Older(call'[c].granted, call'[d].granted)
             PROVE  (Unwiped(d) /\ call[c].wait <= call[d].wait)'
  BY DEF WaitsInTurn
<1>0. /\ At(c, "clearing")'
      /\ (At(c, "clearing") /\ call'[c] = call[c]) \/ (Continuation /\ Asks(c))
      /\ (At(d, "clearing") /\ call'[d] = call[d]) \/ (Continuation /\ Asks(d))
  BY WaitersCarryOn DEF Unwiped
<1>1. ASSUME At(c, "clearing"), At(d, "clearing"), call'[c] = call[c], call'[d] = call[d]
      PROVE  (Unwiped(d) /\ call[c].wait <= call[d].wait)'
  <2>1. PICK v \in wipes' : v.id = call[c].wait
    BY <1>1 DEF Unwiped, Wiped
  <2>2. call[c].wait \in {None} \cup 1..epoch
    BY <1>1 DEF GrantsArePast
  <2>3. v \in wipes
    <3>1. CASE wipes' \subseteq wipes
      BY <2>1, <3>1
    <3>2. ASSUME NEW p, wipes' = wipes \cup {[id |-> epoch', part |-> p]}, epoch' = epoch + 1
          PROVE  v \in wipes
      BY <2>1, <2>2, <3>2, TimeIsNumbers, NoneIsNoPartition
    <3> QED BY <3>1, <3>2 DEF Withdrawal, Continuation, StoreGoesOn, Settles, store
  <2>4. Unwiped(c)
    BY <1>1, <2>1, <2>3 DEF Unwiped, Wiped
  <2>5. Unwiped(d) /\ call[c].wait <= call[d].wait
    BY <1>1, <2>4 DEF WaitsInTurn
  <2>6. PICK u \in wipes : u.id = call[d].wait
    BY <2>5 DEF Unwiped, Wiped
  <2>7. u \in wipes'
    <3>1. ASSUME NEW w \in wipes, Settles(w) PROVE u \in wipes'
      <4>1. v # w /\ ~(v.id < w.id) /\ v.id \in Nat /\ w.id \in Nat /\ u.id \in Nat
        BY <2>1, <2>3, <3>1, TimeIsNumbers DEF Settles
      <4>2. v.id # w.id
        BY <2>3, <4>1 DEF GrantsArePast
      <4>3. u # w
        BY <2>1, <2>5, <2>6, <4>1, <4>2
      <4> QED BY <3>1, <4>3 DEF Settles
    <3> QED BY <3>1 DEF Withdrawal, Continuation, StoreGoesOn, store
  <2> QED BY <1>1, <2>5, <2>6, <2>7 DEF Unwiped, Wiped, At
<1>2. ASSUME At(d, "clearing"), call'[d] = call[d], Asks(c) PROVE FALSE
  <2>1. call'[c].granted = currentGrant
    BY <1>2 DEF Asks
  <2> QED BY <1>2, <2>1, NothingIsLater DEF At
<1>3. ASSUME At(c, "clearing"), call'[c] = call[c], Asks(d), Continuation
      PROVE  (Unwiped(d) /\ call[c].wait <= call[d].wait)'
  <2>1. call'[d].wait = clearing /\ At(d, "clearing")'
    BY <1>3 DEF Asks, At
  <2>2. UNCHANGED <<wipes, clearing>>
    <3>1. ~UNCHANGED call
      BY <1>3 DEF Asks, At
    <3> QED BY <1>3, <3>1 DEF Continuation, StoreGoesOn, Settles
  <2>3. PICK v \in wipes : v.id = call[c].wait
    BY <1>3, <2>2 DEF Unwiped, Wiped
  <2>4. clearing # None /\ call[c].wait <= clearing
    BY <2>3 DEF ClearingIsNewest
  <2>5. \E w \in wipes : w.id = clearing
    BY <2>4 DEF TypeOK
  <2> QED BY <1>3, <2>1, <2>2, <2>4, <2>5 DEF Unwiped, Wiped
<1>4. ASSUME Asks(c), Asks(d) PROVE FALSE
  <2>1. call'[c].granted = currentGrant /\ call'[d].granted = currentGrant
    BY <1>4 DEF Asks
  <2> QED BY <2>1, TimeIsNumbers DEF Older, currentGrant
<1> QED BY <1>0, <1>1, <1>2, <1>3, <1>4

LEMMA QueueTurnStep ==
  ASSUME TypeOK, GrantsArePast, WaitsInTurn, QueueIsInTurn, [Next]_vars
  PROVE  QueueIsInTurn'
<1>s. Withdrawal \/ Continuation
  BY StepShape
<1>q. Queued
  BY DEF TypeOK, Queued, Applicants
<1>n. /\ landed[1] \in Nat /\ landed[2] \in Nat
      /\ \A d \in Callers : ~At(d, "idle") => call[d].granted[1] \in Nat /\ call[d].granted[2] \in Nat
  BY TimeIsNumbers
(* Applicants were applicants with the same permission, or join now.       *)
<1>a. ASSUME NEW d \in Applicants' PROVE call'[d].granted = call[d].granted /\ ~At(d, "idle")
  <2>1. ~At(d, "idle")' /\ ~Asks(d) /\ d \in Callers
    BY <1>a DEF Applicants, At, Asks
  <2> QED BY <1>s, <2>1, PermissionsAreCarried
(* Nobody who waits is older than an applicant, or than one that joins.    *)
<1>1. ASSUME NEW c \in Callers, NEW d \in Callers, At(c, "clearing"), c # d \/ At(d, "applying"),
             At(d, "applying") \/ First(d)
      PROVE  ~Older(call[c].granted, call[d].granted)
  <2>1. CASE At(d, "applying")
    BY <1>1, <2>1 DEF QueueIsInTurn
  <2>2. CASE First(d) /\ c \in Resumed
    BY <2>2 DEF First
  <2>3. CASE First(d) /\ c \notin Resumed
    <3>1. Unwiped(c) /\ At(d, "clearing") /\ ~Unwiped(d)
      BY <1>1, <2>3 DEF First, Resumed, Unwiped
    <3> QED BY <3>1 DEF WaitsInTurn
  <2> QED BY <1>1, <2>1, <2>2, <2>3
<1>j. ASSUME NEW d \in Applicants' PROVE At(d, "applying") \/ First(d)
  BY <1>a, <1>j, QueueShape DEF QueueStays, Joins, HeadLeaves, Applicants
<1>2. ASSUME NEW c \in Callers, NEW d \in Callers, At(c, "clearing")', At(d, "applying")'
      PROVE  ~Older(call'[c].granted, call'[d].granted)
  <2>1. d \in Applicants' /\ c # d
    BY <1>2 DEF Applicants, At
  <2>2. call'[d].granted = call[d].granted /\ ~At(d, "idle") /\ (At(d, "applying") \/ First(d))
    BY <1>a, <1>j, <2>1
  <2>3. CASE At(c, "clearing") /\ call'[c] = call[c]
    BY <1>1, <2>1, <2>2, <2>3
  <2>4. CASE Asks(c)
    BY <2>2, <2>4, NothingIsLater DEF Asks
  <2> QED BY <1>2, <1>s, <2>3, <2>4, WaitersCarryOn
<1>3. \A i, j \in DOMAIN queue' : i < j => ~Older(call'[queue'[j]].granted, call'[queue'[i]].granted)
  <2> SUFFICES ASSUME NEW i \in DOMAIN queue', NEW j \in DOMAIN queue', i < j
               PROVE  ~Older(call'[queue'[j]].granted, call'[queue'[i]].granted)
    OBVIOUS
  <2>1. queue'[i] \in Applicants' /\ queue'[j] \in Applicants'
    BY QueueStep DEF Queued, Range
  <2>2. /\ call'[queue'[i]].granted = call[queue'[i]].granted
        /\ call'[queue'[j]].granted = call[queue'[j]].granted
    BY <1>a, <2>1
  <2>3. CASE QueueStays
    BY <2>2, <2>3 DEF QueueStays, QueueIsInTurn
  <2>4. CASE HeadLeaves
    <3>1. /\ i + 1 \in DOMAIN queue /\ j + 1 \in DOMAIN queue /\ i + 1 < j + 1
          /\ queue'[i] = queue[i + 1] /\ queue'[j] = queue[j + 1]
      BY <1>q, <2>4 DEF HeadLeaves, Queued
    <3> QED BY <2>2, <3>1 DEF QueueIsInTurn
  <2>5. ASSUME NEW c \in Callers, Joins(c)
        PROVE  ~Older(call[queue'[j]].granted, call[queue'[i]].granted)
    <3>1. /\ i \in DOMAIN queue /\ queue'[i] = queue[i]
          /\ (j \in DOMAIN queue /\ queue'[j] = queue[j]) \/ queue'[j] = c
      BY <1>q, <2>5 DEF Joins, Queued
    <3>2. CASE queue'[j] = c
      <4>1. At(queue[i], "applying") /\ queue[i] \in Callers
        BY <1>q, <3>1 DEF Queued, Range, Applicants
      <4>2. At(c, "clearing")
        BY <2>5 DEF Joins, First, Resumed
      <4> QED BY <3>1, <3>2, <4>1, <4>2 DEF QueueIsInTurn
    <3>3. CASE j \in DOMAIN queue /\ queue'[j] = queue[j]
      BY <3>1, <3>3 DEF QueueIsInTurn
    <3> QED BY <3>1, <3>2, <3>3
  <2> QED BY <2>2, <2>3, <2>4, <2>5, QueueShape
<1>4. ASSUME NEW c \in Callers, At(c, "clearing")' \/ At(c, "applying")'
      PROVE  ~Older(call'[c].granted, landed')
  <2>1. \/ Asks(c)
        \/ /\ call'[c].granted = call[c].granted
           /\ At(c, "clearing") \/ At(c, "applying")
    <3>1. CASE At(c, "clearing")'
      BY <1>s, <3>1, WaitersCarryOn
    <3>2. CASE At(c, "applying")'
      <4>1. c \in Applicants'
        BY <3>2 DEF Applicants, At
      <4> QED BY <1>a, <1>j, <4>1 DEF First, Resumed
    <3> QED BY <1>4, <3>1, <3>2
  <2>2. CASE landed' = landed
    BY <2>1, <2>2, NothingIsLater DEF QueueIsInTurn, Asks
  <2>3. CASE HeadLeaves /\ landed' = call[Head(queue)].granted
    <3>1. /\ 1 \in DOMAIN queue /\ Head(queue) = queue[1] /\ Head(queue) \in Callers
          /\ At(Head(queue), "applying")
      BY <1>q, <2>3, HeadIsApplying DEF HeadLeaves, Queued, At, Applying
    <3>2. CASE Asks(c)
      BY <2>3, <3>1, <3>2, NothingIsLater DEF Asks, At
    <3>3. CASE call'[c].granted = call[c].granted /\ At(c, "clearing")
      BY <2>3, <3>1, <3>3 DEF QueueIsInTurn
    <3>4. CASE call'[c].granted = call[c].granted /\ At(c, "applying")
      <4>1. PICK i \in DOMAIN queue : c = queue[i]
        BY <1>q, <3>4 DEF Queued, Range, Applicants
      <4>2. CASE i = 1
        BY <1>n, <2>3, <3>1, <3>4, <4>1, <4>2 DEF Older, At
      <4>3. CASE 1 < i
        BY <2>3, <3>1, <3>4, <4>1, <4>3 DEF QueueIsInTurn
      <4> QED BY <1>q, <4>1, <4>2, <4>3 DEF Queued
    <3> QED BY <2>1, <3>2, <3>3, <3>4
  <2> QED BY <2>2, <2>3, QueueShape DEF QueueStays, Joins, HeadLeaves
<1> QED BY <1>2, <1>3, <1>4 DEF QueueIsInTurn

LEMMA TurnStep ==
  ASSUME TypeOK, GrantsArePast, InTurn, [Next]_vars PROVE InTurn'
<1>1. CASE overtaken' = FALSE
  BY <1>1, StepShape, InTurnNow, NewestStep, WaitsStep, QueueTurnStep DEF InTurn
<1>2. CASE overtaken' = TRUE
  BY <1>2 DEF InTurn
<1> QED BY <1>1, <1>2, FlagsStep
-----------------------------------------------------------------------------
LEMMA Initially == Init => IInv
<1> SUFFICES ASSUME Init PROVE IInv OBVIOUS
<1>1. \A c \in Callers : call[c] = Idle /\ At(c, "idle") /\ ~At(c, "clearing")
                         /\ ~At(c, "applying") /\ ~At(c, "flying")
  BY DEF Init, At, Idle
<1>2. /\ MaxForgets \in Nat /\ 0 \in 0..MaxForgets /\ 0 \in Partitions
  BY RouteAssumption DEF Partitions
<1>3. TypeOK
  <2>1. ({unlocked, requireProxies, overtaken} \subseteq BOOLEAN) /\ stored \in Routes
    BY DEF Init
  <2>2. currentGrant \in Grant /\ landed \in Grant
    BY <1>2 DEF Init, currentGrant, Grant
  <2>3. queue \in Seq(Callers) /\ IsInjective(queue) /\ Range(queue) = {c \in Callers : At(c, "applying")}
    BY <1>1 DEF Init, IsInjective, Range
  <2>4. /\ config \in [Partitions -> Routes] /\ jar \in [Partitions -> SUBSET Grant]
        /\ call \in [Callers -> {Idle} \cup Waiting \cup Applying \cup Built]
    BY DEF Init, Routes
  <2> QED BY <1>2, <2>1, <2>2, <2>3, <2>4 DEF Init, TypeOK
<1>4. GrantsArePast /\ InForceIsAsConfigured
  BY <1>1 DEF Init, GrantsArePast, Past, InForceIsAsConfigured
<1>5. SessionIsCached /\ OnePartition /\ WaitedForTheWipe /\ CookiesAreCovered
  BY <1>1, Kinds DEF Init, SessionIsCached, OfThisEpoch, OnePartition, WaitedForTheWipe, CookiesAreCovered
<1>6. ClearingIsNewest /\ WaitsInTurn /\ QueueIsInTurn
  BY <1>1 DEF Init, ClearingIsNewest, WaitsInTurn, Unwiped, QueueIsInTurn
<1> QED BY <1>3, <1>4, <1>5, <1>6 DEF IInv, InTurn

LEMMA LandedShape ==
  ASSUME TypeOK, [Next]_vars
  PROVE  landed' = landed \/ \E c \in Callers : ~At(c, "idle") /\ landed' = call[c].granted
<1>1. queue # <<>> => Head(queue) \in Callers /\ ~At(Head(queue), "idle")
  BY HeadIsApplying DEF Applying, At
<1> QED BY <1>1, QueueShape DEF QueueStays, Joins, HeadLeaves

LEMMA Inductive == IInv /\ [Next]_vars => IInv'
<1> SUFFICES ASSUME IInv, [Next]_vars PROVE IInv' OBVIOUS
<1> USE DEF IInv
<1>1. Withdrawal \/ Continuation
  BY StepShape
<1>2. GrantsArePast' /\ InForceIsAsConfigured' /\ SessionIsCached'
  BY <1>1, LandedShape, GrantsStep, InForceStep, SessionStep
<1>3. OnePartition' /\ WaitedForTheWipe' /\ CookiesAreCovered'
  BY <1>1, PartitionStep, WaitStep, CookiesStep
<1>4. TypeOK' /\ InTurn'
  BY <1>2, TypeStep, TurnStep
<1> QED BY <1>2, <1>3, <1>4

(* The invariant the theorems below rest on.                               *)
THEOREM Invariant == Spec => []IInv
BY Initially, Inductive, PTL DEF Spec

(* Every variable keeps its type; the queue of applications holds each     *)
(* caller that waits for its setProxy, once.                               *)
THEOREM TypeCorrect == Spec => []TypeOK
BY Invariant, PTL DEF IInv

(* No request of perform is on the wire but by the route and the policy of *)
(* the vault as it is, and the routing shown is of that route.             *)
THEOREM OnTheWireAsConfigured == Spec => []FliesAsConfigured
<1>1. IInv => FliesAsConfigured
  BY DEF IInv, FliesAsConfigured, InForceIsAsConfigured, SessionIsCached, Allowed, At
<1> QED BY <1>1, Invariant, PTL

(* While every clearStorageData did its work, a request takes along only   *)
(* the cookies set under its own permission.                               *)
THEOREM CookiesOfOneGrant == Spec => []CookiesAreOfThisGrant
<1>1. ASSUME IInv, spoiled = 0, NEW c \in Callers, At(c, "flying") PROVE ~Stale(c)
  <2> USE DEF IInv
  <2>1. stillGranted(c) /\ call[c] \in Built /\ ~At(c, "idle") /\ ~At(c, "clearing")
    BY <1>1, CallKinds DEF InForceIsAsConfigured, At
  <2>2. OfThisEpoch(c) /\ call[c].granted = currentGrant /\ call[c].part \in Partitions
    BY <2>1, Kinds DEF OfThisEpoch, stillGranted, currentGrant
  <2>3. clearing = None
    BY <1>1, <2>1, <2>2 DEF WaitedForTheWipe
  <2>4. jar[call[c].part] \subseteq {currentGrant}
    BY <1>1, <2>2, <2>3 DEF CookiesAreCovered
  <2> QED BY <2>2, <2>4 DEF Stale
<1>2. IInv => CookiesAreOfThisGrant
  BY <1>1 DEF CookiesAreOfThisGrant
<1> QED BY <1>2, Invariant, PTL

(* The setProxy calls of one account land in the order in which their      *)
(* permissions were given, unless a wipe overtook an older one.            *)
THEOREM RoutesLandInOrder == Spec => NoOlderRouteLands
<1>1. ASSUME IInv, [Next]_vars PROVE overtaken' \/ ~Older(landed', landed)
  <2> USE DEF IInv
  <2> SUFFICES ASSUME overtaken' = FALSE PROVE ~Older(landed', landed)
    BY <1>1, FlagsStep
  <2>1. QueueIsInTurn
    BY <1>1, StepShape, InTurnNow
  <2>2. ~Older(landed, landed)
    BY <1>1, TimeIsNumbers DEF Older
  <2>3. ASSUME queue # <<>>, landed' = call[Head(queue)].granted PROVE ~Older(landed', landed)
    BY <1>1, <2>1, <2>3, HeadIsApplying DEF QueueIsInTurn, At, Applying
  <2> QED BY <1>1, <2>2, <2>3, QueueShape DEF QueueStays, Joins, HeadLeaves
<1>2. IInv /\ [Next]_vars => [overtaken' \/ ~Older(landed', landed)]_vars
  BY <1>1
<1> QED BY <1>2, Invariant, PTL DEF Spec, NoOlderRouteLands

(* To one who sees the permissions and the wire only: a step withdraws,    *)
(* reopens, or is a caller asking, sending, hearing or giving up.          *)
PHeld == [c \in Callers |-> IF At(c, "idle") THEN None ELSE Sum(call[c].granted)]
PFlying == {c \in Callers : At(c, "flying")}
PView == <<unlocked, generation + epoch, PHeld, PFlying>>

LEMMA WithdrawalIsWithdraw ==
  ASSUME TypeOK, [Next]_vars, Withdrawal PROVE Promise!Withdraw
<1>1. (generation + epoch)' > generation + epoch
  <2>1. /\ generation' \in Nat /\ epoch' \in Nat /\ generation \in Nat /\ epoch \in Nat
        /\ generation' >= generation /\ epoch' >= epoch
        /\ generation' # generation \/ epoch' # epoch
    BY TimeIsNumbers DEF Withdrawal, currentGrant
  <2>2. \A a, b, m, n \in Nat : m >= a /\ n >= b /\ (m # a \/ n # b) => m + n > a + b
    OBVIOUS
  <2> QED BY <2>1, <2>2
<1>2. PFlying' = {}
  BY DEF Withdrawal, PFlying, At
<1>3. unlocked' \in BOOLEAN
  BY FlagsStep
<1>4. \A d \in Callers : PHeld'[d] \in {PHeld[d], None}
  <2> TAKE d \in Callers
  <2>1. Kept(call[d], call'[d])
    BY DEF Withdrawal
  <2>2. call'[d] = call[d] \/ call'[d] = Idle
        \/ (call'[d].granted = call[d].granted /\ ~At(d, "idle") /\ ~At(d, "idle")')
    BY <2>1, Kinds DEF Kept, At, Built
  <2> QED BY <2>2 DEF PHeld, At, Idle
<1> QED BY <1>1, <1>2, <1>3, <1>4 DEF Promise!Withdraw, PHeld, PFlying

LEMMA ContinuationIsSeen ==
  ASSUME IInv, [Next]_vars, Continuation PROVE [Promise!Next]_PView
<1> USE DEF IInv
<1>g. generation' = generation /\ epoch' = epoch
  BY DEF Continuation, grants
<1>1. CASE UNCHANGED call
  <2>1. PHeld' = PHeld /\ PFlying' = PFlying
    BY <1>1 DEF PHeld, PFlying, At
  <2>2. CASE unlocked' = unlocked
    BY <1>g, <2>1, <2>2 DEF PView
  <2>3. CASE unlocked' = TRUE
    BY <1>g, <2>1, <2>3 DEF Promise!Next, Promise!Reopen, PHeld, PFlying
  <2> QED BY <2>2, <2>3 DEF Continuation, VaultGoesOn
<1>2. ASSUME NEW c \in Callers, call'[c] # call[c] PROVE [Promise!Next]_PView
  <2>1. /\ unlocked' = unlocked /\ call' \in [Callers -> Call]
        /\ \A d \in Callers \ {c} : call'[d] = call[d]
    BY <1>2 DEF Continuation, VaultGoesOn, CallersGoOn, OneAtATime
  <2>2. /\ call[c] \in Call /\ call'[c] \in Call
    BY <2>1 DEF TypeOK, Call
  <2>h. /\ PHeld' = [PHeld EXCEPT ![c] = IF At(c, "idle")' THEN None ELSE Sum(call'[c].granted)]
        /\ PFlying' = IF At(c, "flying")' THEN PFlying \cup {c} ELSE PFlying \ {c}
    <3>1. \A d \in Callers \ {c} : \A pc : At(d, pc)' <=> At(d, pc)
      BY <2>1 DEF At
    <3> QED BY <2>1, <3>1 DEF PHeld, PFlying
  <2>k. ASSUME call'[c].granted = call[c].granted, ~At(c, "idle"), ~At(c, "idle")'
        PROVE  PHeld' = PHeld
    BY <2>h, <2>k DEF PHeld
  <2>3. CASE call'[c] = Idle
    <3>1. PHeld' = [PHeld EXCEPT ![c] = None] /\ PFlying' = PFlying \ {c}
      BY <2>3, <2>h DEF At, Idle
    <3>2. Promise!GivesUp(c)
      BY <1>g, <2>1, <3>1 DEF Promise!GivesUp, PHeld, PFlying
    <3> QED BY <3>2 DEF Promise!Next
  <2>4. CASE call[c] \in Built /\ call'[c] \in Built /\ call'[c].granted = call[c].granted
    <3>0. ~At(c, "idle") /\ ~At(c, "idle")'
      BY <2>4 DEF Built, At
    <3>1. PHeld' = PHeld
      BY <2>4, <2>k, <3>0
    <3>2. CASE At(c, "flying")'
      <4>1. stillGranted(c)
        BY <1>2, <2>1, <3>2 DEF Continuation, CallersGoOn, At
      <4>2. PHeld[c] = generation + epoch
        BY <3>0, <4>1 DEF PHeld, Sum, stillGranted, currentGrant
      <4>3. Promise!Leaves(c)
        BY <1>g, <2>1, <2>h, <3>1, <3>2, <4>2 DEF Promise!Leaves, Promise!Holds, PHeld, PFlying
      <4> QED BY <4>3 DEF Promise!Next
    <3>3. CASE ~At(c, "flying")'
      <4>1. Promise!Settles(c)
        BY <1>g, <2>1, <2>h, <3>1, <3>3 DEF Promise!Settles, PHeld, PFlying
      <4> QED BY <4>1 DEF Promise!Next
    <3> QED BY <3>2, <3>3
  <2>5. CASE Asks(c)
    <3>1. /\ ~At(c, "idle")' /\ ~At(c, "flying")' /\ ~At(c, "flying") /\ unlocked
          /\ call'[c].granted = currentGrant
      BY <2>5 DEF Asks, At
    <3>2. PHeld' = [PHeld EXCEPT ![c] = generation + epoch]
      BY <2>h, <3>1 DEF Sum, currentGrant
    <3>3. PFlying' = PFlying
      BY <2>h, <3>1 DEF PFlying
    <3>4. Promise!Ask(c)
      BY <1>g, <2>1, <3>1, <3>2, <3>3 DEF Promise!Ask, PHeld, PFlying
    <3> QED BY <3>4 DEF Promise!Next
  <2>6. CASE Applies(c) \/ Builds(c)
    <3>1. /\ ~At(c, "idle") /\ ~At(c, "idle")' /\ call'[c].granted = call[c].granted
          /\ ~At(c, "flying") /\ ~At(c, "flying")'
      BY <2>6 DEF Applies, Builds, Waiting, Applying, Built, At
    <3>2. PHeld' = PHeld /\ PFlying' = PFlying
      BY <2>h, <2>k, <3>1 DEF PFlying
    <3> QED BY <1>g, <2>1, <3>2 DEF PView
  <2> QED BY <1>2, <2>3, <2>4, <2>5, <2>6 DEF Continuation, CallersGoOn, Kept
<1>3. CASE call' # call
  <2>1. \E c \in Callers : call'[c] # call[c]
    BY <1>3 DEF TypeOK, Continuation, CallersGoOn
  <2> QED BY <1>2, <2>1
<1> QED BY <1>1, <1>3

(* The factory implements Grants: a permission is handed out by an open    *)
(* vault only, checked as the request leaves, and withdrawn with all that  *)
(* is in the air.                                                          *)
THEOREM GrantsAreKept == Spec => KeepsGrants
<1>1. Init => Promise!Init
  <2> SUFFICES ASSUME Init PROVE Promise!Init OBVIOUS
  <2>1. \A c \in Callers : At(c, "idle") /\ ~At(c, "flying")
    BY DEF Init, At, Idle
  <2>2. unlocked \in BOOLEAN /\ generation + epoch = 0
    BY DEF Init
  <2> QED BY <2>1, <2>2 DEF Promise!Init
<1>2. IInv /\ [Next]_vars => [Promise!Next]_PView
  <2>1. ASSUME IInv, [Next]_vars PROVE [Promise!Next]_PView
    <3>1. TypeOK
      BY <2>1 DEF IInv
    <3> QED BY <2>1, <3>1, StepShape, WithdrawalIsWithdraw, ContinuationIsSeen DEF Promise!Next
  <2> QED BY <2>1
<1>3. IInv /\ [Next]_vars => [Promise!Next]_(Promise!vars)
  BY <1>2 DEF PView, PHeld, PFlying, Promise!vars
<1> QED BY <1>1, <1>3, Invariant, PTL DEF Spec, KeepsGrants, Promise!Spec
=============================================================================
