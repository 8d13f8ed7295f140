-------------------------------- MODULE Egress --------------------------------
(***************************************************************************)
(* SteamTransportFactory (src/main/net/transport.ts) for one account: the  *)
(* sessions it caches, the proxy applied to them, the cookie jars it wipes *)
(* and the permissions that let a request leave.  Every action is the code *)
(* between two awaits; setProxy, clearStorageData, resolveProxy and the    *)
(* request itself are answered later and in any order Electron allows.     *)
(***************************************************************************)
EXTENDS Naturals, Sequences, FiniteSets, SequencesExt

CONSTANTS
  Callers,    \* operations that may hold a transport of this account
  Proxies,    \* the proxies the account may be given
  System,     \* the route of an account with none
  None,
  MaxForgets, \* bound: forget and forgetAll
  MaxSpoils   \* bound: wipes that fail

ASSUME RouteAssumption ==
  /\ System \notin Proxies /\ None \notin Proxies \cup {System} \cup Nat
  /\ MaxForgets \in Nat /\ MaxSpoils \in Nat

VARIABLES
  unlocked,
  stored,      \* the route the vault holds for this account
  requireProxies,
  generation, epoch,
  cached,      \* sessions: the partition of the cached session, or None
  spoiled,     \* how often a wipe failed; part of the partition's name
  wipes,       \* clearStorageData calls not yet settled
  clearing,    \* the wipe forAccount waits for, or None
  queue,       \* proxyOrder: callers whose setProxy has not settled, in order
  config,      \* per partition, the proxy Chromium really has
  appliedProxy,\* the factory's record of it
  jar,         \* per partition, the grants under which its cookies were set
  routing,     \* the status shown for the account, or None
  call,        \* what each caller is doing
  landed,      \* history: the grant of the setProxy that landed last
  overtaken    \* history: a wipe settled before an older one

vault == <<unlocked, stored, requireProxies>>
grants == <<generation, epoch>>
store == <<cached, spoiled, wipes, clearing, overtaken>>
chromium == <<queue, config, appliedProxy, landed>>
vars == <<vault, grants, store, chromium, jar, routing, call>>

Routes == Proxies \cup {System}
Partitions == 0..MaxSpoils
Idle == [pc |-> "idle"]

currentGrant == <<generation, epoch>>
Off == [state |-> "off", via |-> System]
Verified(r) == [state |-> "verified", via |-> r]
Blocked(r) == [state |-> "blocked", via |-> r]

At(c, pc) == call[c].pc = pc
stillGranted(c) == call[c].granted = currentGrant
Becomes(c, next) == call' = [call EXCEPT ![c] = next]
Moves(c, pc) == Becomes(c, [call[c] EXCEPT !.pc = pc])

-----------------------------------------------------------------------------
(* Faulty: the requests on the wire are left to run.                       *)
AbortedNone(before) == call' = before

(* forget with the session the cache holds at that moment.  `before` is    *)
(* the callers' state, of which everything on the wire is aborted.         *)
Aborted(before) ==
  call' = [c \in Callers |->
             IF before[c].pc = "flying" THEN [before[c] EXCEPT !.pc = "built"] ELSE before[c]]

Forget(session, before) ==
  /\ epoch < MaxForgets
  /\ epoch' = epoch + 1 /\ routing' = None /\ cached' = None
  /\ Aborted(before)
  /\ IF session = None THEN UNCHANGED <<wipes, clearing>>
     ELSE /\ wipes' = wipes \cup {[id |-> epoch', part |-> session]}
          /\ clearing' = epoch'
  /\ UNCHANGED <<spoiled, overtaken>>

InAir == \E c \in Callers : At(c, "flying")

(* forgetAll reaches the accounts it has heard of.                         *)
ForgetAll ==
  /\ generation < MaxForgets /\ generation' = generation + 1
  /\ IF cached # None \/ InAir THEN Forget(cached, call)
     ELSE UNCHANGED <<epoch, store, routing, call>>

-----------------------------------------------------------------------------
(* Faulty: the policy is left to the handlers.                             *)
AllowedAnyway(r) == r \in Routes

(* forAccount: the policy, and the permission before the first await.      *)
Allowed(r) == r # System \/ ~requireProxies

(* Faulty: a wipe still running is not waited for.                         *)
WipedAtOnce(c) == c \in Callers

Wiped(c) == \A w \in wipes : w.id # call[c].wait

(* The callers whose await is over.  They run before anything else does,   *)
(* those that have waited longest first.                                   *)
Resumed == {c \in Callers : At(c, "clearing") /\ Wiped(c)}
Older(g, h) == g[1] < h[1] \/ (g[1] = h[1] /\ g[2] < h[2])
Calm == Resumed = {}
First(c) == c \in Resumed /\ \A d \in Resumed : ~Older(call[d].granted, call[c].granted)

ForAccount(c) ==
  /\ Calm /\ At(c, "idle") /\ unlocked /\ Allowed(stored)
  /\ Becomes(c, [pc |-> "clearing", granted |-> currentGrant, route |-> stored, wait |-> clearing])
  /\ UNCHANGED <<vault, grants, store, chromium, jar, routing>>

(* A grant withdrawn during construction.  A lock takes the session with   *)
(* it, a change of route leaves the cache to the caller that replaces it.  *)
Refused(c, session) ==
  IF generation # call[c].granted[1]
  THEN Forget(session, [call EXCEPT ![c] = Idle])
  ELSE /\ Becomes(c, Idle) /\ cached' = session
       /\ UNCHANGED <<epoch, spoiled, wipes, clearing, overtaken, routing>>

(* The end of forAccount: a transport, or a permission out of date.        *)
Granted(c, session, part) ==
  IF stillGranted(c)
  THEN /\ Becomes(c, [pc |-> "built", granted |-> call[c].granted,
                      route |-> call[c].route, part |-> part])
       /\ cached' = session
       /\ routing' = IF call[c].route = System THEN Off ELSE routing
       /\ UNCHANGED <<epoch, spoiled, wipes, clearing, overtaken>>
  ELSE Refused(c, session)

(* sessionFor: a cached session configured as wanted.                      *)
Reuse(c) ==
  /\ First(c)
  /\ cached # None /\ appliedProxy = call[c].route
  /\ Granted(c, cached, cached)
  /\ UNCHANGED <<vault, generation, chromium, jar>>

(* Faulty: only the order of completion decides which application wins.    *)
SetProxyUnordered(c) == queue' = <<c>> \o queue

(* applyProxy: behind every application asked for before.                  *)
SetProxy(c) == queue' = Append(queue, c)

(* ... a cached one configured otherwise, or none: the partition's name    *)
(* counts the wipes that failed, and what is applied is unknown until the  *)
(* application settles.                                                    *)
Apply(c) ==
  /\ First(c)
  /\ cached = None \/ appliedProxy # call[c].route
  /\ Becomes(c, [pc |-> "applying", granted |-> call[c].granted, route |-> call[c].route,
                 fresh |-> cached = None,
                 part |-> IF cached = None THEN spoiled ELSE cached])
  /\ SetProxy(c) /\ appliedProxy' = None
  /\ UNCHANGED <<vault, grants, store, config, landed, jar, routing>>

Lands(c) ==
  /\ config' = [config EXCEPT ![call[c].part] = call[c].route]
  /\ appliedProxy' = call[c].route /\ landed' = call[c].granted

(* setProxy settles and the caller that waited goes on to the end.         *)
Applied(c) ==
  /\ Calm /\ queue # <<>> /\ c = Head(queue) /\ queue' = Tail(queue)
  /\ Lands(c)
  /\ Granted(c, IF call[c].fresh THEN call[c].part ELSE cached, call[c].part)
  /\ UNCHANGED <<vault, generation, jar>>

ChainGoesOn(c) == queue' = Tail(queue)

ApplyFails(c) ==
  /\ Calm /\ queue # <<>> /\ c = Head(queue) /\ At(c, "applying") /\ ChainGoesOn(c)
  /\ Becomes(c, Idle)
  /\ UNCHANGED <<vault, grants, store, config, appliedProxy, landed, jar, routing>>

-----------------------------------------------------------------------------
(* clearStorageData settles.                                               *)
Settled(w) ==
  /\ Calm /\ wipes' = wipes \ {w}
  /\ overtaken' = (overtaken \/ \E v \in wipes : v.id < w.id)
  /\ clearing' = IF clearing = w.id THEN None ELSE clearing
  /\ UNCHANGED <<vault, grants, cached, chromium, routing, call>>

Wipe(w) == Settled(w) /\ jar' = [jar EXCEPT ![w.part] = {}] /\ UNCHANGED spoiled

WipeFails(w) == Settled(w) /\ spoiled < MaxSpoils /\ spoiled' = spoiled + 1 /\ UNCHANGED jar

-----------------------------------------------------------------------------
(* perform: the permission first, then where the request would go.         *)
Perform(c) ==
  /\ Calm /\ At(c, "built") /\ stillGranted(c)
  /\ Moves(c, IF call[c].route = System THEN "flying" ELSE "resolving")
  /\ UNCHANGED <<vault, grants, store, chromium, jar, routing>>

(* Faulty: the permission is not asked for again after the lookup.         *)
RecheckedNot(c) == c \in Callers

Rechecked(c) == stillGranted(c)

(* assertRouted and the send, which nothing separates.                     *)
RoutedAndSent(c) ==
  /\ Calm /\ At(c, "resolving") /\ config[call[c].part] = call[c].route
  /\ Rechecked(c)
  /\ Moves(c, "flying")
  /\ routing' = IF stillGranted(c) THEN Verified(call[c].route) ELSE routing
  /\ UNCHANGED <<vault, grants, store, chromium, jar>>

recordRouting(c, status) == routing' = IF stillGranted(c) THEN status ELSE routing

(* The lookup names another route, or fails.                               *)
NotRouted(c) ==
  /\ Calm /\ At(c, "resolving") /\ Becomes(c, Idle)
  /\ recordRouting(c, Blocked(call[c].route))
  /\ UNCHANGED <<vault, grants, store, chromium, jar>>

(* ... or finds the permission gone, before or after it.                   *)
Revoked(c) ==
  /\ Calm /\ Becomes(c, Idle)
  /\ At(c, "built") \/ (At(c, "resolving") /\ config[call[c].part] = call[c].route)
  /\ ~stillGranted(c)
  /\ UNCHANGED <<vault, grants, store, chromium, jar, routing>>

Answered(c) ==
  /\ Calm /\ At(c, "flying") /\ Moves(c, "built")
  /\ jar' = [jar EXCEPT ![call[c].part] = @ \cup {call[c].granted}]
  /\ UNCHANGED <<vault, grants, store, chromium, routing>>

(* A timeout, an error, an answer too long; or the caller is done.         *)
Ends(c) ==
  /\ Calm /\ call[c].pc \in {"flying", "built"} /\ Becomes(c, Idle)
  /\ UNCHANGED <<vault, grants, store, chromium, jar, routing>>

-----------------------------------------------------------------------------
(* dropAccountRouting, within the call that saved the row.                 *)
SaveProxy(r) ==
  /\ Calm /\ unlocked /\ stored' = r
  /\ Forget(cached, call)
  /\ UNCHANGED <<unlocked, requireProxies, generation, chromium, jar>>

(* Require proxies saved on; turning it off disturbs nothing.              *)
RequireProxies ==
  /\ Calm /\ unlocked /\ ~requireProxies /\ requireProxies' = TRUE
  /\ ForgetAll
  /\ UNCHANGED <<unlocked, stored, chromium, jar>>

AllowDirect ==
  /\ Calm /\ unlocked /\ requireProxies /\ requireProxies' = FALSE
  /\ UNCHANGED <<unlocked, stored, grants, store, chromium, jar, routing, call>>

Lock ==
  /\ Calm /\ unlocked /\ unlocked' = FALSE
  /\ ForgetAll
  /\ UNCHANGED <<stored, requireProxies, chromium, jar>>

Unlock ==
  /\ Calm /\ ~unlocked /\ unlocked' = TRUE
  /\ UNCHANGED <<stored, requireProxies, grants, store, chromium, jar, routing, call>>

Init ==
  /\ unlocked = TRUE /\ stored \in Routes /\ requireProxies = FALSE
  /\ generation = 0 /\ epoch = 0
  /\ cached = None /\ spoiled = 0 /\ wipes = {} /\ clearing = None
  /\ queue = <<>> /\ config = [p \in Partitions |-> System] /\ appliedProxy = None
  /\ landed = <<0, 0>> /\ overtaken = FALSE
  /\ jar = [p \in Partitions |-> {}] /\ routing = None
  /\ call = [c \in Callers |-> Idle]

Operation(c) ==
  \/ ForAccount(c) \/ Reuse(c) \/ Apply(c) \/ Applied(c) \/ ApplyFails(c)
  \/ Perform(c) \/ RoutedAndSent(c) \/ NotRouted(c) \/ Revoked(c) \/ Answered(c) \/ Ends(c)

Next ==
  \/ \E c \in Callers : Operation(c)
  \/ \E w \in wipes : Wipe(w) \/ WipeFails(w)
  \/ \E r \in Routes : SaveProxy(r)
  \/ RequireProxies \/ AllowDirect \/ Lock \/ Unlock

Spec == Init /\ [][Next]_vars

-----------------------------------------------------------------------------
(* Every variable keeps its type; a caller is in the queue exactly while   *)
(* it is applying, and forAccount waits only for wipes that still run.     *)
Grant == (0..MaxForgets) \X (0..MaxForgets)
Ids == 1..MaxForgets
Waiting == [pc : {"clearing"}, granted : Grant, route : Routes, wait : Ids \cup {None}]
Applying ==
  [pc : {"applying"}, granted : Grant, route : Routes, fresh : BOOLEAN, part : Partitions]
Built ==
  [pc : {"built", "resolving", "flying"}, granted : Grant, route : Routes, part : Partitions]
TypeOK ==
  /\ {unlocked, requireProxies, overtaken} \subseteq BOOLEAN /\ stored \in Routes
  /\ currentGrant \in Grant /\ landed \in Grant
  /\ cached \in Partitions \cup {None} /\ spoiled \in Partitions
  /\ wipes \subseteq [id : Ids, part : Partitions]
  /\ clearing = None \/ clearing \in {w.id : w \in wipes}
  /\ queue \in Seq(Callers) /\ IsInjective(queue)
  /\ Range(queue) = {c \in Callers : At(c, "applying")}
  /\ config \in [Partitions -> Routes] /\ appliedProxy \in Routes \cup {None}
  /\ jar \in [Partitions -> SUBSET Grant]
  /\ routing = None \/ routing.via \in Routes
  /\ call \in [Callers -> {Idle} \cup Waiting \cup Applying \cup Built]

(* What is on the wire was asked for under the vault as it is now: open,   *)
(* this route, this policy.  The routing shown is about that route too; a  *)
(* lookup that answers late never brings a withdrawn one back.             *)
FliesAsConfigured ==
  /\ \A c \in Callers : At(c, "flying") =>
       unlocked /\ call[c].route = stored /\ (requireProxies => stored # System)
  /\ routing # None => unlocked /\ routing.via = stored

(* A proxy that was replaced never lands after its replacement, as long as *)
(* no wipe overtakes an older one.                                         *)
NoOlderRouteLands == [][overtaken' \/ ~Older(landed', landed)]_vars

(* A request leaves with the cookies of its own permission only, as long   *)
(* as every wipe did its work.                                             *)
Stale(c) == jar[call[c].part] \ {call[c].granted} # {}
CookiesAreOfThisGrant ==
  spoiled = 0 => \A c \in Callers : At(c, "flying") => ~Stale(c)

(* The promise of Grants.                                                  *)
Sum(grant) == grant[1] + grant[2]
Promise == INSTANCE Grants WITH
  open <- unlocked, current <- generation + epoch,
  held <- [c \in Callers |-> IF At(c, "idle") THEN None ELSE Sum(call[c].granted)],
  flying <- {c \in Callers : At(c, "flying")}
KeepsGrants == Promise!Spec
=============================================================================
