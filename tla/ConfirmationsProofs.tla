-------------------------- MODULE ConfirmationsProofs --------------------------
(***************************************************************************)
(* For any calls, confirmations and bounds.                                *)
(***************************************************************************)
EXTENDS Confirmations, TLAPS

(* No call is of a later era than the present one; of this era there is a  *)
(* call only while the vault is open, and what Steam answered it came      *)
(* between the two.                                                        *)
Replied == {"minted", "listed", "served", "signed"}
Living(o) == ~At(o, "idle")
CallsAreTimed ==
  \A o \in Ops : Living(o) =>
    /\ op[o].grant <= era /\ (hasGrant(o) => open)
    /\ op[o].pc \in Replied =>
         op[o].obtained \in Nat /\ op[o].grant <= op[o].obtained /\ op[o].obtained <= era

(* What is on the wire belongs to a call that sent it.                     *)
Sent == {"minting", "listing", "acting", "approving"}
OnTheWireIsSent == \A o \in flying : op[o].pc \in Sent

(* They are served in the order of their eras.                             *)
CallsAreInOrder ==
  \A i, j \in DOMAIN queue : i < j => op[queue[i]].grant <= op[queue[j]].grant

(* A transport of this moment was handed out by an open vault.             *)
HeldIsTimed ==
  \A o \in Ops : held[o] # None => held[o] <= current /\ (held[o] = current => open)

(* While there is a list to act on every call is of the era it was fetched *)
(* in: so an answer that waited for a transport, which may be younger than *)
(* its own permission, is not.                                             *)
ListIsOfEveryCall == pending # None => \A o \in Ops : Living(o) => hasGrant(o)
Answering(o) ==
  \/ op[o].pc = "routing"
  \/ op[o].kind = "act" /\ op[o].pc # "queued"
AnswersAreTimed ==
  \A o \in Ops : Living(o) /\ Answering(o) /\ held[o] = current => hasGrant(o)

IInv ==
  /\ TypeOK /\ OnTheWireIsSent /\ CallsAreTimed /\ CallsAreInOrder /\ HeldIsTimed
  /\ NothingKeptFromBefore /\ ListIsOfEveryCall /\ AnswersAreTimed
-----------------------------------------------------------------------------
LEMMA CallKinds ==
  ASSUME TypeOK, NEW o \in Ops
  PROVE  /\ op[o] \in Busy \cup {Idle}
         /\ Living(o) <=> op[o] \in Busy
         /\ ~At(o, "idle") <=> op[o] \in Busy
         /\ op[o].pc \in Pcs <=> op[o] \in Busy
BY DEF TypeOK, Living, At, Busy, Idle, Pcs

LEMMA BecomesOnly ==
  ASSUME TypeOK, NEW o \in Ops, NEW next \in Busy \cup {Idle}, Becomes(o, next)
  PROVE  /\ op' \in [Ops -> Busy \cup {Idle}] /\ op'[o] = next
         /\ \A p \in Ops \ {o} : op'[p] = op[p]
BY DEF TypeOK, Becomes

(* A call under way keeps its kind and its era; it is asked for when it is *)
(* at the head, and an answer it hears is of this moment.                  *)
CarriesOn(o) ==
  /\ op[o] \in Busy /\ op'[o] \in Busy /\ op'[o].pc # "queued"
  /\ op'[o].kind = op[o].kind /\ op'[o].grant = op[o].grant
  /\ At(o, "queued") => o = Head(queue) /\ (op[o].kind = "act" => pending # None)
  /\ op'[o].pc \in Replied => op'[o].obtained = era /\ era' = era
  /\ op'[o].pc = "routing" => hasGrant(o)
GoesOn ==
  /\ UNCHANGED queue
  /\ \A o \in Ops : op'[o] = op[o] \/ CarriesOn(o)
Leaves(o) ==
  /\ queue # <<>> /\ o = Head(queue) /\ queue' = Tail(queue)
  /\ op'[o] = Idle /\ \A p \in Ops \ {o} : op'[p] = op[p]
Joins(o) ==
  /\ At(o, "idle") /\ open /\ queue' = Append(queue, o)
  /\ op'[o] \in Busy /\ op'[o].pc = "queued" /\ op'[o].grant = era
  /\ \A p \in Ops \ {o} : op'[p] = op[p]
CallsGoOn ==
  /\ op' \in [Ops -> Busy \cup {Idle}]
  /\ GoesOn \/ \E o \in Ops : Leaves(o) \/ Joins(o)

LEMMA Moving ==
  ASSUME TypeOK, NEW o \in Ops, op[o] \in Busy, NEW next \in Busy, Becomes(o, next),
         UNCHANGED queue, next.kind = op[o].kind, next.grant = op[o].grant, next.pc # "queued",
         At(o, "queued") => o = Head(queue) /\ (op[o].kind = "act" => pending # None),
         next.pc \in Replied => next.obtained = era /\ era' = era,
         next.pc = "routing" => hasGrant(o)
  PROVE  CallsGoOn
<1>1. /\ op' \in [Ops -> Busy \cup {Idle}] /\ op'[o] = next
      /\ \A p \in Ops \ {o} : op'[p] = op[p]
  BY BecomesOnly
<1> QED BY <1>1 DEF CallsGoOn, GoesOn, CarriesOn

LEMMA MovingOn ==
  ASSUME TypeOK, NEW o \in Ops, op[o] \in Busy, NEW pc \in Pcs \ {"queued", "routing"},
         pc \notin Replied, Moves(o, pc), UNCHANGED queue, ~At(o, "queued")
  PROVE  CallsGoOn
<1> DEFINE next == [op[o] EXCEPT !.pc = pc]
<1>1. /\ next \in Busy /\ next.pc = pc /\ next.kind = op[o].kind /\ next.grant = op[o].grant
  BY DEF Busy
<1>2. Becomes(o, next)
  BY DEF Moves
<1> HIDE DEF next
<1> QED BY <1>1, <1>2, Moving

LEMMA Ending ==
  ASSUME TypeOK, NEW o \in Ops, Ends(o), op[o].pc \notin {"idle", "queued"} \/ Served(o)
  PROVE  CallsGoOn
<1>1. o = Head(queue) /\ queue # <<>>
  <2>1. CASE Served(o)
    BY <2>1 DEF Served
  <2>2. CASE op[o].pc \notin {"idle", "queued"}
    <3>1. o \in Range(queue) /\ o = Head(queue)
      BY <2>2 DEF TypeOK, At
    <3> QED BY <3>1 DEF Range, TypeOK
  <2> QED BY <2>1, <2>2
<1>2. Becomes(o, Idle) /\ queue' = Tail(queue)
  BY DEF Ends
<1>3. /\ op' \in [Ops -> Busy \cup {Idle}] /\ op'[o] = Idle
      /\ \A p \in Ops \ {o} : op'[p] = op[p]
  BY <1>2, BecomesOnly
<1> QED BY <1>1, <1>2, <1>3 DEF CallsGoOn, Leaves

LEMMA Cancelling ==
  ASSUME TypeOK, OnTheWireIsSent, NEW signIns \in SUBSET SigningIn, Cancelled(signIns),
         UNCHANGED queue
  PROVE  CallsGoOn
<1>1. \A o \in flying \cup signIns : op[o] \in Busy /\ op[o].pc # "queued"
  BY CallKinds DEF OnTheWireIsSent, Sent, SigningIn, At, TypeOK, Pcs
<1>2. ASSUME NEW o \in Ops
      PROVE  op'[o] \in Busy \cup {Idle} /\ (op'[o] = op[o] \/ CarriesOn(o))
  <2>1. op' = [p \in Ops |-> IF p \in flying \cup signIns
                             THEN [op[p] EXCEPT !.pc = "failing"] ELSE op[p]]
    BY DEF Cancelled
  <2>2. CASE o \notin flying \cup signIns
    BY <2>1, <2>2, CallKinds
  <2>3. CASE o \in flying \cup signIns
    <3> DEFINE next == [op[o] EXCEPT !.pc = "failing"]
    <3>1. op'[o] = next
      BY <2>1, <2>3
    <3>2. /\ next \in Busy /\ next.pc = "failing" /\ next.kind = op[o].kind
          /\ next.grant = op[o].grant
      BY <1>1, <2>3 DEF Busy, Pcs
    <3> HIDE DEF next
    <3> QED BY <1>1, <2>3, <3>1, <3>2 DEF CarriesOn, Replied, At
  <2> QED BY <2>2, <2>3
<1>3. op' \in [Ops -> Busy \cup {Idle}]
  BY <1>2 DEF Cancelled
<1> QED BY <1>2, <1>3 DEF CallsGoOn, GoesOn

LEMMA Resting ==
  ASSUME TypeOK, UNCHANGED <<queue, op>>
  PROVE  CallsGoOn
BY DEF CallsGoOn, GoesOn, TypeOK

LEMMA CallsShape ==
  ASSUME TypeOK, OnTheWireIsSent, [Next]_vars PROVE CallsGoOn
<1>1. ASSUME NEW o \in Ops, Asks(o) PROVE CallsGoOn
  <2>1. PICK kind \in Kinds, direct \in BOOLEAN, ids \in SUBSET Ids : Call(o, kind, ids, direct)
    BY <1>1 DEF Asks
  <2> DEFINE next == [pc |-> "queued", kind |-> kind, grant |-> era, ids |-> ids,
                      direct |-> direct, given |-> {}, chosen |-> {}, routed |-> FALSE,
                      obtained |-> None]
  <2>2. next \in Busy /\ next.pc = "queued" /\ next.grant = era
    BY KindAssumption DEF TypeOK, Busy, Pcs
  <2>3. /\ At(o, "idle") /\ open /\ Becomes(o, next) /\ queue' = Append(queue, o)
    BY <2>1 DEF Call
  <2> HIDE DEF next
  <2>4. /\ op' \in [Ops -> Busy \cup {Idle}] /\ op'[o] = next
        /\ \A p \in Ops \ {o} : op'[p] = op[p]
    BY <2>2, <2>3, BecomesOnly
  <2> QED BY <2>2, <2>3, <2>4 DEF CallsGoOn, Joins
<1>2. ASSUME NEW o \in Ops, Connect(o) PROVE CallsGoOn
  <2> DEFINE next == [op[o] EXCEPT !.pc = "connecting", !.given = consent]
  <2>1. /\ At(o, "queued") /\ Becomes(o, next) /\ UNCHANGED queue /\ consent # None
        /\ o = Head(queue) /\ (op[o].kind = "act" => pending # None)
    BY <1>2 DEF Connect, Served
  <2>t. op[o] \in Busy /\ consent \in SUBSET Types
    BY <2>1, CallKinds DEF TypeOK, At
  <2>2. next \in Busy /\ next.pc = "connecting" /\ next.kind = op[o].kind
        /\ next.grant = op[o].grant
    BY <2>t DEF Busy, Pcs
  <2> HIDE DEF next
  <2> QED BY <2>1, <2>t, <2>2, Moving DEF Replied
<1>3. ASSUME NEW o \in Ops, Mint(o) \/ Minted(o) \/ Cached(o) \/ SendList(o) \/ SendAct(o)
                            \/ SendApproval(o)
      PROVE  CallsGoOn
  <2>1. op[o].pc \in Pcs \ {"queued"} /\ UNCHANGED queue
    BY <1>3 DEF Mint, Minted, Cached, SendList, SendAct, SendApproval, At, Pcs
  <2>2. PICK pc \in Pcs \ {"queued", "routing"} : pc \notin Replied /\ Moves(o, pc)
    BY <1>3 DEF Mint, Minted, Cached, SendList, SendAct, SendApproval, Pcs, Replied
  <2> QED BY <2>1, <2>2, CallKinds, MovingOn DEF At
<1>4. ASSUME NEW o \in Ops, NothingConsented(o) \/ Listed(o) \/ NoneAutomatic(o) \/ Settled(o)
                            \/ SignedIn(o) \/ Fails(o)
      PROVE  CallsGoOn
  <2>1. Ends(o) /\ (op[o].pc \notin {"idle", "queued"} \/ Served(o))
    BY <1>4 DEF NothingConsented, Listed, NoneAutomatic, Settled, SignedIn, Fails, At
  <2> QED BY <2>1, Ending
<1>5. ASSUME NEW o \in Ops, Approve(o) PROVE CallsGoOn
  <2> DEFINE next == [op[o] EXCEPT !.pc = "routing", !.chosen = Automatic(o)]
  <2>1. /\ op[o] \in Busy /\ Becomes(o, next) /\ UNCHANGED queue /\ hasGrant(o)
        /\ ~At(o, "queued")
    BY <1>5, CallKinds DEF Approve, KeepList, At, Pcs
  <2>2. next \in Busy /\ next.pc = "routing" /\ next.kind = op[o].kind
        /\ next.grant = op[o].grant
    BY <2>1 DEF Busy, Pcs, Automatic
  <2> HIDE DEF next
  <2> QED BY <2>1, <2>2, Moving DEF Replied
<1>6. ASSUME NEW o \in Ops, SignIn(o) PROVE CallsGoOn
  <2> DEFINE next == [op[o] EXCEPT !.pc = "signing", !.routed = Routed(o)]
  <2>1. /\ op[o] \in Busy /\ Becomes(o, next) /\ UNCHANGED queue
        /\ o = Head(queue) /\ op[o].kind # "act"
    BY <1>6, CallKinds DEF SignIn, Served, At
  <2>2. Routed(o) \in BOOLEAN
    BY DEF Routed
  <2>3. next \in Busy /\ next.pc = "signing" /\ next.kind = op[o].kind
        /\ next.grant = op[o].grant
    BY <2>1, <2>2 DEF Busy, Pcs
  <2> HIDE DEF next
  <2> QED BY <2>1, <2>3, Moving DEF Replied
<1>7. ASSUME NEW o \in Ops, Serves(o) \/ Authenticates(o) PROVE CallsGoOn
  <2>1. /\ UNCHANGED <<queue, era>> /\ op[o] \in Busy /\ ~At(o, "queued")
    BY <1>7, CallKinds DEF Serves, Authenticates, At, Pcs
  <2>2. era \in Nat /\ waiting \in SUBSET Ids
    BY KindAssumption DEF TypeOK
  <2>3. \E pc \in Replied, ids \in SUBSET Ids :
          Becomes(o, [op[o] EXCEPT !.pc = pc, !.ids = ids, !.obtained = era])
    <3>1. ASSUME NEW pc \in {"minted", "served", "signed"},
                 Becomes(o, [op[o] EXCEPT !.pc = pc, !.obtained = era])
          PROVE  Becomes(o, [op[o] EXCEPT !.pc = pc, !.ids = op[o].ids, !.obtained = era])
      <4>1. [op[o] EXCEPT !.pc = pc, !.obtained = era]
              = [op[o] EXCEPT !.pc = pc, !.ids = op[o].ids, !.obtained = era]
        BY <2>1 DEF Busy
      <4> QED BY <3>1, <4>1
    <3>2. op[o].ids \in SUBSET Ids
      BY <2>1 DEF Busy
    <3> QED BY <1>7, <2>2, <3>1, <3>2 DEF Serves, Authenticates, Replied
  <2>4. PICK pc \in Replied, ids \in SUBSET Ids :
          Becomes(o, [op[o] EXCEPT !.pc = pc, !.ids = ids, !.obtained = era])
    BY <2>3
  <2> DEFINE next == [op[o] EXCEPT !.pc = pc, !.ids = ids, !.obtained = era]
  <2>5. /\ next \in Busy /\ next.pc = pc /\ next.kind = op[o].kind /\ next.grant = op[o].grant
        /\ next.obtained = era
    BY <2>1, <2>2 DEF Busy, Replied, Pcs
  <2>6. Becomes(o, next) /\ pc # "queued" /\ pc # "routing"
    BY <2>4 DEF Replied
  <2> HIDE DEF next
  <2> QED BY <2>1, <2>5, <2>6, Moving
<1>8. CASE Lock \/ SaveProxy \/ Import \/ Remove
  <2>1. Cancelled(SigningIn) /\ UNCHANGED queue
    BY <1>8 DEF Lock, SaveProxy, Import, Remove, Rerouted
  <2> QED BY <2>1, Cancelling
<1>9. CASE RequireProxies
  <2>1. Cancelled(Unrouted) /\ UNCHANGED queue /\ Unrouted \in SUBSET SigningIn
    BY <1>9 DEF RequireProxies, Unrouted
  <2> QED BY <2>1, Cancelling
<1>10. ASSUME NEW id \in Ids, Appears(id) \/ AnsweredElsewhere(id) PROVE UNCHANGED <<queue, op>>
  BY <1>10 DEF Appears, AnsweredElsewhere
<1>11. ASSUME NEW given \in SUBSET {"trades", "marketListings"}, SetAutoConfirm(given)
       PROVE  UNCHANGED <<queue, op>>
  BY <1>11 DEF SetAutoConfirm
<1>12. ASSUME Unlock \/ AllowDirect \/ UNCHANGED vars PROVE UNCHANGED <<queue, op>>
  BY <1>12 DEF Unlock, AllowDirect, vars
<1> QED BY <1>1, <1>2, <1>3, <1>4, <1>5, <1>6, <1>7, <1>8, <1>9, <1>10, <1>11, <1>12, Resting
        DEF Next, Works
-----------------------------------------------------------------------------
LEMMA WireStep ==
  ASSUME TypeOK, OnTheWireIsSent, [Next]_vars PROVE OnTheWireIsSent'
<1> SUFFICES ASSUME NEW p \in flying' PROVE op'[p].pc \in Sent
  BY DEF OnTheWireIsSent
<1>t. flying \subseteq Ops /\ op \in [Ops -> Busy \cup {Idle}]
  BY DEF TypeOK
<1>1. ASSUME NEW o \in Ops, flying' = flying, op[o].pc \notin Sent,
             \A q \in Ops \ {o} : op'[q] = op[q]
      PROVE  op'[p].pc \in Sent
  BY <1>1, <1>t DEF OnTheWireIsSent
<1>2. ASSUME NEW o \in Ops, flying' = flying \ {o}, \A q \in Ops \ {o} : op'[q] = op[q]
      PROVE  op'[p].pc \in Sent
  BY <1>2, <1>t DEF OnTheWireIsSent
<1>3. ASSUME NEW o \in Ops, flying' = flying \cup {o}, op[o] \in Busy, NEW pc \in Sent, Moves(o, pc)
      PROVE  op'[p].pc \in Sent
  <2>1. op'[o].pc = pc /\ \A q \in Ops \ {o} : op'[q] = op[q]
    BY <1>3, <1>t DEF Moves, Becomes, Busy
  <2> QED BY <1>3, <1>t, <2>1 DEF OnTheWireIsSent
<1>b. ASSUME NEW o \in Ops, NEW next, Becomes(o, next) PROVE \A q \in Ops \ {o} : op'[q] = op[q]
  BY <1>b, <1>t DEF Becomes
<1>4. ASSUME NEW o \in Ops, Asks(o) PROVE op'[p].pc \in Sent
  <2>1. flying' = flying /\ op[o].pc \notin Sent /\ \A q \in Ops \ {o} : op'[q] = op[q]
    BY <1>4, <1>b DEF Asks, Call, At, Sent, transports
  <2> QED BY <1>1, <2>1
<1>5. ASSUME NEW o \in Ops, Connect(o) \/ Minted(o) \/ Cached(o) \/ Approve(o) \/ SignIn(o)
                            \/ SignedIn(o) \/ Authenticates(o)
      PROVE  op'[p].pc \in Sent
  <2>1. flying' = flying
    BY <1>5 DEF Connect, Minted, Cached, Approve, SignIn, SignedIn, Authenticates, T!Ask, transports
  <2>2. op[o].pc \notin Sent
    BY <1>5 DEF Connect, Minted, Cached, Approve, SignIn, SignedIn, Authenticates, At, Sent
  <2>3. \A q \in Ops \ {o} : op'[q] = op[q]
    BY <1>5, <1>b DEF Connect, Minted, Cached, Approve, SignIn, SignedIn, Authenticates, Moves, Ends
  <2> QED BY <1>1, <2>1, <2>2, <2>3
<1>6. ASSUME NEW o \in Ops, NothingConsented(o) \/ Listed(o) \/ NoneAutomatic(o) \/ Settled(o)
                            \/ Fails(o) \/ Serves(o)
      PROVE  op'[p].pc \in Sent
  <2>1. flying' = flying \ {o}
    BY <1>6 DEF NothingConsented, Listed, NoneAutomatic, Settled, Fails, Serves, T!GivesUp, T!Settles
  <2>2. \A q \in Ops \ {o} : op'[q] = op[q]
    BY <1>6, <1>b DEF NothingConsented, Listed, NoneAutomatic, Settled, Fails, Serves, Ends
  <2> QED BY <1>2, <2>1, <2>2
<1>7. ASSUME NEW o \in Ops, Mint(o) \/ SendList(o) \/ SendAct(o) \/ SendApproval(o)
      PROVE  op'[p].pc \in Sent
  <2>1. flying' = flying \cup {o} /\ \E pc \in Sent : Moves(o, pc)
    BY <1>7 DEF Mint, SendList, SendAct, SendApproval, T!Leaves, Sent
  <2>2. op[o] \in Busy
    BY <1>7, CallKinds DEF Mint, SendList, SendAct, SendApproval, At
  <2> QED BY <1>3, <2>1, <2>2
<1>8. CASE Lock \/ SaveProxy \/ Import \/ Remove \/ RequireProxies
  BY <1>8 DEF Lock, SaveProxy, Import, Remove, Rerouted, RequireProxies, Withdrawn
<1>9. ASSUME NEW id \in Ids, Appears(id) \/ AnsweredElsewhere(id) PROVE UNCHANGED <<flying, op>>
  BY <1>9 DEF Appears, AnsweredElsewhere, transports
<1>10. ASSUME NEW given \in SUBSET {"trades", "marketListings"}, SetAutoConfirm(given)
       PROVE  UNCHANGED <<flying, op>>
  BY <1>10 DEF SetAutoConfirm, transports
<1>11. ASSUME Unlock \/ AllowDirect \/ UNCHANGED vars PROVE UNCHANGED <<flying, op>>
  BY <1>11 DEF Unlock, AllowDirect, vars, transports, T!Reopen
<1>12. ASSUME UNCHANGED <<flying, op>> PROVE op'[p].pc \in Sent
  BY <1>12 DEF OnTheWireIsSent
<1> QED BY <1>4, <1>5, <1>6, <1>7, <1>8, <1>9, <1>10, <1>11, <1>12 DEF Next, Works

(* What is kept is what a call of this era brought, or gone with the era.  *)
Fetched(e) == \E o \in Ops : hasGrant(o) /\ op[o].pc \in Replied /\ e = op[o].obtained
ListGoesOn ==
  \/ pending' = pending
  \/ pending' = None
  \/ \E e \in Nat \cup {None}, ids \in SUBSET Ids :
       /\ pending' = [era |-> e, ids |-> ids]
       /\ Fetched(e) \/ (pending # None /\ e = pending.era)
HeldGoesOn ==
  /\ held' \in [Ops -> Nat \cup {None}]
  /\ \A o \in Ops : held'[o] \in {held[o], None} \/ (held'[o] = current /\ open /\ At(o, "queued"))
SameEra ==
  /\ UNCHANGED <<current, era>> /\ (open' = open \/ open' = TRUE)
  /\ HeldGoesOn /\ ListGoesOn
  /\ sessions' = sessions \/ Fetched(sessions')
  /\ login' = login \/ Fetched(login')
  /\ since' = since
OtherPolicy ==
  /\ current' = current + 1 /\ UNCHANGED <<open, held, era, sessions, pending, login, since>>
OtherEra ==
  /\ current' = current + 1 /\ era' = era + 1 /\ era' \in 0..MaxEras /\ held' = held
  /\ sessions' = None /\ pending' = None
  /\ since' \in {since, era'} /\ (login' \in {None, era'} \/ UNCHANGED <<login, since>>)
WorldGoesOn == SameEra \/ OtherPolicy \/ OtherEra

LEMMA HeldShapes ==
  ASSUME TypeOK
  PROVE  /\ UNCHANGED held => HeldGoesOn
         /\ \A o \in Ops : T!Leaves(o) \/ T!Settles(o) \/ T!GivesUp(o) =>
              HeldGoesOn /\ UNCHANGED <<open, current>>
         /\ \A o \in Ops : At(o, "queued") /\ T!Ask(o) => HeldGoesOn /\ UNCHANGED <<open, current>>
<1>t. held \in [Ops -> Nat \cup {None}] /\ current \in Nat
  BY DEF TypeOK
<1>1. UNCHANGED held => HeldGoesOn
  BY <1>t DEF HeldGoesOn
<1>2. ASSUME NEW o \in Ops, T!Leaves(o) \/ T!Settles(o) \/ T!GivesUp(o)
      PROVE  HeldGoesOn /\ UNCHANGED <<open, current>>
  BY <1>t, <1>2 DEF HeldGoesOn, T!Leaves, T!Settles, T!GivesUp
<1>3. ASSUME NEW o \in Ops, At(o, "queued"), T!Ask(o)
      PROVE  HeldGoesOn /\ UNCHANGED <<open, current>>
  BY <1>t, <1>3 DEF HeldGoesOn, T!Ask
<1> QED BY <1>1, <1>2, <1>3

LEMMA WorldShape ==
  ASSUME TypeOK, [Next]_vars PROVE WorldGoesOn
<1>1. ASSUME HeldGoesOn, UNCHANGED <<open, current, era, kept, login, since>> PROVE SameEra
  BY <1>1 DEF SameEra, ListGoesOn, kept
<1>2. ASSUME UNCHANGED <<transports, era, kept, login, since>> PROVE SameEra
  BY <1>1, <1>2, HeldShapes DEF transports
<1>3. ASSUME NEW o \in Ops, Asks(o) \/ Cached(o) \/ Approve(o) \/ SignIn(o) \/ Authenticates(o)
      PROVE  SameEra
  BY <1>2, <1>3 DEF Asks, Call, Cached, Approve, SignIn, Authenticates, vault
<1>4. ASSUME NEW o \in Ops, Mint(o) \/ SendList(o) \/ SendAct(o) \/ SendApproval(o) \/ Serves(o)
                            \/ NothingConsented(o) \/ Fails(o)
      PROVE  SameEra
  <2>1. UNCHANGED <<era, kept, login, since>>
    BY <1>4 DEF Mint, SendList, SendAct, SendApproval, Serves, NothingConsented, Fails, vault
  <2>2. T!Leaves(o) \/ T!Settles(o) \/ T!GivesUp(o)
    BY <1>4 DEF Mint, SendList, SendAct, SendApproval, Serves, NothingConsented, Fails
  <2> QED BY <1>1, <2>1, <2>2, HeldShapes
<1>5. ASSUME NEW o \in Ops, Connect(o) PROVE SameEra
  <2>1. UNCHANGED <<era, kept, login, since>> /\ At(o, "queued") /\ T!Ask(o)
    BY <1>5 DEF Connect, vault
  <2> QED BY <1>1, <2>1, HeldShapes
<1>6. ASSUME NEW o \in Ops, Minted(o) \/ SignedIn(o) PROVE SameEra
  <2>1. /\ UNCHANGED <<transports, era, pending, since>>
        /\ sessions' \in {op[o].obtained, sessions} /\ login' \in {op[o].obtained, login}
        /\ hasGrant(o) /\ op[o].pc \in Replied
    BY <1>6 DEF Minted, SignedIn, KeepToken, StoreLogin, vault, At, Replied
  <2>2. Fetched(op[o].obtained)
    BY <2>1 DEF Fetched
  <2> QED BY <2>1, <2>2, HeldShapes DEF SameEra, ListGoesOn, transports
<1>7. ASSUME NEW o \in Ops, Listed(o) \/ NoneAutomatic(o) \/ Settled(o) PROVE SameEra
  <2>1. /\ UNCHANGED <<era, sessions, login, since>> /\ T!GivesUp(o) /\ op[o].pc \in Replied
        /\ op[o] \in Busy
    BY <1>7, CallKinds DEF Listed, NoneAutomatic, Settled, vault, At, Replied
  <2>2. ListGoesOn
    <3>1. \/ pending' \in {pending, None}
          \/ pending # None /\ pending' = [pending EXCEPT !.ids = Remains(o, @)]
          \/ /\ hasGrant(o)
             /\ \E ids \in SUBSET op[o].ids : pending' = [era |-> op[o].obtained, ids |-> ids]
      BY <1>7 DEF Listed, NoneAutomatic, Settled, KeepList, Remains
    <3>2. ASSUME pending # None, pending' = [pending EXCEPT !.ids = Remains(o, @)]
          PROVE  ListGoesOn
      <4>1. pending \in [era : Nat, ids : SUBSET Ids]
        BY <3>2 DEF TypeOK
      <4>2. pending' = [era |-> pending.era, ids |-> Remains(o, pending.ids)]
        BY <3>2, <4>1
      <4>3. pending.era \in Nat /\ Remains(o, pending.ids) \in SUBSET Ids
        BY <4>1 DEF Remains
      <4> QED BY <3>2, <4>2, <4>3 DEF ListGoesOn
    <3>3. ASSUME hasGrant(o), NEW ids \in SUBSET op[o].ids,
                 pending' = [era |-> op[o].obtained, ids |-> ids]
          PROVE  ListGoesOn
      <4>1. Fetched(op[o].obtained) /\ op[o].obtained \in Nat \cup {None} /\ ids \in SUBSET Ids
        BY <2>1, <3>3 DEF Fetched, Busy
      <4> QED BY <3>3, <4>1 DEF ListGoesOn
    <3> QED BY <3>1, <3>2, <3>3 DEF ListGoesOn
  <2> QED BY <2>1, <2>2, HeldShapes DEF SameEra
<1>8. ASSUME NEW id \in Ids, Appears(id) \/ AnsweredElsewhere(id) PROVE SameEra
  BY <1>2, <1>8 DEF Appears, AnsweredElsewhere, vault
<1>9. ASSUME NEW given \in SUBSET {"trades", "marketListings"}, SetAutoConfirm(given) PROVE SameEra
  BY <1>2, <1>9 DEF SetAutoConfirm
<1>10. ASSUME AllowDirect \/ UNCHANGED vars PROVE SameEra
  <2>1. UNCHANGED <<transports, era, kept, login, since>>
    BY <1>10 DEF AllowDirect, vars, vault
  <2> QED BY <1>2, <2>1
<1>11. ASSUME Unlock PROVE SameEra
  <2>1. open' = TRUE /\ UNCHANGED <<current, held, era, kept, login, since>>
    BY <1>11 DEF Unlock, T!Reopen, vault
  <2> QED BY <2>1, HeldShapes DEF SameEra, ListGoesOn, kept
<1>12. ASSUME RequireProxies PROVE OtherPolicy
  BY <1>12 DEF RequireProxies, Withdrawn, OtherPolicy, kept
<1>13. ASSUME Lock \/ SaveProxy \/ Import \/ Remove PROVE OtherEra
  <2>1. /\ NewEra /\ Withdrawn /\ since' \in {since, era'}
        /\ login' \in {None, era'} \/ UNCHANGED <<login, since>>
    BY <1>13 DEF Lock, SaveProxy, Import, Merged, Remove, Rerouted, vault
  <2> QED BY <2>1, KindAssumption DEF NewEra, Withdrawn, OtherEra, TypeOK
<1> QED BY <1>3, <1>4, <1>5, <1>6, <1>7, <1>8, <1>9, <1>10, <1>11, <1>12, <1>13
        DEF Next, Works, WorldGoesOn
-----------------------------------------------------------------------------
LEMMA Numbers ==
  ASSUME TypeOK
  PROVE  /\ current \in Nat /\ era \in Nat /\ None \notin Nat
         /\ \A o \in Ops : Living(o) => op[o].grant \in Nat
         /\ \A o \in Ops : held[o] \in Nat \cup {None}
BY CallKinds, KindAssumption DEF TypeOK, Busy

(* Every call after a step was there before, or joins.                     *)
LEMMA CallsAreCarried ==
  ASSUME TypeOK, CallsGoOn, NEW o \in Ops, Living(o)'
  PROVE  \/ Living(o) /\ (op'[o] = op[o] \/ CarriesOn(o)) /\ op'[o].grant = op[o].grant
         \/ Joins(o)
<1>1. CASE GoesOn
  BY <1>1, CallKinds DEF GoesOn, CarriesOn, Living, At
<1>2. ASSUME NEW p \in Ops, Leaves(p) \/ Joins(p)
      PROVE  (op'[o] = op[o] /\ Living(o)) \/ Joins(o)
  BY <1>2 DEF Leaves, Joins, Living, At, Idle
<1> QED BY <1>1, <1>2 DEF CallsGoOn

LEMMA TimedStep ==
  ASSUME TypeOK, CallsAreTimed, CallsGoOn, WorldGoesOn PROVE CallsAreTimed'
<1> SUFFICES ASSUME NEW o \in Ops, Living(o)'
             PROVE  /\ op'[o].grant <= era' /\ (hasGrant(o)' => open')
                    /\ op'[o].pc \in Replied =>
                         /\ op'[o].obtained \in Nat /\ op'[o].grant <= op'[o].obtained
                         /\ op'[o].obtained <= era'
  BY DEF CallsAreTimed
<1>n. /\ era \in Nat /\ era' \in Nat /\ era' >= era
      /\ Living(o) => op[o].grant \in Nat
  BY Numbers DEF WorldGoesOn, SameEra, OtherPolicy, OtherEra
<1>o. era' = era + 1 \/ (era' = era /\ (open => open'))
  BY DEF WorldGoesOn, SameEra, OtherPolicy, OtherEra
<1>1. CASE Living(o) /\ op'[o] = op[o]
  BY <1>1, <1>n, <1>o DEF CallsAreTimed, hasGrant
<1>2. CASE Living(o) /\ CarriesOn(o)
  BY <1>2, <1>n, <1>o DEF CallsAreTimed, hasGrant, CarriesOn
<1>3. CASE Joins(o)
  BY <1>3, <1>n, <1>o DEF Joins, hasGrant, Replied
<1> QED BY <1>1, <1>2, <1>3, CallsAreCarried

(* The queue, and how it moves.                                            *)
Queued ==
  /\ queue \in Seq(Ops) /\ IsInjective(queue) /\ Range(queue) = {o \in Ops : Living(o)}
  /\ \A o \in Ops : op[o].pc \in {"idle", "queued"} \/ o = Head(queue)

LEMMA QueueStep ==
  ASSUME TypeOK, CallsAreTimed, CallsAreInOrder, CallsGoOn
  PROVE  Queued' /\ CallsAreInOrder'
<1>q. Queued
  BY DEF TypeOK, Queued, Living
<1>m. \A i \in DOMAIN queue : queue[i] \in Ops /\ Living(queue[i])
  BY <1>q DEF Queued, Range
<1>n. era \in Nat /\ \A o \in Ops : Living(o) => op[o].grant \in Nat /\ op[o].grant <= era
  BY Numbers DEF CallsAreTimed
<1>1. CASE GoesOn
  <2>1. \A o \in Ops : /\ Living(o)' <=> Living(o)
                       /\ Living(o) => op'[o].grant = op[o].grant
                       /\ op'[o].pc \in {"idle", "queued"} \/ o = Head(queue)
    BY <1>1, <1>q, CallKinds DEF GoesOn, CarriesOn, Living, At, Busy, Pcs, Queued
  <2>2. Queued'
    BY <1>1, <1>q, <2>1 DEF GoesOn, Queued
  <2> QED BY <1>1, <1>m, <2>1, <2>2 DEF GoesOn, CallsAreInOrder
<1>2. ASSUME NEW o \in Ops, Joins(o) PROVE Queued' /\ CallsAreInOrder'
  <2>1. /\ queue' \in Seq(Ops) /\ DOMAIN queue' = 1..(Len(queue) + 1)
        /\ DOMAIN queue = 1..Len(queue) /\ Len(queue) \in Nat
        /\ \A i \in DOMAIN queue : queue'[i] = queue[i]
        /\ queue'[Len(queue) + 1] = o
    BY <1>2, <1>q DEF Joins, Queued
  <2>2. \A i \in DOMAIN queue : queue[i] # o
    BY <1>2, <1>m DEF Joins, Living
  <2>3. IsInjective(queue')
    BY <1>q, <2>1, <2>2 DEF Queued, IsInjective
  <2>4. Range(queue') = Range(queue) \cup {o}
    BY <2>1 DEF Range
  <2>5. \A p \in Ops : Living(p)' <=> Living(p) \/ p = o
    BY <1>2, CallKinds DEF Joins, Living, At, Busy, Pcs
  <2>6. \A p \in Ops : op'[p].pc \in {"idle", "queued"} \/ p = Head(queue')
    <3>1. queue # <<>> => Head(queue') = Head(queue)
      BY <1>q, <2>1 DEF Queued
    <3>2. queue = <<>> => \A p \in Ops : ~Living(p)
      BY <1>q DEF Queued, Range
    <3> QED BY <1>2, <1>q, <3>1, <3>2 DEF Joins, Queued, Living, At
  <2>7. CallsAreInOrder'
    <3> SUFFICES ASSUME NEW i \in DOMAIN queue', NEW j \in DOMAIN queue', i < j
                 PROVE  op'[queue'[i]].grant <= op'[queue'[j]].grant
      BY DEF CallsAreInOrder
    <3>1. i \in DOMAIN queue /\ queue'[i] = queue[i] /\ queue[i] # o
      BY <2>1, <2>2
    <3>2. op'[queue[i]] = op[queue[i]] /\ op[queue[i]].grant <= era
      BY <1>2, <1>m, <1>n, <3>1 DEF Joins
    <3>3. CASE j \in DOMAIN queue
      <4>1. queue'[j] = queue[j] /\ op'[queue[j]] = op[queue[j]]
        BY <1>2, <1>m, <2>1, <2>2, <3>3 DEF Joins
      <4> QED BY <3>1, <3>2, <3>3, <4>1 DEF CallsAreInOrder
    <3>4. CASE queue'[j] = o
      BY <1>2, <3>1, <3>2, <3>4 DEF Joins
    <3> QED BY <2>1, <3>3, <3>4
  <2>8. Range(queue') = {p \in Ops : Living(p)'}
    BY <1>q, <2>4, <2>5 DEF Queued
  <2> QED BY <2>1, <2>3, <2>6, <2>7, <2>8 DEF Queued
<1>3. ASSUME NEW o \in Ops, Leaves(o) PROVE Queued' /\ CallsAreInOrder'
  <2>1. /\ queue' \in Seq(Ops) /\ Len(queue) \in Nat \ {0}
        /\ DOMAIN queue = 1..Len(queue) /\ DOMAIN queue' = 1..(Len(queue) - 1)
        /\ \A i \in DOMAIN queue' : queue'[i] = queue[i + 1]
        /\ o = queue[1]
    BY <1>3, <1>q DEF Leaves, Queued
  <2>2. IsInjective(queue')
    BY <1>q, <2>1 DEF Queued, IsInjective
  <2>3. \A i \in DOMAIN queue' : i + 1 \in DOMAIN queue /\ 1 \in DOMAIN queue /\ queue'[i] # o
    BY <1>q, <2>1 DEF Queued, IsInjective
  <2>4. Range(queue') = Range(queue) \ {o}
    <3>1. ASSUME NEW x \in Range(queue) \ {o} PROVE x \in Range(queue')
      <4>1. PICK i \in DOMAIN queue : x = queue[i]
        BY DEF Range
      <4>2. i - 1 \in DOMAIN queue' /\ queue'[i - 1] = x
        BY <2>1, <3>1, <4>1
      <4> QED BY <4>2 DEF Range
    <3>2. ASSUME NEW x \in Range(queue') PROVE x \in Range(queue) \ {o}
      BY <2>1, <2>3 DEF Range
    <3> QED BY <3>1, <3>2
  <2>5. \A p \in Ops : Living(p)' <=> Living(p) /\ p # o
    BY <1>3 DEF Leaves, Living, At, Idle
  <2>6. \A p \in Ops : op'[p].pc \in {"idle", "queued"} \/ p = Head(queue')
    BY <1>3, <1>q DEF Leaves, Queued, Idle
  <2>7. \A i \in DOMAIN queue' : op'[queue'[i]] = op[queue[i + 1]]
    BY <1>3, <1>m, <2>1, <2>3 DEF Leaves
  <2>8. CallsAreInOrder'
    <3> SUFFICES ASSUME NEW i \in DOMAIN queue', NEW j \in DOMAIN queue', i < j
                 PROVE  op'[queue'[i]].grant <= op'[queue'[j]].grant
      BY DEF CallsAreInOrder
    <3>1. i + 1 \in DOMAIN queue /\ j + 1 \in DOMAIN queue /\ i + 1 < j + 1
      BY <2>1, <2>3
    <3> QED BY <2>7, <3>1 DEF CallsAreInOrder
  <2>9. Range(queue') = {p \in Ops : Living(p)'}
    BY <1>q, <2>4, <2>5 DEF Queued
  <2> QED BY <2>1, <2>2, <2>6, <2>8, <2>9 DEF Queued
<1> QED BY <1>1, <1>2, <1>3 DEF CallsGoOn

LEMMA HeldStep ==
  ASSUME TypeOK, HeldIsTimed, WorldGoesOn PROVE HeldIsTimed'
<1> SUFFICES ASSUME NEW o \in Ops, held'[o] # None
             PROVE  held'[o] <= current' /\ (held'[o] = current' => open')
  BY DEF HeldIsTimed
<1>n. current \in Nat /\ held[o] \in Nat \cup {None}
  BY Numbers
<1>1. CASE SameEra
  <2>1. held'[o] = held[o] \/ (held'[o] = current /\ open)
    BY <1>1 DEF SameEra, HeldGoesOn
  <2> QED BY <1>1, <1>n, <2>1 DEF SameEra, HeldIsTimed
<1>2. CASE OtherPolicy \/ OtherEra
  BY <1>2, <1>n DEF OtherPolicy, OtherEra, HeldIsTimed
<1> QED BY <1>1, <1>2 DEF WorldGoesOn

LEMMA FetchedIsNow ==
  ASSUME TypeOK, CallsAreTimed, NEW e, Fetched(e) PROVE e = era /\ open
<1>1. PICK o \in Ops : hasGrant(o) /\ op[o].pc \in Replied /\ e = op[o].obtained
  BY DEF Fetched
<1>2. Living(o)
  BY <1>1 DEF Living, At, Replied
<1> QED BY <1>1, <1>2, Numbers DEF CallsAreTimed, hasGrant

LEMMA KeptStep ==
  ASSUME TypeOK, CallsAreTimed, NothingKeptFromBefore, WorldGoesOn PROVE NothingKeptFromBefore'
<1>1. CASE SameEra
  <2>1. /\ open => open'
        /\ era' = era /\ \A e : Fetched(e) => e = era /\ open
    BY <1>1, FetchedIsNow DEF SameEra
  <2>2. pending' # None => open' /\ pending'.era = era'
    <3>1. CASE pending' = pending \/ pending' = None
      BY <2>1, <3>1 DEF NothingKeptFromBefore
    <3>2. ASSUME NEW e, NEW ids, pending' = [era |-> e, ids |-> ids],
                 Fetched(e) \/ (pending # None /\ e = pending.era)
          PROVE  open' /\ pending'.era = era'
      BY <2>1, <3>2 DEF NothingKeptFromBefore
    <3> QED BY <1>1, <3>1, <3>2 DEF SameEra, ListGoesOn
  <2>3. since \in Nat /\ since <= era /\ since' = since /\ era \in Nat
    BY <1>1, Numbers DEF SameEra, TypeOK
  <2>4. login' # None => login' >= since'
    BY <1>1, <2>1, <2>3 DEF SameEra, NothingKeptFromBefore
  <2> QED BY <1>1, <2>1, <2>2, <2>4 DEF SameEra, NothingKeptFromBefore
<1>2. CASE OtherPolicy
  BY <1>2 DEF OtherPolicy, NothingKeptFromBefore
<1>3. CASE OtherEra
  <2>1. since \in Nat /\ since <= era /\ era' = era + 1 /\ era \in Nat
    BY <1>3, Numbers DEF OtherEra, TypeOK
  <2> QED BY <1>3, <2>1 DEF OtherEra, NothingKeptFromBefore
<1> QED BY <1>1, <1>2, <1>3 DEF WorldGoesOn

LEMMA AllAsTheHead ==
  ASSUME TypeOK, CallsAreTimed, CallsAreInOrder, NEW o \in Ops, hasGrant(o), op[o].pc \in Replied,
         NEW p \in Ops, Living(p)
  PROVE  hasGrant(p)
<1>1. /\ queue \in Seq(Ops) /\ o \in Range(queue) /\ p \in Range(queue) /\ o = Head(queue)
  BY DEF TypeOK, Living, At, Replied
<1>2. PICK i \in DOMAIN queue : p = queue[i]
  BY <1>1 DEF Range
<1>3. 1 \in DOMAIN queue /\ o = queue[1] /\ i \in Nat /\ 1 <= i
  BY <1>1, <1>2
<1>4. op[o].grant <= op[p].grant
  BY <1>2, <1>3, Numbers DEF CallsAreInOrder, Living, At
<1> QED BY <1>4, Numbers DEF CallsAreTimed, hasGrant

LEMMA ListStep ==
  ASSUME TypeOK, CallsAreTimed, CallsAreInOrder, ListIsOfEveryCall, CallsGoOn, WorldGoesOn
  PROVE  ListIsOfEveryCall'
<1> SUFFICES ASSUME pending' # None, NEW p \in Ops, Living(p)' PROVE hasGrant(p)'
  BY DEF ListIsOfEveryCall
<1>1. era' = era
  BY DEF WorldGoesOn, SameEra, OtherPolicy, OtherEra
<1>2. \A o \in Ops : Living(o) => hasGrant(o)
  <2>1. CASE pending # None
    BY <2>1 DEF ListIsOfEveryCall
  <2>2. ASSUME NEW e, Fetched(e) PROVE \A o \in Ops : Living(o) => hasGrant(o)
    BY <2>2, AllAsTheHead DEF Fetched
  <2> QED BY <2>1, <2>2 DEF WorldGoesOn, SameEra, OtherPolicy, OtherEra, ListGoesOn
<1>3. CASE Joins(p)
  BY <1>1, <1>3 DEF Joins, hasGrant
<1>4. CASE Living(p) /\ op'[p].grant = op[p].grant
  BY <1>1, <1>2, <1>4 DEF hasGrant
<1> QED BY <1>3, <1>4, CallsAreCarried

LEMMA AnswersStep ==
  ASSUME TypeOK, HeldIsTimed, ListIsOfEveryCall, AnswersAreTimed, CallsGoOn, WorldGoesOn
  PROVE  AnswersAreTimed'
<1> SUFFICES ASSUME NEW o \in Ops, Living(o)', Answering(o)', held'[o] = current'
             PROVE  hasGrant(o)'
  BY DEF AnswersAreTimed
<1>n. current \in Nat /\ held[o] \in Nat \cup {None} /\ None \notin Nat
  BY Numbers
<1>1. SameEra
  BY <1>n DEF WorldGoesOn, OtherPolicy, OtherEra, HeldIsTimed
<1>2. era' = era /\ current' = current /\ (held[o] = current \/ At(o, "queued"))
  BY <1>1, <1>n DEF SameEra, HeldGoesOn
<1>3. ~Joins(o)
  BY DEF Joins, Answering
<1>4. Living(o) /\ (op'[o] = op[o] \/ CarriesOn(o)) /\ op'[o].grant = op[o].grant
  BY <1>3, CallsAreCarried
<1>5. hasGrant(o)
  <2>1. CASE At(o, "queued")
    <3>1. op'[o].pc # "queued"  BY <2>1, <1>4, KindAssumption DEF CarriesOn, Answering, At
    <3> QED BY <1>4, <2>1, <3>1 DEF CarriesOn, Answering, At, ListIsOfEveryCall
  <2>2. CASE ~At(o, "queued")
    BY <1>2, <1>4, <2>2 DEF AnswersAreTimed, Answering, CarriesOn, At
  <2> QED BY <2>1, <2>2
<1> QED BY <1>2, <1>4, <1>5 DEF hasGrant
-----------------------------------------------------------------------------
LEMMA FlagsStep ==
  ASSUME TypeOK, [Next]_vars
  PROVE  open' \in BOOLEAN /\ proxied' \in BOOLEAN /\ requireProxies' \in BOOLEAN
<1>t. open \in BOOLEAN /\ proxied \in BOOLEAN /\ requireProxies \in BOOLEAN
  BY Zenon DEF TypeOK
<1>1. ASSUME UNCHANGED <<open, proxied, requireProxies>>
      PROVE  open' \in BOOLEAN /\ proxied' \in BOOLEAN /\ requireProxies' \in BOOLEAN
  <2>1. open' = open /\ proxied' = proxied /\ requireProxies' = requireProxies
    BY <1>1
  <2> QED BY <1>t, <2>1, Zenon
<1>2. ASSUME NEW o \in Ops, Asks(o) \/ Works(o) \/ Serves(o) \/ Authenticates(o)
      PROVE  UNCHANGED <<open, proxied, requireProxies>>
  BY <1>2 DEF Asks, Call, Works, Serves, Authenticates, Connect, Mint, Minted, Cached,
     NothingConsented, SendList, SendAct, Listed, NoneAutomatic, Approve, SendApproval, Settled,
     Fails, SignIn, SignedIn, T!Ask, T!Leaves, T!Settles, T!GivesUp, transports, vault
<1>3. ASSUME NEW id \in Ids, Appears(id) \/ AnsweredElsewhere(id)
      PROVE  UNCHANGED <<open, proxied, requireProxies>>
  BY <1>3 DEF Appears, AnsweredElsewhere, transports, vault
<1>4. ASSUME NEW given \in SUBSET {"trades", "marketListings"}, SetAutoConfirm(given)
      PROVE  UNCHANGED <<open, proxied, requireProxies>>
  BY <1>4 DEF SetAutoConfirm, transports
<1>5. CASE UNCHANGED vars
  <2>1. UNCHANGED <<open, proxied, requireProxies>>
    BY <1>5 DEF vars, transports, vault
  <2> QED BY <1>1, <2>1
<1>6. CASE Lock \/ Unlock
  <2>1. open' \in BOOLEAN /\ proxied' = proxied /\ requireProxies' = requireProxies
    BY <1>6 DEF Lock, Unlock, T!Reopen, vault
  <2> QED BY <1>t, <2>1, Zenon
<1>7. CASE SaveProxy \/ Import \/ Remove
  <2>1. open' = open /\ requireProxies' = requireProxies
    BY <1>7 DEF SaveProxy, Import, Remove, Rerouted
  <2>2. SaveProxy \/ Remove => proxied' \in BOOLEAN
    BY DEF SaveProxy, Remove, Rerouted
  <2>3. Import => proxied' \in BOOLEAN \/ proxied' = proxied
    BY DEF Import, Rerouted
  <2> QED BY <1>7, <1>t, <2>1, <2>2, <2>3, Zenon
<1>8. CASE RequireProxies \/ AllowDirect
  <2>1. open' = open /\ proxied' = proxied /\ requireProxies' \in BOOLEAN
    BY <1>8 DEF RequireProxies, AllowDirect, transports
  <2> QED BY <1>t, <2>1, Zenon
<1> QED BY <1>1, <1>2, <1>3, <1>4, <1>5, <1>6, <1>7, <1>8 DEF Next

LEMMA SteamStep ==
  ASSUME TypeOK, [Next]_vars
  PROVE  /\ flying' \subseteq Ops /\ waiting' \subseteq Ids /\ gone' \subseteq Ids
         /\ consent' \in {None} \cup SUBSET Types
<1>t. /\ flying \subseteq Ops /\ waiting \subseteq Ids /\ gone \subseteq Ids
      /\ consent \in {None} \cup SUBSET Types
  BY DEF TypeOK
<1>1. ASSUME NEW o \in Ops, Asks(o) \/ Works(o) \/ Authenticates(o)
      PROVE  flying' \subseteq Ops /\ UNCHANGED <<steam, consent>>
  BY <1>t, <1>1 DEF Asks, Call, Works, Authenticates, Connect, Mint, Minted, Cached,
     NothingConsented, SendList, SendAct, Listed, NoneAutomatic, Approve, SendApproval, Settled,
     Fails, SignIn, SignedIn, T!Ask, T!Leaves, T!Settles, T!GivesUp, transports, vault
<1>2. ASSUME NEW o \in Ops, Serves(o)
      PROVE  flying' \subseteq Ops /\ waiting' \subseteq Ids /\ gone' \subseteq Ids
             /\ UNCHANGED consent
  <2>1. UNCHANGED steam
        \/ (Settling(o) \subseteq waiting /\ waiting' = waiting \ Settling(o)
            /\ gone' = gone \cup Settling(o))
    BY <1>2 DEF Serves
  <2>2. waiting' \subseteq Ids /\ gone' \subseteq Ids
    BY <1>t, <2>1 DEF steam
  <2> QED BY <1>t, <1>2, <2>2 DEF Serves, T!Settles, vault
<1>3. ASSUME NEW id \in Ids, Appears(id) \/ AnsweredElsewhere(id)
      PROVE  /\ waiting' \subseteq Ids /\ gone' \subseteq Ids /\ UNCHANGED <<flying, consent>>
  BY <1>t, <1>3 DEF Appears, AnsweredElsewhere, transports, vault
<1>4. ASSUME NEW given \in SUBSET {"trades", "marketListings"}, SetAutoConfirm(given)
      PROVE  consent' \in SUBSET Types /\ UNCHANGED <<flying, steam>>
  BY <1>4 DEF SetAutoConfirm, transports, Types
<1>5. ASSUME Lock \/ SaveProxy \/ Import \/ Remove \/ RequireProxies
      PROVE  /\ flying' = {} /\ UNCHANGED steam /\ consent' \in {consent, None, {}}
  BY <1>5 DEF Lock, SaveProxy, Import, Remove, Rerouted, RequireProxies, Withdrawn, vault
<1>6. ASSUME Unlock \/ AllowDirect \/ UNCHANGED vars PROVE UNCHANGED <<flying, steam, consent>>
  BY <1>6 DEF Unlock, AllowDirect, vars, T!Reopen, transports, vault
<1> QED BY <1>t, <1>1, <1>2, <1>3, <1>4, <1>5, <1>6 DEF Next, steam

LEMMA TypeStep ==
  ASSUME TypeOK, CallsAreTimed, CallsAreInOrder, CallsGoOn, WorldGoesOn, [Next]_vars
  PROVE  TypeOK'
<1>n. current \in Nat /\ era \in 0..MaxEras /\ held \in [Ops -> Nat \cup {None}]
  BY DEF TypeOK
<1>1. ({open, proxied, requireProxies} \subseteq BOOLEAN)'
  BY FlagsStep, Zenon
<1>2. current' \in Nat /\ era' \in 0..MaxEras /\ held' \in [Ops -> Nat \cup {None}]
  BY <1>n DEF WorldGoesOn, SameEra, HeldGoesOn, OtherPolicy, OtherEra
<1>3. \A e : Fetched(e) => e \in Nat
  BY FetchedIsNow, Numbers
<1>4. sessions' \in Nat \cup {None} /\ login' \in Nat \cup {None}
  <2>1. sessions \in Nat \cup {None} /\ login \in Nat \cup {None}
    BY DEF TypeOK
  <2> QED BY <1>2, <1>3, <2>1 DEF WorldGoesOn, SameEra, OtherPolicy, OtherEra
<1>8. since' \in 0..era'
  BY <1>n DEF TypeOK, WorldGoesOn, SameEra, OtherPolicy, OtherEra
<1>5. pending' \in [era : Nat, ids : SUBSET Ids] \cup {None}
  <2>1. pending \in [era : Nat, ids : SUBSET Ids] \cup {None}
    BY DEF TypeOK
  <2> QED BY <1>3, <2>1 DEF WorldGoesOn, SameEra, ListGoesOn, OtherPolicy, OtherEra
<1>6. op' \in [Ops -> Busy \cup {Idle}]
  BY DEF CallsGoOn
<1>7. Queued'
  BY QueueStep
<1> QED BY <1>1, <1>2, <1>4, <1>5, <1>6, <1>7, <1>8, SteamStep DEF TypeOK, Queued, Living

LEMMA Initially == Init => IInv
<1> SUFFICES ASSUME Init PROVE IInv OBVIOUS
<1>1. \A o \in Ops : op[o] = Idle /\ At(o, "idle") /\ ~Living(o) /\ held[o] = None
  BY DEF Init, T!Init, At, Living, Idle
<1>2. TypeOK
  <2>1. ({open, proxied, requireProxies} \subseteq BOOLEAN)
    BY Zenon DEF Init, T!Init
  <2>2. /\ current \in Nat /\ held \in [Ops -> Nat \cup {None}] /\ flying \subseteq Ops
        /\ era \in 0..MaxEras /\ since \in 0..era /\ pending = None
        /\ {sessions, login} \subseteq Nat \cup {None}
    BY KindAssumption DEF Init, T!Init
  <2>3. /\ consent \in SUBSET Types /\ waiting \subseteq Ids /\ gone \subseteq Ids
        /\ op \in [Ops -> Busy \cup {Idle}]
    BY DEF Init
  <2>4. queue \in Seq(Ops) /\ IsInjective(queue) /\ Range(queue) = {o \in Ops : ~At(o, "idle")}
    BY <1>1 DEF Init, IsInjective, Range
  <2>5. \A o \in Ops : op[o].pc \in {"idle", "queued"}
    BY <1>1 DEF Idle
  <2> QED BY <2>1, <2>2, <2>3, <2>4, <2>5 DEF TypeOK
<1>3. /\ OnTheWireIsSent /\ CallsAreTimed /\ CallsAreInOrder /\ HeldIsTimed
      /\ ListIsOfEveryCall /\ AnswersAreTimed
  BY <1>1 DEF Init, T!Init, OnTheWireIsSent, CallsAreTimed, CallsAreInOrder, HeldIsTimed,
     ListIsOfEveryCall, AnswersAreTimed
<1>4. NothingKeptFromBefore
  BY KindAssumption DEF Init, NothingKeptFromBefore
<1> QED BY <1>2, <1>3, <1>4 DEF IInv

LEMMA Inductive == IInv /\ [Next]_vars => IInv'
<1> SUFFICES ASSUME IInv, [Next]_vars PROVE IInv' OBVIOUS
<1> USE DEF IInv
<1>1. CallsGoOn /\ WorldGoesOn
  BY CallsShape, WorldShape
<1>2. TypeOK' /\ OnTheWireIsSent'
  BY <1>1, TypeStep, WireStep
<1>3. CallsAreTimed' /\ CallsAreInOrder' /\ HeldIsTimed'
  BY <1>1, TimedStep, QueueStep, HeldStep
<1>4. NothingKeptFromBefore' /\ ListIsOfEveryCall' /\ AnswersAreTimed'
  BY <1>1, KeptStep, ListStep, AnswersStep
<1> QED BY <1>2, <1>3, <1>4

(* The invariant the theorems below rest on.                               *)
THEOREM Invariant == Spec => []IInv
BY Initially, Inductive, PTL DEF Spec

(* Every variable keeps its type, and the queue holds each call once.      *)
THEOREM TypeCorrect == Spec => []TypeOK
BY Invariant, PTL DEF IInv

(* No token and no list to act on is of an earlier unlock or of the account*)
(* as it was; no stored login is from before the account's present route.  *)
THEOREM NothingIsKept == Spec => []NothingKeptFromBefore
BY Invariant, PTL DEF IInv

LEMMA AnswersSent ==
  ASSUME TypeOK, OnTheWireIsSent, [Next]_vars, NEW o \in Ops, Answers(o)
  PROVE  SendAct(o) \/ SendApproval(o)
<1>a. o \in flying' /\ o \notin flying /\ op'[o].pc \in {"acting", "approving"}
  BY DEF Answers
<1>1. ASSUME NEW p \in Ops, Mint(p) \/ SendList(p) PROVE FALSE
  <2>1. flying' = flying \cup {p} /\ \E pc \in {"minting", "listing"} : Moves(p, pc)
    BY <1>1 DEF Mint, SendList, T!Leaves
  <2>2. op[p] \in Busy
    BY <1>1, CallKinds DEF Mint, SendList, At
  <2>3. op'[p].pc \in {"minting", "listing"}
    BY <2>1, <2>2 DEF Moves, Becomes, TypeOK, Busy
  <2> QED BY <1>a, <2>1, <2>3
<1>2. ASSUME NEW p \in Ops, SendAct(p) \/ SendApproval(p) PROVE p = o
  BY <1>a, <1>2 DEF SendAct, SendApproval, T!Leaves
<1>3. ASSUME NEW p \in Ops,
             \/ Connect(p) \/ Minted(p) \/ Cached(p) \/ NothingConsented(p) \/ Listed(p)
             \/ NoneAutomatic(p) \/ Approve(p) \/ Settled(p) \/ Fails(p) \/ SignIn(p)
             \/ SignedIn(p) \/ Asks(p) \/ Serves(p) \/ Authenticates(p)
      PROVE  FALSE
  BY <1>a, <1>3 DEF Connect, Minted, Cached, NothingConsented, Listed, NoneAutomatic, Approve,
     Settled, Fails, SignIn, SignedIn, Asks, Call, Serves, Authenticates, T!Ask, T!Settles,
     T!GivesUp, transports
<1>4. ASSUME Lock \/ Unlock \/ SaveProxy \/ Import \/ Remove \/ RequireProxies \/ AllowDirect
             \/ UNCHANGED vars
      PROVE  FALSE
  BY <1>a, <1>4 DEF Lock, Unlock, SaveProxy, Import, Remove, Rerouted, RequireProxies,
     AllowDirect, Withdrawn, T!Reopen, transports, vars
<1>5. ASSUME NEW id \in Ids, Appears(id) \/ AnsweredElsewhere(id) PROVE FALSE
  BY <1>a, <1>5 DEF Appears, AnsweredElsewhere, transports
<1>6. ASSUME NEW given \in SUBSET {"trades", "marketListings"}, SetAutoConfirm(given) PROVE FALSE
  BY <1>a, <1>6 DEF SetAutoConfirm, transports
<1> QED BY <1>1, <1>2, <1>3, <1>4, <1>5, <1>6 DEF Next, Works

LEMMA AnswersHaveConsent ==
  ASSUME IInv, [Next]_vars, NEW o \in Ops, Answers(o)
  PROVE  /\ open /\ hasGrant(o)
         /\ op[o].kind = "auto" =>
              consent # None /\ \A id \in op[o].chosen : mayAutoConfirm(id, consent)
<1> USE DEF IInv
<1>1. SendAct(o) \/ SendApproval(o)
  BY AnswersSent
<1>2. Living(o) /\ Answering(o) /\ held[o] = current
  BY <1>1 DEF SendAct, SendApproval, T!Leaves, T!Holds, Living, Answering, At
<1>3. open /\ hasGrant(o)
  BY <1>2 DEF AnswersAreTimed, CallsAreTimed
<1> QED BY <1>1, <1>3 DEF SendAct, SendApproval, StillGiven

(* Whatever leaves to settle a confirmation leaves under the permission of *)
(* its call, and an automatic approval with consent for all it approves.   *)
THEOREM AnswersHaveConsentAlways == Spec => AnswersAsConsented
<1>1. IInv /\ [Next]_vars =>
        [\A o \in Ops : Answers(o) =>
           /\ open /\ hasGrant(o)
           /\ op[o].kind = "auto" =>
                consent # None /\ \A id \in op[o].chosen : mayAutoConfirm(id, consent)]_vars
  BY AnswersHaveConsent
<1> QED BY <1>1, Invariant, PTL DEF Spec, AnswersAsConsented
=============================================================================
