----------------------------- MODULE Confirmations -----------------------------
(***************************************************************************)
(* ConfirmationsService and ConfirmationsClient (src/main/confirmations/   *)
(* service.ts, client.ts, policy.ts) for one account: its operations run   *)
(* one at a time, over a transport whose permission is Grants' (the        *)
(* promise Egress keeps), while the vault locks and opens again, the route *)
(* and the policy change, consent is given and taken back, and Steam and   *)
(* the user's other devices settle confirmations on their own.             *)
(***************************************************************************)
EXTENDS Naturals, Sequences, Functions

CONSTANTS
  Ops,      \* calls that may be under way
  Kinds,    \* what they do, of "list", "act", "auto" and "signIn"
  Trades, Listings, Critical,  \* Steam's confirmations, by type
  None,
  MaxEras   \* bound: locks, changes of account, and policies switched on

ASSUME KindAssumption ==
  /\ Kinds \subseteq {"list", "act", "auto", "signIn"}
  /\ None \notin Nat /\ MaxEras \in Nat

VARIABLES
  open, current, held, flying,  \* the transports: see Grants
  era,       \* generation and epoch of the service
  queue,     \* queues: the operations of this account, the first one running
  op,        \* what each operation is doing
  sessions,  \* the era the cached access token was obtained in, or None
  pending,   \* the confirmations that may be acted on, and their era, or None
  proxied,   \* the account has a proxy
  requireProxies,
  login,     \* the era the stored refresh token came in, or None
  consent,   \* the types approved automatically, None without the account
  since,     \* history: the era the account got its present route in
  waiting,   \* Steam: confirmations waiting for an answer
  gone       \* Steam: confirmations answered, here or elsewhere

transports == <<open, current, held, flying>>
kept == <<sessions, pending>>
vault == <<proxied, requireProxies, login, consent, since>>
steam == <<waiting, gone>>
vars == <<transports, era, queue, op, kept, vault, steam>>

T == INSTANCE Grants WITH Callers <- Ops

Ids == Trades \cup Listings \cup Critical
Idle == [pc |-> "idle"]

(* mayAutoConfirm: a type this program knows how to, and consent for it.   *)
mayAutoConfirm(id, given) ==
  \/ id \in Trades /\ "trades" \in given
  \/ id \in Listings /\ "marketListings" \in given

At(o, pc) == op[o].pc = pc
Becomes(o, next) == op' = [op EXCEPT ![o] = next]
Moves(o, pc) == Becomes(o, [op[o] EXCEPT !.pc = pc])
hasGrant(o) == op[o].grant = era

(* The work settles, one way or the other, and the next one starts.        *)
Ends(o) == Becomes(o, Idle) /\ queue' = Tail(queue)

(* serialise *)
Served(o) == queue # <<>> /\ o = Head(queue)

-----------------------------------------------------------------------------
Call(o, kind, ids, direct) ==
  /\ At(o, "idle") /\ open
  /\ Becomes(o, [pc |-> "queued", kind |-> kind, grant |-> era, ids |-> ids, direct |-> direct,
                 given |-> {}, chosen |-> {}, routed |-> FALSE, obtained |-> None])
  /\ queue' = Append(queue, o)
  /\ UNCHANGED <<transports, era, kept, vault, steam>>

(* list, act and runAutoConfirm up to forAccount: nonces first, then the   *)
(* account, then a transport, which the policy may refuse.                 *)
Connect(o) ==
  /\ Served(o) /\ At(o, "queued") /\ op[o].kind # "signIn"
  /\ op[o].kind = "act" => pending # None /\ op[o].ids \subseteq pending.ids
  /\ open /\ consent # None /\ (requireProxies => proxied)
  /\ T!Ask(o) /\ Becomes(o, [op[o] EXCEPT !.pc = "connecting", !.given = consent])
  /\ UNCHANGED <<era, queue, kept, vault, steam>>

(* accessTokenFor without a token, or with one about to expire.            *)
Mint(o) ==
  /\ At(o, "connecting") /\ login # None
  /\ T!Leaves(o) /\ Moves(o, "minting")
  /\ UNCHANGED <<era, queue, kept, vault, steam>>

KeepToken(o) == hasGrant(o)

Minted(o) ==
  /\ At(o, "minted") /\ KeepToken(o)
  /\ sessions' = op[o].obtained /\ Moves(o, "ready")
  /\ UNCHANGED <<transports, era, queue, pending, vault, steam>>

Cached(o) ==
  /\ At(o, "connecting") /\ T!Holds(o) /\ sessions # None
  /\ Moves(o, "ready")
  /\ UNCHANGED <<transports, era, queue, kept, vault, steam>>

(* runAutoConfirm without any consent asks Steam nothing.                  *)
NothingConsented(o) ==
  /\ At(o, "ready") /\ op[o].kind = "auto" /\ op[o].given = {}
  /\ T!GivesUp(o) /\ Ends(o)
  /\ UNCHANGED <<era, kept, vault, steam>>

SendList(o) ==
  /\ At(o, "ready")
  /\ op[o].kind = "list" \/ (op[o].kind = "auto" /\ op[o].given # {})
  /\ T!Leaves(o) /\ Moves(o, "listing")
  /\ UNCHANGED <<era, queue, kept, vault, steam>>

SendAct(o) ==
  /\ At(o, "ready") /\ op[o].kind = "act"
  /\ \A id \in op[o].ids \cap Critical : op[o].ids = {id}
  /\ T!Leaves(o) /\ Moves(o, "acting")
  /\ UNCHANGED <<era, queue, kept, vault, steam>>

KeepList(o) == hasGrant(o)

Listed(o) ==
  /\ At(o, "listed") /\ op[o].kind = "list" /\ KeepList(o)
  /\ T!GivesUp(o) /\ Ends(o)
  /\ pending' = [era |-> op[o].obtained, ids |-> op[o].ids]
  /\ UNCHANGED <<era, sessions, vault, steam>>

(* runAutoConfirm reads consent again with the list in hand.               *)
Automatic(o) == {id \in op[o].ids : consent # None /\ mayAutoConfirm(id, consent)}

NoneAutomatic(o) ==
  /\ At(o, "listed") /\ op[o].kind = "auto" /\ KeepList(o)
  /\ Automatic(o) = {}
  /\ T!GivesUp(o) /\ Ends(o)
  /\ pending' = IF consent = None THEN pending
                ELSE [era |-> op[o].obtained, ids |-> op[o].ids]
  /\ UNCHANGED <<era, sessions, vault, steam>>

Approve(o) ==
  /\ At(o, "listed") /\ op[o].kind = "auto" /\ KeepList(o)
  /\ Automatic(o) # {} /\ T!Holds(o)
  /\ Becomes(o, [op[o] EXCEPT !.pc = "routing", !.chosen = Automatic(o)])
  /\ UNCHANGED <<transports, era, queue, kept, vault, steam>>

(* Faulty: consent is what it was when the list was read.                  *)
StillGivenThen(o) == o \in Ops

(* beforeSend, after the route was checked and in the step that sends.     *)
StillGiven(o) == consent # None /\ \A id \in op[o].chosen : mayAutoConfirm(id, consent)

SendApproval(o) ==
  /\ At(o, "routing") /\ StillGiven(o)
  /\ T!Leaves(o) /\ Moves(o, "approving")
  /\ UNCHANGED <<era, queue, kept, vault, steam>>

Settling(o) == IF op[o].kind = "act" THEN op[o].ids ELSE op[o].chosen

Remains(o, ids) == ids \ Settling(o)

(* The answer to act or to an approval, and what may still be acted on.    *)
Settled(o) ==
  /\ At(o, "served") /\ T!GivesUp(o) /\ Ends(o)
  /\ pending' = IF ~hasGrant(o) THEN pending
                ELSE IF op[o].kind = "auto"
                     THEN [era |-> op[o].obtained, ids |-> Remains(o, op[o].ids)]
                ELSE IF pending = None THEN None
                ELSE [pending EXCEPT !.ids = Remains(o, @)]
  /\ UNCHANGED <<era, sessions, vault, steam>>

(* Everything that refuses or goes wrong.                                  *)
Fails(o) ==
  /\ Served(o) /\ T!GivesUp(o) /\ Ends(o)
  /\ UNCHANGED <<era, kept, vault, steam>>

-----------------------------------------------------------------------------
SignInWanted(o) == open /\ hasGrant(o)

Routed(o) == proxied /\ ~op[o].direct

SignIn(o) ==
  /\ Served(o) /\ At(o, "queued") /\ op[o].kind = "signIn"
  /\ SignInWanted(o) /\ consent # None /\ (requireProxies => Routed(o))
  /\ Becomes(o, [op[o] EXCEPT !.pc = "signing", !.routed = Routed(o)])
  /\ UNCHANGED <<transports, era, queue, kept, vault, steam>>

StoreLogin(o) == hasGrant(o)

(* The token is stored, and the session that came with it if it is usable. *)
SignedIn(o) ==
  /\ At(o, "signed") /\ StoreLogin(o) /\ open /\ consent # None
  /\ login' = op[o].obtained /\ sessions' \in {op[o].obtained, sessions}
  /\ Ends(o)
  /\ UNCHANGED <<transports, era, pending, proxied, requireProxies, consent, since, steam>>

-----------------------------------------------------------------------------
(* Steam answers.  Nothing is left on the wire to abort then, and the      *)
(* continuation has yet to run.                                            *)
Serves(o) ==
  /\ o \in flying /\ T!Settles(o)
  /\ \/ /\ At(o, "minting")
        /\ Becomes(o, [op[o] EXCEPT !.pc = "minted", !.obtained = era])
        /\ UNCHANGED steam
     \/ /\ At(o, "listing")
        /\ Becomes(o, [op[o] EXCEPT !.pc = "listed", !.ids = waiting, !.obtained = era])
        /\ UNCHANGED steam
     \/ /\ op[o].pc \in {"acting", "approving"} /\ Settling(o) \subseteq waiting
        /\ Becomes(o, [op[o] EXCEPT !.pc = "served", !.obtained = era])
        /\ waiting' = waiting \ Settling(o) /\ gone' = gone \cup Settling(o)
  /\ UNCHANGED <<era, queue, kept, vault>>

Authenticates(o) ==
  /\ At(o, "signing") /\ Becomes(o, [op[o] EXCEPT !.pc = "signed", !.obtained = era])
  /\ UNCHANGED <<transports, era, queue, kept, vault, steam>>

Appears(id) ==
  /\ id \notin waiting \cup gone /\ waiting' = waiting \cup {id}
  /\ UNCHANGED <<transports, era, queue, op, kept, vault, gone>>

AnsweredElsewhere(id) ==
  /\ id \in waiting /\ waiting' = waiting \ {id} /\ gone' = gone \cup {id}
  /\ UNCHANGED <<transports, era, queue, op, kept, vault>>

-----------------------------------------------------------------------------
(* What is on the wire is aborted, and sign-ins are cancelled.             *)
Cancelled(signIns) ==
  op' = [o \in Ops |-> IF o \in flying \cup signIns
                       THEN [op[o] EXCEPT !.pc = "failing"] ELSE op[o]]

SigningIn == {o \in Ops : At(o, "signing")}

Withdrawn == current' = current + 1 /\ flying' = {} /\ held' = held

NewEra == era < MaxEras /\ era' = era + 1 /\ sessions' = None /\ pending' = None

(* onLock: forget and forgetAll.  The stored login outlives it.            *)
Lock ==
  /\ open /\ open' = FALSE /\ Withdrawn /\ NewEra /\ Cancelled(SigningIn)
  /\ UNCHANGED <<queue, vault, steam>>

Unlock ==
  /\ ~open /\ T!Reopen
  /\ UNCHANGED <<era, queue, op, kept, vault, steam>>

(* dropAccountRouting, in the step that changes the account in the vault.  *)
Rerouted(row) ==
  /\ open /\ open' = open /\ Withdrawn /\ NewEra /\ Cancelled(SigningIn)
  /\ UNCHANGED <<queue, requireProxies, steam>>
  /\ row

(* applyProxyChange: another route, and the login goes with the old one.   *)
SaveProxy ==
  Rerouted(/\ consent # None /\ proxied' \in BOOLEAN /\ (proxied \/ proxied')
           /\ since' = era' /\ login' = None /\ UNCHANGED consent)

(* Faulty: an import keeps the login whatever it does to the route.        *)
MergedAnyway(routeChanged) == {login, era'}

(* mergeAccount: the login in the file, or else the one that is stored;    *)
(* none at all on another route.                                           *)
Merged(routeChanged) == IF routeChanged THEN {None} ELSE {login, era'}

(* A replacement adopts a proxy or leaves the route; newAccount takes what *)
(* the file has, and no consent.                                           *)
Import ==
  \/ Rerouted(/\ consent # None /\ UNCHANGED consent
              /\ \E routeChanged \in BOOLEAN :
                   /\ IF routeChanged THEN proxied' = TRUE /\ since' = era'
                                      ELSE UNCHANGED <<proxied, since>>
                   /\ login' \in Merged(routeChanged))
  \/ Rerouted(/\ consent = None /\ consent' = {} /\ proxied' \in BOOLEAN
              /\ since' = era' /\ login' \in {None, era'})

Remove ==
  Rerouted(/\ consent # None /\ consent' = None /\ login' = None /\ proxied' = FALSE
           /\ UNCHANGED since)

Unrouted == {o \in SigningIn : ~op[o].routed}

(* Require proxies saved on: forgetAll and cancelUnroutedSignIns.          *)
RequireProxies ==
  /\ open /\ open' = open /\ ~requireProxies /\ requireProxies' = TRUE
  /\ current < 2 * MaxEras /\ Withdrawn /\ Cancelled(Unrouted)
  /\ UNCHANGED <<era, queue, kept, proxied, login, consent, since, steam>>

AllowDirect ==
  /\ open /\ requireProxies /\ requireProxies' = FALSE
  /\ UNCHANGED <<transports, era, queue, op, kept, proxied, login, consent, since, steam>>

(* accountSetAutoConfirm: nothing in the air is stopped for it.            *)
SetAutoConfirm(given) ==
  /\ open /\ consent # None /\ consent' = given
  /\ UNCHANGED <<transports, era, queue, op, kept, proxied, requireProxies, login, since, steam>>

-----------------------------------------------------------------------------
Init ==
  /\ T!Init /\ open
  /\ era = 0 /\ queue = <<>> /\ op = [o \in Ops |-> Idle]
  /\ sessions = None /\ pending = None
  /\ proxied \in BOOLEAN /\ requireProxies = FALSE
  /\ login \in {None, 0} /\ consent = {} /\ since = 0
  /\ waiting \in SUBSET Ids /\ gone = {}

Asks(o) ==
  \E kind \in Kinds, direct \in BOOLEAN :
    /\ direct => kind = "signIn"
    /\ \E ids \in SUBSET Ids :
         /\ (ids # {}) <=> (kind = "act")
         /\ kind = "act" => (pending # None /\ ids \subseteq pending.ids)
         /\ Call(o, kind, ids, direct)

Works(o) ==
  \/ Connect(o) \/ Mint(o) \/ Minted(o) \/ Cached(o) \/ NothingConsented(o)
  \/ SendList(o) \/ SendAct(o) \/ Listed(o) \/ NoneAutomatic(o) \/ Approve(o)
  \/ SendApproval(o) \/ Settled(o) \/ Fails(o) \/ SignIn(o) \/ SignedIn(o)

Next ==
  \/ \E o \in Ops : Asks(o) \/ Works(o) \/ Serves(o) \/ Authenticates(o)
  \/ \E id \in Ids : Appears(id) \/ AnsweredElsewhere(id)
  \/ Lock \/ Unlock \/ SaveProxy \/ Import \/ Remove
  \/ RequireProxies \/ AllowDirect
  \/ \E given \in SUBSET {"trades", "marketListings"} : SetAutoConfirm(given)

Spec == Init /\ [][Next]_vars

-----------------------------------------------------------------------------
(* Every variable keeps its type; the queue holds each call once, and only *)
(* the call at its head has gone beyond waiting.                           *)
Pcs ==
  {"queued", "connecting", "minting", "minted", "ready", "listing", "listed", "routing",
   "acting", "approving", "served", "signing", "signed", "failing"}
Types == {"trades", "marketListings"}
Busy ==
  [pc : Pcs, kind : Kinds, grant : Nat, ids : SUBSET Ids, direct : BOOLEAN,
   given : SUBSET Types, chosen : SUBSET Ids, routed : BOOLEAN, obtained : Nat \cup {None}]
TypeOK ==
  /\ {open, proxied, requireProxies} \subseteq BOOLEAN
  /\ current \in Nat /\ held \in [Ops -> Nat \cup {None}] /\ flying \subseteq Ops
  /\ era \in 0..MaxEras /\ since \in 0..era /\ {sessions, login} \subseteq Nat \cup {None}
  /\ pending \in [era : Nat, ids : SUBSET Ids] \cup {None}
  /\ consent \in {None} \cup SUBSET Types /\ waiting \subseteq Ids /\ gone \subseteq Ids
  /\ op \in [Ops -> Busy \cup {Idle}]
  /\ queue \in Seq(Ops) /\ IsInjective(queue)
  /\ Range(queue) = {o \in Ops : ~At(o, "idle")}
  /\ \A o \in Ops : op[o].pc \in {"idle", "queued"} \/ o = Head(queue)

(* A token and the confirmations one may act on were obtained under this   *)
(* unlock and for this account as it is; and the stored login, which       *)
(* outlives a lock, came no earlier than the route the account now has.    *)
NothingKeptFromBefore ==
  /\ sessions # None => open /\ sessions = era
  /\ pending # None => open /\ pending.era = era
  /\ login # None => login >= since

(* An automatic approval leaves with consent for every confirmation in it  *)
(* at that moment; and any answer leaves in the era of its call.           *)
Answers(o) == o \in flying' \ flying /\ op'[o].pc \in {"acting", "approving"}
AnswersAsConsented ==
  [][\A o \in Ops : Answers(o) =>
       /\ open /\ hasGrant(o)
       /\ op[o].kind = "auto" =>
            consent # None /\ \A id \in op[o].chosen : mayAutoConfirm(id, consent)]_vars
=============================================================================
