-------------------------------- MODULE Codes --------------------------------
(***************************************************************************)
(* CodeService and SteamClock (src/main/codes/service.ts, steam/clock.ts,  *)
(* time.ts) with the clipboard their codes end on: codes are made for      *)
(* Steam's time, measured through some account's route, and remeasured     *)
(* when the local clock was set or the measurement has aged.  A handler    *)
(* that awaits a measurement goes on before anything else happens (Calm).  *)
(***************************************************************************)
EXTENDS ClipboardCourier, Integers, Sequences

CONSTANTS
  AccountOrder,  \* the vault's accounts, in its order
  Direct,        \* the machine's own route
  Skews,         \* bound: how far the local clock may be set from Steam's
  Credible,      \* MAX_TIME_OFFSET_SECONDS
  Tolerance,     \* CLOCK_JUMP_TOLERANCE_MS
  Turns,         \* bound: a common multiple routeRotation is counted modulo
  MaxLatency     \* bound: how old an answer is when it arrives

ASSUME ClockAssumption ==
  /\ Skews \subseteq Int /\ Credible \in Nat /\ Tolerance \in Nat \ {0} /\ MaxLatency \in Nat
  /\ \A n \in DOMAIN AccountOrder : Turns % n = 0

VARIABLES
  skew,      \* Steam's time less the local clock's
  offset, verified,
  measured,  \* the skew when the offset was measured: wall against monotonic
  aged,      \* OFFSET_TTL_MS have passed since
  routed,    \* the accounts that have a proxy
  alive,     \* the routes over which Steam answers
  rotation, cooling,
  query,     \* the route the QueryTime in flight takes, or Nothing
  revoked,   \* ... and whether its transport was forgotten meanwhile
  copying    \* a code to copy awaits the measurement

clock == <<offset, verified, measured, aged, rotation, cooling, query, revoked>>
world == <<skew, routed, alive>>
codesVars == <<clipboard, clock, world, copying>>

Ids == {AccountOrder[i] : i \in DOMAIN AccountOrder}
Distance(x, y) == IF x < y THEN y - x ELSE x - y

-----------------------------------------------------------------------------
(* Faulty: a reading once taken is never doubted.                          *)
clockJumpedNever == FALSE

(* What the wall clock moved since, beyond what time passed.               *)
clockJumped == verified /\ Distance(skew, measured) >= Tolerance

clockUnverified == ~verified \/ clockJumped
clockStale == ~verified \/ clockJumped \/ aged

(* An account that is routed, if there is one, in turn.                    *)
Borrowed ==
  LET accounts == SelectSeq(AccountOrder, LAMBDA a : a \in routed) IN
  IF accounts = <<>> THEN Direct ELSE accounts[(rotation % Len(accounts)) + 1]

EnsureSynced(open) ==
  IF clockStale /\ query = Nothing /\ ~cooling /\ open
  THEN query' = Borrowed /\ revoked' = FALSE
  ELSE UNCHANGED <<query, revoked>>

Calm == Idle /\ (copying => query # Nothing)
ClockRests == UNCHANGED <<offset, verified, measured, aged, rotation, cooling>>

(* The lists of codes and confirmations, which the renderer asks for every *)
(* second while the vault is open.                                         *)
Poll ==
  /\ Calm /\ isUnlocked /\ EnsureSynced(TRUE) /\ ClockRests
  /\ UNCHANGED <<clipboard, world, copying>>

(* The unlock's callback starts a measurement too.                         *)
UnlockVault ==
  /\ Calm /\ Unlock /\ EnsureSynced(TRUE) /\ ClockRests /\ UNCHANGED <<world, copying>>

(* The lock: the courier clears, and every transport is forgotten.         *)
LockVault ==
  /\ Calm /\ Lock /\ revoked' = (query # Nothing)
  /\ UNCHANGED <<world, copying, query>> /\ ClockRests

WriteCode == CopyFails \/ \E c \in Codes : Copy(c)

(* codes:copy, up to its await when there is a query to wait for.          *)
CopyAsked ==
  /\ Calm /\ isUnlocked /\ ~copying
  /\ EnsureSynced(TRUE) /\ ClockRests /\ UNCHANGED world
  /\ copying' = (query' # Nothing)
  /\ IF copying' THEN UNCHANGED clipboard ELSE WriteCode

(* ... and after it: a vault locked meanwhile has no code to copy.         *)
Copied ==
  /\ Idle /\ copying /\ query = Nothing /\ copying' = FALSE
  /\ WriteCode \/ (~isUnlocked /\ UNCHANGED clipboard)
  /\ UNCHANGED <<clock, world>>

(* queryTimeOffset and setTimeOffset: Steam's time when it answered less   *)
(* the local time when the answer came.                                    *)
Answered(late) ==
  /\ Calm /\ query \in alive /\ ~revoked /\ Distance(skew - late, 0) <= Credible
  /\ offset' = skew - late /\ verified' = TRUE /\ measured' = skew
  /\ aged' = FALSE /\ cooling' = FALSE /\ query' = Nothing
  /\ UNCHANGED <<clipboard, world, copying, rotation, revoked>>

(* Faulty: the next attempt borrows the same account again.                *)
RotatedNever == rotation

Rotated == (rotation + 1) % Turns

Failed ==
  /\ Calm /\ query # Nothing /\ (query \notin alive \/ revoked \/ Distance(skew, 0) >= Credible)
  /\ rotation' = Rotated /\ cooling' = TRUE /\ query' = Nothing
  /\ UNCHANGED <<clipboard, world, copying, offset, verified, measured, aged, revoked>>

CooldownEnds ==
  /\ cooling /\ cooling' = FALSE
  /\ UNCHANGED <<clipboard, world, copying, offset, verified, measured, aged, rotation,
                 query, revoked>>

Ages ==
  /\ verified /\ ~aged /\ aged' = TRUE
  /\ UNCHANGED <<clipboard, world, copying, offset, verified, measured, rotation, cooling,
                 query, revoked>>

(* Somebody sets the machine's clock.                                      *)
ClockSet(s) ==
  /\ skew' = s
  /\ UNCHANGED <<clipboard, clock, copying, routed, alive>>

(* An account's route is saved: its transport is forgotten.                *)
SaveProxy(a) ==
  /\ Calm /\ isUnlocked
  /\ routed' = IF a \in routed THEN routed \ {a} ELSE routed \cup {a}
  /\ revoked' = (query # Nothing /\ (revoked \/ query = a))
  /\ UNCHANGED <<clipboard, copying, skew, alive, query>> /\ ClockRests

-----------------------------------------------------------------------------
CodesInit ==
  /\ ClipboardInit
  /\ skew \in Skews /\ offset = 0 /\ verified = FALSE /\ measured = 0 /\ aged = FALSE
  /\ routed \in SUBSET Ids /\ alive \in SUBSET (Ids \cup {Direct})
  /\ rotation = 0 /\ cooling = FALSE /\ query = Nothing /\ revoked = FALSE /\ copying = FALSE

ClipboardActs ==
  /\ TimerFires \/ EndClear \/ (\E t \in Texts : OtherWrites(t))
  /\ UNCHANGED <<clock, world, copying>>

CodesNext ==
  \/ Poll \/ UnlockVault \/ LockVault \/ CopyAsked \/ Copied
  \/ \E late \in 0..MaxLatency : Answered(late)
  \/ Failed \/ CooldownEnds \/ Ages \/ ClipboardActs
  \/ \E s \in Skews : ClockSet(s)
  \/ \E a \in Ids : SaveProxy(a)

CodesSpec == CodesInit /\ [][CodesNext]_codesVars

(* The renderer polls while it shows codes; a query ends, an armed timer   *)
(* and the cooldown's end come, and a handler that may go on does.         *)
Answers == \E late \in 0..MaxLatency : Answered(late)
ClipboardGoesOn == ClipboardActs /\ (TimerFires \/ EndClear)
CodesFairSpec ==
  /\ CodesSpec /\ WF_codesVars(Poll) /\ WF_codesVars(Answers) /\ WF_codesVars(Failed)
  /\ WF_codesVars(CooldownEnds) /\ WF_codesVars(Copied) /\ WF_codesVars(ClipboardGoesOn)

-----------------------------------------------------------------------------
(* Every variable keeps its type.                                          *)
CodesTypeOK ==
  /\ ClipboardTypeOK
  /\ skew \in Skews /\ offset \in Int /\ measured \in Skews
  /\ {verified, aged, cooling, revoked, copying} \subseteq BOOLEAN
  /\ routed \subseteq Ids /\ rotation \in 0..(Turns - 1)
  /\ query \in Ids \cup {Direct, Nothing}

(* A code shown without the warning is for Steam's time, to within what    *)
(* the code tolerates, however the machine's clock was set since.          *)
VerifiedIsRight ==
  ~clockUnverified => Distance(skew, offset) < Tolerance + MaxLatency

(* One dead route, a lock in the middle of a query or a changed route does *)
(* not leave the codes unverified for good: once these stop, and some      *)
(* routed account reaches Steam, the clock is measured again and again.    *)
Reachable == IF routed = {} THEN Direct \in alive ELSE routed \cap alive # {}
CanSync == isUnlocked /\ Reachable /\ Distance(skew, 0) < Credible
SyncedAtLast ==
  <>[]CanSync /\ <>[][routed' = routed /\ skew' = skew]_codesVars => []<>(~clockStale)
=============================================================================
