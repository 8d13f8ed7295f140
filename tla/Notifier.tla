------------------------------ MODULE Notifier ------------------------------
(***************************************************************************)
(* ConfirmationNotifier (src/main/confirmations/notify.ts) for one of its  *)
(* accounts: what has been said about it, and what became of each toast.   *)
(* The host answers a toast later, shown or not, while polls go on; every  *)
(* rollback must touch only what its own toast had marked.                 *)
(*                                                                         *)
(* deliveries, unreadableChanges and halts only number things that are     *)
(* compared for equality: a new number is one that nothing holds any more, *)
(* and a mark whose toast has ended is 0, for nobody can take it back.     *)
(***************************************************************************)
EXTENDS Naturals, FiniteSets, FiniteSetsExt, Functions

CONSTANTS
  Confirms,      \* the confirmations that may await a person
  Critical,      \* those that are securityCritical
  MaxUnreadable, \* entries of a list that could not be parsed
  MaxToasts,     \* toasts whose outcome is not known yet
  None

VARIABLES
  memory,      \* AccountNotifyState of the account, or None
  latestHalt, undeliveredHalt,
  toasts,      \* those on their way to the screen
  heard,       \* history: confirmations told since they appeared
  heardCount,  \* history: how many unreadable ones the user knows of
  heardSignIn, \* history: whether this expiry was told
  heardHalt    \* history: whether this halt was told

notices == <<latestHalt, undeliveredHalt, heardHalt>>
notifier == <<memory, notices, toasts, heard, heardCount, heardSignIn>>

(* The types of the records, for the sentinel must be none of them.  The   *)
(* numbers in use stay few, for a toast waits for room.                    *)
Number == 1..(MaxToasts + 2)
Partial(S) == UNION {[T -> {0} \cup Number] : T \in SUBSET S}
Claim == [revision : Number, count : Nat]
Record ==
  [seeded : BOOLEAN, seen : Partial(Confirms), told : BOOLEAN, signInBy : {0} \cup Number,
   due : Claim \cup {None}, claims : Partial(Number), delivered : Nat, last : Nat]
PollToast ==
  [kind : {"poll"}, attempt : Number, ids : SUBSET Confirms, claim : Claim \cup {None},
   epoch : BOOLEAN, count : Nat, seed : BOOLEAN, mine : BOOLEAN,
   about : SUBSET Confirms, episode : BOOLEAN]
Toast == PollToast \cup [kind : {"signIn", "halt"}, attempt : Number]

Least(a, b) == IF a < b THEN a ELSE b
Most(a, b) == IF a < b THEN b ELSE a
Except(f, k) == [x \in DOMAIN f \ {k} |-> f[x]]
With(f, k, v) == [x \in DOMAIN f \cup {k} |-> IF x = k THEN v ELSE f[x]]

Room == Cardinality(toasts) < MaxToasts
Of(kind) == {t \in toasts : t.kind = kind}
NewNumber(used) == Min((1..(Cardinality(used) + 1)) \ used)

-----------------------------------------------------------------------------
Numbers(some) == {t.attempt : t \in some}

(* Faulty: attempts are counted on the account's own record, and so anew   *)
(* each time it is replaced.                                               *)
NextAttemptHere == NewNumber(Numbers({t \in Of("poll") : t.mine} \cup Of("signIn")))

NextAttempt == NewNumber(Numbers(Of("poll") \cup Of("signIn")))

Changes == {t.claim.revision : t \in {u \in Of("poll") : u.claim # None}}
           \cup IF memory = None \/ memory.due = None THEN {} ELSE {memory.due.revision}
NextChange == NewNumber(Changes)

(* A toast on its way.  Its epoch says whether unreadableDeliveryEpoch is  *)
(* what it was.  `about' and `episode' are history: what it tells and has  *)
(* not gone and come back since.                                           *)
Says(ids, m, unreadable, seed) ==
  [kind |-> "poll", attempt |-> NextAttempt, ids |-> ids, claim |-> m.due,
   epoch |-> TRUE, count |-> unreadable, seed |-> seed, mine |-> TRUE,
   about |-> ids, episode |-> TRUE]
Marked(m, ids) ==
  [m EXCEPT !.seen = [x \in DOMAIN @ \cup ids |-> IF x \in ids THEN NextAttempt ELSE @[x]],
            !.claims = IF m.due = None THEN @ ELSE With(@, NextAttempt, m.due.revision)]

(* What a list says of the toasts still on their way, and of the user.     *)
Aged(t, awaiting, unreadable, epoch) ==
  IF t.kind # "poll" THEN t
  ELSE [t EXCEPT !.about = @ \cap awaiting, !.episode = @ /\ unreadable > 0,
                 !.epoch = @ /\ epoch]
Listed(awaiting, unreadable, epoch, said) ==
  /\ toasts' = {Aged(t, awaiting, unreadable, epoch) : t \in toasts} \cup said
  /\ heard' = heard \cap awaiting /\ heardCount' = Least(heardCount, unreadable)

-----------------------------------------------------------------------------
(* pending                                                                 *)
Blank(told, by) ==
  [seeded |-> FALSE, seen |-> <<>>, told |-> told, signInBy |-> by, due |-> None,
   claims |-> <<>>, delivered |-> 0, last |-> 0]

(* The first list of an account: what it holds is not news, but for what   *)
(* is critical or could not be read.                                       *)
Seeds(awaiting, unreadable) ==
  LET loud == awaiting \cap Critical
      due == IF unreadable = 0 THEN None
             ELSE [revision |-> NextChange, count |-> unreadable]
      m == [Blank(FALSE, 0) EXCEPT !.seeded = TRUE, !.due = due, !.last = unreadable,
                                   !.seen = [x \in awaiting |-> 0]]
      speaks == loud # {} \/ unreadable > 0 IN
  /\ speaks => Room
  /\ memory' = IF speaks THEN Marked(m, loud) ELSE m
  /\ Listed(awaiting, unreadable, FALSE, IF speaks THEN {Says(loud, m, unreadable, TRUE)} ELSE {})

(* Nothing is due any more once as much was shown.                         *)
Covered(m) ==
  IF m.due # None /\ m.delivered >= m.due.count THEN [m EXCEPT !.due = None] ELSE m

(* A rise is news, a fall is not; what was shown covers the level it is at.*)
Level(m, unreadable) ==
  IF unreadable = m.last THEN m
  ELSE Covered([
    CASE unreadable > m.last ->
           IF unreadable > m.delivered
           THEN [m EXCEPT !.due = [revision |-> NextChange, count |-> unreadable]] ELSE m
      [] unreadable = 0 -> [m EXCEPT !.due = None, !.delivered = 0]
      [] OTHER -> [m EXCEPT !.delivered = Least(@, unreadable),
                            !.due = IF @ = None THEN @ ELSE [@ EXCEPT !.count = unreadable]]
    EXCEPT !.last = unreadable])

Updates(awaiting, unreadable) ==
  LET m == Level([memory EXCEPT !.told = FALSE, !.seen = Restrict(@, DOMAIN @ \cap awaiting)],
                 unreadable)
      fresh == awaiting \ DOMAIN m.seen
      speaks == fresh # {} \/ (m.due # None /\ m.due.revision \notin Range(m.claims)) IN
  /\ speaks => Room
  /\ memory' = IF speaks THEN Marked(m, fresh) ELSE m
  /\ Listed(awaiting, unreadable, unreadable > 0 \/ memory.last = 0,
            IF speaks THEN {Says(fresh, m, unreadable, FALSE)} ELSE {})

Pending(awaiting, unreadable) ==
  /\ IF memory = None \/ ~memory.seeded
     THEN Seeds(awaiting, unreadable) ELSE Updates(awaiting, unreadable)
  /\ heardSignIn' = FALSE /\ UNCHANGED notices

(* pollSucceeded, for an account whose toasts are off.                     *)
PollSucceeded ==
  /\ memory' = IF memory = None THEN None ELSE [memory EXCEPT !.told = FALSE]
  /\ heardSignIn' = FALSE
  /\ UNCHANGED <<notices, toasts, heard, heardCount>>

SignInNeeded ==
  IF memory # None /\ memory.told THEN UNCHANGED notifier
  ELSE
    /\ Room
    /\ memory' = IF memory = None THEN Blank(TRUE, NextAttempt)
                 ELSE [memory EXCEPT !.told = TRUE, !.signInBy = NextAttempt]
    /\ toasts' = toasts \cup {[kind |-> "signIn", attempt |-> NextAttempt]}
    /\ heardSignIn' = FALSE
    /\ UNCHANGED <<notices, heard, heardCount>>

-----------------------------------------------------------------------------
(* halted and stillHalted                                                  *)
Notice(generation) == [kind |-> "halt", attempt |-> generation]

Halted ==
  /\ Room
  /\ LET generation == NewNumber(Numbers(Of("halt")))
     IN /\ latestHalt' = generation /\ toasts' = toasts \cup {Notice(generation)}
  /\ undeliveredHalt' = None /\ heardHalt' = FALSE
  /\ UNCHANGED <<memory, heard, heardCount, heardSignIn>>

StillHalted ==
  IF undeliveredHalt = None THEN UNCHANGED notifier
  ELSE
    /\ Room
    /\ undeliveredHalt' = None /\ toasts' = toasts \cup {Notice(undeliveredHalt)}
    /\ UNCHANGED <<memory, latestHalt, heard, heardCount, heardSignIn, heardHalt>>

(* forget and forgetAccount.                                               *)
ForgetNotices ==
  /\ memory' = None /\ latestHalt' = None /\ undeliveredHalt' = None
  /\ toasts' = {IF t.kind = "poll" THEN [t EXCEPT !.mine = FALSE, !.epoch = FALSE,
                                                  !.about = {}, !.episode = FALSE]
                ELSE t : t \in toasts}
  /\ heard' = {} /\ heardCount' = 0 /\ heardSignIn' = FALSE /\ heardHalt' = FALSE

-----------------------------------------------------------------------------
(* What the host reports of a toast; of the first one it is looked up in   *)
(* the record the account has by now.                                      *)
Reaches(t) == memory # None /\ (t.mine \/ t.seed)

(* Faulty: only the number of the claim is compared, and the count may     *)
(* have fallen to nothing and risen again.                                 *)
CarriesAnyEpoch(t) == t.claim # None /\ t.attempt \in DOMAIN memory.claims

Carries(t) ==
  /\ t.claim # None /\ t.attempt \in DOMAIN memory.claims
  /\ memory.claims[t.attempt] = t.claim.revision /\ t.epoch

Settled(seen, t) == [x \in DOMAIN seen |-> IF seen[x] = t.attempt THEN 0 ELSE seen[x]]

PollShown(t) ==
  /\ memory' =
       IF ~Reaches(t) THEN memory
       ELSE [IF Carries(t)
             THEN Covered([memory EXCEPT !.delivered = Most(@, Least(t.claim.count, memory.last))])
             ELSE memory
             EXCEPT !.claims = Except(@, t.attempt), !.seen = Settled(@, t)]
  /\ heard' = heard \cup t.about
  /\ heardCount' = IF t.episode THEN Most(heardCount, Least(t.count, memory.last)) ELSE heardCount
  /\ UNCHANGED <<notices, heardSignIn>>

(* Faulty: a confirmation is unmarked whichever toast had marked it.       *)
UnmarkedWhoever(seen, t) == Restrict(seen, DOMAIN seen \ t.ids)

Unmarked(seen, t) == Restrict(seen, {x \in DOMAIN seen : x \in t.ids => seen[x] # t.attempt})

PollNotShown(t) ==
  /\ memory' = IF ~Reaches(t) THEN memory
               ELSE [memory EXCEPT !.seen = Unmarked(@, t), !.claims = Except(@, t.attempt)]
  /\ UNCHANGED <<notices, heard, heardCount, heardSignIn>>

Current(t) == memory # None /\ memory.signInBy = t.attempt
SignInShown(t) ==
  /\ heardSignIn' = (heardSignIn \/ (Current(t) /\ memory.told))
  /\ memory' = IF Current(t) THEN [memory EXCEPT !.signInBy = 0] ELSE memory
  /\ UNCHANGED <<notices, heard, heardCount>>
SignInNotShown(t) ==
  /\ memory' = IF Current(t) THEN [memory EXCEPT !.told = FALSE, !.signInBy = 0] ELSE memory
  /\ UNCHANGED <<notices, heard, heardCount, heardSignIn>>

HaltShown(t) ==
  /\ heardHalt' = (heardHalt \/ latestHalt = t.attempt)
  /\ UNCHANGED <<memory, latestHalt, undeliveredHalt, heard, heardCount, heardSignIn>>
HaltNotShown(t) ==
  /\ undeliveredHalt' = IF latestHalt = t.attempt THEN t.attempt ELSE undeliveredHalt
  /\ UNCHANGED <<memory, latestHalt, heard, heardCount, heardSignIn, heardHalt>>

ToastEnds(t) ==
  /\ toasts' = toasts \ {t}
  /\ \/ t.kind = "poll" /\ (PollShown(t) \/ PollNotShown(t))
     \/ t.kind = "signIn" /\ (SignInShown(t) \/ SignInNotShown(t))
     \/ t.kind = "halt" /\ (HaltShown(t) \/ HaltNotShown(t))

-----------------------------------------------------------------------------
NotifierInit ==
  /\ memory = None /\ latestHalt = None /\ undeliveredHalt = None /\ toasts = {}
  /\ heard = {} /\ heardCount = 0 /\ heardSignIn = FALSE /\ heardHalt = FALSE

(* Every variable keeps its type, and toasts stay within their bound.      *)
TypeOK ==
  /\ memory \in Record \cup {None}
  /\ {latestHalt, undeliveredHalt} \subseteq Number \cup {None}
  /\ toasts \subseteq Toast /\ IsFiniteSet(toasts) /\ Cardinality(toasts) <= MaxToasts
  /\ heard \subseteq Confirms /\ heardCount \in Nat
  /\ heardSignIn \in BOOLEAN /\ heardHalt \in BOOLEAN

(* A confirmation is passed over in silence only because the user was told *)
(* of it since it appeared, or is being told, or found it there on opening *)
(* the vault and it is no emergency.                                       *)
SeenWasTold ==
  memory # None => \A x \in DOMAIN memory.seen :
    \/ x \in heard \/ (memory.seen[x] = 0 /\ x \notin Critical)
    \/ \E t \in Of("poll") : t.mine /\ t.attempt = memory.seen[x] /\ x \in t.ids

(* Entries that could not be read are passed over only when as many were   *)
(* told, or are being told.                                                *)
CountWasTold ==
  memory # None =>
    /\ memory.due = None => heardCount >= memory.last
    /\ memory.due # None /\ memory.due.revision \in Range(memory.claims)
         => \E t \in Of("poll") : t.mine /\ t.claim # None /\ t.claim.revision = memory.due.revision

SignInWasTold ==
  memory # None /\ memory.told =>
    heardSignIn \/ \E t \in Of("signIn") : t.attempt = memory.signInBy

(* ... and it stays passed over: what the user was told is not unmarked by *)
(* another toast's failure, to be told again.                              *)
ToldOnce == memory # None => heard \subseteq DOMAIN memory.seen
=============================================================================
