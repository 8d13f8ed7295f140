----------------------------- MODULE ActivityLog -----------------------------
(***************************************************************************)
(* ActivityLog (src/main/confirmations/activity.ts): what the automatic    *)
(* engine did while nobody watched, a bounded list per account, and the    *)
(* screen that shows it and says how far it was read.  A pass reports what *)
(* is pending now and the log records what is new, so it must remember     *)
(* what it has written, and may forget that no sooner and no later than    *)
(* the entry itself falls off.                                             *)
(*                                                                         *)
(* An entry is told from every other by its place in the global sequence.  *)
(***************************************************************************)
EXTENDS Integers, FiniteSets, Sequences, SequencesExt

CONSTANTS
  Accounts,
  Confirms,    \* the confirmations a policy may hold back
  Critical,    \* those of them that are securityCritical
  MaxEntries,  \* MAX_ENTRIES_PER_ACCOUNT
  MaxUnreadable,
  MaxPushes,   \* entries ever written
  None

VARIABLES
  entries, signInOpen, reported, sequence, acknowledgedSeq,
  unlocked,
  mounted,     \* the Activity screen: None, or whether it shows a listing
  load,        \* the listing on its way to the screen, or None
  ack,         \* the acknowledgement on its way to the log, or None
  seen         \* history: the entries on record that were put on the screen

log == <<entries, signInOpen, reported, sequence, acknowledgedSeq>>
vars == <<log, unlocked, mounted, load, ack, seen>>

Entry(kind, about) == [kind |-> kind, about |-> about, order |-> 0]

CriticalHeld(e) == e.kind = "held" /\ e.about \in Critical
isUrgent(e) == CriticalHeld(e) \/ e.kind \in {"halted", "unreadable", "signInRequired"}

Rows(a) == Range(entries[a])
NoReport == [unreadable |-> 0, entry |-> 0, held |-> <<>>]

-----------------------------------------------------------------------------
(* Everything else goes before the oldest urgent entry does.               *)
Victim(list) ==
  LET plain == {i \in DOMAIN list : ~isUrgent(list[i])}
  IN IF plain = {} THEN 1 ELSE CHOOSE i \in plain : \A j \in plain : i <= j

(* What is evicted and would be written again if it were not thought to be *)
(* on record still.                                                        *)
trim(list) ==
  IF Len(list) <= MaxEntries THEN [list |-> list, evicted |-> {}]
  ELSE LET gone == list[Victim(list)]
       IN [list |-> RemoveAt(list, Victim(list)),
           evicted |-> {e \in {gone} : CriticalHeld(e) \/ e.kind = "unreadable"}]

(* Row identity: an older row of the same confirmation releases nothing.   *)
releaseEvictedWarning(report, e) ==
  CASE e.kind = "held" /\ e.about \in DOMAIN report.held /\ report.held[e.about] = e.order ->
         [report EXCEPT !.held = [c \in DOMAIN @ \ {e.about} |-> @[c]]]
    [] e.kind = "unreadable" /\ report.entry = e.order ->
         [report EXCEPT !.entry = 0, !.unreadable = 0]
    [] OTHER -> report
Released(report, evicted) == FoldSet(LAMBDA e, r : releaseEvictedWarning(r, e), report, evicted)

(* A batch under way: the list, its next place, what is known as reported, *)
(* and the warnings that fell off so far.                                  *)
push(batch, e) ==
  LET kept == trim(Append(batch.list, [e EXCEPT !.order = batch.order + 1]))
  IN [batch EXCEPT !.list = kept.list, !.order = @ + 1, !.evicted = @ \cup kept.evicted]
Batch(a) ==
  [list |-> entries[a], order |-> sequence, evicted |-> {},
   report |-> IF reported[a] = None THEN NoReport ELSE reported[a]]

RaiseUnreadable(batch, count) ==
  IF count > batch.report.unreadable
  THEN push([batch EXCEPT !.report.unreadable = count, !.report.entry = batch.order + 1],
            Entry("unreadable", count))
  ELSE [batch EXCEPT !.report.unreadable = count,
                     !.report.entry = IF count = 0 THEN 0 ELSE @]

NoteHeld(batch, c) ==
  IF c \in DOMAIN batch.report.held THEN batch
  ELSE push([batch EXCEPT !.report.held =
               [d \in DOMAIN @ \cup {c} |-> IF d = c THEN batch.order + 1 ELSE @[d]]],
            Entry("held", c))

(* Faulty: a warning that falls off is released in the middle of the batch.*)
HoldAllAtOnce(batch, held) ==
  FoldLeft(LAMBDA b, c : LET n == NoteHeld(b, c)
                         IN [n EXCEPT !.report = Released(@, n.evicted)],
           [batch EXCEPT !.report.held =
              [c \in DOMAIN @ \cap Range(held) |-> @[c]]], held)

HoldAll(batch, held) ==
  FoldLeft(NoteHeld,
           [batch EXCEPT !.report.held = [c \in DOMAIN @ \cap Range(held) |-> @[c]]], held)

-----------------------------------------------------------------------------
Elsewhere ==
  /\ seen' = seen \cap UNION {Range(entries'[a]) : a \in Accounts}
  /\ UNCHANGED <<acknowledgedSeq, unlocked, mounted, load, ack>>

Write(a, batch, report) ==
  /\ batch.order <= MaxPushes
  /\ entries' = [entries EXCEPT ![a] = batch.list] /\ sequence' = batch.order
  /\ reported' = [reported EXCEPT ![a] = report]
  /\ Elsewhere

(* Unreadable first, approved next, and then what was held back; only then *)
(* is what fell off forgotten.                                             *)
recordPass(a, approved, held, unreadable) ==
  LET raised == RaiseUnreadable(Batch(a), unreadable)
      told == IF approved THEN push(raised, Entry("approved", None)) ELSE raised
      done == HoldAll(told, held)
  IN /\ Write(a, done, Released(done.report, done.evicted))
     /\ signInOpen' = signInOpen \ {a}

WriteOne(a, e) ==
  LET done == push(Batch(a), e)
  IN Write(a, done, IF reported[a] = None THEN None ELSE Released(done.report, done.evicted))

recordFailure(a, halted) ==
  /\ WriteOne(a, Entry(IF halted THEN "halted" ELSE "failed", None))
  /\ signInOpen' = signInOpen \ {a}

recordSignInRequired(a) ==
  /\ a \notin signInOpen /\ signInOpen' = signInOpen \cup {a}
  /\ WriteOne(a, Entry("signInRequired", None))

notePollSucceeded(a) ==
  /\ signInOpen' = signInOpen \ {a}
  /\ UNCHANGED <<entries, reported, sequence>> /\ Elsewhere

(* A route was saved or the account imported anew.                         *)
forgetRuns(a) ==
  /\ signInOpen' = signInOpen \ {a} /\ reported' = [reported EXCEPT ![a] = None]
  /\ UNCHANGED <<entries, sequence>> /\ Elsewhere

forgetAccount(a) ==
  /\ signInOpen' = signInOpen \ {a} /\ reported' = [reported EXCEPT ![a] = None]
  /\ entries' = [entries EXCEPT ![a] = <<>>]
  /\ UNCHANGED sequence /\ Elsewhere

-----------------------------------------------------------------------------
(* The screen.  Both handlers run in one piece, so a request is modelled   *)
(* where the main process answers it; the answer, and the acknowledgement  *)
(* it brings about, take their time.                                       *)
Listing ==
  IF unlocked THEN [rows |-> UNION {Rows(a) : a \in Accounts}, upTo |-> sequence]
              ELSE [rows |-> {}, upTo |-> 0]

Open ==
  /\ mounted = None /\ mounted' = FALSE
  /\ load' = Listing
  /\ UNCHANGED <<log, unlocked, ack, seen>>

LoadFails ==
  /\ load # None /\ load' = None
  /\ UNCHANGED <<log, unlocked, mounted, ack, seen>>

(* `Try again', which is offered where the load failed and nothing shows.  *)
Reload ==
  /\ mounted = FALSE /\ load = None
  /\ load' = Listing
  /\ UNCHANGED <<log, unlocked, mounted, ack, seen>>

Shows(listing) ==
  /\ seen' = seen \cup (listing.rows \cap UNION {Rows(a) : a \in Accounts})
  /\ load' = None /\ mounted' = TRUE
  /\ UNCHANGED <<log, unlocked>>

(* Faulty: the acknowledgement says `all of it', as its default would.     *)
LoadedAsEverything ==
  /\ load # None /\ ack = None /\ ack' = MaxPushes
  /\ Shows(load)

(* The listing is shown, and acknowledged up to its own mark.              *)
Loaded ==
  /\ load # None /\ ack = None /\ ack' = load.upTo
  /\ Shows(load)

(* Left, or replaced by the unlock screen: what arrives now is dropped.    *)
Close ==
  /\ mounted # None /\ mounted' = None /\ load' = None
  /\ UNCHANGED <<log, unlocked, ack, seen>>

Smaller(m, n) == IF m < n THEN m ELSE n
Larger(m, n) == IF m < n THEN n ELSE m

(* Refused while locked; never past what happened, and never backwards.    *)
acknowledge ==
  /\ ack # None /\ ack' = None
  /\ acknowledgedSeq' =
       IF unlocked THEN Larger(acknowledgedSeq, Smaller(ack, sequence))
                   ELSE acknowledgedSeq
  /\ UNCHANGED <<entries, signInOpen, reported, sequence, unlocked, mounted, load, seen>>

LockOrUnlock ==
  /\ unlocked' = ~unlocked
  /\ UNCHANGED <<log, mounted, load, ack, seen>>

-----------------------------------------------------------------------------
Init ==
  /\ entries = [a \in Accounts |-> <<>>] /\ reported = [a \in Accounts |-> None]
  /\ signInOpen = {} /\ sequence = 0 /\ acknowledgedSeq = 0
  /\ unlocked = FALSE /\ mounted = None /\ load = None /\ ack = None /\ seen = {}

Engine(a) ==
  \/ \E approved \in BOOLEAN, some \in SUBSET Confirms, unreadable \in 0..MaxUnreadable :
       \E held \in SetToSeqs(some) : recordPass(a, approved, held, unreadable)
  \/ \E halted \in BOOLEAN : recordFailure(a, halted)
  \/ recordSignInRequired(a) \/ notePollSucceeded(a)
  \/ forgetRuns(a) \/ forgetAccount(a)

Next ==
  \/ \E a \in Accounts : Engine(a)
  \/ Open \/ LoadFails \/ Reload \/ Loaded \/ Close \/ acknowledge \/ LockOrUnlock

Spec == Init /\ [][Next]_vars

-----------------------------------------------------------------------------
(* Every variable keeps its type.                                          *)
TypeOK ==
  /\ \A a \in Accounts : Len(entries[a]) <= MaxEntries
  /\ signInOpen \subseteq Accounts /\ sequence \in 0..MaxPushes
  /\ acknowledgedSeq \in 0..sequence /\ mounted \in BOOLEAN \cup {None}

(* What the log will not write again because it has, and what it then does *)
(* write: a warning that is suppressed is on record, and one that is still *)
(* on record, or was never released, is not written a second time.         *)
SuppressedIsOnRecord ==
  \A a \in Accounts : reported[a] # None =>
    /\ \A c \in DOMAIN reported[a].held \cap Critical :
         \E e \in Rows(a) : e.about = c /\ e.order = reported[a].held[c]
    /\ reported[a].unreadable > 0 => \E e \in Rows(a) : e.order = reported[a].entry
NotWrittenTwice ==
  \A a \in Accounts : \A i \in DOMAIN entries'[a] :
    LET e == entries'[a][i]
    IN e.kind = "held" /\ e.order > sequence =>
         reported[a] = None \/ e.about \notin DOMAIN reported[a].held

(* No urgent entry stops asking for attention before it was on the screen, *)
(* whatever was recorded while a listing or its acknowledgement travelled. *)
NothingUnseenIsAcknowledged ==
  \A a \in Accounts : \A e \in Rows(a) :
    isUrgent(e) /\ e.order <= acknowledgedSeq => e \in seen

(* A warning is written once, and asks for attention until it was seen.    *)
WarningsReachTheUser ==
  [](SuppressedIsOnRecord /\ NothingUnseenIsAcknowledged) /\ [][NotWrittenTwice]_vars
=============================================================================
