--------------------------- MODULE WorkflowJournal ---------------------------
(***************************************************************************)
(* The encrypted notes of enrolment and transfer attempts                  *)
(* (src/main/steam/workflow-journal.ts).                                   *)
(*                                                                         *)
(* One record per attempt.  Its first version is published under its name; *)
(* every later one is staged beside it and renamed over it.  What a failed *)
(* rename left staged is taken up, or dropped, by the next reading.  Each  *)
(* operation is a set of outcomes: the directory the process sees after    *)
(* it, the directories a power loss may bring back because they were not   *)
(* flushed away, and whether the call returned.  A stop inside a call is   *)
(* one of its failures followed by the stop.                               *)
(***************************************************************************)
EXTENDS Naturals, FiniteSets

CONSTANTS
  Attempts,   \* identities of attempts
  Prints,     \* authenticator fingerprints
  None,
  MaxFaults,  \* bound: failed calls and crashes
  ReadBackFails   \* a published note may fail to read back

ASSUME JournalAssumption ==
  IsFiniteSet(Attempts) /\ MaxFaults \in Nat /\ ReadBackFails \in BOOLEAN

VARIABLES
  dir,    \* the directory as the process reads it
  older,  \* what a power loss may turn it into
  debt,   \* a first publication could not be rolled back (publicationDebt)
  faults

journalVars == <<dir, older, debt, faults>>

EnrollmentStates == {"sending", "unanswered", "not-attached", "attached",
                     "recoverable", "unreadable"}
TransferStates == {"sending", "unanswered", "unreadable", "not-replaced", "replacement"}

(* `reply' is what Steam sent, sealed under the record's own key; `prior'  *)
(* the fingerprint of the authenticator a backup held when it began.       *)
Record == [attempt : Attempts, kind : {"enrollment", "transfer"},
           state : EnrollmentStates \cup TransferStates,
           reply : {"none", "usable", "unusable"}, prior : Prints \cup {None},
           published : BOOLEAN]
Directory == [files : SUBSET Record, staged : SUBSET Record, torn : BOOLEAN]

EmptyDirectory == [files |-> {}, staged |-> {}, torn |-> FALSE]

-----------------------------------------------------------------------------
(* isForwardTransition                                                     *)
Later(current, next) ==
  \/ current.state = "sending" /\ next.state # "sending"
  \/ current.kind = "transfer" /\ <<current.state, next.state>> \in
       {<<"unanswered", "unreadable">>, <<"unanswered", "not-replaced">>,
        <<"replacement", "unreadable">>}
  \/ current.kind = "enrollment" /\ <<current.state, next.state>> \in
       {<<"recoverable", "attached">>, <<"recoverable", "unreadable">>}

(* recoveryPublicationTransition: nothing differs but the publication.     *)
SameButPublication(current, next) == [current EXCEPT !.published = next.published] = next

Takes(current, next) ==
  Later(current, next)
    \/ (SameButPublication(current, next) /\ next.published /\ ~current.published)
Drops(current, next) ==
  \/ SameButPublication(current, next) /\ (next.published => current.published)
  \/ current.state # "sending" /\ next.state = "sending"

SameIdentity(r, s) == r.attempt = s.attempt /\ r.kind = s.kind /\ r.prior = s.prior

FinalsOf(d, s) == {f \in d.files : f.attempt = s.attempt}
Understood(d, s) ==
  IF FinalsOf(d, s) = {} THEN s.state = "sending"
  ELSE \E f \in FinalsOf(d, s) : SameIdentity(f, s) /\ (Takes(f, s) \/ Drops(f, s))

(* What reconcileStaged does not refuse.                                   *)
Reconcilable(d) ==
  /\ ~d.torn
  /\ \A s \in d.staged : Understood(d, s)
  /\ \A f \in d.files :
       Cardinality({s \in d.staged : s.attempt = f.attempt /\ Takes(f, s)}) =< 1

Taken(d, f) == {s \in d.staged : s.attempt = f.attempt /\ Takes(f, s)}
Merged(d) ==
  [d EXCEPT !.files = {f \in d.files : Taken(d, f) = {}}
                        \cup UNION {Taken(d, f) : f \in d.files},
            !.staged = {}]

-----------------------------------------------------------------------------
(* Outcomes.                                                               *)
Works(d, o) == [dir |-> d, older |-> o, ok |-> TRUE, debt |-> FALSE]
Fails(d, o) == [dir |-> d, older |-> o, ok |-> FALSE, debt |-> FALSE]
Owes(d, o)  == [dir |-> d, older |-> o, ok |-> FALSE, debt |-> TRUE]

(* A change that was made but whose flush failed.                          *)
Unflushed(from, to, o) == Fails(to, o \cup {from})

(* reconcileStaged, and with it every reading (entries).                   *)
Reconciling(d, o) ==
  IF ~Reconcilable(d) THEN {Fails(d, o)}
  ELSE IF d.staged = {} THEN {Works(d, o), Fails(d, o)}
  ELSE {Works(Merged(d), {}), Fails(d, o), Unflushed(d, Merged(d), o)}

Put(d, r) == [d EXCEPT !.files = (@ \ FinalsOf(d, r)) \cup {r}]
Without(d, r) == [d EXCEPT !.files = @ \ FinalsOf(d, r)]
Stage(d, r) == [d EXCEPT !.staged = @ \cup {r}]
Torn(d) == [d EXCEPT !.torn = TRUE]

(* staged: the temporary file is removed again when it cannot be written   *)
(* or flushed, but a stop may find it whole or cut.                        *)
NotStaged(d, o, r) == Fails(d, o \cup {Stage(d, r), Torn(d)})

(* createDurably, and in writeNew the reading back of what it published:   *)
(* where that fails the call fails too, and the note stays.                *)
Publishing(d, o, r) ==
  {Works(Put(d, r), {}), NotStaged(d, o, r),
   Fails(d, {}),                        \* rolled back and flushed
   Owes(Put(d, r), {Stage(Put(d, r), r)}),
   Owes(d, {Put(d, r), Torn(d)})}
    \cup (IF ReadBackFails THEN {Fails(Put(d, r), {})} ELSE {})

(* replaceDurably                                                          *)
Renaming(d, o, r) ==
  {Works(Put(d, r), {}), NotStaged(d, o, r), Fails(Stage(d, r), {}),
   Unflushed(Stage(d, r), Put(d, r), {})}

Removing(d, o, r) ==
  {Works(Without(d, r), {}), Fails(d, o), Unflushed(d, Without(d, r), o)}

(* One after another: the second only when the first returned.             *)
Then(outcomes, Op(_, _)) ==
  UNION {IF x.ok THEN Op(x.dir, x.older) ELSE {x} : x \in outcomes}

Reads == IF debt THEN {Fails(dir, older)} ELSE Reconciling(dir, older)
Creates(r) == IF debt THEN {Fails(dir, older)} ELSE Publishing(dir, older, r)
Updates(r) == Then(Reconciling(dir, older), LAMBDA d, o : Renaming(d, o, r))
Clears(r) == Then(Reconciling(dir, older), LAMBDA d, o : Removing(d, o, r))

(* A reading that returns; where it does not, the caller refuses.          *)
ReadsWell ==
  /\ ~debt /\ Reconcilable(dir)
  /\ dir' = Merged(dir)
  /\ older' = IF dir.staged = {} THEN older ELSE {}
  /\ UNCHANGED <<debt, faults>>
Found(kind) == {f \in Merged(dir).files : f.kind = kind}

(* A refusal that is the journal's own, not the disk's.                    *)
Refused == debt \/ ~Reconcilable(dir)

(* The outcome x happened.                                                 *)
Happens(x) ==
  /\ dir' = x.dir /\ older' = x.older \ {x.dir}
  /\ debt' = (debt \/ x.debt)
  /\ \/ (x.ok \/ Refused) /\ UNCHANGED faults
     \/ ~x.ok /\ ~Refused /\ faults < MaxFaults /\ faults' = faults + 1

(* No two attempts get the same name, whatever became of their notes.      *)
NamesInUse ==
  {r.attempt : r \in UNION {d.files \cup d.staged : d \in {dir} \cup older}}
FreshNames(used) == Attempts \ (used \cup NamesInUse)

(* What a reading shows of one kind.                                       *)
Records(d, kind) == {f \in d.files : f.kind = kind}

JournalInit == dir = EmptyDirectory /\ older = {} /\ debt = FALSE /\ faults = 0

(* The machine stops.                                                      *)
JournalCrash ==
  /\ faults < MaxFaults /\ faults' = faults + 1
  /\ dir' \in {dir} \cup older
  /\ older' = {} /\ debt' = FALSE

JournalTypeOK ==
  /\ dir \in Directory /\ older \subseteq Directory
  /\ debt \in BOOLEAN /\ faults \in 0..MaxFaults
=============================================================================
