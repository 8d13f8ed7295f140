--------------------------- MODULE WorkflowsProofs ---------------------------
(***************************************************************************)
(* The journal of the irreversible requests with the two services that     *)
(* write it, proved for any attempts and any number of faults.  First what *)
(* a reading, a write, a removal and a power loss make of the journal;     *)
(* then, action by action, that IInv is kept; last what follows from it.   *)
(***************************************************************************)
EXTENDS Workflows, TLAPS

(* What a directory says of attempts: the records in it, staged or not; a  *)
(* record that holds a reply; and one that a reading would either show or  *)
(* refuse to go past.                                                      *)
Recs(d) == d.files \cup d.staged
Written(d, o) == UNION {Recs(e) : e \in {d} \cup o}
Names(n, d) == \E r \in Recs(d) : r.attempt = n
Has(n, d) == \E r \in Recs(d) : r.attempt = n /\ r.reply # "none"
Trace(n, d) ==
  \/ d.torn
  \/ \E f \in d.files : f.attempt = n
  \/ \E s \in d.staged : s.attempt = n /\ s.state # "sending"

(* The state of a record and its reply belong together.                    *)
Fit(r) ==
  /\ r \in Record
  /\ r.kind = "transfer" => r.state \in TransferStates
  /\ r.kind = "enrollment" => r.state \in EnrollmentStates /\ r.prior = None
  /\ r.reply = "usable" <=> r.state \in {"replacement", "recoverable"}
  /\ r.reply = "unusable" => r.state = "unreadable"
  /\ r.prior # r.attempt

(* A version that may be staged beside another: it gives up no reply, and  *)
(* one that brings the reply is taken up.                                  *)
Follows(f, s) ==
  /\ SameIdentity(f, s)
  /\ f.reply # "none" => s.reply = f.reply
  /\ f.reply = "none" /\ s.reply # "none" => f.state = "sending"

(* A directory holds one record and one stage of it at most.               *)
Single(d) ==
  /\ d \in Directory
  /\ \A f, g \in d.files : f = g
  /\ \A s, t \in d.staged : s = t
  /\ \A f \in d.files, s \in d.staged : Follows(f, s)

Sound(d, o) ==
  /\ \A e \in {d} \cup o : Single(e)
  /\ \A r \in Written(d, o) : Fit(r)
  /\ \A r \in Recs(d), s \in Written(d, o) : SameIdentity(r, s)

-----------------------------------------------------------------------------
(* The invariant, of a journal that is d and may become one of o.          *)

(* What a journal says, whatever the service remembers.                    *)
Mine(r, d, o) == \A s \in Written(d, o) : SameIdentity(r, s)
Enrols(n, d, o) == \A s \in Written(d, o) : s.attempt = n /\ s.kind = "enrollment"
Sealing(d) == \A r \in Recs(d) : r.state = "replacement"
Waiting(d, reply) == \A r \in Recs(d) : r.state = "sending" \/ r.reply = reply
Heard(d) == \A r \in Recs(d) : r.state = "sending" \/ r.reply # "none"
Shows(d) == \E f \in d.files : f.kind = "transfer"
Blank(d) == d.files = {} /\ d.staged = {} /\ ~d.torn
Read(r, d) == d.staged = {} /\ d.files \subseteq {r} /\ ~d.torn
Fresh(r, d, o) ==
  /\ r.state = "sending" /\ r.reply = "none"
  /\ d.files = {r} /\ d.staged = {} /\ ~d.torn /\ o = {}
AllTrace(n, d, o) == \A e \in {d} \cup o : Trace(n, e)
Opens(n, d, o) ==
  /\ \A r \in Written(d, o) : r.attempt = n
  /\ \A e \in {d} \cup o : \A s \in e.staged : s.state # "sending"
  /\ Trace(n, d) => AllTrace(n, d, o)
SafeIn(n, d, o, stored) == \A e \in {d} \cup o : Has(n, e) \/ (stored /\ ~Names(n, e))
Keeps(n, d, o) == Has(n, d) => \A e \in o : Has(n, e)

Rows(n, r) == r # None /\ r.auth = n
RowIs(n) == Rows(n, row)
Secured(n) == RowIs(n) /\ row.backup = "current"
At(steps) == job # None /\ job.step \in steps

(* What has which type.  A note that was published is taken to read back:  *)
(* the theorems say so, and TLC checks what they state without it.         *)
Types ==
  /\ ReadBackFails = FALSE
  /\ debt \in BOOLEAN /\ faults \in 0..MaxFaults
  /\ TransferTypeOK /\ EnrollTypeOK
  /\ job \in Job \cup {None} /\ unlocked \in BOOLEAN
  /\ row \in Row \cup {None} /\ bak \in Row \cup {None} /\ steam \in Prints \cup {None}
  /\ adopted \in BOOLEAN
  /\ sent \subseteq Attempts /\ open \subseteq sent /\ received \subseteq open

(* The record the transfer service goes by is the one the journal is about *)
(* and no enrolment is under way beside it.                                *)
Transfers(d, o) ==
  /\ wf # None =>
       /\ Fit(wf) /\ wf.kind = "transfer" /\ Mine(wf, d, o) /\ open \subseteq {wf.attempt}
       /\ enrollOwed = None /\ erec = None /\ staged = None
       /\ Trace(wf.attempt, d) \/ owed # None \/ At({"clear", "owe"})
  /\ wf = None =>
       /\ owed = None /\ ~Holding /\ proving = None /\ resolving = None
       /\ phase \in {"no", "routing", "minting"}
  /\ owed # None =>
       /\ Fit(owed) /\ SameIdentity(owed, wf) /\ ~badHeld
       /\ owed.state = "replacement" => wf.state = "replacement" /\ Sealing(d)
  /\ unsaved => wf.state \in {"sending", "replacement"} /\ ~badHeld /\ wf.attempt \in sent
  /\ unsaved \/ Sealed => Waiting(d, "usable")
  /\ badHeld => wf.state = "sending" /\ wf.attempt \in sent /\ Waiting(d, "unusable")

EnrollSteps == {"peek", "store", "copy", "announce", "erase", "own", "disclaim"}
OfEnrolment(r, d, o) ==
  Fit(r) /\ r.kind = "enrollment" /\ Mine(r, d, o) /\ open \subseteq {r.attempt}
Enrolments(d, o) ==
  /\ erec # None => OfEnrolment(erec, d, o)
  /\ enrollOwed # None => OfEnrolment(enrollOwed, d, o)
  /\ staged # None =>
       /\ open \subseteq {staged.attempt} /\ Enrols(staged.attempt, d, o) /\ Heard(d)
       /\ Trace(staged.attempt, d) \/ enrollOwed # None \/ At({"erase", "own"})
  /\ erec # None /\ enrollOwed # None => SameIdentity(erec, enrollOwed)
  /\ erec # None /\ staged # None => staged.attempt = erec.attempt
  /\ enrollOwed # None /\ staged # None => staged.attempt = enrollOwed.attempt

(* The one request that is open has left a trace: in the journal, whatever *)
(* a power loss makes of it, unless its row is there; and unless a service *)
(* remembers it or has yet to look.                                        *)
Opened(d, o) ==
  /\ \A m, n \in open : m = n
  /\ \A n \in open :
       /\ Opens(n, d, o) /\ (AllTrace(n, d, o) \/ RowIs(n))
       /\ Trace(n, d) \/ wf # None \/ enrollOwed # None \/ At({"erase", "own", "load"})
  /\ Shows(d) => wf # None \/ problem \/ debt \/ At({"load"})

(* The reply to it is in memory, in the journal, or in the row.            *)
Held(n) == (Holding /\ ~Sealed) \/ (staged # None /\ staged.attempt = n)
RepliesKept(d, o) ==
  \A n \in received :
    /\ \/ Held(n) /\ ~RowIs(n) /\ ~Rows(n, bak)
       \/ SafeIn(n, d, o, RowIs(n))
    /\ Keeps(n, d, o)

(* A reply that can be used superseded the authenticator that was there.   *)
Superseded(r) == r.prior # None => steam # r.prior
Known(r) ==
  /\ r.reply # "none" => r.attempt \in sent
  /\ r.kind = "transfer" /\ r.reply = "usable" => Superseded(r)
  /\ ~adopted => r.prior # Elsewhere
RowKnown(r) ==
  /\ r.backup # "none"
  /\ r.auth \in Attempts => r.auth \in sent
  /\ ~adopted => r.auth # Elsewhere
World(d, o) ==
  /\ \A r \in Written(d, o) : Known(r)
  /\ wf # None => Known(wf) /\ (unsaved => Superseded(wf))
  /\ erec # None /\ erec.reply # "none" => erec.attempt \in sent
  /\ staged # None => staged.attempt \in sent
  /\ enrollOwed # None /\ enrollOwed.reply # "none" => enrollOwed.attempt \in sent
  /\ owed # None => Known(owed)
  /\ row # None => RowKnown(row)
  /\ bak # None => RowKnown(bak)

(* Who is at work.                                                         *)
Awaits(r, d, o) ==
  /\ Fresh(r, d, o) /\ r.attempt \in open /\ r.attempt \notin received
  /\ ~RowIs(r.attempt) /\ ~Rows(r.attempt, bak)
Phases(d, o) ==
  /\ phase \in {"routing", "minting"} =>
       /\ ~debt /\ Blank(d) /\ open = {} /\ wf = None /\ Idle /\ ~problem
       /\ enrollOwed = None /\ erec = None /\ staged = None
  /\ Idle /\ phase = "asked" => Awaits(wf, d, o) /\ ~Holding /\ owed = None
  /\ Idle /\ login = "asked" => Awaits(erec, d, o) /\ staged = None /\ phase = "no"
  /\ Idle => phase # "saving"
  /\ At({"load"}) =>
       /\ wf = None /\ ~problem /\ pending = "none" /\ terminal = None
       /\ auth = "no" /\ phase = "no"
       /\ erec = None /\ enrollOwed = None /\ staged = None /\ ~recovering
  /\ problem => wf = None /\ pending = "none" /\ auth = "no"
  /\ proving # None => recovering
  /\ recovering => phase = "no"
  /\ resolving # None => phase = "no"
  /\ phase # "no" => ~enrollHolds
  /\ erec # None <=> login = "asked" \/ At(EnrollSteps)
  /\ enrollHolds <=> login = "asked"
  /\ login = "asked" => Idle \/ At(EnrollSteps)

(* Where the transfer's run is.                                            *)
Truth(resolution) ==
  /\ resolution = "replaced" => steam \in {wf.attempt, None}
  /\ resolution = "resolvedOutsideApp" => steam = None
AtStep(d) ==
  /\ At({"hydrate", "promote", "inspect", "write", "backup", "publish"}) =>
       job.resolution = None /\ job.by \in {"submission", "recovery"} /\ resolving = None
  /\ At({"hydrate"}) => proving = None
  /\ At({"hydrate", "promote", "inspect"}) /\ job.passphrase => recovering
  /\ At({"promote"}) => wf # None /\ unsaved /\ ~badHeld
  /\ At({"inspect"}) => /\ wf # None /\ wf.state \in {"replacement", "sending"}
                        /\ unsaved /\ Read(wf, d) /\ ~badHeld
  /\ At({"write", "backup", "publish"}) => Sealed /\ Read(wf, d) /\ ~badHeld
  /\ At({"write"}) =>
       row = None \/ RowIs(wf.attempt) \/ (wf.prior # None => wf.prior = row.auth)
  /\ At({"backup"}) => RowIs(wf.attempt)
  /\ At({"publish"}) => Secured(wf.attempt)
  /\ At({"clear", "owe"}) =>
       /\ wf # None /\ Read(wf, d) /\ ~badHeld
       /\ job.resolution \in {None, "notReplaced", "resolvedOutsideApp"}
       /\ Saving => Sealed /\ Secured(wf.attempt)
       /\ ~Saving => wf.attempt \notin open /\ wf.reply # "usable" /\ ~unsaved
       /\ job.resolution = "notReplaced" => wf.reply = "none"
  /\ At({"deny"}) =>
       wf # None /\ Read(wf, d) /\ wf.attempt \notin open /\ wf.reply = "none" /\ ~Holding
  /\ At({"mark", "look"}) =>
       wf # None /\ wf.reply = "none" /\ ~Holding /\ wf.attempt \notin received
  /\ At({"mark"}) => Read(wf, d) /\ row = None
  /\ At({"resolve"}) =>
       /\ wf # None /\ ~Holding /\ Truth(job.resolution) /\ resolving = None
       /\ phase = "no" /\ ~recovering
       /\ job.resolution \in {"notReplaced", "replaced", "resolvedOutsideApp"}
  /\ At({"remove"}) => resolving # None /\ resolving.resolution = job.resolution
  /\ resolving # None /\ (Idle \/ At({"remove"})) =>
       /\ resolving.resolution \in {"replaced", "resolvedOutsideApp"}
       /\ resolving.print = wf.prior /\ wf.prior # None /\ wf.reply = "none"
       /\ Truth(resolving.resolution) /\ ~Holding /\ Read(wf, d)
  /\ proving # None /\ Idle => unsaved /\ ~badHeld /\ resolving = None
  /\ At({"mark", "look", "resolve", "remove"}) => job.by = "resolution"
  /\ job # None /\ job.by = "resolution" => ~Holding

(* Where the enrolment's run is.                                           *)
EnrollAtStep(d) ==
  /\ At({"peek"}) => /\ erec.reply # "none" /\ staged # None
                     /\ job.resolution = None
                     /\ ~RowIs(erec.attempt) /\ ~Rows(erec.attempt, bak)
  /\ At({"store", "copy", "announce"}) =>
       Read(erec, d) /\ erec.state = "recoverable" /\ staged = None /\ job.resolution = None
  /\ At({"copy"}) => RowIs(erec.attempt)
  /\ At({"announce"}) => Secured(erec.attempt)
  /\ At({"erase", "own"}) =>
       /\ Read(erec, d)
       /\ job.resolution = None => Secured(erec.attempt) /\ erec.state = "recoverable"
       /\ job.resolution = "storedHere" => RowIs(erec.attempt)
       /\ ~Stowed => erec.attempt \notin open
       /\ job.by = "submission" /\ ~Stowed => staged = None /\ erec.reply = "none"
  /\ At({"disclaim"}) =>
       Read(erec, d) /\ erec.reply = "none" /\ erec.attempt \notin open /\ staged = None

(* What reading or writing the journal leaves as it is; and all of it.     *)
Core(d, o) ==
  /\ Sound(d, o) /\ Transfers(d, o) /\ Enrolments(d, o) /\ Opened(d, o)
  /\ RepliesKept(d, o) /\ World(d, o)
Inv(d, o) ==
  /\ Types /\ Core(d, o) /\ Phases(d, o) /\ AtStep(d) /\ EnrollAtStep(d)
IInv == Inv(dir, older)

outside == <<row, bak, steam, sent, open, received, adopted>>

(* What a service goes by at a step of its work, or awaiting an answer.    *)
TransferAt(s) ==
  /\ Types /\ job # None /\ job \in Job /\ job.step = s
  /\ login # "asked" /\ erec = None /\ ~enrollHolds
EnrollmentAt(s) ==
  /\ Types /\ job # None /\ job \in Job /\ job.step = s
  /\ job.resolution \in Resolutions \cup {None}
  /\ wf = None /\ owed = None /\ unsaved = FALSE /\ badHeld = FALSE /\ proving = None
  /\ resolving = None /\ phase = "no" /\ erec # None /\ erec \in Record /\ Fit(erec)
  /\ erec.kind = "enrollment" /\ Mine(erec, dir, older) /\ open \subseteq {erec.attempt}
  /\ received \subseteq {erec.attempt} /\ Sound(dir, older) /\ erec.prior = None
  /\ erec.reply # "none" => erec.attempt \in sent
  /\ enrollOwed # None => SameIdentity(erec, enrollOwed)
  /\ staged # None => staged.attempt = erec.attempt
TransferAsked ==
  /\ Types /\ job = None /\ phase = "asked" /\ wf # None /\ Fit(wf) /\ wf.kind = "transfer"
  /\ wf \in Record /\ wf.state = "sending" /\ wf.reply = "none" /\ Mine(wf, dir, older)
  /\ wf.attempt \in sent /\ open = {wf.attempt} /\ received = {} /\ Known(wf)
  /\ ~RowIs(wf.attempt) /\ ~Rows(wf.attempt, bak) /\ unsaved = FALSE /\ badHeld = FALSE
  /\ owed = None /\ enrollOwed = None /\ erec = None /\ staged = None /\ problem = FALSE
  /\ proving = None /\ resolving = None /\ recovering = FALSE
  /\ login # "asked" /\ enrollHolds = FALSE
  /\ Sound(dir, older) /\ Written(dir, older) = {wf} /\ Read(wf, dir)
  /\ Keeps(wf.attempt, dir, older) /\ \A reply : Waiting(dir, reply)
EnrollmentAsked ==
  /\ Types /\ job = None /\ login = "asked" /\ erec # None /\ Fit(erec)
  /\ erec.kind = "enrollment"
  /\ erec \in Record /\ erec.state = "sending" /\ erec.reply = "none" /\ Mine(erec, dir, older)
  /\ erec.attempt \in sent /\ open = {erec.attempt} /\ received = {} /\ erec.prior = None
  /\ ~RowIs(erec.attempt) /\ ~Rows(erec.attempt, bak) /\ unsaved = FALSE /\ badHeld = FALSE
  /\ wf = None /\ owed = None /\ staged = None /\ phase = "no"
  /\ proving = None /\ resolving = None
  /\ (enrollOwed # None => SameIdentity(erec, enrollOwed))
  /\ Sound(dir, older) /\ Written(dir, older) = {erec} /\ Read(erec, dir)
  /\ Keeps(erec.attempt, dir, older) /\ Heard(dir)
Minting ==
  /\ Types /\ Core(dir, older) /\ job = None /\ phase = "minting" /\ debt = FALSE
  /\ Blank(dir) /\ open = {} /\ received = {}
  /\ wf = None /\ problem = FALSE /\ enrollOwed = None /\ erec = None /\ staged = None
  /\ owed = None /\ unsaved = FALSE /\ badHeld = FALSE /\ proving = None /\ resolving = None
  /\ recovering = FALSE /\ enrollHolds = FALSE /\ login # "asked" /\ Sound(dir, older)
  /\ \A q \in Written(dir, older) : Known(q)
EnrollmentKept(r, d, o) ==
  /\ Types /\ job = None /\ erec = None /\ wf = None /\ owed = None /\ unsaved = FALSE
  /\ badHeld = FALSE /\ proving = None /\ resolving = None /\ phase = "no"
  /\ Fit(r) /\ r \in Record /\ r # None /\ r.prior = None /\ r.kind = "enrollment"
  /\ OfEnrolment(r, d, o) /\ Mine(r, d, o)
  /\ open \subseteq {r.attempt} /\ received \subseteq {r.attempt}
  /\ (staged # None => staged.attempt = r.attempt)
  /\ (enrollOwed # None => SameIdentity(enrollOwed, r) /\ SameIdentity(r, enrollOwed))
  /\ (r.reply # "none" => r.attempt \in sent) /\ Sound(d, o)

(* The record that a step wrote or read again; a run that goes on or ends. *)
Wrote(t) ==
  /\ dir' = [files |-> {t}, staged |-> {}, torn |-> FALSE] /\ older' = {}
  /\ Read(t, dir') /\ Trace(t.attempt, dir') /\ Mine(t, dir', older')
  /\ Waiting(dir', t.reply) /\ (t.state = "replacement" => Sealing(dir'))
  /\ t.reply # "none" => \A b : SafeIn(t.attempt, dir', older', b)
  /\ Keeps(t.attempt, dir', older')
ReadBack(r) ==
  /\ Fit(r) /\ r.kind = "transfer" /\ SameIdentity(wf, r) /\ Known(r)
  /\ Mine(r, dir', older') /\ Read(r, dir') /\ r \in Record
  /\ dir'.files = {r} \/ (dir'.files = {} /\ r = owed /\ owed # None)
  /\ owed # None => SameIdentity(owed, r)
  /\ owed # None /\ owed.state = "replacement" => r.state = "replacement"
  /\ r.attempt = wf.attempt /\ r.prior = wf.prior
GoesOn(s) ==
  /\ job' # None /\ job' \in Job /\ job'.step = s /\ job'.by = job.by
  /\ job'.passphrase = job.passphrase /\ job'.resolution = job.resolution
RunOver ==
  /\ job' = None /\ phase' = "no" /\ recovering' = FALSE /\ proving' = None /\ resolving' = None
Unmoved ==
  /\ UNCHANGED <<outside, debt, unlocked, wf, problem, owed, auth, challenging, badHeld>>
  /\ UNCHANGED <<enrollOwed, enrollHolds>> /\ pending' \in {pending, "none"}
  /\ terminal' \in {terminal, "unreadable", "not-replaced"}

(* Their parts are visible to every proof below.                            *)
USE DEF notes, signin, asking, transfer, service, vault, world, enrolment, enrollment,
   TransferAt, EnrollmentAt, TransferAsked, EnrollmentAsked, Minting, EnrollmentKept, Wrote,
   ReadBack, GoesOn, RunOver, Unmoved

-----------------------------------------------------------------------------
(* Readings.                                                               *)

LEMMA WrittenBy ==
  ASSUME NEW d, NEW o
  PROVE  /\ \A e \in {d} \cup o : \A r \in Recs(e) : r \in Written(d, o)
         /\ \A r \in Written(d, o) : \E e \in {d} \cup o : r \in Recs(e)
<1>1. ASSUME NEW e \in {d} \cup o, NEW r \in Recs(e) PROVE r \in Written(d, o)
  <2>1. Recs(e) \in {Recs(x) : x \in {d} \cup o}
    OBVIOUS
  <2>2. QED
    BY <2>1 DEF Written
<1>2. ASSUME NEW r \in Written(d, o) PROVE \E e \in {d} \cup o : r \in Recs(e)
  <2>1. PICK S \in {Recs(x) : x \in {d} \cup o} : r \in S
    BY DEF Written
  <2>2. QED
    BY <2>1
<1>3. QED
  BY <1>1, <1>2

(* Taking up what was staged loses no record and no reply.                 *)
LEMMA MergedSound ==
  ASSUME NEW d, Single(d), \A r \in Recs(d) : Fit(r), Reconcilable(d)
  PROVE  /\ Single(Merged(d)) /\ Merged(d).staged = {} /\ ~Merged(d).torn /\ ~d.torn
         /\ Recs(Merged(d)) \subseteq Recs(d)
         /\ d.staged = {} => Merged(d) = d
         /\ \A n : Trace(n, Merged(d)) <=> Trace(n, d)
         /\ \A n : Has(n, Merged(d)) <=> Has(n, d)
         /\ \A n : Names(n, Merged(d)) => Names(n, d)
         /\ Merged(d).files # {} => d.files # {}
         /\ \A f \in d.files : \E g \in Merged(d).files :
              f.reply # "none" => g.reply = f.reply
<1> DEFINE m == Merged(d)
<1>0. d \in Directory /\ ~d.torn
  <2>1. d \in Directory
    BY DEF Single
  <2>2. ~d.torn
    BY Zenon DEF Reconcilable
  <2>3. QED
    BY <2>1, <2>2
<1>1. /\ d \in Directory /\ ~d.torn
      /\ m = [files |-> {f \in d.files : Taken(d, f) = {}} \cup UNION {Taken(d, f) : f \in d.files},
              staged |-> {}, torn |-> FALSE]
  <2>1. d.torn = FALSE
    BY <1>0 DEF Directory
  <2>2. m = [d EXCEPT !.files = {f \in d.files : Taken(d, f) = {}} \cup UNION {Taken(d, f) : f \in d.files},
                      !.staged = {}]
    BY DEF Merged
  <2>3. QED
    BY <1>0, <2>1, <2>2 DEF Directory
<1>2. \A f \in d.files : Taken(d, f) \subseteq d.staged
  BY DEF Taken
<1>3. \A r \in m.files : r \in d.files \cup d.staged
  BY <1>1, <1>2
<1>4. \A f, g \in m.files : f = g
  BY <1>1, <1>2 DEF Single
<1>5. Single(m) /\ Recs(m) \subseteq Recs(d)
  BY <1>1, <1>3, <1>4 DEF Single, Directory, Recs
<1>6. d.staged = {} => m = d
  <2>1. SUFFICES ASSUME d.staged = {} PROVE m = d
    OBVIOUS
  <2>2. \A f \in d.files : Taken(d, f) = {}
    BY <2>1, <1>2
  <2>3. {f \in d.files : Taken(d, f) = {}} \cup UNION {Taken(d, f) : f \in d.files} = d.files
    BY <2>2
  <2>4. QED
    BY <1>1, <2>1, <2>3 DEF Directory
<1>7. \A s \in d.staged : d.files = {} => s.state = "sending"
  BY DEF Reconcilable, Understood, FinalsOf
<1>8. ASSUME NEW f \in d.files
      PROVE  \E g \in m.files : g.attempt = f.attempt /\ (g = f \/ g \in Taken(d, f))
  <2>1. CASE Taken(d, f) = {}
    BY <2>1, <1>1
  <2>2. CASE Taken(d, f) # {}
    BY <2>2, <1>1 DEF Taken
  <2>3. QED
    BY <2>1, <2>2
<1>9. ASSUME NEW n PROVE Trace(n, m) <=> Trace(n, d)
  <2>1. CASE d.files = {}
    BY <2>1, <1>1, <1>7 DEF Trace
  <2>2. CASE d.files # {}
    <3>1. \A g \in m.files : \A f \in d.files : g.attempt = f.attempt
      BY <1>3 DEF Single, Follows, SameIdentity
    <3>2. \A f \in d.files : \A s \in d.staged : s.attempt = f.attempt
      BY DEF Single, Follows, SameIdentity
    <3>3. QED
      BY <2>2, <1>1, <1>8, <3>1, <3>2 DEF Trace
  <2>3. QED
    BY <2>1, <2>2
<1>10. ASSUME NEW n, Has(n, d) PROVE Has(n, m)
  <2>1. PICK r \in Recs(d) : r.attempt = n /\ r.reply # "none"
    BY <1>10 DEF Has
  <2>2. CASE r \in d.files
    <3>1. PICK g \in m.files : g.attempt = r.attempt /\ (g = r \/ g \in Taken(d, r))
      BY <2>2, <1>8
    <3>2. g.reply = r.reply
      BY <2>1, <2>2, <3>1, <1>2 DEF Single, Follows
    <3>3. QED
      BY <2>1, <3>1, <3>2 DEF Has, Recs
  <2>3. CASE r \in d.staged /\ r \notin d.files
    <3>1. r.state # "sending"
      BY <2>1 DEF Fit, Record
    <3>2. PICK f \in d.files : TRUE
      BY <2>3, <1>7, <3>1
    <3>3. SameIdentity(f, r) /\ (f.reply # "none" => r.reply = f.reply)
          /\ (f.reply = "none" => f.state = "sending")
      BY <2>1, <2>3, <3>2 DEF Single, Follows
    <3>4. CASE f.reply = "none"
      <4>1. Takes(f, r)
        BY <3>1, <3>3, <3>4 DEF Takes, Later
      <4>2. r \in Taken(d, f)
        BY <4>1, <2>3, <3>3 DEF Taken, SameIdentity
      <4>3. r \in m.files
        BY <4>2, <1>1
      <4>4. QED
        BY <4>3, <2>1 DEF Has, Recs
    <3>5. CASE f.reply # "none"
      <4>1. PICK g \in m.files : g.attempt = f.attempt /\ (g = f \/ g \in Taken(d, f))
        BY <1>8
      <4>2. g.reply = f.reply
        BY <3>5, <4>1, <1>2 DEF Single, Follows
      <4>3. QED
        BY <3>3, <3>5, <2>1, <4>1, <4>2 DEF Has, Recs, SameIdentity
    <3>6. QED
      BY <3>4, <3>5
  <2>4. QED
    BY <2>1, <2>2, <2>3 DEF Recs
<1>11. \A n : (Has(n, m) => Has(n, d)) /\ (Names(n, m) => Names(n, d))
  BY <1>5 DEF Has, Names
<1>12. m.staged = {} /\ ~m.torn /\ ~d.torn
  BY <1>1
<1>13. \A n : Has(n, m) <=> Has(n, d)
  BY <1>10, <1>11
<1>14. m.files # {} => d.files # {}
  BY <1>1
<1>15. ASSUME NEW f \in d.files
       PROVE  \E g \in m.files : f.reply # "none" => g.reply = f.reply
  <2>1. PICK g \in m.files : g.attempt = f.attempt /\ (g = f \/ g \in Taken(d, f))
    BY <1>8
  <2>2. f.reply # "none" => g.reply = f.reply
    BY <2>1, <1>2 DEF Single, Follows
  <2>3. QED
    BY <2>2
<1>16. QED
  BY <1>5, <1>6, <1>9, <1>11, <1>12, <1>13, <1>14, <1>15

Like(n, e, d) ==
  (Trace(n, e) <=> Trace(n, d)) /\ (Has(n, e) <=> Has(n, d)) /\ (Names(n, e) => Names(n, d))

(* What a reading may make of the directory d and of what a power loss may *)
(* turn it into.                                                           *)
ReadTo(d, o, d2, o2) ==
  /\ Sound(d2, o2)
  /\ Written(d2, o2) \subseteq Written(d, o) /\ Recs(d2) \subseteq Recs(d)
  /\ \A n : Like(n, d2, d)
  /\ \A e \in o2 : e = d \/ e \in o
  /\ d2.staged \subseteq d.staged
  /\ d2.files # {} => d.files # {}
  /\ d.staged = {} => d2 = d /\ o2 \subseteq o

LEMMA LessSound ==
  ASSUME NEW d, NEW o, NEW o2, Sound(d, o), o2 \subseteq o
  PROVE  Sound(d, o2) /\ Written(d, o2) \subseteq Written(d, o)
<1>1. Written(d, o2) \subseteq Written(d, o)
  BY WrittenBy
<1>2. QED
  BY <1>1 DEF Sound

LEMMA ReadLess ==
  ASSUME NEW d, NEW o, NEW d2, NEW o2, NEW o3, ReadTo(d, o, d2, o2), o3 \subseteq o2
  PROVE  ReadTo(d, o, d2, o3)
BY LessSound DEF ReadTo

LEMMA ReadNothing ==
  ASSUME NEW d, NEW o, Sound(d, o)
  PROVE  ReadTo(d, o, d, o)
BY DEF ReadTo, Like

(* Merging is a reading, whether or not what was staged may come back.     *)
LEMMA MergeReads ==
  ASSUME NEW d, NEW o, NEW o2, Sound(d, o), Reconcilable(d),
         \A e \in o2 : e = d \/ e \in o, d.staged = {} => o2 \subseteq o
  PROVE  ReadTo(d, o, Merged(d), o2)
<1> DEFINE m == Merged(d)
<1>1. Single(d) /\ \A r \in Recs(d) : Fit(r)
  BY WrittenBy DEF Sound
<1>2. /\ Single(m) /\ m.staged = {} /\ Recs(m) \subseteq Recs(d)
      /\ d.staged = {} => m = d
      /\ m.files # {} => d.files # {}
      /\ \A n : Like(n, m, d)
  BY <1>1, MergedSound DEF Like
<1>3. Written(m, o2) \subseteq Written(d, o)
  <2>1. \A e \in {m} \cup o2 : Recs(e) \subseteq Recs(d) \/ e \in {d} \cup o
    BY <1>2
  <2>2. QED
    BY <2>1, WrittenBy
<1>4. Sound(m, o2)
  BY <1>2, <1>3 DEF Sound
<1>5. QED
  BY <1>2, <1>3, <1>4 DEF ReadTo

LEMMA Reading ==
  ASSUME NEW d, NEW o, Sound(d, o), NEW x \in Reconciling(d, o)
  PROVE  /\ ReadTo(d, o, x.dir, x.older) /\ x.debt = FALSE
         /\ x.ok => /\ Reconcilable(d) /\ x.dir = Merged(d) /\ x.dir.staged = {} /\ ~x.dir.torn
                    /\ x.older \subseteq o
         /\ x.ok \in BOOLEAN
<1>1. Single(d) /\ \A r \in Recs(d) : Fit(r)
  BY WrittenBy DEF Sound
<1>2. \/ x = Fails(d, o)
      \/ d.staged = {} /\ Reconcilable(d) /\ x = Works(d, o)
      \/ d.staged # {} /\ Reconcilable(d) /\ x = Works(Merged(d), {})
      \/ d.staged # {} /\ Reconcilable(d) /\ x = Unflushed(d, Merged(d), o)
  BY DEF Reconciling
<1>3. CASE x = Fails(d, o)
  <2>1. x.dir = d /\ x.older = o /\ x.ok = FALSE /\ x.debt = FALSE
    BY <1>3 DEF Fails
  <2>2. QED
    BY <2>1, ReadNothing
<1>4. CASE d.staged = {} /\ Reconcilable(d) /\ x = Works(d, o)
  <2>1. x.dir = d /\ x.older = o /\ x.ok = TRUE /\ x.debt = FALSE
    BY <1>4 DEF Works
  <2>2. Merged(d) = d /\ ~d.torn
    BY <1>1, <1>4, MergedSound
  <2>3. QED
    BY <1>4, <2>1, <2>2, ReadNothing
<1>5. CASE d.staged # {} /\ Reconcilable(d) /\ x = Works(Merged(d), {})
  <2>1. x.dir = Merged(d) /\ x.older = {} /\ x.ok = TRUE /\ x.debt = FALSE
    BY <1>5 DEF Works
  <2>2. Merged(d).staged = {} /\ ~Merged(d).torn
    BY <1>1, <1>5, MergedSound
  <2>3. ReadTo(d, o, Merged(d), {})
    BY <1>5, MergeReads
  <2>4. QED
    BY <1>5, <2>1, <2>2, <2>3
<1>6. CASE d.staged # {} /\ Reconcilable(d) /\ x = Unflushed(d, Merged(d), o)
  <2>1. x.dir = Merged(d) /\ x.older = o \cup {d} /\ x.ok = FALSE /\ x.debt = FALSE
    BY <1>6 DEF Unflushed, Fails
  <2>2. ReadTo(d, o, Merged(d), o \cup {d})
    BY <1>6, MergeReads
  <2>3. QED
    BY <2>1, <2>2
<1>7. QED
  BY <1>2, <1>3, <1>4, <1>5, <1>6

-----------------------------------------------------------------------------
(* Writings.                                                               *)

LEMMA PutSound ==
  ASSUME NEW m, NEW r, Single(m), ~m.torn, m.staged = {}, Fit(r),
         \A f \in m.files : Follows(f, r)
  PROVE  /\ Put(m, r) = [files |-> {r}, staged |-> {}, torn |-> FALSE]
         /\ Stage(m, r) = [files |-> m.files, staged |-> {r}, torn |-> FALSE]
         /\ Torn(m) = [files |-> m.files, staged |-> {}, torn |-> TRUE]
         /\ Single(Put(m, r)) /\ Single(Stage(m, r)) /\ Single(Torn(m))
<1>1. m \in Directory /\ m.torn = FALSE
  BY DEF Single, Directory
<1>2. FinalsOf(m, r) = m.files
  BY DEF FinalsOf, Follows, SameIdentity
<1>3. (m.files \ FinalsOf(m, r)) \cup {r} = {r} /\ m.staged \cup {r} = {r}
  BY <1>2
<1>4. Put(m, r) = [files |-> {r}, staged |-> {}, torn |-> FALSE]
  <2>1. Put(m, r) = [m EXCEPT !.files = (m.files \ FinalsOf(m, r)) \cup {r}]
    BY <1>1 DEF Put, Directory
  <2>2. Put(m, r) = [m EXCEPT !.files = {r}]
    BY <2>1, <1>3
  <2>3. QED
    BY <1>1, <2>2 DEF Directory
<1>5. Stage(m, r) = [files |-> m.files, staged |-> {r}, torn |-> FALSE]
  <2>1. Stage(m, r) = [m EXCEPT !.staged = m.staged \cup {r}]
    BY <1>1 DEF Stage, Directory
  <2>2. Stage(m, r) = [m EXCEPT !.staged = {r}]
    BY <2>1, <1>3
  <2>3. QED
    BY <1>1, <2>2 DEF Directory
<1>6. Torn(m) = [files |-> m.files, staged |-> {}, torn |-> TRUE]
  <2>1. Torn(m) = [m EXCEPT !.torn = TRUE]
    BY DEF Torn
  <2>2. QED
    BY <1>1, <2>1 DEF Directory
<1>7. r \in Record
  BY DEF Fit
<1>8. Single(Put(m, r)) /\ Single(Torn(m))
  BY <1>1, <1>4, <1>6, <1>7 DEF Single, Directory
<1>9. Single(Stage(m, r))
  BY <1>1, <1>5, <1>7 DEF Single, Directory
<1>10. QED
  BY <1>4, <1>5, <1>6, <1>8, <1>9

(* Directories in which the version r was put or staged.                   *)
Bears(r, e) == r \in Recs(e) /\ Trace(r.attempt, e)

(* What writing the version r may make of the directory.                   *)
WriteTo(d, o, r, d2, o2) ==
  /\ Sound(d2, o2)
  /\ Written(d2, o2) \subseteq Written(d, o) \cup {r} /\ Recs(d2) \subseteq Recs(d) \cup {r}
  /\ \A e \in {d2} \cup o2 :
       /\ e \in o \/ Bears(r, e) \/ Like(r.attempt, e, d)
            \/ (Trace(r.attempt, e) /\ (Has(r.attempt, e) <=> Has(r.attempt, d))
                  /\ (Names(r.attempt, e) => Names(r.attempt, d)))
       /\ \A s \in e.staged : s = r \/ \E c \in {d} \cup o : s \in c.staged
  /\ \/ Like(r.attempt, d2, d)
     \/ Bears(r, d2) /\ \A e \in o2 : Bears(r, e)

(* A later version of a record, staged and renamed over it.                *)
LEMMA Updating ==
  ASSUME JournalAssumption, NEW r, Sound(dir, older), Fit(r), r.state # "sending",
         Mine(r, dir, older),
         Reconcilable(dir) => \A f \in Merged(dir).files : Follows(f, r),
         NEW x \in Updates(r)
  PROVE  /\ WriteTo(dir, older, r, x.dir, x.older) /\ x.debt = FALSE /\ x.ok \in BOOLEAN
         /\ x.ok => x.dir = [files |-> {r}, staged |-> {}, torn |-> FALSE] /\ x.older = {}
<1> DEFINE m == Merged(dir)
<1>1. PICK y \in Reconciling(dir, older) :
        x \in IF y.ok THEN Renaming(y.dir, y.older, r) ELSE {y}
  BY DEF Updates, Then
<1>2. /\ ReadTo(dir, older, y.dir, y.older) /\ y.debt = FALSE /\ y.ok \in BOOLEAN
      /\ y.ok => /\ Reconcilable(dir) /\ y.dir = m /\ m.staged = {} /\ ~m.torn
                 /\ y.older \subseteq older
  <2>1. /\ ReadTo(dir, older, y.dir, y.older) /\ y.debt = FALSE
        /\ y.ok => /\ Reconcilable(dir) /\ y.dir = Merged(dir) /\ y.dir.staged = {} /\ ~y.dir.torn
                   /\ y.older \subseteq older
        /\ y.ok \in BOOLEAN
    BY Zenon, Reading
  <2>2. QED
    BY <2>1
<1>3. CASE ~y.ok
  <2>1. x = y
    BY <1>1, <1>3
  <2>2. WriteTo(dir, older, r, y.dir, y.older)
    <3>1. /\ Sound(y.dir, y.older)
          /\ Written(y.dir, y.older) \subseteq Written(dir, older)
          /\ Recs(y.dir) \subseteq Recs(dir)
          /\ Like(r.attempt, y.dir, dir)
          /\ \A e \in y.older : e = dir \/ e \in older
          /\ y.dir.staged \subseteq dir.staged
      BY <1>2 DEF ReadTo
    <3>2. Like(r.attempt, dir, dir)
      BY DEF Like
    <3>3. \A e \in {y.dir} \cup y.older : e \in older \/ Like(r.attempt, e, dir)
      BY <3>1, <3>2
    <3>4. ASSUME NEW e \in {y.dir} \cup y.older, NEW s \in e.staged
          PROVE  \E c \in {dir} \cup older : s \in c.staged
      BY <3>1
    <3>5. QED
      BY <3>1, <3>3, <3>4 DEF WriteTo
  <2>3. QED
    BY <2>1, <2>2, <1>2, <1>3
<1>4. CASE y.ok
  <2>1. /\ Reconcilable(dir) /\ y.dir = m /\ m.staged = {} /\ ~m.torn /\ y.older \subseteq older
        /\ Single(m) /\ \A f \in m.files : Follows(f, r)
    BY <1>2, <1>4 DEF ReadTo, Sound
  <2>2. /\ Put(m, r) = [files |-> {r}, staged |-> {}, torn |-> FALSE]
        /\ Stage(m, r) = [files |-> m.files, staged |-> {r}, torn |-> FALSE]
        /\ Torn(m) = [files |-> m.files, staged |-> {}, torn |-> TRUE]
        /\ Single(Put(m, r)) /\ Single(Stage(m, r)) /\ Single(Torn(m))
    BY <2>1, PutSound
  <2>3. /\ Recs(m) \subseteq Recs(dir) /\ Recs(Put(m, r)) = {r}
        /\ Recs(Stage(m, r)) = Recs(m) \cup {r} /\ Recs(Torn(m)) = Recs(m)
        /\ Bears(r, Put(m, r)) /\ Bears(r, Stage(m, r))
    <3>1. Recs(m) \subseteq Recs(dir)
      BY <1>2, <2>1 DEF ReadTo
    <3>2. Recs(m) = m.files
      BY <2>1 DEF Recs
    <3>3. QED
      BY <3>1, <3>2, <2>2 DEF Recs, Bears, Trace
  <2>4. Like(r.attempt, m, dir)
    BY <1>2, <2>1 DEF ReadTo
  <2>5. /\ Trace(r.attempt, Torn(m)) /\ (Has(r.attempt, Torn(m)) <=> Has(r.attempt, dir))
        /\ (Names(r.attempt, Torn(m)) => Names(r.attempt, dir))
    <3>1. Torn(m).torn = TRUE /\ Recs(Torn(m)) = Recs(m)
      BY <2>2, <2>3
    <3>2. Trace(r.attempt, Torn(m))
      BY <3>1 DEF Trace
    <3>3. /\ Has(r.attempt, Torn(m)) <=> Has(r.attempt, m)
          /\ Names(r.attempt, Torn(m)) <=> Names(r.attempt, m)
      BY <3>1 DEF Has, Names
    <3>4. QED
      BY <2>4, <3>2, <3>3 DEF Like
  <2>6. \/ x = Works(Put(m, r), {})
        \/ x = NotStaged(m, y.older, r)
        \/ x = Fails(Stage(m, r), {})
        \/ x = Unflushed(Stage(m, r), Put(m, r), {})
    BY <1>1, <1>4, <2>1 DEF Renaming
  <2>7. ASSUME NEW d2, NEW o2,
               \A e \in {d2} \cup o2 : e \in {m, Put(m, r), Stage(m, r), Torn(m)} \/ e \in y.older,
               d2 \in {m, Put(m, r), Stage(m, r)},
               d2 # m => \A e \in o2 : e \in {Put(m, r), Stage(m, r)}
        PROVE  WriteTo(dir, older, r, d2, o2)
    <3>1. \A e \in {d2} \cup o2 : Single(e)
      BY <2>1, <2>2, <2>7 DEF Sound
    <3>2. \A e \in {d2} \cup o2 : \A s \in Recs(e) : s \in Written(dir, older) \/ s = r
      BY <2>1, <2>3, <2>7, WrittenBy
    <3>3. /\ Written(d2, o2) \subseteq Written(dir, older) \cup {r}
          /\ Recs(d2) \subseteq Recs(dir) \cup {r}
      BY <3>2, <2>3, <2>7, WrittenBy
    <3>4. \A s \in Written(d2, o2) : Fit(s)
      BY <3>3 DEF Sound
    <3>5. \A s \in Recs(d2), t \in Written(d2, o2) : SameIdentity(s, t)
      <4>1. \A s \in Recs(dir) : s \in Written(dir, older)
        BY WrittenBy
      <4>2. \A s \in Recs(dir), t \in Written(dir, older) : SameIdentity(s, t)
        BY DEF Sound
      <4>3. \A t \in Written(dir, older) : SameIdentity(r, t)
        BY DEF Mine
      <4>4. QED
        BY <3>3, <4>1, <4>2, <4>3 DEF SameIdentity
    <3>6. Sound(d2, o2)
      BY <3>1, <3>4, <3>5 DEF Sound
    <3>7. ASSUME NEW e \in {d2} \cup o2, NEW s \in e.staged
          PROVE  s = r \/ \E c \in {dir} \cup older : s \in c.staged
      BY <2>1, <2>2, <2>7
    <3>8. ASSUME NEW e \in {d2} \cup o2
          PROVE  e \in older \/ Bears(r, e) \/ Like(r.attempt, e, dir)
                   \/ (Trace(r.attempt, e) /\ (Has(r.attempt, e) <=> Has(r.attempt, dir))
                         /\ (Names(r.attempt, e) => Names(r.attempt, dir)))
      BY <2>1, <2>3, <2>4, <2>5, <2>7
    <3>9. Like(r.attempt, d2, dir) \/ (Bears(r, d2) /\ \A e \in o2 : Bears(r, e))
      BY <2>3, <2>4, <2>7
    <3>10. QED
      BY <3>3, <3>6, <3>7, <3>8, <3>9 DEF WriteTo
  <2>8. CASE x = Works(Put(m, r), {})
    <3>1. x.dir = Put(m, r) /\ x.older = {} /\ x.ok = TRUE /\ x.debt = FALSE
      BY <2>8 DEF Works
    <3>2. WriteTo(dir, older, r, Put(m, r), {})
      BY <2>7
    <3>3. QED
      BY <3>1, <3>2, <2>2
  <2>9. CASE x = NotStaged(m, y.older, r)
    <3>1. /\ x.dir = m /\ x.older = y.older \cup {Stage(m, r), Torn(m)}
          /\ x.ok = FALSE /\ x.debt = FALSE
      BY <2>9 DEF NotStaged, Fails
    <3>2. WriteTo(dir, older, r, m, y.older \cup {Stage(m, r), Torn(m)})
      BY <2>7
    <3>3. QED
      BY <3>1, <3>2
  <2>10. CASE x = Fails(Stage(m, r), {})
    <3>1. x.dir = Stage(m, r) /\ x.older = {} /\ x.ok = FALSE /\ x.debt = FALSE
      BY <2>10 DEF Fails
    <3>2. WriteTo(dir, older, r, Stage(m, r), {})
      BY <2>7
    <3>3. QED
      BY <3>1, <3>2
  <2>11. CASE x = Unflushed(Stage(m, r), Put(m, r), {})
    <3>1. x.dir = Put(m, r) /\ x.older = {Stage(m, r)} /\ x.ok = FALSE /\ x.debt = FALSE
      BY <2>11 DEF Unflushed, Fails
    <3>2. WriteTo(dir, older, r, Put(m, r), {Stage(m, r)})
      BY <2>7
    <3>3. QED
      BY <3>1, <3>2
  <2>12. QED
    BY <2>6, <2>8, <2>9, <2>10, <2>11
<1>5. QED
  BY <1>3, <1>4

-----------------------------------------------------------------------------
(* The invariant stands whatever a reading, an update, a removal or a      *)
(* first publication makes of the journal.                                 *)

(* What a journal says survives a reading.                                 *)
LEMMA ReadSays ==
  ASSUME NEW d, NEW o, NEW d2, NEW o2, Sound(d, o), ReadTo(d, o, d2, o2)
  PROVE  /\ \A r : Mine(r, d, o) => Mine(r, d2, o2)
         /\ \A n : Enrols(n, d, o) => Enrols(n, d2, o2)
         /\ Sealing(d) => Sealing(d2)
         /\ \A reply : Waiting(d, reply) => Waiting(d2, reply)
         /\ Heard(d) => Heard(d2)
         /\ Shows(d2) => Shows(d)
         /\ \A n : Trace(n, d2) <=> Trace(n, d)
         /\ \A n : AllTrace(n, d, o) => AllTrace(n, d2, o2)
         /\ \A n : Opens(n, d, o) => Opens(n, d2, o2)
         /\ \A n, b : SafeIn(n, d, o, b) => SafeIn(n, d2, o2, b)
         /\ \A n : Keeps(n, d, o) => Keeps(n, d2, o2)
         /\ Blank(d) => Blank(d2)
         /\ \A r : Read(r, d) => Read(r, d2)
         /\ \A r : Fresh(r, d, o) => Fresh(r, d2, o2)
<1>1. Written(d2, o2) \subseteq Written(d, o) /\ Recs(d2) \subseteq Recs(d)
  BY DEF ReadTo
<1>2. /\ \A n : Like(n, d2, d) /\ \A e \in o2 : e = d \/ e \in o
      /\ d2.staged \subseteq d.staged
      /\ d.staged = {} => d2 = d /\ o2 \subseteq o
  BY DEF ReadTo
<1>3. \A r : Mine(r, d, o) => Mine(r, d2, o2)
  BY <1>1 DEF Mine
<1>4. \A n : Enrols(n, d, o) => Enrols(n, d2, o2)
  BY <1>1 DEF Enrols
<1>5. /\ Sealing(d) => Sealing(d2)
      /\ \A reply : Waiting(d, reply) => Waiting(d2, reply)
      /\ Heard(d) => Heard(d2)
  BY <1>1 DEF Sealing, Waiting, Heard
<1>6. Shows(d2) => Shows(d)
  <2>1. SUFFICES ASSUME NEW f \in d2.files, f.kind = "transfer" PROVE Shows(d)
    BY DEF Shows
  <2>2. PICK g \in d.files : TRUE
    BY DEF ReadTo
  <2>3. g \in Recs(d) /\ f \in Recs(d)
    BY <1>1 DEF Recs
  <2>4. f \in Written(d, o)
    BY <2>3, WrittenBy
  <2>5. SameIdentity(g, f)
    BY <2>3, <2>4 DEF Sound
  <2>6. QED
    BY <2>1, <2>5 DEF Shows, SameIdentity
<1>7. ASSUME NEW n PROVE Trace(n, d2) <=> Trace(n, d)
  BY <1>2 DEF Like
<1>8. ASSUME NEW n, AllTrace(n, d, o) PROVE AllTrace(n, d2, o2)
  BY <1>2, <1>7, <1>8 DEF AllTrace
<1>9. ASSUME NEW n, Opens(n, d, o) PROVE Opens(n, d2, o2)
  <2>1. \A r \in Written(d2, o2) : r.attempt = n
    BY <1>1, <1>9 DEF Opens
  <2>2. ASSUME NEW e \in {d2} \cup o2, NEW s \in e.staged PROVE s.state # "sending"
    <3>1. \E c \in {d} \cup o : s \in c.staged
      BY <1>2
    <3>2. QED
      BY <3>1, <1>9 DEF Opens
  <2>3. Trace(n, d2) => AllTrace(n, d2, o2)
    BY <1>7, <1>8, <1>9 DEF Opens
  <2>4. QED
    BY <2>1, <2>2, <2>3 DEF Opens
<1>10. ASSUME NEW n, NEW b, SafeIn(n, d, o, b) PROVE SafeIn(n, d2, o2, b)
  <2>1. \A e \in {d2} \cup o2 : \E c \in {d} \cup o :
          (Has(n, c) => Has(n, e)) /\ (Names(n, e) => Names(n, c))
    BY <1>2 DEF Like
  <2>2. QED
    BY <2>1, <1>10 DEF SafeIn
<1>11. ASSUME NEW n, Keeps(n, d, o) PROVE Keeps(n, d2, o2)
  BY <1>2, <1>11 DEF Keeps, Like
<1>12. Blank(d) => Blank(d2)
  BY <1>2 DEF Blank
<1>13. \A r : Read(r, d) => Read(r, d2)
  BY <1>2 DEF Read
<1>14. \A r : Fresh(r, d, o) => Fresh(r, d2, o2)
  BY <1>2 DEF Fresh
<1>15. QED
  BY <1>3, <1>4, <1>5, <1>6, <1>7, <1>8, <1>9, <1>10, <1>11, <1>12, <1>13, <1>14

LEMMA ReadKeeps ==
  ASSUME NEW d, NEW o, NEW d2, NEW o2, Inv(d, o), ReadTo(d, o, d2, o2)
  PROVE  Inv(d2, o2)
<1>1. Sound(d, o) /\ Sound(d2, o2) /\ Types
  BY DEF Inv, Core, ReadTo
<1>2. /\ \A r : Mine(r, d, o) => Mine(r, d2, o2)
      /\ \A n : Enrols(n, d, o) => Enrols(n, d2, o2)
      /\ Sealing(d) => Sealing(d2)
      /\ \A reply : Waiting(d, reply) => Waiting(d2, reply)
      /\ Heard(d) => Heard(d2)
      /\ Shows(d2) => Shows(d)
      /\ \A n : Trace(n, d2) <=> Trace(n, d)
      /\ \A n : AllTrace(n, d, o) => AllTrace(n, d2, o2)
      /\ \A n : Opens(n, d, o) => Opens(n, d2, o2)
      /\ \A n, b : SafeIn(n, d, o, b) => SafeIn(n, d2, o2, b)
      /\ \A n : Keeps(n, d, o) => Keeps(n, d2, o2)
      /\ Blank(d) => Blank(d2)
      /\ \A r : Read(r, d) => Read(r, d2)
      /\ \A r : Fresh(r, d, o) => Fresh(r, d2, o2)
  BY <1>1, ReadSays
<1>3. Transfers(d2, o2)
  <2>1. Transfers(d, o)
    BY DEF Inv, Core
  <2>2. QED
    BY <1>2, <2>1 DEF Transfers
<1>4. Enrolments(d2, o2)
  <2>1. Enrolments(d, o)
    BY DEF Inv, Core
  <2>2. QED
    BY <1>2, <2>1 DEF Enrolments, OfEnrolment
<1>5. Opened(d2, o2)
  <2>1. Opened(d, o)
    BY DEF Inv, Core
  <2>2. QED
    BY <1>2, <2>1 DEF Opened
<1>6. RepliesKept(d2, o2)
  <2>1. RepliesKept(d, o)
    BY DEF Inv, Core
  <2>2. QED
    BY <1>2, <2>1 DEF RepliesKept
<1>7. World(d2, o2)
  <2>1. World(d, o) /\ Written(d2, o2) \subseteq Written(d, o)
    BY DEF Inv, Core, ReadTo
  <2>2. QED
    BY <2>1 DEF World
<1>8. Phases(d2, o2)
  <2>1. Phases(d, o)
    BY DEF Inv
  <2>2. QED
    BY <1>2, <2>1 DEF Phases, Awaits
<1>9. AtStep(d2)
  <2>1. AtStep(d)
    BY DEF Inv
  <2>2. QED
    BY <1>2, <2>1 DEF AtStep
<1>10. EnrollAtStep(d2)
  <2>1. EnrollAtStep(d)
    BY DEF Inv
  <2>2. QED
    BY <1>2, <2>1 DEF EnrollAtStep
<1>11. QED
  BY <1>1, <1>3, <1>4, <1>5, <1>6, <1>7, <1>8, <1>9, <1>10 DEF Inv, Core

(* What a journal says survives a later version of its record.             *)
LEMMA WriteSays ==
  ASSUME NEW d, NEW o, NEW r, NEW d2, NEW o2, Sound(d, o), WriteTo(d, o, r, d2, o2),
         Mine(r, d, o), r.state # "sending"
  PROVE  /\ \A q : Mine(q, d, o) /\ SameIdentity(q, r) => Mine(q, d2, o2)
         /\ \A n : Enrols(n, d, o) /\ r.attempt = n /\ r.kind = "enrollment" =>
              Enrols(n, d2, o2)
         /\ Sealing(d) /\ r.state = "replacement" => Sealing(d2)
         /\ \A reply : Waiting(d, reply) /\ r.reply = reply => Waiting(d2, reply)
         /\ Heard(d) /\ r.reply # "none" => Heard(d2)
         /\ Shows(d2) => r.kind = "transfer"
         /\ Trace(r.attempt, d) => Trace(r.attempt, d2)
         /\ AllTrace(r.attempt, d, o) => AllTrace(r.attempt, d2, o2)
         /\ Opens(r.attempt, d, o) => Opens(r.attempt, d2, o2)
         /\ \A b : SafeIn(r.attempt, d, o, b) /\ r.reply # "none" =>
              SafeIn(r.attempt, d2, o2, b)
         /\ Keeps(r.attempt, d, o) /\ r.reply # "none" => Keeps(r.attempt, d2, o2)
<1> DEFINE n == r.attempt
<1>1. Written(d2, o2) \subseteq Written(d, o) \cup {r} /\ Recs(d2) \subseteq Recs(d) \cup {r}
  BY DEF WriteTo
<1>2. \A e \in {d2} \cup o2 :
        \/ e \in o \/ Bears(r, e) \/ Like(n, e, d)
        \/ Trace(n, e) /\ (Has(n, e) <=> Has(n, d)) /\ (Names(n, e) => Names(n, d))
  BY DEF WriteTo
<1>3. Like(n, d2, d) \/ (Bears(r, d2) /\ \A e \in o2 : Bears(r, e))
  BY DEF WriteTo
<1>4. \A q : Mine(q, d, o) /\ SameIdentity(q, r) => Mine(q, d2, o2)
  BY <1>1 DEF Mine
<1>5. \A m : Enrols(m, d, o) /\ r.attempt = m /\ r.kind = "enrollment" => Enrols(m, d2, o2)
  BY <1>1 DEF Enrols
<1>6. /\ Sealing(d) /\ r.state = "replacement" => Sealing(d2)
      /\ \A reply : Waiting(d, reply) /\ r.reply = reply => Waiting(d2, reply)
      /\ Heard(d) /\ r.reply # "none" => Heard(d2)
  BY <1>1 DEF Sealing, Waiting, Heard
<1>7. Shows(d2) => r.kind = "transfer"
  <2>1. \A f \in Recs(d) : f.kind = r.kind
    BY WrittenBy DEF Mine, SameIdentity
  <2>2. \A f \in d2.files : f.kind = r.kind
    BY <1>1, <2>1 DEF Recs
  <2>3. QED
    BY <2>2 DEF Shows
<1>8. Trace(n, d) => Trace(n, d2)
  BY <1>3 DEF Like, Bears
<1>9. \A e : Bears(r, e) => Trace(n, e) /\ (r.reply # "none" => Has(n, e))
  BY DEF Bears, Has
<1>10. ASSUME AllTrace(n, d, o) PROVE AllTrace(n, d2, o2)
  BY <1>2, <1>9, <1>10 DEF AllTrace, Like
<1>11. ASSUME Opens(n, d, o) PROVE Opens(n, d2, o2)
  <2>1. \A s \in Written(d2, o2) : s.attempt = n
    BY <1>1, <1>11 DEF Opens
  <2>2. ASSUME NEW e \in {d2} \cup o2, NEW s \in e.staged PROVE s.state # "sending"
    <3>1. s = r \/ \E c \in {d} \cup o : s \in c.staged
      BY DEF WriteTo
    <3>2. QED
      BY <3>1, <1>11 DEF Opens
  <2>3. ASSUME Trace(n, d2) PROVE AllTrace(n, d2, o2)
    <3>1. CASE Bears(r, d2) /\ \A e \in o2 : Bears(r, e)
      BY <3>1, <1>9 DEF AllTrace
    <3>2. CASE Like(n, d2, d)
      BY <2>3, <3>2, <1>10, <1>11 DEF Like, Opens
    <3>3. QED
      BY <3>1, <3>2, <1>3
  <2>4. QED
    BY <2>1, <2>2, <2>3 DEF Opens
<1>12. ASSUME NEW b, SafeIn(n, d, o, b), r.reply # "none" PROVE SafeIn(n, d2, o2, b)
  <2>1. ASSUME NEW e \in {d2} \cup o2 PROVE Has(n, e) \/ (b /\ ~Names(n, e))
    <3>1. CASE e \in o
      BY <3>1, <1>12 DEF SafeIn
    <3>2. CASE Bears(r, e)
      BY <3>2, <1>9, <1>12
    <3>3. CASE (Has(n, e) <=> Has(n, d)) /\ (Names(n, e) => Names(n, d))
      BY <3>3, <1>12 DEF SafeIn
    <3>4. QED
      BY <1>2, <3>1, <3>2, <3>3 DEF Like
  <2>2. QED
    BY <2>1 DEF SafeIn
<1>13. ASSUME Keeps(n, d, o), r.reply # "none" PROVE Keeps(n, d2, o2)
  <2>1. CASE Bears(r, d2) /\ \A e \in o2 : Bears(r, e)
    BY <2>1, <1>9, <1>13 DEF Keeps
  <2>2. CASE Like(n, d2, d)
    <3>1. SUFFICES ASSUME Has(n, d2), NEW e \in o2 PROVE Has(n, e)
      BY DEF Keeps
    <3>2. Has(n, d) /\ \A c \in o : Has(n, c)
      BY <2>2, <3>1, <1>13 DEF Keeps, Like
    <3>3. QED
      BY <3>2, <1>2, <1>9, <1>13 DEF Like
  <2>3. QED
    BY <2>1, <2>2, <1>3
<1>14. QED
  BY <1>4, <1>5, <1>6, <1>7, <1>8, <1>10, <1>11, <1>12, <1>13

(* A version of its record that a service may write: it is the record the  *)
(* service goes by, and gives up nothing that is held for it.              *)
MayWrite(r, d, o) ==
  /\ Fit(r) /\ r.state # "sending" /\ Mine(r, d, o) /\ open \subseteq {r.attempt}
  /\ wf # None => SameIdentity(wf, r)
  /\ r.kind = "transfer" => wf # None
  /\ erec # None => SameIdentity(erec, r)
  /\ enrollOwed # None => SameIdentity(enrollOwed, r)
  /\ staged # None => /\ staged.attempt = r.attempt /\ r.kind = "enrollment"
                      /\ r.reply # "none"
  /\ owed # None /\ owed.state = "replacement" => r.state = "replacement"
  /\ unsaved \/ Sealed => r.reply = "usable"
  /\ badHeld => r.reply = "unusable"
  /\ r.reply # "none" \/ received = {}

LEMMA WriteKeeps ==
  ASSUME NEW d, NEW o, NEW r, NEW d2, NEW o2, Types, Core(d, o), MayWrite(r, d, o),
         WriteTo(d, o, r, d2, o2)
  PROVE  /\ Sound(d2, o2) /\ Transfers(d2, o2) /\ Enrolments(d2, o2) /\ Opened(d2, o2)
         /\ RepliesKept(d2, o2) /\ Written(d2, o2) \subseteq Written(d, o) \cup {r}
         /\ Known(r) => Core(d2, o2)
<1>1. Sound(d, o) /\ Sound(d2, o2) /\ Mine(r, d, o) /\ r.state # "sending"
  BY DEF Core, WriteTo, MayWrite
<1>2. /\ \A q : Mine(q, d, o) /\ SameIdentity(q, r) => Mine(q, d2, o2)
      /\ \A n : Enrols(n, d, o) /\ r.attempt = n /\ r.kind = "enrollment" =>
           Enrols(n, d2, o2)
      /\ Sealing(d) /\ r.state = "replacement" => Sealing(d2)
      /\ \A reply : Waiting(d, reply) /\ r.reply = reply => Waiting(d2, reply)
      /\ Heard(d) /\ r.reply # "none" => Heard(d2)
      /\ Shows(d2) => r.kind = "transfer"
      /\ Trace(r.attempt, d) => Trace(r.attempt, d2)
      /\ AllTrace(r.attempt, d, o) => AllTrace(r.attempt, d2, o2)
      /\ Opens(r.attempt, d, o) => Opens(r.attempt, d2, o2)
      /\ \A b : SafeIn(r.attempt, d, o, b) /\ r.reply # "none" =>
           SafeIn(r.attempt, d2, o2, b)
      /\ Keeps(r.attempt, d, o) /\ r.reply # "none" => Keeps(r.attempt, d2, o2)
  BY <1>1, WriteSays
<1>3. Transfers(d2, o2)
  <2>1. Transfers(d, o)
    BY DEF Core
  <2>2. QED
    BY <1>2, <2>1 DEF Transfers, MayWrite, SameIdentity
<1>4. Enrolments(d2, o2)
  <2>1. Enrolments(d, o)
    BY DEF Core
  <2>2. QED
    BY <1>2, <2>1 DEF Enrolments, OfEnrolment, MayWrite, SameIdentity
<1>5. Opened(d2, o2)
  <2>1. Opened(d, o)
    BY DEF Core
  <2>2. \A n \in open : n = r.attempt
    BY DEF MayWrite
  <2>3. QED
    BY <1>2, <2>1, <2>2 DEF Opened, MayWrite
<1>6. RepliesKept(d2, o2)
  <2>1. RepliesKept(d, o)
    BY DEF Core
  <2>2. \A n \in received : n = r.attempt /\ r.reply # "none"
    BY DEF MayWrite, Types
  <2>3. QED
    BY <1>2, <2>1, <2>2 DEF RepliesKept
<1>7. Written(d2, o2) \subseteq Written(d, o) \cup {r}
  BY DEF WriteTo
<1>8. Known(r) => World(d2, o2)
  <2>1. World(d, o)
    BY DEF Core
  <2>2. QED
    BY <1>7, <2>1 DEF World
<1>9. QED
  BY <1>1, <1>3, <1>4, <1>5, <1>6, <1>7, <1>8 DEF Core

(* What removing a record may make of a directory that holds it alone.     *)
ClearTo(d, o, d2, o2) ==
  /\ Sound(d2, o2) /\ Written(d2, o2) \subseteq Written(d, o) /\ Recs(d2) \subseteq Recs(d)
  /\ (d2 = d /\ o2 = o) \/ (Blank(d2) /\ \A e \in o2 : e = d \/ e \in o)

LEMMA Clearing ==
  ASSUME NEW r, Sound(dir, older), Read(r, dir), NEW x \in Clears(r)
  PROVE  /\ ClearTo(dir, older, x.dir, x.older) /\ x.debt = FALSE /\ x.ok \in BOOLEAN
         /\ x.ok => Blank(x.dir) /\ x.older = {}
         /\ Read(r, x.dir)
<1> DEFINE w == Without(dir, r)
<1>1. PICK y \in Reconciling(dir, older) :
        x \in IF y.ok THEN Removing(y.dir, y.older, r) ELSE {y}
  BY DEF Clears, Then
<1>2. /\ dir.staged = {} /\ dir.files \subseteq {r} /\ ~dir.torn /\ dir \in Directory
      /\ dir.torn = FALSE
  BY DEF Read, Sound, Single, Directory
<1>3. y = Works(dir, older) \/ y = Fails(dir, older)
  BY <1>2 DEF Reconciling
<1>4. w = [files |-> {}, staged |-> {}, torn |-> FALSE]
  <2>1. dir.files \ FinalsOf(dir, r) = {}
    BY <1>2 DEF FinalsOf
  <2>2. w = [dir EXCEPT !.files = dir.files \ FinalsOf(dir, r)]
    BY <1>2 DEF Without, Directory
  <2>3. w = [dir EXCEPT !.files = {}]
    BY <2>1, <2>2
  <2>4. QED
    BY <1>2, <2>3 DEF Directory
<1>5. \/ x = Fails(dir, older) \/ x = Works(w, {}) \/ x = Unflushed(dir, w, older)
  BY <1>1, <1>3 DEF Removing, Works, Fails
<1>6. Blank(w) /\ Recs(w) = {} /\ Single(w) /\ Read(r, w)
  BY <1>4 DEF Blank, Recs, Single, Directory, Read
<1>7. ASSUME NEW o2, \A e \in o2 : e = dir \/ e \in older
      PROVE  ClearTo(dir, older, w, o2)
  <2>1. Written(w, o2) \subseteq Written(dir, older)
    <3>1. \A e \in {w} \cup o2 : \A s \in Recs(e) : e \in {dir} \cup older
      BY <1>6, <1>7
    <3>2. QED
      BY <3>1, WrittenBy
  <2>2. \A e \in {w} \cup o2 : Single(e)
    BY <1>6, <1>7 DEF Sound
  <2>3. Sound(w, o2)
    BY <1>6, <2>1, <2>2 DEF Sound
  <2>4. QED
    BY <1>6, <1>7, <2>1, <2>3 DEF ClearTo
<1>8. CASE x = Fails(dir, older)
  <2>1. x.dir = dir /\ x.older = older /\ x.ok = FALSE /\ x.debt = FALSE
    BY <1>8 DEF Fails
  <2>2. QED
    BY <2>1 DEF ClearTo
<1>9. CASE x = Works(w, {})
  <2>1. x.dir = w /\ x.older = {} /\ x.ok = TRUE /\ x.debt = FALSE
    BY <1>9 DEF Works
  <2>2. QED
    BY <2>1, <1>6, <1>7
<1>10. CASE x = Unflushed(dir, w, older)
  <2>1. x.dir = w /\ x.older = older \cup {dir} /\ x.ok = FALSE /\ x.debt = FALSE
    BY <1>10 DEF Unflushed, Fails
  <2>2. ClearTo(dir, older, w, older \cup {dir})
    BY <1>7
  <2>3. QED
    BY <2>1, <2>2, <1>6
<1>11. QED
  BY <1>5, <1>8, <1>9, <1>10

LEMMA ClearKeeps ==
  ASSUME NEW d, NEW o, NEW d2, NEW o2, Types, Core(d, o), ClearTo(d, o, d2, o2),
         \A n \in open : RowIs(n),
         (At({"clear"}) /\ wf # None) \/ (At({"erase"}) /\ wf = None)
  PROVE  Core(d2, o2)
<1>1. /\ Written(d2, o2) \subseteq Written(d, o) /\ Recs(d2) \subseteq Recs(d)
      /\ (d2 = d /\ o2 = o) \/ (Blank(d2) /\ \A e \in o2 : e = d \/ e \in o)
  BY DEF ClearTo
<1>2. /\ \A q : Mine(q, d, o) => Mine(q, d2, o2)
      /\ \A n : Enrols(n, d, o) => Enrols(n, d2, o2)
      /\ Sealing(d) => Sealing(d2)
      /\ \A reply : Waiting(d, reply) => Waiting(d2, reply)
      /\ Heard(d) => Heard(d2)
      /\ Shows(d2) => Shows(d)
  BY <1>1 DEF Mine, Enrols, Sealing, Waiting, Heard, Shows, Blank
<1>3. CASE d2 = d /\ o2 = o
  BY <1>3
<1>4. CASE Blank(d2) /\ \A e \in o2 : e = d \/ e \in o
  <2>1. \A n : ~Trace(n, d2) /\ ~Has(n, d2) /\ ~Names(n, d2)
    BY <1>4 DEF Blank, Trace, Has, Names, Recs
  <2>2. \A n : Opens(n, d, o) => Opens(n, d2, o2)
    <3>1. \A e \in {d2} \cup o2 : \A s \in e.staged : e \in {d} \cup o
      BY <1>4 DEF Blank
    <3>2. QED
      BY <1>1, <2>1, <3>1 DEF Opens
  <2>3. \A n : SafeIn(n, d, o, TRUE) => SafeIn(n, d2, o2, TRUE)
    BY <1>4, <2>1 DEF SafeIn
  <2>4. \A n : Keeps(n, d2, o2)
    BY <2>1 DEF Keeps
  <2>5. Transfers(d2, o2)
    <3>1. Transfers(d, o)
      BY DEF Core
    <3>2. QED
      BY <1>2, <3>1 DEF Transfers, At
  <2>6. Enrolments(d2, o2)
    <3>1. Enrolments(d, o) /\ Transfers(d, o)
      BY DEF Core
    <3>2. wf = None => At({"erase", "own"})
      BY DEF At
    <3>3. QED
      BY <1>2, <3>1, <3>2 DEF Enrolments, OfEnrolment, Transfers
  <2>7. Opened(d2, o2)
    <3>1. Opened(d, o)
      BY DEF Core
    <3>2. wf # None \/ At({"erase", "own", "load"})
      BY DEF At
    <3>3. QED
      BY <1>2, <2>2, <3>1, <3>2 DEF Opened
  <2>8. RepliesKept(d2, o2)
    <3>1. RepliesKept(d, o) /\ received \subseteq open
      BY DEF Core, Types
    <3>2. \A n \in received : SafeIn(n, d, o, TRUE)
      BY <3>1 DEF RepliesKept, RowIs, Rows
    <3>3. \A n \in received : SafeIn(n, d2, o2, RowIs(n))
      BY <2>3, <3>1, <3>2 DEF RowIs, Rows
    <3>4. QED
      BY <2>4, <3>3 DEF RepliesKept
  <2>9. World(d2, o2)
    <3>1. World(d, o)
      BY DEF Core
    <3>2. QED
      BY <1>1, <3>1 DEF World
  <2>10. QED
    BY <2>5, <2>6, <2>7, <2>8, <2>9 DEF Core, ClearTo
<1>5. QED
  BY <1>1, <1>3, <1>4

(* Publishing a note in an empty directory.                                *)
LEMMA Publishes ==
  ASSUME NEW d, NEW o, NEW r, Sound(d, o), Blank(d), Fit(r), r.state = "sending",
         r.reply = "none", ~ReadBackFails, NEW x \in Publishing(d, o, r)
  PROVE  /\ Sound(x.dir, x.older) /\ Written(x.dir, x.older) \subseteq Written(d, o) \cup {r}
         /\ x.ok \in BOOLEAN /\ x.debt \in BOOLEAN
         /\ x.ok => ~x.debt /\ Fresh(r, x.dir, x.older)
         /\ ~x.ok /\ ~x.debt => x.dir = d
<1> DEFINE p == Put(d, r)
           st == Stage(p, r)
<1>1. Single(d) /\ d.files = {} /\ d.staged = {} /\ ~d.torn /\ Recs(d) = {}
  BY DEF Sound, Blank, Recs
<1>2. /\ p = [files |-> {r}, staged |-> {}, torn |-> FALSE]
      /\ Stage(d, r) = [files |-> {}, staged |-> {r}, torn |-> FALSE]
      /\ Torn(d) = [files |-> {}, staged |-> {}, torn |-> TRUE]
      /\ Single(p) /\ Single(Stage(d, r)) /\ Single(Torn(d))
  BY <1>1, PutSound
<1>3. Follows(r, r)
  BY DEF Follows, SameIdentity
<1>4. /\ st = [files |-> {r}, staged |-> {r}, torn |-> FALSE] /\ Single(st)
  <2>1. ~p.torn /\ p.staged = {} /\ \A f \in p.files : Follows(f, r)
    BY <1>2, <1>3
  <2>2. st = [files |-> p.files, staged |-> {r}, torn |-> FALSE] /\ Single(st)
    BY <1>2, <2>1, PutSound
  <2>3. QED
    BY <1>2, <2>2
<1>5. /\ Recs(p) = {r} /\ Recs(Stage(d, r)) = {r} /\ Recs(Torn(d)) = {} /\ Recs(st) = {r}
      /\ Fresh(r, p, {})
  BY <1>2, <1>4 DEF Recs, Fresh
<1>6. ASSUME NEW d2, NEW o2,
             d2 = d \/ (d2 = p /\ o2 \subseteq {st}),
             \A e \in o2 : e \in o \/ e \in {p, st, Stage(d, r), Torn(d)}
      PROVE  Sound(d2, o2) /\ Written(d2, o2) \subseteq Written(d, o) \cup {r}
  <2>1. \A e \in {d2} \cup o2 : Single(e)
    BY <1>1, <1>2, <1>4, <1>6 DEF Sound
  <2>2. \A e \in {d2} \cup o2 : \A s \in Recs(e) : s \in Written(d, o) \/ s = r
    BY <1>5, <1>6, WrittenBy
  <2>3. Written(d2, o2) \subseteq Written(d, o) \cup {r}
    BY <2>2, WrittenBy
  <2>4. \A s \in Written(d2, o2) : Fit(s)
    BY <2>3 DEF Sound
  <2>5. \A s \in Recs(d2), t \in Written(d2, o2) : SameIdentity(s, t)
    <3>1. CASE d2 = d
      BY <3>1, <1>1
    <3>2. CASE d2 = p /\ o2 \subseteq {st}
      <4>1. \A t \in Written(d2, o2) : t = r
        BY <3>2, <1>5, WrittenBy
      <4>2. QED
        BY <3>2, <4>1, <1>5 DEF SameIdentity
    <3>3. QED
      BY <1>6, <3>1, <3>2
  <2>6. QED
    BY <2>1, <2>3, <2>4, <2>5 DEF Sound
<1>7. CASE x = Works(p, {})
  <2>1. x.dir = p /\ x.older = {} /\ x.ok = TRUE /\ x.debt = FALSE
    BY <1>7 DEF Works
  <2>2. QED
    BY <2>1, <1>5, <1>6
<1>8. CASE x = NotStaged(d, o, r) \/ x = Fails(d, {})
  <2>1. /\ x.dir = d /\ x.older \in {o \cup {Stage(d, r), Torn(d)}, {}}
        /\ x.ok = FALSE /\ x.debt = FALSE
    BY <1>8 DEF NotStaged, Fails
  <2>2. Sound(x.dir, x.older) /\ Written(x.dir, x.older) \subseteq Written(d, o) \cup {r}
    BY <2>1, <1>6
  <2>3. QED
    BY <2>1, <2>2
<1>9. CASE x = Owes(p, {st})
  <2>1. x.dir = p /\ x.older = {st} /\ x.ok = FALSE /\ x.debt = TRUE
    BY <1>9 DEF Owes
  <2>2. Sound(x.dir, x.older) /\ Written(x.dir, x.older) \subseteq Written(d, o) \cup {r}
    BY <2>1, <1>6
  <2>3. QED
    BY <2>1, <2>2
<1>10. CASE x = Owes(d, {p, Torn(d)})
  <2>1. x.dir = d /\ x.older = {p, Torn(d)} /\ x.ok = FALSE /\ x.debt = TRUE
    BY <1>10 DEF Owes
  <2>2. Sound(x.dir, x.older) /\ Written(x.dir, x.older) \subseteq Written(d, o) \cup {r}
    BY <2>1, <1>6
  <2>3. QED
    BY <2>1, <2>2
<1>11. QED
  BY <1>7, <1>8, <1>9, <1>10 DEF Publishing

-----------------------------------------------------------------------------
(* The same for an outcome that happens.                                   *)
MoreFaults == faults' \in 0..MaxFaults

LEMMA Counted ==
  ASSUME Types, NEW x, Happens(x), x.ok \in BOOLEAN
  PROVE  MoreFaults
<1>1. faults \in 0..MaxFaults /\ MaxFaults \in Nat
  BY JournalAssumption DEF Types
<1>2. faults' = faults \/ (faults < MaxFaults /\ faults' = faults + 1)
  BY DEF Happens
<1>3. QED
  BY <1>1, <1>2 DEF MoreFaults

LEMMA ReadHappens ==
  ASSUME IInv, NEW x \in Reads, Happens(x)
  PROVE  /\ Inv(dir', older') /\ debt' = debt /\ MoreFaults
         /\ x.ok \in BOOLEAN /\ x.dir = dir'
         /\ x.ok => /\ ~debt /\ Reconcilable(dir) /\ dir' = Merged(dir)
                    /\ dir'.staged = {} /\ ~dir'.torn
<1>1. Inv(dir, older) /\ Sound(dir, older) /\ Types
  BY DEF IInv, Inv, Core
<1>2. dir' = x.dir /\ older' = x.older \ {x.dir} /\ debt' = (debt \/ x.debt)
  BY DEF Happens
<1>3. debt \in BOOLEAN
  BY <1>1 DEF Types
<1>4. CASE debt
  <2>1. x = Fails(dir, older)
    BY <1>4 DEF Reads
  <2>2. x.dir = dir /\ x.older = older /\ x.ok = FALSE /\ x.debt = FALSE
    BY <2>1 DEF Fails
  <2>3. ReadTo(dir, older, dir, older)
    BY <1>1, ReadNothing
  <2>4. ReadTo(dir, older, dir', older')
    BY <1>2, <2>2, <2>3, ReadLess
  <2>5. Inv(dir', older')
    BY <1>1, <2>4, ReadKeeps
  <2>6. MoreFaults
    BY <1>1, <2>2, Counted
  <2>7. QED
    BY <1>2, <1>3, <2>2, <2>5, <2>6
<1>5. CASE ~debt
  <2>1. x \in Reconciling(dir, older)
    BY <1>5 DEF Reads
  <2>2. /\ ReadTo(dir, older, x.dir, x.older) /\ x.debt = FALSE
        /\ x.ok => /\ Reconcilable(dir) /\ x.dir = Merged(dir) /\ x.dir.staged = {} /\ ~x.dir.torn
                   /\ x.older \subseteq older
        /\ x.ok \in BOOLEAN
    BY Zenon, <1>1, <2>1, Reading
  <2>3. ReadTo(dir, older, dir', older')
    BY <1>2, <2>2, ReadLess
  <2>4. Inv(dir', older')
    BY <1>1, <2>3, ReadKeeps
  <2>5. MoreFaults
    BY <1>1, <2>2, Counted
  <2>6. QED
    BY <1>2, <1>3, <1>5, <2>2, <2>4, <2>5
<1>6. QED
  BY <1>3, <1>4, <1>5

LEMMA ReadsWellKeeps ==
  ASSUME IInv, ReadsWell
  PROVE  /\ Inv(dir', older') /\ ~debt /\ Reconcilable(dir) /\ dir' = Merged(dir)
         /\ dir'.staged = {} /\ ~dir'.torn /\ UNCHANGED <<debt, faults>>
<1>1. Inv(dir, older) /\ Sound(dir, older) /\ Single(dir) /\ \A r \in Recs(dir) : Fit(r)
  BY WrittenBy DEF IInv, Inv, Core, Sound
<1>2. ~debt /\ Reconcilable(dir) /\ dir' = Merged(dir) /\ UNCHANGED <<debt, faults>>
  BY Zenon DEF ReadsWell
<1>3. Merged(dir).staged = {} /\ ~Merged(dir).torn
  BY <1>1, <1>2, MergedSound
<1>4. \A e \in older' : e = dir \/ e \in older
  BY DEF ReadsWell
<1>5. dir.staged = {} => older' \subseteq older
  BY DEF ReadsWell
<1>6. ReadTo(dir, older, Merged(dir), older')
  BY <1>1, <1>2, <1>4, <1>5, MergeReads
<1>7. QED
  BY <1>1, <1>2, <1>3, <1>6, ReadKeeps

LEMMA WriteLess ==
  ASSUME NEW d, NEW o, NEW r, NEW d2, NEW o2, NEW o3, WriteTo(d, o, r, d2, o2),
         o3 \subseteq o2
  PROVE  WriteTo(d, o, r, d2, o3)
<1>1. Sound(d2, o3) /\ Written(d2, o3) \subseteq Written(d2, o2)
  BY LessSound DEF WriteTo
<1>2. \A e \in {d2} \cup o3 : e \in {d2} \cup o2
  OBVIOUS
<1>3. QED
  BY <1>1, <1>2 DEF WriteTo

LEMMA WriteHappens ==
  ASSUME IInv, NEW r, MayWrite(r, dir, older),
         Reconcilable(dir) => \A f \in Merged(dir).files : Follows(f, r),
         NEW x \in Updates(r), Happens(x)
  PROVE  /\ Known(r) => Core(dir', older')
         /\ Sound(dir', older') /\ Transfers(dir', older') /\ Enrolments(dir', older')
         /\ Opened(dir', older') /\ RepliesKept(dir', older')
         /\ Written(dir', older') \subseteq Written(dir, older) \cup {r}
         /\ debt' = debt /\ MoreFaults /\ x.ok \in BOOLEAN
         /\ x.ok => dir' = [files |-> {r}, staged |-> {}, torn |-> FALSE] /\ older' = {}
         /\ \A reply : Waiting(dir, reply) /\ r.reply = reply => Waiting(dir', reply)
         /\ Keeps(r.attempt, dir, older) /\ r.reply # "none" => Keeps(r.attempt, dir', older')
         /\ Heard(dir) /\ r.reply # "none" => Heard(dir')
<1>1. Types /\ Core(dir, older) /\ Sound(dir, older)
  BY DEF IInv, Inv, Core
<1>2. dir' = x.dir /\ older' = x.older \ {x.dir} /\ debt' = (debt \/ x.debt)
  BY DEF Happens
<1>3. Fit(r) /\ r.state # "sending" /\ Mine(r, dir, older)
  BY DEF MayWrite
<1>4. /\ WriteTo(dir, older, r, x.dir, x.older) /\ x.debt = FALSE /\ x.ok \in BOOLEAN
      /\ x.ok => x.dir = [files |-> {r}, staged |-> {}, torn |-> FALSE] /\ x.older = {}
  BY <1>1, <1>3, JournalAssumption, Updating
<1>5. WriteTo(dir, older, r, dir', older')
  BY <1>2, <1>4, WriteLess
<1>6. /\ Sound(dir', older') /\ Transfers(dir', older') /\ Enrolments(dir', older')
      /\ Opened(dir', older') /\ RepliesKept(dir', older')
      /\ Written(dir', older') \subseteq Written(dir, older) \cup {r}
      /\ Known(r) => Core(dir', older')
  BY <1>1, <1>5, WriteKeeps
<1>7. MoreFaults
  BY <1>1, <1>4, Counted
<1>8. debt' = debt
  BY <1>1, <1>2, <1>4 DEF Types
<1>9. /\ \A reply : Waiting(dir, reply) /\ r.reply = reply => Waiting(dir', reply)
      /\ Keeps(r.attempt, dir, older) /\ r.reply # "none" => Keeps(r.attempt, dir', older')
      /\ Heard(dir) /\ r.reply # "none" => Heard(dir')
  BY <1>1, <1>3, <1>5, WriteSays
<1>10. QED
  BY <1>2, <1>4, <1>6, <1>7, <1>8, <1>9

LEMMA ClearHappens ==
  ASSUME IInv, NEW r, Read(r, dir), NEW x \in Clears(r), Happens(x),
         \A n \in open : RowIs(n),
         (At({"clear"}) /\ wf # None) \/ (At({"erase"}) /\ wf = None)
  PROVE  /\ Core(dir', older') /\ debt' = debt /\ MoreFaults /\ x.ok \in BOOLEAN
         /\ x.ok => Blank(dir')
         /\ Read(r, dir')
<1>1. Types /\ Core(dir, older) /\ Sound(dir, older)
  BY DEF IInv, Inv, Core
<1>2. dir' = x.dir /\ older' = x.older \ {x.dir} /\ debt' = (debt \/ x.debt)
  BY DEF Happens
<1>3. /\ ClearTo(dir, older, x.dir, x.older) /\ x.debt = FALSE /\ x.ok \in BOOLEAN
      /\ x.ok => Blank(x.dir) /\ x.older = {}
      /\ Read(r, x.dir)
  BY <1>1, Clearing
<1>4. Core(dir', older')
  <2>1. CASE Blank(x.dir) /\ \A e \in x.older : e = dir \/ e \in older
    <3>1. Sound(dir', older') /\ Written(dir', older') \subseteq Written(x.dir, x.older)
      BY <1>2, <1>3, LessSound DEF ClearTo
    <3>2. ClearTo(dir, older, dir', older')
      BY <2>1, <3>1, <1>2, <1>3 DEF ClearTo
    <3>3. QED
      BY <1>1, <3>2, ClearKeeps
  <2>2. CASE x.dir = dir /\ x.older = older
    <3>1. ReadTo(dir, older, dir', older')
      BY <1>1, <1>2, <2>2, ReadNothing, ReadLess
    <3>2. QED
      BY <3>1, ReadKeeps DEF IInv, Inv
  <2>3. QED
    BY <1>3, <2>1, <2>2 DEF ClearTo
<1>5. MoreFaults
  BY <1>1, <1>3, Counted
<1>6. debt' = debt
  BY <1>1, <1>2, <1>3 DEF Types
<1>7. QED
  BY <1>2, <1>3, <1>4, <1>5, <1>6

-----------------------------------------------------------------------------
(* Steps of the services.                                                  *)

(* Where a run is.                                                         *)
LEMMA JobIs ==
  ASSUME Types
  PROVE  /\ None \notin Job
         /\ job # None => job \in Job
         /\ \A s : Step(s) <=> job # None /\ job.step = s
BY NoneAssumption DEF Types, Step

LEMMA GoneTo ==
  ASSUME Types, NEW s, job # None, Goto(s),
         s \in {"promote", "inspect", "write", "backup", "publish", "clear", "owe", "deny",
                "mark", "look", "store", "copy", "announce", "erase", "own", "disclaim"}
  PROVE  /\ GoesOn(s)
<1>1. job \in Job /\ job' = [job EXCEPT !.step = s]
  BY JobIs DEF Goto
<1>2. /\ job' \in Job /\ job'.step = s
      /\ job'.by = job.by /\ job'.passphrase = job.passphrase
      /\ job'.resolution = job.resolution
  BY <1>1 DEF Job
<1>3. QED
  BY <1>2, JobIs

LEMMA Started ==
  ASSUME Types, NEW s, NEW by, NEW passphrase, NEW resolution,
         [step |-> s, by |-> by, passphrase |-> passphrase, resolution |-> resolution] \in Job,
         Start(s, by, passphrase, resolution)
  PROVE  /\ job' # None /\ job' \in Job /\ job'.step = s /\ job'.by = by
         /\ job'.passphrase = passphrase /\ job'.resolution = resolution
<1>1. job' = [step |-> s, by |-> by, passphrase |-> passphrase, resolution |-> resolution]
  BY DEF Start
<1>2. QED
  BY <1>1, JobIs

remembered == <<wf, problem, owed, phase, recovering, proving, resolving, unsaved, badHeld,
                job, erec, staged, enrollOwed, enrollHolds>>

(* A step that touches only the sign-ins or the lock.                      *)
LEMMA Quiet ==
  ASSUME Inv(dir', older'), Types', Idle, UNCHANGED <<remembered, outside, debt>>,
         (login' = "asked") <=> (login = "asked"),
         problem => pending' = "none" /\ auth' = "no"
  PROVE  IInv'
<1>1. Transfers(dir, older)'
  <2>1. Transfers(dir', older')
    BY DEF Inv, Core
  <2>2. QED
    BY <2>1 DEF Transfers, remembered, outside, At, Holding, Sealed, Idle
<1>2. Enrolments(dir, older)'
  <2>1. Enrolments(dir', older')
    BY DEF Inv, Core
  <2>2. QED
    BY <2>1 DEF Enrolments, OfEnrolment, remembered, outside, At, Idle
<1>3. Opened(dir, older)'
  <2>1. Opened(dir', older')
    BY DEF Inv, Core
  <2>2. QED
    BY <2>1 DEF Opened, remembered, outside, At, Idle, RowIs, Rows
<1>4. RepliesKept(dir, older)'
  <2>1. RepliesKept(dir', older')
    BY DEF Inv, Core
  <2>2. QED
    BY <2>1 DEF RepliesKept, remembered, outside, Held, Holding, Sealed, RowIs, Rows
<1>5. World(dir, older)'
  <2>1. World(dir', older')
    BY DEF Inv, Core
  <2>2. QED
    BY <2>1 DEF World, Known, Superseded, RowKnown, remembered, outside
<1>6. Phases(dir, older)'
  <2>1. Phases(dir', older')
    BY DEF Inv
  <2>2. QED
    BY <2>1 DEF Phases, Awaits, remembered, outside, At, Idle, Holding, RowIs, Rows
<1>7. AtStep(dir)' /\ EnrollAtStep(dir)'
  <2>1. AtStep(dir') /\ EnrollAtStep(dir')
    BY DEF Inv
  <2>2. QED
    BY <2>1 DEF AtStep, EnrollAtStep, remembered, outside, At, Idle, Holding, RowIs, Rows,
       Truth
<1>8. Sound(dir, older)'
  BY DEF Inv, Core
<1>9. QED
  BY <1>1, <1>2, <1>3, <1>4, <1>5, <1>6, <1>7, <1>8 DEF IInv, Inv, Core

LEMMA TypesHold ==
  ASSUME IInv
  PROVE  Types
BY DEF IInv, Inv

LEMMA AuthenticateBeginKeeps ==
  ASSUME IInv, AuthenticateBegin, UNCHANGED enrollment
  PROVE  IInv'
<1>1. Inv(dir', older') /\ Idle /\ UNCHANGED <<debt, faults>>
  BY ReadsWellKeeps DEF AuthenticateBegin
<1>2. Types'
  BY <1>1, TypesHold DEF Types, TransferTypeOK, EnrollTypeOK, AuthenticateBegin
<1>3. QED
  BY <1>1, <1>2, Quiet DEF AuthenticateBegin, remembered, outside

LEMMA Untouched ==
  ASSUME IInv, UNCHANGED journalVars
  PROVE  Inv(dir', older') /\ UNCHANGED <<debt, faults>>
BY DEF IInv, journalVars

LEMMA ChallengeBeginKeeps ==
  ASSUME IInv, ChallengeBegin, UNCHANGED enrollment
  PROVE  IInv'
<1>1. Inv(dir', older') /\ Idle /\ UNCHANGED <<debt, faults>>
  BY ReadsWellKeeps DEF ChallengeBegin
<1>2. Types'
  BY <1>1, TypesHold DEF Types, TransferTypeOK, EnrollTypeOK, ChallengeBegin
<1>3. problem => pending = "none" /\ auth = "no"
  BY DEF IInv, Inv, Phases
<1>4. QED
  BY <1>1, <1>2, <1>3, Quiet DEF ChallengeBegin, remembered, outside

LEMMA ChallengeEndKeeps ==
  ASSUME IInv, ChallengeEnd, UNCHANGED enrollment
  PROVE  IInv'
<1>1. Inv(dir', older') /\ Idle /\ UNCHANGED <<debt, faults>>
  BY Untouched DEF ChallengeEnd
<1>2. Types'
  <2>0. challenging' \in BOOLEAN
    BY DEF ChallengeEnd
  <2>1. TransferTypeOK'
    BY <2>0, TypesHold DEF Types, TransferTypeOK, ChallengeEnd
  <2>2. EnrollTypeOK'
    BY TypesHold DEF Types, EnrollTypeOK, ChallengeEnd
  <2>3. QED
    BY <1>1, <2>1, <2>2, TypesHold DEF Types, ChallengeEnd
<1>3. problem => pending = "none" /\ auth = "no"
  BY DEF IInv, Inv, Phases
<1>4. QED
  BY <1>1, <1>2, <1>3, Quiet DEF ChallengeEnd, remembered, outside

LEMMA ExpireKeeps ==
  ASSUME IInv, Expire, UNCHANGED enrollment
  PROVE  IInv'
<1>1. Inv(dir', older') /\ Idle /\ UNCHANGED <<debt, faults>>
  BY Untouched DEF Expire
<1>2. Types'
  BY <1>1, TypesHold DEF Types, TransferTypeOK, EnrollTypeOK, Expire
<1>3. problem => pending = "none" /\ auth = "no"
  BY DEF IInv, Inv, Phases
<1>4. QED
  BY <1>1, <1>2, <1>3, Quiet DEF Expire, remembered, outside

LEMMA CancelKeeps ==
  ASSUME IInv, Cancel, UNCHANGED enrollment
  PROVE  IInv'
<1>1. Inv(dir', older') /\ Idle /\ UNCHANGED <<debt, faults>>
  BY Untouched DEF Cancel
<1>2. Types'
  BY <1>1, TypesHold DEF Types, TransferTypeOK, EnrollTypeOK, Cancel
<1>3. problem => pending = "none" /\ auth = "no"
  BY DEF IInv, Inv, Phases
<1>4. QED
  BY <1>1, <1>2, <1>3, Quiet DEF Cancel, remembered, outside

LEMMA AuthenticateEndKeeps ==
  ASSUME IInv, AuthenticateEnd, UNCHANGED enrollment
  PROVE  IInv'
<1>1. Inv(dir', older') /\ Idle /\ UNCHANGED <<debt, faults>>
  BY ReadsWellKeeps, Untouched DEF AuthenticateEnd, journalVars
<1>2. Types'
  BY <1>1, TypesHold DEF Types, TransferTypeOK, EnrollTypeOK, AuthenticateEnd
<1>3. problem => pending = "none" /\ auth = "no"
  BY DEF IInv, Inv, Phases
<1>4. QED
  BY <1>1, <1>2, <1>3, Quiet DEF AuthenticateEnd, remembered, outside

LEMMA EnrollBeginKeeps ==
  ASSUME IInv, EnrollBegin
  PROVE  IInv'
<1>1. Inv(dir', older') /\ Idle /\ UNCHANGED <<debt, faults>>
  BY ReadsWellKeeps DEF EnrollBegin, SignIn, Busy
<1>2. Types'
  <2>1. TransferTypeOK'
    BY TypesHold DEF Types, TransferTypeOK, EnrollBegin, SignIn, Busy
  <2>2. EnrollTypeOK'
    BY TypesHold DEF Types, EnrollTypeOK, EnrollBegin, SignIn, Busy
  <2>3. QED
    BY <1>1, <2>1, <2>2, TypesHold DEF Types, EnrollBegin, SignIn, Busy
<1>3. problem => pending = "none" /\ auth = "no"
  BY DEF IInv, Inv, Phases
<1>4. QED
  BY <1>1, <1>2, <1>3, Quiet DEF EnrollBegin, SignIn, Busy, remembered, outside

LEMMA EnrollAsksCodeKeeps ==
  ASSUME IInv, EnrollAsksCode
  PROVE  IInv'
<1>1. Inv(dir', older') /\ Idle /\ UNCHANGED <<debt, faults>>
  BY Untouched DEF EnrollAsksCode, SignIn
<1>2. Types'
  BY <1>1, TypesHold DEF Types, TransferTypeOK, EnrollTypeOK, EnrollAsksCode, SignIn
<1>3. problem => pending = "none" /\ auth = "no"
  BY DEF IInv, Inv, Phases
<1>4. QED
  BY <1>1, <1>2, <1>3, Quiet DEF EnrollAsksCode, SignIn, remembered, outside

LEMMA EnrollCodeKeeps ==
  ASSUME IInv, EnrollCode
  PROVE  IInv'
<1>1. Inv(dir', older') /\ Idle /\ UNCHANGED <<debt, faults>>
  BY Untouched DEF EnrollCode, SignIn
<1>2. Types'
  BY <1>1, TypesHold DEF Types, TransferTypeOK, EnrollTypeOK, EnrollCode, SignIn
<1>3. problem => pending = "none" /\ auth = "no"
  BY DEF IInv, Inv, Phases
<1>4. QED
  BY <1>1, <1>2, <1>3, Quiet DEF EnrollCode, SignIn, remembered, outside

LEMMA EnrollSignedInKeeps ==
  ASSUME IInv, EnrollSignedIn
  PROVE  IInv'
<1>1. Inv(dir', older') /\ Idle /\ UNCHANGED <<debt, faults>>
  BY Untouched DEF EnrollSignedIn, SignIn
<1>2. Types'
  BY <1>1, TypesHold DEF Types, TransferTypeOK, EnrollTypeOK, EnrollSignedIn, SignIn
<1>3. problem => pending = "none" /\ auth = "no"
  BY DEF IInv, Inv, Phases
<1>4. QED
  BY <1>1, <1>2, <1>3, Quiet DEF EnrollSignedIn, SignIn, remembered, outside

LEMMA EnrollFailsKeeps ==
  ASSUME IInv, EnrollFails
  PROVE  IInv'
<1>1. Inv(dir', older') /\ Idle /\ UNCHANGED <<debt, faults>>
  BY Untouched DEF EnrollFails, SignIn
<1>2. Types'
  BY <1>1, TypesHold DEF Types, TransferTypeOK, EnrollTypeOK, EnrollFails, SignIn
<1>3. problem => pending = "none" /\ auth = "no"
  BY DEF IInv, Inv, Phases
<1>4. QED
  BY <1>1, <1>2, <1>3, Quiet DEF EnrollFails, SignIn, remembered, outside

LEMMA LockKeeps ==
  ASSUME IInv, Lock
  PROVE  IInv'
<1>1. Inv(dir', older') /\ Idle /\ UNCHANGED <<debt, faults>>
  BY Untouched DEF Lock, TransferLocked, EnrollLocked
<1>2. Types'
  <2>1. TransferTypeOK'
    BY TypesHold DEF Types, TransferTypeOK, Lock, TransferLocked, EnrollLocked
  <2>2. EnrollTypeOK'
    BY TypesHold DEF Types, EnrollTypeOK, Lock, TransferLocked, EnrollLocked
  <2>3. QED
    BY <1>1, <2>1, <2>2, TypesHold DEF Types, Lock, TransferLocked, EnrollLocked
<1>3. problem => pending = "none" /\ auth = "no"
  BY DEF IInv, Inv, Phases
<1>4. QED
  BY <1>1, <1>2, <1>3, Quiet DEF Lock, TransferLocked, EnrollLocked, remembered, outside

LEMMA UnlockKeeps ==
  ASSUME IInv, Unlock
  PROVE  IInv'
<1>1. Inv(dir', older') /\ Idle /\ UNCHANGED <<debt, faults>>
  BY Untouched DEF Unlock
<1>2. Types'
  BY <1>1, TypesHold DEF Types, TransferTypeOK, EnrollTypeOK, Unlock
<1>3. problem => pending = "none" /\ auth = "no"
  BY DEF IInv, Inv, Phases
<1>4. QED
  BY <1>1, <1>2, <1>3, Quiet DEF Unlock, remembered, outside

LEMMA CompleteBeginKeeps ==
  ASSUME IInv, CompleteBegin, UNCHANGED enrollment
  PROVE  IInv'
<1>1. Inv(dir', older') /\ UNCHANGED <<debt, faults>> /\ ~debt /\ Reconcilable(dir)
      /\ dir' = Merged(dir) /\ dir'.staged = {} /\ ~dir'.torn
  BY ReadsWellKeeps DEF CompleteBegin
<1>2. /\ Idle /\ wf = None /\ enrollOwed = None /\ ~enrollHolds /\ ~Holding /\ ~problem
      /\ phase = "no" /\ ~recovering /\ resolving = None
      /\ phase' = "routing"
      /\ UNCHANGED <<notes, signin, vault, world, enrollment, recovering, proving,
         resolving, unsaved, badHeld, job, debt, faults>>
  BY <1>1, TypesHold DEF IInv, Inv, Phases, CompleteBegin, Submit, NoEnrollment, Reservable,
     SteamOperation, Submitting
<1>3. Blank(dir') /\ open = {} /\ erec = None /\ staged = None
  <2>1. /\ Sound(dir', older') /\ Opened(dir', older') /\ Enrolments(dir', older')
        /\ Phases(dir', older')
    BY <1>1 DEF Inv, Core
  <2>2. ~Shows(dir')
    BY <1>1, <1>2, <2>1 DEF Opened, At, Idle
  <2>3. \A f \in dir'.files : Fit(f)
    BY <2>1, WrittenBy DEF Sound, Recs
  <2>4. \A f \in dir'.files : f.kind = "enrollment"
    BY <2>2, <2>3 DEF Shows, Fit, Record
  <2>5. dir'.files = {}
    BY <1>1, <2>4 DEF CompleteBegin, NoEnrollment, Found
  <2>6. Blank(dir')
    BY <1>1, <2>5 DEF Blank
  <2>7. \A n : ~Trace(n, dir')
    BY <2>6 DEF Blank, Trace
  <2>8. open = {}
    BY <1>2, <2>1, <2>7 DEF Opened, At, Idle
  <2>9. erec = None /\ staged = None
    BY <1>2, <2>1, <2>7 DEF Enrolments, Phases, At, Idle
  <2>10. QED
  BY <2>6, <2>8, <2>9
<1> USE <1>1, <1>2, <1>3 DEF IInv, Inv, Core, At, Idle, Holding, Sealed, RowIs, Rows
<1>4. Types'
  BY DEF Types, TransferTypeOK, EnrollTypeOK, MoreFaults
<1>5. Transfers(dir, older)'
  BY DEF Transfers
<1>6. Enrolments(dir, older)'
  BY DEF Enrolments, OfEnrolment
<1>7. Opened(dir, older)'
  BY DEF Opened
<1>8. RepliesKept(dir, older)'
  BY DEF RepliesKept, Held
<1>9. World(dir, older)'
  BY DEF World, Known, Superseded, RowKnown
<1>10. Phases(dir, older)'
  BY DEF Phases, Awaits, EnrollSteps
<1>11. AtStep(dir)'
  BY DEF AtStep, Saving, Secured, Truth, Resolutions
<1>12. EnrollAtStep(dir)'
  BY DEF EnrollAtStep, Stowed, Secured, Resolutions
<1>13. QED
  BY <1>4, <1>5, <1>6, <1>7, <1>8, <1>9, <1>10, <1>11, <1>12

LEMMA CompleteMintKeeps ==
  ASSUME IInv, CompleteMint, UNCHANGED enrollment
  PROVE  IInv'
<1>1. Inv(dir', older') /\ UNCHANGED <<debt, faults>>
  BY Untouched DEF CompleteMint
<1>2. /\ Idle /\ phase = "routing" /\ phase' = "minting"
      /\ UNCHANGED <<notes, signin, vault, world, enrollment, recovering, proving,
         resolving, unsaved, badHeld, job, debt, faults>>
  BY <1>1 DEF CompleteMint, Submit
<1> USE <1>1, <1>2 DEF IInv, Inv, Core, At, Idle, Holding, Sealed, RowIs, Rows
<1>3. Types'
  BY DEF Types, TransferTypeOK, EnrollTypeOK, MoreFaults
<1>4. Transfers(dir, older)'
  BY DEF Transfers
<1>5. Enrolments(dir, older)'
  BY DEF Enrolments, OfEnrolment
<1>6. Opened(dir, older)'
  BY DEF Opened
<1>7. RepliesKept(dir, older)'
  BY DEF RepliesKept, Held
<1>8. World(dir, older)'
  BY DEF World, Known, Superseded, RowKnown
<1>9. Phases(dir, older)'
  BY DEF Phases, Awaits, EnrollSteps
<1>10. AtStep(dir)'
  BY DEF AtStep, Saving, Secured, Truth, Resolutions
<1>11. EnrollAtStep(dir)'
  BY DEF EnrollAtStep, Stowed, Secured, Resolutions
<1>12. QED
  BY <1>3, <1>4, <1>5, <1>6, <1>7, <1>8, <1>9, <1>10, <1>11

LEMMA CompleteFailsKeeps ==
  ASSUME IInv, CompleteFails, UNCHANGED enrollment
  PROVE  IInv'
<1>1. Inv(dir', older') /\ UNCHANGED <<debt, faults>>
  BY Untouched DEF CompleteFails
<1>2. /\ Idle /\ phase \in {"routing", "minting"} /\ phase' = "no"
      /\ UNCHANGED <<notes, signin, vault, world, enrollment, recovering, proving,
         resolving, unsaved, badHeld, job, debt, faults>>
  BY <1>1 DEF CompleteFails, Submit
<1> USE <1>1, <1>2 DEF IInv, Inv, Core, At, Idle, Holding, Sealed, RowIs, Rows
<1>3. Types'
  BY DEF Types, TransferTypeOK, EnrollTypeOK, MoreFaults
<1>4. Transfers(dir, older)'
  BY DEF Transfers
<1>5. Enrolments(dir, older)'
  BY DEF Enrolments, OfEnrolment
<1>6. Opened(dir, older)'
  BY DEF Opened
<1>7. RepliesKept(dir, older)'
  BY DEF RepliesKept, Held
<1>8. World(dir, older)'
  BY DEF World, Known, Superseded, RowKnown
<1>9. Phases(dir, older)'
  BY DEF Phases, Awaits, EnrollSteps
<1>10. AtStep(dir)'
  BY DEF AtStep, Saving, Secured, Truth, Resolutions
<1>11. EnrollAtStep(dir)'
  BY DEF EnrollAtStep, Stowed, Secured, Resolutions
<1>12. QED
  BY <1>3, <1>4, <1>5, <1>6, <1>7, <1>8, <1>9, <1>10, <1>11

LEMMA RetryBeginKeeps ==
  ASSUME IInv, NEW passphrase \in BOOLEAN, RetryBegin(passphrase), UNCHANGED enrollment
  PROVE  IInv'
<1>1. Inv(dir', older') /\ UNCHANGED <<debt, faults>>
  BY Untouched DEF RetryBegin
<1>2. /\ Idle /\ phase = "no" /\ ~recovering /\ ~enrollHolds /\ resolving = None
      /\ pending # "none" \/ terminal # None \/ wf # None
      /\ recovering' = TRUE
      /\ UNCHANGED <<notes, signin, vault, world, enrollment, phase, proving, resolving,
         unsaved, badHeld, debt, faults>>
  BY <1>1 DEF RetryBegin, Reservable, SteamOperation, Submitting
<1>3. proving = None
  BY <1>1, <1>2 DEF IInv, Inv, Phases
<1>4. /\ job' # None /\ job' \in Job /\ job'.step = "hydrate" /\ job'.by = "recovery"
      /\ job'.passphrase = passphrase /\ job'.resolution = None
  BY TypesHold, Started DEF RetryBegin, Job, Resolutions
<1> USE <1>1, <1>2, <1>3, <1>4 DEF IInv, Inv, Core, At, Idle, Holding, Sealed, RowIs, Rows
<1>5. Types'
  BY DEF Types, TransferTypeOK, EnrollTypeOK, MoreFaults
<1>6. Transfers(dir, older)'
  BY DEF Transfers
<1>7. Enrolments(dir, older)'
  BY DEF Enrolments, OfEnrolment
<1>8. Opened(dir, older)'
  BY DEF Opened
<1>9. RepliesKept(dir, older)'
  BY DEF RepliesKept, Held
<1>10. World(dir, older)'
  BY DEF World, Known, Superseded, RowKnown
<1>11. Phases(dir, older)'
  BY DEF Phases, Awaits, EnrollSteps
<1>12. AtStep(dir)'
  BY DEF AtStep, Saving, Secured, Truth, Resolutions
<1>13. EnrollAtStep(dir)'
  BY DEF EnrollAtStep, Stowed, Secured, Resolutions
<1>14. QED
  BY <1>5, <1>6, <1>7, <1>8, <1>9, <1>10, <1>11, <1>12, <1>13

LEMMA ResolveBeginKeeps ==
  ASSUME IInv,
         NEW resolution \in {"notReplaced", "replaced", "resolvedOutsideApp"},
         ResolveBegin(resolution), UNCHANGED enrollment
  PROVE  IInv'
<1>1. Inv(dir', older') /\ UNCHANGED <<debt, faults>>
  BY Untouched DEF ResolveBegin
<1>2. /\ Idle /\ phase = "no" /\ ~recovering /\ ~enrollHolds /\ resolving = None /\ ~Holding
      /\ wf # None /\ True(resolution, wf.attempt)
      /\ UNCHANGED <<transfer, vault, world, enrollment, debt, faults>>
  BY <1>1 DEF ResolveBegin, Reservable, SteamOperation, Submitting
<1>3. /\ job' # None /\ job' \in Job /\ job'.step = "resolve" /\ job'.by = "resolution"
      /\ job'.passphrase = FALSE /\ job'.resolution = resolution
  BY TypesHold, Started DEF ResolveBegin, Job, Resolutions
<1>4. /\ resolution = "replaced" => steam = wf.attempt
      /\ resolution = "resolvedOutsideApp" => steam = None
  BY <1>1, <1>2, <1>3 DEF True
<1> USE <1>1, <1>2, <1>3, <1>4 DEF IInv, Inv, Core, At, Idle, Holding, Sealed, RowIs, Rows
<1>5. Types'
  BY DEF Types, TransferTypeOK, EnrollTypeOK, MoreFaults
<1>6. Transfers(dir, older)'
  BY DEF Transfers
<1>7. Enrolments(dir, older)'
  BY DEF Enrolments, OfEnrolment
<1>8. Opened(dir, older)'
  BY DEF Opened
<1>9. RepliesKept(dir, older)'
  BY DEF RepliesKept, Held
<1>10. World(dir, older)'
  BY DEF World, Known, Superseded, RowKnown
<1>11. Phases(dir, older)'
  BY DEF Phases, Awaits, EnrollSteps
<1>12. AtStep(dir)'
  BY DEF AtStep, Saving, Secured, Truth, Resolutions
<1>13. EnrollAtStep(dir)'
  BY DEF EnrollAtStep, Stowed, Secured, Resolutions
<1>14. QED
  BY <1>5, <1>6, <1>7, <1>8, <1>9, <1>10, <1>11, <1>12, <1>13

LEMMA ProofAcceptedKeeps ==
  ASSUME IInv, ProofAccepted, UNCHANGED enrollment
  PROVE  IInv'
<1>1. Inv(dir', older') /\ UNCHANGED <<debt, faults>>
  BY Untouched DEF ProofAccepted
<1>2. /\ Idle /\ proving # None
      /\ UNCHANGED <<transfer, vault, world, enrollment, debt, faults>>
  BY <1>1 DEF ProofAccepted
<1>3. recovering
  BY <1>1, <1>2 DEF IInv, Inv, Phases
<1>4. wf # None /\ erec = None /\ login # "asked"
  BY <1>1, <1>2, <1>3 DEF IInv, Inv, Core, Transfers, Phases
<1>5. /\ job' # None /\ job' \in Job /\ job'.step = "promote" /\ job'.by = "recovery"
      /\ job'.passphrase = TRUE /\ job'.resolution = None
  BY TypesHold, Started DEF ProofAccepted, Job, Resolutions
<1> USE <1>1, <1>2, <1>3, <1>4, <1>5 DEF IInv, Inv, Core, At, Idle, Holding, Sealed, RowIs,
   Rows
<1>6. Types'
  BY DEF Types, TransferTypeOK, EnrollTypeOK, MoreFaults
<1>7. Transfers(dir, older)'
  BY DEF Transfers
<1>8. Enrolments(dir, older)'
  BY DEF Enrolments, OfEnrolment
<1>9. Opened(dir, older)'
  BY DEF Opened
<1>10. RepliesKept(dir, older)'
  BY DEF RepliesKept, Held
<1>11. World(dir, older)'
  BY DEF World, Known, Superseded, RowKnown
<1>12. Phases(dir, older)'
  BY DEF Phases, Awaits, EnrollSteps
<1>13. AtStep(dir)'
  BY DEF AtStep, Saving, Secured, Truth, Resolutions
<1>14. EnrollAtStep(dir)'
  BY DEF EnrollAtStep, Stowed, Secured, Resolutions
<1>15. QED
  BY <1>6, <1>7, <1>8, <1>9, <1>10, <1>11, <1>12, <1>13, <1>14

LEMMA ResolveAcceptedKeeps ==
  ASSUME IInv, ResolveAccepted, UNCHANGED enrollment
  PROVE  IInv'
<1>1. Inv(dir', older') /\ UNCHANGED <<debt, faults>>
  BY Untouched DEF ResolveAccepted
<1>2. /\ Idle /\ resolving # None
      /\ UNCHANGED <<transfer, vault, world, enrollment, debt, faults>>
  BY <1>1 DEF ResolveAccepted
<1>3. wf # None /\ erec = None /\ login # "asked"
  BY <1>1, <1>2 DEF IInv, Inv, Core, Transfers, Phases
<1>4. resolving.resolution \in Resolutions
  BY <1>1, <1>2, <1>3, TypesHold DEF Types, TransferTypeOK
<1>5. /\ job' # None /\ job' \in Job /\ job'.step = "remove" /\ job'.by = "resolution"
      /\ job'.passphrase = TRUE /\ job'.resolution = resolving.resolution
  BY <1>1, <1>2, <1>3, <1>4, TypesHold, Started DEF ResolveAccepted, Job, Resolutions
<1> USE <1>1, <1>2, <1>3, <1>4, <1>5 DEF IInv, Inv, Core, At, Idle, Holding, Sealed, RowIs,
   Rows
<1>6. Types'
  BY DEF Types, TransferTypeOK, EnrollTypeOK, MoreFaults
<1>7. Transfers(dir, older)'
  BY DEF Transfers
<1>8. Enrolments(dir, older)'
  BY DEF Enrolments, OfEnrolment
<1>9. Opened(dir, older)'
  BY DEF Opened
<1>10. RepliesKept(dir, older)'
  BY DEF RepliesKept, Held
<1>11. World(dir, older)'
  BY DEF World, Known, Superseded, RowKnown
<1>12. Phases(dir, older)'
  BY DEF Phases, Awaits, EnrollSteps
<1>13. AtStep(dir)'
  BY DEF AtStep, Saving, Secured, Truth, Resolutions
<1>14. EnrollAtStep(dir)'
  BY DEF EnrollAtStep, Stowed, Secured, Resolutions
<1>15. QED
  BY <1>6, <1>7, <1>8, <1>9, <1>10, <1>11, <1>12, <1>13, <1>14

(* A run of the transfer that ends.                                        *)
Ended ==
  /\ RunOver /\ unsaved' = (unsaved /\ ~Sealed)

LEMMA EndKeeps ==
  ASSUME IInv, Core(dir', older'), Types', Ended, outside' = outside,
         UNCHANGED <<wf, problem, owed, badHeld, erec, staged, enrollOwed, enrollHolds, debt>>,
         login # "asked", login' # "asked", ~At({"clear", "owe", "load"} \cup EnrollSteps),
         problem => pending' = "none" /\ auth' = "no"
  PROVE  IInv'
<1>1. UNCHANGED <<row, bak, steam, sent, open, received, adopted>>
  BY DEF outside
<1>2. Phases(dir, older) /\ ~enrollHolds /\ erec = None
  BY DEF IInv, Inv, Phases, At
<1>3. /\ ~At({"clear", "owe"}) /\ ~At({"erase", "own"}) /\ ~At({"erase", "own", "load"})
      /\ ~At({"load"})
  BY DEF At, EnrollSteps
<1>4. Transfers(dir, older)'
  BY <1>1, <1>2, <1>3 DEF IInv, Inv, Core, Ended, Transfers, Holding, Sealed, At, Idle
<1>5. Enrolments(dir, older)'
  BY <1>1, <1>2, <1>3 DEF IInv, Inv, Core, Ended, Enrolments, OfEnrolment, At, Idle
<1>6. Opened(dir, older)'
  BY <1>1, <1>2, <1>3 DEF IInv, Inv, Core, Ended, Opened, At, Idle, RowIs, Rows
<1>7. RepliesKept(dir, older)'
  BY <1>1, <1>2, <1>3 DEF IInv, Inv, Core, Ended, RepliesKept, Held, Holding, Sealed, RowIs,
     Rows
<1>8. World(dir, older)'
  <2>1. World(dir', older')
    BY DEF Core
  <2>2. unsaved' => unsaved
    BY DEF Ended
  <2>3. QED
    BY <1>1, <2>1, <2>2 DEF World, Known, Superseded, RowKnown
<1>9. Phases(dir, older)'
  BY <1>1, <1>2, <1>3 DEF IInv, Inv, Core, Ended, Phases, Awaits, Holding, At, Idle, RowIs,
     Rows, EnrollSteps
<1>10. AtStep(dir)'
  BY <1>1, <1>2, <1>3 DEF IInv, Inv, Core, Ended, AtStep, At, Idle, Holding, Sealed, Saving,
     Secured, RowIs, Rows, Truth, Resolutions
<1>11. EnrollAtStep(dir)'
  BY <1>1, <1>2, <1>3 DEF IInv, Inv, Core, Ended, EnrollAtStep, At, Idle, Stowed, Secured,
     RowIs, Rows, Resolutions
<1>12. Sound(dir, older)'
  BY DEF Core
<1>13. QED
  BY <1>4, <1>5, <1>6, <1>7, <1>8, <1>9, <1>10, <1>11, <1>12 DEF IInv, Inv, Core

(* A directory that holds one version of a record and nothing else.        *)
LEMMA Alone ==
  ASSUME NEW r, NEW d, d = [files |-> {r}, staged |-> {}, torn |-> FALSE]
  PROVE  /\ Read(r, d) /\ Recs(d) = {r} /\ Trace(r.attempt, d)
         /\ Written(d, {}) = {r} /\ Mine(r, d, {}) /\ AllTrace(r.attempt, d, {})
         /\ Waiting(d, r.reply)
         /\ r.state = "replacement" => Sealing(d)
         /\ r.reply # "none" => Has(r.attempt, d) /\ \A b : SafeIn(r.attempt, d, {}, b)
<1>1. Recs(d) = {r} /\ d.files = {r} /\ d.staged = {} /\ ~d.torn
  BY DEF Recs
<1>2. Written(d, {}) = {r}
  <2>1. \A s \in Written(d, {}) : s = r
    BY <1>1, WrittenBy
  <2>2. d \in {d} \cup {}
    OBVIOUS
  <2>3. \A s \in Recs(d) : s \in Written(d, {})
    BY <2>2, WrittenBy
  <2>4. QED
    BY <1>1, <2>1, <2>3
<1>3. Read(r, d) /\ Trace(r.attempt, d) /\ AllTrace(r.attempt, d, {})
  BY <1>1 DEF Read, Trace, AllTrace
<1>4. Mine(r, d, {}) /\ Waiting(d, r.reply) /\ (r.state = "replacement" => Sealing(d))
  BY <1>1, <1>2 DEF Mine, SameIdentity, Waiting, Sealing
<1>5. r.reply # "none" => Has(r.attempt, d) /\ \A b : SafeIn(r.attempt, d, {}, b)
  BY <1>1 DEF Has, SafeIn
<1>6. QED
  BY <1>1, <1>2, <1>3, <1>4, <1>5

(* What a reading shows of the transfer this process goes by.              *)
LEMMA ExactIs ==
  ASSUME NEW d, NEW o, Sound(d, o), d.staged = {}, ~d.torn, wf # None, Mine(wf, d, o),
         wf.kind = "transfer"
  PROVE  /\ \/ d.files = {} /\ Exact(d) = (IF owed # None /\ owed.attempt = wf.attempt
                                          THEN owed ELSE None)
            \/ d.files = {Exact(d)} /\ Exact(d) \in Written(d, o)
         /\ Read(Exact(d), d)
<1> DEFINE found == {f \in Records(d, "transfer") : f.attempt = wf.attempt}
<1>1. \A f \in d.files : f \in Written(d, o)
  BY WrittenBy DEF Recs
<1>2. \A f \in d.files : f.attempt = wf.attempt /\ f.kind = "transfer"
  BY <1>1 DEF Mine, SameIdentity
<1>3. found = d.files
  BY <1>2 DEF Records
<1>4. \A f, g \in d.files : f = g
  BY DEF Sound, Single
<1>5. CASE d.files = {}
  BY <1>3, <1>5 DEF Exact, Read
<1>6. CASE d.files # {}
  <2>1. PICK f \in d.files : d.files = {f}
    BY <1>4, <1>6
  <2>2. Exact(d) = f
    BY <1>3, <2>1 DEF Exact
  <2>3. QED
    BY <1>1, <2>1, <2>2 DEF Read
<1>7. QED
  BY <1>5, <1>6

(* Where the transfer's run is, no enrolment is at work.                   *)
LEMMA TransferAtWork ==
  ASSUME IInv, NEW s, Step(s), s \notin EnrollSteps
  PROVE  /\ TransferAt(s)
<1>1. Types /\ Phases(dir, older)
  BY DEF IInv, Inv
<1>2. job # None /\ job \in Job /\ job.step = s
  BY <1>1, JobIs
<1>3. ~At(EnrollSteps) /\ ~Idle
  BY <1>2 DEF At, Idle
<1>4. QED
  BY <1>1, <1>2, <1>3 DEF Phases

LEMMA SetAside ==
  ASSUME Types, Aside
  PROVE  /\ UNCHANGED <<erec, staged, known>>
         /\ unlocked' = unlocked => login' = login
         /\ login # "asked" => login' # "asked"
         /\ login' \in {"no", "signing", "code", "routing", "asked"}
BY DEF Aside, EnrollLocked, Types, EnrollTypeOK

LEMMA EndTyped ==
  ASSUME Types, Ended, MoreFaults, UNCHANGED <<outside, debt, unlocked>>,
         UNCHANGED <<wf, problem, owed, challenging, badHeld>>,
         terminal' \in {None, "unanswered", "unreadable", "not-replaced"},
         UNCHANGED <<erec, staged, known, enrollOwed, enrollHolds>>,
         pending' \in {"none", "live", "spent"}, auth' \in {"no", "fresh", "stale"},
         login' \in {"no", "signing", "code", "routing", "asked"}
  PROVE  Types'
<1>1. unsaved' \in BOOLEAN
  BY DEF Ended
<1>2. TransferTypeOK'
  BY <1>1 DEF Types, TransferTypeOK, Ended
<1>3. EnrollTypeOK'
  BY DEF Types, EnrollTypeOK, outside
<1>4. QED
  BY <1>2, <1>3 DEF Types, MoreFaults, Ended, outside

(* A run that ends where no record is being removed.                       *)
LEMMA RunEnds ==
  ASSUME IInv, NEW s, Step(s), s \notin {"clear", "owe", "load"} \cup EnrollSteps,
         Core(dir', older'), MoreFaults, Ended, Aside,
         UNCHANGED <<outside, debt, unlocked, wf, problem, owed, auth, challenging, badHeld>>,
         UNCHANGED <<enrollOwed, enrollHolds>>, pending' \in {pending, "none"},
         terminal' \in {terminal, "unreadable", "not-replaced"}
  PROVE  IInv'
<1>1. TransferAt(s)
  BY TransferAtWork
<1>2. /\ UNCHANGED <<erec, staged, known>> /\ login' # "asked"
      /\ login' \in {"no", "signing", "code", "routing", "asked"}
  BY <1>1, SetAside
<1>3. Types'
  BY <1>1, <1>2, EndTyped DEF Types, TransferTypeOK
<1>4. ~At({"clear", "owe", "load"} \cup EnrollSteps)
  BY <1>1 DEF At
<1>5. problem => pending = "none" /\ auth = "no"
  BY DEF IInv, Inv, Phases
<1>6. QED
  BY <1>1, <1>2, <1>3, <1>4, <1>5, EndKeeps

LEMMA ProofRefusedKeeps ==
  ASSUME IInv, ProofRefused, UNCHANGED enrollment
  PROVE  IInv'
<1>1. Inv(dir', older') /\ UNCHANGED <<debt, faults>>
  BY Untouched DEF ProofRefused, GiveUp
<1>2. wf # None /\ erec = None /\ login # "asked" /\ Idle
  BY DEF IInv, Inv, Core, Transfers, Phases, ProofRefused
<1>3. Types'
  <2>1. Ended
    BY DEF ProofRefused, GiveUp, EndMemory, Ended, Sealed
  <2>2. MoreFaults
    BY <1>1, TypesHold DEF Types, MoreFaults
  <2>3. QED
    BY <1>1, <2>1, <2>2, TypesHold, EndTyped DEF Types, TransferTypeOK, EnrollTypeOK,
       ProofRefused, GiveUp, outside
<1>4. QED
  BY <1>1, <1>2, <1>3, EndKeeps DEF ProofRefused, GiveUp, EndMemory, Ended, Sealed, At,
     Idle, outside, Inv, Phases

LEMMA ResolveRefusedKeeps ==
  ASSUME IInv, ResolveRefused, UNCHANGED enrollment
  PROVE  IInv'
<1>1. Inv(dir', older') /\ UNCHANGED <<debt, faults>>
  BY Untouched DEF ResolveRefused, GiveUp
<1>2. wf # None /\ erec = None /\ login # "asked" /\ Idle
  BY DEF IInv, Inv, Core, Transfers, Phases, ResolveRefused
<1>3. Types'
  <2>1. Ended
    BY DEF ResolveRefused, GiveUp, EndMemory, Ended, Sealed
  <2>2. MoreFaults
    BY <1>1, TypesHold DEF Types, MoreFaults
  <2>3. QED
    BY <1>1, <2>1, <2>2, TypesHold, EndTyped DEF Types, TransferTypeOK, EnrollTypeOK,
       ResolveRefused, GiveUp, outside
<1>4. QED
  BY <1>1, <1>2, <1>3, EndKeeps DEF ResolveRefused, GiveUp, EndMemory, Ended, Sealed, At,
     Idle, outside, Inv, Phases

LEMMA HydrateOnKeeps ==
  ASSUME IInv, Hydrate, Aside, unsaved \/ Sealed
  PROVE  IInv'
<1>1. Inv(dir', older') /\ UNCHANGED <<debt, faults>>
  BY Untouched DEF Hydrate
<1>2. TransferAt("hydrate") /\ Step("hydrate")
  BY TransferAtWork DEF Hydrate, EnrollSteps
<1>3. /\ ~badHeld /\ unsaved' = TRUE
      /\ GoesOn("promote")
      /\ UNCHANGED <<notes, signin, asking, vault, world, enrollment, badHeld, debt,
         faults>>
  BY <1>1, <1>2, GoneTo, SetAside DEF Hydrate
<1>4. /\ wf # None /\ wf.state \in {"sending", "replacement"} /\ wf.attempt \in sent
      /\ Superseded(wf) /\ Waiting(dir', "usable")
  BY <1>1, <1>2, <1>3 DEF Inv, Core, Transfers, World, Known, Sealed, Holding, Fit
<1> USE <1>1, <1>2, <1>3, <1>4 DEF IInv, Inv, Core, At, Idle, Holding, Sealed, RowIs, Rows
<1>5. Types'
  BY DEF Types, TransferTypeOK, EnrollTypeOK, MoreFaults
<1>6. Transfers(dir, older)'
  BY DEF Transfers
<1>7. Enrolments(dir, older)'
  BY DEF Enrolments, OfEnrolment
<1>8. Opened(dir, older)'
  BY DEF Opened
<1>9. RepliesKept(dir, older)'
  BY DEF RepliesKept, Held
<1>10. World(dir, older)'
  BY DEF World, Known, Superseded, RowKnown
<1>11. Phases(dir, older)'
  BY DEF Phases, Awaits, EnrollSteps
<1>12. AtStep(dir)'
  BY DEF AtStep, Saving, Secured, Truth, Resolutions
<1>13. EnrollAtStep(dir)'
  BY DEF EnrollAtStep, Stowed, Secured, Resolutions
<1>14. QED
  BY <1>5, <1>6, <1>7, <1>8, <1>9, <1>10, <1>11, <1>12, <1>13

LEMMA HydrateKeeps ==
  ASSUME IInv, Hydrate, Aside
  PROVE  IInv'
<1>1. TransferAt("hydrate")
  BY TransferAtWork DEF Hydrate, EnrollSteps
<1>2. CASE unsaved \/ Sealed
  BY <1>2, HydrateOnKeeps
<1>3. CASE ~(unsaved \/ Sealed)
  <2>1. GiveUp
    BY <1>3 DEF Hydrate
  <2>2. Inv(dir', older') /\ UNCHANGED <<debt, faults>>
    BY <2>1, Untouched DEF GiveUp
  <2>3. Core(dir', older') /\ MoreFaults
    BY <2>2, <1>1 DEF Inv, Types, MoreFaults
  <2>4. QED
    BY <2>1, <2>2, <2>3, RunEnds DEF Hydrate, GiveUp, EndMemory, Ended, Sealed, EnrollSteps,
       outside
<1>4. QED
  BY <1>2, <1>3

LEMMA InspectOnKeeps ==
  ASSUME IInv, Inspect, Aside,
         unlocked /\ (row = None \/ Faithful(row))
  PROVE  IInv'
<1>1. Inv(dir', older') /\ UNCHANGED <<debt, faults>>
  BY Untouched DEF Inspect
<1>2. TransferAt("inspect") /\ Step("inspect")
  BY TransferAtWork DEF Inspect, EnrollSteps
<1>3. /\ wf # None /\ wf.state = "replacement"
      /\ row = None \/ RowIs(wf.attempt) \/ (wf.prior # None => wf.prior = row.auth)
      /\ GoesOn("write")
      /\ UNCHANGED <<transfer, vault, world, enrollment, debt, faults>>
  BY <1>1, <1>2, GoneTo, SetAside DEF Inspect, Sealed, Faithful, MovedOn, RowIs, Rows
<1> USE <1>1, <1>2, <1>3 DEF IInv, Inv, Core, At, Idle, Holding, Sealed, RowIs, Rows
<1>4. Types'
  BY DEF Types, TransferTypeOK, EnrollTypeOK, MoreFaults
<1>5. Transfers(dir, older)'
  BY DEF Transfers
<1>6. Enrolments(dir, older)'
  BY DEF Enrolments, OfEnrolment
<1>7. Opened(dir, older)'
  BY DEF Opened
<1>8. RepliesKept(dir, older)'
  BY DEF RepliesKept, Held
<1>9. World(dir, older)'
  BY DEF World, Known, Superseded, RowKnown
<1>10. Phases(dir, older)'
  BY DEF Phases, Awaits, EnrollSteps
<1>11. AtStep(dir)'
  BY DEF AtStep, Saving, Secured, Truth, Resolutions
<1>12. EnrollAtStep(dir)'
  BY DEF EnrollAtStep, Stowed, Secured, Resolutions
<1>13. QED
  BY <1>4, <1>5, <1>6, <1>7, <1>8, <1>9, <1>10, <1>11, <1>12

LEMMA InspectAgainOnKeeps ==
  ASSUME IInv, InspectAgain, Aside,
         unlocked /\ ~MovedOn(proving) /\ row # None /\ ~Faithful(row) /\ row.auth = proving
  PROVE  IInv'
<1>1. Inv(dir', older') /\ UNCHANGED <<debt, faults>>
  BY Untouched DEF InspectAgain
<1>2. TransferAt("inspect") /\ Step("inspect")
  BY TransferAtWork DEF InspectAgain, EnrollSteps
<1>3. /\ wf # None /\ wf.state = "replacement"
      /\ row = None \/ RowIs(wf.attempt) \/ (wf.prior # None => wf.prior = row.auth)
      /\ GoesOn("write")
      /\ UNCHANGED <<transfer, vault, world, enrollment, debt, faults>>
  BY <1>1, <1>2, GoneTo, SetAside DEF InspectAgain, Sealed, Faithful, MovedOn, RowIs, Rows
<1> USE <1>1, <1>2, <1>3 DEF IInv, Inv, Core, At, Idle, Holding, Sealed, RowIs, Rows
<1>4. Types'
  BY DEF Types, TransferTypeOK, EnrollTypeOK, MoreFaults
<1>5. Transfers(dir, older)'
  BY DEF Transfers
<1>6. Enrolments(dir, older)'
  BY DEF Enrolments, OfEnrolment
<1>7. Opened(dir, older)'
  BY DEF Opened
<1>8. RepliesKept(dir, older)'
  BY DEF RepliesKept, Held
<1>9. World(dir, older)'
  BY DEF World, Known, Superseded, RowKnown
<1>10. Phases(dir, older)'
  BY DEF Phases, Awaits, EnrollSteps
<1>11. AtStep(dir)'
  BY DEF AtStep, Saving, Secured, Truth, Resolutions
<1>12. EnrollAtStep(dir)'
  BY DEF EnrollAtStep, Stowed, Secured, Resolutions
<1>13. QED
  BY <1>4, <1>5, <1>6, <1>7, <1>8, <1>9, <1>10, <1>11, <1>12

LEMMA InspectAsksKeeps ==
  ASSUME IInv, Inspect, Aside, proving' # None
  PROVE  IInv'
<1>1. Inv(dir', older') /\ UNCHANGED <<debt, faults>>
  BY Untouched DEF Inspect
<1>2. TransferAt("inspect") /\ Step("inspect")
  BY TransferAtWork DEF Inspect, EnrollSteps
<1>3. /\ wf # None /\ wf.state = "replacement" /\ job.passphrase
      /\ row # None /\ proving' = row.auth /\ proving' \in Prints
      /\ job' = None
      /\ UNCHANGED <<notes, signin, vault, world, enrollment, phase, recovering,
         resolving, unsaved, badHeld, debt, faults>>
  BY <1>1, <1>2, SetAside, NoneAssumption DEF Inspect, EndMemory, Sealed, Faithful, Types,
     Row, Job
<1>4. recovering /\ phase = "no" /\ unsaved /\ ~badHeld /\ resolving = None
  BY <1>1, <1>2, <1>3 DEF Inv, AtStep, Phases, At, IInv
<1> USE <1>1, <1>2, <1>3, <1>4 DEF IInv, Inv, Core, At, Idle, Holding, Sealed, RowIs, Rows
<1>5. Types'
  BY DEF Types, TransferTypeOK, EnrollTypeOK, MoreFaults
<1>6. Transfers(dir, older)'
  BY DEF Transfers
<1>7. Enrolments(dir, older)'
  BY DEF Enrolments, OfEnrolment
<1>8. Opened(dir, older)'
  BY DEF Opened
<1>9. RepliesKept(dir, older)'
  BY DEF RepliesKept, Held
<1>10. World(dir, older)'
  BY DEF World, Known, Superseded, RowKnown
<1>11. Phases(dir, older)'
  BY DEF Phases, Awaits, EnrollSteps
<1>12. AtStep(dir)'
  BY DEF AtStep, Saving, Secured, Truth, Resolutions
<1>13. EnrollAtStep(dir)'
  BY DEF EnrollAtStep, Stowed, Secured, Resolutions
<1>14. QED
  BY <1>5, <1>6, <1>7, <1>8, <1>9, <1>10, <1>11, <1>12, <1>13

LEMMA InspectKeeps ==
  ASSUME IInv, Inspect, Aside
  PROVE  IInv'
<1>1. TransferAt("inspect") /\ Step("inspect")
  BY TransferAtWork DEF Inspect, EnrollSteps
<1>2. CASE unlocked /\ (row = None \/ Faithful(row))
  BY <1>2, InspectOnKeeps
<1>3. CASE ~(unlocked /\ (row = None \/ Faithful(row))) /\ unlocked /\ ~MovedOn(row.auth) /\ job.passphrase
  <2>1. row # None /\ row.auth \in Prints /\ proving' = row.auth
    BY <1>1, <1>3 DEF Inspect, Types, Row
  <2>2. proving' # None
    BY <2>1, NoneAssumption
  <2>3. QED
    BY <2>2, InspectAsksKeeps
<1>4. CASE /\ ~(unlocked /\ (row = None \/ Faithful(row)))
           /\ ~(unlocked /\ ~MovedOn(row.auth) /\ job.passphrase)
  <2>1. Inv(dir', older') /\ UNCHANGED debt /\ MoreFaults
    BY <1>1, Untouched DEF Inspect, Types, MoreFaults, journalVars
  <2>2. Core(dir', older')
    BY <2>1 DEF Inv
  <2>3. QED
    BY <1>4, <1>1, <2>1, <2>2, RunEnds DEF Inspect, EndMemory, Ended, Sealed, EnrollSteps,
       outside
<1>5. QED
  BY <1>2, <1>3, <1>4

LEMMA InspectAgainKeeps ==
  ASSUME IInv, InspectAgain, Aside
  PROVE  IInv'
<1>1. TransferAt("inspect") /\ Step("inspect")
  BY TransferAtWork DEF InspectAgain, EnrollSteps
<1>2. CASE unlocked /\ ~MovedOn(proving) /\ row # None /\ ~Faithful(row) /\ row.auth = proving
  BY <1>2, InspectAgainOnKeeps
<1>3. CASE ~(unlocked /\ ~MovedOn(proving) /\ row # None /\ ~Faithful(row) /\ row.auth = proving)
  <2>1. Inv(dir', older') /\ UNCHANGED debt /\ MoreFaults
    BY <1>1, Untouched DEF InspectAgain, Types, MoreFaults, journalVars
  <2>2. Core(dir', older')
    BY <2>1 DEF Inv
  <2>3. QED
    BY <1>3, <1>1, <2>1, <2>2, RunEnds DEF InspectAgain, EndMemory, Ended, Sealed,
       EnrollSteps, outside
<1>4. QED
  BY <1>2, <1>3

LEMMA WriteRowKeeps ==
  ASSUME IInv, WriteRow, Aside
  PROVE  IInv'
<1>1. Inv(dir', older') /\ UNCHANGED <<debt, faults>>
  BY Untouched DEF WriteRow
<1>2. TransferAt("write") /\ Step("write")
  BY TransferAtWork DEF WriteRow, EnrollSteps
<1>3. /\ wf # None /\ wf \in Record /\ wf.state = "replacement" /\ wf.attempt \in Attempts
      /\ wf.attempt \in sent /\ Fit(wf) /\ open \subseteq {wf.attempt}
      /\ received \subseteq {wf.attempt}
      /\ staged = None /\ ~badHeld /\ resolving = None /\ job.resolution = None
      /\ job.by \in {"submission", "recovery"}
  BY <1>1, <1>2 DEF IInv, Inv, Core, Transfers, World, Known, AtStep, At, Sealed, Fit,
     Record, Types
<1>4. /\ row' # None /\ row' \in Row /\ row'.auth = wf.attempt
      /\ bak' \in {row, bak}
      /\ (row' = row /\ bak' = bak) \/ (row'.backup = "pending" /\ bak' = row)
      /\ GoesOn("backup")
      /\ UNCHANGED <<transfer, world, enrollment, unlocked, debt, faults>>
  <2>1. /\ Types /\ row \in Row \cup {None} /\ bak \in Row \cup {None}
        /\ job \in Job /\ job # None
    BY <1>2 DEF TransferAt, Types
  <2>2. QED
    BY <1>1, <1>2, <1>3, <2>1, GoneTo, SetAside, PrintsAssumption, NoneAssumption DEF WriteRow,
       NeedsWrite, Faithful, Save, Row
<1>5. \A n \in received : SafeIn(n, dir', older', TRUE) /\ Keeps(n, dir', older')
  BY <1>1, <1>2, <1>3, <1>4 DEF IInv, Inv, Core, RepliesKept, Held, Sealed, SafeIn
<1>6. wf.attempt # Elsewhere
  BY <1>1, <1>2, <1>3, <1>4, <1>5, PrintsAssumption
<1> USE <1>1, <1>2, <1>3, <1>4, <1>5, <1>6 DEF IInv, Inv, Core, At, Idle, Holding, Sealed,
   RowIs, Rows
<1>7. Types'
  BY DEF Types, TransferTypeOK, EnrollTypeOK, MoreFaults
<1>8. Transfers(dir, older)'
  BY DEF Transfers
<1>9. Enrolments(dir, older)'
  BY DEF Enrolments, OfEnrolment
<1>10. Opened(dir, older)'
  BY DEF Opened
<1>11. RepliesKept(dir, older)'
  BY DEF RepliesKept, Held
<1>12. World(dir, older)'
  BY DEF World, Known, Superseded, RowKnown
<1>13. Phases(dir, older)'
  BY DEF Phases, Awaits, EnrollSteps
<1>14. AtStep(dir)'
  BY DEF AtStep, Saving, Secured, Truth, Resolutions
<1>15. EnrollAtStep(dir)'
  BY DEF EnrollAtStep, Stowed, Secured, Resolutions
<1>16. QED
  BY <1>7, <1>8, <1>9, <1>10, <1>11, <1>12, <1>13, <1>14, <1>15

LEMMA WriteRowLocksKeeps ==
  ASSUME IInv, WriteRowFails, Aside, unlocked' = FALSE, MoreFaults,
         ~(UNCHANGED <<vault, pending, auth>>)
  PROVE  IInv'
<1>1. Inv(dir', older') /\ UNCHANGED debt
  BY DEF WriteRowFails, IInv
<1>2. TransferAt("write") /\ Step("write")
  BY TransferAtWork DEF WriteRowFails, EnrollSteps
<1>3. /\ wf # None /\ wf \in Record /\ wf.state = "replacement" /\ wf.attempt \in Attempts
      /\ wf.attempt \in sent /\ Fit(wf) /\ open \subseteq {wf.attempt}
      /\ received \subseteq {wf.attempt}
      /\ staged = None /\ ~badHeld /\ resolving = None /\ job.resolution = None
      /\ job.by \in {"submission", "recovery"}
  BY <1>1, <1>2 DEF IInv, Inv, Core, Transfers, World, Known, AtStep, At, Sealed, Fit,
     Record, Types
<1>4. /\ \/ row' = row /\ bak' = bak
         \/ row' # None /\ row' \in Row /\ row'.auth = wf.attempt /\ row'.backup = "pending" /\ bak' = row
      /\ RunOver
      /\ unsaved' = FALSE /\ auth' \in {"no", "stale"} /\ pending' \in {"none", "spent"}
      /\ login' # "asked" /\ login' \in {"no", "signing", "code", "routing", "asked"}
      /\ unlocked' = FALSE
      /\ UNCHANGED <<notes, world, terminal, challenging, badHeld, erec, staged, known,
         debt>>
  <2>1. /\ unlocked' = FALSE /\ auth' = IF auth = "no" THEN "no" ELSE "stale"
        /\ pending' = IF pending = "none" THEN "none" ELSE "spent"
        /\ \/ UNCHANGED <<row, bak>>
           \/ row' = [auth |-> wf.attempt, backup |-> "pending"] /\ bak' = row
    BY <1>1, <1>2, <1>3 DEF WriteRowFails
  <2>2. \/ row' = row /\ bak' = bak
        \/ row' # None /\ row' \in Row /\ row'.auth = wf.attempt /\ row'.backup = "pending" /\ bak' = row
    BY <1>1, <1>2, <1>3, <2>1, PrintsAssumption, NoneAssumption DEF Row
  <2>3. /\ RunOver /\ unsaved' = FALSE
    BY <1>1, <1>2, <1>3 DEF WriteRowFails, EndMemory
  <2>4. UNCHANGED <<wf, problem, owed, terminal, challenging, badHeld, steam, sent, open,
           received,
                    adopted, enrollOwed, enrollHolds, debt>>
    BY DEF WriteRowFails
  <2>5. /\ login' # "asked" /\ login' \in {"no", "signing", "code", "routing", "asked"}
        /\ UNCHANGED <<erec, staged, known>>
    BY <1>1, <1>2, <1>3, SetAside
  <2>6. QED
    BY <2>1, <2>2, <2>3, <2>4, <2>5
<1>5. \A n \in received : SafeIn(n, dir', older', TRUE) /\ Keeps(n, dir', older')
  BY <1>1, <1>2, <1>3, <1>4 DEF IInv, Inv, Core, RepliesKept, Held, Sealed, SafeIn
<1>6. wf.attempt # Elsewhere /\ ~problem /\ MoreFaults
  BY <1>1, <1>2, <1>3, <1>4, <1>5, PrintsAssumption DEF Inv, Phases
<1> USE <1>1, <1>2, <1>3, <1>4, <1>5, <1>6 DEF IInv, Inv, Core, At, Idle, Holding, Sealed,
   RowIs, Rows
<1>7. Types'
  BY DEF Types, TransferTypeOK, EnrollTypeOK, MoreFaults
<1>8. Transfers(dir, older)'
  BY DEF Transfers
<1>9. Enrolments(dir, older)'
  BY DEF Enrolments, OfEnrolment
<1>10. Opened(dir, older)'
  BY DEF Opened
<1>11. RepliesKept(dir, older)'
  BY DEF RepliesKept, Held
<1>12. World(dir, older)'
  BY DEF World, Known, Superseded, RowKnown
<1>13. Phases(dir, older)'
  BY DEF Phases, Awaits, EnrollSteps
<1>14. AtStep(dir)'
  BY DEF AtStep, Saving, Secured, Truth, Resolutions
<1>15. EnrollAtStep(dir)'
  BY DEF EnrollAtStep, Stowed, Secured, Resolutions
<1>16. QED
  BY <1>7, <1>8, <1>9, <1>10, <1>11, <1>12, <1>13, <1>14, <1>15

LEMMA WriteRowFailsKeeps ==
  ASSUME IInv, WriteRowFails, Aside
  PROVE  IInv'
<1>1. TransferAt("write") /\ Step("write")
  BY TransferAtWork DEF WriteRowFails, EnrollSteps
<1>2. MoreFaults
  BY <1>1, JournalAssumption DEF WriteRowFails, Types, MoreFaults
<1>3. CASE UNCHANGED <<vault, pending, auth>>
  <2>1. Inv(dir', older') /\ UNCHANGED debt
    BY DEF WriteRowFails, IInv
  <2>2. Core(dir', older')
    BY <2>1 DEF Inv
  <2>3. QED
    BY <1>1, <1>2, <1>3, <2>1, <2>2, RunEnds DEF WriteRowFails, EndMemory, Ended, Sealed,
       EnrollSteps, outside
<1>4. CASE ~(UNCHANGED <<vault, pending, auth>>)
  BY <1>2, <1>4, WriteRowLocksKeeps DEF WriteRowFails
<1>5. QED
  BY <1>3, <1>4 DEF WriteRowFails

LEMMA BackupKeeps ==
  ASSUME IInv, Backup, Aside
  PROVE  IInv'
<1>1. Inv(dir', older') /\ UNCHANGED <<debt, faults>>
  BY Untouched DEF Backup
<1>2. TransferAt("backup") /\ Step("backup")
  BY TransferAtWork DEF Backup, EnrollSteps
<1>3. /\ wf # None /\ wf \in Record /\ wf.state = "replacement" /\ wf.attempt \in Attempts
      /\ wf.attempt \in sent /\ Fit(wf) /\ open \subseteq {wf.attempt}
      /\ received \subseteq {wf.attempt}
      /\ staged = None /\ ~badHeld /\ resolving = None /\ job.resolution = None
      /\ job.by \in {"submission", "recovery"}
  BY <1>1, <1>2 DEF IInv, Inv, Core, Transfers, World, Known, AtStep, At, Sealed, Fit,
     Record, Types
<1>4. /\ row # None /\ row \in Row /\ row.auth = wf.attempt
      /\ row.backup \in {"pending", "current"}
  BY <1>1, <1>2, <1>3 DEF IInv, Inv, Core, AtStep, At, RowIs, Rows, World, RowKnown, Types,
     Row
<1>5. /\ row' # None /\ row' \in Row /\ row'.auth = wf.attempt /\ row'.backup = "current"
      /\ bak' \in {row, bak}
      /\ job' # None /\ job' \in Job /\ job'.step \in {"clear", "publish"} /\ job'.by = job.by
      /\ job'.passphrase = job.passphrase /\ job'.resolution = job.resolution
      /\ UNCHANGED <<transfer, world, enrollment, unlocked, debt, faults>>
  <2>1. Types /\ bak \in Row \cup {None} /\ job \in Job /\ job # None
    BY <1>2 DEF TransferAt, Types
  <2>2. QED
    BY <1>1, <1>2, <1>3, <1>4, <2>1, GoneTo, SetAside, NoneAssumption DEF Backup, Save, Row
<1>6. \A n \in received : SafeIn(n, dir', older', TRUE) /\ Keeps(n, dir', older')
  BY <1>1, <1>2, <1>3, <1>4, <1>5 DEF IInv, Inv, Core, RepliesKept, Held, Sealed, SafeIn
<1>7. None \notin Resolutions /\ None \notin Record
  BY NoneAssumption
<1>8. wf.attempt # Elsewhere
  BY <1>1, <1>2, <1>3, <1>4, <1>5, <1>6, <1>7, PrintsAssumption
<1> USE <1>1, <1>2, <1>3, <1>4, <1>5, <1>6, <1>7, <1>8 DEF IInv, Inv, Core, At, Idle,
   Holding, Sealed, RowIs, Rows
<1>9. Types'
  BY DEF Types, TransferTypeOK, EnrollTypeOK, MoreFaults
<1>10. Transfers(dir, older)'
  BY DEF Transfers
<1>11. Enrolments(dir, older)'
  BY DEF Enrolments, OfEnrolment
<1>12. Opened(dir, older)'
  BY DEF Opened
<1>13. RepliesKept(dir, older)'
  BY DEF RepliesKept, Held
<1>14. World(dir, older)'
  BY DEF World, Known, Superseded, RowKnown
<1>15. Phases(dir, older)'
  BY DEF Phases, Awaits, EnrollSteps
<1>16. AtStep(dir)'
  BY DEF AtStep, Saving, Secured, Truth, Resolutions
<1>17. EnrollAtStep(dir)'
  BY DEF EnrollAtStep, Stowed, Secured, Resolutions
<1>18. QED
  BY <1>9, <1>10, <1>11, <1>12, <1>13, <1>14, <1>15, <1>16, <1>17

LEMMA BackupFailsKeeps ==
  ASSUME IInv, BackupFails, Aside
  PROVE  IInv'
<1>1. TransferAt("backup") /\ Step("backup")
  BY TransferAtWork DEF BackupFails, EnrollSteps
<1>2. wf # None /\ wf.state = "replacement" /\ resolving = None
  BY <1>1 DEF IInv, Inv, AtStep, At, Sealed
<1>3. MoreFaults
  BY <1>1, JournalAssumption DEF BackupFails, Types, MoreFaults
<1>4. Core(dir', older') /\ UNCHANGED debt
  BY DEF BackupFails, IInv, Inv
<1>5. QED
  BY <1>1, <1>2, <1>3, <1>4, RunEnds DEF BackupFails, EndWarned, EndMemory, Ended, Sealed,
     EnrollSteps, outside

-----------------------------------------------------------------------------
(* A version of a record with another state and reply, or another          *)
(* publication.                                                            *)
LEMMA TurnedIs ==
  ASSUME NEW r, Fit(r), NEW state, NEW reply,
         state \in EnrollmentStates \cup TransferStates, reply \in {"none", "usable", "unusable"},
         r.kind = "transfer" => state \in TransferStates,
         r.kind = "enrollment" => state \in EnrollmentStates,
         reply = "usable" <=> state \in {"replacement", "recoverable"},
         reply = "unusable" => state = "unreadable"
  PROVE  /\ Fit(Turned(r, state, reply)) /\ SameIdentity(r, Turned(r, state, reply))
         /\ Turned(r, state, reply) \in Record /\ Turned(r, state, reply) # None
         /\ Turned(r, state, reply).attempt = r.attempt
         /\ Turned(r, state, reply).kind = r.kind
         /\ Turned(r, state, reply).prior = r.prior
         /\ Turned(r, state, reply).state = state
         /\ Turned(r, state, reply).reply = reply
<1> DEFINE t == Turned(r, state, reply)
<1>1. r \in Record
  BY DEF Fit
<1>2. t \in Record /\ t.state = state /\ t.reply = reply
      /\ t.attempt = r.attempt /\ t.kind = r.kind /\ t.prior = r.prior
  BY <1>1 DEF Turned, Record
<1>3. Fit(t)
  BY <1>2 DEF Fit
<1>4. QED
  BY <1>2, <1>3, NoneAssumption DEF SameIdentity

LEMMA PublishedIs ==
  ASSUME NEW r, Fit(r), NEW p, p = [r EXCEPT !.published = TRUE]
  PROVE  /\ Fit(p) /\ SameIdentity(r, p) /\ p \in Record /\ p # None
         /\ p.attempt = r.attempt /\ p.kind = r.kind /\ p.prior = r.prior
         /\ p.state = r.state /\ p.reply = r.reply
<1>1. r \in Record
  BY DEF Fit
<1>2. p \in Record /\ p.state = r.state /\ p.reply = r.reply
      /\ p.attempt = r.attempt /\ p.kind = r.kind /\ p.prior = r.prior
  BY <1>1 DEF Record
<1>3. Fit(p)
  BY <1>2 DEF Fit
<1>4. QED
  BY <1>2, <1>3, NoneAssumption DEF SameIdentity

(* What is written over a directory that shows the record itself.          *)
LEMMA FollowsRead ==
  ASSUME NEW d, NEW o, NEW r, NEW s, Sound(d, o), Read(r, d), Follows(r, s), Reconcilable(d)
  PROVE  \A f \in Merged(d).files : Follows(f, s)
<1>1. Single(d) /\ \A q \in Recs(d) : Fit(q)
  BY WrittenBy DEF Sound
<1>2. Merged(d) = d
  BY <1>1, MergedSound DEF Read
<1>3. QED
  BY <1>2 DEF Read

(* A later version of the record the transfer goes by is written.          *)
LEMMA TransferWrites ==
  ASSUME IInv, wf # None, erec = None, NEW r, Fit(r), SameIdentity(wf, r), r.state # "sending",
         Known(r), owed # None /\ owed.state = "replacement" => r.state = "replacement",
         unsaved \/ Sealed => r.reply = "usable", badHeld => r.reply = "unusable",
         r.reply # "none" \/ received = {},
         Reconcilable(dir) => \A f \in Merged(dir).files : Follows(f, r),
         NEW x \in Updates(r), Happens(x)
  PROVE  /\ Core(dir', older') /\ debt' = debt /\ MoreFaults /\ x.ok \in BOOLEAN
         /\ x.ok => /\ dir' = [files |-> {r}, staged |-> {}, torn |-> FALSE] /\ older' = {}
                    /\ Read(r, dir') /\ Trace(r.attempt, dir') /\ Mine(r, dir', older')
                    /\ Waiting(dir', r.reply)
                    /\ r.state = "replacement" => Sealing(dir')
                    /\ r.reply # "none" => \A b : SafeIn(r.attempt, dir', older', b)
                    /\ Keeps(r.attempt, dir', older')
         /\ \A reply : Waiting(dir, reply) /\ r.reply = reply => Waiting(dir', reply)
         /\ Keeps(r.attempt, dir, older) /\ r.reply # "none" => Keeps(r.attempt, dir', older')
<1>1. MayWrite(r, dir, older)
  BY DEF IInv, Inv, Core, Transfers, MayWrite, SameIdentity, Mine, Fit
<1>2. /\ Core(dir', older') /\ debt' = debt /\ MoreFaults /\ x.ok \in BOOLEAN
      /\ x.ok => dir' = [files |-> {r}, staged |-> {}, torn |-> FALSE] /\ older' = {}
      /\ \A reply : Waiting(dir, reply) /\ r.reply = reply => Waiting(dir', reply)
      /\ Keeps(r.attempt, dir, older) /\ r.reply # "none" => Keeps(r.attempt, dir', older')
  BY <1>1, WriteHappens
<1>3. ASSUME x.ok
      PROVE  /\ Read(r, dir') /\ Trace(r.attempt, dir') /\ Mine(r, dir', {})
             /\ Waiting(dir', r.reply)
             /\ r.state = "replacement" => Sealing(dir')
             /\ r.reply # "none" => \A b : SafeIn(r.attempt, dir', {}, b)
  BY <1>2, <1>3, Alone
<1>4. Keeps(r.attempt, dir', {})
  BY DEF Keeps
<1>5. QED
  BY <1>2, <1>3, <1>4

(* The record a reading shows of the transfer this process goes by.        *)
LEMMA ExactFits ==
  ASSUME Inv(dir', older'), wf # None, dir'.staged = {}, ~dir'.torn,
         NEW r, r = Exact(dir'), r # None
  PROVE  /\ Fit(r) /\ r.kind = "transfer" /\ SameIdentity(wf, r) /\ Known(r)
         /\ Mine(r, dir', older') /\ Read(r, dir') /\ r \in Record
         /\ dir'.files = {r} \/ (dir'.files = {} /\ r = owed /\ owed # None)
         /\ owed # None => SameIdentity(owed, r)
         /\ owed # None /\ owed.state = "replacement" => r.state = "replacement"
<1>1. /\ Sound(dir', older') /\ Fit(wf) /\ wf.kind = "transfer" /\ Mine(wf, dir', older')
      /\ owed # None => /\ Fit(owed) /\ SameIdentity(owed, wf)
                        /\ owed.state = "replacement" => Sealing(dir')
  BY DEF Inv, Core, Transfers
<1>2. /\ \A s \in Written(dir', older') : Known(s) /\ Fit(s)
      /\ owed # None => Known(owed)
  BY DEF Inv, Core, World, Sound
<1>3. /\ \/ dir'.files = {} /\ r = (IF owed # None /\ owed.attempt = wf.attempt THEN owed ELSE None)
         \/ dir'.files = {r} /\ r \in Written(dir', older')
      /\ Read(r, dir')
  BY <1>1, ExactIs
<1>4. SameIdentity(wf, r) /\ Fit(r) /\ Known(r)
  BY <1>1, <1>2, <1>3 DEF Mine, SameIdentity
<1>5. owed # None => SameIdentity(owed, r)
  BY <1>1, <1>4 DEF SameIdentity
<1>6. owed # None /\ owed.state = "replacement" => r.state = "replacement"
  <2>1. dir'.files = {r} => r \in Recs(dir')
    BY DEF Recs
  <2>2. QED
    BY <1>1, <1>3, <2>1 DEF Sealing
<1>7. Mine(r, dir', older') /\ r.kind = "transfer"
  BY <1>1, <1>4 DEF Mine, SameIdentity
<1>8. QED
  BY <1>3, <1>4, <1>5, <1>6, <1>7 DEF Fit

LEMMA RetainedKeeps ==
  ASSUME IInv, RetainUnusable, Aside,
         NEW t, Fit(t), SameIdentity(wf, t), t \in Record, t # None, Known(t),
         t.attempt = wf.attempt, t.kind = wf.kind, t.prior = wf.prior,
         Core(dir', older'), debt' = debt, MoreFaults, older' = {}, wf' = t,
         Read(t, dir'), Trace(t.attempt, dir'), Mine(t, dir', older'), Waiting(dir', t.reply),
         t.state = "replacement" => Sealing(dir'),
         t.reply # "none" => \A b : SafeIn(t.attempt, dir', older', b),
         Keeps(t.attempt, dir', older'),
         t.state = "unreadable", t.reply = "unusable", badHeld' = FALSE
  PROVE  IInv'
<1>1. Core(dir', older') /\ debt' = debt /\ MoreFaults
  OBVIOUS
<1>2. TransferAt("hydrate") /\ Step("hydrate")
  BY TransferAtWork DEF RetainUnusable, EnrollSteps
<1>3. /\ badHeld /\ wf # None /\ wf.kind = "transfer" /\ wf.attempt \in sent /\ ~unsaved
      /\ owed = None /\ resolving = None /\ proving = None
      /\ open \subseteq {wf.attempt} /\ received \subseteq {wf.attempt}
      /\ enrollOwed = None /\ staged = None
  BY <1>2 DEF RetainUnusable, IInv, Inv, Core, Transfers, AtStep, At, World, Types
<1>4. /\ wf' = t
      /\ badHeld' = FALSE /\ job' = None /\ phase' = "no" /\ recovering' = FALSE
      /\ UNCHANGED <<signin, vault, world, enrollment, problem, owed, proving,
         resolving, unsaved, debt>>
  BY <1>1, <1>2, <1>3, SetAside, GoneTo DEF RetainUnusable
<1> USE <1>1, <1>2, <1>3, <1>4 DEF IInv, Inv, Core, At, Idle, Holding, Sealed, RowIs, Rows
<1>5. Types'
  <2>1. TransferTypeOK'
    BY DEF Types, TransferTypeOK
  <2>2. EnrollTypeOK'
    BY DEF Types, EnrollTypeOK
  <2>3. QED
    BY <2>1, <2>2 DEF Types, MoreFaults
<1>6. Transfers(dir, older)'
  BY DEF Transfers, SameIdentity
<1>7. Enrolments(dir, older)'
  BY DEF Enrolments, OfEnrolment
<1>8. Opened(dir, older)'
  BY DEF Opened
<1>9. RepliesKept(dir, older)'
  BY DEF RepliesKept, Held
<1>10. World(dir, older)'
  BY DEF World, Known, Superseded, RowKnown
<1>11. Phases(dir, older)'
  BY DEF Phases, Awaits, EnrollSteps
<1>12. AtStep(dir)'
  BY DEF AtStep, Saving, Secured, Truth, Resolutions
<1>13. EnrollAtStep(dir)'
  BY DEF EnrollAtStep, Stowed, Secured, Resolutions
<1>14. QED
  BY <1>5, <1>6, <1>7, <1>8, <1>9, <1>10, <1>11, <1>12, <1>13

LEMMA RetainUnusableKeeps ==
  ASSUME IInv, RetainUnusable, Aside
  PROVE  IInv'
<1> DEFINE t == Turned(wf, "unreadable", "unusable")
<1>1. TransferAt("hydrate") /\ Step("hydrate")
  BY TransferAtWork DEF RetainUnusable, EnrollSteps
<1>2. /\ badHeld /\ wf # None /\ wf.state = "sending" /\ Fit(wf) /\ wf.kind = "transfer"
      /\ wf.attempt \in sent /\ Waiting(dir, "unusable") /\ Mine(wf, dir, older)
      /\ unsaved = FALSE
      /\ owed = None /\ resolving = None /\ proving = None /\ Known(wf) /\ Sound(dir, older)
      /\ received \subseteq {wf.attempt}
  BY <1>1 DEF RetainUnusable, IInv, Inv, Core, Transfers, AtStep, At, World, Types,
     TransferTypeOK
<1>3. /\ Fit(t) /\ SameIdentity(wf, t) /\ t \in Record /\ t # None
      /\ t.attempt = wf.attempt /\ t.kind = wf.kind /\ t.prior = wf.prior
      /\ t.state = "unreadable" /\ t.reply = "unusable"
  <2>1. wf.kind # "enrollment" /\ "unreadable" \in TransferStates
    BY <1>2 DEF TransferStates
  <2>2. QED
    BY <1>2, <2>1, TurnedIs
<1>4. Known(t)
  BY <1>2, <1>3 DEF Known
<1>5. Reconcilable(dir) => \A f \in Merged(dir).files : Follows(f, t)
  <2>1. SUFFICES ASSUME Reconcilable(dir), NEW f \in Merged(dir).files PROVE Follows(f, t)
    OBVIOUS
  <2>2. Single(dir) /\ \A q \in Recs(dir) : Fit(q)
    BY <1>2, WrittenBy DEF Sound
  <2>3. f \in Recs(dir)
    BY <2>1, <2>2, MergedSound DEF Recs
  <2>4. SameIdentity(wf, f) /\ (f.state = "sending" \/ f.reply = "unusable") /\ Fit(f)
    BY <2>2, <2>3, <1>2, WrittenBy DEF Mine, Waiting
  <2>5. QED
    BY <2>4, <1>3 DEF Follows, SameIdentity, Fit, Record
<1>6. PICK x \in Updates(t) :
        /\ Happens(x) /\ wf' = IF x.ok THEN t ELSE wf
        /\ badHeld' = ~x.ok
  BY DEF RetainUnusable
<1>7. /\ Core(dir', older') /\ debt' = debt /\ MoreFaults /\ x.ok \in BOOLEAN
      /\ x.ok => /\ Wrote(t)
      /\ \A reply : Waiting(dir, reply) /\ t.reply = reply => Waiting(dir', reply)
      /\ Keeps(t.attempt, dir, older) /\ t.reply # "none" => Keeps(t.attempt, dir', older')
  BY <1>1, <1>2, <1>3, <1>4, <1>5, <1>6, TransferWrites DEF Sealed
<1>8. CASE x.ok
  <2>1. wf' = t /\ badHeld' = FALSE
    BY <1>6, <1>8
  <2>2. Wrote(t)
    BY <1>7, <1>8
  <2>3. QED
    BY <1>1, <1>2, <1>3, <1>4, <1>7, <2>1, <2>2, RetainedKeeps
<1>9. CASE ~x.ok
  <2>1. UNCHANGED <<wf, badHeld>>
    BY <1>2, <1>6, <1>7, <1>9
  <2>2. Ended
    BY <1>1, <1>2, <1>7, <2>1 DEF RetainUnusable, Ended, EndMemory, EndWarned, Sealed
  <2>3. Unmoved
    BY <1>1, <1>2, <1>7, <2>1 DEF RetainUnusable, EndMemory, EndWarned, outside
  <2>4. QED
    BY <1>1, <1>2, <1>7, <2>1, <2>2, <2>3, RunEnds DEF EnrollSteps
<1>10. QED
  BY <1>7, <1>8, <1>9

LEMMA PromoteOnKeeps ==
  ASSUME IInv, Promote, Aside,
         NEW r, r = Exact(dir'), r # None, dir'.staged = {}, ~dir'.torn,
         Inv(dir', older'), debt' = debt, MoreFaults, wf' = r,
         Goto("inspect"), r.state \in {"replacement", "sending"},
         UNCHANGED <<asking, unsaved>>
  PROVE  IInv'
<1>1. Inv(dir', older') /\ debt' = debt /\ MoreFaults
  OBVIOUS
<1>2. TransferAt("promote") /\ Step("promote")
  BY TransferAtWork DEF Promote, EnrollSteps
<1>3. /\ wf # None /\ enrollOwed = None /\ staged = None /\ open \subseteq {wf.attempt}
      /\ received \subseteq open
  BY <1>2 DEF Inv, Core, Transfers, AtStep, At, IInv, Types
<1>4. ReadBack(r)
  BY <1>3, ExactFits DEF SameIdentity
<1>5. /\ unsaved = TRUE /\ ~badHeld /\ wf.attempt \in sent /\ Superseded(wf)
      /\ Waiting(dir', "usable")
  BY <1>1, <1>2, <1>3 DEF Inv, IInv, Core, Transfers, World, AtStep, At, Types,
     TransferTypeOK
<1>6. \A n \in received : /\ Keeps(n, dir', older')
                        /\ \/ ~RowIs(n) /\ ~Rows(n, bak) /\ r.state # "replacement"
                           \/ SafeIn(n, dir', older', RowIs(n))
  <2>1. \A n \in received : n = wf.attempt
    BY <1>1, <1>2, <1>3, <1>4, <1>5 DEF Types
  <2>2. ASSUME NEW n \in received
        PROVE  /\ \/ ~Sealed /\ ~RowIs(n) /\ ~Rows(n, bak)
                  \/ SafeIn(n, dir', older', RowIs(n))
               /\ Keeps(n, dir', older')
    BY <1>1, <1>2, <1>3, <1>4, <1>5 DEF Inv, Core, RepliesKept, Held
  <2>3. ASSUME r.state = "replacement", ~Sealed, NEW n \in received
        PROVE  SafeIn(n, dir', older', RowIs(n))
    <3>1. r \in dir'.files
      BY <2>3, <1>1, <1>2, <1>3, <1>4, <1>5 DEF Inv, Core, Transfers, Sealed
    <3>2. Has(n, dir')
      BY <2>1, <2>3, <3>1, <1>1, <1>2, <1>3, <1>4, <1>5 DEF Has, Recs, Fit
    <3>3. QED
      BY <2>2, <3>2 DEF Keeps, SafeIn
  <2>4. QED
    BY <2>2, <2>3 DEF Sealed
<1>7. /\ wf' = r /\ wf' # None
      /\ GoesOn("inspect")
      /\ UNCHANGED <<signin, asking, vault, world, enrollment, problem, owed, unsaved,
         badHeld, debt>>
  BY <1>1, <1>2, <1>3, <1>4, <1>5, <1>6, SetAside, GoneTo DEF Promote
<1>8. Superseded(r)
  BY <1>1, <1>2, <1>3, <1>4, <1>5, <1>6, <1>7 DEF Superseded
<1> USE <1>1, <1>2, <1>3, <1>4, <1>5, <1>6, <1>7, <1>8 DEF IInv, Inv, Core, At, Idle,
   Holding, Sealed, RowIs, Rows
<1>9. Types'
  <2>1. TransferTypeOK'
    BY DEF Types, TransferTypeOK
  <2>2. EnrollTypeOK'
    BY DEF Types, EnrollTypeOK
  <2>3. QED
    BY <2>1, <2>2 DEF Types, MoreFaults
<1>10. Transfers(dir, older)'
  BY DEF Transfers, SameIdentity
<1>11. Enrolments(dir, older)'
  BY DEF Enrolments, OfEnrolment
<1>12. Opened(dir, older)'
  BY DEF Opened
<1>13. RepliesKept(dir, older)'
  BY DEF RepliesKept, Held
<1>14. World(dir, older)'
  BY DEF World, Known, Superseded, RowKnown
<1>15. Phases(dir, older)'
  BY DEF Phases, Awaits, EnrollSteps
<1>16. AtStep(dir)'
  BY DEF AtStep, Saving, Secured, Truth, Resolutions
<1>17. EnrollAtStep(dir)'
  BY DEF EnrollAtStep, Stowed, Secured, Resolutions
<1>18. QED
  BY <1>9, <1>10, <1>11, <1>12, <1>13, <1>14, <1>15, <1>16, <1>17

LEMMA PromoteKeeps ==
  ASSUME IInv, Promote, Aside
  PROVE  IInv'
<1>1. TransferAt("promote") /\ Step("promote")
  BY TransferAtWork DEF Promote, EnrollSteps
<1>2. wf # None /\ enrollOwed = None
  BY <1>1 DEF IInv, Inv, Core, Transfers, AtStep, At
<1>3. PICK x \in Reads :
        /\ Happens(x)
        /\ IF x.ok /\ ~Ambiguous(x.dir) /\ Exact(x.dir) # None
                /\ Exact(x.dir).state \in {"replacement", "sending"}
           THEN wf' = Exact(x.dir) /\ Goto("inspect") /\ UNCHANGED <<asking, unsaved>>
           ELSE EndMemory(wf) /\ UNCHANGED wf
  BY DEF Promote
<1>4. /\ Inv(dir', older') /\ debt' = debt /\ MoreFaults /\ x.dir = dir'
      /\ x.ok => dir'.staged = {} /\ ~dir'.torn
  BY <1>3, ReadHappens
<1>5. CASE x.ok /\ ~Ambiguous(x.dir) /\ Exact(x.dir) # None
             /\ Exact(x.dir).state \in {"replacement", "sending"}
  <2>1. /\ wf' = Exact(dir') /\ Goto("inspect") /\ UNCHANGED <<asking, unsaved>>
        /\ Exact(dir') # None /\ Exact(dir').state \in {"replacement", "sending"}
    BY <1>3, <1>4, <1>5
  <2>2. QED
    BY <1>4, <1>5, <2>1, PromoteOnKeeps
<1>6. CASE ~(x.ok /\ ~Ambiguous(x.dir) /\ Exact(x.dir) # None
               /\ Exact(x.dir).state \in {"replacement", "sending"})
  <2>1. EndMemory(wf) /\ UNCHANGED wf /\ Core(dir', older')
    BY <1>3, <1>4, <1>6 DEF Inv
  <2>2. Ended
    BY <1>1, <1>2, <1>4, <2>1 DEF Promote, Ended, EndMemory, EndWarned, Sealed
  <2>3. Unmoved
    BY <1>1, <1>2, <1>4, <2>1 DEF Promote, EndMemory, EndWarned, outside
  <2>4. QED
    BY <1>1, <1>2, <1>4, <2>1, <2>2, <2>3, RunEnds DEF EnrollSteps
<1>7. QED
  BY <1>5, <1>6

LEMMA PromoteSentKeeps ==
  ASSUME IInv, PromoteSending, Aside,
         NEW t, Fit(t), SameIdentity(wf, t), t \in Record, t # None, Known(t),
         t.attempt = wf.attempt, t.kind = wf.kind, t.prior = wf.prior,
         Core(dir', older'), debt' = debt, MoreFaults, older' = {}, wf' = t,
         Read(t, dir'), Trace(t.attempt, dir'), Mine(t, dir', older'), Waiting(dir', t.reply),
         t.state = "replacement" => Sealing(dir'),
         t.reply # "none" => \A b : SafeIn(t.attempt, dir', older', b),
         Keeps(t.attempt, dir', older'),
         t.state = "replacement", t.reply = "usable", UNCHANGED <<job, asking, unsaved>>
  PROVE  IInv'
<1>1. Core(dir', older') /\ debt' = debt /\ MoreFaults
  OBVIOUS
<1>2. TransferAt("inspect") /\ Step("inspect")
  BY TransferAtWork DEF PromoteSending, EnrollSteps
<1>3. /\ wf # None /\ wf.kind = "transfer" /\ Read(wf, dir) /\ Fit(wf) /\ Known(wf)
      /\ Sound(dir, older) /\ open \subseteq {wf.attempt} /\ received \subseteq {wf.attempt}
      /\ enrollOwed = None /\ staged = None /\ unsaved \in BOOLEAN /\ badHeld = FALSE
      /\ unsaved = TRUE /\ wf.state = "sending" /\ wf.attempt \in sent /\ Superseded(wf)
      /\ ~(owed # None /\ owed.state = "replacement")
  BY <1>2 DEF IInv, Inv, Core, Transfers, AtStep, At, World, Types, TransferTypeOK, Known,
     Holding, PromoteSending
<1>4. /\ wf' = t
      /\ wf'.state = "replacement" /\ wf'.reply = "usable"
      /\ UNCHANGED <<signin, asking, vault, world, enrollment, problem, owed, unsaved,
         badHeld, job, debt>>
  BY <1>1, <1>2, <1>3, SetAside, GoneTo DEF PromoteSending
<1>5. Superseded(t)
  BY <1>1, <1>2, <1>3, <1>4 DEF Superseded
<1>6. received \subseteq open
  BY <1>1, <1>2, <1>3, <1>4, <1>5 DEF Types
<1> USE <1>1, <1>2, <1>3, <1>4, <1>5, <1>6 DEF IInv, Inv, Core, At, Idle, Holding, Sealed,
   RowIs, Rows
<1>7. Types'
  <2>1. TransferTypeOK'
    BY DEF Types, TransferTypeOK
  <2>2. EnrollTypeOK'
    BY DEF Types, EnrollTypeOK
  <2>3. QED
    BY <2>1, <2>2 DEF Types, MoreFaults
<1>8. Transfers(dir, older)'
  BY DEF Transfers, SameIdentity
<1>9. Enrolments(dir, older)'
  BY DEF Enrolments, OfEnrolment
<1>10. Opened(dir, older)'
  BY DEF Opened
<1>11. RepliesKept(dir, older)'
  BY DEF RepliesKept, Held
<1>12. World(dir, older)'
  BY DEF World, Known, Superseded, RowKnown
<1>13. Phases(dir, older)'
  BY DEF Phases, Awaits, EnrollSteps
<1>14. AtStep(dir)'
  BY DEF AtStep, Saving, Secured, Truth, Resolutions
<1>15. EnrollAtStep(dir)'
  BY DEF EnrollAtStep, Stowed, Secured, Resolutions
<1>16. QED
  BY <1>7, <1>8, <1>9, <1>10, <1>11, <1>12, <1>13, <1>14, <1>15

LEMMA PromoteSendingKeeps ==
  ASSUME IInv, PromoteSending, Aside
  PROVE  IInv'
<1> DEFINE t == Turned(wf, "replacement", "usable")
<1>1. TransferAt("inspect") /\ Step("inspect")
  BY TransferAtWork DEF PromoteSending, EnrollSteps
<1>2. /\ wf # None /\ wf.kind = "transfer" /\ Read(wf, dir) /\ Fit(wf) /\ Known(wf)
      /\ Sound(dir, older) /\ open \subseteq {wf.attempt} /\ received \subseteq {wf.attempt}
      /\ enrollOwed = None /\ staged = None /\ unsaved \in BOOLEAN /\ badHeld = FALSE
      /\ unsaved = TRUE /\ wf.state = "sending" /\ wf.attempt \in sent /\ Superseded(wf)
      /\ ~(owed # None /\ owed.state = "replacement")
  BY <1>1 DEF IInv, Inv, Core, Transfers, AtStep, At, World, Types, TransferTypeOK, Known,
     Holding, PromoteSending
<1>3. /\ Fit(t) /\ SameIdentity(wf, t) /\ t \in Record /\ t # None
      /\ t.attempt = wf.attempt /\ t.kind = wf.kind /\ t.prior = wf.prior
      /\ t.state = "replacement" /\ t.reply = "usable"
  <2>1. wf.kind # "enrollment" /\ "replacement" \in TransferStates
    BY <1>2 DEF TransferStates
  <2>2. QED
    BY <1>2, <2>1, TurnedIs
<1>4. Known(t)
  BY <1>2, <1>3 DEF Known, Superseded
<1>5. Reconcilable(dir) => \A f \in Merged(dir).files : Follows(f, t)
  <2>1. Follows(wf, t)
    BY <1>2, <1>3 DEF Follows, Fit, Record
  <2>2. QED
    BY <1>2, <2>1, FollowsRead
<1>6. PICK x \in Updates(t) : Happens(x) /\ IF x.ok THEN wf' = t /\ UNCHANGED <<job, asking,
         unsaved>> ELSE EndMemory(wf) /\ UNCHANGED wf
  BY DEF PromoteSending
<1>7. /\ Core(dir', older') /\ debt' = debt /\ MoreFaults /\ x.ok \in BOOLEAN
      /\ x.ok => /\ Wrote(t)
      /\ \A reply : Waiting(dir, reply) /\ t.reply = reply => Waiting(dir', reply)
      /\ Keeps(t.attempt, dir, older) /\ t.reply # "none" => Keeps(t.attempt, dir', older')
  BY <1>1, <1>2, <1>3, <1>4, <1>5, <1>6, TransferWrites DEF Sealed
<1>8. CASE x.ok
  <2>1. Wrote(t)
    BY <1>7, <1>8
  <2>2. wf' = t /\ UNCHANGED <<job, asking, unsaved>>
    BY <1>6, <1>8
  <2>3. QED
    BY <1>1, <1>2, <1>3, <1>4, <1>7, <2>1, <2>2, PromoteSentKeeps
<1>9. CASE ~x.ok
  <2>1. EndMemory(wf) /\ UNCHANGED wf
    BY <1>6, <1>9
  <2>2. Ended
    BY <1>1, <1>2, <1>7, <2>1 DEF PromoteSending, Ended, EndMemory, EndWarned, Sealed
  <2>3. Unmoved
    BY <1>1, <1>2, <1>7, <2>1 DEF PromoteSending, EndMemory, EndWarned, outside
  <2>4. QED
    BY <1>1, <1>2, <1>7, <2>1, <2>2, <2>3, RunEnds DEF EnrollSteps
<1>10. QED
  BY <1>7, <1>8, <1>9

LEMMA PublishedKeeps ==
  ASSUME IInv, Publish, Aside,
         NEW t, Fit(t), SameIdentity(wf, t), t \in Record, t # None, Known(t),
         t.attempt = wf.attempt, t.kind = wf.kind, t.prior = wf.prior,
         Core(dir', older'), debt' = debt, MoreFaults, older' = {}, wf' = t,
         Read(t, dir'), Trace(t.attempt, dir'), Mine(t, dir', older'), Waiting(dir', t.reply),
         t.state = "replacement" => Sealing(dir'),
         t.reply # "none" => \A b : SafeIn(t.attempt, dir', older', b),
         Keeps(t.attempt, dir', older'),
         t.state = "replacement", t.reply = "usable", Goto("clear"),
         UNCHANGED <<phase, recovering, proving, unsaved, pending>>
  PROVE  IInv'
<1>1. Core(dir', older') /\ debt' = debt /\ MoreFaults
  OBVIOUS
<1>2. TransferAt("publish") /\ Step("publish")
  BY TransferAtWork DEF Publish, EnrollSteps
<1>3. /\ wf # None /\ wf.kind = "transfer" /\ Read(wf, dir) /\ Fit(wf) /\ Known(wf)
      /\ Sound(dir, older) /\ open \subseteq {wf.attempt} /\ received \subseteq {wf.attempt}
      /\ enrollOwed = None /\ staged = None /\ unsaved \in BOOLEAN /\ badHeld = FALSE
      /\ wf.state = "replacement" /\ wf.reply = "usable" /\ resolving = None
      /\ job.resolution = None /\ Secured(wf.attempt) /\ job.by \in {"submission", "recovery"}
  BY <1>2 DEF IInv, Inv, Core, Transfers, AtStep, At, World, Types, TransferTypeOK, Known,
     Holding, Sealed, Fit
<1>4. /\ wf' = t
      /\ wf'.state = "replacement" /\ wf'.reply = "usable"
      /\ GoesOn("clear")
      /\ UNCHANGED <<signin, asking, vault, world, enrollment, problem, owed, unsaved,
         badHeld, debt>>
  BY <1>1, <1>2, <1>3, SetAside, GoneTo DEF Publish
<1>5. received \subseteq open
  BY <1>1, <1>2, <1>3, <1>4 DEF Types
<1>6. None \notin Resolutions /\ None \notin Record
  BY NoneAssumption
<1> USE <1>1, <1>2, <1>3, <1>4, <1>5, <1>6 DEF IInv, Inv, Core, At, Idle, Holding, Sealed,
   RowIs, Rows
<1>7. Types'
  <2>1. TransferTypeOK'
    BY DEF Types, TransferTypeOK
  <2>2. EnrollTypeOK'
    BY DEF Types, EnrollTypeOK
  <2>3. QED
    BY <2>1, <2>2 DEF Types, MoreFaults
<1>8. Transfers(dir, older)'
  BY DEF Transfers, SameIdentity
<1>9. Enrolments(dir, older)'
  BY DEF Enrolments, OfEnrolment
<1>10. Opened(dir, older)'
  BY DEF Opened
<1>11. RepliesKept(dir, older)'
  BY DEF RepliesKept, Held
<1>12. World(dir, older)'
  BY DEF World, Known, Superseded, RowKnown
<1>13. Phases(dir, older)'
  BY DEF Phases, Awaits, EnrollSteps
<1>14. AtStep(dir)'
  BY DEF AtStep, Saving, Secured, Truth, Resolutions
<1>15. EnrollAtStep(dir)'
  BY DEF EnrollAtStep, Stowed, Secured, Resolutions
<1>16. QED
  BY <1>7, <1>8, <1>9, <1>10, <1>11, <1>12, <1>13, <1>14, <1>15

LEMMA PublishKeeps ==
  ASSUME IInv, Publish, Aside
  PROVE  IInv'
<1> DEFINE t == [wf EXCEPT !.published = TRUE]
<1>1. TransferAt("publish") /\ Step("publish")
  BY TransferAtWork DEF Publish, EnrollSteps
<1>2. /\ wf # None /\ wf.kind = "transfer" /\ Read(wf, dir) /\ Fit(wf) /\ Known(wf)
      /\ Sound(dir, older) /\ open \subseteq {wf.attempt} /\ received \subseteq {wf.attempt}
      /\ enrollOwed = None /\ staged = None /\ unsaved \in BOOLEAN /\ badHeld = FALSE
      /\ wf.state = "replacement" /\ wf.reply = "usable" /\ resolving = None
      /\ job.resolution = None /\ Secured(wf.attempt) /\ job.by \in {"submission", "recovery"}
  BY <1>1 DEF IInv, Inv, Core, Transfers, AtStep, At, World, Types, TransferTypeOK, Known,
     Holding, Sealed, Fit
<1>3. /\ Fit(t) /\ SameIdentity(wf, t) /\ t \in Record /\ t # None
      /\ t.attempt = wf.attempt /\ t.kind = wf.kind /\ t.prior = wf.prior
      /\ t.state = wf.state /\ t.reply = wf.reply
  BY <1>2, PublishedIs
<1>4. Known(t)
  BY <1>2, <1>3 DEF Known, Superseded
<1>5. Reconcilable(dir) => \A f \in Merged(dir).files : Follows(f, t)
  <2>1. Follows(wf, t)
    BY <1>2, <1>3 DEF Follows, Fit, Record
  <2>2. QED
    BY <1>2, <2>1, FollowsRead
<1>6. PICK x \in Updates(t) : Happens(x) /\ IF x.ok THEN /\ wf' = t /\ Goto("clear")
                          /\ UNCHANGED <<phase, recovering, proving, unsaved, pending>>
                  ELSE EndWarned /\ UNCHANGED wf
  BY DEF Publish
<1>7. /\ Core(dir', older') /\ debt' = debt /\ MoreFaults /\ x.ok \in BOOLEAN
      /\ x.ok => /\ Wrote(t)
      /\ \A reply : Waiting(dir, reply) /\ t.reply = reply => Waiting(dir', reply)
      /\ Keeps(t.attempt, dir, older) /\ t.reply # "none" => Keeps(t.attempt, dir', older')
  BY <1>1, <1>2, <1>3, <1>4, <1>5, <1>6, TransferWrites DEF Sealed
<1>8. CASE x.ok
  <2>1. Wrote(t)
    BY <1>7, <1>8
  <2>2. wf' = t /\ Goto("clear") /\ UNCHANGED <<phase, recovering, proving, unsaved, pending>>
    BY <1>6, <1>8
  <2>3. QED
    BY <1>1, <1>2, <1>3, <1>4, <1>7, <2>1, <2>2, PublishedKeeps
<1>9. CASE ~x.ok
  <2>1. EndWarned /\ UNCHANGED wf
    BY <1>6, <1>9
  <2>2. Ended
    BY <1>1, <1>2, <1>7, <2>1 DEF Publish, Ended, EndMemory, EndWarned, Sealed
  <2>3. Unmoved
    BY <1>1, <1>2, <1>7, <2>1 DEF Publish, EndMemory, EndWarned, outside
  <2>4. QED
    BY <1>1, <1>2, <1>7, <2>1, <2>2, <2>3, RunEnds DEF EnrollSteps
<1>10. QED
  BY <1>7, <1>8, <1>9

LEMMA DeniedKeeps ==
  ASSUME IInv, Deny, Aside,
         NEW t, Fit(t), SameIdentity(wf, t), t \in Record, t # None, Known(t),
         t.attempt = wf.attempt, t.kind = wf.kind, t.prior = wf.prior,
         Core(dir', older'), debt' = debt, MoreFaults, older' = {}, wf' = t,
         Read(t, dir'), Trace(t.attempt, dir'), Mine(t, dir', older'), Waiting(dir', t.reply),
         t.state = "replacement" => Sealing(dir'),
         t.reply # "none" => \A b : SafeIn(t.attempt, dir', older', b),
         Keeps(t.attempt, dir', older'),
         t.state = "not-replaced", t.reply = "none", owed' = None
  PROVE  IInv'
<1>1. Core(dir', older') /\ debt' = debt /\ MoreFaults
  OBVIOUS
<1>2. TransferAt("deny") /\ Step("deny")
  BY TransferAtWork DEF Deny, EnrollSteps
<1>3. /\ wf # None /\ wf.kind = "transfer" /\ Read(wf, dir) /\ Fit(wf) /\ Known(wf)
      /\ Sound(dir, older) /\ open \subseteq {wf.attempt} /\ received \subseteq {wf.attempt}
      /\ enrollOwed = None /\ staged = None /\ unsaved \in BOOLEAN /\ badHeld = FALSE
      /\ unsaved = FALSE /\ wf.reply = "none" /\ open = {} /\ received = {}
      /\ wf.state # "replacement"
      /\ ~(owed # None /\ owed.state = "replacement")
  BY <1>2 DEF IInv, Inv, Core, Transfers, AtStep, At, World, Types, TransferTypeOK, Known,
     Holding, Fit
<1>4. /\ wf' = t
      /\ owed' = None /\ terminal' = "not-replaced" /\ RunOver /\ unsaved' = FALSE
      /\ UNCHANGED <<vault, world, enrollment, problem, pending, auth, challenging,
         badHeld, debt>>
  BY <1>1, <1>2, <1>3, SetAside, GoneTo DEF Deny, EndMemory
<1> USE <1>1, <1>2, <1>3, <1>4 DEF IInv, Inv, Core, At, Idle, Holding, Sealed, RowIs, Rows
<1>5. Types'
  <2>1. TransferTypeOK'
    BY DEF Types, TransferTypeOK
  <2>2. EnrollTypeOK'
    BY DEF Types, EnrollTypeOK
  <2>3. QED
    BY <2>1, <2>2 DEF Types, MoreFaults
<1>6. Transfers(dir, older)'
  BY DEF Transfers, SameIdentity
<1>7. Enrolments(dir, older)'
  BY DEF Enrolments, OfEnrolment
<1>8. Opened(dir, older)'
  BY DEF Opened
<1>9. RepliesKept(dir, older)'
  BY DEF RepliesKept, Held
<1>10. World(dir, older)'
  BY DEF World, Known, Superseded, RowKnown
<1>11. Phases(dir, older)'
  BY DEF Phases, Awaits, EnrollSteps
<1>12. AtStep(dir)'
  BY DEF AtStep, Saving, Secured, Truth, Resolutions
<1>13. EnrollAtStep(dir)'
  BY DEF EnrollAtStep, Stowed, Secured, Resolutions
<1>14. QED
  BY <1>5, <1>6, <1>7, <1>8, <1>9, <1>10, <1>11, <1>12, <1>13

LEMMA DenyKeeps ==
  ASSUME IInv, Deny, Aside
  PROVE  IInv'
<1> DEFINE t == Turned(wf, "not-replaced", "none")
<1>1. TransferAt("deny") /\ Step("deny")
  BY TransferAtWork DEF Deny, EnrollSteps
<1>2. /\ wf # None /\ wf.kind = "transfer" /\ Read(wf, dir) /\ Fit(wf) /\ Known(wf)
      /\ Sound(dir, older) /\ open \subseteq {wf.attempt} /\ received \subseteq {wf.attempt}
      /\ enrollOwed = None /\ staged = None /\ unsaved \in BOOLEAN /\ badHeld = FALSE
      /\ unsaved = FALSE /\ wf.reply = "none" /\ open = {} /\ received = {}
      /\ wf.state # "replacement"
      /\ ~(owed # None /\ owed.state = "replacement")
  BY <1>1 DEF IInv, Inv, Core, Transfers, AtStep, At, World, Types, TransferTypeOK, Known,
     Holding, Fit
<1>3. /\ Fit(t) /\ SameIdentity(wf, t) /\ t \in Record /\ t # None
      /\ t.attempt = wf.attempt /\ t.kind = wf.kind /\ t.prior = wf.prior
      /\ t.state = "not-replaced" /\ t.reply = "none"
  <2>1. wf.kind # "enrollment" /\ "not-replaced" \in TransferStates
    BY <1>2 DEF TransferStates
  <2>2. QED
    BY <1>2, <2>1, TurnedIs
<1>4. Known(t)
  BY <1>2, <1>3 DEF Known, Superseded
<1>5. Reconcilable(dir) => \A f \in Merged(dir).files : Follows(f, t)
  <2>1. Follows(wf, t)
    BY <1>2, <1>3 DEF Follows, Fit, Record
  <2>2. QED
    BY <1>2, <2>1, FollowsRead
<1>6. PICK x \in Updates(t) : Happens(x) /\ /\ wf' = IF x.ok THEN t ELSE wf
                                  /\ owed' = IF x.ok THEN None ELSE owed
  BY DEF Deny
<1>7. /\ Core(dir', older') /\ debt' = debt /\ MoreFaults /\ x.ok \in BOOLEAN
      /\ x.ok => /\ Wrote(t)
      /\ \A reply : Waiting(dir, reply) /\ t.reply = reply => Waiting(dir', reply)
      /\ Keeps(t.attempt, dir, older) /\ t.reply # "none" => Keeps(t.attempt, dir', older')
  BY <1>1, <1>2, <1>3, <1>4, <1>5, <1>6, TransferWrites DEF Sealed
<1>8. CASE x.ok
  <2>1. Wrote(t)
    BY <1>7, <1>8
  <2>2. wf' = t /\ owed' = None
    BY <1>6, <1>8
  <2>3. QED
    BY <1>1, <1>2, <1>3, <1>4, <1>7, <2>1, <2>2, DeniedKeeps
<1>9. CASE ~x.ok
  <2>1. wf' = wf /\ owed' = owed
    BY <1>6, <1>9
  <2>2. Ended
    BY <1>1, <1>2, <1>7, <2>1 DEF Deny, Ended, EndMemory, EndWarned, Sealed
  <2>3. Unmoved
    BY <1>1, <1>2, <1>7, <2>1 DEF Deny, EndMemory, EndWarned, outside
  <2>4. QED
    BY <1>1, <1>2, <1>7, <2>1, <2>2, <2>3, RunEnds DEF EnrollSteps
<1>10. QED
  BY <1>7, <1>8, <1>9

LEMMA ClearedKeeps ==
  ASSUME IInv, Clear, Aside, Core(dir', older'), debt' = debt, MoreFaults, Blank(dir'),
         Cleared
  PROVE  IInv'
<1>1. Core(dir', older') /\ debt' = debt /\ MoreFaults
  OBVIOUS
<1>2. TransferAt("clear") /\ Step("clear")
  BY TransferAtWork DEF Clear, EnrollSteps
<1>3. /\ wf # None /\ Read(wf, dir) /\ badHeld = FALSE /\ enrollOwed = None /\ staged = None
      /\ open \subseteq {wf.attempt} /\ received \subseteq open
      /\ \A n \in open : RowIs(n)
  BY <1>2 DEF IInv, Inv, Core, Transfers, AtStep, At, Types, TransferTypeOK, Secured,
     Saving, RowIs
<1>4. /\ RunOver
      /\ wf' = None /\ owed' = None /\ unsaved' = FALSE
      /\ open' = {} /\ received' = {}
      /\ pending' \in {pending, "none"} /\ terminal' \in {terminal, None}
      /\ UNCHANGED <<vault, enrolment, enrollment, problem, auth, challenging, badHeld,
         steam, sent, adopted, debt>>
  <2>1. open' = {} /\ received' = {}
    <3>1. Saving => open' = {} /\ received' = {}
      BY <1>1, <1>2, <1>3 DEF Cleared, Settle
    <3>2. ~Saving => open = {} /\ received = {}
      BY <1>1, <1>2, <1>3 DEF IInv, Inv, AtStep, At
    <3>3. QED
      BY <3>1, <3>2 DEF Cleared
  <2>2. QED
    BY <1>1, <1>2, <1>3, <2>1, SetAside DEF Clear, Cleared
<1>5. ~Shows(dir')
  BY <1>1, <1>2, <1>3, <1>4 DEF Shows, Blank
<1> USE <1>1, <1>2, <1>3, <1>4, <1>5 DEF IInv, Inv, Core, At, Idle, Holding, Sealed, RowIs,
   Rows
<1>6. Types'
  <2>1. TransferTypeOK'
    BY DEF Types, TransferTypeOK
  <2>2. EnrollTypeOK'
    BY DEF Types, EnrollTypeOK
  <2>3. QED
    BY <2>1, <2>2 DEF Types, MoreFaults
<1>7. Transfers(dir, older)'
  BY DEF Transfers
<1>8. Enrolments(dir, older)'
  BY DEF Enrolments, OfEnrolment
<1>9. Opened(dir, older)'
  BY DEF Opened
<1>10. RepliesKept(dir, older)'
  BY DEF RepliesKept, Held
<1>11. World(dir, older)'
  BY DEF World, Known, Superseded, RowKnown
<1>12. Phases(dir, older)'
  BY DEF Phases, Awaits, EnrollSteps
<1>13. AtStep(dir)'
  BY DEF AtStep, Saving, Secured, Truth, Resolutions
<1>14. EnrollAtStep(dir)'
  BY DEF EnrollAtStep, Stowed, Secured, Resolutions
<1>15. QED
  BY <1>6, <1>7, <1>8, <1>9, <1>10, <1>11, <1>12, <1>13, <1>14

LEMMA ClearOwesKeeps ==
  ASSUME IInv, Clear, Aside, Core(dir', older'), debt' = debt, MoreFaults, Read(wf, dir'),
         Goto("owe"), UNCHANGED <<wf, owed, pending, terminal, asking, unsaved, open, received>>
  PROVE  IInv'
<1>1. Core(dir', older') /\ debt' = debt /\ MoreFaults
  OBVIOUS
<1>2. TransferAt("clear") /\ Step("clear")
  BY TransferAtWork DEF Clear, EnrollSteps
<1>3. /\ wf # None /\ Read(wf, dir) /\ badHeld = FALSE /\ enrollOwed = None /\ staged = None
      /\ open \subseteq {wf.attempt} /\ received \subseteq open
      /\ \A n \in open : RowIs(n)
  BY <1>2 DEF IInv, Inv, Core, Transfers, AtStep, At, Types, TransferTypeOK, Secured,
     Saving, RowIs
<1>4. /\ GoesOn("owe")
      /\ UNCHANGED <<transfer, vault, world, enrollment, debt>>
  BY <1>1, <1>2, <1>3, SetAside, GoneTo DEF Clear
<1>5. None \notin Resolutions /\ None \notin Record
  BY NoneAssumption
<1> USE <1>1, <1>2, <1>3, <1>4, <1>5 DEF IInv, Inv, Core, At, Idle, Holding, Sealed, RowIs,
   Rows
<1>6. Types'
  <2>1. TransferTypeOK'
    BY DEF Types, TransferTypeOK
  <2>2. EnrollTypeOK'
    BY DEF Types, EnrollTypeOK
  <2>3. QED
    BY <2>1, <2>2 DEF Types, MoreFaults
<1>7. Transfers(dir, older)'
  BY DEF Transfers
<1>8. Enrolments(dir, older)'
  BY DEF Enrolments, OfEnrolment
<1>9. Opened(dir, older)'
  BY DEF Opened
<1>10. RepliesKept(dir, older)'
  BY DEF RepliesKept, Held
<1>11. World(dir, older)'
  BY DEF World, Known, Superseded, RowKnown
<1>12. Phases(dir, older)'
  BY DEF Phases, Awaits, EnrollSteps
<1>13. AtStep(dir)'
  BY DEF AtStep, Saving, Secured, Truth, Resolutions
<1>14. EnrollAtStep(dir)'
  BY DEF EnrollAtStep, Stowed, Secured, Resolutions
<1>15. QED
  BY <1>6, <1>7, <1>8, <1>9, <1>10, <1>11, <1>12, <1>13, <1>14

LEMMA ClearRunKeeps ==
  ASSUME IInv, Clear, Aside
  PROVE  IInv'
<1>1. TransferAt("clear") /\ Step("clear")
  BY TransferAtWork DEF Clear, EnrollSteps
<1>2. /\ wf # None /\ Read(wf, dir) /\ badHeld = FALSE /\ enrollOwed = None /\ staged = None
      /\ open \subseteq {wf.attempt} /\ received \subseteq open
      /\ \A n \in open : RowIs(n)
  BY <1>1 DEF IInv, Inv, Core, Transfers, AtStep, At, Types, TransferTypeOK, Secured,
     Saving, RowIs
<1>3. PICK x \in Clears(wf) :
        /\ Happens(x)
        /\ IF x.ok THEN Cleared
           ELSE Goto("owe") /\ UNCHANGED <<wf, owed, pending, terminal, asking, unsaved, open,
                 received>>
  BY DEF Clear
<1>4. At({"clear"})
  BY <1>1 DEF At
<1>5. /\ Core(dir', older') /\ debt' = debt /\ MoreFaults /\ x.ok \in BOOLEAN
      /\ x.ok => Blank(dir')
      /\ Read(wf, dir')
  BY <1>2, <1>3, <1>4, ClearHappens
<1>6. CASE x.ok
  BY <1>3, <1>5, <1>6, ClearedKeeps
<1>7. CASE ~x.ok
  BY <1>3, <1>5, <1>7, ClearOwesKeeps
<1>8. QED
  BY <1>6, <1>7

LEMMA OweEndsKeeps ==
  ASSUME IInv, Owe, Aside, Inv(dir', older'), debt' = debt, MoreFaults,
         owed' = None \/ owed' = wf, owed' = None => \E f \in dir'.files : f.attempt = wf.attempt,
         EndMemory(wf), Saving \/ job.resolution = "resolvedOutsideApp"
  PROVE  IInv'
<1>1. Inv(dir', older') /\ debt' = debt /\ MoreFaults
  OBVIOUS
<1>2. TransferAt("owe") /\ Step("owe")
  BY TransferAtWork DEF Owe, EnrollSteps
<1>3. /\ wf # None /\ wf \in Record /\ Fit(wf) /\ Known(wf) /\ wf.kind = "transfer"
      /\ Read(wf, dir')
      /\ badHeld = FALSE /\ enrollOwed = None /\ staged = None
      /\ open \subseteq {wf.attempt} /\ received \subseteq open
  BY <1>1, <1>2 DEF IInv, Inv, Core, Transfers, World, AtStep, At, Types, TransferTypeOK,
     Fit
<1>4. Recs(dir') \subseteq {wf} /\ (owed' = None => Trace(wf.attempt, dir'))
  BY <1>3 DEF Read, Recs, Trace
<1>5. wf.state = "replacement" => Sealing(dir')
  BY <1>3, <1>4 DEF Sealing
<1>6. SameIdentity(wf, wf)
  BY DEF SameIdentity
<1>7. /\ owed' = None \/ owed' = wf
      /\ RunOver
      /\ unsaved' = FALSE /\ pending' \in {pending, "none"}
      /\ UNCHANGED <<vault, world, enrollment, wf, problem, terminal, auth, challenging,
         badHeld, debt>>
  <2>1. unsaved' = FALSE
    <3>1. Saving => wf.state = "replacement"
      BY <1>1, <1>2, <1>3, <1>4, <1>5, <1>6 DEF IInv, Inv, AtStep, At, Sealed
    <3>2. ~Saving => unsaved = FALSE
      BY <1>1, <1>2, <1>3, <1>4, <1>5, <1>6 DEF IInv, Inv, AtStep, At, Types, TransferTypeOK
    <3>3. QED
      BY <1>1, <1>2, <1>3, <1>4, <1>5, <1>6, <3>1, <3>2 DEF EndMemory
  <2>2. pending' \in {pending, "none"}
    BY DEF Owe
  <2>3. QED
    BY <1>1, <1>2, <1>3, <1>4, <1>5, <1>6, <2>1, <2>2, SetAside DEF Owe, EndMemory
<1>8. Sealed \/ ~Holding
  BY <1>1, <1>2, <1>3, <1>4, <1>5, <1>6, <1>7 DEF IInv, Inv, AtStep, At, Sealed, Holding
<1> USE <1>1, <1>2, <1>3, <1>4, <1>5, <1>6, <1>7, <1>8 DEF IInv, Inv, Core, At, Idle,
   Holding, Sealed, RowIs, Rows
<1>9. Types'
  <2>1. TransferTypeOK'
    BY DEF Types, TransferTypeOK
  <2>2. EnrollTypeOK'
    BY DEF Types, EnrollTypeOK
  <2>3. QED
    BY <2>1, <2>2 DEF Types, MoreFaults
<1>10. Transfers(dir, older)'
  BY DEF Transfers
<1>11. Enrolments(dir, older)'
  BY DEF Enrolments, OfEnrolment
<1>12. Opened(dir, older)'
  BY DEF Opened
<1>13. RepliesKept(dir, older)'
  BY DEF RepliesKept, Held
<1>14. World(dir, older)'
  BY DEF World, Known, Superseded, RowKnown
<1>15. Phases(dir, older)'
  BY DEF Phases, Awaits, EnrollSteps
<1>16. AtStep(dir)'
  BY DEF AtStep, Saving, Secured, Truth, Resolutions
<1>17. EnrollAtStep(dir)'
  BY DEF EnrollAtStep, Stowed, Secured, Resolutions
<1>18. QED
  BY <1>9, <1>10, <1>11, <1>12, <1>13, <1>14, <1>15, <1>16, <1>17

LEMMA OweDeniesKeeps ==
  ASSUME IInv, Owe, Aside, Inv(dir', older'), debt' = debt, MoreFaults,
         owed' = None \/ owed' = wf, owed' = None => \E f \in dir'.files : f.attempt = wf.attempt,
         Goto("deny"), UNCHANGED <<asking, unsaved, pending>>,
         ~Saving, job.resolution # "resolvedOutsideApp"
  PROVE  IInv'
<1>1. Inv(dir', older') /\ debt' = debt /\ MoreFaults
  OBVIOUS
<1>2. TransferAt("owe") /\ Step("owe")
  BY TransferAtWork DEF Owe, EnrollSteps
<1>3. /\ wf # None /\ wf \in Record /\ Fit(wf) /\ Known(wf) /\ wf.kind = "transfer"
      /\ Read(wf, dir')
      /\ badHeld = FALSE /\ enrollOwed = None /\ staged = None
      /\ open \subseteq {wf.attempt} /\ received \subseteq open
  BY <1>1, <1>2 DEF IInv, Inv, Core, Transfers, World, AtStep, At, Types, TransferTypeOK,
     Fit
<1>4. Recs(dir') \subseteq {wf} /\ (owed' = None => Trace(wf.attempt, dir'))
  BY <1>3 DEF Read, Recs, Trace
<1>5. wf.state = "replacement" => Sealing(dir')
  BY <1>3, <1>4 DEF Sealing
<1>6. SameIdentity(wf, wf)
  BY DEF SameIdentity
<1>7. /\ owed' = None \/ owed' = wf
      /\ GoesOn("deny")
      /\ UNCHANGED <<signin, asking, vault, world, enrollment, wf, problem, unsaved,
         badHeld, debt>>
  BY <1>1, <1>2, <1>3, <1>4, <1>5, <1>6, SetAside, GoneTo DEF Owe
<1>8. wf.reply = "none" /\ unsaved = FALSE /\ open = {}
  BY <1>1, <1>2, <1>3, <1>4, <1>5, <1>6, <1>7 DEF IInv, Inv, AtStep, At, Saving, Types,
     TransferTypeOK
<1>9. None \notin Resolutions /\ None \notin Record
  BY NoneAssumption
<1> USE <1>1, <1>2, <1>3, <1>4, <1>5, <1>6, <1>7, <1>8, <1>9 DEF IInv, Inv, Core, At, Idle,
   Holding, Sealed, RowIs, Rows
<1>10. Types'
  <2>1. TransferTypeOK'
    BY DEF Types, TransferTypeOK
  <2>2. EnrollTypeOK'
    BY DEF Types, EnrollTypeOK
  <2>3. QED
    BY <2>1, <2>2 DEF Types, MoreFaults
<1>11. Transfers(dir, older)'
  BY DEF Transfers
<1>12. Enrolments(dir, older)'
  BY DEF Enrolments, OfEnrolment
<1>13. Opened(dir, older)'
  BY DEF Opened
<1>14. RepliesKept(dir, older)'
  BY DEF RepliesKept, Held
<1>15. World(dir, older)'
  BY DEF World, Known, Superseded, RowKnown
<1>16. Phases(dir, older)'
  BY DEF Phases, Awaits, EnrollSteps
<1>17. AtStep(dir)'
  BY DEF AtStep, Saving, Secured, Truth, Resolutions
<1>18. EnrollAtStep(dir)'
  BY DEF EnrollAtStep, Stowed, Secured, Resolutions
<1>19. QED
  BY <1>10, <1>11, <1>12, <1>13, <1>14, <1>15, <1>16, <1>17, <1>18

LEMMA OweKeeps ==
  ASSUME IInv, Owe, Aside
  PROVE  IInv'
<1>1. PICK x \in Reads :
        /\ Happens(x)
        /\ owed' = IF x.ok /\ \E f \in Records(x.dir, "transfer") : f.attempt = wf.attempt
                   THEN None ELSE wf
  BY DEF Owe
<1>2. Inv(dir', older') /\ debt' = debt /\ MoreFaults /\ x.dir = dir'
  BY <1>1, ReadHappens
<1>3. owed' = None \/ owed' = wf
  BY <1>1
<1>4. wf # None
  BY JobIs, TypesHold DEF IInv, Inv, AtStep, At, Owe
<1>5. owed' = None => \E f \in dir'.files : f.attempt = wf.attempt
  BY <1>1, <1>2, <1>4 DEF Records
<1>6. CASE Saving \/ job.resolution = "resolvedOutsideApp"
  <2>1. EndMemory(wf)
    BY <1>6 DEF Owe
  <2>2. QED
    BY <1>2, <1>3, <1>5, <1>6, <2>1, OweEndsKeeps
<1>7. CASE ~Saving /\ job.resolution # "resolvedOutsideApp"
  <2>1. Goto("deny") /\ UNCHANGED <<asking, unsaved, pending>>
    BY <1>7 DEF Owe
  <2>2. QED
    BY <1>2, <1>3, <1>5, <1>7, <2>1, OweDeniesKeeps
<1>8. QED
  BY <1>6, <1>7

LEMMA ResolveKeptKeeps ==
  ASSUME IInv, Resolve, Aside, NEW r, r = Exact(dir'), r # None, dir'.staged = {}, ~dir'.torn,
         Inv(dir', older'), debt' = debt, MoreFaults, wf' = r,
         EndMemory(r), UNCHANGED <<open, received>>
  PROVE  IInv'
<1>1. Inv(dir', older') /\ debt' = debt /\ MoreFaults
  OBVIOUS
<1>2. TransferAt("resolve") /\ Step("resolve")
  BY TransferAtWork DEF Resolve, EnrollSteps
<1>3. /\ wf # None /\ enrollOwed = None /\ staged = None /\ open \subseteq {wf.attempt}
      /\ received \subseteq open /\ unsaved = FALSE /\ badHeld = FALSE /\ resolving = None
      /\ Truth(job.resolution) /\ job.by = "resolution"
      /\ job.resolution \in {"notReplaced", "replaced", "resolvedOutsideApp"}
  BY <1>1, <1>2 DEF Inv, Core, Transfers, AtStep, At, IInv, Types, TransferTypeOK, Holding
<1>4. ReadBack(r)
  BY <1>3, ExactFits DEF SameIdentity
<1>5. \A n \in received : /\ n = wf.attempt /\ SafeIn(n, dir', older', RowIs(n))
                         /\ Keeps(n, dir', older')
  BY <1>1, <1>3 DEF Inv, Core, RepliesKept, Held, Holding
<1>6. /\ r.state = "replacement" => Waiting(dir', "usable")
      /\ Trace(r.attempt, dir') \/ owed # None
  BY <1>4 DEF Read, Recs, Waiting, Fit, Trace
<1>7. /\ wf' = r /\ wf' # None
      /\ RunOver
      /\ unsaved' = FALSE
      /\ UNCHANGED <<signin, vault, world, enrollment, problem, owed, badHeld, debt>>
  BY <1>1, <1>2, <1>3, <1>4, <1>5, <1>6, SetAside, GoneTo DEF Resolve, EndMemory
<1> USE <1>1, <1>2, <1>3, <1>4, <1>5, <1>6, <1>7 DEF IInv, Inv, Core, At, Idle, Holding,
   Sealed, RowIs, Rows
<1>8. Types'
  <2>1. TransferTypeOK'
    BY DEF Types, TransferTypeOK
  <2>2. EnrollTypeOK'
    BY DEF Types, EnrollTypeOK
  <2>3. QED
    BY <2>1, <2>2 DEF Types, MoreFaults
<1>9. Transfers(dir, older)'
  BY DEF Transfers, SameIdentity
<1>10. Enrolments(dir, older)'
  BY DEF Enrolments, OfEnrolment
<1>11. Opened(dir, older)'
  BY DEF Opened
<1>12. RepliesKept(dir, older)'
  BY DEF RepliesKept, Held
<1>13. World(dir, older)'
  BY DEF World, Known, Superseded, RowKnown
<1>14. Phases(dir, older)'
  BY DEF Phases, Awaits, EnrollSteps
<1>15. AtStep(dir)'
  BY DEF AtStep, Saving, Secured, Truth, Resolutions
<1>16. EnrollAtStep(dir)'
  BY DEF EnrollAtStep, Stowed, Secured, Resolutions
<1>17. QED
  BY <1>8, <1>9, <1>10, <1>11, <1>12, <1>13, <1>14, <1>15, <1>16

LEMMA ResolveSettledKeeps ==
  ASSUME IInv, Resolve, Aside, NEW r, r = Exact(dir'), r # None, dir'.staged = {}, ~dir'.torn,
         Inv(dir', older'), debt' = debt, MoreFaults, wf' = r,
         Allowed(job.resolution, r), Goto("clear"), Settle(r.attempt),
         UNCHANGED <<asking, unsaved>>, job.resolution # "replaced"
  PROVE  IInv'
<1>1. Inv(dir', older') /\ debt' = debt /\ MoreFaults
  OBVIOUS
<1>2. TransferAt("resolve") /\ Step("resolve")
  BY TransferAtWork DEF Resolve, EnrollSteps
<1>3. /\ wf # None /\ enrollOwed = None /\ staged = None /\ open \subseteq {wf.attempt}
      /\ received \subseteq open /\ unsaved = FALSE /\ badHeld = FALSE /\ resolving = None
      /\ Truth(job.resolution) /\ job.by = "resolution"
      /\ job.resolution \in {"notReplaced", "replaced", "resolvedOutsideApp"}
  BY <1>1, <1>2 DEF Inv, Core, Transfers, AtStep, At, IInv, Types, TransferTypeOK, Holding
<1>4. ReadBack(r)
  BY <1>3, ExactFits DEF SameIdentity
<1>5. \A n \in received : /\ n = wf.attempt /\ SafeIn(n, dir', older', RowIs(n))
                         /\ Keeps(n, dir', older')
  BY <1>1, <1>3 DEF Inv, Core, RepliesKept, Held, Holding
<1>6. /\ r.state = "replacement" => Waiting(dir', "usable")
      /\ Trace(r.attempt, dir') \/ owed # None
  BY <1>4 DEF Read, Recs, Waiting, Fit, Trace
<1>7. /\ wf' = r /\ wf' # None
      /\ GoesOn("clear")
      /\ open' = {} /\ received' = {}
      /\ UNCHANGED <<signin, asking, vault, enrolment, enrollment, problem, owed,
         unsaved, badHeld, steam, sent, adopted, debt>>
  BY <1>1, <1>2, <1>3, <1>4, <1>5, <1>6, SetAside, GoneTo DEF Resolve, Settle
<1>8. /\ job.resolution = "notReplaced" => r.reply = "none"
      /\ job.resolution = "replaced" => r.reply = "none"
      /\ r.reply # "usable"
  BY <1>1, <1>2, <1>3, <1>4, <1>5, <1>6, <1>7 DEF Allowed, Fit, TransferStates, Record
<1>9. None \notin Resolutions /\ None \notin Record
  BY NoneAssumption
<1> USE <1>1, <1>2, <1>3, <1>4, <1>5, <1>6, <1>7, <1>8, <1>9 DEF IInv, Inv, Core, At, Idle,
   Holding, Sealed, RowIs, Rows
<1>10. Types'
  <2>1. TransferTypeOK'
    BY DEF Types, TransferTypeOK
  <2>2. EnrollTypeOK'
    BY DEF Types, EnrollTypeOK
  <2>3. QED
    BY <2>1, <2>2 DEF Types, MoreFaults
<1>11. Transfers(dir, older)'
  BY DEF Transfers, SameIdentity
<1>12. Enrolments(dir, older)'
  BY DEF Enrolments, OfEnrolment
<1>13. Opened(dir, older)'
  BY DEF Opened
<1>14. RepliesKept(dir, older)'
  BY DEF RepliesKept, Held
<1>15. World(dir, older)'
  BY DEF World, Known, Superseded, RowKnown
<1>16. Phases(dir, older)'
  BY DEF Phases, Awaits, EnrollSteps
<1>17. AtStep(dir)'
  BY DEF AtStep, Saving, Secured, Truth, Resolutions
<1>18. EnrollAtStep(dir)'
  BY DEF EnrollAtStep, Stowed, Secured, Resolutions
<1>19. QED
  BY <1>10, <1>11, <1>12, <1>13, <1>14, <1>15, <1>16, <1>17, <1>18

LEMMA ResolveMarksKeeps ==
  ASSUME IInv, Resolve, Aside, NEW r, r = Exact(dir'), r # None, dir'.staged = {}, ~dir'.torn,
         Inv(dir', older'), debt' = debt, MoreFaults, wf' = r,
         Allowed(job.resolution, r), Goto("mark"), row = None,
         UNCHANGED <<asking, unsaved, open, received>>, job.resolution = "replaced"
  PROVE  IInv'
<1>1. Inv(dir', older') /\ debt' = debt /\ MoreFaults
  OBVIOUS
<1>2. TransferAt("resolve") /\ Step("resolve")
  BY TransferAtWork DEF Resolve, EnrollSteps
<1>3. /\ wf # None /\ enrollOwed = None /\ staged = None /\ open \subseteq {wf.attempt}
      /\ received \subseteq open /\ unsaved = FALSE /\ badHeld = FALSE /\ resolving = None
      /\ Truth(job.resolution) /\ job.by = "resolution"
      /\ job.resolution \in {"notReplaced", "replaced", "resolvedOutsideApp"}
  BY <1>1, <1>2 DEF Inv, Core, Transfers, AtStep, At, IInv, Types, TransferTypeOK, Holding
<1>4. ReadBack(r)
  BY <1>3, ExactFits DEF SameIdentity
<1>5. \A n \in received : /\ n = wf.attempt /\ SafeIn(n, dir', older', RowIs(n))
                         /\ Keeps(n, dir', older')
  BY <1>1, <1>3 DEF Inv, Core, RepliesKept, Held, Holding
<1>6. /\ r.state = "replacement" => Waiting(dir', "usable")
      /\ Trace(r.attempt, dir') \/ owed # None
  BY <1>4 DEF Read, Recs, Waiting, Fit, Trace
<1>7. /\ wf' = r /\ wf' # None
      /\ GoesOn("mark")
      /\ UNCHANGED <<signin, asking, vault, world, enrollment, problem, owed, unsaved,
         badHeld, debt>>
  BY <1>1, <1>2, <1>3, <1>4, <1>5, <1>6, SetAside, GoneTo DEF Resolve
<1>8. /\ job.resolution = "notReplaced" => r.reply = "none"
      /\ job.resolution = "replaced" => r.reply = "none"
      /\ r.reply # "usable"
  BY <1>1, <1>2, <1>3, <1>4, <1>5, <1>6, <1>7 DEF Allowed, Fit, TransferStates, Record
<1>9. received = {}
  BY <1>1, <1>2, <1>3, <1>4, <1>5, <1>6, <1>7, <1>8 DEF SafeIn, RowIs, Rows, Has, Recs, Read
<1>10. None \notin Resolutions /\ None \notin Record
  BY NoneAssumption
<1> USE <1>1, <1>2, <1>3, <1>4, <1>5, <1>6, <1>7, <1>8, <1>9, <1>10 DEF IInv, Inv, Core, At,
   Idle, Holding, Sealed, RowIs, Rows
<1>11. Types'
  <2>1. TransferTypeOK'
    BY DEF Types, TransferTypeOK
  <2>2. EnrollTypeOK'
    BY DEF Types, EnrollTypeOK
  <2>3. QED
    BY <2>1, <2>2 DEF Types, MoreFaults
<1>12. Transfers(dir, older)'
  BY DEF Transfers, SameIdentity
<1>13. Enrolments(dir, older)'
  BY DEF Enrolments, OfEnrolment
<1>14. Opened(dir, older)'
  BY DEF Opened
<1>15. RepliesKept(dir, older)'
  BY DEF RepliesKept, Held
<1>16. World(dir, older)'
  BY DEF World, Known, Superseded, RowKnown
<1>17. Phases(dir, older)'
  BY DEF Phases, Awaits, EnrollSteps
<1>18. AtStep(dir)'
  BY DEF AtStep, Saving, Secured, Truth, Resolutions
<1>19. EnrollAtStep(dir)'
  BY DEF EnrollAtStep, Stowed, Secured, Resolutions
<1>20. QED
  BY <1>11, <1>12, <1>13, <1>14, <1>15, <1>16, <1>17, <1>18, <1>19

LEMMA ResolveAsksKeeps ==
  ASSUME IInv, Resolve, Aside, NEW r, r = Exact(dir'), r # None, dir'.staged = {}, ~dir'.torn,
         Inv(dir', older'), debt' = debt, MoreFaults, wf' = r,
         Allowed(job.resolution, r), Obsolete(r), row # None, job.resolution # "notReplaced",
         job' = None, resolving' = [resolution |-> job.resolution, print |-> row.auth],
         UNCHANGED <<phase, recovering, unsaved, proving, open, received>>
  PROVE  IInv'
<1>1. Inv(dir', older') /\ debt' = debt /\ MoreFaults
  OBVIOUS
<1>2. TransferAt("resolve") /\ Step("resolve")
  BY TransferAtWork DEF Resolve, EnrollSteps
<1>3. /\ wf # None /\ enrollOwed = None /\ staged = None /\ open \subseteq {wf.attempt}
      /\ received \subseteq open /\ unsaved = FALSE /\ badHeld = FALSE /\ resolving = None
      /\ Truth(job.resolution) /\ job.by = "resolution"
      /\ job.resolution \in {"notReplaced", "replaced", "resolvedOutsideApp"}
  BY <1>1, <1>2 DEF Inv, Core, Transfers, AtStep, At, IInv, Types, TransferTypeOK, Holding
<1>4. ReadBack(r)
  BY <1>3, ExactFits DEF SameIdentity
<1>5. \A n \in received : /\ n = wf.attempt /\ SafeIn(n, dir', older', RowIs(n))
                         /\ Keeps(n, dir', older')
  BY <1>1, <1>3 DEF Inv, Core, RepliesKept, Held, Holding
<1>6. /\ r.state = "replacement" => Waiting(dir', "usable")
      /\ Trace(r.attempt, dir') \/ owed # None
  BY <1>4 DEF Read, Recs, Waiting, Fit, Trace
<1>7. /\ wf' = r /\ wf' # None
      /\ job' = None
      /\ resolving' # None /\ resolving' \in [resolution : Resolutions, print : Prints]
      /\ resolving'.resolution = job.resolution /\ resolving'.print = r.prior
      /\ r.prior # None /\ r.reply = "none"
      /\ UNCHANGED <<signin, vault, world, enrollment, problem, owed, phase, recovering,
         proving, unsaved, badHeld, debt>>
  <2>1. Types /\ row \in Row \cup {None} /\ unlocked \in BOOLEAN
    BY <1>2 DEF TransferAt, Types
  <2>2. QED
    BY <1>1, <1>2, <1>3, <1>4, <1>5, <1>6, <2>1, SetAside, NoneAssumption DEF Resolve,
       Obsolete, Row, Resolutions
<1>8. phase = "no" /\ ~recovering /\ proving = None
  BY <1>1, <1>2, <1>3, <1>4, <1>5, <1>6, <1>7 DEF IInv, Inv, Phases, AtStep, At
<1> USE <1>1, <1>2, <1>3, <1>4, <1>5, <1>6, <1>7, <1>8 DEF IInv, Inv, Core, At, Idle,
   Holding, Sealed, RowIs, Rows
<1>9. Types'
  <2>1. TransferTypeOK'
    BY DEF Types, TransferTypeOK
  <2>2. EnrollTypeOK'
    BY DEF Types, EnrollTypeOK
  <2>3. QED
    BY <2>1, <2>2 DEF Types, MoreFaults
<1>10. Transfers(dir, older)'
  BY DEF Transfers, SameIdentity
<1>11. Enrolments(dir, older)'
  BY DEF Enrolments, OfEnrolment
<1>12. Opened(dir, older)'
  BY DEF Opened
<1>13. RepliesKept(dir, older)'
  BY DEF RepliesKept, Held
<1>14. World(dir, older)'
  BY DEF World, Known, Superseded, RowKnown
<1>15. Phases(dir, older)'
  BY DEF Phases, Awaits, EnrollSteps
<1>16. AtStep(dir)'
  BY DEF AtStep, Saving, Secured, Truth, Resolutions
<1>17. EnrollAtStep(dir)'
  BY DEF EnrollAtStep, Stowed, Secured, Resolutions
<1>18. QED
  BY <1>9, <1>10, <1>11, <1>12, <1>13, <1>14, <1>15, <1>16, <1>17

LEMMA ResolveKeeps ==
  ASSUME IInv, Resolve, Aside
  PROVE  IInv'
<1>1. TransferAt("resolve") /\ Step("resolve")
  BY TransferAtWork DEF Resolve, EnrollSteps
<1>2. /\ wf # None /\ unsaved = FALSE
      /\ job.resolution \in {"notReplaced", "replaced", "resolvedOutsideApp"}
  BY <1>1 DEF IInv, Inv, AtStep, At, Holding, Types, TransferTypeOK
<1>3. PICK x \in Reads :
        LET r == Exact(x.dir)
        IN /\ Happens(x)
           /\ IF ~x.ok \/ Ambiguous(x.dir) \/ r = None
              THEN EndMemory(wf) /\ UNCHANGED <<wf, open, received>>
              ELSE IF ~Allowed(job.resolution, r)
              THEN EndMemory(r) /\ wf' = r /\ UNCHANGED <<open, received>>
              ELSE IF job.resolution = "notReplaced" \/ row = None
              THEN /\ wf' = r /\ Goto(After(job.resolution))
                   /\ IF job.resolution # "replaced" THEN Settle(r.attempt)
                      ELSE UNCHANGED <<open, received>>
                   /\ UNCHANGED <<asking, unsaved>>
              ELSE IF ~Obsolete(r)
              THEN EndMemory(r) /\ wf' = r /\ UNCHANGED <<open, received>>
              ELSE /\ wf' = r /\ job' = None
                   /\ resolving' = [resolution |-> job.resolution, print |-> row.auth]
                   /\ UNCHANGED <<phase, recovering, unsaved, proving, open, received>>
  BY Zenon DEF Resolve
<1> DEFINE r == Exact(dir')
<1>4. /\ Inv(dir', older') /\ debt' = debt /\ MoreFaults /\ x.dir = dir'
      /\ x.ok => dir'.staged = {} /\ ~dir'.torn
  BY <1>3, ReadHappens
<1>5. CASE ~x.ok \/ Ambiguous(x.dir) \/ Exact(x.dir) = None
  <2>1. EndMemory(wf) /\ UNCHANGED <<wf, open, received>> /\ Core(dir', older')
    BY <1>3, <1>4, <1>5 DEF Inv
  <2>2. Ended
    BY <1>1, <1>2, <1>4, <2>1 DEF Resolve, Ended, EndMemory, EndWarned, Sealed
  <2>3. Unmoved
    BY <1>1, <1>2, <1>4, <2>1 DEF Resolve, EndMemory, EndWarned, outside
  <2>4. QED
    BY <1>1, <1>2, <1>4, <2>1, <2>2, <2>3, RunEnds DEF EnrollSteps
<1>6. CASE x.ok /\ r # None /\ ~Ambiguous(dir')
  <2>1. dir'.staged = {} /\ ~dir'.torn
    BY <1>4, <1>6
  <2>2. CASE EndMemory(r) /\ wf' = r /\ UNCHANGED <<open, received>>
    BY <1>4, <1>6, <2>1, <2>2, ResolveKeptKeeps
  <2>3. CASE /\ Allowed(job.resolution, r) /\ wf' = r /\ Goto(After(job.resolution))
             /\ job.resolution = "notReplaced" \/ row = None
             /\ IF job.resolution # "replaced" THEN Settle(r.attempt)
                ELSE UNCHANGED <<open, received>>
             /\ UNCHANGED <<asking, unsaved>>
    <3>1. CASE job.resolution = "replaced"
      <4>1. After(job.resolution) = "mark"
        BY <3>1 DEF After
      <4>2. QED
        BY <1>4, <1>6, <2>1, <2>3, <3>1, <4>1, ResolveMarksKeeps
    <3>2. CASE job.resolution # "replaced"
      <4>1. After(job.resolution) = "clear"
        BY <1>2, <3>2 DEF After
      <4>2. QED
        BY <1>4, <1>6, <2>1, <2>3, <3>2, <4>1, ResolveSettledKeeps
    <3>3. QED
      BY <3>1, <3>2
  <2>4. CASE /\ Allowed(job.resolution, r) /\ Obsolete(r) /\ row # None /\ wf' = r /\ job' = None
             /\ job.resolution # "notReplaced"
             /\ resolving' = [resolution |-> job.resolution, print |-> row.auth]
             /\ UNCHANGED <<phase, recovering, unsaved, proving, open, received>>
    BY <1>4, <1>6, <2>1, <2>4, ResolveAsksKeeps
  <2>5. QED
    BY <1>3, <1>4, <1>6, <2>2, <2>3, <2>4
<1>7. QED
  BY <1>4, <1>5, <1>6

LEMMA RemoveSettledKeeps ==
  ASSUME IInv, ResolveRemove, Aside, Inv(dir', older'), debt' = debt, MoreFaults,
         dir'.staged = {}, ~dir'.torn, row = None \/ row.auth = resolving.print,
         IF row = None THEN UNCHANGED <<row, bak>> ELSE row' = None /\ bak' = row,
         UNCHANGED <<asking, unsaved>>,
         Goto("clear"), Settle(wf.attempt), job.resolution = "resolvedOutsideApp"
  PROVE  IInv'
<1>1. Inv(dir', older') /\ debt' = debt /\ MoreFaults
  OBVIOUS
<1>2. TransferAt("remove") /\ Step("remove")
  BY TransferAtWork DEF ResolveRemove, EnrollSteps
<1>3. /\ wf # None /\ wf.kind = "transfer" /\ enrollOwed = None /\ staged = None
      /\ open \subseteq {wf.attempt} /\ received \subseteq open /\ unsaved = FALSE
      /\ badHeld = FALSE
      /\ resolving # None /\ resolving.resolution = job.resolution /\ job.by = "resolution"
      /\ job.resolution \in {"replaced", "resolvedOutsideApp"} /\ Truth(job.resolution)
      /\ resolving.print = wf.prior /\ wf.prior # None /\ wf.reply = "none" /\ Read(wf, dir)
      /\ Fit(wf) /\ Mine(wf, dir, older) /\ proving \in Prints \cup {None} /\ Read(wf, dir')
  BY <1>1, <1>2 DEF IInv, Inv, Core, Transfers, AtStep, At, Types, TransferTypeOK, Holding
<1>4. row' = None /\ (bak' = bak \/ bak' = row)
  OBVIOUS
<1>5. \A n \in received : n = wf.attempt /\ ~RowIs(n) /\ SafeIn(n, dir', older', FALSE) /\ Keeps(n, dir', older')
  <2>1. \A n \in received : n = wf.attempt /\ ~RowIs(n)
    BY <1>3 DEF RowIs, Rows, Fit
  <2>2. QED
    BY <1>1, <1>3, <2>1 DEF Inv, Core, RepliesKept, Held, Holding, RowIs, Rows
<1>6. received = {}
  BY <1>3, <1>5 DEF SafeIn, Has, Recs, Read
<1>7. \A n \in open : AllTrace(n, dir', older')
  BY <1>1, <1>3 DEF Inv, Core, Opened, RowIs, Rows, Fit
<1>8. /\ row' = None /\ (bak' = bak \/ bak' = row)
      /\ GoesOn("clear")
      /\ open' = {} /\ received' = {}
      /\ UNCHANGED <<transfer, enrolment, enrollment, unlocked, steam, sent, adopted,
         debt>>
  BY <1>1, <1>2, <1>3, <1>4, <1>5, <1>6, <1>7, SetAside, GoneTo DEF ResolveRemove, Settle
<1>9. None \notin Resolutions /\ None \notin Record
  BY NoneAssumption
<1> USE <1>1, <1>2, <1>3, <1>4, <1>5, <1>6, <1>7, <1>8, <1>9 DEF IInv, Inv, Core, At, Idle,
   Holding, Sealed, RowIs, Rows
<1>10. Types'
  <2>1. TransferTypeOK'
    BY DEF Types, TransferTypeOK
  <2>2. EnrollTypeOK'
    BY DEF Types, EnrollTypeOK
  <2>3. QED
    BY <2>1, <2>2 DEF Types, MoreFaults
<1>11. Transfers(dir, older)'
  BY DEF Transfers
<1>12. Enrolments(dir, older)'
  BY DEF Enrolments, OfEnrolment
<1>13. Opened(dir, older)'
  BY DEF Opened
<1>14. RepliesKept(dir, older)'
  BY DEF RepliesKept, Held
<1>15. World(dir, older)'
  BY DEF World, Known, Superseded, RowKnown
<1>16. Phases(dir, older)'
  BY DEF Phases, Awaits, EnrollSteps
<1>17. AtStep(dir)'
  BY DEF AtStep, Saving, Secured, Truth, Resolutions
<1>18. EnrollAtStep(dir)'
  BY DEF EnrollAtStep, Stowed, Secured, Resolutions
<1>19. QED
  BY <1>10, <1>11, <1>12, <1>13, <1>14, <1>15, <1>16, <1>17, <1>18

LEMMA RemoveMarksKeeps ==
  ASSUME IInv, ResolveRemove, Aside, Inv(dir', older'), debt' = debt, MoreFaults,
         dir'.staged = {}, ~dir'.torn, row = None \/ row.auth = resolving.print,
         IF row = None THEN UNCHANGED <<row, bak>> ELSE row' = None /\ bak' = row,
         UNCHANGED <<asking, unsaved>>,
         Goto("mark"), UNCHANGED <<open, received>>, job.resolution = "replaced"
  PROVE  IInv'
<1>1. Inv(dir', older') /\ debt' = debt /\ MoreFaults
  OBVIOUS
<1>2. TransferAt("remove") /\ Step("remove")
  BY TransferAtWork DEF ResolveRemove, EnrollSteps
<1>3. /\ wf # None /\ wf.kind = "transfer" /\ enrollOwed = None /\ staged = None
      /\ open \subseteq {wf.attempt} /\ received \subseteq open /\ unsaved = FALSE
      /\ badHeld = FALSE
      /\ resolving # None /\ resolving.resolution = job.resolution /\ job.by = "resolution"
      /\ job.resolution \in {"replaced", "resolvedOutsideApp"} /\ Truth(job.resolution)
      /\ resolving.print = wf.prior /\ wf.prior # None /\ wf.reply = "none" /\ Read(wf, dir)
      /\ Fit(wf) /\ Mine(wf, dir, older) /\ proving \in Prints \cup {None} /\ Read(wf, dir')
  BY <1>1, <1>2 DEF IInv, Inv, Core, Transfers, AtStep, At, Types, TransferTypeOK, Holding
<1>4. row' = None /\ (bak' = bak \/ bak' = row)
  OBVIOUS
<1>5. \A n \in received : n = wf.attempt /\ ~RowIs(n) /\ SafeIn(n, dir', older', FALSE) /\ Keeps(n, dir', older')
  <2>1. \A n \in received : n = wf.attempt /\ ~RowIs(n)
    BY <1>3 DEF RowIs, Rows, Fit
  <2>2. QED
    BY <1>1, <1>3, <2>1 DEF Inv, Core, RepliesKept, Held, Holding, RowIs, Rows
<1>6. received = {}
  BY <1>3, <1>5 DEF SafeIn, Has, Recs, Read
<1>7. \A n \in open : AllTrace(n, dir', older')
  BY <1>1, <1>3 DEF Inv, Core, Opened, RowIs, Rows, Fit
<1>8. /\ row' = None /\ (bak' = bak \/ bak' = row)
      /\ GoesOn("mark")
      /\ UNCHANGED <<transfer, world, enrollment, unlocked, debt>>
  BY <1>1, <1>2, <1>3, <1>4, <1>5, <1>6, <1>7, SetAside, GoneTo DEF ResolveRemove
<1>9. None \notin Resolutions /\ None \notin Record
  BY NoneAssumption
<1> USE <1>1, <1>2, <1>3, <1>4, <1>5, <1>6, <1>7, <1>8, <1>9 DEF IInv, Inv, Core, At, Idle,
   Holding, Sealed, RowIs, Rows
<1>10. Types'
  <2>1. TransferTypeOK'
    BY DEF Types, TransferTypeOK
  <2>2. EnrollTypeOK'
    BY DEF Types, EnrollTypeOK
  <2>3. QED
    BY <2>1, <2>2 DEF Types, MoreFaults
<1>11. Transfers(dir, older)'
  BY DEF Transfers
<1>12. Enrolments(dir, older)'
  BY DEF Enrolments, OfEnrolment
<1>13. Opened(dir, older)'
  BY DEF Opened
<1>14. RepliesKept(dir, older)'
  BY DEF RepliesKept, Held
<1>15. World(dir, older)'
  BY DEF World, Known, Superseded, RowKnown
<1>16. Phases(dir, older)'
  BY DEF Phases, Awaits, EnrollSteps
<1>17. AtStep(dir)'
  BY DEF AtStep, Saving, Secured, Truth, Resolutions
<1>18. EnrollAtStep(dir)'
  BY DEF EnrollAtStep, Stowed, Secured, Resolutions
<1>19. QED
  BY <1>10, <1>11, <1>12, <1>13, <1>14, <1>15, <1>16, <1>17, <1>18

LEMMA ResolveRemoveKeeps ==
  ASSUME IInv, ResolveRemove, Aside
  PROVE  IInv'
<1>1. TransferAt("remove") /\ Step("remove")
  BY TransferAtWork DEF ResolveRemove, EnrollSteps
<1>2. /\ wf # None /\ wf.kind = "transfer" /\ enrollOwed = None /\ staged = None
      /\ open \subseteq {wf.attempt} /\ received \subseteq open /\ unsaved = FALSE
      /\ badHeld = FALSE
      /\ resolving # None /\ resolving.resolution = job.resolution /\ job.by = "resolution"
      /\ job.resolution \in {"replaced", "resolvedOutsideApp"} /\ Truth(job.resolution)
      /\ resolving.print = wf.prior /\ wf.prior # None /\ wf.reply = "none" /\ Read(wf, dir)
      /\ Fit(wf) /\ Mine(wf, dir, older) /\ proving \in Prints \cup {None}
  BY <1>1 DEF IInv, Inv, Core, Transfers, AtStep, At, Types, TransferTypeOK, Holding
<1>3. PICK x \in Reads :
        /\ Happens(x)
        /\ IF x.ok /\ ~Ambiguous(x.dir) /\ Exact(x.dir) = wf
                /\ (row = None \/ row.auth = resolving.print)
           THEN /\ IF row = None THEN UNCHANGED <<row, bak>> ELSE row' = None /\ bak' = row
                /\ Goto(After(job.resolution))
                /\ IF job.resolution # "replaced" THEN Settle(wf.attempt)
                   ELSE UNCHANGED <<open, received>>
                /\ UNCHANGED <<asking, unsaved>>
           ELSE EndMemory(wf) /\ UNCHANGED <<row, bak, open, received>>
  BY DEF ResolveRemove
<1>4. /\ Inv(dir', older') /\ debt' = debt /\ MoreFaults /\ x.dir = dir'
      /\ x.ok => dir'.staged = {} /\ ~dir'.torn
  BY <1>3, ReadHappens
<1>5. CASE x.ok /\ ~Ambiguous(x.dir) /\ Exact(x.dir) = wf
             /\ (row = None \/ row.auth = resolving.print)
  <2>1. /\ IF row = None THEN UNCHANGED <<row, bak>> ELSE row' = None /\ bak' = row
        /\ Goto(After(job.resolution)) /\ UNCHANGED <<asking, unsaved>>
        /\ IF job.resolution # "replaced" THEN Settle(wf.attempt) ELSE UNCHANGED <<open,
              received>>
    BY <1>3, <1>5
  <2>2. CASE job.resolution = "replaced"
    <3>1. Goto("mark") /\ UNCHANGED <<open, received>>
      BY <2>1, <2>2 DEF After
    <3>2. QED
      BY <1>4, <1>5, <2>1, <2>2, <3>1, RemoveMarksKeeps
  <2>3. CASE job.resolution = "resolvedOutsideApp"
    <3>1. Goto("clear") /\ Settle(wf.attempt)
      BY <2>1, <2>3 DEF After
    <3>2. QED
      BY <1>4, <1>5, <2>1, <2>3, <3>1, RemoveSettledKeeps
  <2>4. QED
    BY <1>2, <2>2, <2>3
<1>6. CASE ~(x.ok /\ ~Ambiguous(x.dir) /\ Exact(x.dir) = wf
               /\ (row = None \/ row.auth = resolving.print))
  <2>1. EndMemory(wf) /\ UNCHANGED <<row, bak, open, received>> /\ Core(dir', older')
    BY <1>3, <1>4, <1>6 DEF Inv
  <2>2. Ended
    BY <1>1, <1>2, <1>4, <2>1 DEF ResolveRemove, Ended, EndMemory, EndWarned, Sealed
  <2>3. Unmoved
    BY <1>1, <1>2, <1>4, <2>1 DEF ResolveRemove, EndMemory, EndWarned, outside
  <2>4. QED
    BY <1>1, <1>2, <1>4, <2>1, <2>2, <2>3, RunEnds DEF EnrollSteps
<1>7. QED
  BY <1>5, <1>6

LEMMA ResolveRemoveFailsKeeps ==
  ASSUME IInv, ResolveRemoveFails, Aside
  PROVE  IInv'
<1>1. TransferAt("remove") /\ Step("remove")
  BY TransferAtWork DEF ResolveRemoveFails, EnrollSteps
<1>2. /\ wf # None /\ wf.kind = "transfer" /\ enrollOwed = None /\ staged = None
      /\ open \subseteq {wf.attempt} /\ received \subseteq open /\ unsaved = FALSE
      /\ badHeld = FALSE
      /\ resolving # None /\ resolving.resolution = job.resolution /\ job.by = "resolution"
      /\ job.resolution \in {"replaced", "resolvedOutsideApp"} /\ Truth(job.resolution)
      /\ resolving.print = wf.prior /\ wf.prior # None /\ wf.reply = "none" /\ Read(wf, dir)
      /\ Fit(wf) /\ Mine(wf, dir, older) /\ proving \in Prints \cup {None}
  BY <1>1 DEF IInv, Inv, Core, Transfers, AtStep, At, Types, TransferTypeOK, Holding
<1>3. MoreFaults
  BY <1>1, JournalAssumption DEF ResolveRemoveFails, Types, MoreFaults
<1>4. Core(dir', older') /\ UNCHANGED debt
  BY DEF ResolveRemoveFails, IInv, Inv
<1>5. Ended
  BY <1>1, <1>2, <1>3, <1>4 DEF ResolveRemoveFails, Ended, EndMemory, EndWarned, Sealed
<1>6. Unmoved
  BY <1>1, <1>2, <1>3, <1>4 DEF ResolveRemoveFails, EndMemory, EndWarned, outside
<1>7. QED
  BY <1>1, <1>2, <1>3, <1>4, <1>5, <1>6, RunEnds DEF EnrollSteps

LEMMA MarkedKeeps ==
  ASSUME IInv, Mark, Aside,
         NEW t, Fit(t), SameIdentity(wf, t), t \in Record, t # None, Known(t),
         t.attempt = wf.attempt, t.kind = wf.kind, t.prior = wf.prior,
         Core(dir', older'), debt' = debt, MoreFaults, older' = {}, wf' = t,
         Read(t, dir'), Trace(t.attempt, dir'), Mine(t, dir', older'), Waiting(dir', t.reply),
         t.state = "replacement" => Sealing(dir'),
         t.reply # "none" => \A b : SafeIn(t.attempt, dir', older', b),
         Keeps(t.attempt, dir', older'),
         t.state = "unreadable", t.reply = "none", terminal' = "unreadable", EndMemory(None),
         wf.state # "unreadable"
  PROVE  IInv'
<1>1. Core(dir', older') /\ debt' = debt /\ MoreFaults
  OBVIOUS
<1>2. TransferAt("mark") /\ Step("mark")
  BY TransferAtWork DEF Mark, EnrollSteps
<1>3. /\ wf # None /\ wf.kind = "transfer" /\ Read(wf, dir) /\ Fit(wf) /\ Known(wf)
      /\ Sound(dir, older) /\ open \subseteq {wf.attempt} /\ received \subseteq {wf.attempt}
      /\ enrollOwed = None /\ staged = None /\ unsaved \in BOOLEAN /\ badHeld = FALSE
      /\ unsaved = FALSE /\ wf.reply = "none" /\ received = {} /\ wf.state # "replacement"
      /\ ~(owed # None /\ owed.state = "replacement")
  BY <1>2 DEF IInv, Inv, Core, Transfers, AtStep, At, World, Types, TransferTypeOK, Known,
     Holding, Fit
<1>4. /\ wf' = t
      /\ terminal' = "unreadable" /\ RunOver /\ unsaved' = FALSE
      /\ UNCHANGED <<vault, world, enrollment, problem, owed, pending, auth,
         challenging, badHeld, debt>>
  BY <1>1, <1>2, <1>3, SetAside, GoneTo DEF Mark, EndMemory
<1> USE <1>1, <1>2, <1>3, <1>4 DEF IInv, Inv, Core, At, Idle, Holding, Sealed, RowIs, Rows
<1>5. Types'
  <2>1. TransferTypeOK'
    BY DEF Types, TransferTypeOK
  <2>2. EnrollTypeOK'
    BY DEF Types, EnrollTypeOK
  <2>3. QED
    BY <2>1, <2>2 DEF Types, MoreFaults
<1>6. Transfers(dir, older)'
  BY DEF Transfers, SameIdentity
<1>7. Enrolments(dir, older)'
  BY DEF Enrolments, OfEnrolment
<1>8. Opened(dir, older)'
  BY DEF Opened
<1>9. RepliesKept(dir, older)'
  BY DEF RepliesKept, Held
<1>10. World(dir, older)'
  BY DEF World, Known, Superseded, RowKnown
<1>11. Phases(dir, older)'
  BY DEF Phases, Awaits, EnrollSteps
<1>12. AtStep(dir)'
  BY DEF AtStep, Saving, Secured, Truth, Resolutions
<1>13. EnrollAtStep(dir)'
  BY DEF EnrollAtStep, Stowed, Secured, Resolutions
<1>14. QED
  BY <1>5, <1>6, <1>7, <1>8, <1>9, <1>10, <1>11, <1>12, <1>13

LEMMA MarkFailsKeeps ==
  ASSUME IInv, Mark, Aside, Core(dir', older'), debt' = debt, MoreFaults, Goto("look"),
         UNCHANGED <<wf, terminal, asking, unsaved>>
  PROVE  IInv'
<1>1. Core(dir', older') /\ debt' = debt /\ MoreFaults
  OBVIOUS
<1>2. TransferAt("mark") /\ Step("mark")
  BY TransferAtWork DEF Mark, EnrollSteps
<1>3. /\ wf # None /\ wf.kind = "transfer" /\ Read(wf, dir) /\ Fit(wf) /\ Known(wf)
      /\ Sound(dir, older) /\ open \subseteq {wf.attempt} /\ received \subseteq {wf.attempt}
      /\ enrollOwed = None /\ staged = None /\ unsaved \in BOOLEAN /\ badHeld = FALSE
      /\ unsaved = FALSE /\ wf.reply = "none" /\ received = {} /\ wf.state # "replacement"
      /\ ~(owed # None /\ owed.state = "replacement")
  BY <1>2 DEF IInv, Inv, Core, Transfers, AtStep, At, World, Types, TransferTypeOK, Known,
     Holding, Fit
<1>4. /\ GoesOn("look")
      /\ UNCHANGED <<transfer, vault, world, enrollment, debt>>
  BY <1>1, <1>2, <1>3, SetAside, GoneTo DEF Mark
<1>5. None \notin Resolutions /\ None \notin Record
  BY NoneAssumption
<1> USE <1>1, <1>2, <1>3, <1>4, <1>5 DEF IInv, Inv, Core, At, Idle, Holding, Sealed, RowIs,
   Rows
<1>6. Types'
  <2>1. TransferTypeOK'
    BY DEF Types, TransferTypeOK
  <2>2. EnrollTypeOK'
    BY DEF Types, EnrollTypeOK
  <2>3. QED
    BY <2>1, <2>2 DEF Types, MoreFaults
<1>7. Transfers(dir, older)'
  BY DEF Transfers
<1>8. Enrolments(dir, older)'
  BY DEF Enrolments, OfEnrolment
<1>9. Opened(dir, older)'
  BY DEF Opened
<1>10. RepliesKept(dir, older)'
  BY DEF RepliesKept, Held
<1>11. World(dir, older)'
  BY DEF World, Known, Superseded, RowKnown
<1>12. Phases(dir, older)'
  BY DEF Phases, Awaits, EnrollSteps
<1>13. AtStep(dir)'
  BY DEF AtStep, Saving, Secured, Truth, Resolutions
<1>14. EnrollAtStep(dir)'
  BY DEF EnrollAtStep, Stowed, Secured, Resolutions
<1>15. QED
  BY <1>6, <1>7, <1>8, <1>9, <1>10, <1>11, <1>12, <1>13, <1>14

LEMMA MarkWritesKeeps ==
  ASSUME IInv, Mark, Aside, wf.state # "unreadable"
  PROVE  IInv'
<1> DEFINE t == Turned(wf, "unreadable", "none")
<1>1. TransferAt("mark") /\ Step("mark")
  BY TransferAtWork DEF Mark, EnrollSteps
<1>2. /\ wf # None /\ wf.kind = "transfer" /\ Read(wf, dir) /\ Fit(wf) /\ Known(wf)
      /\ Sound(dir, older) /\ open \subseteq {wf.attempt} /\ received \subseteq {wf.attempt}
      /\ enrollOwed = None /\ staged = None /\ unsaved \in BOOLEAN /\ badHeld = FALSE
      /\ unsaved = FALSE /\ wf.reply = "none" /\ received = {} /\ wf.state # "replacement"
      /\ ~(owed # None /\ owed.state = "replacement")
  BY <1>1 DEF IInv, Inv, Core, Transfers, AtStep, At, World, Types, TransferTypeOK, Known,
     Holding, Fit
<1>3. /\ Fit(t) /\ SameIdentity(wf, t) /\ t \in Record /\ t # None
      /\ t.attempt = wf.attempt /\ t.kind = wf.kind /\ t.prior = wf.prior
      /\ t.state = "unreadable" /\ t.reply = "none"
  <2>1. wf.kind # "enrollment" /\ "unreadable" \in TransferStates
    BY <1>2 DEF TransferStates
  <2>2. QED
    BY <1>2, <2>1, TurnedIs
<1>4. Known(t)
  BY <1>2, <1>3 DEF Known, Superseded
<1>5. Reconcilable(dir) => \A f \in Merged(dir).files : Follows(f, t)
  <2>1. Follows(wf, t)
    BY <1>2, <1>3 DEF Follows, Fit, Record
  <2>2. QED
    BY <1>2, <2>1, FollowsRead
<1>6. PICK x \in Updates(t) : Happens(x) /\ IF x.ok
                  THEN wf' = t /\ terminal' = "unreadable" /\ EndMemory(None)
                  ELSE Goto("look") /\ UNCHANGED <<wf, terminal, asking, unsaved>>
  BY DEF Mark, Unreadable
<1>7. /\ Core(dir', older') /\ debt' = debt /\ MoreFaults /\ x.ok \in BOOLEAN
      /\ x.ok => /\ Wrote(t)
      /\ \A reply : Waiting(dir, reply) /\ t.reply = reply => Waiting(dir', reply)
      /\ Keeps(t.attempt, dir, older) /\ t.reply # "none" => Keeps(t.attempt, dir', older')
  BY <1>1, <1>2, <1>3, <1>4, <1>5, <1>6, TransferWrites DEF Sealed
<1>8. CASE x.ok
  <2>1. Wrote(t)
    BY <1>7, <1>8
  <2>2. wf' = t /\ terminal' = "unreadable" /\ EndMemory(None)
    BY <1>6, <1>8
  <2>3. QED
    BY <1>1, <1>2, <1>3, <1>4, <1>7, <2>1, <2>2, MarkedKeeps
<1>9. CASE ~x.ok
  BY <1>6, <1>7, <1>9, MarkFailsKeeps
<1>10. QED
  BY <1>7, <1>8, <1>9

LEMMA MarkKeeps ==
  ASSUME IInv, Mark, Aside
  PROVE  IInv'
<1>1. TransferAt("mark") /\ Step("mark")
  BY TransferAtWork DEF Mark, EnrollSteps
<1>2. wf # None /\ unsaved = FALSE /\ wf.state # "replacement"
  BY <1>1 DEF IInv, Inv, Core, Transfers, AtStep, At, Holding, Types, TransferTypeOK, Fit
<1>3. CASE wf.state = "unreadable"
  <2>1. Inv(dir', older') /\ debt' = debt /\ UNCHANGED faults
    BY <1>3, Untouched DEF Mark
  <2>2. Core(dir', older') /\ MoreFaults
    BY <1>1, <2>1 DEF Inv, Types, MoreFaults
  <2>3. Ended
    BY <1>1, <1>2, <1>3, <2>1, <2>2 DEF Mark, Ended, EndMemory, EndWarned, Sealed
  <2>4. Unmoved
    BY <1>1, <1>2, <1>3, <2>1, <2>2 DEF Mark, EndMemory, EndWarned, outside
  <2>5. QED
    BY <1>1, <1>2, <1>3, <2>1, <2>2, <2>3, <2>4, RunEnds DEF EnrollSteps
<1>4. QED
  BY <1>3, MarkWritesKeeps

LEMMA LookedKeeps ==
  ASSUME IInv, Look, Aside, Inv(dir', older'), debt' = debt, MoreFaults,
         NEW t, t = Turned(wf, "unreadable", "none"), wf' = t, terminal' = "unreadable"
  PROVE  IInv'
<1>1. Inv(dir', older') /\ debt' = debt /\ MoreFaults
  OBVIOUS
<1>2. TransferAt("look") /\ Step("look")
  BY TransferAtWork DEF Look, EnrollSteps
<1>3. /\ wf # None /\ enrollOwed = None /\ staged = None /\ Fit(wf) /\ wf.kind = "transfer"
      /\ Mine(wf, dir', older')
      /\ open \subseteq {wf.attempt} /\ received = {} /\ unsaved = FALSE /\ badHeld = FALSE
      /\ wf.reply = "none" /\ Known(wf) /\ ~(owed # None /\ owed.state = "replacement")
  BY <1>1, <1>2 DEF Inv, Core, Transfers, World, AtStep, At, IInv, Types, TransferTypeOK,
     Holding, Fit
<1>4. /\ Fit(t) /\ SameIdentity(wf, t) /\ t \in Record /\ t # None /\ t.attempt = wf.attempt
      /\ t.kind = wf.kind /\ t.prior = wf.prior /\ t.state = "unreadable" /\ t.reply = "none"
  <2>1. wf.kind # "enrollment" /\ "unreadable" \in TransferStates
    BY <1>3 DEF TransferStates
  <2>2. QED
    BY <1>3, <2>1, TurnedIs
<1>5. Known(t) /\ Mine(t, dir', older') /\ (owed # None => SameIdentity(owed, t))
  BY <1>1, <1>3, <1>4 DEF Known, Mine, SameIdentity, Inv, Core, Transfers
<1>6. /\ wf' = t /\ terminal' = "unreadable"
      /\ RunOver
      /\ unsaved' = FALSE
      /\ UNCHANGED <<vault, world, enrollment, problem, owed, pending, auth,
         challenging, badHeld, debt>>
  BY <1>1, <1>2, <1>3, <1>4, <1>5, SetAside DEF Look, EndMemory
<1> USE <1>1, <1>2, <1>3, <1>4, <1>5, <1>6 DEF IInv, Inv, Core, At, Idle, Holding, Sealed,
   RowIs, Rows
<1>7. Types'
  <2>1. TransferTypeOK'
    BY DEF Types, TransferTypeOK
  <2>2. EnrollTypeOK'
    BY DEF Types, EnrollTypeOK
  <2>3. QED
    BY <2>1, <2>2 DEF Types, MoreFaults
<1>8. Transfers(dir, older)'
  BY DEF Transfers, SameIdentity
<1>9. Enrolments(dir, older)'
  BY DEF Enrolments, OfEnrolment
<1>10. Opened(dir, older)'
  BY DEF Opened
<1>11. RepliesKept(dir, older)'
  BY DEF RepliesKept, Held
<1>12. World(dir, older)'
  BY DEF World, Known, Superseded, RowKnown
<1>13. Phases(dir, older)'
  BY DEF Phases, Awaits, EnrollSteps
<1>14. AtStep(dir)'
  BY DEF AtStep, Saving, Secured, Truth, Resolutions
<1>15. EnrollAtStep(dir)'
  BY DEF EnrollAtStep, Stowed, Secured, Resolutions
<1>16. QED
  BY <1>7, <1>8, <1>9, <1>10, <1>11, <1>12, <1>13, <1>14, <1>15

LEMMA LookKeeps ==
  ASSUME IInv, Look, Aside
  PROVE  IInv'
<1>1. TransferAt("look") /\ Step("look")
  BY TransferAtWork DEF Look, EnrollSteps
<1>2. wf # None /\ unsaved = FALSE /\ wf.state # "replacement"
  BY <1>1 DEF IInv, Inv, Core, Transfers, AtStep, At, Holding, Types, TransferTypeOK, Fit
<1>3. PICK x \in Reads :
        /\ Happens(x)
        /\ IF x.ok /\ Records(x.dir, "transfer") = {Unreadable}
           THEN wf' = Unreadable /\ terminal' = "unreadable"
           ELSE UNCHANGED <<wf, terminal>>
  BY DEF Look
<1>4. Inv(dir', older') /\ debt' = debt /\ MoreFaults
  BY <1>3, ReadHappens
<1>5. CASE wf' = Unreadable /\ terminal' = "unreadable"
  BY <1>4, <1>5, LookedKeeps DEF Unreadable
<1>6. CASE UNCHANGED <<wf, terminal>>
  <2>1. Core(dir', older')
    BY <1>4 DEF Inv
  <2>2. Ended
    BY <1>1, <1>2, <1>4, <1>6, <2>1 DEF Look, Ended, EndMemory, EndWarned, Sealed
  <2>3. Unmoved
    BY <1>1, <1>2, <1>4, <1>6, <2>1 DEF Look, EndMemory, EndWarned, outside
  <2>4. QED
    BY <1>1, <1>2, <1>4, <1>6, <2>1, <2>2, <2>3, RunEnds DEF EnrollSteps
<1>7. QED
  BY <1>3, <1>5, <1>6

LEMMA LoadFailsKeeps ==
  ASSUME IInv, Load, Aside, Inv(dir', older'), debt' = debt, MoreFaults,
         open' = open \ Stored(dir'), received' = received \ Stored(dir'),
         problem' = TRUE, UNCHANGED <<wf, terminal>>
  PROVE  IInv'
<1>1. Inv(dir', older') /\ debt' = debt /\ MoreFaults
  OBVIOUS
<1>2. TransferAt("load") /\ Step("load")
  BY TransferAtWork DEF Load, EnrollSteps
<1>3. /\ wf = None /\ problem = FALSE /\ pending = "none" /\ terminal = None /\ auth = "no"
      /\ phase = "no"
      /\ enrollOwed = None /\ staged = None /\ recovering = FALSE /\ owed = None
      /\ unsaved = FALSE
      /\ badHeld = FALSE /\ proving = None /\ resolving = None /\ received \subseteq open
  BY <1>2 DEF IInv, Inv, Core, Transfers, Phases, At, Types, TransferTypeOK, Holding
<1>4. open' \subseteq open /\ received' \subseteq received /\ received' \subseteq open'
  BY <1>3 DEF Stored
<1>5. /\ problem' = TRUE
      /\ job' = None /\ open' \subseteq open /\ received' \subseteq received
      /\ received' \subseteq open'
      /\ UNCHANGED <<signin, asking, vault, enrolment, enrollment, wf, owed, unsaved,
         badHeld, steam, sent, adopted, debt>>
  BY <1>1, <1>2, <1>3, <1>4, SetAside DEF Load
<1>6. \A n \in open' : Trace(n, dir')
  <2>1. SUFFICES ASSUME NEW n \in open' PROVE Trace(n, dir')
    OBVIOUS
  <2>2. /\ n \in open /\ n \notin Stored(dir') /\ Opens(n, dir', older')
        /\ (AllTrace(n, dir', older') \/ RowIs(n))
    BY <1>1, <1>4 DEF Inv, Core, Opened
  <2>3. CASE AllTrace(n, dir', older')
    BY <2>3 DEF AllTrace
  <2>4. CASE RowIs(n)
    <3>1. PICK r \in dir'.files \cup dir'.staged : r.attempt = n
      BY <2>2, <2>4 DEF Stored, RowIs, Rows
    <3>2. QED
      BY <2>2, <3>1 DEF Opens, Trace
  <2>5. QED
    BY <2>2, <2>3, <2>4
<1> USE <1>1, <1>2, <1>3, <1>4, <1>5, <1>6 DEF IInv, Inv, Core, At, Idle, Holding, Sealed,
   RowIs, Rows
<1>7. Types'
  <2>1. TransferTypeOK'
    BY DEF Types, TransferTypeOK
  <2>2. EnrollTypeOK'
    BY DEF Types, EnrollTypeOK
  <2>3. QED
    BY <2>1, <2>2 DEF Types, MoreFaults
<1>8. Transfers(dir, older)'
  BY DEF Transfers
<1>9. Enrolments(dir, older)'
  BY DEF Enrolments, OfEnrolment
<1>10. Opened(dir, older)'
  BY DEF Opened
<1>11. RepliesKept(dir, older)'
  BY DEF RepliesKept, Held
<1>12. World(dir, older)'
  BY DEF World, Known, Superseded, RowKnown
<1>13. Phases(dir, older)'
  BY DEF Phases, Awaits, EnrollSteps
<1>14. AtStep(dir)'
  BY DEF AtStep, Saving, Secured, Truth, Resolutions
<1>15. EnrollAtStep(dir)'
  BY DEF EnrollAtStep, Stowed, Secured, Resolutions
<1>16. QED
  BY <1>7, <1>8, <1>9, <1>10, <1>11, <1>12, <1>13, <1>14, <1>15

LEMMA LoadShowsKeeps ==
  ASSUME IInv, Load, Aside, Inv(dir', older'), debt' = debt, MoreFaults,
         open' = open \ Stored(dir'), received' = received \ Stored(dir'),
         NEW f \in dir'.files, f.kind = "transfer", dir'.staged = {}, wf' = f,
         UNCHANGED problem,
         terminal' \in {None, "unanswered", "unreadable", "not-replaced"}
  PROVE  IInv'
<1>1. Inv(dir', older') /\ debt' = debt /\ MoreFaults
  OBVIOUS
<1>2. TransferAt("load") /\ Step("load")
  BY TransferAtWork DEF Load, EnrollSteps
<1>3. /\ wf = None /\ problem = FALSE /\ pending = "none" /\ terminal = None /\ auth = "no"
      /\ phase = "no"
      /\ enrollOwed = None /\ staged = None /\ recovering = FALSE /\ owed = None
      /\ unsaved = FALSE
      /\ badHeld = FALSE /\ proving = None /\ resolving = None /\ received \subseteq open
  BY <1>2 DEF IInv, Inv, Core, Transfers, Phases, At, Types, TransferTypeOK, Holding
<1>4. open' \subseteq open /\ received' \subseteq received /\ received' \subseteq open'
  BY <1>3 DEF Stored
<1>5. /\ Fit(f) /\ f \in Record /\ f # None /\ Known(f) /\ Mine(f, dir', older')
      /\ open' \subseteq {f.attempt} /\ Trace(f.attempt, dir')
  <2>1. f \in Recs(dir') /\ f \in Written(dir', older')
    BY WrittenBy DEF Recs
  <2>2. QED
    BY <1>1, <1>4, <2>1, NoneAssumption DEF Inv, Core, Sound, Mine, World, Opened, Opens,
       Fit, Trace
<1>6. /\ wf' = f
      /\ job' = None /\ open' \subseteq open /\ received' \subseteq received
      /\ received' \subseteq open'
      /\ UNCHANGED <<asking, vault, enrolment, enrollment, problem, owed, pending, auth,
         challenging, unsaved, badHeld, steam, sent, adopted, debt>>
  BY <1>1, <1>2, <1>3, <1>4, <1>5, SetAside DEF Load
<1>7. f.state = "replacement" => Waiting(dir', "usable")
  <2>1. \A g \in Recs(dir') : g = f
    BY <1>1 DEF Inv, Core, Sound, Single, Recs
  <2>2. f.state = "replacement" => f.reply = "usable"
    BY <1>5 DEF Fit
  <2>3. QED
    BY <2>1, <2>2 DEF Waiting
<1>8. \A n \in open' : Trace(n, dir')
  <2>1. SUFFICES ASSUME NEW n \in open' PROVE Trace(n, dir')
    OBVIOUS
  <2>2. /\ n \in open /\ n \notin Stored(dir') /\ Opens(n, dir', older')
        /\ (AllTrace(n, dir', older') \/ RowIs(n))
    BY <1>1, <1>4 DEF Inv, Core, Opened
  <2>3. CASE AllTrace(n, dir', older')
    BY <2>3 DEF AllTrace
  <2>4. CASE RowIs(n)
    <3>1. PICK r \in dir'.files \cup dir'.staged : r.attempt = n
      BY <2>2, <2>4 DEF Stored, RowIs, Rows
    <3>2. QED
      BY <2>2, <3>1 DEF Opens, Trace
  <2>5. QED
    BY <2>2, <2>3, <2>4
<1> USE <1>1, <1>2, <1>3, <1>4, <1>5, <1>6, <1>7, <1>8 DEF IInv, Inv, Core, At, Idle,
   Holding, Sealed, RowIs, Rows
<1>9. Types'
  <2>1. TransferTypeOK'
    BY DEF Types, TransferTypeOK
  <2>2. EnrollTypeOK'
    BY DEF Types, EnrollTypeOK
  <2>3. QED
    BY <2>1, <2>2 DEF Types, MoreFaults
<1>10. Transfers(dir, older)'
  BY DEF Transfers
<1>11. Enrolments(dir, older)'
  BY DEF Enrolments, OfEnrolment
<1>12. Opened(dir, older)'
  BY DEF Opened
<1>13. RepliesKept(dir, older)'
  BY DEF RepliesKept, Held
<1>14. World(dir, older)'
  BY DEF World, Known, Superseded, RowKnown
<1>15. Phases(dir, older)'
  BY DEF Phases, Awaits, EnrollSteps
<1>16. AtStep(dir)'
  BY DEF AtStep, Saving, Secured, Truth, Resolutions
<1>17. EnrollAtStep(dir)'
  BY DEF EnrollAtStep, Stowed, Secured, Resolutions
<1>18. QED
  BY <1>9, <1>10, <1>11, <1>12, <1>13, <1>14, <1>15, <1>16, <1>17

LEMMA LoadNothingKeeps ==
  ASSUME IInv, Load, Aside, Inv(dir', older'), debt' = debt, MoreFaults,
         open' = open \ Stored(dir'), received' = received \ Stored(dir'),
         ~Shows(dir'), UNCHANGED <<problem, wf, terminal>>
  PROVE  IInv'
<1>1. Inv(dir', older') /\ debt' = debt /\ MoreFaults
  OBVIOUS
<1>2. TransferAt("load") /\ Step("load")
  BY TransferAtWork DEF Load, EnrollSteps
<1>3. /\ wf = None /\ problem = FALSE /\ pending = "none" /\ terminal = None /\ auth = "no"
      /\ phase = "no"
      /\ enrollOwed = None /\ staged = None /\ recovering = FALSE /\ owed = None
      /\ unsaved = FALSE
      /\ badHeld = FALSE /\ proving = None /\ resolving = None /\ received \subseteq open
  BY <1>2 DEF IInv, Inv, Core, Transfers, Phases, At, Types, TransferTypeOK, Holding
<1>4. open' \subseteq open /\ received' \subseteq received /\ received' \subseteq open'
  BY <1>3 DEF Stored
<1>5. /\ job' = None /\ open' \subseteq open /\ received' \subseteq received
      /\ received' \subseteq open'
      /\ UNCHANGED <<transfer, vault, enrolment, enrollment, steam, sent, adopted,
         debt>>
  BY <1>1, <1>2, <1>3, <1>4, SetAside DEF Load
<1>6. \A n \in open' : Trace(n, dir')
  <2>1. SUFFICES ASSUME NEW n \in open' PROVE Trace(n, dir')
    OBVIOUS
  <2>2. /\ n \in open /\ n \notin Stored(dir') /\ Opens(n, dir', older')
        /\ (AllTrace(n, dir', older') \/ RowIs(n))
    BY <1>1, <1>4 DEF Inv, Core, Opened
  <2>3. CASE AllTrace(n, dir', older')
    BY <2>3 DEF AllTrace
  <2>4. CASE RowIs(n)
    <3>1. PICK r \in dir'.files \cup dir'.staged : r.attempt = n
      BY <2>2, <2>4 DEF Stored, RowIs, Rows
    <3>2. QED
      BY <2>2, <3>1 DEF Opens, Trace
  <2>5. QED
    BY <2>2, <2>3, <2>4
<1> USE <1>1, <1>2, <1>3, <1>4, <1>5, <1>6 DEF IInv, Inv, Core, At, Idle, Holding, Sealed,
   RowIs, Rows
<1>7. Types'
  <2>1. TransferTypeOK'
    BY DEF Types, TransferTypeOK
  <2>2. EnrollTypeOK'
    BY DEF Types, EnrollTypeOK
  <2>3. QED
    BY <2>1, <2>2 DEF Types, MoreFaults
<1>8. Transfers(dir, older)'
  BY DEF Transfers
<1>9. Enrolments(dir, older)'
  BY DEF Enrolments, OfEnrolment
<1>10. Opened(dir, older)'
  BY DEF Opened
<1>11. RepliesKept(dir, older)'
  BY DEF RepliesKept, Held
<1>12. World(dir, older)'
  BY DEF World, Known, Superseded, RowKnown
<1>13. Phases(dir, older)'
  BY DEF Phases, Awaits, EnrollSteps
<1>14. AtStep(dir)'
  BY DEF AtStep, Saving, Secured, Truth, Resolutions
<1>15. EnrollAtStep(dir)'
  BY DEF EnrollAtStep, Stowed, Secured, Resolutions
<1>16. QED
  BY <1>7, <1>8, <1>9, <1>10, <1>11, <1>12, <1>13, <1>14, <1>15

LEMMA LoadKeeps ==
  ASSUME IInv, Load, Aside
  PROVE  IInv'
<1>1. PICK x \in Reads :
        /\ Happens(x)
        /\ LET found == Records(x.dir, "transfer") IN
           IF x.ok /\ Cardinality(found) =< 1
           THEN /\ wf' = IF found = {} THEN None ELSE CHOOSE r \in found : TRUE
                /\ terminal' = IF wf' = None \/ wf'.state = "replacement" THEN None
                               ELSE IF wf'.state = "sending" THEN "unanswered"
                               ELSE wf'.state
                /\ UNCHANGED problem
           ELSE problem' = TRUE /\ UNCHANGED <<wf, terminal>>
        /\ open' = open \ Stored(x.dir) /\ received' = received \ Stored(x.dir)
  BY Zenon DEF Load
<1>2. /\ Inv(dir', older') /\ debt' = debt /\ MoreFaults /\ x.dir = dir'
      /\ x.ok => dir'.staged = {} /\ ~dir'.torn
  BY <1>1, ReadHappens
<1>3. open' = open \ Stored(dir') /\ received' = received \ Stored(dir')
  BY <1>1, <1>2
<1>4. wf = None /\ terminal = None
  BY JobIs, TypesHold DEF IInv, Inv, Phases, At, Load
<1> DEFINE found == Records(dir', "transfer")
<1>5. CASE problem' = TRUE /\ UNCHANGED <<wf, terminal>>
  BY <1>2, <1>3, <1>5, LoadFailsKeeps
<1>6. CASE /\ x.ok
           /\ wf' = IF found = {} THEN None ELSE CHOOSE r \in found : TRUE
           /\ terminal' = IF wf' = None \/ wf'.state = "replacement" THEN None
                          ELSE IF wf'.state = "sending" THEN "unanswered"
                          ELSE wf'.state
           /\ UNCHANGED problem
  <2>1. CASE found = {}
    <3>1. ~Shows(dir')
      BY <2>1 DEF Shows, Records
    <3>2. UNCHANGED <<problem, wf, terminal>>
      BY <1>4, <1>6, <2>1
    <3>3. QED
      BY <1>2, <1>3, <3>1, <3>2, LoadNothingKeeps
  <2>2. CASE found # {}
    <3>1. wf' \in found
      BY <1>6, <2>2
    <3>2. wf' \in dir'.files /\ wf'.kind = "transfer"
      BY <3>1 DEF Records
    <3>3. Fit(wf')
      <4>1. wf' \in Recs(dir')
        BY <3>2 DEF Recs
      <4>2. QED
        BY <4>1, <1>2, WrittenBy DEF Inv, Core, Sound
    <3>4. terminal' \in {None, "unanswered", "unreadable", "not-replaced"}
      BY <1>6, <3>2, <3>3 DEF Fit, TransferStates
    <3>5. QED
      BY <1>2, <1>3, <1>6, <3>2, <3>4, LoadShowsKeeps
  <2>3. QED
    BY <2>1, <2>2
<1>7. QED
  BY <1>1, <1>2, <1>5, <1>6

-----------------------------------------------------------------------------
(* The answers to a transfer's request.                                    *)

(* The journal of a note that was just published.                          *)
LEMMA FreshIs ==
  ASSUME NEW r, NEW d, NEW o, Fresh(r, d, o)
  PROVE  /\ Written(d, o) = {r} /\ Recs(d) = {r} /\ Read(r, d)
         /\ Trace(r.attempt, d) /\ AllTrace(r.attempt, d, o) /\ Opens(r.attempt, d, o)
         /\ \A n : ~Has(n, d) /\ Keeps(n, d, o)
         /\ \A reply : Waiting(d, reply)
         /\ Shows(d) => r.kind = "transfer"
<1>1. /\ d.files = {r} /\ d.staged = {} /\ ~d.torn /\ o = {} /\ r.state = "sending"
      /\ r.reply = "none"
  BY DEF Fresh
<1>2. Recs(d) = {r}
  BY <1>1 DEF Recs
<1>3. Written(d, o) = {r}
  BY <1>1, <1>2, WrittenBy
<1>4. Trace(r.attempt, d) /\ AllTrace(r.attempt, d, o)
  BY <1>1 DEF Trace, AllTrace
<1>5. \A n : ~Has(n, d) /\ Keeps(n, d, o)
  BY <1>1, <1>2 DEF Has, Keeps
<1>6. Opens(r.attempt, d, o)
  BY <1>1, <1>3, <1>4 DEF Opens
<1>7. QED
  BY <1>1, <1>2, <1>3, <1>4, <1>5, <1>6 DEF Read, Waiting, Shows

LEMMA TransferAwaits ==
  ASSUME IInv, Answered
  PROVE  /\ TransferAsked
<1>1. /\ Types /\ Core(dir, older) /\ Phases(dir, older) /\ job = None /\ Idle
      /\ phase = "asked"
  BY DEF IInv, Inv, Answered, Idle
<1>2. wf # None /\ Awaits(wf, dir, older) /\ ~Holding /\ owed = None
  BY <1>1 DEF Core, Transfers, Phases
<1>3. /\ Fit(wf) /\ wf.kind = "transfer" /\ Mine(wf, dir, older) /\ open \subseteq {wf.attempt}
      /\ enrollOwed = None /\ erec = None /\ staged = None /\ Known(wf) /\ Sound(dir, older)
  BY <1>1, <1>2 DEF Core, Transfers, World
<1>4. /\ problem = FALSE /\ proving = None /\ resolving = None /\ recovering = FALSE
      /\ login # "asked" /\ enrollHolds = FALSE
  BY <1>1, <1>2 DEF Phases, Types, TransferTypeOK, EnrollTypeOK
<1>5. /\ Fresh(wf, dir, older) /\ wf.attempt \in open /\ wf.attempt \notin received
      /\ ~RowIs(wf.attempt) /\ ~Rows(wf.attempt, bak)
  BY <1>2 DEF Awaits
<1>6. open = {wf.attempt} /\ received = {} /\ wf.attempt \in sent
  BY <1>1, <1>3, <1>5 DEF Types
<1>7. unsaved = FALSE /\ badHeld = FALSE
  BY <1>1, <1>2 DEF Holding, Types, TransferTypeOK
<1>8. /\ Written(dir, older) = {wf} /\ Read(wf, dir)
      /\ Keeps(wf.attempt, dir, older) /\ \A reply : Waiting(dir, reply)
  BY <1>5, FreshIs
<1>9. wf.state = "sending" /\ wf.reply = "none" /\ wf \in Record
  BY <1>3, <1>5 DEF Fresh, Fit
<1>10. QED
  BY <1>1, <1>2, <1>3, <1>4, <1>5, <1>6, <1>7, <1>8, <1>9

LEMMA ReplyNoChangeKeeps ==
  ASSUME IInv, ReplyNoChange, UNCHANGED enrollment
  PROVE  IInv'
<1>1. Inv(dir', older') /\ UNCHANGED <<debt, faults>>
  BY Untouched DEF ReplyNoChange
<1>2. TransferAsked
  BY TransferAwaits DEF ReplyNoChange
<1>3. [step |-> "clear", by |-> "submission", passphrase |-> FALSE, resolution |-> "notReplaced"] \in Job
  BY DEF Job, Resolutions
<1>4. /\ job' # None /\ job' \in Job /\ job'.step = "clear" /\ job'.by = "submission"
      /\ job'.passphrase = FALSE /\ job'.resolution = "notReplaced"
      /\ open' = {}
      /\ UNCHANGED <<transfer, vault, enrolment, enrollment, steam, sent, received,
         adopted, debt, faults>>
  BY <1>1, <1>2, <1>3, Started DEF ReplyNoChange
<1>5. None \notin Resolutions /\ None \notin Record
  BY NoneAssumption
<1>6. dir' = dir
  BY DEF ReplyNoChange, journalVars
<1>7. AtStep(dir)'
  BY <1>2, <1>4, <1>5, <1>6 DEF AtStep, At, Idle, Holding, Sealed, Saving, Resolutions
<1> USE <1>1, <1>2, <1>3, <1>4, <1>5, <1>6 DEF IInv, Inv, Core, At, Idle, Holding, Sealed,
   RowIs, Rows
<1>8. Types'
  <2>1. TransferTypeOK'
    BY DEF Types, TransferTypeOK
  <2>2. EnrollTypeOK'
    BY DEF Types, EnrollTypeOK
  <2>3. QED
    BY <2>1, <2>2 DEF Types, MoreFaults
<1>9. Transfers(dir, older)'
  BY DEF Transfers
<1>10. Enrolments(dir, older)'
  BY DEF Enrolments, OfEnrolment
<1>11. Opened(dir, older)'
  BY DEF Opened
<1>12. RepliesKept(dir, older)'
  BY DEF RepliesKept, Held
<1>13. World(dir, older)'
  BY DEF World, Known, Superseded, RowKnown
<1>14. Phases(dir, older)'
  BY DEF Phases, Awaits, EnrollSteps
<1>15. EnrollAtStep(dir)'
  BY DEF EnrollAtStep, Stowed, Secured, Resolutions
<1>16. QED
  BY <1>7, <1>8, <1>9, <1>10, <1>11, <1>12, <1>13, <1>14, <1>15

LEMMA AwaitedTurns ==
  ASSUME IInv, Answered, NEW state, NEW reply, NEW t, t = Turned(wf, state, reply),
         state \in {"unanswered", "unreadable", "replacement"}, reply \in {"none", "usable", "unusable"},
         reply = "usable" <=> state = "replacement", reply = "unusable" => state = "unreadable"
  PROVE  /\ Fit(t) /\ SameIdentity(wf, t) /\ t \in Record /\ t # None
         /\ t.attempt = wf.attempt /\ t.kind = wf.kind /\ t.prior = wf.prior
         /\ t.state = state /\ t.reply = reply
         /\ Reconcilable(dir) => \A f \in Merged(dir).files : Follows(f, t)
<1>1. TransferAsked
  BY TransferAwaits
<1>2. /\ Fit(t) /\ SameIdentity(wf, t) /\ t \in Record /\ t # None
      /\ t.attempt = wf.attempt /\ t.kind = wf.kind /\ t.prior = wf.prior
      /\ t.state = state /\ t.reply = reply
  <2>1. state \in TransferStates /\ wf.kind # "enrollment"
    BY <1>1 DEF TransferStates
  <2>2. QED
    BY <1>1, <2>1, TurnedIs
<1>3. Follows(wf, t)
  BY <1>1, <1>2 DEF Follows
<1>4. QED
  BY <1>1, <1>2, <1>3, FollowsRead

LEMMA FinishedKeeps ==
  ASSUME IInv, Answered, Executed \/ UNCHANGED steam, UNCHANGED enrollment,
         NEW kind \in {"unanswered", "unreadable"}, Finish(kind),
         NEW t, Fit(t), SameIdentity(wf, t), t \in Record, t # None, t.reply = "none",
         t.state = kind, t.attempt = wf.attempt, t.kind = wf.kind, t.prior = wf.prior,
         wf' \in {t, wf},
         Core(dir', older'), debt' = debt, MoreFaults
  PROVE  IInv'
<1>1. Core(dir', older') /\ debt' = debt /\ MoreFaults
  OBVIOUS
<1>2. TransferAsked
  BY TransferAwaits
<1>3. steam' \in Prints \cup {None} /\ (steam' = wf.attempt \/ steam' = steam) /\ UNCHANGED <<sent,
         adopted>>
  BY <1>2, PrintsAssumption DEF Record, Types, Executed, Finish
<1>4. \A r \in Written(dir', older') : Known(r)'
  <2>1. \A r \in Written(dir', older') : Known(r) /\ Fit(r) /\ SameIdentity(wf, r)
    BY <1>1, <1>2, <1>3 DEF Core, World, Sound, Transfers, Mine
  <2>2. QED
    BY <2>1, <1>1, <1>2, <1>3 DEF Known, Superseded, Fit, SameIdentity
<1>5. wf' \in Record /\ wf' # None /\ Fit(wf)' /\ SameIdentity(wf, wf') /\ wf'.attempt = wf.attempt /\ wf'.kind = "transfer"
      /\ wf'.reply = "none" /\ wf'.state # "replacement" /\ Known(wf)' /\ wf'.prior = wf.prior
  BY <1>2, <1>3 DEF Known, Superseded, SameIdentity
<1>6. Mine(wf', dir', older')
  BY <1>1, <1>2, <1>5 DEF Core, Transfers, Mine, SameIdentity
<1>7. /\ terminal' = kind /\ pending' = "none" /\ phase' = "no" /\ steam' \in Prints \cup {None}
      /\ UNCHANGED <<vault, enrolment, enrollment, problem, owed, auth, challenging,
         recovering, proving, resolving, unsaved, badHeld, job, sent, open, received,
         adopted, debt>>
  BY <1>1, <1>2, <1>3, <1>4, <1>5, <1>6 DEF Finish
<1> USE <1>1, <1>2, <1>3, <1>4, <1>5, <1>6, <1>7 DEF IInv, Inv, Core, At, Idle, Holding,
   Sealed, RowIs, Rows
<1>8. Types'
  <2>1. TransferTypeOK'
    BY DEF Types, TransferTypeOK
  <2>2. EnrollTypeOK'
    BY DEF Types, EnrollTypeOK
  <2>3. QED
    BY <2>1, <2>2 DEF Types, MoreFaults
<1>9. Transfers(dir, older)'
  BY DEF Transfers, SameIdentity
<1>10. Enrolments(dir, older)'
  BY DEF Enrolments, OfEnrolment
<1>11. Opened(dir, older)'
  BY DEF Opened
<1>12. RepliesKept(dir, older)'
  BY DEF RepliesKept, Held
<1>13. World(dir, older)'
  BY DEF World, Known, Superseded, RowKnown
<1>14. Phases(dir, older)'
  BY DEF Phases, Awaits, EnrollSteps
<1>15. AtStep(dir)'
  BY DEF AtStep, Saving, Secured, Truth, Resolutions
<1>16. EnrollAtStep(dir)'
  BY DEF EnrollAtStep, Stowed, Secured, Resolutions
<1>17. QED
  BY <1>8, <1>9, <1>10, <1>11, <1>12, <1>13, <1>14, <1>15, <1>16

LEMMA ReplyLostKeeps ==
  ASSUME IInv, ReplyLost, UNCHANGED enrollment
  PROVE  IInv'
<1> DEFINE t == Turned(wf, "unanswered", "none")
<1>1. TransferAsked
  BY TransferAwaits DEF ReplyLost
<1>2. /\ Fit(t) /\ SameIdentity(wf, t) /\ t \in Record /\ t # None
      /\ t.attempt = wf.attempt /\ t.kind = wf.kind /\ t.prior = wf.prior
      /\ t.state = "unanswered" /\ t.reply = "none"
      /\ Reconcilable(dir) => \A f \in Merged(dir).files : Follows(f, t)
  BY AwaitedTurns DEF ReplyLost
<1>3. PICK x \in Updates(t) : Happens(x) /\ wf' = IF x.ok THEN t ELSE wf
  BY DEF ReplyLost, Finish
<1>4. Known(t)
  BY <1>1, <1>2 DEF Known
<1>5. Core(dir', older') /\ debt' = debt /\ MoreFaults
  BY <1>1, <1>2, <1>3, <1>4, TransferWrites DEF Sealed
<1>6. QED
  BY <1>2, <1>3, <1>5, FinishedKeeps DEF ReplyLost

LEMMA ReplyUnreadableKeeps ==
  ASSUME IInv, ReplyUnreadable, UNCHANGED enrollment
  PROVE  IInv'
<1> DEFINE t == Turned(wf, "unreadable", "none")
<1>1. TransferAsked
  BY TransferAwaits DEF ReplyUnreadable
<1>2. /\ Fit(t) /\ SameIdentity(wf, t) /\ t \in Record /\ t # None
      /\ t.attempt = wf.attempt /\ t.kind = wf.kind /\ t.prior = wf.prior
      /\ t.state = "unreadable" /\ t.reply = "none"
      /\ Reconcilable(dir) => \A f \in Merged(dir).files : Follows(f, t)
  BY AwaitedTurns DEF ReplyUnreadable
<1>3. PICK x \in Updates(t) : Happens(x) /\ wf' = IF x.ok THEN t ELSE wf
  BY DEF ReplyUnreadable, Finish
<1>4. Known(t)
  BY <1>1, <1>2 DEF Known
<1>5. Core(dir', older') /\ debt' = debt /\ MoreFaults
  BY <1>1, <1>2, <1>3, <1>4, TransferWrites DEF Sealed
<1>6. QED
  BY <1>2, <1>3, <1>5, FinishedKeeps DEF ReplyUnreadable

LEMMA UnusableKeptKeeps ==
  ASSUME IInv, ReplyUnusable, UNCHANGED enrollment,
         NEW t, Fit(t), SameIdentity(wf, t), t \in Record, t # None, t.reply = "unusable",
         t.state = "unreadable", t.attempt = wf.attempt, t.kind = wf.kind, t.prior = wf.prior,
         Core(dir', older'), debt' = debt, MoreFaults, Waiting(dir', "unusable"),
         Keeps(wf.attempt, dir', older'),
         wf' = t, badHeld' = FALSE, \A b : SafeIn(wf.attempt, dir', older', b)
  PROVE  IInv'
<1>1. Core(dir', older') /\ debt' = debt /\ MoreFaults
  OBVIOUS
<1>2. TransferAsked
  BY TransferAwaits DEF ReplyUnusable
<1>3. steam' \in Prints \cup {None} /\ steam' = wf.attempt /\ UNCHANGED <<sent, adopted>>
  BY <1>2, PrintsAssumption DEF Record, ReplyUnusable, Executed
<1>4. \A r \in Written(dir', older') : Known(r)'
  <2>1. \A r \in Written(dir', older') : Known(r) /\ Fit(r) /\ SameIdentity(wf, r)
    BY <1>1, <1>2, <1>3 DEF Core, World, Sound, Transfers, Mine
  <2>2. QED
    BY <2>1, <1>1, <1>2, <1>3 DEF Known, Superseded, Fit, SameIdentity
<1>5. wf' \in Record /\ wf' # None /\ Fit(wf)' /\ SameIdentity(wf, wf') /\ wf'.attempt = wf.attempt /\ wf'.kind = "transfer"
      /\ wf'.reply = "unusable" /\ wf'.state # "replacement" /\ Known(wf)'
      /\ wf'.prior = wf.prior
  BY <1>2, <1>3 DEF Known, Superseded, SameIdentity
<1>6. Mine(wf', dir', older')
  BY <1>1, <1>2, <1>5 DEF Core, Transfers, Mine, SameIdentity
<1>7. /\ terminal' = "unreadable" /\ pending' = "none" /\ phase' = "no"
      /\ steam' \in Prints \cup {None}
      /\ received' = {wf.attempt}
      /\ badHeld' = FALSE
      /\ UNCHANGED <<vault, enrolment, enrollment, problem, owed, auth, challenging,
         recovering, proving, resolving, unsaved, job, sent, open, adopted, debt>>
  BY <1>1, <1>2, <1>3, <1>4, <1>5, <1>6 DEF ReplyUnusable
<1> USE <1>1, <1>2, <1>3, <1>4, <1>5, <1>6, <1>7 DEF IInv, Inv, Core, At, Idle, Holding,
   Sealed, RowIs, Rows
<1>8. Types'
  <2>1. TransferTypeOK'
    BY DEF Types, TransferTypeOK
  <2>2. EnrollTypeOK'
    BY DEF Types, EnrollTypeOK
  <2>3. QED
    BY <2>1, <2>2 DEF Types, MoreFaults
<1>9. Transfers(dir, older)'
  BY DEF Transfers, SameIdentity
<1>10. Enrolments(dir, older)'
  BY DEF Enrolments, OfEnrolment
<1>11. Opened(dir, older)'
  BY DEF Opened
<1>12. RepliesKept(dir, older)'
  BY DEF RepliesKept, Held
<1>13. World(dir, older)'
  BY DEF World, Known, Superseded, RowKnown
<1>14. Phases(dir, older)'
  BY DEF Phases, Awaits, EnrollSteps
<1>15. AtStep(dir)'
  BY DEF AtStep, Saving, Secured, Truth, Resolutions
<1>16. EnrollAtStep(dir)'
  BY DEF EnrollAtStep, Stowed, Secured, Resolutions
<1>17. QED
  BY <1>8, <1>9, <1>10, <1>11, <1>12, <1>13, <1>14, <1>15, <1>16

LEMMA UnusableHeldKeeps ==
  ASSUME IInv, ReplyUnusable, UNCHANGED enrollment,
         NEW t, Fit(t), SameIdentity(wf, t), t \in Record, t # None, t.reply = "unusable",
         t.state = "unreadable", t.attempt = wf.attempt, t.kind = wf.kind, t.prior = wf.prior,
         Core(dir', older'), debt' = debt, MoreFaults, Waiting(dir', "unusable"),
         Keeps(wf.attempt, dir', older'),
         wf' = wf, badHeld' = TRUE
  PROVE  IInv'
<1>1. Core(dir', older') /\ debt' = debt /\ MoreFaults
  OBVIOUS
<1>2. TransferAsked
  BY TransferAwaits DEF ReplyUnusable
<1>3. steam' \in Prints \cup {None} /\ steam' = wf.attempt /\ UNCHANGED <<sent, adopted>>
  BY <1>2, PrintsAssumption DEF Record, ReplyUnusable, Executed
<1>4. \A r \in Written(dir', older') : Known(r)'
  <2>1. \A r \in Written(dir', older') : Known(r) /\ Fit(r) /\ SameIdentity(wf, r)
    BY <1>1, <1>2, <1>3 DEF Core, World, Sound, Transfers, Mine
  <2>2. QED
    BY <2>1, <1>1, <1>2, <1>3 DEF Known, Superseded, Fit, SameIdentity
<1>5. wf' \in Record /\ wf' # None /\ Fit(wf)' /\ SameIdentity(wf, wf') /\ wf'.attempt = wf.attempt /\ wf'.kind = "transfer"
      /\ wf'.state = "sending" /\ wf'.reply = "none" /\ wf'.state # "replacement"
      /\ Known(wf)' /\ wf'.prior = wf.prior
  BY <1>2, <1>3 DEF Known, Superseded, SameIdentity
<1>6. Mine(wf', dir', older')
  BY <1>1, <1>2, <1>5 DEF Core, Transfers, Mine, SameIdentity
<1>7. /\ terminal' = "unreadable" /\ pending' = "none" /\ phase' = "no"
      /\ steam' \in Prints \cup {None}
      /\ received' = {wf.attempt}
      /\ badHeld' = TRUE
      /\ UNCHANGED <<vault, enrolment, enrollment, problem, owed, auth, challenging,
         recovering, proving, resolving, unsaved, job, sent, open, adopted, debt>>
  BY <1>1, <1>2, <1>3, <1>4, <1>5, <1>6 DEF ReplyUnusable
<1> USE <1>1, <1>2, <1>3, <1>4, <1>5, <1>6, <1>7 DEF IInv, Inv, Core, At, Idle, Holding,
   Sealed, RowIs, Rows
<1>8. Types'
  <2>1. TransferTypeOK'
    BY DEF Types, TransferTypeOK
  <2>2. EnrollTypeOK'
    BY DEF Types, EnrollTypeOK
  <2>3. QED
    BY <2>1, <2>2 DEF Types, MoreFaults
<1>9. Transfers(dir, older)'
  BY DEF Transfers, SameIdentity
<1>10. Enrolments(dir, older)'
  BY DEF Enrolments, OfEnrolment
<1>11. Opened(dir, older)'
  BY DEF Opened
<1>12. RepliesKept(dir, older)'
  BY DEF RepliesKept, Held
<1>13. World(dir, older)'
  BY DEF World, Known, Superseded, RowKnown
<1>14. Phases(dir, older)'
  BY DEF Phases, Awaits, EnrollSteps
<1>15. AtStep(dir)'
  BY DEF AtStep, Saving, Secured, Truth, Resolutions
<1>16. EnrollAtStep(dir)'
  BY DEF EnrollAtStep, Stowed, Secured, Resolutions
<1>17. QED
  BY <1>8, <1>9, <1>10, <1>11, <1>12, <1>13, <1>14, <1>15, <1>16

LEMMA ReplyUnusableKeeps ==
  ASSUME IInv, ReplyUnusable, UNCHANGED enrollment
  PROVE  IInv'
<1> DEFINE t == Turned(wf, "unreadable", "unusable")
<1>1. TransferAsked
  BY TransferAwaits DEF ReplyUnusable
<1>2. /\ Fit(t) /\ SameIdentity(wf, t) /\ t \in Record /\ t # None
      /\ t.attempt = wf.attempt /\ t.kind = wf.kind /\ t.prior = wf.prior
      /\ t.state = "unreadable" /\ t.reply = "unusable"
      /\ Reconcilable(dir) => \A f \in Merged(dir).files : Follows(f, t)
  BY AwaitedTurns DEF ReplyUnusable
<1>3. PICK x \in Updates(t) : Happens(x) /\ (wf' = IF x.ok THEN t ELSE wf) /\ badHeld' = ~x.ok
  BY DEF ReplyUnusable
<1>4. Known(t)
  BY <1>1, <1>2 DEF Known
<1>5. /\ Core(dir', older') /\ debt' = debt /\ MoreFaults /\ x.ok \in BOOLEAN
      /\ x.ok => /\ Waiting(dir', t.reply) /\ (t.reply # "none" => \A b : SafeIn(t.attempt, dir', older', b))
                 /\ Keeps(t.attempt, dir', older')
      /\ \A p : Waiting(dir, p) /\ t.reply = p => Waiting(dir', p)
      /\ Keeps(t.attempt, dir, older) /\ t.reply # "none" => Keeps(t.attempt, dir', older')
  BY <1>1, <1>2, <1>3, <1>4, TransferWrites DEF Sealed
<1>6. Waiting(dir', "unusable") /\ Keeps(wf.attempt, dir', older')
  BY <1>1, <1>2, <1>5
<1>7. CASE x.ok
  <2>1. wf' = t /\ badHeld' = FALSE /\ \A b : SafeIn(wf.attempt, dir', older', b)
    BY <1>2, <1>3, <1>5, <1>7
  <2>2. QED
    BY <1>2, <1>5, <1>6, <2>1, UnusableKeptKeeps
<1>8. CASE ~x.ok
  <2>1. wf' = wf /\ badHeld' = TRUE
    BY <1>3, <1>8
  <2>2. QED
    BY <1>2, <1>5, <1>6, <2>1, UnusableHeldKeeps
<1>9. QED
  BY <1>5, <1>7, <1>8

LEMMA UsableSealedKeeps ==
  ASSUME IInv, ReplyUsable, UNCHANGED enrollment,
         NEW t, Fit(t), SameIdentity(wf, t), t \in Record, t # None, t.reply = "usable",
         t.state = "replacement", t.attempt = wf.attempt, t.kind = wf.kind, t.prior = wf.prior,
         Sound(dir', older'), Transfers(dir', older'), Enrolments(dir', older'),
         Opened(dir', older'), RepliesKept(dir', older'),
         Written(dir', older') \subseteq {wf, t}, debt' = debt, MoreFaults,
         Waiting(dir', "usable"), Keeps(wf.attempt, dir', older'),
         wf' = t, unsaved' = FALSE, \A b : SafeIn(wf.attempt, dir', older', b),
         Start("hydrate", "submission", FALSE, None), phase' = "saving"
  PROVE  IInv'
<1>1. /\ Sound(dir', older') /\ Transfers(dir', older') /\ Enrolments(dir', older')
      /\ Opened(dir', older') /\ RepliesKept(dir', older')
      /\ Written(dir', older') \subseteq {wf, t} /\ debt' = debt /\ MoreFaults
  OBVIOUS
<1>2. TransferAsked
  BY TransferAwaits DEF ReplyUsable
<1>3. steam' \in Prints \cup {None} /\ steam' = wf.attempt /\ UNCHANGED <<sent, adopted>>
  BY <1>2, PrintsAssumption DEF Record, ReplyUsable, Executed
<1>4. (\A r \in Written(dir', older') : Known(r)') /\ wf.prior # wf.attempt
  BY <1>1, <1>2, <1>3 DEF Known, Superseded, Fit
<1>5. /\ wf' \in Record /\ wf' # None /\ Fit(wf)' /\ SameIdentity(wf, wf')
      /\ wf'.attempt = wf.attempt
      /\ wf'.kind = "transfer" /\ wf'.state = "replacement" /\ wf'.reply = "usable"
      /\ Known(wf)' /\ Superseded(wf)' /\ wf'.prior = wf.prior
  BY <1>2, <1>3, <1>4 DEF Known, Superseded, SameIdentity
<1>6. Mine(wf', dir', older')
  BY <1>1, <1>2, <1>5 DEF Core, Transfers, Mine, SameIdentity
<1>7. [step |-> "hydrate", by |-> "submission", passphrase |-> FALSE, resolution |-> None] \in Job
  BY DEF Job, Resolutions
<1>8. /\ pending' \in {pending, "spent"} /\ steam' \in Prints \cup {None}
      /\ received' = {wf.attempt}
      /\ unsaved' = FALSE /\ phase' = "saving"
      /\ job' # None /\ job' \in Job /\ job'.step = "hydrate" /\ job'.by = "submission"
      /\ job'.passphrase = FALSE /\ job'.resolution = None
      /\ UNCHANGED <<vault, enrolment, enrollment, problem, owed, terminal, auth,
         challenging, recovering, proving, resolving, badHeld, sent, open, adopted,
         debt>>
  BY <1>1, <1>2, <1>3, <1>4, <1>5, <1>6, <1>7, Started DEF ReplyUsable, Types,
     TransferTypeOK
<1>9. None \notin Resolutions /\ None \notin Record
  BY NoneAssumption
<1> USE <1>1, <1>2, <1>3, <1>4, <1>5, <1>6, <1>7, <1>8, <1>9 DEF IInv, Inv, Core, At, Idle,
   Holding, Sealed, RowIs, Rows
<1>10. Types'
  <2>1. TransferTypeOK'
    BY DEF Types, TransferTypeOK
  <2>2. EnrollTypeOK'
    BY DEF Types, EnrollTypeOK
  <2>3. QED
    BY <2>1, <2>2 DEF Types, MoreFaults
<1>11. Transfers(dir, older)'
  BY DEF Transfers, SameIdentity
<1>12. Enrolments(dir, older)'
  BY DEF Enrolments, OfEnrolment
<1>13. Opened(dir, older)'
  BY DEF Opened
<1>14. RepliesKept(dir, older)'
  BY DEF RepliesKept, Held
<1>15. World(dir, older)'
  BY DEF World, Known, Superseded, RowKnown
<1>16. Phases(dir, older)'
  BY DEF Phases, Awaits, EnrollSteps
<1>17. AtStep(dir)'
  BY DEF AtStep, Saving, Secured, Truth, Resolutions
<1>18. EnrollAtStep(dir)'
  BY DEF EnrollAtStep, Stowed, Secured, Resolutions
<1>19. QED
  BY <1>10, <1>11, <1>12, <1>13, <1>14, <1>15, <1>16, <1>17, <1>18

LEMMA UsableHeldKeeps ==
  ASSUME IInv, ReplyUsable, UNCHANGED enrollment,
         NEW t, Fit(t), SameIdentity(wf, t), t \in Record, t # None, t.reply = "usable",
         t.state = "replacement", t.attempt = wf.attempt, t.kind = wf.kind, t.prior = wf.prior,
         Sound(dir', older'), Transfers(dir', older'), Enrolments(dir', older'),
         Opened(dir', older'), RepliesKept(dir', older'),
         Written(dir', older') \subseteq {wf, t}, debt' = debt, MoreFaults,
         Waiting(dir', "usable"), Keeps(wf.attempt, dir', older'),
         wf' = wf, unsaved' = TRUE, phase' = "no", UNCHANGED job
  PROVE  IInv'
<1>1. /\ Sound(dir', older') /\ Transfers(dir', older') /\ Enrolments(dir', older')
      /\ Opened(dir', older') /\ RepliesKept(dir', older')
      /\ Written(dir', older') \subseteq {wf, t} /\ debt' = debt /\ MoreFaults
  OBVIOUS
<1>2. TransferAsked
  BY TransferAwaits DEF ReplyUsable
<1>3. steam' \in Prints \cup {None} /\ steam' = wf.attempt /\ UNCHANGED <<sent, adopted>>
  BY <1>2, PrintsAssumption DEF Record, ReplyUsable, Executed
<1>4. (\A r \in Written(dir', older') : Known(r)') /\ wf.prior # wf.attempt
  BY <1>1, <1>2, <1>3 DEF Known, Superseded, Fit
<1>5. /\ wf' \in Record /\ wf' # None /\ Fit(wf)' /\ SameIdentity(wf, wf')
      /\ wf'.attempt = wf.attempt
      /\ wf'.kind = "transfer" /\ wf'.state = "sending" /\ wf'.reply = "none" /\ Known(wf)'
      /\ Superseded(wf)' /\ wf'.prior = wf.prior
  BY <1>2, <1>3, <1>4 DEF Known, Superseded, SameIdentity
<1>6. Mine(wf', dir', older')
  BY <1>1, <1>2, <1>5 DEF Core, Transfers, Mine, SameIdentity
<1>7. /\ pending' \in {pending, "spent"} /\ steam' \in Prints \cup {None}
      /\ received' = {wf.attempt}
      /\ unsaved' = TRUE /\ phase' = "no"
      /\ UNCHANGED <<vault, enrolment, enrollment, problem, owed, terminal, auth,
         challenging, recovering, proving, resolving, badHeld, job, sent, open, adopted,
         debt>>
  BY <1>1, <1>2, <1>3, <1>4, <1>5, <1>6, Started DEF ReplyUsable, Types, TransferTypeOK
<1> USE <1>1, <1>2, <1>3, <1>4, <1>5, <1>6, <1>7 DEF IInv, Inv, Core, At, Idle, Holding,
   Sealed, RowIs, Rows
<1>8. Types'
  <2>1. TransferTypeOK'
    BY DEF Types, TransferTypeOK
  <2>2. EnrollTypeOK'
    BY DEF Types, EnrollTypeOK
  <2>3. QED
    BY <2>1, <2>2 DEF Types, MoreFaults
<1>9. Transfers(dir, older)'
  BY DEF Transfers, SameIdentity
<1>10. Enrolments(dir, older)'
  BY DEF Enrolments, OfEnrolment
<1>11. Opened(dir, older)'
  BY DEF Opened
<1>12. RepliesKept(dir, older)'
  BY DEF RepliesKept, Held
<1>13. World(dir, older)'
  BY DEF World, Known, Superseded, RowKnown
<1>14. Phases(dir, older)'
  BY DEF Phases, Awaits, EnrollSteps
<1>15. AtStep(dir)'
  BY DEF AtStep, Saving, Secured, Truth, Resolutions
<1>16. EnrollAtStep(dir)'
  BY DEF EnrollAtStep, Stowed, Secured, Resolutions
<1>17. QED
  BY <1>8, <1>9, <1>10, <1>11, <1>12, <1>13, <1>14, <1>15, <1>16

LEMMA ReplyUsableKeeps ==
  ASSUME IInv, ReplyUsable, UNCHANGED enrollment
  PROVE  IInv'
<1> DEFINE t == Turned(wf, "replacement", "usable")
<1>1. TransferAsked
  BY TransferAwaits DEF ReplyUsable
<1>2. /\ Fit(t) /\ SameIdentity(wf, t) /\ t \in Record /\ t # None
      /\ t.attempt = wf.attempt /\ t.kind = wf.kind /\ t.prior = wf.prior
      /\ t.state = "replacement" /\ t.reply = "usable"
      /\ Reconcilable(dir) => \A f \in Merged(dir).files : Follows(f, t)
  BY AwaitedTurns DEF ReplyUsable
<1>3. PICK x \in Updates(t) :
        /\ Happens(x) /\ (wf' = IF x.ok THEN t ELSE wf) /\ unsaved' = ~x.ok
        /\ IF x.ok THEN Start("hydrate", "submission", FALSE, None) ELSE UNCHANGED job
        /\ phase' = IF x.ok THEN "saving" ELSE "no"
  BY DEF ReplyUsable
<1>4. MayWrite(t, dir, older)
  BY <1>1, <1>2 DEF MayWrite, Mine, SameIdentity, Sealed
<1>5. /\ Sound(dir', older') /\ Transfers(dir', older') /\ Enrolments(dir', older')
      /\ Opened(dir', older') /\ RepliesKept(dir', older')
      /\ Written(dir', older') \subseteq Written(dir, older) \cup {t} /\ debt' = debt
      /\ MoreFaults
      /\ x.ok \in BOOLEAN
      /\ x.ok => dir' = [files |-> {t}, staged |-> {}, torn |-> FALSE] /\ older' = {}
      /\ \A p : Waiting(dir, p) /\ t.reply = p => Waiting(dir', p)
      /\ Keeps(t.attempt, dir, older) /\ t.reply # "none" => Keeps(t.attempt, dir', older')
  BY <1>2, <1>3, <1>4, WriteHappens
<1>6. /\ Waiting(dir', "usable") /\ Keeps(wf.attempt, dir', older')
      /\ Written(dir', older') \subseteq {wf, t}
  BY <1>1, <1>2, <1>5
<1>7. CASE x.ok
  <2>1. /\ wf' = t /\ unsaved' = FALSE /\ phase' = "saving" /\ older' = {}
        /\ Start("hydrate", "submission", FALSE, None)
    BY <1>3, <1>5, <1>7
  <2>2. \A b : SafeIn(wf.attempt, dir', {}, b)
    BY <1>2, <1>5, <1>7, Alone
  <2>3. QED
    BY <1>2, <1>5, <1>6, <2>1, <2>2, UsableSealedKeeps
<1>8. CASE ~x.ok
  <2>1. wf' = wf /\ unsaved' = TRUE /\ phase' = "no" /\ UNCHANGED job
    BY <1>3, <1>8
  <2>2. QED
    BY <1>2, <1>5, <1>6, <2>1, UsableHeldKeeps
<1>9. QED
  BY <1>5, <1>7, <1>8

-----------------------------------------------------------------------------
(* The requests.                                                           *)

(* A journal that shows nothing and a memory that owes nothing: nothing is *)
(* open.                                                                   *)
LEMMA NothingLeft ==
  ASSUME IInv, Idle, Reconcilable(dir), Merged(dir).files = {}, enrollOwed = None, owed = None
  PROVE  /\ wf = None /\ staged = None /\ open = {} /\ received = {}
         /\ Blank(Merged(dir)) /\ \A n : ~Trace(n, dir)
<1>1. Types /\ Core(dir, older) /\ Sound(dir, older)
  BY DEF IInv, Inv, Core
<1>2. Single(dir) /\ \A r \in Recs(dir) : Fit(r)
  BY <1>1, WrittenBy DEF Sound
<1>3. /\ Merged(dir).staged = {} /\ ~Merged(dir).torn
      /\ \A n : Trace(n, Merged(dir)) <=> Trace(n, dir)
  BY <1>2, MergedSound
<1>4. \A n : ~Trace(n, dir)
  BY <1>3 DEF Trace
<1>5. ~At({"clear", "owe"}) /\ ~At({"erase", "own"}) /\ ~At({"erase", "own", "load"})
  BY DEF At, Idle
<1>6. wf = None /\ staged = None
  BY <1>1, <1>4, <1>5 DEF Core, Transfers, Enrolments
<1>7. open = {}
  BY <1>1, <1>4, <1>5, <1>6 DEF Core, Opened
<1>8. QED
  BY <1>1, <1>3, <1>4, <1>6, <1>7 DEF Blank, Types

(* A note is published in an empty directory, whatever comes of it.        *)
LEMMA PublishHappens ==
  ASSUME Types, debt = FALSE, NEW d, NEW o, NEW r, Sound(d, o), Blank(d), Fit(r),
         r.state = "sending", r.reply = "none", NEW x \in Publishing(d, o, r), Happens(x)
  PROVE  /\ Sound(dir', older') /\ Written(dir', older') \subseteq Written(d, o) \cup {r}
         /\ x.ok \in BOOLEAN /\ debt' \in BOOLEAN /\ MoreFaults
         /\ x.ok => debt' = FALSE /\ Fresh(r, dir', older')
         /\ ~x.ok /\ ~debt' => dir' = d
<1>1. /\ Sound(x.dir, x.older) /\ Written(x.dir, x.older) \subseteq Written(d, o) \cup {r}
      /\ x.ok \in BOOLEAN /\ x.debt \in BOOLEAN
      /\ x.ok => ~x.debt /\ Fresh(r, x.dir, x.older)
      /\ ~x.ok /\ ~x.debt => x.dir = d
  <2>1. ~ReadBackFails
    BY DEF Types
  <2>2. QED
    BY <2>1, Publishes
<1>2. dir' = x.dir /\ older' = x.older \ {x.dir} /\ debt' = x.debt
  BY <1>1 DEF Happens
<1>3. /\ Sound(x.dir, older') /\ Written(x.dir, older') \subseteq Written(x.dir, x.older)
  <2>1. older' \subseteq x.older
    BY <1>2
  <2>2. QED
    BY <1>1, <2>1, LessSound
<1>4. x.ok => older' = x.older
  BY <1>1, <1>2 DEF Fresh
<1>5. MoreFaults
  BY <1>1, Counted
<1>6. QED
  BY <1>1, <1>2, <1>3, <1>4, <1>5

LEMMA SendFailsKeeps ==
  ASSUME IInv, CompleteSend, UNCHANGED enrollment,
         wf' = wf, phase' = "no", UNCHANGED <<sent, open>>,
         Sound(dir', older'), \A q \in Written(dir', older') : Known(q), debt' \in BOOLEAN,
         MoreFaults, debt' \/ Blank(dir')
  PROVE  IInv'
<1>1. /\ Sound(dir', older') /\ (\A q \in Written(dir', older') : Known(q))
      /\ (debt' \/ Blank(dir'))
  OBVIOUS
<1>2. Minting
  BY DEF IInv, Inv, Core, Phases, Transfers, Types, TransferTypeOK, EnrollTypeOK, Holding,
     CompleteSend, Idle, World
<1>3. /\ phase' = "no" /\ debt' \in BOOLEAN
      /\ UNCHANGED <<notes, signin, vault, world, enrollment, recovering, proving,
         resolving, unsaved, badHeld, job>>
  BY <1>1, <1>2 DEF CompleteSend
<1>4. World(dir, older)'
  BY <1>1, <1>2, <1>3 DEF World, Known, Superseded, RowKnown, Core
<1> USE <1>1, <1>2, <1>3 DEF IInv, Inv, Core, At, Idle, Holding, Sealed, RowIs, Rows
<1>5. Types'
  <2>1. TransferTypeOK'
    BY DEF Types, TransferTypeOK
  <2>2. EnrollTypeOK'
    BY DEF Types, EnrollTypeOK
  <2>3. QED
    BY <2>1, <2>2 DEF Types, MoreFaults
<1>6. Transfers(dir, older)'
  BY DEF Transfers
<1>7. Enrolments(dir, older)'
  BY DEF Enrolments, OfEnrolment
<1>8. Opened(dir, older)'
  BY DEF Opened, Shows, Blank
<1>9. RepliesKept(dir, older)'
  BY DEF RepliesKept, Held
<1>10. Phases(dir, older)'
  BY DEF Phases, Awaits, EnrollSteps
<1>11. AtStep(dir)'
  BY DEF AtStep, Saving, Secured, Truth, Resolutions
<1>12. EnrollAtStep(dir)'
  BY DEF EnrollAtStep, Stowed, Secured, Resolutions
<1>13. QED
  BY <1>4, <1>5, <1>6, <1>7, <1>8, <1>9, <1>10, <1>11, <1>12

LEMMA SentKeeps ==
  ASSUME IInv, CompleteSend, UNCHANGED enrollment, NEW n \in Attempts \ sent,
         NEW r, Fit(r), r \in Record, r # None, Known(r), r.attempt = n, r.kind = "transfer",
         r.state = "sending", r.reply = "none", Sound(dir', older'), debt' = FALSE, MoreFaults,
         Fresh(r, dir', older'), ~RowIs(n), ~Rows(n, bak),
         wf' = r, phase' = "asked", sent' = sent \cup {n}, open' = open \cup {n}
  PROVE  IInv'
<1>1. Sound(dir', older') /\ Fresh(r, dir', older')
  OBVIOUS
<1>2. Minting
  BY DEF IInv, Inv, Core, Phases, Transfers, Types, TransferTypeOK, EnrollTypeOK, Holding,
     CompleteSend, Idle, World
<1>3. /\ Written(dir', older') = {r} /\ Recs(dir') = {r} /\ Read(r, dir')
      /\ Trace(r.attempt, dir') /\ AllTrace(r.attempt, dir', older')
      /\ Opens(r.attempt, dir', older')
  BY <1>1, FreshIs
<1>4. Known(r)'
  BY <1>2 DEF Known, Superseded, CompleteSend
<1>5. Mine(r, dir', older')
  BY <1>3 DEF Mine, SameIdentity
<1>6. /\ wf' = r /\ phase' = "asked" /\ sent' = sent \cup {n} /\ open' = {n}
      /\ UNCHANGED <<signin, vault, enrolment, enrollment, problem, owed, recovering,
         proving, resolving, unsaved, badHeld, job, steam, received, adopted, debt>>
  BY <1>1, <1>2, <1>3, <1>4, <1>5 DEF CompleteSend
<1>7. World(dir, older)'
  <2>1. Known(wf)'
    BY <1>2, <1>4, <1>6 DEF Known, Superseded
  <2>2. QED
    BY <2>1, <1>2, <1>3, <1>4, <1>6 DEF World, RowKnown, Core
<1> USE <1>1, <1>2, <1>3, <1>4, <1>5, <1>6 DEF IInv, Inv, Core, At, Idle, Holding, Sealed,
   RowIs, Rows
<1>8. Types'
  <2>1. TransferTypeOK'
    BY DEF Types, TransferTypeOK
  <2>2. EnrollTypeOK'
    BY DEF Types, EnrollTypeOK
  <2>3. QED
    BY <2>1, <2>2 DEF Types, MoreFaults
<1>9. Transfers(dir, older)'
  BY DEF Transfers
<1>10. Enrolments(dir, older)'
  BY DEF Enrolments, OfEnrolment
<1>11. Opened(dir, older)'
  BY DEF Opened
<1>12. RepliesKept(dir, older)'
  BY DEF RepliesKept, Held
<1>13. Phases(dir, older)'
  BY DEF Phases, Awaits, EnrollSteps
<1>14. AtStep(dir)'
  BY DEF AtStep, Saving, Secured, Truth, Resolutions
<1>15. EnrollAtStep(dir)'
  BY DEF EnrollAtStep, Stowed, Secured, Resolutions
<1>16. QED
  BY <1>7, <1>8, <1>9, <1>10, <1>11, <1>12, <1>13, <1>14, <1>15

LEMMA CompleteSendKeeps ==
  ASSUME IInv, CompleteSend, UNCHANGED enrollment
  PROVE  IInv'
<1>1. Minting
  BY DEF IInv, Inv, Core, Phases, Transfers, Types, TransferTypeOK, EnrollTypeOK, Holding,
     CompleteSend, Idle, World
<1>2. PICK n \in Attempts \ sent :
        LET r == [attempt |-> n, kind |-> "transfer", state |-> "sending",
                  reply |-> "none", published |-> FALSE,
                  prior |-> IF bak = None THEN None ELSE bak.auth]
        IN \E x \in Creates(r) :
             /\ Happens(x)
             /\ wf' = IF x.ok THEN r ELSE wf
             /\ phase' = IF x.ok THEN "asked" ELSE "no"
             /\ sent' = IF x.ok THEN sent \cup {n} ELSE sent
             /\ open' = IF x.ok THEN open \cup {n} ELSE open
  BY DEF CompleteSend, FreshNames
<1> DEFINE r == [attempt |-> n, kind |-> "transfer", state |-> "sending",
                 reply |-> "none", published |-> FALSE,
                 prior |-> IF bak = None THEN None ELSE bak.auth]
<1>3. /\ row # None => row.auth # n
      /\ bak # None => bak.auth # n /\ bak.auth \in Prints /\ (~adopted => bak.auth # Elsewhere)
  BY <1>1, <1>2 DEF Core, World, RowKnown, Types, Row
<1>4. ~RowIs(n) /\ ~Rows(n, bak)
  BY <1>3 DEF RowIs, Rows
<1>5. /\ Fit(r) /\ r \in Record /\ r # None /\ Known(r) /\ r.attempt = n /\ r.kind = "transfer"
      /\ r.state = "sending" /\ r.reply = "none"
  <2>1. n \in Prints /\ None \notin Prints /\ Elsewhere \in Prints
    BY <1>2, PrintsAssumption, NoneAssumption
  <2>2. r \in Record
    BY <1>2, <1>3 DEF Record, TransferStates
  <2>3. r # None
    BY <2>2, NoneAssumption
  <2>4. Fit(r)
    BY <2>1, <2>2, <1>3 DEF Fit, TransferStates
  <2>5. Known(r)
    BY <2>1, <1>3 DEF Known
  <2>6. QED
    BY <2>2, <2>3, <2>4, <2>5
<1>6. PICK x \in Creates(r) :
        /\ Happens(x)
        /\ wf' = IF x.ok THEN r ELSE wf
        /\ phase' = IF x.ok THEN "asked" ELSE "no"
        /\ sent' = IF x.ok THEN sent \cup {n} ELSE sent
        /\ open' = IF x.ok THEN open \cup {n} ELSE open
  BY <1>2
<1>7. x \in Publishing(dir, older, r)
  BY <1>1, <1>6 DEF Creates
<1> HIDE DEF r
<1>8. /\ Sound(dir', older') /\ Written(dir', older') \subseteq Written(dir, older) \cup {r}
      /\ x.ok \in BOOLEAN /\ debt' \in BOOLEAN /\ MoreFaults
      /\ x.ok => debt' = FALSE /\ Fresh(r, dir', older')
      /\ ~x.ok /\ ~debt' => dir' = dir
  BY <1>1, <1>5, <1>6, <1>7, PublishHappens
<1>9. CASE x.ok
  BY <1>2, <1>4, <1>5, <1>6, <1>8, <1>9, SentKeeps
<1>10. CASE ~x.ok
  BY <1>1, <1>5, <1>6, <1>8, <1>10, SendFailsKeeps
<1>11. QED
  BY <1>8, <1>9, <1>10

LEMMA EnrollUnsentKeeps ==
  ASSUME IInv, EnrollSend, Reconcilable(dir), login' = "no",
         UNCHANGED <<erec, enrollHolds, sent, open>>,
         Sound(dir', older'), \A q \in Written(dir', older') : Known(q), debt' \in BOOLEAN,
         MoreFaults, debt' \/ Blank(dir')
  PROVE  IInv'
<1>1. /\ Sound(dir', older') /\ (\A q \in Written(dir', older') : Known(q))
      /\ (debt' \/ Blank(dir'))
  OBVIOUS
<1>2. /\ Types /\ Core(dir, older) /\ job = None /\ phase = "no" /\ login = "routing"
      /\ row = None
      /\ open = {} /\ received = {} /\ wf = None /\ enrollOwed = None /\ erec = None
      /\ staged = None /\ owed = None /\ unsaved = FALSE /\ badHeld = FALSE /\ proving = None
      /\ resolving = None /\ recovering = FALSE /\ enrollHolds = FALSE
      /\ \A q \in Written(dir, older) : Known(q)
  <2>1. wf = None /\ staged = None /\ open = {} /\ received = {}
    BY NothingLeft DEF EnrollSend, Unrecorded
  <2>2. job = None /\ Idle /\ login = "routing" /\ ~Submitting /\ ~recovering /\ ~enrollHolds
    BY DEF EnrollSend, Reservable, SteamOperation, Idle
  <2>3. ~At(EnrollSteps)
    BY <2>2 DEF At
  <2>4. QED
    BY <2>1, <2>2, <2>3 DEF IInv, Inv, Core, Phases, Transfers, Types, TransferTypeOK,
       EnrollTypeOK, Holding, EnrollSend, Idle, World, Unrecorded, Reservable, Submitting
<1>3. /\ login' = "no" /\ debt' \in BOOLEAN
      /\ UNCHANGED <<transfer, vault, world, job, erec, staged, known>>
  BY <1>1, <1>2 DEF EnrollSend
<1>4. World(dir, older)'
  BY <1>1, <1>2, <1>3 DEF World, Known, Superseded, RowKnown, Core
<1> USE <1>1, <1>2, <1>3 DEF IInv, Inv, Core, At, Idle, Holding, Sealed, RowIs, Rows
<1>5. Types'
  <2>1. TransferTypeOK'
    BY DEF Types, TransferTypeOK
  <2>2. EnrollTypeOK'
    BY DEF Types, EnrollTypeOK
  <2>3. QED
    BY <2>1, <2>2 DEF Types, MoreFaults
<1>6. Transfers(dir, older)'
  BY DEF Transfers
<1>7. Enrolments(dir, older)'
  BY DEF Enrolments, OfEnrolment
<1>8. Opened(dir, older)'
  BY DEF Opened, Shows, Blank
<1>9. RepliesKept(dir, older)'
  BY DEF RepliesKept, Held
<1>10. Phases(dir, older)'
  BY DEF Phases, Awaits, EnrollSteps
<1>11. AtStep(dir)'
  BY DEF AtStep, Saving, Secured, Truth, Resolutions
<1>12. EnrollAtStep(dir)'
  BY DEF EnrollAtStep, Stowed, Secured, Resolutions
<1>13. QED
  BY <1>4, <1>5, <1>6, <1>7, <1>8, <1>9, <1>10, <1>11, <1>12

LEMMA EnrollSentKeeps ==
  ASSUME IInv, EnrollSend, Reconcilable(dir), NEW n \in Attempts \ sent,
         NEW r, Fit(r), r \in Record, r # None, Known(r), r.attempt = n, r.kind = "enrollment",
         r.state = "sending", r.reply = "none", Sound(dir', older'), debt' = FALSE, MoreFaults,
         Fresh(r, dir', older'), ~Rows(n, bak),
         login' = "asked", erec' = r, enrollHolds' = TRUE, sent' = sent \cup {n},
         open' = open \cup {n}
  PROVE  IInv'
<1>1. Sound(dir', older') /\ Fresh(r, dir', older')
  OBVIOUS
<1>2. /\ Types /\ Core(dir, older) /\ job = None /\ phase = "no" /\ login = "routing"
      /\ row = None
      /\ open = {} /\ received = {} /\ wf = None /\ enrollOwed = None /\ erec = None
      /\ staged = None /\ owed = None /\ unsaved = FALSE /\ badHeld = FALSE /\ proving = None
      /\ resolving = None /\ recovering = FALSE /\ enrollHolds = FALSE
      /\ \A q \in Written(dir, older) : Known(q)
  <2>1. wf = None /\ staged = None /\ open = {} /\ received = {}
    BY NothingLeft DEF EnrollSend, Unrecorded
  <2>2. job = None /\ Idle /\ login = "routing" /\ ~Submitting /\ ~recovering /\ ~enrollHolds
    BY DEF EnrollSend, Reservable, SteamOperation, Idle
  <2>3. ~At(EnrollSteps)
    BY <2>2 DEF At
  <2>4. QED
    BY <2>1, <2>2, <2>3 DEF IInv, Inv, Core, Phases, Transfers, Types, TransferTypeOK,
       EnrollTypeOK, Holding, EnrollSend, Idle, World, Unrecorded, Reservable, Submitting
<1>3. /\ Written(dir', older') = {r} /\ Recs(dir') = {r} /\ Read(r, dir')
      /\ Trace(r.attempt, dir') /\ AllTrace(r.attempt, dir', older')
      /\ Opens(r.attempt, dir', older') /\ ~Shows(dir')
  BY <1>1, FreshIs
<1>4. Known(r)'
  BY <1>2 DEF Known, Superseded, EnrollSend
<1>5. Mine(r, dir', older')
  BY <1>3 DEF Mine, SameIdentity
<1>6. /\ login' = "asked" /\ erec' = r /\ enrollHolds' = TRUE /\ debt' = FALSE
      /\ sent' = sent \cup {n} /\ open' = {n}
      /\ UNCHANGED <<transfer, vault, job, steam, enrollOwed, received, adopted, staged,
         known>>
  BY <1>1, <1>2, <1>3, <1>4, <1>5 DEF EnrollSend
<1>7. World(dir, older)'
  BY <1>2, <1>3, <1>4, <1>6 DEF World, RowKnown, Core
<1> USE <1>1, <1>2, <1>3, <1>4, <1>5, <1>6 DEF IInv, Inv, Core, At, Idle, Holding, Sealed,
   RowIs, Rows
<1>8. Types'
  <2>1. TransferTypeOK'
    BY DEF Types, TransferTypeOK
  <2>2. EnrollTypeOK'
    BY DEF Types, EnrollTypeOK
  <2>3. QED
    BY <2>1, <2>2 DEF Types, MoreFaults
<1>9. Transfers(dir, older)'
  BY DEF Transfers
<1>10. Enrolments(dir, older)'
  BY DEF Enrolments, OfEnrolment
<1>11. Opened(dir, older)'
  BY DEF Opened
<1>12. RepliesKept(dir, older)'
  BY DEF RepliesKept, Held
<1>13. Phases(dir, older)'
  BY DEF Phases, Awaits, EnrollSteps
<1>14. AtStep(dir)'
  BY DEF AtStep, Saving, Secured, Truth, Resolutions
<1>15. EnrollAtStep(dir)'
  BY DEF EnrollAtStep, Stowed, Secured, Resolutions
<1>16. QED
  BY <1>7, <1>8, <1>9, <1>10, <1>11, <1>12, <1>13, <1>14, <1>15

LEMMA EnrollUnreadKeeps ==
  ASSUME IInv, EnrollSend, Inv(dir', older'), debt' = debt, MoreFaults, login' = "no",
         UNCHANGED <<erec, enrollHolds, sent, open>>
  PROVE  IInv'
<1>1. /\ Types /\ job = None /\ Idle /\ login = "routing"
      /\ problem => pending = "none" /\ auth = "no"
  BY DEF IInv, Inv, Phases, EnrollSend, Idle
<1>2. UNCHANGED <<transfer, vault, job, steam, enrollOwed, received, adopted, staged, known>>
  BY DEF EnrollSend
<1>3. Types'
  <2>1. TransferTypeOK'
    BY <1>1, <1>2 DEF Types, TransferTypeOK
  <2>2. EnrollTypeOK'
    BY <1>1, <1>2 DEF Types, EnrollTypeOK
  <2>3. QED
    BY <1>1, <1>2, <2>1, <2>2 DEF Types, MoreFaults
<1>4. QED
  BY <1>1, <1>2, <1>3, Quiet DEF remembered, outside

LEMMA EnrollSendKeeps ==
  ASSUME IInv, EnrollSend
  PROVE  IInv'
<1>1. Types /\ Inv(dir, older) /\ Sound(dir, older)
  BY DEF IInv, Inv, Core
<1>2. PICK n \in Attempts \ sent :
        \E x \in Then(Reads, LAMBDA d, o : Publishing(d, o, Added(n))) :
          /\ Happens(x)
          /\ IF x.ok
             THEN /\ login' = "asked" /\ erec' = Added(n) /\ enrollHolds' = TRUE
                  /\ sent' = sent \cup {n} /\ open' = open \cup {n}
             ELSE login' = "no" /\ UNCHANGED <<erec, enrollHolds, sent, open>>
  BY DEF EnrollSend, FreshNames
<1>3. PICK x \in Then(Reads, LAMBDA d, o : Publishing(d, o, Added(n))) :
        /\ Happens(x)
        /\ IF x.ok
           THEN /\ login' = "asked" /\ erec' = Added(n) /\ enrollHolds' = TRUE
                /\ sent' = sent \cup {n} /\ open' = open \cup {n}
           ELSE login' = "no" /\ UNCHANGED <<erec, enrollHolds, sent, open>>
  BY <1>2
<1>4. PICK y \in Reads : x \in IF y.ok THEN Publishing(y.dir, y.older, Added(n)) ELSE {y}
  BY <1>3 DEF Then
<1>5. CASE ~y.ok
  <2>1. x = y
    BY <1>4, <1>5
  <2>2. Inv(dir', older') /\ debt' = debt /\ MoreFaults
    BY <1>3, <1>4, <2>1, ReadHappens
  <2>3. login' = "no" /\ UNCHANGED <<erec, enrollHolds, sent, open>>
    BY <1>3, <1>5, <2>1
  <2>4. QED
    BY <2>2, <2>3, EnrollUnreadKeeps
<1>6. CASE y.ok
  <2>1. ~debt /\ y \in Reconciling(dir, older)
    <3>1. Fails(dir, older).ok = FALSE
      BY DEF Fails
    <3>2. debt => y = Fails(dir, older)
      BY <1>4 DEF Reads
    <3>3. ~debt
      BY <1>6, <3>1, <3>2
    <3>4. QED
      BY <1>4, <3>3 DEF Reads
  <2>2. /\ ReadTo(dir, older, y.dir, y.older) /\ y.debt = FALSE
        /\ y.ok => /\ Reconcilable(dir) /\ y.dir = Merged(dir) /\ y.dir.staged = {} /\ ~y.dir.torn
                   /\ y.older \subseteq older
        /\ y.ok \in BOOLEAN
    BY <1>1, <2>1, Zenon, Reading
  <2>3. /\ Sound(y.dir, y.older) /\ Reconcilable(dir) /\ y.dir = Merged(dir)
        /\ Written(y.dir, y.older) \subseteq Written(dir, older)
    BY <1>6, <2>2 DEF ReadTo
  <2>4. /\ Merged(dir).files = {} /\ enrollOwed = None /\ owed = None /\ Idle /\ row = None
    BY DEF EnrollSend, Unrecorded
  <2>5. Blank(y.dir)
    BY <2>3, <2>4, NothingLeft
  <2>6. n \in Prints /\ None \notin Prints /\ Elsewhere \in Prints
    BY <1>2, PrintsAssumption, NoneAssumption
  <2>7. /\ Added(n) \in Record /\ Added(n) # None /\ Added(n).attempt = n
        /\ Added(n).kind = "enrollment" /\ Added(n).state = "sending" /\ Added(n).reply = "none"
        /\ Added(n).prior = None
    <3>1. Added(n) \in Record
      BY <1>2 DEF Added, Record, EnrollmentStates
    <3>2. QED
      BY <3>1, NoneAssumption DEF Added
  <2>8. Fit(Added(n)) /\ Known(Added(n))
    BY <2>6, <2>7 DEF Fit, Known, EnrollmentStates
  <2>9. x \in Publishing(y.dir, y.older, Added(n))
    BY <1>4, <1>6
  <2>10. /\ Sound(dir', older')
         /\ Written(dir', older') \subseteq Written(y.dir, y.older) \cup {Added(n)}
         /\ x.ok \in BOOLEAN /\ debt' \in BOOLEAN /\ MoreFaults
         /\ x.ok => debt' = FALSE /\ Fresh(Added(n), dir', older')
         /\ ~x.ok /\ ~debt' => dir' = y.dir
    BY <1>1, <1>3, <2>1, <2>3, <2>5, <2>7, <2>8, <2>9, PublishHappens DEF Types
  <2>11. \A q \in Written(dir', older') : Known(q)
    BY <1>1, <2>3, <2>8, <2>10 DEF Inv, Core, World
  <2>12. ~Rows(n, bak)
    BY <1>1, <1>2 DEF Rows, Inv, Core, World, RowKnown
  <2>13. CASE x.ok
    BY <1>2, <1>3, <2>3, <2>7, <2>8, <2>10, <2>12, <2>13, EnrollSentKeeps
  <2>14. CASE ~x.ok
    <3>1. debt' \/ Blank(dir')
      BY <2>5, <2>10, <2>14
    <3>2. QED
      BY <1>3, <2>3, <2>10, <2>11, <2>14, <3>1, EnrollUnsentKeeps
  <2>15. QED
    BY <2>10, <2>13, <2>14
<1>7. QED
  BY <1>5, <1>6

-----------------------------------------------------------------------------
(* The enrolment's run.                                                    *)

LEMMA EnrollAtWork ==
  ASSUME IInv, NEW s \in EnrollSteps, Step(s)
  PROVE  /\ EnrollmentAt(s)
<1>1. Types /\ Core(dir, older) /\ Phases(dir, older)
  BY DEF IInv, Inv
<1>2. job # None /\ job \in Job /\ job.step = s
  BY <1>1, JobIs
<1>3. At(EnrollSteps) /\ ~Idle /\ job.resolution \in Resolutions \cup {None}
  BY <1>2 DEF At, Idle, Job
<1>4. erec # None
  BY <1>1, <1>3 DEF Phases
<1>5. wf = None
  BY <1>1, <1>4 DEF Core, Transfers
<1>6. /\ owed = None /\ ~Holding /\ proving = None /\ resolving = None
      /\ phase \in {"no", "routing", "minting"}
  BY <1>1, <1>5 DEF Core, Transfers
<1>7. phase = "no"
  BY <1>1, <1>4, <1>6 DEF Phases
<1>8. /\ Fit(erec) /\ erec.kind = "enrollment" /\ Mine(erec, dir, older)
      /\ open \subseteq {erec.attempt}
      /\ enrollOwed # None => SameIdentity(erec, enrollOwed)
      /\ staged # None => staged.attempt = erec.attempt
  BY <1>1, <1>4 DEF Core, Enrolments, OfEnrolment
<1>9. erec \in Record /\ erec.prior = None /\ Sound(dir, older)
  BY <1>1, <1>8 DEF Fit, Core
<1>10. erec.reply # "none" => erec.attempt \in sent
  BY <1>1, <1>4 DEF Core, World
<1>11. unsaved = FALSE /\ badHeld = FALSE /\ received \subseteq {erec.attempt}
  BY <1>1, <1>6, <1>8 DEF Holding, Types, TransferTypeOK
<1>12. QED
  BY <1>1, <1>2, <1>3, <1>4, <1>5, <1>6, <1>7, <1>8, <1>9, <1>10, <1>11

LEMMA EnrollEnds ==
  ASSUME IInv, NEW s \in EnrollSteps \ {"erase", "own"}, Step(s), Core(dir', older'),
         debt' = debt,
         MoreFaults, Ends, UNCHANGED <<outside, unlocked, enrollOwed, staged, known, transfer>>
  PROVE  IInv'
<1>1. Core(dir', older') /\ debt' = debt /\ MoreFaults
  OBVIOUS
<1>2. EnrollmentAt(s)
  BY EnrollAtWork
<1>3. /\ job' = None /\ erec' = None /\ login' = "no" /\ enrollHolds' = FALSE
      /\ UNCHANGED <<transfer, vault, steam, enrollOwed, sent, open, received, adopted,
         staged, known, debt>>
  BY <1>1, <1>2 DEF Ends, Released, outside
<1>4. Enrolments(dir, older)'
  <2>1. ~At({"erase", "own"})
    BY <1>2 DEF At
  <2>2. QED
    BY <1>1, <1>3, <2>1 DEF Core, Enrolments, OfEnrolment, At, Idle
<1>5. Opened(dir, older)'
  <2>1. ~At({"erase", "own", "load"})
    BY <1>2 DEF At, EnrollSteps
  <2>2. QED
    BY <1>1, <1>2, <1>3, <2>1 DEF Core, Opened, At, Idle, RowIs, Rows
<1> USE <1>1, <1>2, <1>3 DEF IInv, Inv, Core, At, Idle, Holding, Sealed, RowIs, Rows
<1>6. Types'
  <2>1. TransferTypeOK'
    BY DEF Types, TransferTypeOK
  <2>2. EnrollTypeOK'
    BY DEF Types, EnrollTypeOK
  <2>3. QED
    BY <2>1, <2>2 DEF Types, MoreFaults
<1>7. Transfers(dir, older)'
  BY DEF Transfers
<1>8. RepliesKept(dir, older)'
  BY DEF RepliesKept, Held
<1>9. World(dir, older)'
  BY DEF World, Known, Superseded, RowKnown
<1>10. Phases(dir, older)'
  BY DEF Phases, Awaits, EnrollSteps
<1>11. AtStep(dir)'
  BY DEF AtStep, Saving, Secured, Truth, Resolutions
<1>12. EnrollAtStep(dir)'
  BY DEF EnrollAtStep, Stowed, Secured, Resolutions
<1>13. QED
  BY <1>4, <1>5, <1>6, <1>7, <1>8, <1>9, <1>10, <1>11, <1>12

LEMMA EnrollWrites ==
  ASSUME IInv, wf = None, NEW q, OfEnrolment(q, dir, older),
         erec # None => SameIdentity(erec, q), enrollOwed # None => SameIdentity(enrollOwed, q),
         NEW r, Fit(r), SameIdentity(q, r), r.state # "sending", Known(r),
         staged # None => staged.attempt = r.attempt /\ r.reply # "none",
         r.reply # "none" \/ received = {},
         Reconcilable(dir) => \A f \in Merged(dir).files : Follows(f, r),
         NEW x \in Updates(r), Happens(x)
  PROVE  /\ Core(dir', older') /\ debt' = debt /\ MoreFaults /\ x.ok \in BOOLEAN
         /\ x.ok => /\ dir' = [files |-> {r}, staged |-> {}, torn |-> FALSE] /\ older' = {}
                    /\ Read(r, dir') /\ Trace(r.attempt, dir') /\ Mine(r, dir', older')
                    /\ r.reply # "none" => \A b : SafeIn(r.attempt, dir', older', b)
                    /\ Keeps(r.attempt, dir', older')
         /\ Keeps(r.attempt, dir, older) /\ r.reply # "none" => Keeps(r.attempt, dir', older')
         /\ Heard(dir) /\ r.reply # "none" => Heard(dir')
<1>1. owed = None /\ unsaved = FALSE /\ badHeld = FALSE
  BY DEF IInv, Inv, Core, Transfers, Holding, Types, TransferTypeOK
<1>2. MayWrite(r, dir, older)
  BY <1>1 DEF OfEnrolment, MayWrite, SameIdentity, Mine, Sealed
<1>3. /\ Core(dir', older') /\ debt' = debt /\ MoreFaults /\ x.ok \in BOOLEAN
      /\ x.ok => dir' = [files |-> {r}, staged |-> {}, torn |-> FALSE] /\ older' = {}
      /\ Keeps(r.attempt, dir, older) /\ r.reply # "none" => Keeps(r.attempt, dir', older')
      /\ Heard(dir) /\ r.reply # "none" => Heard(dir')
  BY <1>2, WriteHappens
<1>4. ASSUME x.ok
      PROVE  /\ Read(r, dir') /\ Trace(r.attempt, dir') /\ Mine(r, dir', {})
             /\ r.reply # "none" => \A b : SafeIn(r.attempt, dir', {}, b)
  BY <1>3, <1>4, Alone
<1>5. Keeps(r.attempt, dir', {})
  BY DEF Keeps
<1>6. QED
  BY <1>3, <1>4, <1>5

LEMMA PeekOnKeeps ==
  ASSUME IInv, EnrollPeek, Inv(dir', older'), debt' = debt, MoreFaults, dir'.staged = {},
         ~dir'.torn,
         erec \in dir'.files, staged' = None, erec.reply = "usable", Goto("store"),
         UNCHANGED <<erec, login, enrollHolds>>
  PROVE  IInv'
<1>1. Inv(dir', older') /\ debt' = debt /\ MoreFaults
  OBVIOUS
<1>2. EnrollmentAt("peek")
  BY EnrollAtWork DEF EnrollPeek, EnrollSteps
<1>3. /\ erec.reply # "none" /\ job.resolution = None /\ ~RowIs(erec.attempt)
      /\ ~Rows(erec.attempt, bak)
  BY <1>2 DEF IInv, Inv, EnrollAtStep, At
<1>4. /\ Read(erec, dir') /\ Trace(erec.attempt, dir') /\ Has(erec.attempt, dir')
      /\ Mine(erec, dir', older')
  <2>1. \A f \in dir'.files : f = erec
    BY <1>1 DEF Inv, Core, Sound, Single
  <2>2. QED
    BY <1>1, <1>2, <1>3, <2>1 DEF Read, Trace, Has, Recs, Inv, Core, Enrolments, OfEnrolment
<1>5. \A n \in received : SafeIn(n, dir', older', RowIs(n)) /\ Keeps(n, dir', older')
  BY <1>1, <1>2, <1>4 DEF Inv, Core, RepliesKept, Keeps, SafeIn
<1>6. /\ staged' = None
      /\ GoesOn("store")
      /\ UNCHANGED <<transfer, vault, world, login, erec, known, debt>>
  BY <1>1, <1>2, <1>3, <1>4, <1>5, GoneTo DEF EnrollPeek
<1>7. erec.state = "recoverable"
  BY <1>1, <1>2, <1>3, <1>4, <1>5, <1>6 DEF Fit, EnrollmentStates
<1> USE <1>1, <1>2, <1>3, <1>4, <1>5, <1>6, <1>7 DEF IInv, Inv, Core, At, Idle, Holding,
   Sealed, RowIs, Rows
<1>8. Types'
  <2>1. TransferTypeOK'
    BY DEF Types, TransferTypeOK
  <2>2. EnrollTypeOK'
    BY DEF Types, EnrollTypeOK
  <2>3. QED
    BY <2>1, <2>2 DEF Types, MoreFaults
<1>9. Transfers(dir, older)'
  BY DEF Transfers
<1>10. Enrolments(dir, older)'
  BY DEF Enrolments, OfEnrolment
<1>11. Opened(dir, older)'
  BY DEF Opened
<1>12. RepliesKept(dir, older)'
  BY DEF RepliesKept, Held
<1>13. World(dir, older)'
  BY DEF World, Known, Superseded, RowKnown
<1>14. Phases(dir, older)'
  BY DEF Phases, Awaits, EnrollSteps
<1>15. AtStep(dir)'
  BY DEF AtStep, Saving, Secured, Truth, Resolutions
<1>16. EnrollAtStep(dir)'
  BY DEF EnrollAtStep, Stowed, Secured, Resolutions
<1>17. QED
  BY <1>8, <1>9, <1>10, <1>11, <1>12, <1>13, <1>14, <1>15, <1>16

LEMMA PeekEndsKeeps ==
  ASSUME IInv, EnrollPeek, Inv(dir', older'), debt' = debt, MoreFaults, dir'.staged = {},
         ~dir'.torn,
         erec \in dir'.files, staged' = None, Ends
  PROVE  IInv'
<1>1. Inv(dir', older') /\ debt' = debt /\ MoreFaults
  OBVIOUS
<1>2. EnrollmentAt("peek")
  BY EnrollAtWork DEF EnrollPeek, EnrollSteps
<1>3. /\ erec.reply # "none" /\ job.resolution = None /\ ~RowIs(erec.attempt)
      /\ ~Rows(erec.attempt, bak)
  BY <1>2 DEF IInv, Inv, EnrollAtStep, At
<1>4. /\ Read(erec, dir') /\ Trace(erec.attempt, dir') /\ Has(erec.attempt, dir')
      /\ Mine(erec, dir', older')
  <2>1. \A f \in dir'.files : f = erec
    BY <1>1 DEF Inv, Core, Sound, Single
  <2>2. QED
    BY <1>1, <1>2, <1>3, <2>1 DEF Read, Trace, Has, Recs, Inv, Core, Enrolments, OfEnrolment
<1>5. \A n \in received : SafeIn(n, dir', older', RowIs(n)) /\ Keeps(n, dir', older')
  BY <1>1, <1>2, <1>4 DEF Inv, Core, RepliesKept, Keeps, SafeIn
<1>6. /\ staged' = None /\ job' = None /\ erec' = None /\ login' = "no" /\ enrollHolds' = FALSE
      /\ UNCHANGED <<transfer, vault, steam, enrollOwed, sent, open, received, adopted,
         known, debt>>
  BY <1>1, <1>2, <1>3, <1>4, <1>5 DEF EnrollPeek, Ends, Released
<1> USE <1>1, <1>2, <1>3, <1>4, <1>5, <1>6 DEF IInv, Inv, Core, At, Idle, Holding, Sealed,
   RowIs, Rows
<1>7. Types'
  <2>1. TransferTypeOK'
    BY DEF Types, TransferTypeOK
  <2>2. EnrollTypeOK'
    BY DEF Types, EnrollTypeOK
  <2>3. QED
    BY <2>1, <2>2 DEF Types, MoreFaults
<1>8. Transfers(dir, older)'
  BY DEF Transfers
<1>9. Enrolments(dir, older)'
  BY DEF Enrolments, OfEnrolment
<1>10. Opened(dir, older)'
  BY DEF Opened
<1>11. RepliesKept(dir, older)'
  BY DEF RepliesKept, Held
<1>12. World(dir, older)'
  BY DEF World, Known, Superseded, RowKnown
<1>13. Phases(dir, older)'
  BY DEF Phases, Awaits, EnrollSteps
<1>14. AtStep(dir)'
  BY DEF AtStep, Saving, Secured, Truth, Resolutions
<1>15. EnrollAtStep(dir)'
  BY DEF EnrollAtStep, Stowed, Secured, Resolutions
<1>16. QED
  BY <1>7, <1>8, <1>9, <1>10, <1>11, <1>12, <1>13, <1>14, <1>15

LEMMA EnrollPeekKeeps ==
  ASSUME IInv, EnrollPeek
  PROVE  IInv'
<1>1. PICK x \in Reads :
        /\ Happens(x)
        /\ IF x.ok /\ erec \in x.dir.files
           THEN /\ staged' = None
                /\ IF erec.reply = "usable" THEN Goto("store") /\ UNCHANGED <<erec, login,
                      enrollHolds>>
                   ELSE Ends
           ELSE Ends /\ UNCHANGED staged
  BY DEF EnrollPeek
<1>2. /\ Inv(dir', older') /\ debt' = debt /\ MoreFaults /\ x.dir = dir'
      /\ x.ok => dir'.staged = {} /\ ~dir'.torn
  BY <1>1, ReadHappens
<1>3. CASE x.ok /\ erec \in x.dir.files
  <2>1. CASE erec.reply = "usable"
    BY <1>1, <1>2, <1>3, <2>1, PeekOnKeeps
  <2>2. CASE erec.reply # "usable"
    BY <1>1, <1>2, <1>3, <2>2, PeekEndsKeeps
  <2>3. QED
    BY <2>1, <2>2
<1>4. CASE ~(x.ok /\ erec \in x.dir.files)
  <2>1. Ends /\ UNCHANGED staged /\ Core(dir', older')
    BY <1>1, <1>2, <1>4 DEF Inv
  <2>2. UNCHANGED <<outside, unlocked, enrollOwed, staged, known, transfer>>
    BY <1>2, <2>1 DEF EnrollPeek, outside
  <2>3. QED
    BY <1>2, <2>1, <2>2, EnrollEnds DEF EnrollSteps, EnrollPeek
<1>5. QED
  BY <1>3, <1>4

LEMMA StoreOnKeeps ==
  ASSUME IInv, EnrollStore, ~(~unlocked \/ (row # None /\ row.auth # erec.attempt))
  PROVE  IInv'
<1>1. Inv(dir', older') /\ UNCHANGED <<debt, faults>>
  BY Untouched DEF EnrollStore
<1>2. EnrollmentAt("store")
  BY EnrollAtWork DEF EnrollStore, EnrollSteps
<1>3. /\ Read(erec, dir) /\ erec.state = "recoverable" /\ erec.reply = "usable" /\ staged = None
      /\ job.resolution = None
  BY <1>2 DEF IInv, Inv, EnrollAtStep, At, Fit
<1>4. \A n \in received : SafeIn(n, dir', older', RowIs(n)) /\ Keeps(n, dir', older')
  BY <1>1, <1>2, <1>3 DEF Inv, Core, RepliesKept, Held, Holding
<1>5. /\ row' # None /\ row' \in Row /\ row'.auth = erec.attempt /\ RowKnown(row')
      /\ bak' \in {bak, row} /\ (row = None \/ row.auth = erec.attempt)
      /\ UNCHANGED <<sent, adopted>>
  <2>1. erec.attempt \in Attempts /\ erec.attempt \in Prints /\ erec.attempt # Elsewhere
    BY <1>2, PrintsAssumption DEF Record
  <2>2. /\ NewRow \in Row /\ NewRow # None /\ NewRow.auth = erec.attempt
        /\ NewRow.backup = "pending"
    <3>1. NewRow \in Row
      BY <2>1 DEF NewRow, Row
    <3>2. QED
      BY <3>1, NoneAssumption DEF NewRow
  <2>3. RowKnown(NewRow)
    BY <1>2, <1>3, <2>1, <2>2 DEF RowKnown
  <2>4. row # None => RowKnown(row) /\ row \in Row
    BY <1>1, <1>2 DEF Inv, Core, World, Types
  <2>5. QED
    BY <1>2, <2>2, <2>3, <2>4 DEF EnrollStore, Save
<1>6. /\ GoesOn("copy")
      /\ UNCHANGED <<transfer, world, enrollment, unlocked, debt, faults>>
  BY <1>1, <1>2, <1>3, <1>4, <1>5, GoneTo DEF EnrollStore, Save, Stays
<1>7. RowKnown(row)' /\ (bak' # None => RowKnown(bak)')
  BY <1>1, <1>2, <1>3, <1>4, <1>5, <1>6 DEF Inv, Core, World, RowKnown
<1>8. RepliesKept(dir, older)'
  <2>1. SUFFICES ASSUME NEW n \in received
                 PROVE  /\ \/ Held(n)' /\ ~RowIs(n)' /\ ~Rows(n, bak)'
                           \/ SafeIn(n, dir', older', RowIs(n)')
                        /\ Keeps(n, dir', older')
    BY <1>2, <1>4, <1>5, <1>6 DEF RepliesKept
  <2>2. SafeIn(n, dir', older', RowIs(n)) /\ Keeps(n, dir', older') /\ n = erec.attempt
    BY <1>2, <1>4, <1>5, <1>6
  <2>3. RowIs(n) => RowIs(n)'
    BY <1>2, <1>4, <1>5, <1>6, <2>2 DEF RowIs, Rows
  <2>4. SafeIn(n, dir', older', RowIs(n)')
    BY <2>2, <2>3 DEF SafeIn
  <2>5. QED
    BY <2>2, <2>4
<1>9. World(dir, older)'
  BY <1>1, <1>2, <1>5, <1>6, <1>7 DEF Inv, Core, World, Known, Superseded
<1> USE <1>1, <1>2, <1>3, <1>4, <1>5, <1>6, <1>7 DEF IInv, Inv, Core, At, Idle, Holding,
   Sealed, RowIs, Rows
<1>10. Types'
  <2>1. TransferTypeOK'
    BY DEF Types, TransferTypeOK
  <2>2. EnrollTypeOK'
    BY DEF Types, EnrollTypeOK
  <2>3. QED
    BY <2>1, <2>2 DEF Types, MoreFaults
<1>11. Transfers(dir, older)'
  BY DEF Transfers
<1>12. Enrolments(dir, older)'
  BY DEF Enrolments, OfEnrolment
<1>13. Opened(dir, older)'
  BY DEF Opened
<1>14. Phases(dir, older)'
  BY DEF Phases, Awaits, EnrollSteps
<1>15. AtStep(dir)'
  BY DEF AtStep, Saving, Secured, Truth, Resolutions
<1>16. EnrollAtStep(dir)'
  BY DEF EnrollAtStep, Stowed, Secured, Resolutions
<1>17. QED
  BY <1>8, <1>9, <1>10, <1>11, <1>12, <1>13, <1>14, <1>15, <1>16

LEMMA EnrollStoreKeeps ==
  ASSUME IInv, EnrollStore
  PROVE  IInv'
<1>1. CASE ~(~unlocked \/ (row # None /\ row.auth # erec.attempt))
  BY <1>1, StoreOnKeeps
<1>2. CASE ~unlocked \/ (row # None /\ row.auth # erec.attempt)
  <2>1. Inv(dir', older') /\ UNCHANGED <<debt, faults>>
    BY Untouched DEF EnrollStore
  <2>2. /\ Core(dir', older') /\ debt' = debt /\ MoreFaults /\ Ends /\ UNCHANGED vault
    BY <1>2, <2>1, TypesHold DEF EnrollStore, Inv, Types, MoreFaults
  <2>3. UNCHANGED <<outside, unlocked, enrollOwed, staged, known, transfer>>
    BY <2>2 DEF EnrollStore, outside
  <2>4. QED
    BY <2>2, <2>3, EnrollEnds DEF EnrollSteps, EnrollStore
<1>3. QED
  BY <1>1, <1>2

LEMMA StoreLocksKeeps ==
  ASSUME IInv, EnrollStoreFails, MoreFaults, unlocked' = FALSE, TransferLocked,
         UNCHANGED <<row, bak>> \/ (row' = NewRow /\ bak' = row)
  PROVE  IInv'
<1>1. Inv(dir', older') /\ debt' = debt /\ MoreFaults
  BY DEF EnrollStoreFails, IInv
<1>2. EnrollmentAt("store")
  BY EnrollAtWork DEF EnrollStoreFails, EnrollSteps
<1>3. /\ Read(erec, dir) /\ erec.state = "recoverable" /\ erec.reply = "usable" /\ staged = None
      /\ job.resolution = None /\ row = None
  BY <1>2 DEF IInv, Inv, EnrollAtStep, At, Fit, EnrollStoreFails
<1>4. \A n \in received : SafeIn(n, dir', older', RowIs(n)) /\ Keeps(n, dir', older')
  BY <1>1, <1>2, <1>3 DEF Inv, Core, RepliesKept, Held, Holding
<1>5. /\ UNCHANGED <<row, bak>> \/ (row' # None /\ row' \in Row /\ row'.auth = erec.attempt /\ RowKnown(row') /\ bak' = None)
      /\ UNCHANGED <<sent, adopted>>
  <2>1. erec.attempt \in Attempts /\ erec.attempt \in Prints /\ erec.attempt # Elsewhere
    BY <1>2, PrintsAssumption DEF Record
  <2>2. /\ NewRow \in Row /\ NewRow # None /\ NewRow.auth = erec.attempt
        /\ NewRow.backup = "pending"
    <3>1. NewRow \in Row
      BY <2>1 DEF NewRow, Row
    <3>2. QED
      BY <3>1, NoneAssumption DEF NewRow
  <2>3. RowKnown(NewRow)
    BY <1>2, <1>3, <2>1, <2>2 DEF RowKnown
  <2>4. row # None => RowKnown(row) /\ row \in Row
    BY <1>1, <1>2 DEF Inv, Core, World, Types
  <2>5. QED
    BY <1>2, <2>2, <2>3, <2>4 DEF EnrollStoreFails
<1>6. /\ unlocked' = FALSE /\ job' = None /\ erec' = None /\ login' = "no"
      /\ enrollHolds' = FALSE
      /\ pending' \in {"none", "spent"} /\ (pending = "none" => pending' = "none")
      /\ auth' \in {"no", "stale"} /\ (auth = "no" => auth' = "no")
      /\ UNCHANGED <<notes, asking, terminal, challenging, unsaved, badHeld, steam,
         enrollOwed, sent, open, received, adopted, staged, known, debt>>
  BY <1>1, <1>2, <1>3, <1>4, <1>5 DEF EnrollStoreFails, TransferLocked, Ends, Released
<1>7. /\ row' # None => RowKnown(row)'
      /\ bak' # None => RowKnown(bak)'
  BY <1>1, <1>2, <1>3, <1>4, <1>5, <1>6 DEF Inv, Core, World, RowKnown
<1>8. RepliesKept(dir, older)'
  <2>1. SUFFICES ASSUME NEW n \in received
                 PROVE  /\ \/ Held(n)' /\ ~RowIs(n)' /\ ~Rows(n, bak)'
                           \/ SafeIn(n, dir', older', RowIs(n)')
                        /\ Keeps(n, dir', older')
    BY <1>2, <1>3, <1>4, <1>5, <1>6 DEF RepliesKept
  <2>2. SafeIn(n, dir', older', RowIs(n)) /\ Keeps(n, dir', older') /\ n = erec.attempt
    BY <1>2, <1>3, <1>4, <1>5, <1>6
  <2>3. RowIs(n) => RowIs(n)'
    BY <1>2, <1>3, <1>4, <1>5, <1>6, <2>2 DEF RowIs, Rows
  <2>4. SafeIn(n, dir', older', RowIs(n)')
    BY <2>2, <2>3 DEF SafeIn
  <2>5. QED
    BY <2>2, <2>4
<1>9. World(dir, older)'
  BY <1>1, <1>2, <1>5, <1>6, <1>7 DEF Inv, Core, World, Known, Superseded
<1> USE <1>1, <1>2, <1>3, <1>4, <1>5, <1>6, <1>7 DEF IInv, Inv, Core, At, Idle, Holding,
   Sealed, RowIs, Rows
<1>10. Types'
  <2>1. TransferTypeOK'
    BY DEF Types, TransferTypeOK
  <2>2. EnrollTypeOK'
    BY DEF Types, EnrollTypeOK
  <2>3. QED
    BY <2>1, <2>2 DEF Types, MoreFaults
<1>11. Transfers(dir, older)'
  BY DEF Transfers
<1>12. Enrolments(dir, older)'
  BY DEF Enrolments, OfEnrolment
<1>13. Opened(dir, older)'
  BY DEF Opened
<1>14. Phases(dir, older)'
  BY DEF Phases, Awaits, EnrollSteps
<1>15. AtStep(dir)'
  BY DEF AtStep, Saving, Secured, Truth, Resolutions
<1>16. EnrollAtStep(dir)'
  BY DEF EnrollAtStep, Stowed, Secured, Resolutions
<1>17. QED
  BY <1>8, <1>9, <1>10, <1>11, <1>12, <1>13, <1>14, <1>15, <1>16

LEMMA EnrollStoreFailsKeeps ==
  ASSUME IInv, EnrollStoreFails
  PROVE  IInv'
<1>1. MoreFaults /\ Inv(dir', older') /\ debt' = debt
  BY TypesHold, JournalAssumption DEF EnrollStoreFails, Types, MoreFaults, IInv
<1>2. CASE UNCHANGED <<vault, transfer>>
  <2>1. Core(dir', older') /\ Ends
    BY <1>1 DEF EnrollStoreFails, Inv
  <2>2. UNCHANGED <<outside, unlocked, enrollOwed, staged, known, transfer>>
    BY <1>1, <1>2, <2>1 DEF EnrollStoreFails, outside
  <2>3. QED
    BY <1>1, <1>2, <2>1, <2>2, EnrollEnds DEF EnrollSteps, EnrollStoreFails
<1>3. CASE /\ unlocked' = FALSE /\ TransferLocked
           /\ (UNCHANGED <<row, bak>> \/ (row' = NewRow /\ bak' = row))
  BY <1>1, <1>3, StoreLocksKeeps
<1>4. QED
  BY <1>2, <1>3 DEF EnrollStoreFails

LEMMA EnrollCopyKeeps ==
  ASSUME IInv, EnrollCopy
  PROVE  IInv'
<1>1. Inv(dir', older') /\ UNCHANGED <<debt, faults>>
  BY Untouched DEF EnrollCopy
<1>2. EnrollmentAt("copy")
  BY EnrollAtWork DEF EnrollCopy, EnrollSteps
<1>3. /\ Read(erec, dir) /\ erec.state = "recoverable" /\ erec.reply = "usable" /\ staged = None
      /\ job.resolution = None
  BY <1>2 DEF IInv, Inv, EnrollAtStep, At, Fit
<1>4. \A n \in received : SafeIn(n, dir', older', RowIs(n)) /\ Keeps(n, dir', older')
  BY <1>1, <1>2, <1>3 DEF Inv, Core, RepliesKept, Held, Holding
<1>5. /\ row # None /\ row \in Row /\ row.auth = erec.attempt /\ row.backup # "none"
      /\ RowKnown(row)
  BY <1>2 DEF IInv, Inv, Core, World, EnrollAtStep, At, RowIs, Rows, RowKnown, Types
<1>6. /\ row' # None /\ row' \in Row /\ row'.auth = erec.attempt /\ row'.backup = "current"
      /\ bak' \in {bak, row} /\ UNCHANGED <<sent, adopted>>
  <2>1. CASE row.backup = "pending"
    <3>1. row' = [row EXCEPT !.backup = "current"] /\ bak' = row
      BY <2>1 DEF EnrollCopy, Save
    <3>2. row' \in Row /\ row'.auth = row.auth /\ row'.backup = "current"
      BY <1>5, <3>1 DEF Row
    <3>3. QED
      BY <1>5, <3>1, <3>2, NoneAssumption DEF EnrollCopy
  <2>2. CASE row.backup # "pending"
    BY <1>5, <2>2 DEF EnrollCopy, Row
  <2>3. QED
    BY <2>1, <2>2
<1>7. RowKnown(row)' /\ (bak' # None => RowKnown(bak)')
  BY <1>1, <1>2, <1>5, <1>6 DEF RowKnown, Inv, Core, World
<1>8. /\ job' # None /\ job' \in Job /\ job'.step \in {"erase", "announce"} /\ job'.by = job.by
      /\ job'.passphrase = job.passphrase /\ job'.resolution = job.resolution
      /\ UNCHANGED <<transfer, world, enrollment, unlocked, debt, faults>>
  <2>1. PICK s \in {"erase", "announce"} : Goto(s)
    BY DEF EnrollCopy
  <2>2. /\ GoesOn(s)
    BY <1>2, <2>1, GoneTo
  <2>3. UNCHANGED <<transfer, world, enrollment, unlocked, debt, faults>>
    BY <1>1 DEF EnrollCopy, Stays, Save
  <2>4. QED
    BY <2>2, <2>3, <2>1
<1>9. RepliesKept(dir, older)'
  <2>1. SUFFICES ASSUME NEW n \in received
                 PROVE  /\ \/ Held(n)' /\ ~RowIs(n)' /\ ~Rows(n, bak)'
                           \/ SafeIn(n, dir', older', RowIs(n)')
                        /\ Keeps(n, dir', older')
    BY <1>2, <1>4, <1>6, <1>8 DEF RepliesKept
  <2>2. SafeIn(n, dir', older', RowIs(n)) /\ Keeps(n, dir', older') /\ n = erec.attempt
    BY <1>2, <1>4, <1>6, <1>8
  <2>3. RowIs(n) => RowIs(n)'
    BY <1>2, <1>4, <1>6, <1>8, <2>2 DEF RowIs, Rows
  <2>4. SafeIn(n, dir', older', RowIs(n)')
    BY <2>2, <2>3 DEF SafeIn
  <2>5. QED
    BY <2>2, <2>4
<1>10. World(dir, older)'
  BY <1>1, <1>2, <1>6, <1>7, <1>8 DEF Inv, Core, World, Known, Superseded
<1> USE <1>1, <1>2, <1>3, <1>4, <1>5, <1>6, <1>7, <1>8 DEF IInv, Inv, Core, At, Idle,
   Holding, Sealed, RowIs, Rows
<1>11. Types'
  <2>1. TransferTypeOK'
    BY DEF Types, TransferTypeOK
  <2>2. EnrollTypeOK'
    BY DEF Types, EnrollTypeOK
  <2>3. QED
    BY <2>1, <2>2 DEF Types, MoreFaults
<1>12. Transfers(dir, older)'
  BY DEF Transfers
<1>13. Enrolments(dir, older)'
  BY DEF Enrolments, OfEnrolment
<1>14. Opened(dir, older)'
  BY DEF Opened
<1>15. Phases(dir, older)'
  BY DEF Phases, Awaits, EnrollSteps
<1>16. AtStep(dir)'
  BY DEF AtStep, Saving, Secured, Truth, Resolutions
<1>17. EnrollAtStep(dir)'
  BY DEF EnrollAtStep, Stowed, Secured, Resolutions
<1>18. QED
  BY <1>9, <1>10, <1>11, <1>12, <1>13, <1>14, <1>15, <1>16, <1>17

LEMMA EnrollCopyFailsKeeps ==
  ASSUME IInv, EnrollCopyFails
  PROVE  IInv'
<1>1. MoreFaults /\ Inv(dir', older') /\ debt' = debt
  BY TypesHold, JournalAssumption DEF EnrollCopyFails, Types, MoreFaults, IInv
<1>2. Core(dir', older') /\ Ends
  BY <1>1 DEF EnrollCopyFails, Inv
<1>3. UNCHANGED <<outside, unlocked, enrollOwed, staged, known, transfer>>
  BY <1>1, <1>2 DEF EnrollCopyFails, outside
<1>4. QED
  BY <1>1, <1>2, <1>3, EnrollEnds DEF EnrollSteps, EnrollCopyFails

LEMMA EnrollRewrites ==
  ASSUME IInv, NEW s \in EnrollSteps, Step(s), Read(erec, dir), NEW r, Fit(r),
         SameIdentity(erec, r), Follows(erec, r), r.state # "sending",
         r.reply = erec.reply, staged # None => r.reply # "none", r.reply # "none" \/ received = {},
         NEW x \in Updates(r), Happens(x)
  PROVE  /\ Core(dir', older') /\ debt' = debt /\ MoreFaults /\ x.ok \in BOOLEAN
         /\ x.ok => /\ dir' = [files |-> {r}, staged |-> {}, torn |-> FALSE] /\ older' = {}
                    /\ Read(r, dir') /\ Trace(r.attempt, dir') /\ Mine(r, dir', older')
                    /\ r.reply # "none" => \A b : SafeIn(r.attempt, dir', older', b)
                    /\ Keeps(r.attempt, dir', older')
         /\ Keeps(r.attempt, dir, older) /\ r.reply # "none" => Keeps(r.attempt, dir', older')
         /\ Heard(dir) /\ r.reply # "none" => Heard(dir')
<1>1. EnrollmentAt(s)
  BY EnrollAtWork
<1>2. Known(r)
  BY <1>1, PrintsAssumption, NoneAssumption DEF Known, SameIdentity
<1>3. OfEnrolment(erec, dir, older) /\ SameIdentity(erec, erec)
  BY <1>1 DEF OfEnrolment, SameIdentity
<1>4. enrollOwed # None => SameIdentity(enrollOwed, erec)
  BY <1>1 DEF SameIdentity
<1>5. staged # None => staged.attempt = r.attempt /\ r.reply # "none"
  BY <1>1 DEF SameIdentity
<1>6. Reconcilable(dir) => \A f \in Merged(dir).files : Follows(f, r)
  BY <1>1, FollowsRead
<1>7. QED
  BY <1>1, <1>2, <1>3, <1>4, <1>5, <1>6, EnrollWrites

LEMMA AnnouncedKeeps ==
  ASSUME IInv, EnrollAnnounce, NEW p, Fit(p), SameIdentity(erec, p), p \in Record, p # None,
         p.attempt = erec.attempt, p.kind = "enrollment", p.prior = None,
         p.state = "recoverable", p.reply = "usable", erec' = p, Goto("erase"),
         UNCHANGED <<login, enrollHolds>>, Core(dir', older'), debt' = debt, MoreFaults,
         Read(p, dir'), Mine(p, dir', older'), Keeps(p.attempt, dir', older'),
         \A b : SafeIn(p.attempt, dir', older', b)
  PROVE  IInv'
<1>1. Core(dir', older') /\ debt' = debt /\ MoreFaults
  OBVIOUS
<1>2. EnrollmentAt("announce")
  BY EnrollAtWork DEF EnrollAnnounce, EnrollSteps
<1>3. /\ Read(erec, dir) /\ erec.state = "recoverable" /\ erec.reply = "usable" /\ staged = None
      /\ job.resolution = None /\ Secured(erec.attempt) /\ erec.attempt \in sent
  BY <1>2 DEF IInv, Inv, EnrollAtStep, At, Fit
<1>4. /\ erec' = p
      /\ GoesOn("erase")
      /\ UNCHANGED <<transfer, vault, world, login, staged, known, debt>>
  BY <1>1, <1>2, <1>3, GoneTo DEF EnrollAnnounce
<1>5. RepliesKept(dir, older)'
  <2>1. \A n \in received : n = p.attempt
    BY <1>2
  <2>2. QED
    BY <1>4, <2>1 DEF RepliesKept, RowIs, Rows
<1> USE <1>1, <1>2, <1>3, <1>4 DEF IInv, Inv, Core, At, Idle, Holding, Sealed, RowIs, Rows
<1>6. Types'
  <2>1. TransferTypeOK'
    BY DEF Types, TransferTypeOK
  <2>2. EnrollTypeOK'
    BY DEF Types, EnrollTypeOK
  <2>3. QED
    BY <2>1, <2>2 DEF Types, MoreFaults
<1>7. Transfers(dir, older)'
  BY DEF Transfers
<1>8. Enrolments(dir, older)'
  BY DEF Enrolments, OfEnrolment, SameIdentity
<1>9. Opened(dir, older)'
  BY DEF Opened
<1>10. World(dir, older)'
  BY DEF World, Known, Superseded, RowKnown
<1>11. Phases(dir, older)'
  BY DEF Phases, Awaits, EnrollSteps
<1>12. AtStep(dir)'
  BY DEF AtStep, Saving, Secured, Truth, Resolutions
<1>13. EnrollAtStep(dir)'
  BY DEF EnrollAtStep, Stowed, Secured, Resolutions
<1>14. QED
  BY <1>5, <1>6, <1>7, <1>8, <1>9, <1>10, <1>11, <1>12, <1>13

LEMMA EnrollAnnounceKeeps ==
  ASSUME IInv, EnrollAnnounce
  PROVE  IInv'
<1> DEFINE p == [erec EXCEPT !.published = TRUE]
<1>1. EnrollmentAt("announce")
  BY EnrollAtWork DEF EnrollAnnounce, EnrollSteps
<1>2. /\ Read(erec, dir) /\ erec.state = "recoverable" /\ erec.reply = "usable" /\ staged = None
      /\ job.resolution = None /\ Secured(erec.attempt) /\ erec.attempt \in sent
  BY <1>1 DEF IInv, Inv, EnrollAtStep, At, Fit
<1>3. /\ Fit(p) /\ SameIdentity(erec, p) /\ p \in Record /\ p # None
      /\ p.attempt = erec.attempt /\ p.kind = "enrollment" /\ p.prior = None
      /\ p.state = "recoverable" /\ p.reply = "usable"
  BY <1>1, <1>2, PublishedIs DEF Fit
<1>4. PICK x \in Updates(p) :
        /\ Happens(x)
        /\ IF x.ok THEN erec' = p /\ Goto("erase") /\ UNCHANGED <<login, enrollHolds>>
           ELSE Ends
  BY DEF EnrollAnnounce
<1>5. Follows(erec, p)
  BY <1>2, <1>3 DEF Follows, Fit
<1>6. /\ Core(dir', older') /\ debt' = debt /\ MoreFaults /\ x.ok \in BOOLEAN
      /\ x.ok => /\ dir' = [files |-> {p}, staged |-> {}, torn |-> FALSE] /\ older' = {}
                 /\ Read(p, dir') /\ Trace(p.attempt, dir') /\ Mine(p, dir', older')
                 /\ p.reply # "none" => \A b : SafeIn(p.attempt, dir', older', b)
                 /\ Keeps(p.attempt, dir', older')
      /\ Keeps(p.attempt, dir, older) /\ p.reply # "none" => Keeps(p.attempt, dir', older')
      /\ Heard(dir) /\ p.reply # "none" => Heard(dir')
  BY <1>1, <1>2, <1>3, <1>4, <1>5, EnrollRewrites DEF EnrollAnnounce, EnrollSteps
<1>7. CASE x.ok
  <2>1. erec' = p /\ Goto("erase") /\ UNCHANGED <<login, enrollHolds>>
    BY <1>4, <1>7
  <2>2. QED
    BY <1>3, <1>6, <1>7, <2>1, AnnouncedKeeps
<1>8. CASE ~x.ok
  <2>1. Ends
    BY <1>4, <1>8
  <2>2. UNCHANGED <<outside, unlocked, enrollOwed, staged, known, transfer>>
    BY <1>6, <2>1 DEF EnrollAnnounce, outside
  <2>3. QED
    BY <1>6, <2>1, <2>2, EnrollEnds DEF EnrollSteps, EnrollAnnounce
<1>9. QED
  BY <1>7, <1>8

LEMMA ErasedKeeps ==
  ASSUME IInv, EnrollErase, Core(dir', older'), debt' = debt, MoreFaults, Blank(dir'), Ends,
         enrollOwed' = None, known' \subseteq known, staged' = None,
         IF Stowed THEN Settle(erec.attempt) ELSE UNCHANGED <<open, received>>
  PROVE  IInv'
<1>1. Core(dir', older') /\ debt' = debt /\ MoreFaults
  OBVIOUS
<1>2. EnrollmentAt("erase")
  BY EnrollAtWork DEF EnrollErase, EnrollSteps
<1>3. /\ Read(erec, dir)
      /\ job.resolution = None => Secured(erec.attempt) /\ erec.state = "recoverable"
      /\ job.resolution = "storedHere" => RowIs(erec.attempt)
      /\ ~Stowed => open = {} /\ received = {}
      /\ job.by = "submission" /\ ~Stowed => staged = None /\ erec.reply = "none"
  BY <1>2 DEF IInv, Inv, EnrollAtStep, At, Types
<1>4. /\ job' = None /\ erec' = None /\ login' = "no" /\ enrollHolds' = FALSE
      /\ enrollOwed' = None /\ known' \subseteq known /\ staged' = None
      /\ open' = {} /\ received' = {} /\ ~Shows(dir')
      /\ UNCHANGED <<transfer, vault, steam, sent, adopted, debt>>
  <2>1. open' = {} /\ received' = {} /\ ~Shows(dir')
    BY <1>2, <1>3 DEF Settle, Shows, Blank
  <2>2. QED
    BY <1>1, <1>2, <1>3, <2>1 DEF EnrollErase, Ends, Released
<1> USE <1>1, <1>2, <1>3, <1>4 DEF IInv, Inv, Core, At, Idle, Holding, Sealed, RowIs, Rows
<1>5. Types'
  <2>1. TransferTypeOK'
    BY DEF Types, TransferTypeOK
  <2>2. EnrollTypeOK'
    BY DEF Types, EnrollTypeOK
  <2>3. QED
    BY <2>1, <2>2 DEF Types, MoreFaults
<1>6. Transfers(dir, older)'
  BY DEF Transfers
<1>7. Enrolments(dir, older)'
  BY DEF Enrolments, OfEnrolment
<1>8. Opened(dir, older)'
  BY DEF Opened
<1>9. RepliesKept(dir, older)'
  BY DEF RepliesKept, Held
<1>10. World(dir, older)'
  BY DEF World, Known, Superseded, RowKnown
<1>11. Phases(dir, older)'
  BY DEF Phases, Awaits, EnrollSteps
<1>12. AtStep(dir)'
  BY DEF AtStep, Saving, Secured, Truth, Resolutions
<1>13. EnrollAtStep(dir)'
  BY DEF EnrollAtStep, Stowed, Secured, Resolutions
<1>14. QED
  BY <1>5, <1>6, <1>7, <1>8, <1>9, <1>10, <1>11, <1>12, <1>13

LEMMA EraseOwesKeeps ==
  ASSUME IInv, EnrollErase, Core(dir', older'), debt' = debt, MoreFaults, Read(erec, dir'),
         Goto("own"),
         Stays, UNCHANGED <<enrollOwed, known, staged, open, received>>
  PROVE  IInv'
<1>1. Core(dir', older') /\ debt' = debt /\ MoreFaults
  OBVIOUS
<1>2. EnrollmentAt("erase")
  BY EnrollAtWork DEF EnrollErase, EnrollSteps
<1>3. /\ Read(erec, dir)
      /\ job.resolution = None => Secured(erec.attempt) /\ erec.state = "recoverable"
      /\ job.resolution = "storedHere" => RowIs(erec.attempt)
      /\ ~Stowed => open = {} /\ received = {}
      /\ job.by = "submission" /\ ~Stowed => staged = None /\ erec.reply = "none"
  BY <1>2 DEF IInv, Inv, EnrollAtStep, At, Types
<1>4. /\ GoesOn("own")
      /\ UNCHANGED <<transfer, vault, world, enrollment, debt>>
  BY <1>1, <1>2, <1>3, GoneTo DEF EnrollErase, Stays
<1> USE <1>1, <1>2, <1>3, <1>4 DEF IInv, Inv, Core, At, Idle, Holding, Sealed, RowIs, Rows
<1>5. Types'
  <2>1. TransferTypeOK'
    BY DEF Types, TransferTypeOK
  <2>2. EnrollTypeOK'
    BY DEF Types, EnrollTypeOK
  <2>3. QED
    BY <2>1, <2>2 DEF Types, MoreFaults
<1>6. Transfers(dir, older)'
  BY DEF Transfers
<1>7. Enrolments(dir, older)'
  BY DEF Enrolments, OfEnrolment
<1>8. Opened(dir, older)'
  BY DEF Opened
<1>9. RepliesKept(dir, older)'
  BY DEF RepliesKept, Held
<1>10. World(dir, older)'
  BY DEF World, Known, Superseded, RowKnown
<1>11. Phases(dir, older)'
  BY DEF Phases, Awaits, EnrollSteps
<1>12. AtStep(dir)'
  BY DEF AtStep, Saving, Secured, Truth, Resolutions
<1>13. EnrollAtStep(dir)'
  BY DEF EnrollAtStep, Stowed, Secured, Resolutions
<1>14. QED
  BY <1>5, <1>6, <1>7, <1>8, <1>9, <1>10, <1>11, <1>12, <1>13

LEMMA EnrollEraseKeeps ==
  ASSUME IInv, EnrollErase
  PROVE  IInv'
<1>1. PICK x \in Clears(erec) :
        /\ Happens(x)
        /\ IF x.ok
           THEN /\ Ends /\ enrollOwed' = None
                /\ known' = known \ {erec.attempt} /\ staged' = None
                /\ IF Stowed THEN Settle(erec.attempt) ELSE UNCHANGED <<open, received>>
           ELSE Goto("own") /\ Stays /\ UNCHANGED <<enrollOwed, known, staged, open, received>>
  BY DEF EnrollErase
<1>2. EnrollmentAt("erase")
  BY EnrollAtWork DEF EnrollErase, EnrollSteps
<1>3. /\ Read(erec, dir)
      /\ job.resolution = None => Secured(erec.attempt) /\ erec.state = "recoverable"
      /\ job.resolution = "storedHere" => RowIs(erec.attempt)
      /\ ~Stowed => open = {} /\ received = {}
      /\ job.by = "submission" /\ ~Stowed => staged = None /\ erec.reply = "none"
  BY <1>2 DEF IInv, Inv, EnrollAtStep, At, Types
<1>4. At({"erase"}) /\ \A n \in open : RowIs(n)
  BY <1>2, <1>3 DEF At, Stowed, Secured, Resolutions
<1>5. /\ Core(dir', older') /\ debt' = debt /\ MoreFaults /\ x.ok \in BOOLEAN
      /\ x.ok => Blank(dir')
      /\ Read(erec, dir')
  BY <1>1, <1>2, <1>3, <1>4, ClearHappens
<1>6. CASE x.ok
  BY <1>1, <1>5, <1>6, ErasedKeeps
<1>7. CASE ~x.ok
  BY <1>1, <1>5, <1>7, EraseOwesKeeps
<1>8. QED
  BY <1>6, <1>7

LEMMA OwnDisclaimsKeeps ==
  ASSUME IInv, EnrollOwn, Inv(dir', older'), debt' = debt, MoreFaults,
         enrollOwed' \in {None, erec},
         enrollOwed' = None => Trace(erec.attempt, dir'),
         job.by = "submission", ~Stowed, Goto("disclaim"), Stays
  PROVE  IInv'
<1>1. Inv(dir', older') /\ debt' = debt /\ MoreFaults
  OBVIOUS
<1>2. EnrollmentAt("own")
  BY EnrollAtWork DEF EnrollOwn, EnrollSteps
<1>3. /\ Read(erec, dir')
      /\ job.resolution = None => Secured(erec.attempt) /\ erec.state = "recoverable"
      /\ job.resolution = "storedHere" => RowIs(erec.attempt)
      /\ ~Stowed => open = {} /\ received = {}
      /\ job.by = "submission" /\ ~Stowed => staged = None /\ erec.reply = "none"
  BY <1>1, <1>2 DEF IInv, Inv, EnrollAtStep, At, Types
<1>4. OfEnrolment(erec, dir', older')
  BY <1>1, <1>2 DEF Inv, Core, Enrolments
<1>5. /\ enrollOwed' \in {None, erec}
      /\ GoesOn("disclaim")
      /\ UNCHANGED <<transfer, vault, enrollment, steam, enrollHolds, sent, open,
         received, adopted, debt>>
  BY <1>1, <1>2, <1>3, <1>4, GoneTo DEF EnrollOwn, Stays
<1> USE <1>1, <1>2, <1>3, <1>4, <1>5 DEF IInv, Inv, Core, At, Idle, Holding, Sealed, RowIs,
   Rows
<1>6. Types'
  <2>1. TransferTypeOK'
    BY DEF Types, TransferTypeOK
  <2>2. EnrollTypeOK'
    BY DEF Types, EnrollTypeOK
  <2>3. QED
    BY <2>1, <2>2 DEF Types, MoreFaults
<1>7. Transfers(dir, older)'
  BY DEF Transfers
<1>8. Enrolments(dir, older)'
  BY DEF Enrolments, OfEnrolment, SameIdentity
<1>9. Opened(dir, older)'
  BY DEF Opened
<1>10. RepliesKept(dir, older)'
  BY DEF RepliesKept, Held
<1>11. World(dir, older)'
  BY DEF World, Known, Superseded, RowKnown
<1>12. Phases(dir, older)'
  BY DEF Phases, Awaits, EnrollSteps
<1>13. AtStep(dir)'
  BY DEF AtStep, Saving, Secured, Truth, Resolutions
<1>14. EnrollAtStep(dir)'
  BY DEF EnrollAtStep, Stowed, Secured, Resolutions
<1>15. QED
  BY <1>6, <1>7, <1>8, <1>9, <1>10, <1>11, <1>12, <1>13, <1>14

LEMMA OwnEndsKeeps ==
  ASSUME IInv, EnrollOwn, Inv(dir', older'), debt' = debt, MoreFaults,
         enrollOwed' \in {None, erec},
         enrollOwed' = None => Trace(erec.attempt, dir'),
         job' = None, erec' = None, Released
  PROVE  IInv'
<1>1. Inv(dir', older') /\ debt' = debt /\ MoreFaults
  OBVIOUS
<1>2. EnrollmentAt("own")
  BY EnrollAtWork DEF EnrollOwn, EnrollSteps
<1>3. /\ Read(erec, dir')
      /\ job.resolution = None => Secured(erec.attempt) /\ erec.state = "recoverable"
      /\ job.resolution = "storedHere" => RowIs(erec.attempt)
      /\ ~Stowed => open = {} /\ received = {}
      /\ job.by = "submission" /\ ~Stowed => staged = None /\ erec.reply = "none"
  BY <1>1, <1>2 DEF IInv, Inv, EnrollAtStep, At, Types
<1>4. OfEnrolment(erec, dir', older')
  BY <1>1, <1>2 DEF Inv, Core, Enrolments
<1>5. /\ enrollOwed' \in {None, erec}
      /\ job' = None /\ erec' = None /\ login' = "no" /\ enrollHolds' = FALSE
      /\ UNCHANGED <<transfer, vault, steam, sent, open, received, adopted, staged,
         known, debt>>
  BY <1>1, <1>2, <1>3, <1>4 DEF EnrollOwn, Released
<1>6. \A n \in open : Trace(n, dir') \/ enrollOwed' # None
  BY <1>1, <1>2, <1>3, <1>4, <1>5
<1> USE <1>1, <1>2, <1>3, <1>4, <1>5, <1>6 DEF IInv, Inv, Core, At, Idle, Holding, Sealed,
   RowIs, Rows
<1>7. Types'
  <2>1. TransferTypeOK'
    BY DEF Types, TransferTypeOK
  <2>2. EnrollTypeOK'
    BY DEF Types, EnrollTypeOK
  <2>3. QED
    BY <2>1, <2>2 DEF Types, MoreFaults
<1>8. Transfers(dir, older)'
  BY DEF Transfers
<1>9. Enrolments(dir, older)'
  BY DEF Enrolments, OfEnrolment
<1>10. Opened(dir, older)'
  BY DEF Opened
<1>11. RepliesKept(dir, older)'
  BY DEF RepliesKept, Held
<1>12. World(dir, older)'
  BY DEF World, Known, Superseded, RowKnown
<1>13. Phases(dir, older)'
  BY DEF Phases, Awaits, EnrollSteps
<1>14. AtStep(dir)'
  BY DEF AtStep, Saving, Secured, Truth, Resolutions
<1>15. EnrollAtStep(dir)'
  BY DEF EnrollAtStep, Stowed, Secured, Resolutions
<1>16. QED
  BY <1>7, <1>8, <1>9, <1>10, <1>11, <1>12, <1>13, <1>14, <1>15

LEMMA EnrollOwnKeeps ==
  ASSUME IInv, EnrollOwn
  PROVE  IInv'
<1>1. PICK x \in Reads :
        /\ Happens(x)
        /\ enrollOwed' = IF x.ok /\ \E f \in x.dir.files : f.attempt = erec.attempt
                         THEN None ELSE erec
  BY DEF EnrollOwn
<1>2. EnrollmentAt("own")
  BY EnrollAtWork DEF EnrollOwn, EnrollSteps
<1>3. Inv(dir', older') /\ debt' = debt /\ MoreFaults /\ x.dir = dir'
  BY <1>1, ReadHappens
<1>4. enrollOwed' \in {None, erec} /\ (enrollOwed' = None => Trace(erec.attempt, dir'))
  BY <1>1, <1>2, <1>3 DEF Trace
<1>5. CASE job.by = "submission" /\ ~Stowed
  BY <1>3, <1>4, <1>5, OwnDisclaimsKeeps DEF EnrollOwn
<1>6. CASE ~(job.by = "submission" /\ ~Stowed)
  BY <1>3, <1>4, <1>6, OwnEndsKeeps DEF EnrollOwn
<1>7. QED
  BY <1>5, <1>6

LEMMA DisclaimedKeeps ==
  ASSUME IInv, EnrollDisclaim, Core(dir', older'), debt' = debt, MoreFaults,
         enrollOwed' \in {None, enrollOwed}
  PROVE  IInv'
<1>1. Core(dir', older') /\ debt' = debt /\ MoreFaults
  OBVIOUS
<1>2. EnrollmentAt("disclaim")
  BY EnrollAtWork DEF EnrollDisclaim, EnrollSteps
<1>3. /\ Read(erec, dir) /\ erec.reply = "none" /\ open = {} /\ received = {} /\ staged = None
  BY <1>2 DEF IInv, Inv, EnrollAtStep, At, Types
<1>4. /\ enrollOwed' \in {None, enrollOwed}
      /\ job' = None /\ erec' = None /\ login' = "no" /\ enrollHolds' = FALSE
      /\ UNCHANGED <<transfer, vault, steam, sent, open, received, adopted, staged,
         known, debt>>
  BY <1>1, <1>2, <1>3 DEF EnrollDisclaim, Ends, Released
<1> USE <1>1, <1>2, <1>3, <1>4 DEF IInv, Inv, Core, At, Idle, Holding, Sealed, RowIs, Rows
<1>5. Types'
  <2>1. TransferTypeOK'
    BY DEF Types, TransferTypeOK
  <2>2. EnrollTypeOK'
    BY DEF Types, EnrollTypeOK
  <2>3. QED
    BY <2>1, <2>2 DEF Types, MoreFaults
<1>6. Transfers(dir, older)'
  BY DEF Transfers
<1>7. Enrolments(dir, older)'
  BY DEF Enrolments, OfEnrolment
<1>8. Opened(dir, older)'
  BY DEF Opened
<1>9. RepliesKept(dir, older)'
  BY DEF RepliesKept, Held
<1>10. World(dir, older)'
  BY DEF World, Known, Superseded, RowKnown
<1>11. Phases(dir, older)'
  BY DEF Phases, Awaits, EnrollSteps
<1>12. AtStep(dir)'
  BY DEF AtStep, Saving, Secured, Truth, Resolutions
<1>13. EnrollAtStep(dir)'
  BY DEF EnrollAtStep, Stowed, Secured, Resolutions
<1>14. QED
  BY <1>5, <1>6, <1>7, <1>8, <1>9, <1>10, <1>11, <1>12, <1>13

LEMMA EnrollDisclaimKeeps ==
  ASSUME IInv, EnrollDisclaim
  PROVE  IInv'
<1> DEFINE t == Turned(erec, "not-attached", "none")
<1>1. PICK x \in Updates(t) : Happens(x) /\ enrollOwed' = IF x.ok THEN None ELSE enrollOwed
  BY DEF EnrollDisclaim
<1>2. EnrollmentAt("disclaim")
  BY EnrollAtWork DEF EnrollDisclaim, EnrollSteps
<1>3. /\ Read(erec, dir) /\ erec.reply = "none" /\ open = {} /\ received = {} /\ staged = None
  BY <1>2 DEF IInv, Inv, EnrollAtStep, At, Types
<1>4. /\ Fit(t) /\ SameIdentity(erec, t) /\ t.state = "not-attached" /\ t.reply = "none"
  <2>1. erec.kind # "transfer" /\ "not-attached" \in EnrollmentStates
    BY <1>2 DEF EnrollmentStates
  <2>2. QED
    BY <1>2, <2>1, TurnedIs
<1>5. Follows(erec, t)
  BY <1>3, <1>4 DEF Follows
<1>6. Core(dir', older') /\ debt' = debt /\ MoreFaults
  BY <1>1, <1>2, <1>3, <1>4, <1>5, EnrollRewrites DEF EnrollDisclaim, EnrollSteps
<1>7. QED
  BY <1>1, <1>6, DisclaimedKeeps

-----------------------------------------------------------------------------
(* The answers to an enrolment's request.                                  *)

LEMMA EnrollAwaits ==
  ASSUME IInv, Awaited
  PROVE  /\ EnrollmentAsked
<1>1. /\ Types /\ Core(dir, older) /\ Phases(dir, older) /\ job = None /\ Idle
      /\ login = "asked"
  BY DEF IInv, Inv, Awaited, Idle
<1>2. erec # None /\ Awaits(erec, dir, older) /\ staged = None /\ phase = "no"
  BY <1>1 DEF Phases
<1>3. /\ Fit(erec) /\ erec.kind = "enrollment" /\ Mine(erec, dir, older)
      /\ open \subseteq {erec.attempt}
      /\ (enrollOwed # None => SameIdentity(erec, enrollOwed)) /\ Sound(dir, older)
  BY <1>1, <1>2 DEF Core, Enrolments, OfEnrolment
<1>4. wf = None
  BY <1>1, <1>2 DEF Core, Transfers
<1>5. owed = None /\ ~Holding /\ proving = None /\ resolving = None
  BY <1>1, <1>4 DEF Core, Transfers
<1>6. /\ Fresh(erec, dir, older) /\ erec.attempt \in open /\ erec.attempt \notin received
      /\ ~RowIs(erec.attempt) /\ ~Rows(erec.attempt, bak)
  BY <1>2 DEF Awaits
<1>7. open = {erec.attempt} /\ received = {} /\ erec.attempt \in sent
  BY <1>1, <1>3, <1>6 DEF Types
<1>8. unsaved = FALSE /\ badHeld = FALSE
  BY <1>1, <1>5 DEF Holding, Types, TransferTypeOK
<1>9. /\ Written(dir, older) = {erec} /\ Recs(dir) = {erec} /\ Read(erec, dir)
      /\ Keeps(erec.attempt, dir, older)
  BY <1>6, FreshIs
<1>10. erec.state = "sending" /\ erec.reply = "none" /\ erec \in Record /\ erec.prior = None
  BY <1>3, <1>6 DEF Fresh, Fit
<1>11. Heard(dir)
  BY <1>9, <1>10 DEF Heard
<1>12. QED
  BY <1>1, <1>2, <1>3, <1>4, <1>5, <1>6, <1>7, <1>8, <1>9, <1>10, <1>11

LEMMA EnrollRefusedKeeps ==
  ASSUME IInv, EnrollRefused
  PROVE  IInv'
<1>1. Inv(dir', older') /\ UNCHANGED <<debt, faults>>
  BY Untouched DEF EnrollRefused
<1>2. EnrollmentAsked
  BY EnrollAwaits DEF EnrollRefused
<1>3. [step |-> "erase", by |-> "submission", passphrase |-> FALSE, resolution |-> "notAttached"] \in Job
  BY DEF Job, Resolutions
<1>4. /\ job' # None /\ job' \in Job /\ job'.step = "erase" /\ job'.by = "submission"
      /\ job'.passphrase = FALSE /\ job'.resolution = "notAttached"
      /\ open' = {}
      /\ UNCHANGED <<transfer, vault, enrolment, enrollment, steam, sent, received,
         adopted, debt, faults>>
  BY <1>1, <1>2, <1>3, Started DEF EnrollRefused
<1>5. None \notin Resolutions /\ None \notin Record
  BY NoneAssumption
<1>6. dir' = dir
  BY DEF EnrollRefused, journalVars
<1> USE <1>1, <1>2, <1>3, <1>4, <1>5, <1>6 DEF IInv, Inv, Core, At, Idle, Holding, Sealed,
   RowIs, Rows
<1>7. Types'
  <2>1. TransferTypeOK'
    BY DEF Types, TransferTypeOK
  <2>2. EnrollTypeOK'
    BY DEF Types, EnrollTypeOK
  <2>3. QED
    BY <2>1, <2>2 DEF Types, MoreFaults
<1>8. Transfers(dir, older)'
  BY DEF Transfers
<1>9. Enrolments(dir, older)'
  BY DEF Enrolments, OfEnrolment
<1>10. Opened(dir, older)'
  BY DEF Opened
<1>11. RepliesKept(dir, older)'
  BY DEF RepliesKept, Held
<1>12. World(dir, older)'
  BY DEF World, Known, Superseded, RowKnown
<1>13. Phases(dir, older)'
  BY DEF Phases, Awaits, EnrollSteps
<1>14. AtStep(dir)'
  BY DEF AtStep, Saving, Secured, Truth, Resolutions
<1>15. EnrollAtStep(dir)'
  BY DEF EnrollAtStep, Stowed, Secured, Resolutions
<1>16. QED
  BY <1>7, <1>8, <1>9, <1>10, <1>11, <1>12, <1>13, <1>14, <1>15

LEMMA EnrollConcludedKeeps ==
  ASSUME IInv, Awaited, Core(dir', older'), debt' = debt, MoreFaults,
         steam' \in {steam, erec.attempt}, known' \subseteq sent, Released, erec' = None,
         UNCHANGED <<staged, service, vault, enrollOwed, sent, open, received, adopted>>
  PROVE  IInv'
<1>1. Core(dir', older') /\ debt' = debt /\ MoreFaults
  OBVIOUS
<1>2. EnrollmentAsked
  BY EnrollAwaits
<1>3. \A r \in Written(dir', older') : Known(r) /\ r.kind = "enrollment"
  <2>1. Mine(erec, dir', older')
    BY <1>1, <1>2 DEF Core, Enrolments, OfEnrolment
  <2>2. QED
    BY <1>1, <1>2, <2>1 DEF Core, World, Mine, SameIdentity
<1>4. steam' \in Prints \cup {None} /\ UNCHANGED <<sent, adopted>>
  BY <1>2, PrintsAssumption DEF Types, Record
<1>5. \A r \in Written(dir', older') : Known(r)'
  BY <1>3, <1>4 DEF Known
<1>6. /\ login' = "no" /\ enrollHolds' = FALSE /\ erec' = None /\ known' \subseteq sent
      /\ UNCHANGED <<transfer, vault, job, enrollOwed, sent, open, received, adopted,
         staged, debt>>
  BY <1>1, <1>2, <1>3, <1>4, <1>5 DEF Released
<1>7. World(dir, older)'
  BY <1>2, <1>4, <1>5, <1>6 DEF IInv, Inv, Core, World, RowKnown
<1> USE <1>1, <1>2, <1>3, <1>4, <1>5, <1>6 DEF IInv, Inv, Core, At, Idle, Holding, Sealed,
   RowIs, Rows
<1>8. Types'
  <2>1. TransferTypeOK'
    BY DEF Types, TransferTypeOK
  <2>2. EnrollTypeOK'
    BY DEF Types, EnrollTypeOK
  <2>3. QED
    BY <2>1, <2>2 DEF Types, MoreFaults
<1>9. Transfers(dir, older)'
  BY DEF Transfers
<1>10. Enrolments(dir, older)'
  BY DEF Enrolments, OfEnrolment
<1>11. Opened(dir, older)'
  BY DEF Opened
<1>12. RepliesKept(dir, older)'
  BY DEF RepliesKept, Held
<1>13. Phases(dir, older)'
  BY DEF Phases, Awaits, EnrollSteps
<1>14. AtStep(dir)'
  BY DEF AtStep, Saving, Secured, Truth, Resolutions
<1>15. EnrollAtStep(dir)'
  BY DEF EnrollAtStep, Stowed, Secured, Resolutions
<1>16. QED
  BY <1>7, <1>8, <1>9, <1>10, <1>11, <1>12, <1>13, <1>14, <1>15

LEMMA EnrollTurns ==
  ASSUME IInv, Awaited, NEW state, NEW reply, NEW t, t = Turned(erec, state, reply),
         state \in {"unanswered", "attached", "recoverable", "unreadable"},
         reply \in {"none", "usable", "unusable"},
         reply = "usable" <=> state = "recoverable", reply = "unusable" => state = "unreadable",
         NEW x \in Updates(t), Happens(x)
  PROVE  /\ Fit(t) /\ SameIdentity(erec, t) /\ t \in Record /\ t # None /\ t.attempt = erec.attempt
         /\ t.kind = "enrollment" /\ t.prior = None
         /\ t.state = state /\ t.reply = reply
         /\ Core(dir', older') /\ debt' = debt /\ MoreFaults /\ x.ok \in BOOLEAN
         /\ x.ok => /\ Read(t, dir') /\ Trace(t.attempt, dir') /\ Mine(t, dir', older')
                    /\ t.reply # "none" => \A b : SafeIn(t.attempt, dir', older', b)
                    /\ Keeps(t.attempt, dir', older')
         /\ t.reply # "none" => Heard(dir') /\ Keeps(t.attempt, dir', older')
<1>1. EnrollmentAsked
  BY EnrollAwaits
<1>2. /\ Fit(t) /\ SameIdentity(erec, t) /\ t \in Record /\ t # None /\ t.attempt = erec.attempt
      /\ t.kind = "enrollment" /\ t.prior = None
      /\ t.state = state /\ t.reply = reply
  <2>1. erec.kind # "transfer" /\ state \in EnrollmentStates
    BY <1>1 DEF EnrollmentStates
  <2>2. QED
    BY <1>1, <2>1, TurnedIs
<1>3. Known(t) /\ Follows(erec, t) /\ t.state # "sending"
  BY <1>1, <1>2, PrintsAssumption, NoneAssumption DEF Known, Follows
<1>4. Reconcilable(dir) => \A f \in Merged(dir).files : Follows(f, t)
  BY <1>1, <1>3, FollowsRead
<1>5. OfEnrolment(erec, dir, older) /\ SameIdentity(erec, erec)
  BY <1>1 DEF OfEnrolment, SameIdentity
<1>6. enrollOwed # None => SameIdentity(enrollOwed, erec)
  BY <1>1 DEF SameIdentity
<1>7. /\ Core(dir', older') /\ debt' = debt /\ MoreFaults /\ x.ok \in BOOLEAN
      /\ x.ok => /\ dir' = [files |-> {t}, staged |-> {}, torn |-> FALSE] /\ older' = {}
                 /\ Read(t, dir') /\ Trace(t.attempt, dir') /\ Mine(t, dir', older')
                 /\ t.reply # "none" => \A b : SafeIn(t.attempt, dir', older', b)
                 /\ Keeps(t.attempt, dir', older')
      /\ Keeps(t.attempt, dir, older) /\ t.reply # "none" => Keeps(t.attempt, dir', older')
      /\ Heard(dir) /\ t.reply # "none" => Heard(dir')
  BY <1>1, <1>2, <1>3, <1>4, <1>5, <1>6, EnrollWrites
<1>8. QED
  BY <1>1, <1>2, <1>7

LEMMA EnrollLostKeeps ==
  ASSUME IInv, EnrollLost
  PROVE  IInv'
<1>1. Awaited /\ Conclude("unanswered") /\ steam' \in {steam, erec.attempt}
  BY DEF EnrollLost, Attaches
<1>2. PICK x \in Updates(Turned(erec, "unanswered", "none")) : Happens(x)
  BY <1>1 DEF Conclude
<1>3. Core(dir', older') /\ debt' = debt /\ MoreFaults
  BY <1>1, <1>2, EnrollTurns
<1>4. known' \subseteq sent
  BY TypesHold DEF EnrollLost, Types, EnrollTypeOK
<1>5. QED
  BY <1>1, <1>3, <1>4, EnrollConcludedKeeps DEF Conclude

LEMMA EnrollKnownAttachedKeeps ==
  ASSUME IInv, EnrollKnownAttached
  PROVE  IInv'
<1>1. Awaited /\ Conclude("attached") /\ steam' \in {steam, erec.attempt}
  BY DEF EnrollKnownAttached, Attaches
<1>2. PICK x \in Updates(Turned(erec, "attached", "none")) : Happens(x)
  BY <1>1 DEF Conclude
<1>3. Core(dir', older') /\ debt' = debt /\ MoreFaults
  BY <1>1, <1>2, EnrollTurns
<1>4. known' \subseteq sent
  BY EnrollAwaits DEF EnrollKnownAttached, Types, EnrollTypeOK
<1>5. QED
  BY <1>1, <1>3, <1>4, EnrollConcludedKeeps DEF Conclude

LEMMA AnswerStoresKeeps ==
  ASSUME IInv, NEW usable \in BOOLEAN, EnrollAnswered(usable), NEW t, Fit(t),
         SameIdentity(erec, t), t \in Record,
         t # None, t.attempt = erec.attempt, t.kind = "enrollment", t.prior = None,
         Core(dir', older'), debt' = debt, MoreFaults, Keeps(t.attempt, dir', older'),
         Read(t, dir'), Trace(t.attempt, dir'), Mine(t, dir', older'),
         \A b : SafeIn(t.attempt, dir', older', b), t.state = "recoverable", t.reply = "usable",
         staged' = None, erec' = t, Start("store", "submission", FALSE, None)
  PROVE  IInv'
<1>1. Core(dir', older') /\ debt' = debt /\ MoreFaults
  OBVIOUS
<1>2. EnrollmentAsked
  BY EnrollAwaits DEF EnrollAnswered
<1>3. \A r \in Written(dir', older') : Known(r) /\ r.kind = "enrollment"
  <2>1. Mine(erec, dir', older')
    BY <1>1, <1>2 DEF Core, Enrolments, OfEnrolment
  <2>2. QED
    BY <1>1, <1>2, <2>1 DEF Core, World, Mine, SameIdentity
<1>4. steam' \in Prints \cup {None} /\ received' = {erec.attempt} /\ UNCHANGED <<sent, adopted>>
  BY <1>2, PrintsAssumption DEF Record, EnrollAnswered, Attaches
<1>5. \A r \in Written(dir', older') : Known(r)'
  BY <1>3, <1>4 DEF Known
<1>6. [step |-> "store", by |-> "submission", passphrase |-> FALSE, resolution |-> None] \in Job
  BY DEF Job, Resolutions
<1>7. /\ login' = "no" /\ enrollHolds' = FALSE /\ received' = {erec.attempt}
      /\ steam' \in Prints \cup {None}
      /\ staged' = None /\ erec' = t
      /\ job' # None /\ job' \in Job /\ job'.step = "store" /\ job'.by = "submission"
      /\ job'.passphrase = FALSE /\ job'.resolution = None
      /\ UNCHANGED <<transfer, vault, enrollOwed, sent, open, adopted, known, debt>>
  BY <1>1, <1>2, <1>3, <1>4, <1>5, <1>6, Started DEF EnrollAnswered, Released
<1>8. OfEnrolment(t, dir', older') /\ (enrollOwed # None => SameIdentity(t, enrollOwed))
  BY <1>2 DEF OfEnrolment, SameIdentity
<1>9. None \notin Resolutions /\ None \notin Record
  BY NoneAssumption
<1>10. RepliesKept(dir, older)'
  BY <1>2, <1>7 DEF RepliesKept
<1>11. World(dir, older)'
  BY <1>2, <1>4, <1>5, <1>7 DEF IInv, Inv, Core, World, RowKnown
<1> USE <1>1, <1>2, <1>3, <1>4, <1>5, <1>6, <1>7, <1>8, <1>9 DEF IInv, Inv, Core, At, Idle,
   Holding, Sealed, RowIs, Rows
<1>12. Types'
  <2>1. TransferTypeOK'
    BY DEF Types, TransferTypeOK
  <2>2. EnrollTypeOK'
    BY DEF Types, EnrollTypeOK
  <2>3. QED
    BY <2>1, <2>2 DEF Types, MoreFaults
<1>13. Transfers(dir, older)'
  BY DEF Transfers
<1>14. Enrolments(dir, older)'
  BY DEF Enrolments, OfEnrolment, SameIdentity
<1>15. Opened(dir, older)'
  BY DEF Opened
<1>16. Phases(dir, older)'
  BY DEF Phases, Awaits, EnrollSteps
<1>17. AtStep(dir)'
  BY DEF AtStep, Saving, Secured, Truth, Resolutions
<1>18. EnrollAtStep(dir)'
  BY DEF EnrollAtStep, Stowed, Secured, Resolutions
<1>19. QED
  BY <1>10, <1>11, <1>12, <1>13, <1>14, <1>15, <1>16, <1>17, <1>18

LEMMA AnswerKeptKeeps ==
  ASSUME IInv, NEW usable \in BOOLEAN, EnrollAnswered(usable), NEW t, Fit(t),
         SameIdentity(erec, t), t \in Record,
         t # None, t.attempt = erec.attempt, t.kind = "enrollment", t.prior = None,
         Core(dir', older'), debt' = debt, MoreFaults, Keeps(t.attempt, dir', older'),
         Trace(t.attempt, dir'), \A b : SafeIn(t.attempt, dir', older', b),
         staged' = None, erec' = None, UNCHANGED job
  PROVE  IInv'
<1>1. Core(dir', older') /\ debt' = debt /\ MoreFaults
  OBVIOUS
<1>2. EnrollmentAsked
  BY EnrollAwaits DEF EnrollAnswered
<1>3. \A r \in Written(dir', older') : Known(r) /\ r.kind = "enrollment"
  <2>1. Mine(erec, dir', older')
    BY <1>1, <1>2 DEF Core, Enrolments, OfEnrolment
  <2>2. QED
    BY <1>1, <1>2, <2>1 DEF Core, World, Mine, SameIdentity
<1>4. steam' \in Prints \cup {None} /\ received' = {erec.attempt} /\ UNCHANGED <<sent, adopted>>
  BY <1>2, PrintsAssumption DEF Record, EnrollAnswered, Attaches
<1>5. \A r \in Written(dir', older') : Known(r)'
  BY <1>3, <1>4 DEF Known
<1>6. /\ login' = "no" /\ enrollHolds' = FALSE /\ received' = {erec.attempt}
      /\ steam' \in Prints \cup {None}
      /\ staged' = None /\ erec' = None
      /\ UNCHANGED <<transfer, vault, job, enrollOwed, sent, open, adopted, known,
         debt>>
  BY <1>1, <1>2, <1>3, <1>4, <1>5 DEF EnrollAnswered, Released
<1>7. RepliesKept(dir, older)'
  BY <1>2, <1>6 DEF RepliesKept
<1>8. World(dir, older)'
  BY <1>2, <1>4, <1>5, <1>6 DEF IInv, Inv, Core, World, RowKnown
<1> USE <1>1, <1>2, <1>3, <1>4, <1>5, <1>6 DEF IInv, Inv, Core, At, Idle, Holding, Sealed,
   RowIs, Rows
<1>9. Types'
  <2>1. TransferTypeOK'
    BY DEF Types, TransferTypeOK
  <2>2. EnrollTypeOK'
    BY DEF Types, EnrollTypeOK
  <2>3. QED
    BY <2>1, <2>2 DEF Types, MoreFaults
<1>10. Transfers(dir, older)'
  BY DEF Transfers
<1>11. Enrolments(dir, older)'
  BY DEF Enrolments, OfEnrolment
<1>12. Opened(dir, older)'
  BY DEF Opened
<1>13. Phases(dir, older)'
  BY DEF Phases, Awaits, EnrollSteps
<1>14. AtStep(dir)'
  BY DEF AtStep, Saving, Secured, Truth, Resolutions
<1>15. EnrollAtStep(dir)'
  BY DEF EnrollAtStep, Stowed, Secured, Resolutions
<1>16. QED
  BY <1>7, <1>8, <1>9, <1>10, <1>11, <1>12, <1>13, <1>14, <1>15

LEMMA AnswerHeldKeeps ==
  ASSUME IInv, NEW usable \in BOOLEAN, EnrollAnswered(usable), NEW t, Fit(t),
         SameIdentity(erec, t), t \in Record,
         t # None, t.attempt = erec.attempt, t.kind = "enrollment", t.prior = None,
         Core(dir', older'), debt' = debt, MoreFaults, Keeps(t.attempt, dir', older'),
         Heard(dir'), t.reply # "none",
         staged' = [attempt |-> erec.attempt, usable |-> usable], erec' = t,
         Start("peek", "submission", FALSE, None)
  PROVE  IInv'
<1>1. Core(dir', older') /\ debt' = debt /\ MoreFaults
  OBVIOUS
<1>2. EnrollmentAsked
  BY EnrollAwaits DEF EnrollAnswered
<1>3. \A r \in Written(dir', older') : Known(r) /\ r.kind = "enrollment"
  <2>1. Mine(erec, dir', older')
    BY <1>1, <1>2 DEF Core, Enrolments, OfEnrolment
  <2>2. QED
    BY <1>1, <1>2, <2>1 DEF Core, World, Mine, SameIdentity
<1>4. steam' \in Prints \cup {None} /\ received' = {erec.attempt} /\ UNCHANGED <<sent, adopted>>
  BY <1>2, PrintsAssumption DEF Record, EnrollAnswered, Attaches
<1>5. \A r \in Written(dir', older') : Known(r)'
  BY <1>3, <1>4 DEF Known
<1>6. [step |-> "peek", by |-> "submission", passphrase |-> FALSE, resolution |-> None] \in Job
  BY DEF Job, Resolutions
<1>7. staged' \in Reply /\ staged' # None /\ staged'.attempt = erec.attempt
  <2>1. staged' = [attempt |-> erec.attempt, usable |-> usable]
    OBVIOUS
  <2>2. staged' \in Reply /\ staged'.attempt = erec.attempt
    BY <1>2, <2>1 DEF Reply, Record
  <2>3. QED
    BY <2>2, ReplyAssumption
<1>8. Enrols(erec.attempt, dir', older')
  BY <1>1, <1>2 DEF Core, Enrolments, OfEnrolment, Mine, Enrols, SameIdentity
<1>9. /\ login' = "no" /\ enrollHolds' = FALSE /\ received' = {erec.attempt}
      /\ steam' \in Prints \cup {None}
      /\ staged' \in Reply /\ erec' = t
      /\ job' # None /\ job' \in Job /\ job'.step = "peek" /\ job'.by = "submission"
      /\ job'.passphrase = FALSE /\ job'.resolution = None
      /\ UNCHANGED <<transfer, vault, enrollOwed, sent, open, adopted, known, debt>>
  BY <1>1, <1>2, <1>3, <1>4, <1>5, <1>6, <1>7, <1>8, Started DEF EnrollAnswered, Released
<1>10. OfEnrolment(t, dir', older') /\ (enrollOwed # None => SameIdentity(t, enrollOwed))
  BY <1>1, <1>2 DEF Core, Enrolments, OfEnrolment, Mine, SameIdentity
<1>11. None \notin Resolutions /\ None \notin Record
  BY NoneAssumption
<1>12. Trace(erec.attempt, dir') \/ enrollOwed # None
  BY <1>1, <1>2 DEF Core, Opened, At
<1>13. RepliesKept(dir, older)'
  BY <1>2, <1>7, <1>9 DEF RepliesKept, Held, RowIs, Rows
<1>14. World(dir, older)'
  BY <1>2, <1>4, <1>5, <1>7, <1>9 DEF IInv, Inv, Core, World, RowKnown
<1> USE <1>1, <1>2, <1>3, <1>4, <1>5, <1>6, <1>7, <1>8, <1>9, <1>10, <1>11, <1>12 DEF
   IInv, Inv, Core, At, Idle, Holding, Sealed, RowIs, Rows
<1>15. Types'
  <2>1. TransferTypeOK'
    BY DEF Types, TransferTypeOK
  <2>2. EnrollTypeOK'
    BY DEF Types, EnrollTypeOK
  <2>3. QED
    BY <2>1, <2>2 DEF Types, MoreFaults
<1>16. Transfers(dir, older)'
  BY DEF Transfers
<1>17. Enrolments(dir, older)'
  BY DEF Enrolments, OfEnrolment, SameIdentity
<1>18. Opened(dir, older)'
  BY DEF Opened
<1>19. Phases(dir, older)'
  BY DEF Phases, Awaits, EnrollSteps
<1>20. AtStep(dir)'
  BY DEF AtStep, Saving, Secured, Truth, Resolutions
<1>21. EnrollAtStep(dir)'
  BY DEF EnrollAtStep, Stowed, Secured, Resolutions
<1>22. QED
  BY <1>13, <1>14, <1>15, <1>16, <1>17, <1>18, <1>19, <1>20, <1>21

LEMMA EnrollAnsweredKeeps ==
  ASSUME IInv, NEW usable \in BOOLEAN, EnrollAnswered(usable)
  PROVE  IInv'
<1> DEFINE t == Kept(erec, usable)
<1>1. PICK x \in Updates(t) :
        /\ Happens(x)
        /\ staged' = IF x.ok THEN None ELSE [attempt |-> erec.attempt, usable |-> usable]
        /\ IF x.ok /\ ~usable THEN erec' = None /\ UNCHANGED job
           ELSE /\ erec' = t
                /\ Start(IF x.ok THEN "store" ELSE "peek", "submission", FALSE, None)
  BY DEF EnrollAnswered
<1>2. PICK state \in {"recoverable", "unreadable"}, reply \in {"usable", "unusable"} :
        /\ t = Turned(erec, state, reply)
        /\ usable => state = "recoverable" /\ reply = "usable"
        /\ ~usable => state = "unreadable" /\ reply = "unusable"
  BY DEF Kept
<1>3. /\ Fit(t) /\ SameIdentity(erec, t) /\ t \in Record /\ t # None /\ t.attempt = erec.attempt
      /\ t.kind = "enrollment" /\ t.prior = None
      /\ t.state = state /\ t.reply = reply /\ t.reply # "none"
      /\ Core(dir', older') /\ debt' = debt /\ MoreFaults /\ x.ok \in BOOLEAN
      /\ x.ok => /\ Read(t, dir') /\ Trace(t.attempt, dir') /\ Mine(t, dir', older')
                 /\ \A b : SafeIn(t.attempt, dir', older', b)
      /\ Heard(dir') /\ Keeps(t.attempt, dir', older')
  BY <1>1, <1>2, EnrollTurns DEF EnrollAnswered
<1>4. CASE x.ok /\ usable
  BY <1>1, <1>2, <1>3, <1>4, AnswerStoresKeeps
<1>5. CASE x.ok /\ ~usable
  BY <1>1, <1>3, <1>5, AnswerKeptKeeps
<1>6. CASE ~x.ok
  BY <1>1, <1>3, <1>6, AnswerHeldKeeps
<1>7. QED
  BY <1>4, <1>5, <1>6

-----------------------------------------------------------------------------
(* What the user asks of an enrolment.                                     *)

(* No other work goes on beside the record of an enrolment.                *)

LEMMA EnrollFound ==
  ASSUME NEW d, NEW o, Inv(d, o), Idle, login # "asked", NEW r, r \in Recs(d),
         r.kind = "enrollment"
  PROVE  /\ EnrollmentKept(r, d, o)
<1>1. /\ Types /\ Core(d, o) /\ Phases(d, o) /\ job = None /\ Sound(d, o) /\ Idle
      /\ login # "asked"
  BY DEF Inv, Core, Idle
<1>2. /\ r \in Written(d, o) /\ Fit(r) /\ r \in Record /\ r # None /\ r.prior = None
      /\ r.kind = "enrollment" /\ (r.reply # "none" => r.attempt \in sent) /\ Mine(r, d, o)
  <2>1. r \in Written(d, o)
    BY WrittenBy
  <2>2. Fit(r) /\ Known(r) /\ Mine(r, d, o)
    BY <1>1, <2>1 DEF Core, Sound, World, Mine
  <2>3. QED
    BY <2>1, <2>2, NoneAssumption DEF Fit, Known
<1>3. /\ (staged # None => staged.attempt = r.attempt)
      /\ (enrollOwed # None => SameIdentity(enrollOwed, r))
      /\ open \subseteq {r.attempt}
  BY <1>1, <1>2 DEF Core, Enrolments, OfEnrolment, Mine, Enrols, Opened, Opens
<1>4. (wf # None => SameIdentity(wf, r) /\ wf.kind = "transfer") => wf = None
  BY <1>2 DEF SameIdentity
<1>9. wf # None => SameIdentity(wf, r) /\ wf.kind = "transfer"
  BY <1>1, <1>2 DEF Core, Transfers, Mine
<1>5. wf = None
  BY <1>4, <1>9
<1>6. /\ owed = None /\ ~Holding /\ proving = None /\ resolving = None
      /\ phase \in {"no", "routing", "minting"}
  BY <1>1, <1>5 DEF Core, Transfers
<1>7. phase = "no"
  BY <1>1, <1>6 DEF Phases, Blank, Recs
<1>8. unsaved = FALSE /\ badHeld = FALSE /\ erec = None
  BY <1>1, <1>6 DEF Holding, Types, TransferTypeOK, Phases, At, Idle
<1>10. QED
  BY <1>1, <1>2, <1>3, <1>5, <1>6, <1>7, <1>8 DEF OfEnrolment, SameIdentity, Types

LEMMA EnrollOwing ==
  ASSUME NEW d, NEW o, Inv(d, o), Idle, login # "asked", enrollOwed # None
  PROVE  /\ EnrollmentKept(enrollOwed, d, o)
<1>1. /\ Types /\ Core(d, o) /\ Phases(d, o) /\ job = None /\ Sound(d, o) /\ Idle
      /\ login # "asked"
  BY DEF Inv, Core, Idle
<1>2. /\ OfEnrolment(enrollOwed, d, o)
      /\ (enrollOwed.reply # "none" => enrollOwed.attempt \in sent)
  BY <1>1 DEF Core, Enrolments, World
<1>3. /\ Fit(enrollOwed) /\ enrollOwed \in Record /\ enrollOwed # None
      /\ enrollOwed.prior = None /\ enrollOwed.kind = "enrollment"
      /\ Mine(enrollOwed, d, o) /\ open \subseteq {enrollOwed.attempt}
      /\ (staged # None => staged.attempt = enrollOwed.attempt)
  BY <1>1, <1>2 DEF OfEnrolment, Fit, Core, Enrolments
<1>4. wf = None
  BY <1>1 DEF Core, Transfers
<1>5. /\ owed = None /\ ~Holding /\ proving = None /\ resolving = None
      /\ phase \in {"no", "routing", "minting"}
  BY <1>1, <1>4 DEF Core, Transfers
<1>6. phase = "no"
  BY <1>1, <1>5 DEF Phases
<1>7. unsaved = FALSE /\ badHeld = FALSE /\ erec = None
  BY <1>1, <1>5 DEF Holding, Types, TransferTypeOK, Phases, At, Idle
<1>8. QED
  BY <1>1, <1>2, <1>3, <1>4, <1>5, <1>6, <1>7 DEF SameIdentity, Types

LEMMA RetryFoundKeeps ==
  ASSUME IInv, Idle, login # "asked", enrollHolds = FALSE, Inv(dir', older'),
         UNCHANGED <<debt, faults>>,
         dir'.staged = {}, ~dir'.torn, NEW r, r \in dir'.files, r.kind = "enrollment",
         r.state = "recoverable",
         erec' = r, staged' = Restaged(r), Start("store", "recovery", FALSE, None),
         UNCHANGED <<login, known, transfer, vault, world>>
  PROVE  IInv'
<1>1. Inv(dir', older') /\ UNCHANGED <<debt, faults>> /\ enrollHolds = FALSE
  OBVIOUS
<1>2. EnrollmentKept(r, dir', older')
  <2>1. r \in Recs(dir')
    BY DEF Recs
  <2>2. QED
    BY <1>1, <2>1, EnrollFound
<1>3. r.reply = "usable" /\ Read(r, dir') /\ Has(r.attempt, dir')
  <2>1. \A f \in dir'.files : f = r
    BY <1>1 DEF Inv, Core, Sound, Single
  <2>2. r.reply = "usable"
    BY <1>2 DEF Fit
  <2>3. QED
    BY <2>1, <2>2 DEF Read, Has, Recs
<1>4. staged' = None
  BY <1>2, <1>3 DEF Restaged, Theirs
<1>5. \A n \in received : SafeIn(n, dir', older', RowIs(n)) /\ Keeps(n, dir', older')
  <2>1. SUFFICES ASSUME NEW n \in received PROVE SafeIn(n, dir', older', RowIs(n)) /\ Keeps(n, dir', older')
    OBVIOUS
  <2>2. n = r.attempt /\ Keeps(n, dir', older')
    BY <1>1, <1>2 DEF Inv, Core, RepliesKept
  <2>3. \A e \in {dir'} \cup older' : Has(n, e)
    BY <1>3, <2>2 DEF Keeps
  <2>4. QED
    BY <2>2, <2>3 DEF SafeIn
<1>6. [step |-> "store", by |-> "recovery", passphrase |-> FALSE, resolution |-> None] \in Job
  BY DEF Job, Resolutions
<1>7. /\ erec' = r /\ staged' = None
      /\ job' # None /\ job' \in Job /\ job'.step = "store" /\ job'.by = "recovery"
      /\ job'.passphrase = FALSE /\ job'.resolution = None
      /\ UNCHANGED <<transfer, vault, world, login, known, debt, faults>>
  BY <1>1, <1>2, <1>3, <1>4, <1>5, <1>6, Started
<1>8. None \notin Resolutions /\ None \notin Record
  BY NoneAssumption
<1>9. RepliesKept(dir, older)'
  BY <1>5, <1>7 DEF RepliesKept, RowIs, Rows
<1> USE <1>1, <1>2, <1>3, <1>4, <1>5, <1>6, <1>7, <1>8 DEF IInv, Inv, Core, At, Idle,
   Holding, Sealed, RowIs, Rows
<1>10. Types'
  <2>1. TransferTypeOK'
    BY DEF Types, TransferTypeOK
  <2>2. EnrollTypeOK'
    BY DEF Types, EnrollTypeOK
  <2>3. QED
    BY <2>1, <2>2 DEF Types, MoreFaults
<1>11. Transfers(dir, older)'
  BY DEF Transfers
<1>12. Enrolments(dir, older)'
  BY DEF Enrolments, OfEnrolment
<1>13. Opened(dir, older)'
  BY DEF Opened
<1>14. World(dir, older)'
  BY DEF World, Known, Superseded, RowKnown
<1>15. Phases(dir, older)'
  BY DEF Phases, Awaits, EnrollSteps
<1>16. AtStep(dir)'
  BY DEF AtStep, Saving, Secured, Truth, Resolutions
<1>17. EnrollAtStep(dir)'
  BY DEF EnrollAtStep, Stowed, Secured, Resolutions
<1>18. QED
  BY <1>9, <1>10, <1>11, <1>12, <1>13, <1>14, <1>15, <1>16, <1>17

LEMMA RetrySealsKeeps ==
  ASSUME IInv, Idle, login # "asked", enrollHolds = FALSE, NEW r, r \in Recs(dir),
         r.kind = "enrollment",
         Theirs(r), NEW t, Fit(t), SameIdentity(r, t), t.attempt = r.attempt,
         t.kind = "enrollment", t.prior = None, t \in Record,
         t # None, t.reply # "none", Core(dir', older'), debt' = debt, MoreFaults,
         t.attempt \in sent,
         UNCHANGED <<login, known, transfer, vault, world>>,
         Read(t, dir'), Trace(t.attempt, dir'), Mine(t, dir', older'),
         Keeps(t.attempt, dir', older'), \A b : SafeIn(t.attempt, dir', older', b),
         staged' = None,
         t.state = "recoverable", t.reply = "usable", erec' = t,
         Start("store", "recovery", FALSE, None)
  PROVE  IInv'
<1>1. Core(dir', older') /\ debt' = debt /\ MoreFaults /\ enrollHolds = FALSE
  OBVIOUS
<1>2. EnrollmentKept(r, dir, older)
  BY EnrollFound DEF IInv
<1>3. [step |-> "store", by |-> "recovery", passphrase |-> FALSE, resolution |-> None] \in Job
  BY DEF Job, Resolutions
<1>4. /\ erec' = t /\ staged' = None
      /\ job' # None /\ job' \in Job /\ job'.step = "store" /\ job'.by = "recovery"
      /\ job'.passphrase = FALSE /\ job'.resolution = None
      /\ UNCHANGED <<transfer, vault, world, login, known, debt>>
  BY <1>1, <1>2, <1>3, Started
<1>5. OfEnrolment(t, dir', older') /\ (enrollOwed # None => SameIdentity(t, enrollOwed))
  BY <1>2 DEF OfEnrolment, SameIdentity
<1>6. None \notin Resolutions /\ None \notin Record
  BY NoneAssumption
<1>7. RepliesKept(dir, older)'
  BY <1>2, <1>4 DEF RepliesKept
<1> USE <1>1, <1>2, <1>3, <1>4, <1>5, <1>6 DEF IInv, Inv, Core, At, Idle, Holding, Sealed,
   RowIs, Rows
<1>8. Types'
  <2>1. TransferTypeOK'
    BY DEF Types, TransferTypeOK
  <2>2. EnrollTypeOK'
    BY DEF Types, EnrollTypeOK
  <2>3. QED
    BY <2>1, <2>2 DEF Types, MoreFaults
<1>9. Transfers(dir, older)'
  BY DEF Transfers
<1>10. Enrolments(dir, older)'
  BY DEF Enrolments, OfEnrolment
<1>11. Opened(dir, older)'
  BY DEF Opened
<1>12. World(dir, older)'
  BY DEF World, Known, Superseded, RowKnown
<1>13. Phases(dir, older)'
  BY DEF Phases, Awaits, EnrollSteps
<1>14. AtStep(dir)'
  BY DEF AtStep, Saving, Secured, Truth, Resolutions
<1>15. EnrollAtStep(dir)'
  BY DEF EnrollAtStep, Stowed, Secured, Resolutions
<1>16. QED
  BY <1>7, <1>8, <1>9, <1>10, <1>11, <1>12, <1>13, <1>14, <1>15

LEMMA RetryKeepsKeeps ==
  ASSUME IInv, Idle, login # "asked", enrollHolds = FALSE, NEW r, r \in Recs(dir),
         r.kind = "enrollment",
         Theirs(r), NEW t, Fit(t), SameIdentity(r, t), t.attempt = r.attempt,
         t.kind = "enrollment", t.prior = None, t \in Record,
         t # None, t.reply # "none", Core(dir', older'), debt' = debt, MoreFaults,
         t.attempt \in sent,
         UNCHANGED <<login, known, transfer, vault, world>>,
         Read(t, dir'), Trace(t.attempt, dir'), Mine(t, dir', older'),
         Keeps(t.attempt, dir', older'), \A b : SafeIn(t.attempt, dir', older', b),
         staged' = None,
         UNCHANGED <<erec, job>>
  PROVE  IInv'
<1>1. Core(dir', older') /\ debt' = debt /\ MoreFaults /\ enrollHolds = FALSE
  OBVIOUS
<1>2. EnrollmentKept(r, dir, older)
  BY EnrollFound DEF IInv
<1>3. /\ staged' = None
      /\ UNCHANGED <<transfer, vault, world, job, login, erec, known, debt>>
  BY <1>1, <1>2
<1>4. RepliesKept(dir, older)'
  BY <1>2, <1>3 DEF RepliesKept
<1> USE <1>1, <1>2, <1>3 DEF IInv, Inv, Core, At, Idle, Holding, Sealed, RowIs, Rows
<1>5. Types'
  <2>1. TransferTypeOK'
    BY DEF Types, TransferTypeOK
  <2>2. EnrollTypeOK'
    BY DEF Types, EnrollTypeOK
  <2>3. QED
    BY <2>1, <2>2 DEF Types, MoreFaults
<1>6. Transfers(dir, older)'
  BY DEF Transfers
<1>7. Enrolments(dir, older)'
  BY DEF Enrolments, OfEnrolment
<1>8. Opened(dir, older)'
  BY DEF Opened
<1>9. World(dir, older)'
  BY DEF World, Known, Superseded, RowKnown
<1>10. Phases(dir, older)'
  BY DEF Phases, Awaits, EnrollSteps
<1>11. AtStep(dir)'
  BY DEF AtStep, Saving, Secured, Truth, Resolutions
<1>12. EnrollAtStep(dir)'
  BY DEF EnrollAtStep, Stowed, Secured, Resolutions
<1>13. QED
  BY <1>4, <1>5, <1>6, <1>7, <1>8, <1>9, <1>10, <1>11, <1>12

LEMMA RetryFailsKeeps ==
  ASSUME IInv, Idle, login # "asked", enrollHolds = FALSE, NEW r, r \in Recs(dir),
         r.kind = "enrollment",
         Theirs(r), NEW t, Fit(t), SameIdentity(r, t), t.attempt = r.attempt,
         t.kind = "enrollment", t.prior = None, t \in Record,
         t # None, t.reply # "none", Core(dir', older'), debt' = debt, MoreFaults,
         t.attempt \in sent,
         UNCHANGED <<login, known, transfer, vault, world>>,
         UNCHANGED <<erec, job, staged>>
  PROVE  IInv'
<1>1. Core(dir', older') /\ debt' = debt /\ MoreFaults /\ enrollHolds = FALSE
  OBVIOUS
<1>2. EnrollmentKept(r, dir, older)
  BY EnrollFound DEF IInv
<1>3. /\ login' # "asked"
      /\ UNCHANGED <<transfer, vault, world, enrollment, job, debt>>
  BY <1>1, <1>2
<1> USE <1>1, <1>2, <1>3 DEF IInv, Inv, Core, At, Idle, Holding, Sealed, RowIs, Rows
<1>4. Types'
  <2>1. TransferTypeOK'
    BY DEF Types, TransferTypeOK
  <2>2. EnrollTypeOK'
    BY DEF Types, EnrollTypeOK
  <2>3. QED
    BY <2>1, <2>2 DEF Types, MoreFaults
<1>5. Transfers(dir, older)'
  BY DEF Transfers
<1>6. Enrolments(dir, older)'
  BY DEF Enrolments, OfEnrolment
<1>7. Opened(dir, older)'
  BY DEF Opened
<1>8. RepliesKept(dir, older)'
  BY DEF RepliesKept, Held
<1>9. World(dir, older)'
  BY DEF World, Known, Superseded, RowKnown
<1>10. Phases(dir, older)'
  BY DEF Phases, Awaits, EnrollSteps
<1>11. AtStep(dir)'
  BY DEF AtStep, Saving, Secured, Truth, Resolutions
<1>12. EnrollAtStep(dir)'
  BY DEF EnrollAtStep, Stowed, Secured, Resolutions
<1>13. QED
  BY <1>4, <1>5, <1>6, <1>7, <1>8, <1>9, <1>10, <1>11, <1>12

LEMMA RetryWritesKeeps ==
  ASSUME IInv, EnrollRetry, NEW r \in Found("enrollment"),
         r.state \notin {"recoverable", "unreadable"}, Theirs(r),
         NEW x \in Updates(Kept(r, staged.usable)), Happens(x),
         staged' = (IF x.ok THEN None ELSE staged),
         IF x.ok /\ staged.usable
         THEN erec' = Kept(r, TRUE) /\ Start("store", "recovery", FALSE, None)
         ELSE UNCHANGED <<erec, job>>
  PROVE  IInv'
<1> DEFINE t == Kept(r, staged.usable)
<1>1. /\ Idle /\ login # "asked" /\ enrollHolds = FALSE /\ Reconcilable(dir)
      /\ UNCHANGED <<login, known, transfer, vault, world>>
  BY TypesHold DEF EnrollRetry, Busy, Reservable, SteamOperation, Types, EnrollTypeOK
<1>2. /\ r \in Merged(dir).files /\ r.kind = "enrollment" /\ r \in Recs(dir)
      /\ Sound(dir, older)
      /\ \A f \in Merged(dir).files : f = r
  <2>1. r \in Merged(dir).files /\ r.kind = "enrollment"
    BY DEF Found
  <2>2. Sound(dir, older) /\ Single(dir) /\ \A q \in Recs(dir) : Fit(q)
    BY WrittenBy DEF IInv, Inv, Core, Sound
  <2>3. Single(Merged(dir)) /\ Recs(Merged(dir)) \subseteq Recs(dir)
    BY <1>1, <2>2, MergedSound
  <2>4. QED
    BY <2>1, <2>2, <2>3 DEF Single, Recs
<1>3. EnrollmentKept(r, dir, older)
  BY <1>1, <1>2, EnrollFound DEF IInv
<1>4. /\ staged # None /\ staged \in Reply /\ staged.usable \in BOOLEAN /\ r.attempt \in sent
      /\ Heard(dir)
  BY <1>3 DEF Theirs, Types, EnrollTypeOK, Reply, IInv, Inv, Core, World, Enrolments
<1>5. r.state = "sending" /\ r.reply = "none"
  BY <1>2, <1>3, <1>4 DEF Heard, Fit, Record, EnrollmentStates
<1>6. PICK state \in {"recoverable", "unreadable"}, reply \in {"usable", "unusable"} :
        /\ t = Turned(r, state, reply)
        /\ staged.usable => state = "recoverable" /\ reply = "usable"
        /\ ~staged.usable => state = "unreadable" /\ reply = "unusable"
  BY DEF Kept
<1>7. /\ Fit(t) /\ SameIdentity(r, t) /\ t \in Record /\ t # None /\ t.attempt = r.attempt
      /\ t.kind = "enrollment" /\ t.prior = None /\ t.state = state /\ t.reply = reply
  <2>1. r.kind # "transfer" /\ state \in EnrollmentStates
    BY <1>2 DEF EnrollmentStates
  <2>2. /\ (reply = "usable" <=> state \in {"replacement", "recoverable"})
        /\ (reply = "unusable" => state = "unreadable")
    BY <1>4, <1>6
  <2>3. QED
    BY <1>3, <1>6, <2>1, <2>2, TurnedIs
<1>8. Known(t) /\ Follows(r, t) /\ t.state # "sending" /\ t.reply # "none"
  BY <1>3, <1>4, <1>5, <1>6, <1>7, PrintsAssumption, NoneAssumption DEF Known, Follows
<1>9. /\ Core(dir', older') /\ debt' = debt /\ MoreFaults /\ x.ok \in BOOLEAN
      /\ x.ok => /\ Read(t, dir') /\ Trace(t.attempt, dir') /\ Mine(t, dir', older')
                 /\ t.reply # "none" => \A b : SafeIn(t.attempt, dir', older', b)
                 /\ Keeps(t.attempt, dir', older')
  BY <1>2, <1>3, <1>4, <1>6, <1>7, <1>8, EnrollWrites
<1>10. CASE x.ok /\ staged.usable
  <2>1. Kept(r, TRUE) = t
    BY <1>10 DEF Kept
  <2>2. QED
    BY <1>1, <1>2, <1>4, <1>6, <1>7, <1>8, <1>9, <1>10, <2>1, RetrySealsKeeps
<1>11. CASE x.ok /\ ~staged.usable
  BY <1>1, <1>2, <1>4, <1>7, <1>8, <1>9, <1>11, RetryKeepsKeeps
<1>12. CASE ~x.ok
  BY <1>1, <1>2, <1>4, <1>7, <1>8, <1>9, <1>12, RetryFailsKeeps
<1>13. QED
  BY <1>10, <1>11, <1>12

LEMMA EnrollRetryKeeps ==
  ASSUME IInv, EnrollRetry
  PROVE  IInv'
<1>1. PICK r \in Found("enrollment") :
        \/ /\ r.state = "recoverable" /\ ReadsWell
           /\ erec' = r /\ staged' = Restaged(r)
           /\ Start("store", "recovery", FALSE, None)
        \/ /\ r.state \notin {"recoverable", "unreadable"} /\ Theirs(r)
           /\ \E x \in Updates(Kept(r, staged.usable)) :
                /\ Happens(x)
                /\ staged' = IF x.ok THEN None ELSE staged
                /\ IF x.ok /\ staged.usable
                   THEN erec' = Kept(r, TRUE) /\ Start("store", "recovery", FALSE, None)
                   ELSE UNCHANGED <<erec, job>>
  BY DEF EnrollRetry
<1>2. /\ Idle /\ login # "asked" /\ enrollHolds = FALSE
      /\ UNCHANGED <<login, known, transfer, vault, world>>
  BY TypesHold DEF EnrollRetry, Busy, Reservable, SteamOperation, Types, EnrollTypeOK
<1>3. CASE /\ r.state = "recoverable" /\ ReadsWell
           /\ erec' = r /\ staged' = Restaged(r)
           /\ Start("store", "recovery", FALSE, None)
  <2>1. /\ Inv(dir', older') /\ dir' = Merged(dir) /\ dir'.staged = {} /\ ~dir'.torn
        /\ UNCHANGED <<debt, faults>>
    BY <1>3, ReadsWellKeeps
  <2>2. r \in dir'.files /\ r.kind = "enrollment"
    BY <2>1 DEF Found
  <2>3. QED
    BY <1>2, <1>3, <2>1, <2>2, RetryFoundKeeps
<1>4. CASE /\ r.state \notin {"recoverable", "unreadable"} /\ Theirs(r)
           /\ \E x \in Updates(Kept(r, staged.usable)) :
                /\ Happens(x)
                /\ staged' = IF x.ok THEN None ELSE staged
                /\ IF x.ok /\ staged.usable
                   THEN erec' = Kept(r, TRUE) /\ Start("store", "recovery", FALSE, None)
                   ELSE UNCHANGED <<erec, job>>
  BY <1>4, RetryWritesKeeps
<1>5. QED
  BY <1>1, <1>3, <1>4

LEMMA ResolvingKeeps ==
  ASSUME IInv, NEW resolution \in {"notAttached", "storedHere", "resolvedOutsideApp"},
         EnrollResolve(resolution), Inv(dir', older'), UNCHANGED <<debt, faults>>, NEW r,
         Permitted(r, TRUE, resolution) \/ Permitted(r, FALSE, resolution),
         Read(r, dir'), erec' = r, staged' = Restaged(r),
         Start("erase", "resolution", FALSE, resolution),
         IF resolution # "storedHere" THEN Settle(r.attempt) ELSE UNCHANGED <<open, received>>,
         /\ EnrollmentKept(r, dir', older')
  PROVE  IInv'
<1>1. Inv(dir', older') /\ UNCHANGED <<debt, faults>> /\ Idle /\ login # "asked" /\ enrollHolds = FALSE
  BY DEF EnrollResolve, Busy, Inv, Phases, Types, EnrollTypeOK
<1>2. EnrollmentKept(r, dir', older')
  OBVIOUS
<1>3. staged' \in {None, staged}
  BY DEF Restaged
<1>4. /\ open' \subseteq open /\ received' \subseteq received /\ received' \subseteq open'
      /\ (resolution # "storedHere" => open' = {} /\ received' = {})
  BY <1>2 DEF Settle, Types
<1>5. resolution = "storedHere" => RowIs(r.attempt)
  BY DEF Permitted, StoredHere, RowIs, Rows
<1>6. [step |-> "erase", by |-> "resolution", passphrase |-> FALSE, resolution |-> resolution] \in Job
  BY DEF Job, Resolutions
<1>7. /\ erec' = r
      /\ job' # None /\ job' \in Job /\ job'.step = "erase" /\ job'.by = "resolution"
      /\ job'.passphrase = FALSE /\ job'.resolution = resolution
      /\ UNCHANGED <<transfer, vault, enrolment, steam, sent, adopted, login, known,
         debt, faults>>
  BY <1>1, <1>2, <1>3, <1>4, <1>5, <1>6, Started DEF EnrollResolve
<1>8. None \notin Resolutions /\ None \notin Record
  BY NoneAssumption
<1>9. RepliesKept(dir, older)'
  <2>1. SUFFICES ASSUME NEW n \in received'
                 PROVE  SafeIn(n, dir', older', RowIs(n)') /\ Keeps(n, dir', older')
    BY DEF RepliesKept
  <2>2. resolution = "storedHere" /\ n \in received /\ n = r.attempt
    BY <1>2, <1>4
  <2>3. RowIs(n) /\ SafeIn(n, dir', older', RowIs(n)) /\ Keeps(n, dir', older')
    BY <1>1, <1>5, <2>2 DEF Inv, Core, RepliesKept
  <2>4. RowIs(n)' = RowIs(n)
    BY <1>7 DEF RowIs, Rows
  <2>5. QED
    BY <2>3, <2>4
<1> USE <1>1, <1>2, <1>3, <1>4, <1>5, <1>6, <1>7, <1>8 DEF IInv, Inv, Core, At, Idle,
   Holding, Sealed, RowIs, Rows
<1>10. Types'
  <2>1. TransferTypeOK'
    BY DEF Types, TransferTypeOK
  <2>2. EnrollTypeOK'
    BY DEF Types, EnrollTypeOK
  <2>3. QED
    BY <2>1, <2>2 DEF Types, MoreFaults
<1>11. Transfers(dir, older)'
  BY DEF Transfers
<1>12. Enrolments(dir, older)'
  BY DEF Enrolments, OfEnrolment
<1>13. Opened(dir, older)'
  BY DEF Opened
<1>14. World(dir, older)'
  BY DEF World, Known, Superseded, RowKnown
<1>15. Phases(dir, older)'
  BY DEF Phases, Awaits, EnrollSteps
<1>16. AtStep(dir)'
  BY DEF AtStep, Saving, Secured, Truth, Resolutions
<1>17. EnrollAtStep(dir)'
  BY DEF EnrollAtStep, Stowed, Secured, Resolutions
<1>18. QED
  BY <1>9, <1>10, <1>11, <1>12, <1>13, <1>14, <1>15, <1>16, <1>17

LEMMA EnrollResolveKeeps ==
  ASSUME IInv, NEW resolution \in {"notAttached", "storedHere", "resolvedOutsideApp"},
         EnrollResolve(resolution)
  PROVE  IInv'
<1> DEFINE found == Found("enrollment")
<1>1. /\ Idle /\ login # "asked" /\ ReadsWell
  BY DEF EnrollResolve, Busy
<1>2. PICK r \in IF found # {} THEN found ELSE {enrollOwed} \ {None} :
        /\ Permitted(r, found # {}, resolution)
        /\ erec' = r /\ staged' = Restaged(r)
        /\ Start("erase", "resolution", FALSE, resolution)
        /\ IF resolution # "storedHere" THEN Settle(r.attempt)
           ELSE UNCHANGED <<open, received>>
  BY DEF EnrollResolve
<1>3. /\ Inv(dir', older') /\ dir' = Merged(dir) /\ dir'.staged = {} /\ ~dir'.torn
      /\ UNCHANGED <<debt, faults>>
  BY <1>1, ReadsWellKeeps
<1>4. Permitted(r, TRUE, resolution) \/ Permitted(r, FALSE, resolution)
  <2>1. CASE found # {}
    <3>1. (found # {}) = TRUE
      BY <2>1
    <3>2. QED
      BY <1>2, <3>1
  <2>2. CASE found = {}
    <3>1. (found # {}) = FALSE
      BY <2>2
    <3>2. QED
      BY <1>2, <3>1
  <2>3. QED
    BY <2>1, <2>2
<1>5. CASE found # {}
  <2>1. r \in dir'.files /\ r \in Recs(dir') /\ r.kind = "enrollment"
    BY <1>2, <1>3, <1>5 DEF Found, Recs
  <2>2. EnrollmentKept(r, dir', older')
    BY <1>1, <1>3, <2>1, EnrollFound
  <2>3. Read(r, dir')
    BY <1>3, <2>1 DEF Inv, Core, Sound, Single, Read
  <2>4. QED
    BY <1>2, <1>3, <1>4, <2>2, <2>3, ResolvingKeeps
<1>6. CASE found = {}
  <2>1. r = enrollOwed /\ r # None
    BY <1>2, <1>6
  <2>2. EnrollmentKept(r, dir', older')
    <3>1. Inv(dir', older') /\ Idle /\ login # "asked" /\ r = enrollOwed /\ r # None
      BY <1>1, <1>3, <2>1
    <3>2. QED
      BY ONLY <3>1, Zenon, EnrollOwing
  <2>3. dir'.files = {}
    <3>1. SUFFICES ASSUME NEW f \in dir'.files PROVE FALSE
      OBVIOUS
    <3>2. f \in Written(dir', older')
      BY WrittenBy DEF Recs
    <3>3. f.kind = "enrollment"
      BY <2>2, <3>2 DEF Mine, SameIdentity
    <3>4. QED
      BY <1>3, <1>6, <3>3 DEF Found
  <2>4. Read(r, dir')
    BY <1>3, <2>3 DEF Read
  <2>5. QED
    BY <1>2, <1>3, <1>4, <2>2, <2>4, ResolvingKeeps
<1>7. QED
  BY <1>5, <1>6

-----------------------------------------------------------------------------
(* The rest of the program, and the world.                                 *)

(* Nobody is at work when the coordinator can be reserved.                 *)

LEMMA Reserved ==
  ASSUME IInv, Idle, Reservable
  PROVE  /\ Types /\ job = None /\ erec = None /\ phase = "no" /\ recovering = FALSE
         /\ proving = None /\ resolving = None /\ login # "asked" /\ enrollHolds = FALSE
<1>1. Types /\ Phases(dir, older) /\ job = None
  BY DEF IInv, Inv, Idle
<1>2. phase = "no" /\ recovering = FALSE /\ enrollHolds = FALSE /\ resolving = None
  BY <1>1 DEF Reservable, SteamOperation, Submitting, Types, TransferTypeOK, EnrollTypeOK
<1>3. proving = None /\ login # "asked" /\ erec = None
  BY <1>1, <1>2 DEF Phases, At
<1>4. QED
  BY <1>1, <1>2, <1>3

(* Where no record is, the vault may change as it likes.                   *)
LEMMA MutationKeeps ==
  ASSUME IInv, Idle, Reservable, MutationAllowed, (row' # None => /\ row'.backup # "none" /\ (row'.auth \in Attempts => row'.auth \in sent') /\ (~adopted' => row'.auth # Elsewhere)),
         row' \in Row \cup {None}, bak' = row,
         UNCHANGED <<service, enrollment, unlocked, world>>
  PROVE  IInv'
<1>1. /\ Inv(dir', older') /\ UNCHANGED <<debt, faults>> /\ dir' = Merged(dir)
      /\ Reconcilable(dir) /\ Merged(dir).files = {} /\ owed = None /\ enrollOwed = None
  BY ReadsWellKeeps DEF MutationAllowed, NothingOwed
<1>2. /\ Types /\ job = None /\ erec = None /\ phase = "no" /\ recovering = FALSE
      /\ proving = None /\ resolving = None /\ login # "asked" /\ enrollHolds = FALSE
  BY Reserved
<1>3. /\ wf = None /\ staged = None /\ open = {} /\ received = {} /\ owed = None
      /\ enrollOwed = None
  BY <1>1, NothingLeft
<1>4. /\ bak' = row /\ row' \in Row \cup {None}
      /\ UNCHANGED <<transfer, world, enrollment, job, unlocked, debt, faults>>
  BY <1>1, <1>2, <1>3
<1>5. World(dir, older)'
  <2>1. World(dir', older') /\ UNCHANGED <<steam, sent, adopted>>
    BY <1>1, <1>4 DEF Inv, Core
  <2>2. row # None => RowKnown(row)
    BY DEF IInv, Inv, Core, World
  <2>3. (bak' # None => /\ bak'.backup # "none" /\ (bak'.auth \in Attempts => bak'.auth \in sent') /\ (~adopted' => bak'.auth # Elsewhere))
    BY <1>4, <2>2 DEF RowKnown
  <2>4. \A r \in Written(dir', older') : Known(r)'
    BY <2>1 DEF World, Known, Superseded
  <2>5. (row' # None => /\ row'.backup # "none" /\ (row'.auth \in Attempts => row'.auth \in sent') /\ (~adopted' => row'.auth # Elsewhere))
    OBVIOUS
  <2>6. /\ wf' = None /\ erec' = None /\ staged' = None /\ enrollOwed' = None /\ owed' = None
    BY <1>2, <1>3, <1>4
  <2>7. QED
    BY <2>3, <2>4, <2>5, <2>6 DEF World, RowKnown
<1> USE <1>1, <1>2, <1>3, <1>4 DEF IInv, Inv, Core, At, Idle, Holding, Sealed, RowIs, Rows
<1>6. Types'
  <2>1. TransferTypeOK'
    BY DEF Types, TransferTypeOK
  <2>2. EnrollTypeOK'
    BY DEF Types, EnrollTypeOK
  <2>3. QED
    BY <2>1, <2>2 DEF Types, MoreFaults
<1>7. Transfers(dir, older)'
  BY DEF Transfers
<1>8. Enrolments(dir, older)'
  BY DEF Enrolments, OfEnrolment
<1>9. Opened(dir, older)'
  BY DEF Opened
<1>10. RepliesKept(dir, older)'
  BY DEF RepliesKept, Held
<1>11. Phases(dir, older)'
  BY DEF Phases, Awaits, EnrollSteps
<1>12. AtStep(dir)'
  BY DEF AtStep, Saving, Secured, Truth, Resolutions
<1>13. EnrollAtStep(dir)'
  BY DEF EnrollAtStep, Stowed, Secured, Resolutions
<1>14. QED
  BY <1>5, <1>6, <1>7, <1>8, <1>9, <1>10, <1>11, <1>12, <1>13

LEMMA ImportOldKeeps ==
  ASSUME IInv, ImportOld
  PROVE  IInv'
<1>1. /\ Idle /\ Reservable /\ MutationAllowed /\ bak' = row
      /\ UNCHANGED <<service, enrollment, unlocked, world>>
      /\ row' = [auth |-> Old, backup |-> "current"]
  BY DEF ImportOld, Save
<1>2. row' \in Row /\ row'.auth = Old /\ row'.backup = "current"
  BY <1>1, PrintsAssumption DEF Row
<1>3. (row' # None => /\ row'.backup # "none" /\ (row'.auth \in Attempts => row'.auth \in sent') /\ (~adopted' => row'.auth # Elsewhere))
  BY <1>2, PrintsAssumption
<1>4. QED
  BY <1>1, <1>2, <1>3, MutationKeeps

LEMMA RemoveRowKeeps ==
  ASSUME IInv, RemoveRow
  PROVE  IInv'
<1>1. /\ Idle /\ Reservable /\ MutationAllowed /\ bak' = row /\ row' = None
      /\ UNCHANGED <<service, enrollment, unlocked, world>>
  BY DEF RemoveRow, Save
<1>2. QED
  BY <1>1, MutationKeeps

(* Where nothing is owed, neither does a record depend on the row.         *)
LEMMA ReplacedKeeps ==
  ASSUME IInv, Idle, Reservable, NothingOwed, ReadsWell, row' \in Row \cup {None},
         (row' # None => /\ row'.backup # "none" /\ (row'.auth \in Attempts => row'.auth \in sent') /\ (~adopted' => row'.auth # Elsewhere)), unlocked' \in BOOLEAN, adopted' \in BOOLEAN, adopted => adopted',
         \A n \in Attempts : Rows(n, row') => Rows(n, bak),
         UNCHANGED <<service, enrollment, bak, steam, enrolment, sent, open, received>>
  PROVE  IInv'
<1>1. /\ Inv(dir', older') /\ UNCHANGED <<debt, faults>> /\ ~dir'.torn
      /\ owed = None /\ enrollOwed = None
  BY ReadsWellKeeps DEF NothingOwed
<1>2. /\ Types /\ job = None /\ erec = None /\ phase = "no" /\ recovering = FALSE
      /\ proving = None /\ resolving = None /\ login # "asked" /\ enrollHolds = FALSE
  BY Reserved
<1>3. \A n \in open : AllTrace(n, dir', older')
  <2>1. SUFFICES ASSUME NEW n \in open PROVE AllTrace(n, dir', older')
    OBVIOUS
  <2>2. Opens(n, dir', older') /\ (Trace(n, dir') \/ wf # None)
    BY <1>1, <1>2 DEF Inv, Core, Opened, At
  <2>3. wf # None => n = wf.attempt /\ Trace(wf.attempt, dir')
    BY <1>1, <1>2 DEF Inv, Core, Transfers, At
  <2>4. QED
    BY <2>2, <2>3 DEF Opens
<1>4. \A n \in received : SafeIn(n, dir', older', RowIs(n)) => \A b : SafeIn(n, dir', older', b)
  <2>1. SUFFICES ASSUME NEW n \in received, SafeIn(n, dir', older', RowIs(n)), NEW b
                 PROVE  SafeIn(n, dir', older', b)
    OBVIOUS
  <2>2. n \in open /\ Keeps(n, dir', older') /\ Trace(n, dir') /\ ~dir'.torn
    BY <1>1, <1>2, <1>3 DEF Types, Inv, Core, RepliesKept, AllTrace
  <2>3. Has(n, dir')
    BY <2>1, <2>2 DEF SafeIn, Trace, Names, Recs
  <2>4. QED
    BY <2>2, <2>3 DEF Keeps, SafeIn
<1>5. /\ row' \in Row \cup {None} /\ unlocked' \in BOOLEAN /\ adopted' \in BOOLEAN
      /\ UNCHANGED <<transfer, enrolment, enrollment, job, bak, steam, sent, open,
         received, debt, faults>>
  BY <1>1, <1>2, <1>3, <1>4
<1>6. RepliesKept(dir, older)'
  <2>1. SUFFICES ASSUME NEW n \in received
                 PROVE  /\ \/ Held(n)' /\ ~RowIs(n)' /\ ~Rows(n, bak)'
                           \/ SafeIn(n, dir', older', RowIs(n)')
                        /\ Keeps(n, dir', older')
    BY <1>5 DEF RepliesKept
  <2>2. /\ \/ Held(n) /\ ~RowIs(n) /\ ~Rows(n, bak)
           \/ SafeIn(n, dir', older', RowIs(n))
        /\ Keeps(n, dir', older') /\ n \in Attempts
    BY <1>1, <1>2 DEF Inv, Core, RepliesKept, Types
  <2>3. CASE SafeIn(n, dir', older', RowIs(n))
    BY <1>4, <2>2, <2>3
  <2>4. CASE Held(n) /\ ~RowIs(n) /\ ~Rows(n, bak)
    <3>1. Held(n)' /\ ~Rows(n, bak)'
      BY <1>5, <2>4 DEF Held, Holding, Sealed, Rows
    <3>2. ~RowIs(n)'
      BY <2>2, <2>4 DEF RowIs
    <3>3. QED
      BY <2>2, <3>1, <3>2
  <2>5. QED
    BY <2>2, <2>3, <2>4
<1>7. World(dir, older)'
  <2>1. World(dir', older') /\ UNCHANGED <<steam, sent, wf, unsaved, erec, staged, enrollOwed,
           owed, bak>>
    BY <1>1, <1>5 DEF Inv, Core
  <2>2. \A r : Known(r) => Known(r)'
    BY <2>1 DEF Known, Superseded
  <2>3. (row' # None => /\ row'.backup # "none" /\ (row'.auth \in Attempts => row'.auth \in sent') /\ (~adopted' => row'.auth # Elsewhere))
    OBVIOUS
  <2>4. \A r : Superseded(r) => Superseded(r)'
    BY <2>1 DEF Superseded
  <2>5. (bak' # None => /\ bak'.backup # "none" /\ (bak'.auth \in Attempts => bak'.auth \in sent') /\ (~adopted' => bak'.auth # Elsewhere))
    BY <1>5, <2>1 DEF World, RowKnown
  <2>6. QED
    BY <2>1, <2>2, <2>3, <2>4, <2>5 DEF World, RowKnown
<1> USE <1>1, <1>2, <1>3, <1>4, <1>5 DEF IInv, Inv, Core, At, Idle, Holding, Sealed, RowIs,
   Rows
<1>8. Types'
  <2>1. TransferTypeOK'
    BY DEF Types, TransferTypeOK
  <2>2. EnrollTypeOK'
    BY DEF Types, EnrollTypeOK
  <2>3. QED
    BY <2>1, <2>2 DEF Types, MoreFaults
<1>9. Transfers(dir, older)'
  BY DEF Transfers
<1>10. Enrolments(dir, older)'
  BY DEF Enrolments, OfEnrolment
<1>11. Opened(dir, older)'
  BY DEF Opened
<1>12. Phases(dir, older)'
  BY DEF Phases, Awaits, EnrollSteps
<1>13. AtStep(dir)'
  BY DEF AtStep, Saving, Secured, Truth, Resolutions
<1>14. EnrollAtStep(dir)'
  BY DEF EnrollAtStep, Stowed, Secured, Resolutions
<1>15. QED
  BY <1>6, <1>7, <1>8, <1>9, <1>10, <1>11, <1>12, <1>13, <1>14

LEMMA RestoreKeeps ==
  ASSUME IInv, Restore
  PROVE  IInv'
<1>1. /\ Idle /\ Reservable /\ NothingOwed /\ ReadsWell /\ row' = bak /\ unlocked' = TRUE
      /\ UNCHANGED <<service, enrollment, bak, world>>
  BY DEF Restore
<1>2. UNCHANGED <<service, enrollment, bak, steam, enrolment, sent, open, received, adopted>>
  BY <1>1
<1>3. bak \in Row \cup {None} /\ adopted \in BOOLEAN
  BY TypesHold DEF Types
<1>4. (row' # None => /\ row'.backup # "none" /\ (row'.auth \in Attempts => row'.auth \in sent') /\ (~adopted' => row'.auth # Elsewhere))
  BY <1>1, <1>2 DEF IInv, Inv, Core, World, RowKnown
<1>5. QED
  BY <1>1, <1>2, <1>3, <1>4, ReplacedKeeps

LEMMA AdoptKeeps ==
  ASSUME IInv, Adopt
  PROVE  IInv'
<1>1. /\ Idle /\ Reservable /\ NothingOwed /\ ReadsWell /\ adopted' = TRUE
      /\ row' \in {None} \cup [auth : {Old, Elsewhere}, backup : {"current"}]
      /\ UNCHANGED <<service, enrollment, unlocked, bak, steam, enrolment, sent, open,
            received>>
  BY DEF Adopt
<1>2. unlocked \in BOOLEAN
  BY TypesHold DEF Types
<1>3. row' # None => row' \in Row /\ row'.backup = "current" /\ row'.auth \in {Old, Elsewhere}
  BY <1>1, PrintsAssumption DEF Row
<1>4. (row' # None => /\ row'.backup # "none" /\ (row'.auth \in Attempts => row'.auth \in sent') /\ (~adopted' => row'.auth # Elsewhere))
  BY <1>1, <1>3, PrintsAssumption
<1>5. \A n \in Attempts : ~Rows(n, row')
  BY <1>3, PrintsAssumption DEF Rows
<1>6. QED
  BY <1>1, <1>2, <1>3, <1>4, <1>5, ReplacedKeeps

LEMMA SupportKeeps ==
  ASSUME IInv, Support
  PROVE  IInv'
<1>1. /\ Inv(dir', older') /\ UNCHANGED <<debt, faults>> /\ job = None /\ login # "asked"
      /\ phase = "no" /\ Types
  BY Untouched, TypesHold DEF Support, Idle, Submitting, Busy
<1>2. steam' = None
  BY DEF Support
<1>3. /\ steam' = None
      /\ UNCHANGED <<transfer, vault, enrolment, enrollment, job, sent, open, received,
         adopted, debt, faults>>
  BY <1>1, <1>2 DEF Support
<1>4. World(dir, older)'
  <2>1. World(dir', older') /\ UNCHANGED <<sent, adopted, wf, unsaved, erec, staged,
           enrollOwed, owed, row, bak>>
    BY <1>1, <1>3 DEF Inv, Core
  <2>2. \A r : Known(r) => Known(r)'
    BY <1>2, <2>1 DEF Known, Superseded
  <2>3. \A r : RowKnown(r) => RowKnown(r)'
    BY <2>1 DEF RowKnown
  <2>4. \A r : Superseded(r) /\ Known(r) => Superseded(r)'
    BY <1>2, <2>1 DEF Superseded, Known
  <2>5. QED
    BY <2>1, <2>2, <2>3, <2>4 DEF World
<1> USE <1>1, <1>2, <1>3 DEF IInv, Inv, Core, At, Idle, Holding, Sealed, RowIs, Rows
<1>5. Types'
  <2>1. TransferTypeOK'
    BY DEF Types, TransferTypeOK
  <2>2. EnrollTypeOK'
    BY DEF Types, EnrollTypeOK
  <2>3. QED
    BY <2>1, <2>2 DEF Types, MoreFaults
<1>6. Transfers(dir, older)'
  BY DEF Transfers
<1>7. Enrolments(dir, older)'
  BY DEF Enrolments, OfEnrolment
<1>8. Opened(dir, older)'
  BY DEF Opened
<1>9. RepliesKept(dir, older)'
  BY DEF RepliesKept, Held
<1>10. Phases(dir, older)'
  BY DEF Phases, Awaits, EnrollSteps
<1>11. AtStep(dir)'
  BY DEF AtStep, Saving, Secured, Truth, Resolutions
<1>12. EnrollAtStep(dir)'
  BY DEF EnrollAtStep, Stowed, Secured, Resolutions
<1>13. QED
  BY <1>4, <1>5, <1>6, <1>7, <1>8, <1>9, <1>10, <1>11, <1>12

LEMMA MoveAwayKeeps ==
  ASSUME IInv, MoveAway
  PROVE  IInv'
<1>1. /\ Inv(dir', older') /\ UNCHANGED <<debt, faults>> /\ job = None /\ login # "asked"
      /\ phase = "no" /\ Types
  BY Untouched, TypesHold DEF MoveAway, Idle, Submitting, Busy
<1>2. steam' = Elsewhere /\ ~adopted
  BY DEF MoveAway
<1>3. /\ steam' = Elsewhere
      /\ UNCHANGED <<transfer, vault, enrolment, enrollment, job, sent, open, received,
         adopted, debt, faults>>
  BY <1>1, <1>2 DEF MoveAway
<1>4. resolving = None
  <2>1. SUFFICES ASSUME resolving # None PROVE FALSE
    OBVIOUS
  <2>2. wf.reply = "none" /\ Read(wf, dir)
    BY <1>1, <2>1 DEF IInv, Inv, AtStep, Idle
  <2>3. QED
    BY <2>2 DEF Read, MoveAway
<1>5. Elsewhere \in Prints
  BY PrintsAssumption
<1>6. World(dir, older)'
  <2>1. World(dir', older') /\ UNCHANGED <<sent, adopted, wf, unsaved, erec, staged,
           enrollOwed, owed, row, bak>>
    BY <1>1, <1>3 DEF Inv, Core
  <2>2. \A r : Known(r) => Known(r)'
    BY <1>2, <2>1 DEF Known, Superseded
  <2>3. \A r : RowKnown(r) => RowKnown(r)'
    BY <2>1 DEF RowKnown
  <2>4. \A r : Superseded(r) /\ Known(r) => Superseded(r)'
    BY <1>2, <2>1 DEF Superseded, Known
  <2>5. QED
    BY <2>1, <2>2, <2>3, <2>4 DEF World
<1> USE <1>1, <1>2, <1>3, <1>4, <1>5 DEF IInv, Inv, Core, At, Idle, Holding, Sealed, RowIs,
   Rows
<1>7. Types'
  <2>1. TransferTypeOK'
    BY DEF Types, TransferTypeOK
  <2>2. EnrollTypeOK'
    BY DEF Types, EnrollTypeOK
  <2>3. QED
    BY <2>1, <2>2 DEF Types, MoreFaults
<1>8. Transfers(dir, older)'
  BY DEF Transfers
<1>9. Enrolments(dir, older)'
  BY DEF Enrolments, OfEnrolment
<1>10. Opened(dir, older)'
  BY DEF Opened
<1>11. RepliesKept(dir, older)'
  BY DEF RepliesKept, Held
<1>12. Phases(dir, older)'
  BY DEF Phases, Awaits, EnrollSteps
<1>13. AtStep(dir)'
  BY DEF AtStep, Saving, Secured, Truth, Resolutions
<1>14. EnrollAtStep(dir)'
  BY DEF EnrollAtStep, Stowed, Secured, Resolutions
<1>15. QED
  BY <1>6, <1>7, <1>8, <1>9, <1>10, <1>11, <1>12, <1>13, <1>14

-----------------------------------------------------------------------------
(* Stopping and starting.                                                  *)

(* Where a power loss may leave a journal that is d or one of o.           *)

LEMMA LeftAt ==
  ASSUME NEW d, NEW o, NEW e \in {d} \cup o, Sound(d, o)
  PROVE  /\ Sound(e, {}) /\ Written(e, {}) \subseteq Written(d, o)
         /\ \A n : Opens(n, d, o) => Opens(n, e, {})
         /\ \A n : AllTrace(n, d, o) => AllTrace(n, e, {})
         /\ \A n, b : SafeIn(n, d, o, b) => SafeIn(n, e, {}, b)
<1>1. Written(e, {}) \subseteq Written(d, o) /\ Recs(e) \subseteq Written(d, o)
  <2>1. \A r \in Written(e, {}) : r \in Recs(e)
    BY WrittenBy
  <2>2. \A r \in Recs(e) : r \in Written(d, o)
    BY WrittenBy
  <2>3. QED
    BY <2>1, <2>2
<1>2. Single(e) /\ \A r \in Written(e, {}) : Fit(r)
  BY <1>1 DEF Sound
<1>3. \A r \in Recs(e), s \in Written(e, {}) : SameIdentity(r, s)
  <2>1. SUFFICES ASSUME NEW r \in Recs(e), NEW s \in Recs(e) PROVE SameIdentity(r, s)
    BY WrittenBy
  <2>2. /\ \A f, g \in e.files : f = g
        /\ \A f, g \in e.staged : f = g
        /\ \A f \in e.files, g \in e.staged : SameIdentity(f, g)
    BY <1>2 DEF Single, Follows
  <2>3. QED
    BY <2>2 DEF Recs, SameIdentity
<1>4. ASSUME NEW n, Opens(n, d, o) PROVE Opens(n, e, {})
  BY <1>1, <1>4 DEF Opens, AllTrace
<1>5. ASSUME NEW n, AllTrace(n, d, o) PROVE AllTrace(n, e, {})
  BY <1>5 DEF AllTrace
<1>6. ASSUME NEW n, NEW b, SafeIn(n, d, o, b) PROVE SafeIn(n, e, {}, b)
  BY <1>6 DEF SafeIn
<1>7. QED
  BY <1>1, <1>2, <1>3, <1>4, <1>5, <1>6 DEF Sound

(* A start in a journal that is well kept.                                 *)
LEMMA RestartKeeps ==
  ASSUME Types, Restarted, debt' = FALSE, MoreFaults, Sound(dir', older'),
         steam' \in Prints \cup {None}, UNCHANGED <<row, bak, sent, open, adopted>>,
         received' \subseteq received,
         \A m, n \in open : m = n,
         \A n \in open : Opens(n, dir', older') /\ (AllTrace(n, dir', older') \/ RowIs(n)),
         \A n \in received' : SafeIn(n, dir', older', RowIs(n)) /\ Keeps(n, dir', older'),
         \A r \in Written(dir', older') : Known(r)', row # None => RowKnown(row),
         bak # None => RowKnown(bak)
  PROVE  IInv'
<1>1. Sound(dir', older') /\ debt' = FALSE /\ MoreFaults
  OBVIOUS
<1>2. /\ Types /\ \A m, n \in open : m = n
      /\ \A n \in open : Opens(n, dir', older') /\ (AllTrace(n, dir', older') \/ RowIs(n))
  OBVIOUS
<1>3. \A n \in received' : SafeIn(n, dir', older', RowIs(n)) /\ Keeps(n, dir', older')
  OBVIOUS
<1>4. row' = row /\ bak' = bak /\ sent' = sent /\ open' = open /\ adopted' = adopted
  OBVIOUS
<1>5. [step |-> "load", by |-> "start", passphrase |-> FALSE, resolution |-> None] \in Job
  BY DEF Job, Resolutions
<1>6. /\ wf' = None
      /\ problem' = FALSE
      /\ owed' = None
      /\ pending' = "none"
      /\ terminal' = None
      /\ auth' = "no"
      /\ challenging' = FALSE
      /\ phase' = "no"
      /\ recovering' = FALSE
      /\ unsaved' = FALSE
      /\ badHeld' = FALSE
      /\ proving' = None
      /\ resolving' = None
      /\ login' = "no"
      /\ erec' = None
      /\ staged' = None
      /\ known' = {}
      /\ enrollOwed' = None
      /\ enrollHolds' = FALSE
      /\ unlocked' = FALSE
      /\ debt' = FALSE
      /\ job' # None /\ job' \in Job /\ job'.step = "load" /\ job'.by = "start"
      /\ job'.passphrase = FALSE /\ job'.resolution = None
      /\ steam' \in Prints \cup {None}
      /\ received' \subseteq received
      /\ UNCHANGED <<row, bak, sent, open, adopted>>
  BY <1>1, <1>2, <1>3, <1>4, <1>5, Started DEF Restarted, TransferForgotten, EnrollForgotten
<1>7. Opened(dir, older)'
  <2>1. \A n : RowIs(n)' = RowIs(n)
    BY <1>4 DEF RowIs, Rows
  <2>2. At({"load"})'
    BY <1>6 DEF At
  <2>3. \A n : At({"erase", "own", "load"})'
    BY <1>6 DEF At
  <2>4. QED
    BY <1>2, <1>4, <2>1, <2>2, <2>3 DEF Opened
<1>8. RepliesKept(dir, older)'
  <2>1. \A n : RowIs(n)' = RowIs(n)
    BY <1>4 DEF RowIs, Rows
  <2>2. QED
    BY <1>3, <2>1 DEF RepliesKept
<1>9. World(dir, older)'
  <2>1. \A r : RowKnown(r) => RowKnown(r)'
    BY <1>4 DEF RowKnown
  <2>2. QED
    BY <1>4, <1>6, <2>1 DEF World
<1> USE <1>1, <1>2, <1>3, <1>4, <1>5, <1>6 DEF IInv, Inv, Core, At, Idle, Holding, Sealed,
   RowIs, Rows
<1>10. Types'
  <2>1. TransferTypeOK'
    BY DEF Types, TransferTypeOK
  <2>2. EnrollTypeOK'
    BY DEF Types, EnrollTypeOK
  <2>3. QED
    BY <2>1, <2>2 DEF Types, MoreFaults
<1>11. Transfers(dir, older)'
  BY DEF Transfers
<1>12. Enrolments(dir, older)'
  BY DEF Enrolments, OfEnrolment
<1>13. Phases(dir, older)'
  BY DEF Phases, Awaits, EnrollSteps
<1>14. AtStep(dir)'
  BY DEF AtStep, Saving, Secured, Truth, Resolutions
<1>15. EnrollAtStep(dir)'
  BY DEF EnrollAtStep, Stowed, Secured, Resolutions
<1>16. QED
  BY <1>7, <1>8, <1>9, <1>10, <1>11, <1>12, <1>13, <1>14, <1>15

LEMMA ReopenKeeps ==
  ASSUME IInv, Reopen
  PROVE  IInv'
<1>1. /\ Idle /\ ~Holding /\ staged = None /\ Restarted /\ debt' = FALSE
      /\ dir' = dir /\ older' = older /\ faults' = faults /\ received' = received
      /\ steam' = steam
      /\ UNCHANGED <<row, bak, sent, open, adopted>>
  BY DEF Reopen
<1>2. Types /\ Core(dir, older) /\ job = None /\ MoreFaults
  BY <1>1 DEF IInv, Inv, Idle, Types, MoreFaults
<1>3. /\ Sound(dir, older) /\ steam \in Prints \cup {None} /\ \A m, n \in open : m = n
      /\ \A n \in open : Opens(n, dir, older) /\ (AllTrace(n, dir, older) \/ RowIs(n))
      /\ row # None => RowKnown(row)
      /\ bak # None => RowKnown(bak)
  BY <1>2 DEF Core, Opened, World, Types
<1>4. \A n \in received : SafeIn(n, dir, older, RowIs(n)) /\ Keeps(n, dir, older)
  BY <1>1, <1>2 DEF Core, RepliesKept, Held
<1>5. \A r \in Written(dir', older') : Known(r)'
  <2>1. \A r \in Written(dir, older) : Known(r)
    BY <1>2 DEF Core, World
  <2>2. \A r : Known(r)' = Known(r)
    BY <1>1 DEF Known, Superseded
  <2>3. QED
    BY <1>1, <2>1, <2>2
<1>6. QED
  <2>1. /\ Sound(dir', older') /\ steam' \in Prints \cup {None}
        /\ \A n \in open : Opens(n, dir', older') /\ (AllTrace(n, dir', older') \/ RowIs(n))
        /\ \A n \in received' : SafeIn(n, dir', older', RowIs(n)) /\ Keeps(n, dir', older')
    BY <1>1, <1>3, <1>4
  <2>2. QED
    BY <1>1, <1>2, <1>3, <1>5, <2>1, RestartKeeps

LEMMA CrashKeeps ==
  ASSUME IInv, Crash
  PROVE  IInv'
<1>1. /\ dir' \in {dir} \cup older /\ older' = {} /\ debt' = FALSE
      /\ faults < MaxFaults /\ faults' = faults + 1 /\ Restarted
      /\ received' = received \ OnlyInMemory
      /\ UNCHANGED <<row, bak, sent, open, adopted>>
  BY DEF Crash, JournalCrash
<1>2. Types /\ Core(dir, older) /\ Phases(dir, older)
  BY DEF IInv, Inv
<1>3. MoreFaults
  BY <1>1, <1>2, JournalAssumption DEF Types, MoreFaults
<1>4. /\ Sound(dir', {}) /\ Written(dir', {}) \subseteq Written(dir, older)
      /\ \A n : Opens(n, dir, older) => Opens(n, dir', {})
      /\ \A n : AllTrace(n, dir, older) => AllTrace(n, dir', {})
      /\ \A n, b : SafeIn(n, dir, older, b) => SafeIn(n, dir', {}, b)
  BY <1>1, <1>2, LeftAt DEF Core
<1>5. /\ \A m, n \in open : m = n
      /\ \A n \in open : Opens(n, dir', {}) /\ (AllTrace(n, dir', {}) \/ RowIs(n))
      /\ row # None => RowKnown(row)
      /\ bak # None => RowKnown(bak)
  BY <1>2, <1>4 DEF Core, Opened, World
<1>6. ASSUME NEW n \in received'
      PROVE  SafeIn(n, dir', {}, RowIs(n)) /\ Keeps(n, dir', {})
  <2>1. n \in received /\ n \notin OnlyInMemory
    BY <1>1
  <2>2. CASE SafeIn(n, dir, older, RowIs(n))
    BY <1>4, <2>2 DEF Keeps
  <2>3. CASE Held(n) /\ ~RowIs(n)
    <3>1. InMemory(n)
      BY <2>3 DEF Held, InMemory
    <3>2. OnDisk(n, dir')
      BY <1>1, <2>1, <3>1 DEF OnlyInMemory
    <3>3. Has(n, dir')
      BY <2>3, <3>2 DEF OnDisk, Has, Recs, RowIs, Rows
    <3>4. QED
      BY <3>3 DEF SafeIn, Keeps
  <2>4. QED
    BY <1>2, <2>1, <2>2, <2>3 DEF Core, RepliesKept
<1>7. /\ steam' \in Prints \cup {None}
      /\ \A r \in Written(dir, older) : Known(r)'
  <2>1. /\ \A r \in Written(dir, older) : Known(r) /\ Fit(r)
        /\ UNCHANGED <<sent, adopted>> /\ steam \in Prints \cup {None}
    BY <1>1, <1>2 DEF Core, World, Sound, Types
  <2>2. CASE steam' = steam
    BY <2>1, <2>2 DEF Known, Superseded
  <2>3. CASE phase = "asked" /\ Executed
    <3>1. wf # None
      BY <1>2, <2>3 DEF Core, Transfers
    <3>2. Mine(wf, dir, older) /\ steam' = wf.attempt /\ wf.attempt \in Prints
      BY <1>2, <2>3, <3>1, PrintsAssumption DEF Core, Transfers, Executed, Fit, Record
    <3>3. \A r \in Written(dir, older) : r.prior # steam'
      BY <2>1, <3>2 DEF Mine, SameIdentity, Fit
    <3>4. QED
      BY <2>1, <3>2, <3>3 DEF Known, Superseded
  <2>4. CASE login = "asked" /\ Attaches
    <3>1. erec # None
      BY <1>2, <2>4 DEF Phases
    <3>2. OfEnrolment(erec, dir, older) /\ steam' = erec.attempt
      BY <1>2, <2>4, <3>1 DEF Core, Enrolments, Attaches
    <3>3. erec.attempt \in Prints /\ \A r \in Written(dir, older) : r.kind = "enrollment"
      BY <3>2, PrintsAssumption DEF OfEnrolment, Mine, SameIdentity, Fit, Record
    <3>4. QED
      BY <2>1, <3>2, <3>3 DEF Known, Superseded
  <2>5. QED
    BY <2>2, <2>3, <2>4 DEF Crash
<1>8. QED
  <2>1. /\ Sound(dir', older') /\ received' \subseteq received
        /\ \A n \in open : Opens(n, dir', older') /\ (AllTrace(n, dir', older') \/ RowIs(n))
        /\ \A n \in received' : SafeIn(n, dir', older', RowIs(n)) /\ Keeps(n, dir', older')
        /\ \A r \in Written(dir', older') : Known(r)'
    BY <1>1, <1>4, <1>5, <1>6, <1>7
  <2>2. QED
    BY <1>1, <1>2, <1>3, <1>5, <1>7, <2>1, RestartKeeps

LEMMA InitKeeps ==
  ASSUME Init, ReadBackFails = FALSE
  PROVE  IInv
<1>1. dir.files = {} /\ dir.staged = {} /\ ~dir.torn /\ older = {} /\ dir \in Directory
  BY DEF Init, JournalInit, EmptyDirectory, Directory
<1>2. Recs(dir) = {} /\ Written(dir, older) = {}
  <2>1. Recs(dir) = {}
    BY <1>1 DEF Recs
  <2>2. QED
    BY <1>1, <2>1, WrittenBy
<1>3. Sound(dir, older)
  BY <1>1, <1>2 DEF Sound, Single
<1>4. Types
  <2>1. TransferTypeOK
    BY DEF Init, TransferInit, TransferTypeOK
  <2>2. EnrollTypeOK
    BY DEF Init, EnrollTypeOK, TransferInit
  <2>3. bak \in Row \cup {None} /\ steam \in Prints \cup {None}
    BY PrintsAssumption DEF Init, Row
  <2>4. faults \in 0..MaxFaults
    BY JournalAssumption DEF Init, JournalInit
  <2>5. job = None /\ row = None /\ debt \in BOOLEAN /\ unlocked \in BOOLEAN /\ adopted \in BOOLEAN
        /\ sent = {} /\ open = {} /\ received = {}
    BY DEF Init, JournalInit
  <2>6. QED
    BY <2>1, <2>2, <2>3, <2>4, <2>5 DEF Types
<1>5. Transfers(dir, older) /\ Enrolments(dir, older)
  BY <1>1 DEF Init, TransferInit, Transfers, Enrolments, Holding, Sealed
<1>6. Opened(dir, older) /\ RepliesKept(dir, older)
  BY <1>1 DEF Init, Opened, RepliesKept, Shows
<1>7. World(dir, older)
  <2>1. bak # None => bak.backup = "current" /\ bak.auth = Old
    BY DEF Init
  <2>2. bak # None => RowKnown(bak)
    BY <2>1, PrintsAssumption DEF RowKnown
  <2>3. QED
    BY <1>2, <2>2 DEF Init, TransferInit, World
<1>8. Phases(dir, older)
  BY <1>1 DEF Init, TransferInit, Phases, At, Idle
<1>9. AtStep(dir) /\ EnrollAtStep(dir)
  BY <1>1 DEF Init, TransferInit, AtStep, EnrollAtStep, At, Idle
<1>10. QED
  BY <1>3, <1>4, <1>5, <1>6, <1>7, <1>8, <1>9 DEF IInv, Inv, Core

-----------------------------------------------------------------------------
(* Every step keeps the invariant.                                         *)

LEMMA StutterKeeps ==
  ASSUME IInv, UNCHANGED allVars
  PROVE  IInv'
<1>1. Inv(dir', older') /\ UNCHANGED <<debt, faults>> /\ MoreFaults
  BY TypesHold DEF allVars, vars, journalVars, IInv, Types, MoreFaults
<1>2. /\ dir' = dir
      /\ UNCHANGED <<transfer, vault, world, enrollment, job, debt, faults>>
  BY DEF allVars, vars, journalVars
<1> USE <1>1, <1>2 DEF IInv, Inv, Core, At, Idle, Holding, Sealed, RowIs, Rows
<1>3. Types'
  <2>1. TransferTypeOK'
    BY DEF Types, TransferTypeOK
  <2>2. EnrollTypeOK'
    BY DEF Types, EnrollTypeOK
  <2>3. QED
    BY <2>1, <2>2 DEF Types, MoreFaults
<1>4. Transfers(dir, older)'
  BY DEF Transfers
<1>5. Enrolments(dir, older)'
  BY DEF Enrolments, OfEnrolment
<1>6. Opened(dir, older)'
  BY DEF Opened
<1>7. RepliesKept(dir, older)'
  BY DEF RepliesKept, Held
<1>8. World(dir, older)'
  BY DEF World, Known, Superseded, RowKnown
<1>9. Phases(dir, older)'
  BY DEF Phases, Awaits, EnrollSteps
<1>10. AtStep(dir)'
  BY DEF AtStep, Saving, Secured, Truth, Resolutions
<1>11. EnrollAtStep(dir)'
  BY DEF EnrollAtStep, Stowed, Secured, Resolutions
<1>12. QED
  BY <1>3, <1>4, <1>5, <1>6, <1>7, <1>8, <1>9, <1>10, <1>11

LEMMA TransferRunKeeps ==
  ASSUME IInv, TransferRun, Aside
  PROVE  IInv'
<1>1. CASE Hydrate
  BY <1>1, HydrateKeeps
<1>2. CASE RetainUnusable
  BY <1>2, RetainUnusableKeeps
<1>3. CASE Promote
  BY <1>3, PromoteKeeps
<1>4. CASE PromoteSending
  BY <1>4, PromoteSendingKeeps
<1>5. CASE Inspect
  BY <1>5, InspectKeeps
<1>6. CASE InspectAgain
  BY <1>6, InspectAgainKeeps
<1>7. CASE WriteRow
  BY <1>7, WriteRowKeeps
<1>8. CASE WriteRowFails
  BY <1>8, WriteRowFailsKeeps
<1>9. CASE Backup
  BY <1>9, BackupKeeps
<1>10. CASE BackupFails
  BY <1>10, BackupFailsKeeps
<1>11. CASE Publish
  BY <1>11, PublishKeeps
<1>12. CASE Clear
  BY <1>12, ClearRunKeeps
<1>13. CASE Owe
  BY <1>13, OweKeeps
<1>14. CASE Deny
  BY <1>14, DenyKeeps
<1>15. CASE Resolve
  BY <1>15, ResolveKeeps
<1>16. CASE ResolveRemove
  BY <1>16, ResolveRemoveKeeps
<1>17. CASE ResolveRemoveFails
  BY <1>17, ResolveRemoveFailsKeeps
<1>18. CASE Mark
  BY <1>18, MarkKeeps
<1>19. CASE Look
  BY <1>19, LookKeeps
<1>20. CASE Load
  BY <1>20, LoadKeeps
<1>21. QED
  BY <1>1, <1>2, <1>3, <1>4, <1>5, <1>6, <1>7, <1>8, <1>9, <1>10, <1>11, <1>12, <1>13,
     <1>14, <1>15, <1>16, <1>17, <1>18, <1>19, <1>20 DEF TransferRun

LEMMA EnrollRunKeeps ==
  ASSUME IInv, EnrollRun
  PROVE  IInv'
<1>1. CASE EnrollPeek
  BY <1>1, EnrollPeekKeeps
<1>2. CASE EnrollStore
  BY <1>2, EnrollStoreKeeps
<1>3. CASE EnrollStoreFails
  BY <1>3, EnrollStoreFailsKeeps
<1>4. CASE EnrollCopy
  BY <1>4, EnrollCopyKeeps
<1>5. CASE EnrollCopyFails
  BY <1>5, EnrollCopyFailsKeeps
<1>6. CASE EnrollAnnounce
  BY <1>6, EnrollAnnounceKeeps
<1>7. CASE EnrollErase
  BY <1>7, EnrollEraseKeeps
<1>8. CASE EnrollOwn
  BY <1>8, EnrollOwnKeeps
<1>9. CASE EnrollDisclaim
  BY <1>9, EnrollDisclaimKeeps
<1>10. QED
  BY <1>1, <1>2, <1>3, <1>4, <1>5, <1>6, <1>7, <1>8, <1>9 DEF EnrollRun

LEMMA ReplyingKeeps ==
  ASSUME IInv, Replying, UNCHANGED enrollment
  PROVE  IInv'
<1>1. CASE ReplyNoChange
  BY <1>1, ReplyNoChangeKeeps
<1>2. CASE ReplyLost
  BY <1>2, ReplyLostKeeps
<1>3. CASE ReplyUnreadable
  BY <1>3, ReplyUnreadableKeeps
<1>4. CASE ReplyUnusable
  BY <1>4, ReplyUnusableKeeps
<1>5. CASE ReplyUsable
  BY <1>5, ReplyUsableKeeps
<1>6. QED
  BY <1>1, <1>2, <1>3, <1>4, <1>5 DEF Replying

LEMMA EnrollReplyingKeeps ==
  ASSUME IInv, EnrollReplying
  PROVE  IInv'
<1>1. CASE EnrollRefused
  BY <1>1, EnrollRefusedKeeps
<1>2. CASE EnrollLost
  BY <1>2, EnrollLostKeeps
<1>3. CASE EnrollKnownAttached
  BY <1>3, EnrollKnownAttachedKeeps
<1>4. CASE \E usable \in BOOLEAN : EnrollAnswered(usable)
  BY <1>4, EnrollAnsweredKeeps
<1>5. QED
  BY <1>1, <1>2, <1>3, <1>4 DEF EnrollReplying

LEMMA AskingKeeps ==
  ASSUME IInv, Asking, UNCHANGED enrollment
  PROVE  IInv'
<1>1. CASE \E passphrase \in BOOLEAN : RetryBegin(passphrase)
  BY <1>1, RetryBeginKeeps
<1>2. CASE \E resolution \in {"notReplaced", "replaced", "resolvedOutsideApp"} :
               ResolveBegin(resolution)
  BY <1>2, ResolveBeginKeeps
<1>3. CASE ProofAccepted
  BY <1>3, ProofAcceptedKeeps
<1>4. CASE ProofRefused
  BY <1>4, ProofRefusedKeeps
<1>5. CASE ResolveAccepted
  BY <1>5, ResolveAcceptedKeeps
<1>6. CASE ResolveRefused
  BY <1>6, ResolveRefusedKeeps
<1>7. QED
  BY <1>1, <1>2, <1>3, <1>4, <1>5, <1>6 DEF Asking

LEMMA EnrollAskingKeeps ==
  ASSUME IInv, EnrollAsking
  PROVE  IInv'
<1>1. CASE EnrollRetry
  BY <1>1, EnrollRetryKeeps
<1>2. CASE \E resolution \in {"notAttached", "storedHere", "resolvedOutsideApp"} :
               EnrollResolve(resolution)
  BY <1>2, EnrollResolveKeeps
<1>3. QED
  BY <1>1, <1>2 DEF EnrollAsking

LEMMA TryingKeeps ==
  ASSUME IInv, Trying
  PROVE  IInv'
<1>1. CASE AuthenticateBegin /\ UNCHANGED enrollment
  BY <1>1, AuthenticateBeginKeeps
<1>2. CASE AuthenticateEnd /\ UNCHANGED enrollment
  BY <1>2, AuthenticateEndKeeps
<1>3. CASE ChallengeBegin /\ UNCHANGED enrollment
  BY <1>3, ChallengeBeginKeeps
<1>4. CASE ChallengeEnd /\ UNCHANGED enrollment
  BY <1>4, ChallengeEndKeeps
<1>5. CASE Expire /\ UNCHANGED enrollment
  BY <1>5, ExpireKeeps
<1>6. CASE Cancel /\ UNCHANGED enrollment
  BY <1>6, CancelKeeps
<1>7. CASE CompleteBegin /\ UNCHANGED enrollment
  BY <1>7, CompleteBeginKeeps
<1>8. CASE CompleteMint /\ UNCHANGED enrollment
  BY <1>8, CompleteMintKeeps
<1>9. CASE CompleteFails /\ UNCHANGED enrollment
  BY <1>9, CompleteFailsKeeps
<1>10. CASE CompleteSend /\ UNCHANGED enrollment
  BY <1>10, CompleteSendKeeps
<1>11. CASE EnrollBegin
  BY <1>11, EnrollBeginKeeps
<1>12. CASE EnrollAsksCode
  BY <1>12, EnrollAsksCodeKeeps
<1>13. CASE EnrollCode
  BY <1>13, EnrollCodeKeeps
<1>14. CASE EnrollSignedIn
  BY <1>14, EnrollSignedInKeeps
<1>15. CASE EnrollFails
  BY <1>15, EnrollFailsKeeps
<1>16. CASE EnrollSend
  BY <1>16, EnrollSendKeeps
<1>17. QED
  BY <1>1, <1>2, <1>3, <1>4, <1>5, <1>6, <1>7, <1>8, <1>9, <1>10, <1>11, <1>12, <1>13,
     <1>14, <1>15, <1>16 DEF Trying, Signing, Completing, EnrollSigning

LEMMA AroundKeeps ==
  ASSUME IInv, Around
  PROVE  IInv'
<1>1. CASE Lock
  BY <1>1, LockKeeps
<1>2. CASE Unlock
  BY <1>2, UnlockKeeps
<1>3. CASE ImportOld
  BY <1>3, ImportOldKeeps
<1>4. CASE RemoveRow
  BY <1>4, RemoveRowKeeps
<1>5. CASE Restore
  BY <1>5, RestoreKeeps
<1>6. CASE Adopt
  BY <1>6, AdoptKeeps
<1>7. CASE Support
  BY <1>7, SupportKeeps
<1>8. CASE MoveAway
  BY <1>8, MoveAwayKeeps
<1>9. CASE Crash
  BY <1>9, CrashKeeps
<1>10. CASE Reopen
  BY <1>10, ReopenKeeps
<1>11. QED
  BY <1>1, <1>2, <1>3, <1>4, <1>5, <1>6, <1>7, <1>8, <1>9, <1>10 DEF Around

LEMMA Inductive ==
  ASSUME IInv, [Next]_allVars
  PROVE  IInv'
<1>1. CASE Run
  BY <1>1, TransferRunKeeps, EnrollRunKeeps DEF Run
<1>2. CASE Replies
  BY <1>2, ReplyingKeeps, EnrollReplyingKeeps DEF Replies
<1>3. CASE Asked
  BY <1>3, AskingKeeps, EnrollAskingKeeps DEF Asked
<1>4. CASE Trying
  BY <1>4, TryingKeeps
<1>5. CASE Around
  BY <1>5, AroundKeeps
<1>6. CASE UNCHANGED allVars
  BY <1>6, StutterKeeps
<1>7. QED
  BY <1>1, <1>2, <1>3, <1>4, <1>5, <1>6 DEF Next

-----------------------------------------------------------------------------
(* What follows from it.                                                   *)

LEMMA TypesFollow ==
  ASSUME IInv
  PROVE  TypeOK
<1>1. Types /\ Sound(dir, older)
  BY DEF IInv, Inv, Core
<1>2. dir \in Directory /\ older \subseteq Directory
  BY <1>1 DEF Sound, Single
<1>3. QED
  BY <1>1, <1>2 DEF Types, TypeOK, JournalTypeOK

LEMMA RepliesFollow ==
  ASSUME IInv
  PROVE  ReplySurvives
<1>1. SUFFICES ASSUME NEW n \in received
               PROVE  InMemory(n) \/ \A d \in {dir} \cup older : OnDisk(n, d)
  BY DEF ReplySurvives
<1>2. Held(n) \/ SafeIn(n, dir, older, RowIs(n))
  BY DEF IInv, Inv, Core, RepliesKept
<1>3. CASE Held(n)
  BY <1>3 DEF Held, InMemory
<1>4. CASE SafeIn(n, dir, older, RowIs(n))
  BY <1>4 DEF SafeIn, Has, Recs, RowIs, Rows, OnDisk
<1>5. QED
  BY <1>2, <1>3, <1>4

(* The services' memory, the journal and the vault's row always have the   *)
(* form the code gives them: what is read, what is held and what is stored *)
(* are records of the kinds they should be.                                *)
THEOREM WellFormed ==
  ASSUME ReadBackFails = FALSE
  PROVE  Spec => []TypeOK
<1>1. Init => IInv
  BY InitKeeps
<1>2. QED
  BY <1>1, Inductive, TypesFollow, PTL DEF Spec

(* The secrets Steam sent once are in the memory of one of the services,   *)
(* or on the disk whatever a power loss makes of it, until the vault holds *)
(* them for good or the user says they are not needed: through failed      *)
(* writes, locks, restores, and crashes between any two steps.             *)
THEOREM SecretsSurvive ==
  ASSUME ReadBackFails = FALSE
  PROVE  Spec => []ReplySurvives
<1>1. Init => IInv
  BY InitKeeps
<1>2. QED
  BY <1>1, Inductive, RepliesFollow, PTL DEF Spec

-----------------------------------------------------------------------------
(* The promise.                                                            *)

(* A step that asks nothing of Steam tells the outcome of what was open,   *)
(* or says nothing of it.                                                  *)
LEMMA SaysAtMostOne ==
  ASSUME IInv, sent' = sent, open' \subseteq open
  PROVE  [Promise!Next]_<<sent, open>>
<1>1. Types /\ \A m, n \in open : m = n
  BY DEF IInv, Inv, Core, Opened
<1>2. CASE open' = open
  BY <1>2
<1>3. CASE open' # open
  <2>1. PICK n \in open : n \notin open'
    BY <1>3
  <2>2. n \in Attempts /\ open' = open \ {n}
    BY <1>1, <2>1 DEF Types
  <2>3. Promise!Learn(n)
    BY <2>1, <2>2 DEF Promise!Learn
  <2>4. QED
    BY <2>2, <2>3 DEF Promise!Next
<1>4. QED
  BY <1>2, <1>3

LEMMA CompleteSendAsks ==
  ASSUME IInv, CompleteSend
  PROVE  [Promise!Next]_<<sent, open>>
<1>1. PICK n \in Attempts \ sent :
        \/ sent' = sent \cup {n} /\ open' = open \cup {n}
        \/ sent' = sent /\ open' = open
  BY DEF CompleteSend, FreshNames
<1>2. open = {}
  BY DEF IInv, Inv, Phases, CompleteSend
<1>3. CASE sent' = sent \cup {n} /\ open' = open \cup {n}
  BY <1>1, <1>2, <1>3 DEF Promise!Next, Promise!Ask
<1>4. QED
  BY <1>1, <1>3

LEMMA EnrollSendAsks ==
  ASSUME IInv, EnrollSend
  PROVE  [Promise!Next]_<<sent, open>>
<1>1. PICK n \in Attempts \ sent :
        \E x \in Then(Reads, LAMBDA d, o : Publishing(d, o, Added(n))) :
          IF x.ok THEN sent' = sent \cup {n} /\ open' = open \cup {n} ELSE UNCHANGED <<sent,
                open>>
  <2>1. FreshNames(sent) \subseteq Attempts \ sent
    BY DEF FreshNames
  <2>2. QED
    BY <2>1 DEF EnrollSend
<1>2. CASE UNCHANGED <<sent, open>>
  BY <1>2
<1>3. CASE sent' = sent \cup {n} /\ open' = open \cup {n} /\ Reconcilable(dir)
  <2>1. open = {}
    BY <1>3, NothingLeft DEF EnrollSend, Unrecorded
  <2>2. QED
    BY <1>1, <1>3, <2>1 DEF Promise!Next, Promise!Ask
<1>4. CASE ~Reconcilable(dir)
  <2>1. Reads = {Fails(dir, older)}
    BY <1>4 DEF Reads, Reconciling
  <2>2. Fails(dir, older).ok = FALSE
    BY DEF Fails
  <2>3. Then(Reads, LAMBDA d, o : Publishing(d, o, Added(n))) = {Fails(dir, older)}
    BY <2>1, <2>2 DEF Then
  <2>4. QED
    BY <1>1, <2>2, <2>3
<1>5. QED
  BY <1>1, <1>2, <1>3, <1>4

LEMMA TransferRunAsksNothing ==
  ASSUME TransferRun
  PROVE  sent' = sent /\ open' \subseteq open
<1>1. CASE Hydrate
  BY <1>1 DEF Hydrate, Settle, Cleared, Finish, Conclude, Stored, Submit, SignIn, Restarted,
     GiveUp
<1>2. CASE RetainUnusable
  BY <1>2 DEF RetainUnusable, Settle, Cleared, Finish, Conclude, Stored, Submit, SignIn,
     Restarted, GiveUp
<1>3. CASE Promote
  BY <1>3 DEF Promote, Settle, Cleared, Finish, Conclude, Stored, Submit, SignIn, Restarted,
     GiveUp
<1>4. CASE PromoteSending
  BY <1>4 DEF PromoteSending, Settle, Cleared, Finish, Conclude, Stored, Submit, SignIn,
     Restarted, GiveUp
<1>5. CASE Inspect
  BY <1>5 DEF Inspect, Settle, Cleared, Finish, Conclude, Stored, Submit, SignIn, Restarted,
     GiveUp
<1>6. CASE InspectAgain
  BY <1>6 DEF InspectAgain, Settle, Cleared, Finish, Conclude, Stored, Submit, SignIn,
     Restarted, GiveUp
<1>7. CASE WriteRow
  BY <1>7 DEF WriteRow, Settle, Cleared, Finish, Conclude, Stored, Submit, SignIn,
     Restarted, GiveUp
<1>8. CASE WriteRowFails
  BY <1>8 DEF WriteRowFails, Settle, Cleared, Finish, Conclude, Stored, Submit, SignIn,
     Restarted, GiveUp
<1>9. CASE Backup
  BY <1>9 DEF Backup, Settle, Cleared, Finish, Conclude, Stored, Submit, SignIn, Restarted,
     GiveUp
<1>10. CASE BackupFails
  BY <1>10 DEF BackupFails, Settle, Cleared, Finish, Conclude, Stored, Submit, SignIn,
     Restarted, GiveUp
<1>11. CASE Publish
  BY <1>11 DEF Publish, Settle, Cleared, Finish, Conclude, Stored, Submit, SignIn,
     Restarted, GiveUp
<1>12. CASE Clear
  BY <1>12 DEF Clear, Settle, Cleared, Finish, Conclude, Stored, Submit, SignIn, Restarted,
     GiveUp
<1>13. CASE Owe
  BY <1>13 DEF Owe, Settle, Cleared, Finish, Conclude, Stored, Submit, SignIn, Restarted,
     GiveUp
<1>14. CASE Deny
  BY <1>14 DEF Deny, Settle, Cleared, Finish, Conclude, Stored, Submit, SignIn, Restarted,
     GiveUp
<1>15. CASE Resolve
  BY <1>15 DEF Resolve, Settle, Cleared, Finish, Conclude, Stored, Submit, SignIn,
     Restarted, GiveUp
<1>16. CASE ResolveRemove
  BY <1>16 DEF ResolveRemove, Settle, Cleared, Finish, Conclude, Stored, Submit, SignIn,
     Restarted, GiveUp
<1>17. CASE ResolveRemoveFails
  BY <1>17 DEF ResolveRemoveFails, Settle, Cleared, Finish, Conclude, Stored, Submit,
     SignIn, Restarted, GiveUp
<1>18. CASE Mark
  BY <1>18 DEF Mark, Settle, Cleared, Finish, Conclude, Stored, Submit, SignIn, Restarted,
     GiveUp
<1>19. CASE Look
  BY <1>19 DEF Look, Settle, Cleared, Finish, Conclude, Stored, Submit, SignIn, Restarted,
     GiveUp
<1>20. CASE Load
  BY <1>20 DEF Load, Settle, Cleared, Finish, Conclude, Stored, Submit, SignIn, Restarted,
     GiveUp
<1>21. QED
  BY <1>1, <1>2, <1>3, <1>4, <1>5, <1>6, <1>7, <1>8, <1>9, <1>10, <1>11, <1>12, <1>13,
     <1>14, <1>15, <1>16, <1>17, <1>18, <1>19, <1>20 DEF TransferRun

LEMMA EnrollRunAsksNothing ==
  ASSUME EnrollRun
  PROVE  sent' = sent /\ open' \subseteq open
<1>1. CASE EnrollPeek
  BY <1>1 DEF EnrollPeek, Settle, Cleared, Finish, Conclude, Stored, Submit, SignIn,
     Restarted, GiveUp
<1>2. CASE EnrollStore
  BY <1>2 DEF EnrollStore, Settle, Cleared, Finish, Conclude, Stored, Submit, SignIn,
     Restarted, GiveUp
<1>3. CASE EnrollStoreFails
  BY <1>3 DEF EnrollStoreFails, Settle, Cleared, Finish, Conclude, Stored, Submit, SignIn,
     Restarted, GiveUp
<1>4. CASE EnrollCopy
  BY <1>4 DEF EnrollCopy, Settle, Cleared, Finish, Conclude, Stored, Submit, SignIn,
     Restarted, GiveUp
<1>5. CASE EnrollCopyFails
  BY <1>5 DEF EnrollCopyFails, Settle, Cleared, Finish, Conclude, Stored, Submit, SignIn,
     Restarted, GiveUp
<1>6. CASE EnrollAnnounce
  BY <1>6 DEF EnrollAnnounce, Settle, Cleared, Finish, Conclude, Stored, Submit, SignIn,
     Restarted, GiveUp
<1>7. CASE EnrollErase
  BY <1>7 DEF EnrollErase, Settle, Cleared, Finish, Conclude, Stored, Submit, SignIn,
     Restarted, GiveUp
<1>8. CASE EnrollOwn
  BY <1>8 DEF EnrollOwn, Settle, Cleared, Finish, Conclude, Stored, Submit, SignIn,
     Restarted, GiveUp
<1>9. CASE EnrollDisclaim
  BY <1>9 DEF EnrollDisclaim, Settle, Cleared, Finish, Conclude, Stored, Submit, SignIn,
     Restarted, GiveUp
<1>10. QED
  BY <1>1, <1>2, <1>3, <1>4, <1>5, <1>6, <1>7, <1>8, <1>9 DEF EnrollRun

LEMMA RepliesAskNothing ==
  ASSUME Replies
  PROVE  sent' = sent /\ open' \subseteq open
<1>1. CASE ReplyNoChange
  BY <1>1 DEF ReplyNoChange, Settle, Cleared, Finish, Conclude, Stored, Submit, SignIn,
     Restarted, GiveUp
<1>2. CASE ReplyLost
  BY <1>2 DEF ReplyLost, Settle, Cleared, Finish, Conclude, Stored, Submit, SignIn,
     Restarted, GiveUp
<1>3. CASE ReplyUnreadable
  BY <1>3 DEF ReplyUnreadable, Settle, Cleared, Finish, Conclude, Stored, Submit, SignIn,
     Restarted, GiveUp
<1>4. CASE ReplyUnusable
  BY <1>4 DEF ReplyUnusable, Settle, Cleared, Finish, Conclude, Stored, Submit, SignIn,
     Restarted, GiveUp
<1>5. CASE ReplyUsable
  BY <1>5 DEF ReplyUsable, Settle, Cleared, Finish, Conclude, Stored, Submit, SignIn,
     Restarted, GiveUp
<1>6. CASE EnrollRefused
  BY <1>6 DEF EnrollRefused, Settle, Cleared, Finish, Conclude, Stored, Submit, SignIn,
     Restarted, GiveUp
<1>7. CASE EnrollLost
  BY <1>7 DEF EnrollLost, Settle, Cleared, Finish, Conclude, Stored, Submit, SignIn,
     Restarted, GiveUp
<1>8. CASE EnrollKnownAttached
  BY <1>8 DEF EnrollKnownAttached, Settle, Cleared, Finish, Conclude, Stored, Submit,
     SignIn, Restarted, GiveUp
<1>9. CASE \E usable \in BOOLEAN : EnrollAnswered(usable)
  BY <1>9 DEF EnrollAnswered, Settle, Cleared, Finish, Conclude, Stored, Submit, SignIn,
     Restarted, GiveUp
<1>10. QED
  BY <1>1, <1>2, <1>3, <1>4, <1>5, <1>6, <1>7, <1>8, <1>9 DEF Replies, Replying,
     EnrollReplying

LEMMA AskedAsksNothing ==
  ASSUME Asked
  PROVE  sent' = sent /\ open' \subseteq open
<1>1. CASE \E passphrase \in BOOLEAN : RetryBegin(passphrase)
  BY <1>1 DEF RetryBegin, Settle, Cleared, Finish, Conclude, Stored, Submit, SignIn,
     Restarted, GiveUp
<1>2. CASE \E resolution \in {"notReplaced", "replaced", "resolvedOutsideApp"} : ResolveBegin(resolution)
  BY <1>2 DEF ResolveBegin, Settle, Cleared, Finish, Conclude, Stored, Submit, SignIn,
     Restarted, GiveUp
<1>3. CASE ProofAccepted
  BY <1>3 DEF ProofAccepted, Settle, Cleared, Finish, Conclude, Stored, Submit, SignIn,
     Restarted, GiveUp
<1>4. CASE ProofRefused
  BY <1>4 DEF ProofRefused, Settle, Cleared, Finish, Conclude, Stored, Submit, SignIn,
     Restarted, GiveUp
<1>5. CASE ResolveAccepted
  BY <1>5 DEF ResolveAccepted, Settle, Cleared, Finish, Conclude, Stored, Submit, SignIn,
     Restarted, GiveUp
<1>6. CASE ResolveRefused
  BY <1>6 DEF ResolveRefused, Settle, Cleared, Finish, Conclude, Stored, Submit, SignIn,
     Restarted, GiveUp
<1>7. CASE EnrollRetry
  BY <1>7 DEF EnrollRetry, Settle, Cleared, Finish, Conclude, Stored, Submit, SignIn,
     Restarted, GiveUp
<1>8. CASE \E resolution \in {"notAttached", "storedHere", "resolvedOutsideApp"} : EnrollResolve(resolution)
  BY <1>8 DEF EnrollResolve, Settle, Cleared, Finish, Conclude, Stored, Submit, SignIn,
     Restarted, GiveUp
<1>9. QED
  BY <1>1, <1>2, <1>3, <1>4, <1>5, <1>6, <1>7, <1>8 DEF Asked, Asking, EnrollAsking

LEMMA TryingAsksNothing ==
  ASSUME Trying, ~CompleteSend, ~EnrollSend
  PROVE  sent' = sent /\ open' \subseteq open
<1>1. CASE AuthenticateBegin
  BY <1>1 DEF AuthenticateBegin, Settle, Cleared, Finish, Conclude, Stored, Submit, SignIn,
     Restarted, GiveUp
<1>2. CASE AuthenticateEnd
  BY <1>2 DEF AuthenticateEnd, Settle, Cleared, Finish, Conclude, Stored, Submit, SignIn,
     Restarted, GiveUp
<1>3. CASE ChallengeBegin
  BY <1>3 DEF ChallengeBegin, Settle, Cleared, Finish, Conclude, Stored, Submit, SignIn,
     Restarted, GiveUp
<1>4. CASE ChallengeEnd
  BY <1>4 DEF ChallengeEnd, Settle, Cleared, Finish, Conclude, Stored, Submit, SignIn,
     Restarted, GiveUp
<1>5. CASE Expire
  BY <1>5 DEF Expire, Settle, Cleared, Finish, Conclude, Stored, Submit, SignIn, Restarted,
     GiveUp
<1>6. CASE Cancel
  BY <1>6 DEF Cancel, Settle, Cleared, Finish, Conclude, Stored, Submit, SignIn, Restarted,
     GiveUp
<1>7. CASE CompleteBegin
  BY <1>7 DEF CompleteBegin, Settle, Cleared, Finish, Conclude, Stored, Submit, SignIn,
     Restarted, GiveUp
<1>8. CASE CompleteMint
  BY <1>8 DEF CompleteMint, Settle, Cleared, Finish, Conclude, Stored, Submit, SignIn,
     Restarted, GiveUp
<1>9. CASE CompleteFails
  BY <1>9 DEF CompleteFails, Settle, Cleared, Finish, Conclude, Stored, Submit, SignIn,
     Restarted, GiveUp
<1>10. CASE EnrollBegin
  BY <1>10 DEF EnrollBegin, Settle, Cleared, Finish, Conclude, Stored, Submit, SignIn,
     Restarted, GiveUp
<1>11. CASE EnrollAsksCode
  BY <1>11 DEF EnrollAsksCode, Settle, Cleared, Finish, Conclude, Stored, Submit, SignIn,
     Restarted, GiveUp
<1>12. CASE EnrollCode
  BY <1>12 DEF EnrollCode, Settle, Cleared, Finish, Conclude, Stored, Submit, SignIn,
     Restarted, GiveUp
<1>13. CASE EnrollSignedIn
  BY <1>13 DEF EnrollSignedIn, Settle, Cleared, Finish, Conclude, Stored, Submit, SignIn,
     Restarted, GiveUp
<1>14. CASE EnrollFails
  BY <1>14 DEF EnrollFails, Settle, Cleared, Finish, Conclude, Stored, Submit, SignIn,
     Restarted, GiveUp
<1>15. QED
  BY <1>1, <1>2, <1>3, <1>4, <1>5, <1>6, <1>7, <1>8, <1>9, <1>10, <1>11, <1>12, <1>13, <1>14
     DEF Trying, Signing, Completing, EnrollSigning

LEMMA AroundAsksNothing ==
  ASSUME Around
  PROVE  sent' = sent /\ open' \subseteq open
<1>1. CASE Lock
  BY <1>1 DEF Lock, Settle, Cleared, Finish, Conclude, Stored, Submit, SignIn, Restarted,
     GiveUp
<1>2. CASE Unlock
  BY <1>2 DEF Unlock, Settle, Cleared, Finish, Conclude, Stored, Submit, SignIn, Restarted,
     GiveUp
<1>3. CASE ImportOld
  BY <1>3 DEF ImportOld, Settle, Cleared, Finish, Conclude, Stored, Submit, SignIn,
     Restarted, GiveUp
<1>4. CASE RemoveRow
  BY <1>4 DEF RemoveRow, Settle, Cleared, Finish, Conclude, Stored, Submit, SignIn,
     Restarted, GiveUp
<1>5. CASE Restore
  BY <1>5 DEF Restore, Settle, Cleared, Finish, Conclude, Stored, Submit, SignIn, Restarted,
     GiveUp
<1>6. CASE Adopt
  BY <1>6 DEF Adopt, Settle, Cleared, Finish, Conclude, Stored, Submit, SignIn, Restarted,
     GiveUp
<1>7. CASE Support
  BY <1>7 DEF Support, Settle, Cleared, Finish, Conclude, Stored, Submit, SignIn, Restarted,
     GiveUp
<1>8. CASE MoveAway
  BY <1>8 DEF MoveAway, Settle, Cleared, Finish, Conclude, Stored, Submit, SignIn,
     Restarted, GiveUp
<1>9. CASE Crash
  BY <1>9 DEF Crash, Settle, Cleared, Finish, Conclude, Stored, Submit, SignIn, Restarted,
     GiveUp
<1>10. CASE Reopen
  BY <1>10 DEF Reopen, Settle, Cleared, Finish, Conclude, Stored, Submit, SignIn, Restarted,
     GiveUp
<1>11. QED
  BY <1>1, <1>2, <1>3, <1>4, <1>5, <1>6, <1>7, <1>8, <1>9, <1>10 DEF Around

(* Transfers and enrolments together implement IrreversibleRequests: no    *)
(* request goes out twice, and none goes out while the outcome of another  *)
(* is unknown, whatever crashed, was lost, locked or failed in between.    *)
THEOREM PromiseKept ==
  ASSUME ReadBackFails = FALSE
  PROVE  Spec => KeepsPromise
<1>1. Init => Promise!Init /\ IInv
  BY InitKeeps DEF Init, Promise!Init
<1>2. ASSUME IInv, [Next]_allVars PROVE [Promise!Next]_<<sent, open>>
  <2>1. CASE Run
    BY <1>2, <2>1, TransferRunAsksNothing, EnrollRunAsksNothing, SaysAtMostOne DEF Run
  <2>2. CASE Replies
    BY <1>2, <2>2, RepliesAskNothing, SaysAtMostOne
  <2>3. CASE Asked
    BY <1>2, <2>3, AskedAsksNothing, SaysAtMostOne
  <2>4. CASE CompleteSend
    BY <1>2, <2>4, CompleteSendAsks
  <2>5. CASE EnrollSend
    BY <1>2, <2>5, EnrollSendAsks
  <2>6. CASE Trying /\ ~CompleteSend /\ ~EnrollSend
    BY <1>2, <2>6, TryingAsksNothing, SaysAtMostOne
  <2>7. CASE Around
    BY <1>2, <2>7, AroundAsksNothing, SaysAtMostOne
  <2>8. CASE UNCHANGED allVars
    BY <2>8 DEF allVars, vars
  <2>9. QED
    BY <1>2, <2>1, <2>2, <2>3, <2>4, <2>5, <2>6, <2>7, <2>8 DEF Next
<1>3. QED
  BY <1>1, <1>2, Inductive, PTL DEF Spec, KeepsPromise, Promise!Spec

-----------------------------------------------------------------------------
(* What a workflow throws away.                                            *)

(* The row a transfer writes over, or drops, is one Steam does not accept  *)
(* any more.                                                               *)
LEMMA WriteRowSpares ==
  ASSUME IInv, Step("write"), row # None, row.auth = steam, Vouched
  PROVE  row.auth = wf.attempt
<1>1. Types /\ World(dir, older) /\ AtStep(dir) /\ Transfers(dir, older) /\ At({"write"})
  BY JobIs DEF IInv, Inv, Core, At
<1>2. Sealed /\ (RowIs(wf.attempt) \/ (wf.prior # None => wf.prior = row.auth))
  BY <1>1 DEF AtStep, At
<1>3. /\ wf # None /\ wf.prior # None /\ Known(wf) /\ Fit(wf) /\ wf.kind = "transfer"
      /\ wf.state = "replacement"
  BY <1>1, <1>2 DEF World, Transfers, Sealed, Vouched
<1>4. wf.reply = "usable"
  BY <1>3 DEF Fit
<1>5. steam # wf.prior
  BY <1>3, <1>4 DEF Known, Superseded
<1>6. QED
  BY <1>2, <1>3, <1>5 DEF RowIs, Rows

LEMMA RemoveSpares ==
  ASSUME IInv, Step("remove"), row # None, row.auth = steam
  PROVE  row.auth # resolving.print
<1>1. Types /\ AtStep(dir) /\ Transfers(dir, older) /\ At({"remove"})
  BY JobIs DEF IInv, Inv, Core, At
<1>2. /\ resolving # None /\ resolving.resolution \in {"replaced", "resolvedOutsideApp"}
      /\ resolving.print = wf.prior /\ wf.prior # None /\ Truth(resolving.resolution)
  BY <1>1 DEF AtStep
<1>3. wf # None /\ Fit(wf)
  BY <1>1, <1>2 DEF Transfers
<1>4. wf.prior # wf.attempt /\ steam \in {wf.attempt, None}
  BY <1>2, <1>3 DEF Fit, Truth
<1>5. QED
  BY <1>2, <1>4

LEMMA TransferSpares ==
  ASSUME IInv, TransferRun, row # None, row.auth = steam, Vouched
  PROVE  row' # None /\ row'.auth = row.auth
<1>1. CASE row' = row
  BY <1>1
<1>2. CASE WriteRow \/ WriteRowFails
  <2>1. row' = row \/ row' = [auth |-> wf.attempt, backup |-> "pending"]
    BY <1>2 DEF WriteRow, WriteRowFails, Save
  <2>2. row.auth = wf.attempt
    BY <1>2, WriteRowSpares DEF WriteRow, WriteRowFails
  <2>3. [auth |-> wf.attempt, backup |-> "pending"] \in Row
    <3>1. wf.attempt \in Prints
      BY <2>2, TypesHold DEF Types, Row
    <3>2. QED
      BY <3>1 DEF Row
  <2>4. QED
    BY <2>1, <2>2, <2>3, NoneAssumption
<1>3. CASE Backup
  <2>1. row' = row \/ row' = [row EXCEPT !.backup = "current"]
    BY <1>3 DEF Backup, Save
  <2>2. row \in Row
    BY TypesHold DEF Types
  <2>3. /\ [row EXCEPT !.backup = "current"] \in Row
        /\ [row EXCEPT !.backup = "current"].auth = row.auth
    BY <2>2 DEF Row
  <2>4. QED
    BY <2>1, <2>3, NoneAssumption
<1>4. CASE ResolveRemove
  <2>1. row' = row \/ row.auth = resolving.print
    BY <1>4 DEF ResolveRemove
  <2>2. QED
    BY <1>4, <2>1, RemoveSpares DEF ResolveRemove
<1>5. ASSUME ~(WriteRow \/ WriteRowFails \/ Backup \/ ResolveRemove) PROVE row' = row
  <2>1. CASE Hydrate
    BY <2>1 DEF Hydrate, GiveUp
  <2>2. CASE RetainUnusable
    BY <2>2 DEF RetainUnusable, GiveUp
  <2>3. CASE Promote
    BY <2>3 DEF Promote, GiveUp
  <2>4. CASE PromoteSending
    BY <2>4 DEF PromoteSending, GiveUp
  <2>5. CASE Inspect
    BY <2>5 DEF Inspect, GiveUp
  <2>6. CASE InspectAgain
    BY <2>6 DEF InspectAgain, GiveUp
  <2>7. CASE BackupFails
    BY <2>7 DEF BackupFails, GiveUp
  <2>8. CASE Publish
    BY <2>8 DEF Publish, GiveUp
  <2>9. CASE Clear
    BY <2>9 DEF Clear, GiveUp
  <2>10. CASE Owe
    BY <2>10 DEF Owe, GiveUp
  <2>11. CASE Deny
    BY <2>11 DEF Deny, GiveUp
  <2>12. CASE Resolve
    BY <2>12 DEF Resolve, GiveUp
  <2>13. CASE ResolveRemoveFails
    BY <2>13 DEF ResolveRemoveFails, GiveUp
  <2>14. CASE Mark
    BY <2>14 DEF Mark, GiveUp
  <2>15. CASE Look
    BY <2>15 DEF Look, GiveUp
  <2>16. CASE Load
    BY <2>16 DEF Load, GiveUp
  <2>17. QED
    BY <1>5, <2>1, <2>2, <2>3, <2>4, <2>5, <2>6, <2>7, <2>8, <2>9, <2>10, <2>11, <2>12,
       <2>13, <2>14, <2>15, <2>16 DEF TransferRun
<1>6. QED
  BY <1>1, <1>2, <1>3, <1>4, <1>5

(* An enrolment never writes over another row than its own.                *)
LEMMA EnrollSpares ==
  ASSUME IInv, EnrollRun, row # None
  PROVE  row' # None /\ row'.auth = row.auth
<1>1. row \in Row
  BY TypesHold DEF Types
<1>2. CASE row' = row
  BY <1>2
<1>3. CASE EnrollStore
  <2>1. row' = row \/ (row' = NewRow /\ row.auth = erec.attempt)
    BY <1>3 DEF EnrollStore, Save
  <2>2. row.auth = erec.attempt => NewRow \in Row /\ NewRow.auth = row.auth
    BY <1>1 DEF Row, NewRow
  <2>3. QED
    BY <2>1, <2>2, NoneAssumption
<1>4. CASE EnrollCopy
  <2>1. row' = row \/ row' = [row EXCEPT !.backup = "current"]
    BY <1>4 DEF EnrollCopy, Save
  <2>2. /\ [row EXCEPT !.backup = "current"] \in Row
        /\ [row EXCEPT !.backup = "current"].auth = row.auth
    BY <1>1 DEF Row
  <2>3. QED
    BY <2>1, <2>2, NoneAssumption
<1>5. ASSUME ~(EnrollStore \/ EnrollCopy) PROVE row' = row
  <2>1. CASE EnrollPeek
    BY <2>1 DEF EnrollPeek
  <2>2. CASE EnrollStoreFails
    BY <2>2 DEF EnrollStoreFails
  <2>3. CASE EnrollCopyFails
    BY <2>3 DEF EnrollCopyFails
  <2>4. CASE EnrollAnnounce
    BY <2>4 DEF EnrollAnnounce
  <2>5. CASE EnrollErase
    BY <2>5 DEF EnrollErase
  <2>6. CASE EnrollOwn
    BY <2>6 DEF EnrollOwn
  <2>7. CASE EnrollDisclaim
    BY <2>7 DEF EnrollDisclaim
  <2>8. QED
    BY <1>5, <2>1, <2>2, <2>3, <2>4, <2>5, <2>6, <2>7 DEF EnrollRun
<1>6. QED
  BY <1>2, <1>3, <1>4, <1>5

LEMMA Spares ==
  ASSUME IInv
  PROVE  CurrentIsKept
BY TransferSpares, EnrollSpares DEF CurrentIsKept, Run

(* A reply that a file holds is shown by the reading of it.                *)
LEMMA UsableShows ==
  ASSUME IInv, Reconcilable(dir), NEW f \in dir.files, f.reply = "usable"
  PROVE  \E g \in Merged(dir).files : g.reply = "usable"
<1>1. Single(dir) /\ \A r \in Recs(dir) : Fit(r)
  BY WrittenBy DEF IInv, Inv, Core, Sound
<1>2. PICK g \in Merged(dir).files : f.reply # "none" => g.reply = f.reply
  BY <1>1, MergedSound
<1>3. QED
  BY <1>2

LEMMA ResolveForfeits ==
  ASSUME IInv, Resolve, NEW n \in received \ received', Usable(n)
  PROVE  FALSE
<1>1. PICK x \in Reads :
        LET r == Exact(x.dir)
        IN /\ Happens(x)
           /\ received' # received =>
                x.ok /\ r # None /\ Allowed(job.resolution, r)
  BY DEF Resolve
<1>2. /\ Inv(dir', older') /\ x.dir = dir'
      /\ x.ok => /\ ~debt /\ Reconcilable(dir) /\ dir' = Merged(dir)
                 /\ dir'.staged = {} /\ ~dir'.torn
  BY <1>1, ReadHappens
<1> DEFINE r == Exact(dir')
<1>3. x.ok /\ r # None /\ Allowed(job.resolution, r)
  BY <1>1, <1>2
<1>4. wf # None /\ ~Holding
  BY JobIs, TypesHold DEF IInv, Inv, AtStep, At, Resolve
<1>5. staged = None /\ ~unsaved
  BY <1>4 DEF IInv, Inv, Core, Transfers, Holding
<1>6. PICK f \in dir.files : f.reply = "usable"
  BY <1>5 DEF Usable
<1>7. PICK g \in dir'.files : g.reply = "usable"
  BY <1>2, <1>3, <1>6, UsableShows
<1>8. Fit(r) /\ (dir'.files = {r} \/ dir'.files = {})
  BY <1>2, <1>3, <1>4, ExactFits
<1>9. r = g /\ r.state \in {"replacement", "recoverable"} /\ r.kind = "transfer"
  BY <1>2, <1>3, <1>4, <1>7, <1>8, ExactFits DEF Fit
<1>10. r.state = "replacement"
  BY <1>8, <1>9 DEF Fit, TransferStates
<1>11. QED
  BY <1>3, <1>10 DEF Allowed

LEMMA ResolveRemoveForfeits ==
  ASSUME IInv, ResolveRemove, NEW n, Usable(n)
  PROVE  FALSE
<1>1. Types /\ AtStep(dir) /\ Transfers(dir, older) /\ At({"remove"})
  BY JobIs DEF IInv, Inv, Core, At, ResolveRemove
<1>2. wf.reply = "none" /\ wf.prior # None /\ ~Holding /\ Read(wf, dir) /\ resolving # None
  BY <1>1 DEF AtStep
<1>3. wf # None /\ staged = None
  BY <1>1, <1>2 DEF Transfers
<1>4. QED
  BY <1>2, <1>3 DEF Usable, Read, Holding

LEMMA EnrollResolveForfeits ==
  ASSUME IInv, NEW resolution \in {"notAttached", "storedHere", "resolvedOutsideApp"},
         EnrollResolve(resolution), NEW n \in received \ received', Usable(n)
  PROVE  FALSE
<1> DEFINE found == Found("enrollment")
<1>1. PICK r \in IF found # {} THEN found ELSE {enrollOwed} \ {None} :
        /\ Permitted(r, found # {}, resolution)
        /\ IF resolution # "storedHere" THEN Settle(r.attempt)
           ELSE UNCHANGED <<open, received>>
  BY DEF EnrollResolve
<1>2. resolution # "storedHere" /\ n = r.attempt
  BY <1>1 DEF Settle
<1>3. Idle /\ login # "asked" /\ ReadsWell
  BY DEF EnrollResolve, Busy
<1>4. /\ Inv(dir', older') /\ dir' = Merged(dir) /\ dir'.staged = {} /\ ~dir'.torn
      /\ Reconcilable(dir)
  BY <1>3, ReadsWellKeeps
<1>5. /\ unsaved = FALSE /\ r.kind = "enrollment"
      /\ \A f \in dir'.files : f.kind = "enrollment"
  <2>1. CASE found # {}
    <3>1. r \in Recs(dir') /\ r.kind = "enrollment"
      BY <1>1, <1>4, <2>1 DEF Found, Recs
    <3>2. unsaved = FALSE /\ Mine(r, dir', older')
      BY <1>3, <1>4, <3>1, EnrollFound
    <3>3. QED
      BY <3>1, <3>2, WrittenBy DEF Mine, SameIdentity, Recs
  <2>2. CASE found = {}
    <3>1. r = enrollOwed /\ enrollOwed # None
      BY <1>1, <2>2
    <3>2. unsaved = FALSE /\ Mine(enrollOwed, dir', older') /\ enrollOwed.kind = "enrollment"
      BY <1>3, <1>4, <3>1, EnrollOwing
    <3>3. QED
      BY <3>1, <3>2, WrittenBy DEF Mine, SameIdentity, Recs
  <2>3. QED
    BY <2>1, <2>2
<1>6. CASE Theirs(r) /\ staged.usable
  <2>1. CASE resolution = "notAttached"
    BY <1>1, <1>6, <2>1 DEF Permitted
  <2>2. CASE resolution = "resolvedOutsideApp"
    BY <1>1, <1>6, <2>2 DEF Permitted
  <2>3. QED
    BY <1>2, <2>1, <2>2
<1>7. CASE \E f \in dir.files : f.reply = "usable"
  <2>1. PICK g \in dir'.files : g.reply = "usable"
    BY <1>4, <1>7, UsableShows
  <2>2. g \in found
    BY <1>4, <1>5, <2>1 DEF Found
  <2>3. (found # {}) = TRUE
    BY <2>2
  <2>4. r = g
    BY <1>1, <1>4, <2>1, <2>3 DEF Found, Inv, Core, Sound, Single
  <2>5. CASE resolution = "notAttached"
    BY <1>1, <2>1, <2>3, <2>4, <2>5 DEF Permitted
  <2>6. CASE resolution = "resolvedOutsideApp"
    BY <1>1, <2>1, <2>3, <2>4, <2>6 DEF Permitted
  <2>7. QED
    BY <1>2, <2>5, <2>6
<1>8. QED
  BY <1>2, <1>5, <1>6, <1>7 DEF Usable, Theirs

(* A run that settles an attempt has its row and the row's recovery file.  *)
LEMMA ClearForfeits ==
  ASSUME IInv, Clear, NEW n \in received \ received'
  PROVE  row # None /\ row.auth = n /\ row.backup = "current"
<1>1. Saving /\ n = wf.attempt
  BY DEF Clear, Cleared, Settle
<1>2. Secured(wf.attempt)
  BY <1>1, JobIs, TypesHold DEF IInv, Inv, AtStep, At, Clear
<1>3. QED
  BY <1>1, <1>2 DEF Secured, RowIs, Rows

LEMMA EraseForfeits ==
  ASSUME IInv, EnrollErase, NEW n \in received \ received'
  PROVE  row # None /\ row.auth = n /\ (job.resolution = None => row.backup = "current")
<1>1. Stowed /\ n = erec.attempt
  BY DEF EnrollErase, Settle
<1>2. /\ job.resolution = None => Secured(erec.attempt)
      /\ job.resolution = "storedHere" => RowIs(erec.attempt)
  BY JobIs, TypesHold DEF IInv, Inv, EnrollAtStep, At, EnrollErase
<1>3. QED
  BY <1>1, <1>2 DEF Stowed, Secured, RowIs, Rows

LEMMA RestartStarts ==
  ASSUME IInv, Restarted
  PROVE  Starts
<1>1. [step |-> "load", by |-> "start", passphrase |-> FALSE, resolution |-> None] \in Job
  BY DEF Job
<1>2. job' # None /\ job'.step = "load"
  BY <1>1, TypesHold, Started DEF Restarted
<1>3. QED
  BY <1>2 DEF Starts

LEMMA TransferRunForfeits ==
  ASSUME IInv, TransferRun, NEW n \in received \ received', Usable(n)
  PROVE  \/ Starts
            \/ /\ row # None /\ row.auth = n
               /\ job.resolution = None => row.backup = "current"
<1>1. CASE Clear
  BY <1>1, ClearForfeits
<1>2. CASE Resolve
  BY <1>2, ResolveForfeits
<1>3. CASE ResolveRemove
  BY <1>3, ResolveRemoveForfeits
<1>4. CASE Load
  BY <1>4, JobIs DEF Load, Starts
<1>5. CASE Hydrate
  BY <1>5 DEF Hydrate, Finish, Conclude, Submit, SignIn, GiveUp
<1>6. CASE RetainUnusable
  BY <1>6 DEF RetainUnusable, Finish, Conclude, Submit, SignIn, GiveUp
<1>7. CASE Promote
  BY <1>7 DEF Promote, Finish, Conclude, Submit, SignIn, GiveUp
<1>8. CASE PromoteSending
  BY <1>8 DEF PromoteSending, Finish, Conclude, Submit, SignIn, GiveUp
<1>9. CASE Inspect
  BY <1>9 DEF Inspect, Finish, Conclude, Submit, SignIn, GiveUp
<1>10. CASE InspectAgain
  BY <1>10 DEF InspectAgain, Finish, Conclude, Submit, SignIn, GiveUp
<1>11. CASE WriteRow
  BY <1>11 DEF WriteRow, Finish, Conclude, Submit, SignIn, GiveUp
<1>12. CASE WriteRowFails
  BY <1>12 DEF WriteRowFails, Finish, Conclude, Submit, SignIn, GiveUp
<1>13. CASE Backup
  BY <1>13 DEF Backup, Finish, Conclude, Submit, SignIn, GiveUp
<1>14. CASE BackupFails
  BY <1>14 DEF BackupFails, Finish, Conclude, Submit, SignIn, GiveUp
<1>15. CASE Publish
  BY <1>15 DEF Publish, Finish, Conclude, Submit, SignIn, GiveUp
<1>16. CASE Owe
  BY <1>16 DEF Owe, Finish, Conclude, Submit, SignIn, GiveUp
<1>17. CASE Deny
  BY <1>17 DEF Deny, Finish, Conclude, Submit, SignIn, GiveUp
<1>18. CASE ResolveRemoveFails
  BY <1>18 DEF ResolveRemoveFails, Finish, Conclude, Submit, SignIn, GiveUp
<1>19. CASE Mark
  BY <1>19 DEF Mark, Finish, Conclude, Submit, SignIn, GiveUp
<1>20. CASE Look
  BY <1>20 DEF Look, Finish, Conclude, Submit, SignIn, GiveUp
<1>21. QED
  BY <1>1, <1>2, <1>3, <1>4, <1>5, <1>6, <1>7, <1>8, <1>9, <1>10, <1>11, <1>12, <1>13,
     <1>14, <1>15, <1>16, <1>17, <1>18, <1>19, <1>20 DEF TransferRun

LEMMA EnrollRunForfeits ==
  ASSUME IInv, EnrollRun, NEW n \in received \ received', Usable(n)
  PROVE  \/ Starts
            \/ /\ row # None /\ row.auth = n
               /\ job.resolution = None => row.backup = "current"
<1>1. CASE EnrollErase
  BY <1>1, EraseForfeits
<1>2. CASE EnrollPeek
  BY <1>2 DEF EnrollPeek, Finish, Conclude, Submit, SignIn, GiveUp
<1>3. CASE EnrollStore
  BY <1>3 DEF EnrollStore, Finish, Conclude, Submit, SignIn, GiveUp
<1>4. CASE EnrollStoreFails
  BY <1>4 DEF EnrollStoreFails, Finish, Conclude, Submit, SignIn, GiveUp
<1>5. CASE EnrollCopy
  BY <1>5 DEF EnrollCopy, Finish, Conclude, Submit, SignIn, GiveUp
<1>6. CASE EnrollCopyFails
  BY <1>6 DEF EnrollCopyFails, Finish, Conclude, Submit, SignIn, GiveUp
<1>7. CASE EnrollAnnounce
  BY <1>7 DEF EnrollAnnounce, Finish, Conclude, Submit, SignIn, GiveUp
<1>8. CASE EnrollOwn
  BY <1>8 DEF EnrollOwn, Finish, Conclude, Submit, SignIn, GiveUp
<1>9. CASE EnrollDisclaim
  BY <1>9 DEF EnrollDisclaim, Finish, Conclude, Submit, SignIn, GiveUp
<1>10. QED
  BY <1>1, <1>2, <1>3, <1>4, <1>5, <1>6, <1>7, <1>8, <1>9 DEF EnrollRun

LEMMA RepliesForfeit ==
  ASSUME IInv, Replies, NEW n \in received \ received', Usable(n)
  PROVE  \/ Starts
            \/ /\ row # None /\ row.auth = n
               /\ job.resolution = None => row.backup = "current"
<1>1. CASE ReplyNoChange
  BY <1>1 DEF ReplyNoChange, Finish, Conclude, Submit, SignIn, GiveUp
<1>2. CASE ReplyLost
  BY <1>2 DEF ReplyLost, Finish, Conclude, Submit, SignIn, GiveUp
<1>3. CASE ReplyUnreadable
  BY <1>3 DEF ReplyUnreadable, Finish, Conclude, Submit, SignIn, GiveUp
<1>4. CASE ReplyUnusable
  BY <1>4 DEF ReplyUnusable, Finish, Conclude, Submit, SignIn, GiveUp
<1>5. CASE ReplyUsable
  BY <1>5 DEF ReplyUsable, Finish, Conclude, Submit, SignIn, GiveUp
<1>6. CASE EnrollRefused
  BY <1>6 DEF EnrollRefused, Finish, Conclude, Submit, SignIn, GiveUp
<1>7. CASE EnrollLost
  BY <1>7 DEF EnrollLost, Finish, Conclude, Submit, SignIn, GiveUp
<1>8. CASE EnrollKnownAttached
  BY <1>8 DEF EnrollKnownAttached, Finish, Conclude, Submit, SignIn, GiveUp
<1>9. CASE \E usable \in BOOLEAN : EnrollAnswered(usable)
  BY <1>9 DEF EnrollAnswered, Finish, Conclude, Submit, SignIn, GiveUp
<1>10. QED
  BY <1>1, <1>2, <1>3, <1>4, <1>5, <1>6, <1>7, <1>8, <1>9 DEF Replies, Replying,
     EnrollReplying

LEMMA AskedForfeits ==
  ASSUME IInv, Asked, NEW n \in received \ received', Usable(n)
  PROVE  \/ Starts
            \/ /\ row # None /\ row.auth = n
               /\ job.resolution = None => row.backup = "current"
<1>1. CASE \E resolution \in {"notAttached", "storedHere", "resolvedOutsideApp"} :
               EnrollResolve(resolution)
  BY <1>1, EnrollResolveForfeits
<1>2. CASE \E passphrase \in BOOLEAN : RetryBegin(passphrase)
  BY <1>2 DEF RetryBegin, Finish, Conclude, Submit, SignIn, GiveUp
<1>3. CASE \E resolution \in {"notReplaced", "replaced", "resolvedOutsideApp"} : ResolveBegin(resolution)
  BY <1>3 DEF ResolveBegin, Finish, Conclude, Submit, SignIn, GiveUp
<1>4. CASE ProofAccepted
  BY <1>4 DEF ProofAccepted, Finish, Conclude, Submit, SignIn, GiveUp
<1>5. CASE ProofRefused
  BY <1>5 DEF ProofRefused, Finish, Conclude, Submit, SignIn, GiveUp
<1>6. CASE ResolveAccepted
  BY <1>6 DEF ResolveAccepted, Finish, Conclude, Submit, SignIn, GiveUp
<1>7. CASE ResolveRefused
  BY <1>7 DEF ResolveRefused, Finish, Conclude, Submit, SignIn, GiveUp
<1>8. CASE EnrollRetry
  BY <1>8 DEF EnrollRetry, Finish, Conclude, Submit, SignIn, GiveUp
<1>9. QED
  BY <1>1, <1>2, <1>3, <1>4, <1>5, <1>6, <1>7, <1>8 DEF Asked, Asking, EnrollAsking

LEMMA TryingForfeits ==
  ASSUME IInv, Trying, NEW n \in received \ received', Usable(n)
  PROVE  \/ Starts
            \/ /\ row # None /\ row.auth = n
               /\ job.resolution = None => row.backup = "current"
<1>1. CASE AuthenticateBegin
  BY <1>1 DEF AuthenticateBegin, Finish, Conclude, Submit, SignIn, GiveUp
<1>2. CASE AuthenticateEnd
  BY <1>2 DEF AuthenticateEnd, Finish, Conclude, Submit, SignIn, GiveUp
<1>3. CASE ChallengeBegin
  BY <1>3 DEF ChallengeBegin, Finish, Conclude, Submit, SignIn, GiveUp
<1>4. CASE ChallengeEnd
  BY <1>4 DEF ChallengeEnd, Finish, Conclude, Submit, SignIn, GiveUp
<1>5. CASE Expire
  BY <1>5 DEF Expire, Finish, Conclude, Submit, SignIn, GiveUp
<1>6. CASE Cancel
  BY <1>6 DEF Cancel, Finish, Conclude, Submit, SignIn, GiveUp
<1>7. CASE CompleteBegin
  BY <1>7 DEF CompleteBegin, Finish, Conclude, Submit, SignIn, GiveUp
<1>8. CASE CompleteMint
  BY <1>8 DEF CompleteMint, Finish, Conclude, Submit, SignIn, GiveUp
<1>9. CASE CompleteFails
  BY <1>9 DEF CompleteFails, Finish, Conclude, Submit, SignIn, GiveUp
<1>10. CASE CompleteSend
  BY <1>10 DEF CompleteSend, Finish, Conclude, Submit, SignIn, GiveUp
<1>11. CASE EnrollBegin
  BY <1>11 DEF EnrollBegin, Finish, Conclude, Submit, SignIn, GiveUp
<1>12. CASE EnrollAsksCode
  BY <1>12 DEF EnrollAsksCode, Finish, Conclude, Submit, SignIn, GiveUp
<1>13. CASE EnrollCode
  BY <1>13 DEF EnrollCode, Finish, Conclude, Submit, SignIn, GiveUp
<1>14. CASE EnrollSignedIn
  BY <1>14 DEF EnrollSignedIn, Finish, Conclude, Submit, SignIn, GiveUp
<1>15. CASE EnrollFails
  BY <1>15 DEF EnrollFails, Finish, Conclude, Submit, SignIn, GiveUp
<1>16. CASE EnrollSend
  BY <1>16 DEF EnrollSend, Finish, Conclude, Submit, SignIn, GiveUp
<1>17. QED
  BY <1>1, <1>2, <1>3, <1>4, <1>5, <1>6, <1>7, <1>8, <1>9, <1>10, <1>11, <1>12, <1>13,
     <1>14, <1>15, <1>16 DEF Trying, Signing, Completing, EnrollSigning

LEMMA AroundForfeits ==
  ASSUME IInv, Around, NEW n \in received \ received', Usable(n)
  PROVE  \/ Starts
            \/ /\ row # None /\ row.auth = n
               /\ job.resolution = None => row.backup = "current"
<1>1. CASE Crash
  BY <1>1, RestartStarts DEF Crash
<1>2. CASE Reopen
  BY <1>2, RestartStarts DEF Reopen
<1>3. CASE Lock
  BY <1>3 DEF Lock, Finish, Conclude, Submit, SignIn, GiveUp
<1>4. CASE Unlock
  BY <1>4 DEF Unlock, Finish, Conclude, Submit, SignIn, GiveUp
<1>5. CASE ImportOld
  BY <1>5 DEF ImportOld, Finish, Conclude, Submit, SignIn, GiveUp
<1>6. CASE RemoveRow
  BY <1>6 DEF RemoveRow, Finish, Conclude, Submit, SignIn, GiveUp
<1>7. CASE Restore
  BY <1>7 DEF Restore, Finish, Conclude, Submit, SignIn, GiveUp
<1>8. CASE Adopt
  BY <1>8 DEF Adopt, Finish, Conclude, Submit, SignIn, GiveUp
<1>9. CASE Support
  BY <1>9 DEF Support, Finish, Conclude, Submit, SignIn, GiveUp
<1>10. CASE MoveAway
  BY <1>10 DEF MoveAway, Finish, Conclude, Submit, SignIn, GiveUp
<1>11. QED
  BY <1>1, <1>2, <1>3, <1>4, <1>5, <1>6, <1>7, <1>8, <1>9, <1>10 DEF Around

LEMMA Forfeits ==
  ASSUME IInv, [Next]_allVars
  PROVE  UsableIsSaved
<1>1. SUFFICES ASSUME NEW n \in received \ received', Usable(n)
               PROVE  \/ Starts
                      \/ /\ row # None /\ row.auth = n
                         /\ job.resolution = None => row.backup = "current"
  BY DEF UsableIsSaved
<1>2. ~UNCHANGED allVars
  BY <1>1 DEF allVars, vars
<1>3. QED
  BY <1>1, <1>2, TransferRunForfeits, EnrollRunForfeits, RepliesForfeit, AskedForfeits,
     TryingForfeits, AroundForfeits DEF Next, Run

(* What Steam accepts by now, or issued and can be used, is never what a   *)
(* workflow throws away: the row it overwrites or drops is an obsolete     *)
(* one, and a usable reply is let go of only with its row in the vault and *)
(* the recovery file written, or at the user's word for a row that is      *)
(* there.                                                                  *)
THEOREM ObsoleteGoes ==
  ASSUME ReadBackFails = FALSE
  PROVE  Spec => OnlyTheObsoleteGoes
<1>1. IInv /\ [Next]_allVars => CurrentIsKept /\ UsableIsSaved
  BY Spares, Forfeits
<1>2. Init => IInv
  BY InitKeeps
<1>3. QED
  BY <1>1, <1>2, Inductive, PTL DEF Spec, OnlyTheObsoleteGoes
=============================================================================
