------------------------------ MODULE Transfer ------------------------------
(***************************************************************************)
(* Moving an account's authenticator from a phone to this program          *)
(* (src/main/steam/transfer.ts and transfer-ipc.ts), for one account.      *)
(*                                                                         *)
(* Submitting the texted code makes Steam replace the authenticator and    *)
(* send the new secrets once.  Everything before that is harmless, nothing *)
(* after it can be asked again.  So a note is published first, the reply   *)
(* is sealed into it before anything else is done with it, and the note is *)
(* cleared only when the vault holds the secrets and their recovery file.  *)
(*                                                                         *)
(* A synchronous run of the code over journal and vault is a `job', one    *)
(* action per step; while there is one only a crash can come between.      *)
(***************************************************************************)
EXTENDS WorkflowJournal

CONSTANTS
  Old,         \* the authenticator the phone holds at first
  Elsewhere    \* one made with another device

ASSUME PrintsAssumption ==
  /\ Prints = Attempts \cup {Old, Elsewhere}
  /\ Old # Elsewhere /\ {Old, Elsewhere} \cap Attempts = {}

(* A row of the vault; `backup' is the state of its recovery file.         *)
Row == [auth : Prints, backup : {"none", "pending", "current"}]
Resolutions == {"notReplaced", "replaced", "notAttached", "storedHere", "resolvedOutsideApp"}

VARIABLES
  wf,           \* workflow: the record this process goes by, or None
  problem,      \* workflowProblem: the journal could not be read at the start
  owed,         \* cleanupDebt: a record unlinked without a flush, or None
  pending,      \* the sign-in: none, live, or spent (its token dropped)
  terminal,     \* the outcome nothing more can be asked about, or None
  auth,         \* authenticating: no, fresh, or stale (a lock came between)
  challenging,
  phase,        \* submitting: no, routing, minting, asked, saving
  recovering,
  unsaved,      \* the replacement is held in memory
  badHeld,      \* a reply that cannot be used is held in memory
  proving,      \* persist awaits a passphrase for the row with this print
  resolving,    \* resolve awaits a passphrase, or None
  job           \* the synchronous run under way, or None

VARIABLES unlocked, row, bak

(* The world, and what is remembered of it for the properties.             *)
VARIABLES
  steam,        \* the authenticator Steam accepts; None once Support removed it
  enrollOwed,   \* what the enrolment service owes, as cleanupDebt
  enrollHolds,  \* it holds the reservation of the coordinator
  sent,         \* attempts whose request went out
  open,         \* those neither proved harmless, stored nor resolved
  received,     \* attempts whose secrets reached this process, until settled
  adopted       \* another vault file was taken over

notes == <<wf, problem, owed>>
signin == <<pending, terminal, auth, challenging>>
asking == <<phase, recovering, proving, resolving>>
transfer == <<notes, signin, asking, unsaved, badHeld>>
service == <<transfer, job>>
vault == <<unlocked, row, bak>>
enrolment == <<enrollOwed, enrollHolds>>
world == <<steam, enrolment, sent, open, received, adopted>>
vars == <<journalVars, service, vault, world>>

Job == [step : {"load", "hydrate", "promote", "inspect", "write", "backup",
                "publish", "clear", "owe", "deny", "resolve", "remove", "mark",
                "look", "peek", "store", "copy", "announce", "erase", "own", "disclaim"},
        by : {"start", "submission", "recovery", "resolution"},
        passphrase : BOOLEAN, resolution : Resolutions \cup {None}]

ASSUME NoneAssumption ==
  None \notin Prints \cup Row \cup Record \cup Resolutions \cup Job
                 \cup [resolution : Resolutions, print : Prints]

Idle == job = None
Submitting == phase # "no"
Holding == unsaved \/ badHeld
NoEnrollment == enrollOwed = None /\ Found("enrollment") = {}

(* The reservations of the key operation coordinator.                      *)
SteamOperation == Submitting \/ recovering \/ enrollHolds
Reservable == ~SteamOperation /\ resolving = None

Step(s) == job # None /\ job.step = s
Goto(s) == job' = [job EXCEPT !.step = s]
Start(s, by, passphrase, resolution) ==
  job' = [step |-> s, by |-> by, passphrase |-> passphrase, resolution |-> resolution]

Turned(r, state, reply) == [r EXCEPT !.state = state, !.reply = reply]

-----------------------------------------------------------------------------
(* Signing in and asking for the code.                                     *)
AuthenticateBegin ==
  /\ Idle /\ unlocked /\ NoEnrollment /\ ReadsWell /\ auth = "no" /\ ~problem
  /\ ~Submitting /\ ~challenging
  /\ ~Holding /\ terminal = None /\ wf = None
  /\ auth' = "fresh"
  /\ UNCHANGED <<notes, pending, terminal, challenging, asking,
                 unsaved, badHeld, job, vault, world>>

AuthenticateEnd ==
  /\ Idle /\ auth # "no" /\ auth' = "no"
  /\ \/ /\ NoEnrollment /\ ReadsWell /\ unlocked /\ row = None /\ auth = "fresh"
        /\ ~Holding /\ terminal = None /\ ~Submitting
        /\ pending' = "live"
     \/ UNCHANGED <<journalVars, pending>>
  /\ UNCHANGED <<notes, terminal, challenging, asking, unsaved,
                 badHeld, job, vault, world>>

ChallengeBegin ==
  /\ Idle /\ unlocked /\ pending # "none" /\ NoEnrollment /\ ReadsWell
  /\ ~Holding /\ terminal = None /\ ~challenging /\ ~Submitting /\ auth = "no"
  /\ challenging' = TRUE
  /\ UNCHANGED <<notes, pending, terminal, auth, asking, unsaved,
                 badHeld, job, vault, world>>

ChallengeEnd ==
  /\ Idle /\ challenging /\ challenging' = FALSE
  /\ UNCHANGED <<journalVars, notes, pending, terminal, auth, asking, unsaved,
                 badHeld, job, vault, world>>

(* live: a sign-in older than its term is forgotten when it is looked at.  *)
Expire ==
  /\ Idle /\ pending # "none" /\ ~Holding /\ terminal = None
  /\ pending' = "none"
  /\ UNCHANGED <<journalVars, notes, terminal, auth, challenging, asking,
                 unsaved, badHeld, job, vault, world>>

-----------------------------------------------------------------------------
(* Submitting the code, up to the request.                                 *)
Submit(to) ==
  /\ phase' = to
  /\ UNCHANGED <<notes, signin, recovering, unsaved, badHeld,
                 proving, resolving, job, vault, world>>

CompleteBegin ==
  /\ Idle /\ unlocked /\ NoEnrollment /\ ReadsWell /\ terminal = None
  /\ pending # "none" /\ ~Submitting /\ ~challenging
  /\ ~Holding /\ wf = None
  /\ row = None /\ Reservable
  /\ Submit("routing")

CompleteMint ==
  /\ Idle /\ phase = "routing" /\ pending = "live"
  /\ Submit("minting") /\ UNCHANGED journalVars

(* No transport, no session left, or no token.                             *)
CompleteFails ==
  /\ Idle /\ phase \in {"routing", "minting"}
  /\ Submit("no") /\ UNCHANGED journalVars

(* The note, and in the same run the request.                              *)
CompleteSend ==
  /\ Idle /\ phase = "minting" /\ unlocked
  /\ \E n \in FreshNames(sent) :
       LET r == [attempt |-> n, kind |-> "transfer", state |-> "sending",
                 reply |-> "none", published |-> FALSE,
                 prior |-> IF bak = None THEN None ELSE bak.auth]
       IN \E x \in Creates(r) :
            /\ Happens(x)
            /\ wf' = IF x.ok THEN r ELSE wf
            /\ phase' = IF x.ok THEN "asked" ELSE "no"
            /\ sent' = IF x.ok THEN sent \cup {n} ELSE sent
            /\ open' = IF x.ok THEN open \cup {n} ELSE open
  /\ UNCHANGED <<problem, owed, signin, recovering, unsaved, badHeld, proving,
                 resolving, job, vault, steam, enrolment, received, adopted>>

-----------------------------------------------------------------------------
(* What comes back.                                                        *)
Executed == steam # None /\ steam' = wf.attempt
Answered == Idle /\ phase = "asked"

(* A refusal, or a failure that proves the request never left.             *)
ReplyNoChange ==
  /\ Answered
  /\ Start("clear", "submission", FALSE, "notReplaced")
  /\ open' = open \ {wf.attempt}
  /\ UNCHANGED <<journalVars, notes, signin, asking, unsaved, badHeld, vault,
                 steam, enrolment, sent, received, adopted>>

(* finish                                                                  *)
Finish(kind) ==
  /\ terminal' = kind /\ pending' = "none" /\ phase' = "no"
  /\ \E x \in Updates(Turned(wf, kind, "none")) :
       /\ Happens(x)
       /\ wf' = IF x.ok THEN Turned(wf, kind, "none") ELSE wf
  /\ UNCHANGED <<problem, owed, auth, challenging, recovering, unsaved,
                 badHeld, proving, resolving, job, vault, enrolment, sent,
                 open, received, adopted>>

(* The connection broke, or the answer does not say.                       *)
ReplyLost == Answered /\ (Executed \/ UNCHANGED steam) /\ Finish("unanswered")

(* An answer came and nothing in it can be kept.                           *)
ReplyUnreadable == Answered /\ (Executed \/ UNCHANGED steam) /\ Finish("unreadable")

(* A replacement this version cannot use, but must not lose.               *)
ReplyUnusable ==
  /\ Answered /\ Executed
  /\ received' = received \cup {wf.attempt}
  /\ \E x \in Updates(Turned(wf, "unreadable", "unusable")) :
       /\ Happens(x)
       /\ wf' = IF x.ok THEN Turned(wf, "unreadable", "unusable") ELSE wf
       /\ badHeld' = ~x.ok
  /\ terminal' = "unreadable" /\ pending' = "none" /\ phase' = "no"
  /\ UNCHANGED <<problem, owed, auth, challenging, recovering, unsaved,
                 proving, resolving, job, vault, enrolment, sent, open,
                 adopted>>

ReplyUsable ==
  /\ Answered /\ Executed
  /\ received' = received \cup {wf.attempt}
  /\ pending' = IF pending = "none" THEN "none" ELSE "spent"
  /\ \E x \in Updates(Turned(wf, "replacement", "usable")) :
       /\ Happens(x)
       /\ wf' = IF x.ok THEN Turned(wf, "replacement", "usable") ELSE wf
       /\ unsaved' = ~x.ok
       /\ IF x.ok THEN Start("hydrate", "submission", FALSE, None) ELSE UNCHANGED job
       /\ phase' = IF x.ok THEN "saving" ELSE "no"
  /\ UNCHANGED <<problem, owed, terminal, auth, challenging, recovering,
                 badHeld, proving, resolving, vault, enrolment, sent, open,
                 adopted>>

-----------------------------------------------------------------------------
(* Storing the replacement: retryPersistUnderReservation and persist.      *)

(* The end of a run, whatever it came to: the `finally' clauses.           *)
EndMemory(record) ==
  /\ job' = None /\ phase' = "no" /\ recovering' = FALSE /\ proving' = None
  /\ resolving' = None
  /\ unsaved' = (unsaved /\ ~(record # None /\ record.state = "replacement"))

GiveUp ==
  /\ EndMemory(wf)
  /\ UNCHANGED <<journalVars, notes, signin, badHeld, vault, world>>

(* retryPersist ("Finish recovery"), with or without the passphrase.       *)
RetryBegin(passphrase) ==
  /\ Idle /\ unlocked /\ ~recovering /\ ~Submitting
  /\ pending # "none" \/ terminal # None \/ wf # None
  /\ Reservable
  /\ recovering' = TRUE
  /\ Start("hydrate", "recovery", passphrase, None)
  /\ UNCHANGED <<journalVars, notes, signin, phase, unsaved, badHeld, proving,
                 resolving, vault, world>>

(* A reply that cannot be used only has to reach its record.               *)
RetainUnusable ==
  /\ Step("hydrate") /\ badHeld /\ wf # None
  /\ \E x \in Updates(Turned(wf, "unreadable", "unusable")) :
       /\ Happens(x)
       /\ wf' = IF x.ok THEN Turned(wf, "unreadable", "unusable") ELSE wf
       /\ badHeld' = ~x.ok
  /\ job' = None /\ phase' = "no" /\ recovering' = FALSE
  /\ UNCHANGED <<problem, owed, signin, unsaved, proving, resolving, vault,
                 world>>

Sealed == wf # None /\ wf.state = "replacement"

(* hydrateReplacement                                                      *)
Hydrate ==
  /\ Step("hydrate") /\ ~badHeld
  /\ IF unsaved \/ Sealed
     THEN /\ unsaved' = TRUE /\ Goto("promote")
          /\ UNCHANGED <<journalVars, notes, signin, asking, badHeld, vault,
                         world>>
     ELSE GiveUp

(* The record the disk has for the attempt this process goes by, or the    *)
(* one it owes the removal of.                                             *)
Exact(d) ==
  LET found == {f \in Records(d, "transfer") : f.attempt = wf.attempt}
  IN IF found # {} THEN CHOOSE f \in found : TRUE
     ELSE IF owed # None /\ owed.attempt = wf.attempt THEN owed ELSE None
Ambiguous(d) ==
  \/ Cardinality(Records(d, "transfer")) > 1
  \/ \E f \in Records(d, "transfer") : f.attempt # wf.attempt

(* promoteReplacementBeforeVaultWrite: the reading ...                     *)
Promote ==
  /\ Step("promote")
  /\ \E x \in Reads :
       /\ Happens(x)
       /\ IF x.ok /\ ~Ambiguous(x.dir) /\ Exact(x.dir) # None
               /\ Exact(x.dir).state \in {"replacement", "sending"}
          THEN wf' = Exact(x.dir) /\ Goto("inspect")
                 /\ UNCHANGED <<asking, unsaved>>
          ELSE EndMemory(wf) /\ UNCHANGED wf
  /\ UNCHANGED <<problem, owed, signin, badHeld, vault, world>>

(* ... and, for a record that never got the reply, the update.             *)
PromoteSending ==
  /\ Step("inspect") /\ wf.state = "sending"
  /\ \E x \in Updates(Turned(wf, "replacement", "usable")) :
       /\ Happens(x)
       /\ IF x.ok
          THEN wf' = Turned(wf, "replacement", "usable")
                 /\ UNCHANGED <<job, asking, unsaved>>
          ELSE EndMemory(wf) /\ UNCHANGED wf
  /\ UNCHANGED <<problem, owed, signin, badHeld, vault, world>>

Faithful(r) == r # None /\ r.auth = wf.attempt
MovedOn(print) == wf.prior # None /\ wf.prior # print

(* What is in the vault: nothing, the replacement, or another one, which   *)
(* only the passphrase and the noted fingerprint together may overwrite.   *)
Inspect ==
  /\ Step("inspect") /\ Sealed /\ proving = None
  /\ IF unlocked /\ (row = None \/ Faithful(row))
     THEN Goto("write") /\ UNCHANGED <<asking, unsaved>>
     ELSE IF unlocked /\ ~MovedOn(row.auth) /\ job.passphrase
     THEN proving' = row.auth /\ job' = None
            /\ UNCHANGED <<phase, recovering, unsaved, resolving>>
     ELSE EndMemory(wf)
  /\ UNCHANGED <<journalVars, notes, signin, badHeld, vault, world>>

(* The passphrase was right, or it was not (or the vault has locked).      *)
ProofAccepted ==
  /\ Idle /\ proving # None /\ unlocked
  /\ Start("promote", "recovery", TRUE, None)
  /\ UNCHANGED <<journalVars, notes, signin, asking, unsaved, badHeld, vault,
                 world>>
ProofRefused == Idle /\ proving # None /\ GiveUp

InspectAgain ==
  /\ Step("inspect") /\ Sealed /\ proving # None
  /\ IF unlocked /\ ~MovedOn(proving) /\ row # None /\ ~Faithful(row)
          /\ row.auth = proving
     THEN Goto("write") /\ UNCHANGED <<asking, unsaved>>
     ELSE EndMemory(wf)
  /\ UNCHANGED <<journalVars, notes, signin, badHeld, vault, world>>

Save(new) == row' = new /\ bak' = row /\ UNCHANGED unlocked

(* vault.mutate; a row that is already the replacement is only marked, if  *)
(* nothing says what became of its recovery file.  persist looks at the    *)
(* secrets once more (transfer.ts:1720-1762); the record was sealed only   *)
(* after the same check, so this finds something in an earlier build's     *)
(* record only, and such records are left out.                             *)
NeedsWrite == Faithful(row) => (~wf.published /\ row.backup = "none")
WriteRow ==
  /\ Step("write") /\ Goto("backup")
  /\ IF NeedsWrite THEN Save([auth |-> wf.attempt, backup |-> "pending"])
     ELSE UNCHANGED vault
  /\ UNCHANGED <<journalVars, notes, signin, asking, unsaved, badHeld, world>>
WriteRowFails ==
  /\ Step("write") /\ NeedsWrite /\ faults < MaxFaults /\ faults' = faults + 1
  /\ EndMemory(wf)
  /\ \/ UNCHANGED <<vault, pending, auth>>
     \/ /\ unlocked' = FALSE                \* may have reached the disk
        /\ auth' = IF auth = "no" THEN "no" ELSE "stale"
        /\ pending' = IF pending = "none" THEN "none" ELSE "spent"
        /\ \/ UNCHANGED <<row, bak>>
           \/ row' = [auth |-> wf.attempt, backup |-> "pending"] /\ bak' = row
  /\ UNCHANGED <<dir, older, debt, notes, terminal, challenging, badHeld,
                 world>>

(* finishRecoveryBackup: the file, then the row's word for it.             *)
Backup ==
  /\ Step("backup")
  /\ IF row.backup = "pending" THEN Save([row EXCEPT !.backup = "current"])
     ELSE UNCHANGED vault
  /\ Goto(IF wf.published /\ row.backup = "current" THEN "clear" ELSE "publish")
  /\ UNCHANGED <<journalVars, notes, signin, asking, unsaved, badHeld, world>>

(* A warning: the row is stored, the record stays.                         *)
EndWarned ==
  /\ job' = None /\ phase' = "no" /\ recovering' = FALSE /\ proving' = None
  /\ unsaved' = FALSE /\ pending' = "none"
BackupFails ==
  /\ Step("backup") /\ row.backup = "pending"
  /\ faults < MaxFaults /\ faults' = faults + 1
  /\ EndWarned
  /\ UNCHANGED <<dir, older, debt, notes, terminal, auth, challenging, badHeld,
                 resolving, vault, world>>

(* markTransferRecovery                                                    *)
Publish ==
  /\ Step("publish")
  /\ \E x \in Updates([wf EXCEPT !.published = TRUE]) :
       /\ Happens(x)
       /\ IF x.ok
          THEN wf' = [wf EXCEPT !.published = TRUE] /\ Goto("clear")
                 /\ UNCHANGED <<phase, recovering, proving, unsaved, pending>>
          ELSE EndWarned /\ UNCHANGED wf
  /\ UNCHANGED <<problem, owed, terminal, auth, challenging, badHeld,
                 resolving, vault, world>>

-----------------------------------------------------------------------------
(* clearWorkflowRecord, at the end of a save, after a refusal by Steam     *)
(* (clearKnownNoChange), or at the user's word.                            *)
Saving == job.resolution = None

Settle(n) == open' = open \ {n} /\ received' = received \ {n}
Cleared ==
  /\ job' = None /\ phase' = "no" /\ recovering' = FALSE /\ proving' = None
  /\ resolving' = None /\ unsaved' = FALSE
  /\ wf' = None /\ owed' = None
  /\ IF job.by = "resolution" THEN terminal' = None ELSE UNCHANGED terminal
  /\ IF job.by = "submission" /\ ~Saving THEN UNCHANGED pending
     ELSE IF job.resolution = "resolvedOutsideApp" THEN UNCHANGED pending
     ELSE pending' = "none"
  /\ IF Saving THEN Settle(wf.attempt) ELSE UNCHANGED <<open, received>>

Clear ==
  /\ Step("clear")
  /\ \E x \in Clears(wf) :
       /\ Happens(x)
       /\ IF x.ok THEN Cleared
          ELSE Goto("owe") /\ UNCHANGED <<wf, owed, pending, terminal, asking,
                                          unsaved, open, received>>
  /\ UNCHANGED <<problem, auth, challenging, badHeld, vault, steam, enrolment,
                 sent, adopted>>

(* Faulty: a removal that was not flushed is taken for one that was not    *)
(* made.                                                                   *)
OweNothing ==
  /\ Step("owe")
  /\ \E x \in Reads : Happens(x)
  /\ owed' = None
  /\ IF Saving THEN EndMemory(wf) /\ pending' = "none"
     ELSE IF job.resolution = "resolvedOutsideApp" THEN EndMemory(wf) /\ UNCHANGED pending
     ELSE Goto("deny") /\ UNCHANGED <<asking, unsaved, pending>>
  /\ UNCHANGED <<wf, problem, terminal, auth, challenging, badHeld, vault,
                 world>>

(* The record could not be removed: is it still there?                     *)
Owe ==
  /\ Step("owe")
  /\ \E x \in Reads :
       /\ Happens(x)
       /\ owed' = IF x.ok /\ \E f \in Records(x.dir, "transfer") : f.attempt = wf.attempt
                  THEN None ELSE wf
  /\ IF Saving THEN EndMemory(wf) /\ pending' = "none"
     ELSE IF job.resolution = "resolvedOutsideApp" THEN EndMemory(wf) /\ UNCHANGED pending
     ELSE Goto("deny") /\ UNCHANGED <<asking, unsaved, pending>>
  /\ UNCHANGED <<wf, problem, terminal, auth, challenging, badHeld, vault,
                 world>>

(* Then at least it should say that nothing happened.                      *)
Deny ==
  /\ Step("deny")
  /\ \E x \in Updates(Turned(wf, "not-replaced", "none")) :
       /\ Happens(x)
       /\ wf' = IF x.ok THEN Turned(wf, "not-replaced", "none") ELSE wf
       /\ owed' = IF x.ok THEN None ELSE owed
  /\ terminal' = "not-replaced"
  /\ EndMemory(None)
  /\ UNCHANGED <<problem, pending, auth, challenging, badHeld, vault, world>>

-----------------------------------------------------------------------------
(* resolve: what the user found out.  They look at the phone, so what they *)
(* say is true: it still shows codes, it does not any more, or Steam       *)
(* Support has settled it.                                                 *)
True(resolution, n) ==
  CASE resolution = "notReplaced" -> steam # n
    [] resolution = "replaced" -> steam = n
    [] resolution = "resolvedOutsideApp" -> steam = None

ResolveBegin(resolution) ==
  /\ Idle /\ unlocked /\ ~Submitting /\ ~recovering /\ ~Holding
  /\ wf # None /\ Reservable
  /\ True(resolution, wf.attempt)
  /\ Start("resolve", "resolution", FALSE, resolution)
  /\ UNCHANGED <<journalVars, notes, signin, asking, unsaved, badHeld, vault,
                 world>>

Allowed(resolution, r) ==
  CASE r.state = "not-replaced" -> resolution = "notReplaced"
    [] r.state = "replacement" -> FALSE
    [] r.state = "unreadable" ->
         resolution = "resolvedOutsideApp" \/ (resolution = "replaced" /\ r.reply = "none")
    [] r.state = "unanswered" -> TRUE
    [] r.state = "sending" -> resolution # "resolvedOutsideApp"

(* The row may be removed only when it is the authenticator the record     *)
(* says was there before.                                                  *)
Obsolete(r) ==
  r.state # "sending" /\ r.reply = "none" /\ r.prior # None /\ row.auth = r.prior

After(resolution) ==
  CASE resolution = "notReplaced" -> "clear"
    [] resolution = "replaced" -> "mark"
    [] resolution = "resolvedOutsideApp" -> "clear"

(* The record is read again; its word decides, not the remembered one.     *)
Resolve ==
  /\ Step("resolve")
  /\ \E x \in Reads :
       LET r == Exact(x.dir)
       IN /\ Happens(x)
          /\ IF ~x.ok \/ Ambiguous(x.dir) \/ r = None
             THEN EndMemory(wf) /\ UNCHANGED <<wf, open, received>>
             ELSE IF ~Allowed(job.resolution, r)
             THEN EndMemory(r) /\ wf' = r /\ UNCHANGED <<open, received>>
             ELSE IF job.resolution = "notReplaced" \/ row = None
             THEN /\ wf' = r /\ Goto(After(job.resolution))
                  /\ IF job.resolution # "replaced" THEN Settle(r.attempt)
                     ELSE UNCHANGED <<open, received>>
                  /\ UNCHANGED <<asking, unsaved>>
             ELSE IF ~Obsolete(r)
             THEN EndMemory(r) /\ wf' = r /\ UNCHANGED <<open, received>>
             ELSE /\ wf' = r /\ job' = None
                  /\ resolving' = [resolution |-> job.resolution, print |-> row.auth]
                  /\ UNCHANGED <<phase, recovering, unsaved, proving, open,
                                 received>>
  /\ UNCHANGED <<problem, owed, signin, badHeld, vault, steam, enrolment, sent,
                 adopted>>

ResolveAccepted ==
  /\ Idle /\ resolving # None /\ unlocked
  /\ Start("remove", "resolution", TRUE, resolving.resolution)
  /\ UNCHANGED <<journalVars, notes, signin, asking, unsaved, badHeld, vault,
                 world>>
ResolveRefused == Idle /\ resolving # None /\ GiveUp

(* Read once more, then the obsolete row goes, then the record.            *)
ResolveRemove ==
  /\ Step("remove")
  /\ \E x \in Reads :
       /\ Happens(x)
       /\ IF x.ok /\ ~Ambiguous(x.dir) /\ Exact(x.dir) = wf
               /\ (row = None \/ row.auth = resolving.print)
          THEN /\ IF row = None THEN UNCHANGED <<row, bak>> ELSE row' = None /\ bak' = row
               /\ Goto(After(job.resolution))
               /\ IF job.resolution # "replaced" THEN Settle(wf.attempt)
                  ELSE UNCHANGED <<open, received>>
               /\ UNCHANGED <<asking, unsaved>>
          ELSE EndMemory(wf) /\ UNCHANGED <<row, bak, open, received>>
  /\ UNCHANGED <<notes, signin, badHeld, unlocked, steam, enrolment, sent,
                 adopted>>

(* The mutation fails: the record is kept.                                 *)
ResolveRemoveFails ==
  /\ Step("remove") /\ row # None /\ faults < MaxFaults /\ faults' = faults + 1
  /\ EndMemory(wf)
  /\ UNCHANGED <<dir, older, debt, notes, signin, badHeld, vault, world>>

(* "Replaced": the phone's authenticator is gone and no secrets are here,  *)
(* which only Steam Support can settle; the record says so from now on.    *)
Unreadable == Turned(wf, "unreadable", "none")
Mark ==
  /\ Step("mark")
  /\ IF wf.state = "unreadable"
     THEN terminal' = "unreadable" /\ EndMemory(None) /\ UNCHANGED <<wf, journalVars>>
     ELSE \E x \in Updates(Unreadable) :
            /\ Happens(x)
            /\ IF x.ok
               THEN wf' = Unreadable /\ terminal' = "unreadable" /\ EndMemory(None)
               ELSE Goto("look") /\ UNCHANGED <<wf, terminal, asking, unsaved>>
  /\ UNCHANGED <<problem, owed, pending, auth, challenging, badHeld, vault, world>>

(* The update failed, perhaps after it took effect.                        *)
Look ==
  /\ Step("look")
  /\ \E x \in Reads :
       /\ Happens(x)
       /\ IF x.ok /\ Records(x.dir, "transfer") = {Unreadable}
          THEN wf' = Unreadable /\ terminal' = "unreadable"
          ELSE UNCHANGED <<wf, terminal>>
  /\ EndMemory(None)
  /\ UNCHANGED <<problem, owed, pending, auth, challenging, badHeld, vault, world>>

(* cancel, which never forgets a record.                                   *)
Cancel ==
  /\ Idle /\ unlocked /\ ~Submitting /\ auth = "no" /\ ~challenging
  /\ ~Holding /\ wf = None
  /\ pending # "none" \/ terminal # None
  /\ pending' = "none" /\ terminal' = None
  /\ UNCHANGED <<journalVars, notes, auth, challenging, asking, unsaved,
                 badHeld, job, vault, world>>

-----------------------------------------------------------------------------
(* What a lock and a start do to the service.                              *)

(* forgetIfIdle drops what is only an intention.                           *)
TransferLocked ==
  /\ auth' = IF auth = "no" THEN "no" ELSE "stale"
  /\ pending' = IF pending = "none" THEN "none"
                ELSE IF Submitting \/ challenging \/ Holding THEN "spent" ELSE "none"
  /\ UNCHANGED <<notes, terminal, challenging, asking, unsaved, badHeld>>

TransferForgotten ==
  /\ wf' = None /\ problem' = FALSE /\ owed' = None /\ pending' = "none"
  /\ terminal' = None /\ auth' = "no" /\ challenging' = FALSE /\ phase' = "no"
  /\ recovering' = FALSE /\ unsaved' = FALSE /\ badHeld' = FALSE /\ proving' = None
  /\ resolving' = None

(* Attempts whose secrets are stored and whose record is gone: a removal   *)
(* that was owed did take effect.                                          *)
Stored(d) == {n \in open : row # None /\ row.auth = n
                             /\ \A r \in d.files \cup d.staged : r.attempt # n}

(* The constructor.                                                        *)
Load ==
  /\ Step("load") /\ job' = None
  /\ \E x \in Reads :
       /\ Happens(x)
       /\ LET found == Records(x.dir, "transfer") IN
          IF x.ok /\ Cardinality(found) =< 1
          THEN /\ wf' = IF found = {} THEN None ELSE CHOOSE r \in found : TRUE
               /\ terminal' = IF wf' = None \/ wf'.state = "replacement" THEN None
                              ELSE IF wf'.state = "sending" THEN "unanswered"
                              ELSE wf'.state
               /\ UNCHANGED problem
          ELSE problem' = TRUE /\ UNCHANGED <<wf, terminal>>
       /\ open' = open \ Stored(x.dir) /\ received' = received \ Stored(x.dir)
  /\ UNCHANGED <<owed, pending, auth, challenging, asking, unsaved, badHeld,
                 vault, steam, enrolment, sent, adopted>>

TransferInit ==
  /\ wf = None /\ problem = FALSE /\ owed = None /\ pending = "none"
  /\ terminal = None /\ auth = "no" /\ challenging = FALSE /\ phase = "no"
  /\ recovering = FALSE /\ unsaved = FALSE /\ badHeld = FALSE /\ proving = None
  /\ resolving = None

TransferRun ==
  Hydrate \/ RetainUnusable \/ Promote \/ PromoteSending \/ Inspect \/ InspectAgain
    \/ WriteRow \/ WriteRowFails \/ Backup \/ BackupFails \/ Publish \/ Clear \/ Owe
    \/ Deny \/ Resolve \/ ResolveRemove \/ ResolveRemoveFails \/ Mark \/ Look \/ Load
Signing == AuthenticateBegin \/ AuthenticateEnd \/ ChallengeBegin \/ ChallengeEnd
             \/ Expire \/ Cancel
Completing == CompleteBegin \/ CompleteMint \/ CompleteFails \/ CompleteSend
Replying == ReplyNoChange \/ ReplyLost \/ ReplyUnreadable \/ ReplyUnusable
              \/ ReplyUsable
Asking == \/ \E passphrase \in BOOLEAN : RetryBegin(passphrase)
          \/ \E resolution \in {"notReplaced", "replaced", "resolvedOutsideApp"} :
               ResolveBegin(resolution)
          \/ ProofAccepted \/ ProofRefused \/ ResolveAccepted \/ ResolveRefused

TransferTypeOK ==
  /\ wf \in Record \cup {None} /\ owed \in Record \cup {None}
  /\ problem \in BOOLEAN /\ pending \in {"none", "live", "spent"}
  /\ terminal \in {None, "unanswered", "unreadable", "not-replaced"}
  /\ auth \in {"no", "fresh", "stale"} /\ challenging \in BOOLEAN
  /\ phase \in {"no", "routing", "minting", "asked", "saving"}
  /\ recovering \in BOOLEAN /\ unsaved \in BOOLEAN /\ badHeld \in BOOLEAN
  /\ proving \in Prints \cup {None}
  /\ resolving \in [resolution : Resolutions, print : Prints] \cup {None}
=============================================================================
