---------------------------- MODULE VaultService ----------------------------
(***************************************************************************)
(* The vault session: create, unlock, save, rotate the passphrase, verify, *)
(* adopt a file, restore the backup, lock (src/main/vault/service.ts).     *)
(*                                                                         *)
(* A key derivation (scrypt) is awaited, so an operation that derives is   *)
(* split where the code awaits: its first half captures what it will       *)
(* compare later into `pending', the second half runs when the key is      *)
(* ready.  Between awaits the code is synchronous; a synchronous run that  *)
(* touches files is a job of VaultStorage, and only a crash can cut it.    *)
(***************************************************************************)
EXTENDS VaultStorage

CONSTANTS
  MaxStamp,       \* bound: salts, nonces and edits drawn in a behaviour
  MaxGeneration,  \* bound: locks are not taken beyond this generation
  MaxPending,     \* bound: operations awaiting a key derivation at once
  FilesVanish     \* whether something else may remove vault.json

ASSUME BoundsAssumption ==
  /\ MaxStamp \in Nat /\ MaxGeneration \in Nat /\ MaxPending \in Nat
  /\ FilesVanish \in BOOLEAN

VARIABLES
  session,          \* None, or the unlocked state: its identity, key and body
  generation,       \* bumped by every lock and every save
  fileGeneration,   \* bumped when the vault file is replaced
  pending,          \* what each operation captured before its await
  reconcileFailed,  \* finishing an interrupted rotation was tried and failed
  backupSuspect,    \* the backup may still open with a retired passphrase
  stamp             \* the next fresh salt, nonce, edit or session identity

(* History variables: what the user has been told, no part of the code.    *)
VARIABLES
  promised,  \* the [key, body] pairs the vault file may hold
  assured,   \* the one last reported as saved and not removed from outside
  retired,   \* keys the user knows to have been replaced
  rotating,  \* the rotation last begun, <<from, to>>
  evidenceLost  \* a failed rotation took the only record of an earlier, unpaid one

serviceVars == <<session, generation, fileGeneration, pending,
                 reconcileFailed, backupSuspect, stamp>>
history == <<promised, assured, retired, rotating, evidenceLost>>
vars == <<storageVars, serviceVars, history>>

Operations == {"create", "unlock", "check", "rekey", "verify", "adopt", "restore"}

(* `overtaken' and `saw' are history: a lock arrived since, and the vault  *)
(* file as it stood when the operation captured its facts.                 *)
Flight == [gen : Nat, fgen : Nat, env : File, sid : Nat \cup {None},
           overtaken : BOOLEAN, saw : File]
Session == [id : Nat, key : Nat, body : Nat]

Unlocked == session # None
Idle(op) == pending[op] = None
Content(env) == [key |-> env.key, body |-> env.body]

Capture(env) ==
  [gen |-> generation, fgen |-> fileGeneration, env |-> env,
   sid |-> IF Unlocked THEN session.id ELSE None,
   overtaken |-> FALSE, saw |-> vault]
Await(op, env) == pending' = [pending EXCEPT ![op] = Capture(env)]
Settle(op) == pending' = [pending EXCEPT ![op] = None]
Give(op) == Settle(op) /\ UNCHANGED <<storageVars, session, generation,
              fileGeneration, reconcileFailed, backupSuspect, stamp, history>>

(* Start a synchronous run over the files.                                 *)
Run(caller, step, env, seal, prior) ==
  job' = [NoJob EXCEPT !.caller = caller, !.step = step, !.env = env,
            !.seal = seal, !.prior = prior, !.was = vault]
Finish == job' = NoJob
Returned(caller, results) == job.caller = caller /\ job.step \in results

Available(n) == stamp + n <= MaxStamp
Draw(n) == Available(n) /\ stamp' = stamp + n
Sealed(key, nonce, body) == [key |-> key, nonce |-> nonce, body |-> body]

(* inspectBackupRescues: a sibling that remains, or a directory that cannot *)
(* be read, keeps the backup under suspicion.                              *)
Inspect(journalSuspect) ==
  \/ backupSuspect' = (journalSuspect \/ rescues # {}) /\ Smooth
  \/ backupSuspect' = TRUE /\ Fault

(* The operation told its caller that the vault now holds this.            *)
Promise(content) ==
  /\ promised' = {content}
  /\ assured' = IF vault = None THEN assured ELSE content
(* It could not tell: the old contents or the new.                         *)
Answer(uncertain) ==
  /\ promised' = IF uncertain THEN promised \cup {Content(job.env)} ELSE promised
  /\ UNCHANGED assured

Room == Cardinality({op \in Operations : ~Idle(op)}) < MaxPending
(* The rotation that ends here had replaced an earlier one's record.       *)
OverwroteEvidence ==
  job.caller = "change" /\ job.prior # None /\ journal # job.prior
ForgetEvidence == evidenceLost' = (evidenceLost \/ OverwroteEvidence)

NotStarted(op) == Quiet /\ Idle(op) /\ Room

(* The IPC handlers of create, adopt, restore and passphrase change run     *)
(* inside duringVaultReplacement, which refuses a second one; unlock, saves *)
(* and the passphrase proof do not go through it.                          *)
Replacements == {"create", "adopt", "restore", "check", "rekey"}
ReplacementFree ==
  /\ Quiet /\ Room
  /\ \A op \in Replacements : Idle(op)

-----------------------------------------------------------------------------
CreateBegin ==
  /\ ReplacementFree /\ Idle("create") /\ ~Unlocked /\ vault = None
  /\ Await("create", None)
  /\ UNCHANGED <<storageVars, session, generation, fileGeneration,
                 reconcileFailed, backupSuspect, stamp, history>>

(* No other replacement can have put a file there since, so the second     *)
(* look never refuses.                                                     *)
CreateWrite ==
  /\ Quiet /\ ~Idle("create") /\ vault = None
  /\ Draw(1) /\ Available(2)
  /\ Run("create", WriteEntry(vault), Sealed(stamp, stamp, stamp), None, None)
  /\ UNCHANGED <<files, faults, session, generation, fileGeneration, pending,
                 reconcileFailed, backupSuspect, history>>

(* A lock during the derivation cancels leaving the new vault open.        *)
CreateDone ==
  /\ Returned("create", {"written"})
  /\ fileGeneration' = fileGeneration + 1
  /\ Finish /\ Settle("create") /\ Promise(Content(job.env))
  /\ IF pending["create"].gen = generation
     THEN /\ session' = [id |-> stamp, key |-> job.env.key, body |-> job.env.body]
          /\ stamp' = stamp + 1
     ELSE UNCHANGED <<session, stamp>>
  /\ UNCHANGED <<files, faults, generation, reconcileFailed, backupSuspect,
                 retired, rotating, evidenceLost>>

CreateFails ==
  /\ Returned("create", {"unchanged", "uncertain"})
  /\ Finish /\ Settle("create") /\ Answer(At("uncertain"))
  /\ UNCHANGED <<files, faults, session, generation, fileGeneration,
                 reconcileFailed, backupSuspect, stamp, retired, rotating, evidenceLost>>

-----------------------------------------------------------------------------
(* unlock                                                                  *)
UnlockBegin ==
  /\ NotStarted("unlock") /\ Readable(vault)
  /\ Await("unlock", vault)
  /\ UNCHANGED <<storageVars, session, generation, fileGeneration,
                 reconcileFailed, backupSuspect, stamp, history>>

(* A wrong passphrase, or a lock, a save or a rotation in the meantime.    *)
UnlockRefused == Quiet /\ ~Idle("unlock") /\ Give("unlock")

(* Faulty: installs what it read whatever has happened since.              *)
UnlockDoneAnyway ==
  /\ Quiet /\ ~Idle("unlock") /\ Draw(1)
  /\ LET env == pending["unlock"].env IN
       /\ session' = [id |-> stamp, key |-> env.key, body |-> env.body]
       /\ Promise(Content(env))
  /\ Settle("unlock")
  /\ UNCHANGED <<storageVars, generation, fileGeneration, reconcileFailed,
                 backupSuspect, retired, rotating, evidenceLost>>

(* The user learns which side of an interrupted rotation is in force.      *)
UnlockDone ==
  /\ Quiet /\ ~Idle("unlock") /\ pending["unlock"].gen = generation
  /\ LET env == pending["unlock"].env IN
       /\ Draw(1)
       /\ session' = [id |-> stamp, key |-> env.key, body |-> env.body]
       /\ Promise(Content(env))
       /\ retired' = IF rotating # None /\ env.key = rotating[2]
                     THEN retired \cup {rotating[1]} ELSE retired
  /\ Settle("unlock")
  /\ UNCHANGED <<storageVars, generation, fileGeneration, reconcileFailed,
                 backupSuspect, rotating, evidenceLost>>

(* lock: the generation moves even when nothing is open yet.               *)
Overtake(flights) ==
  [op \in Operations |->
     IF flights[op] = None THEN None ELSE [flights[op] EXCEPT !.overtaken = TRUE]]

Lock ==
  /\ Quiet /\ generation < MaxGeneration
  /\ generation' = generation + 1
  /\ session' = None
  /\ pending' = Overtake(pending)
  /\ UNCHANGED <<storageVars, fileGeneration, reconcileFailed, backupSuspect,
                 stamp, history>>

-----------------------------------------------------------------------------
(* mutate: every ordinary save.                                            *)
MutateWrite ==
  /\ Quiet /\ Unlocked
  /\ Draw(1)
  /\ generation' = generation + 1
  /\ Run("mutate", WriteEntry(vault), Sealed(session.key, stamp, stamp), None, None)
  /\ UNCHANGED <<files, faults, session, fileGeneration, pending,
                 reconcileFailed, backupSuspect, history>>

MutateDone ==
  /\ Returned("mutate", {"written"})
  /\ fileGeneration' = fileGeneration + 1
  /\ session' = [session EXCEPT !.body = job.env.body]
  /\ Finish /\ Promise(Content(job.env))
  /\ UNCHANGED <<files, faults, generation, pending, reconcileFailed,
                 backupSuspect, stamp, retired, rotating, evidenceLost>>

MutateFails ==
  /\ Returned("mutate", {"unchanged"})
  /\ Finish
  /\ UNCHANGED <<files, faults, serviceVars, history>>

(* Faulty: the session stays open over a file it cannot vouch for.         *)
MutateUncertainStaysOpen ==
  /\ Returned("mutate", {"uncertain"})
  /\ fileGeneration' = fileGeneration + 1
  /\ Finish /\ Answer(TRUE)
  /\ UNCHANGED <<files, faults, session, generation, pending, reconcileFailed,
                 backupSuspect, stamp, retired, rotating, evidenceLost>>

(* Publication may have happened: the session is no longer an authority.   *)
MutateUncertain ==
  /\ Returned("mutate", {"uncertain"})
  /\ fileGeneration' = fileGeneration + 1
  /\ generation' = generation + 1
  /\ session' = None /\ pending' = Overtake(pending)
  /\ Finish /\ Answer(TRUE)
  /\ UNCHANGED <<files, faults, reconcileFailed, backupSuspect, stamp,
                 retired, rotating, evidenceLost>>

-----------------------------------------------------------------------------
(* changePassphrase: verify the current one, derive the next, rotate.      *)
NotChanging == Idle("check") /\ Idle("rekey")

ChangeBegin ==
  /\ ReplacementFree /\ NotChanging /\ Unlocked /\ Readable(vault)
  /\ Await("check", vault)
  /\ UNCHANGED <<storageVars, session, generation, fileGeneration,
                 reconcileFailed, backupSuspect, stamp, history>>

ChangeWrongPassphrase == Quiet /\ ~Idle("check") /\ Give("check")

(* Only the session object is carried over: its identity, not its contents. *)
ChangeDerive ==
  /\ Quiet /\ ~Idle("check")
  /\ pending' = [pending EXCEPT !["check"] = None, !["rekey"] = pending["check"]]
  /\ UNCHANGED <<storageVars, session, generation, fileGeneration,
                 reconcileFailed, backupSuspect, stamp, history>>

SameSession(op) == Unlocked /\ session.id = pending[op].sid

ChangeRefused ==
  /\ Quiet /\ ~Idle("rekey")
  /\ ~SameSession("rekey") \/ ~Readable(vault)
  /\ Give("rekey")

(* Faulty: seals the contents as they were before the derivation.          *)
ChangeRotateStale ==
  /\ Quiet /\ ~Idle("rekey") /\ SameSession("rekey") /\ Readable(vault)
  /\ Draw(2)
  /\ LET body == pending["rekey"].env.body IN
       Run("change", "journal", Sealed(stamp, stamp, body),
           Sealed(stamp, stamp + 1, body), journal)
  /\ rotating' = <<session.key, stamp>>
  /\ reconcileFailed' = FALSE
  /\ UNCHANGED <<files, faults, session, generation, fileGeneration, pending,
                 backupSuspect, promised, assured, retired, evidenceLost>>

(* Everything the rotation seals or can roll back to is read after the     *)
(* derivation, in the synchronous run that writes it.                      *)
ChangeRotate ==
  /\ Quiet /\ ~Idle("rekey") /\ SameSession("rekey") /\ Readable(vault)
  /\ Draw(2)
  /\ LET rotated == Sealed(stamp, stamp, session.body)
         resealed == Sealed(stamp, stamp + 1, session.body)
     IN Run("change", "journal", rotated, resealed, journal)
  /\ rotating' = <<session.key, stamp>>
  /\ reconcileFailed' = FALSE
  /\ UNCHANGED <<files, faults, session, generation, fileGeneration, pending,
                 backupSuspect, promised, assured, retired, evidenceLost>>

ChangeEnd == Finish /\ Settle("rekey")

ChangeNoJournal ==
  /\ Returned("change", {"journalFailed"})
  /\ ChangeEnd /\ rotating' = None
  /\ UNCHANGED <<files, faults, session, generation, fileGeneration,
                 reconcileFailed, backupSuspect, stamp, promised, assured, retired, evidenceLost>>

(* The vault write left the old file: put the earlier journal back.        *)
ChangeNotWritten ==
  /\ Returned("change", {"unchanged"})
  /\ Goto("unjournal")
  /\ UNCHANGED <<files, faults, serviceVars, history>>

(* It may have left the new one: drop every key, keep the journal.         *)
ChangeUncertain ==
  /\ Returned("change", {"uncertain"})
  /\ generation' = generation + 1
  /\ session' = None
  /\ pending' = [Overtake(pending) EXCEPT !["rekey"] = None]
  /\ Finish /\ Answer(TRUE) /\ ForgetEvidence
  /\ UNCHANGED <<files, faults, fileGeneration, reconcileFailed, backupSuspect,
                 stamp, retired, rotating>>

ChangeReseal ==
  /\ Returned("change", {"written"})
  /\ fileGeneration' = fileGeneration + 1
  /\ Goto("stage")
  /\ UNCHANGED <<files, faults, session, generation, pending, reconcileFailed,
                 backupSuspect, stamp, history>>

ChangeUndo ==
  /\ Returned("change", {"backupFailed", "backupStranded"})
  /\ Goto("undo")
  /\ UNCHANGED <<files, faults, serviceVars, history>>

ChangeUndone ==
  /\ Returned("change", {"undone"})
  /\ fileGeneration' = fileGeneration + 1
  /\ Inspect(FALSE)
  /\ Goto("unjournal")
  /\ UNCHANGED <<files, session, generation, pending, reconcileFailed,
                 stamp, history>>

ChangeFails ==
  /\ Returned("change", {"over"})
  /\ ChangeEnd /\ rotating' = None /\ ForgetEvidence
  /\ UNCHANGED <<files, faults, session, generation, fileGeneration,
                 reconcileFailed, backupSuspect, stamp, promised, assured, retired>>

(* The session adopts what is on disk.                                     *)
AdoptRotation ==
  /\ generation' = generation + 1
  /\ session' = [session EXCEPT !.key = job.env.key]
  /\ retired' = retired \cup {session.key}
  /\ ChangeEnd /\ Promise(Content(job.env))

(* Neither half could be undone, so the rotation stands.                   *)
ChangeStands ==
  /\ Returned("change", {"stuck"})
  /\ AdoptRotation
  /\ UNCHANGED <<files, faults, fileGeneration, reconcileFailed, backupSuspect,
                 stamp, rotating, evidenceLost>>

(* Both files are rotated, an older rescue is not gone: keep the journal.  *)
ChangeSweepOwed ==
  /\ Returned("change", {"sweepOwed"})
  /\ backupSuspect' = TRUE
  /\ AdoptRotation
  /\ UNCHANGED <<files, faults, fileGeneration, reconcileFailed, stamp,
                 rotating, evidenceLost>>

ChangePaid ==
  /\ Returned("change", {"backedUp"})
  /\ Goto("clear")
  /\ UNCHANGED <<files, faults, serviceVars, history>>

ChangeDone ==
  /\ Returned("change", {"cleared"})
  /\ AdoptRotation
  /\ UNCHANGED <<files, faults, fileGeneration, reconcileFailed, backupSuspect,
                 stamp, rotating, evidenceLost>>

-----------------------------------------------------------------------------
(* reconcile: finish a rotation cut between its two writes.                *)
Reconcilers == {"boot", "poll", "restore"}

Poll ==
  /\ Quiet /\ Run("poll", "reconcile", None, None, None)
  /\ UNCHANGED <<files, faults, serviceVars, history>>

(* What the files say of the rotation the journal records.  A record that   *)
(* carries no nonce was written by an earlier build.                       *)
Recorded == journal \notin {None, Torn}
Legacy == journal.nonce = None
VaultIsRotated ==
  vault.key = journal.backup.key /\ (Legacy \/ vault.nonce = journal.nonce)
BackupIsRotated ==
  /\ Readable(backup) /\ backup.key = vault.key
  /\ Legacy \/ backup = journal.backup
NothingToCompare == Legacy /\ ~Readable(backup)

Stale == Recorded /\ Readable(vault) /\ ~VaultIsRotated
Landed == Recorded /\ Readable(vault) /\ VaultIsRotated
Paid == Landed /\ BackupIsRotated
Owed == Landed /\ ~BackupIsRotated /\ ~NothingToCompare

(* Faulty: a record that cannot be read counts as none.                    *)
JournalVerdictUnreadIsNone ==
  CASE ~Recorded -> "clean"
    [] Stale -> "stale"
    [] Paid -> "paid"
    [] Owed -> "owed"
    [] OTHER -> "suspect"

JournalVerdict ==
  CASE journal = None -> "clean"
    [] Stale -> "stale"
    [] Paid -> "paid"
    [] Owed -> "owed"
    [] Landed /\ NothingToCompare /\ backup = None -> "clean"
    [] OTHER -> "suspect"

(* A failed attempt is not repeated before the next start.                 *)
Verdict == IF reconcileFailed THEN "suspect" ELSE JournalVerdict

EndReconcile == IF job.caller = "restore" THEN Goto("reconciled") ELSE Finish

ReconcileAnswer ==
  /\ At("reconcile") /\ Verdict \in {"clean", "suspect"}
  /\ Inspect(Verdict = "suspect") /\ EndReconcile
  /\ UNCHANGED <<files, session, generation, fileGeneration, pending,
                 reconcileFailed, stamp, history>>

(* The journal or the vault cannot be read this time, which is not the      *)
(* same as its being absent.                                               *)
ReconcileUnread ==
  /\ At("reconcile") /\ journal # None /\ Fault
  /\ backupSuspect' = TRUE /\ EndReconcile
  /\ UNCHANGED <<files, session, generation, fileGeneration, pending,
                 reconcileFailed, stamp, history>>

(* A stale record is dropped; a paid one still owes the rescues' removal,  *)
(* unless its build never made any.                                        *)
ReconcileSettle ==
  /\ At("reconcile") /\ Verdict \in {"stale", "paid"}
  /\ Goto(IF Verdict = "paid" /\ journal.nonce # None THEN "sweep" ELSE "clear")
  /\ UNCHANGED <<files, faults, serviceVars, history>>

ReconcileRewrite ==
  /\ At("reconcile") /\ Verdict = "owed"
  /\ job' = [job EXCEPT !.step = "stage", !.seal = journal.backup]
  /\ UNCHANGED <<files, faults, serviceVars, history>>

ReconcilePaid ==
  /\ job.caller \in Reconcilers /\ At("backedUp")
  /\ Goto("clear")
  /\ UNCHANGED <<files, faults, serviceVars, history>>

ReconcileDone ==
  /\ job.caller \in Reconcilers /\ At("cleared")
  /\ Inspect(FALSE) /\ EndReconcile
  /\ UNCHANGED <<files, session, generation, fileGeneration, pending,
                 reconcileFailed, stamp, history>>

ReconcileFails ==
  /\ job.caller \in Reconcilers
  /\ job.step \in {"sweepOwed", "backupFailed", "backupStranded"}
  /\ reconcileFailed' = TRUE /\ backupSuspect' = TRUE /\ EndReconcile
  /\ UNCHANGED <<files, faults, session, generation, fileGeneration, pending,
                 stamp, history>>

-----------------------------------------------------------------------------
(* restoreFromBackup                                                       *)
RestoreBegin ==
  /\ ReplacementFree /\ Idle("restore")
  /\ Run("restore", "reconcile", None, None, None)
  /\ UNCHANGED <<files, faults, serviceVars, history>>

RestoreRead ==
  /\ Returned("restore", {"reconciled"}) /\ Finish
  /\ IF backupSuspect \/ ~Readable(backup)
     THEN UNCHANGED pending
     ELSE Await("restore", backup)
  /\ UNCHANGED <<files, faults, session, generation, fileGeneration,
                 reconcileFailed, backupSuspect, stamp, history>>

(* A wrong passphrase, an incompatible workflow, an open session, or       *)
(* another vault put in place meanwhile.                                   *)
RestoreRefused == Quiet /\ ~Idle("restore") /\ Give("restore")

(* Faulty: does not ask whether the vault file was replaced meanwhile.      *)
RestoreWriteAnyway ==
  /\ Quiet /\ ~Idle("restore") /\ ~Unlocked /\ Available(1)
  /\ Run("restore", "setAside", pending["restore"].env, None, None)
  /\ UNCHANGED <<files, faults, serviceVars, history>>

RestoreWrite ==
  /\ Quiet /\ ~Idle("restore") /\ ~Unlocked /\ Available(1)
  /\ pending["restore"].fgen = fileGeneration
  /\ Run("restore", "setAside", pending["restore"].env, None, None)
  /\ UNCHANGED <<files, faults, serviceVars, history>>

RestoreNotAside ==
  /\ Returned("restore", {"notAside"})
  /\ Finish /\ Settle("restore")
  /\ UNCHANGED <<files, faults, session, generation, fileGeneration,
                 reconcileFailed, backupSuspect, stamp, history>>

RestoreFails ==
  /\ Returned("restore", {"putBack"})
  /\ Finish /\ Settle("restore") /\ Answer(vault # job.rescue)
  /\ UNCHANGED <<files, faults, session, generation, fileGeneration,
                 reconcileFailed, backupSuspect, stamp, retired, rotating, evidenceLost>>

(* The swap stands whatever happened since; a lock only keeps it closed.   *)
RestoreDone ==
  /\ Returned("restore", {"written"})
  /\ generation' = generation + 1
  /\ fileGeneration' = fileGeneration + 1
  /\ Finish /\ Settle("restore") /\ Promise(Content(job.env))
  /\ IF pending["restore"].gen = generation
     THEN /\ session' = [id |-> stamp, key |-> job.env.key, body |-> job.env.body]
          /\ stamp' = stamp + 1
     ELSE UNCHANGED <<session, stamp>>
  /\ UNCHANGED <<files, faults, reconcileFailed, backupSuspect, retired, rotating, evidenceLost>>

-----------------------------------------------------------------------------
(* adoptFrom: a file kept elsewhere, or one of the copies beside the vault. *)
AdoptBegin ==
  /\ ReplacementFree /\ Idle("adopt") /\ ~Unlocked /\ vault = None
  /\ Draw(1)
  /\ \E env \in {Sealed(stamp, stamp, stamp), backup} \cup rescues \cup superseded :
       Readable(env) /\ Await("adopt", env)
  /\ UNCHANGED <<storageVars, session, generation, fileGeneration,
                 reconcileFailed, backupSuspect, history>>

AdoptRefused == Quiet /\ ~Idle("adopt") /\ Give("adopt")

AdoptWrite ==
  /\ Quiet /\ ~Idle("adopt") /\ ~Unlocked /\ vault = None
  /\ pending["adopt"].gen = generation
  /\ pending["adopt"].fgen = fileGeneration
  /\ Run("adopt", WriteEntry(vault), pending["adopt"].env, None, None)
  /\ UNCHANGED <<files, faults, serviceVars, history>>

(* Whoever adopts a file under an old passphrase has chosen that.          *)
AdoptDone ==
  /\ Returned("adopt", {"written"})
  /\ fileGeneration' = fileGeneration + 1
  /\ Finish /\ Settle("adopt") /\ Promise(Content(job.env))
  /\ retired' = retired \ {job.env.key}
  /\ UNCHANGED <<files, faults, session, generation, reconcileFailed,
                 backupSuspect, stamp, rotating, evidenceLost>>

AdoptFails ==
  /\ Returned("adopt", {"unchanged", "uncertain"})
  /\ Finish /\ Settle("adopt") /\ Answer(At("uncertain"))
  /\ UNCHANGED <<files, faults, session, generation, fileGeneration,
                 reconcileFailed, backupSuspect, stamp, retired, rotating, evidenceLost>>

-----------------------------------------------------------------------------
(* verifyPassphrase                                                        *)
ProveBegin ==
  /\ NotStarted("verify") /\ Unlocked /\ Readable(vault)
  /\ Await("verify", vault)
  /\ UNCHANGED <<storageVars, session, generation, fileGeneration,
                 reconcileFailed, backupSuspect, stamp, history>>

ProveRefused == Quiet /\ ~Idle("verify") /\ Give("verify")

(* Faulty: looks at the session only, which a rotation leaves in place.     *)
ProveDoneAnyway ==
  Quiet /\ ~Idle("verify") /\ SameSession("verify") /\ Give("verify")

ProveDone ==
  /\ Quiet /\ ~Idle("verify") /\ SameSession("verify")
  /\ pending["verify"].gen = generation
  /\ Give("verify")

-----------------------------------------------------------------------------
(* The process stops and starts again: everything in memory is gone, and   *)
(* startup reconciles before it answers anything.                          *)
Startup == [NoJob EXCEPT !.caller = "boot", !.step = "reconcile"]
(* Faulty: an attempt that failed is never repeated.                       *)
RebootForGood ==
  /\ session' = None /\ generation' = 0 /\ fileGeneration' = 0
  /\ pending' = [op \in Operations |-> None]
  /\ UNCHANGED reconcileFailed /\ backupSuspect' = FALSE
  /\ job' = Startup

Reboot ==
  /\ session' = None /\ generation' = 0 /\ fileGeneration' = 0
  /\ pending' = [op \in Operations |-> None]
  /\ reconcileFailed' = FALSE /\ backupSuspect' = FALSE
  /\ job' = Startup

Restart ==
  /\ Quiet /\ Reboot
  /\ UNCHANGED <<files, faults, stamp, history>>

(* Cut between two calls, or inside one that is not atomic.                *)
Crash ==
  /\ ~Quiet /\ Fault /\ TornByCrash /\ Reboot
  /\ Answer(job.env # None)
  /\ ForgetEvidence
  /\ UNCHANGED <<stamp, retired, rotating>>

(* Something outside the program removes vault.json.  An open that is still *)
(* deriving its key from the removed file is left out.                     *)
VaultVanishes ==
  /\ FilesVanish /\ Quiet /\ vault # None /\ Fault
  /\ \A op \in {"unlock", "restore"} : Idle(op)
  /\ vault' = None /\ assured' = None
  /\ UNCHANGED <<backup, journal, rescues, superseded, job, serviceVars,
                 promised, retired, rotating, evidenceLost>>

(***************************************************************************)
(* Where a start can find the files: nothing, a vault and its backup, or   *)
(* what an earlier build left of a rotation from key 1 to key 2: a bare    *)
(* journal, before or after its vault write, or one that does not parse.   *)
(***************************************************************************)
Start(file, bak, record, turn) ==
  /\ vault = file /\ backup = bak /\ journal = record /\ rotating = turn
  /\ promised = IF file = None THEN {} ELSE {Content(file)}
  /\ assured = IF file = None THEN None ELSE Content(file)

BareJournal == [backup |-> Sealed(2, 3, 1), nonce |-> None]

Init ==
  /\ StorageInit /\ job = Startup
  /\ session = None /\ generation = 0 /\ fileGeneration = 0
  /\ pending = [op \in Operations |-> None]
  /\ reconcileFailed = FALSE /\ backupSuspect = FALSE
  /\ stamp = 5 /\ retired = {} /\ evidenceLost = FALSE
  /\ \/ Start(None, None, None, None)
     \/ \E bak \in {None, Torn, Sealed(1, 1, 1)} :
          \/ Start(Sealed(1, 2, 2), bak, None, None)
          \/ Start(Sealed(1, 2, 2), bak, BareJournal, <<1, 2>>)
          \/ Start(Sealed(2, 4, 2), bak, BareJournal, <<1, 2>>)
          \/ Start(Sealed(2, 4, 2), bak, Torn, <<1, 2>>)

StorageRuns == StorageStep /\ UNCHANGED <<serviceVars, history>>

Opening ==
  \/ CreateBegin \/ CreateWrite \/ CreateDone \/ CreateFails
  \/ UnlockBegin \/ UnlockRefused \/ UnlockDone \/ Lock
Saving == MutateWrite \/ MutateDone \/ MutateFails \/ MutateUncertain
Changing ==
  \/ ChangeBegin \/ ChangeWrongPassphrase \/ ChangeDerive \/ ChangeRefused
  \/ ChangeRotate \/ ChangeNoJournal \/ ChangeNotWritten \/ ChangeUncertain
  \/ ChangeReseal \/ ChangeUndo \/ ChangeUndone \/ ChangeFails \/ ChangeStands
  \/ ChangeSweepOwed \/ ChangePaid \/ ChangeDone
Reconciling ==
  \/ Poll \/ ReconcileAnswer \/ ReconcileUnread \/ ReconcileSettle
  \/ ReconcileRewrite \/ ReconcilePaid \/ ReconcileDone \/ ReconcileFails
Restoring ==
  \/ RestoreBegin \/ RestoreRead \/ RestoreRefused \/ RestoreWrite
  \/ RestoreNotAside \/ RestoreFails \/ RestoreDone
Adopting == AdoptBegin \/ AdoptRefused \/ AdoptWrite \/ AdoptDone \/ AdoptFails
Proving == ProveBegin \/ ProveRefused \/ ProveDone
Environment == Restart \/ Crash \/ VaultVanishes

Next ==
  \/ StorageRuns \/ Opening \/ Saving \/ Changing \/ Reconciling \/ Restoring
  \/ Adopting \/ Proving \/ Environment

Spec == Init /\ [][Next]_vars

(* A synchronous run of the code always reaches its end: nothing in it     *)
(* waits.  No fairness is assumed of the user, of a key derivation, of the *)
(* status poll or of the environment.                                      *)
RunGoesOn ==
  /\ ~Quiet
  /\ StorageRuns \/ Opening \/ Saving \/ Changing \/ Reconciling \/ Restoring
     \/ Adopting
FairSpec == Spec /\ WF_vars(RunGoesOn)

-----------------------------------------------------------------------------
(* Every variable keeps its type.                                          *)
TypeOK ==
  /\ StorageTypeOK
  /\ session \in Session \cup {None}
  /\ generation \in Nat /\ fileGeneration \in Nat /\ stamp \in Nat
  /\ pending \in [Operations -> Flight \cup {None}]
  /\ reconcileFailed \in BOOLEAN /\ backupSuspect \in BOOLEAN
  /\ promised \in SUBSET [key : Nat, body : Nat]
  /\ assured \in [key : Nat, body : Nat] \cup {None}
  /\ retired \in SUBSET Nat
  /\ rotating \in (Nat \X Nat) \cup {None}
  /\ evidenceLost \in BOOLEAN

(* A vault file that parses holds exactly what the last operation told its *)
(* caller, or one of the two states an interrupted one could have left: no *)
(* save is lost and no old key comes back, whatever failed on the way.     *)
FileKeepsPromise ==
  Quiet /\ Readable(vault) => Content(vault) \in promised

(* An open session and the file agree on key and contents, so the next     *)
(* save cannot seal under a retired key or write a stale copy back.        *)
SessionAgreesWithFile ==
  Quiet /\ Unlocked =>
    /\ promised = {[key |-> session.key, body |-> session.body]}
    /\ Readable(vault) => Content(vault) = [key |-> session.key, body |-> session.body]

(* A backup the next status poll would offer never opens with a passphrase *)
(* the user has been told is replaced (the promise of the Settings screen). *)
BackupOffered == Verdict = "clean" /\ rescues = {} /\ Readable(backup)
OfferedBackupIsNotRetired ==
  /\ Quiet /\ BackupOffered => backup.key \notin retired
  /\ ~Idle("restore") /\ pending["restore"].fgen = fileGeneration
       => pending["restore"].env.key \notin retired

(* The same, unless a rotation that failed had overwritten the only record *)
(* of an earlier one that was still unpaid.                                *)
ButForLostEvidence == evidenceLost \/ OfferedBackupIsNotRetired

(* When the program leaves the vault file unreadable or gone, a copy of    *)
(* what was last promised is still beside it.                              *)
LastGoodCopySurvives ==
  Quiet /\ ~Readable(vault) /\ assured # None =>
    \E copy \in {backup} \cup rescues \cup superseded :
      Readable(copy) /\ Content(copy) \in promised

(* A lock that arrives while a vault is being opened leaves it locked.     *)
LockCancelsOpening ==
  [][\A op \in {"create", "unlock", "restore"} :
       ~Idle(op) /\ pending'[op] = None /\ session' \notin {session, None}
         => ~pending[op].overtaken]_vars

(* A restore sets aside the very file it was authorised against, never one *)
(* a save, a rotation or an adoption put there during the derivation.      *)
RestoreReplacesWhatItSaw ==
  [][RestoreWrite => vault \in {pending["restore"].saw, None}]_vars

(* A passphrase proof is given only while it still opens the vault.        *)
ProofIsCurrent ==
  [][ProveDone => pending["verify"].env.key = session.key]_vars

(* What was asked for under one session or file takes effect in no other.  *)
NothingStaleTakesEffect ==
  LockCancelsOpening /\ RestoreReplacesWhatItSaw /\ ProofIsCurrent

(* A machine that keeps being started pays the debt of a rotation cut       *)
(* between its two writes: the backup comes to open with the passphrase of *)
(* the vault, however often paying it failed before, as long as its record *)
(* was not overwritten.                                                    *)
BackupMatches ==
  Readable(vault) /\ Readable(backup) => backup.key = vault.key
RotationDebtIsPaid ==
  ([]<><<Restart>>_vars /\ []~evidenceLost) => (Owed ~> BackupMatches)
=============================================================================
