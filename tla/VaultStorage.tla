---------------------------- MODULE VaultStorage ----------------------------
(***************************************************************************)
(* The files of the encrypted vault and the routines that replace them     *)
(* (src/main/vault/storage.ts).                                            *)
(*                                                                         *)
(* Every routine is a synchronous run of file-system calls: nothing else   *)
(* in the process can interleave with it, but any call can fail and the    *)
(* machine can stop between two of them.  A run is therefore a JOB, and    *)
(* each action below is one call that other code or a crash can tell       *)
(* apart: the backup copy, the publishing rename, the read-back, the       *)
(* rollback.  The temporary files are not modelled: no routine reads one   *)
(* that an earlier run left behind.                                        *)
(***************************************************************************)
EXTENDS Naturals, FiniteSets

CONSTANTS
  None,       \* no file, no record, no session: the absent value
  Torn,       \* a file that exists and does not parse
  MaxFaults   \* bound: failed file-system calls, crashes and vanished files

ASSUME FaultsAssumption == MaxFaults \in Nat

(***************************************************************************)
(* A sealed vault.  `key' stands for the salt together with the passphrase *)
(* stretched over it, `nonce' is fresh for every seal and `body' names the *)
(* account data inside.  All three are drawn from one stamp counter.       *)
(***************************************************************************)
Envelope == [key : Nat, nonce : Nat, body : Nat]

(* The rotation journal; builds before the nonce existed left it out.      *)
JournalRecord == [backup : Envelope, nonce : Nat \cup {None}]

ASSUME AbsentAssumption ==
  /\ None # Torn
  /\ {None, Torn} \cap Envelope = {}
  /\ {None, Torn} \cap JournalRecord = {}
  /\ None \notin Nat

File == Envelope \cup {None, Torn}
Readable(f) == f \notin {None, Torn}

VARIABLES
  vault,       \* vault.json
  backup,      \* vault.json.bak
  journal,     \* vault.json.rotating: None, Torn (unreadable) or a record
  rescues,     \* contents of the vault.json.bak.previous-UUID siblings
  superseded,  \* contents of the vault.json.superseded-UUID siblings
  job,         \* the synchronous run in progress
  faults       \* how much of that bound is used

files == <<vault, backup, journal, rescues, superseded>>
storageVars == <<vault, backup, journal, rescues, superseded, job, faults>>

(***************************************************************************)
(* A job writes `env' as the vault and, for a rotation, `seal' as the      *)
(* backup.  `was' is the vault file it found (hadExisting is was # None),  *)
(* `prior' the journal it found, `rescue' the sibling copy it made and     *)
(* `twin' whether an older sibling holds the same bytes.                   *)
(***************************************************************************)
Callers == {"boot", "poll", "create", "mutate", "change", "adopt", "restore"}
Results == {"written", "unchanged", "uncertain", "notAside", "putBack",
            "backedUp", "sweepOwed", "backupFailed", "backupStranded",
            "undone", "stuck", "journalFailed", "cleared", "over", "reconciled"}
Steps == {"idle", "journal", "setAside", "copy", "publish", "place", "verify",
          "rollback", "restore", "stage", "aside", "swap", "check", "revert",
          "sweep", "undo", "unjournal", "clear", "reconcile"} \cup Results

Job == [caller : Callers \cup {"none"}, step : Steps, env : File, seal : File,
        was : File, rescue : File, twin : BOOLEAN,
        prior : JournalRecord \cup {None, Torn}]

NoJob == [caller |-> "none", step |-> "idle", env |-> None, seal |-> None,
          was |-> None, rescue |-> None, twin |-> FALSE, prior |-> None]

Quiet == job.step = "idle"
At(step) == job.step = step
Goto(step) == job' = [job EXCEPT !.step = step]
Smooth == UNCHANGED faults
Fault == faults < MaxFaults /\ faults' = faults + 1

StorageInit ==
  /\ rescues = {} /\ superseded = {}
  /\ faults = 0

-----------------------------------------------------------------------------
(* writeEnvelope: back up, publish, read back, roll back.                  *)

(* Faulty: the previous vault is never copied aside.                       *)
WriteEntryNoBackup(found) == "publish"

(* Where writeEnvelope begins: the backup copy is skipped on a first write. *)
WriteEntry(found) == IF found # None THEN "copy" ELSE "publish"

(* copyFileSync(file, backup): the copy is not flushed, only made.         *)
CopyBackup ==
  /\ At("copy") /\ backup' = vault /\ Goto("publish") /\ Smooth
  /\ UNCHANGED <<vault, journal, rescues, superseded>>

(* A failed copy leaves the destination alone, half written, or removed.   *)
CopyBackupFails ==
  /\ At("copy") /\ Fault /\ Goto("unchanged")
  /\ backup' \in {backup, Torn, None}
  /\ UNCHANGED <<vault, journal, rescues, superseded>>

(* The temp file is staged and flushed, then renamed or hard-linked.       *)
Publish ==
  /\ At("publish") /\ vault' = job.env /\ Goto("verify") /\ Smooth
  /\ UNCHANGED <<backup, journal, rescues, superseded>>

PublishFails ==
  /\ At("publish") /\ Fault /\ Goto("unchanged") /\ UNCHANGED files

(* Without hard links (always on Windows) a first write is an exclusive    *)
(* copy onto the live name.                                                *)
FallBackToCopy ==
  /\ At("publish") /\ job.was = None /\ Goto("place") /\ Smooth
  /\ UNCHANGED files

PlaceCopy ==
  /\ At("place") /\ vault' = job.env /\ Goto("verify") /\ Smooth
  /\ UNCHANGED <<backup, journal, rescues, superseded>>

(* The copy or the flush after it fails: publication stays 'maybe'.        *)
PlaceCopyFails ==
  /\ At("place") /\ Fault /\ Goto("rollback")
  /\ vault' \in {job.env, Torn, None}
  /\ UNCHANGED <<backup, journal, rescues, superseded>>

Verify ==
  /\ At("verify") /\ Goto("written") /\ Smooth /\ UNCHANGED files

(* The read-back fails, over a good file or over one that is damaged.      *)
VerifyFails ==
  /\ At("verify") /\ Fault /\ Goto("rollback")
  /\ vault' \in {vault, Torn}
  /\ UNCHANGED <<backup, journal, rescues, superseded>>

(* Faulty: the write that failed its read-back is left standing.           *)
RollbackLeavesIt ==
  At("rollback") /\ Smooth /\ UNCHANGED files /\ Goto("unchanged")

(* restore(): decide from what stands at the destination.                  *)
Rollback ==
  /\ At("rollback") /\ Smooth
  /\ UNCHANGED <<backup, journal, rescues, superseded>>
  /\ \/ /\ vault = Torn
        /\ Goto("uncertain") /\ UNCHANGED vault
     \/ /\ vault # Torn /\ job.was = None
        /\ vault' = None /\ Goto("unchanged")
     \/ /\ vault # Torn /\ job.was # None
        /\ Goto(IF backup = None THEN "uncertain" ELSE "restore")
        /\ UNCHANGED vault

(* The destination cannot be read, or a first write cannot be unlinked.    *)
RollbackFails ==
  /\ At("rollback") /\ Fault /\ Goto("uncertain") /\ UNCHANGED files

(* copyFileSync(backup, file), flushed and compared.                       *)
RestoreFromCopy ==
  /\ At("restore") /\ vault' = backup /\ Goto("unchanged") /\ Smooth
  /\ UNCHANGED <<backup, journal, rescues, superseded>>

RestoreFromCopyFails ==
  /\ At("restore") /\ Fault /\ Goto("uncertain")
  /\ vault' \in {vault, Torn, None}
  /\ UNCHANGED <<backup, journal, rescues, superseded>>

WriteEnvelope ==
  \/ CopyBackup \/ CopyBackupFails \/ Publish \/ PublishFails
  \/ FallBackToCopy \/ PlaceCopy \/ PlaceCopyFails \/ Verify \/ VerifyFails
  \/ Rollback \/ RollbackFails \/ RestoreFromCopy \/ RestoreFromCopyFails

-----------------------------------------------------------------------------
(* writeBackupEnvelope: stage, set the old backup aside, swap, check.      *)

StageBackup ==
  /\ At("stage") /\ Smooth /\ UNCHANGED files
  /\ Goto(IF backup # None THEN "aside" ELSE "swap")

StageBackupFails ==
  /\ At("stage") /\ Fault /\ Goto("backupFailed") /\ UNCHANGED files

SetBackupAside ==
  /\ At("aside") /\ Smooth
  /\ rescues' = rescues \cup {backup}
  /\ job' = [job EXCEPT !.step = "swap", !.rescue = backup,
                         !.twin = backup \in rescues]
  /\ UNCHANGED <<vault, backup, journal, superseded>>

(* The copy fails, and the sibling it made may resist removal.             *)
SetBackupAsideFails ==
  /\ At("aside") /\ Fault /\ Goto("backupFailed")
  /\ rescues' \in {rescues, rescues \cup {backup}}
  /\ UNCHANGED <<vault, backup, journal, superseded>>

SwapBackup ==
  /\ At("swap") /\ backup' = job.seal /\ Goto("check") /\ Smooth
  /\ UNCHANGED <<vault, journal, rescues, superseded>>

SwapBackupFails ==
  /\ At("swap") /\ Fault /\ Goto("revert") /\ UNCHANGED files

CheckBackup ==
  /\ At("check") /\ Goto("sweep") /\ Smooth /\ UNCHANGED files

CheckBackupFails ==
  /\ At("check") /\ Fault /\ Goto("revert")
  /\ backup' \in {backup, Torn}
  /\ UNCHANGED <<vault, journal, rescues, superseded>>

(* Put the set-aside copy back; its sibling is dropped only afterwards,    *)
(* best effort.                                                            *)
RevertBackup ==
  /\ At("revert") /\ Goto("backupFailed")
  /\ IF job.rescue = None
     THEN Smooth /\ UNCHANGED <<backup, rescues>>
     ELSE /\ backup' = job.rescue
          /\ \/ /\ rescues' = IF job.twin THEN rescues ELSE rescues \ {job.rescue}
                /\ Smooth
             \/ rescues' = rescues /\ Fault
  /\ UNCHANGED <<vault, journal, superseded>>

RevertBackupFails ==
  /\ At("revert") /\ job.rescue # None /\ Fault /\ Goto("backupStranded")
  /\ backup' \in {backup, Torn, None}
  /\ UNCHANGED <<vault, journal, rescues, superseded>>

(* cleanupBackupRescues: every app-owned sibling, also earlier attempts'.  *)
SweepRescues ==
  /\ At("sweep") /\ rescues' = {} /\ Goto("backedUp") /\ Smooth
  /\ UNCHANGED <<vault, backup, journal, superseded>>

SweepRescuesFails ==
  /\ At("sweep") /\ Fault /\ Goto("sweepOwed")
  /\ rescues' \in SUBSET rescues
  /\ UNCHANGED <<vault, backup, journal, superseded>>

WriteBackup ==
  \/ StageBackup \/ StageBackupFails \/ SetBackupAside \/ SetBackupAsideFails
  \/ SwapBackup \/ SwapBackupFails \/ CheckBackup \/ CheckBackupFails
  \/ RevertBackup \/ RevertBackupFails \/ SweepRescues \/ SweepRescuesFails

-----------------------------------------------------------------------------
(* restoreEnvelopeInPlace: the vault again, the backup untouched.          *)
UndoVault ==
  /\ At("undo") /\ vault' = job.was /\ Goto("undone") /\ Smooth
  /\ UNCHANGED <<backup, journal, rescues, superseded>>

UndoVaultFails ==
  /\ At("undo") /\ Fault /\ Goto("stuck") /\ UNCHANGED files

(* writeRotationJournal: staged and renamed, so whole or not at all.       *)
WriteJournal ==
  /\ At("journal") /\ Smooth
  /\ journal' = [backup |-> job.seal, nonce |-> job.env.nonce]
  /\ Goto(WriteEntry(vault))
  /\ UNCHANGED <<vault, backup, rescues, superseded>>

WriteJournalFails ==
  /\ At("journal") /\ Fault /\ Goto("journalFailed") /\ UNCHANGED files

(* restoreRotationJournalSnapshot: the exact earlier record, or none.      *)
RestoreJournal ==
  /\ At("unjournal") /\ Goto("over")
  /\ \/ journal' = job.prior /\ Smooth
     \/ UNCHANGED journal /\ Fault
  /\ UNCHANGED <<vault, backup, rescues, superseded>>

(* clearRotationJournal: an unlink whose failure is swallowed.             *)
ClearJournal ==
  /\ At("clear") /\ Goto("cleared")
  /\ \/ journal' = None /\ Smooth
     \/ UNCHANGED journal /\ Fault
  /\ UNCHANGED <<vault, backup, rescues, superseded>>

(* setAside: copied to an exclusive sibling, verified, then unlinked.      *)
SetAside ==
  /\ At("setAside") /\ Smooth
  /\ superseded' = superseded \cup ({vault} \ {None})
  /\ vault' = None
  /\ job' = [job EXCEPT !.step = "publish", !.rescue = vault, !.was = None]
  /\ UNCHANGED <<backup, journal, rescues>>

SetAsideFails ==
  /\ At("setAside") /\ vault # None /\ Fault /\ Goto("notAside")
  /\ superseded' \in {superseded, superseded \cup {vault}}
  /\ UNCHANGED <<vault, backup, journal, rescues>>

(* putBack: undo a setAside after the write that followed it failed, by an *)
(* exclusive copy that never replaces a file standing at the live name.    *)
PutBack ==
  /\ job.caller = "restore" /\ job.step \in {"unchanged", "uncertain"}
  /\ Goto("putBack")
  /\ IF job.rescue = None \/ vault # None
     THEN Smooth /\ UNCHANGED <<vault, superseded>>
     ELSE \/ /\ vault' = job.rescue /\ Smooth
             /\ superseded' = superseded \ {job.rescue}
          \/ /\ vault' \in {job.rescue, Torn, None} /\ Fault
             /\ UNCHANGED superseded
  /\ UNCHANGED <<backup, journal, rescues>>

Housekeeping ==
  \/ UndoVault \/ UndoVaultFails \/ WriteJournal \/ WriteJournalFails
  \/ RestoreJournal \/ ClearJournal \/ SetAside \/ SetAsideFails \/ PutBack

StorageStep == WriteEnvelope \/ WriteBackup \/ Housekeeping

-----------------------------------------------------------------------------
(* What a stop of the machine can leave of the call in progress: an        *)
(* in-place copy or an exclusive copy stops half way; a rename does not.   *)
TornByCrash ==
  /\ vault' \in IF job.step \in {"place", "restore"} THEN {vault, Torn} ELSE {vault}
  /\ backup' \in IF job.step \in {"copy", "revert"} THEN {backup, Torn} ELSE {backup}
  /\ rescues' \in IF At("aside") THEN {rescues, rescues \cup {Torn}} ELSE {rescues}
  /\ superseded' \in
       IF At("setAside") /\ vault # None
       THEN {superseded, superseded \cup {Torn}, superseded \cup {vault}}
       ELSE {superseded}
  /\ UNCHANGED journal

StorageTypeOK ==
  /\ vault \in File /\ backup \in File
  /\ journal \in JournalRecord \cup {None, Torn}
  /\ rescues \in SUBSET (File \ {None})
  /\ superseded \in SUBSET (File \ {None})
  /\ job \in Job
  /\ faults \in 0..MaxFaults
=============================================================================
