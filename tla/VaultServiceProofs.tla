-------------------------- MODULE VaultServiceProofs --------------------------
(***************************************************************************)
(* For any bounds, except where a theorem says that one fault is all that  *)
(* happens or that one operation at a time derives a key.                  *)
(***************************************************************************)
EXTENDS VaultService, FiniteSetTheorems, TLAPS

(* Which steps the run of each caller is made of, and what it writes.  The *)
(* run of a restore reconciles first, with nothing to write yet.           *)
BackupSteps == {"stage", "aside", "swap", "check", "revert", "sweep", "backedUp",
                "sweepOwed", "backupFailed", "backupStranded", "clear", "cleared"}
WriteSteps == {"publish", "place", "verify", "rollback", "written", "unchanged",
               "uncertain"}
CopySteps == {"copy", "restore"}
ChangeSteps == {"journal", "journalFailed", "undo", "undone", "stuck", "unjournal",
                "over"}
Writing == job.env # None

JobShape ==
  /\ job.caller = "none" => job = NoJob
  /\ job.step = "idle" => job.caller = "none"
  /\ job.caller \in {"boot", "poll"} =>
       ~Writing /\ job.step \in {"reconcile"} \cup BackupSteps
  /\ job.caller = "restore" =>
       \/ ~Writing /\ job.step \in {"reconcile", "reconciled"} \cup BackupSteps
       \/ /\ job.env \in Envelope
          /\ job.step \in {"setAside", "notAside", "putBack"} \cup WriteSteps
          /\ job.step \in WriteSteps => job.was = None
  /\ job.caller \in {"create", "adopt"} =>
       job.env \in Envelope /\ job.was = None /\ job.step \in WriteSteps
  /\ job.caller = "mutate" =>
       job.env \in Envelope /\ job.step \in WriteSteps \cup CopySteps
  /\ job.caller = "change" =>
       /\ job.env \in Envelope /\ job.seal \in Envelope
       /\ job.step \in WriteSteps \cup CopySteps \cup ChangeSteps \cup BackupSteps

(* The vault file and its copy at each step of a write: before it, after   *)
(* it, and between.                                                        *)
Before == {"journal", "journalFailed", "copy", "publish", "place", "unchanged",
           "unjournal", "undone", "over", "setAside"}
After == {"verify", "written", "undo", "stuck"} \cup BackupSteps
Between == {"rollback", "uncertain", "restore"}
VaultStands ==
  /\ Writing =>
       /\ job.step \in Before => vault = job.was
       /\ job.step \in After => vault = job.env
       /\ job.step \in Between => vault \in {job.env, job.was, Torn, None}
       /\ job.step \in {"publish", "place", "verify", "rollback", "restore"} /\ job.was # None
            => backup = job.was
       /\ job.step = "place" => job.was = None
       /\ job.step \in CopySteps => job.was # None
       /\ job.step = "putBack" => vault \in {job.rescue, job.env, Torn, None}
  /\ job.step = "aside" => backup # None

(* One fault is enough for a restore's write to fail, and then the file it *)
(* set aside comes back, or what stands in its place cannot be read.       *)
RestoreFaults ==
  job.caller = "restore" =>
    /\ job.step \in {"rollback", "unchanged", "uncertain", "putBack"} => faults >= 1
    /\ job.step = "uncertain" /\ faults <= 1 => vault = Torn
    /\ job.step = "putBack" /\ faults <= 1 => vault \in {job.rescue, Torn}

(* A replacement excludes every other; its run is that of its second half. *)
OneAtATime ==
  /\ \A a, b \in Replacements : ~Idle(a) /\ ~Idle(b) => a = b
  /\ job.caller = "create" => ~Idle("create")
  /\ job.caller = "adopt" => ~Idle("adopt")
  /\ job.caller = "change" => ~Idle("rekey")
  /\ job.caller = "restore" /\ Writing => ~Idle("restore")
  /\ job.caller = "restore" /\ ~Writing => \A a \in Replacements : Idle(a)
  /\ job.caller = "boot" => \A op \in Operations : Idle(op)

(* Whether the session is open during a run, and what of it the run seals. *)
JobIsTheSessions ==
  /\ job.caller \in {"mutate", "change"} => Unlocked
  /\ job.caller \in {"adopt", "boot"} => ~Unlocked
  /\ job.caller = "restore" /\ Writing => ~Unlocked
  /\ job.caller = "mutate" => job.env.key = session.key
  /\ job.caller = "change" => job.env.body = session.body

(* What an operation captured was so, and a lock since then shows.         *)
FlightsArePast ==
  /\ \A op \in Operations : ~Idle(op) =>
       /\ pending[op].gen <= generation /\ pending[op].fgen <= fileGeneration
       /\ pending[op].overtaken => pending[op].gen < generation
       /\ pending[op].sid \in Nat => pending[op].sid < stamp
       /\ op # "create" => pending[op].env \in Envelope
  /\ Unlocked => session.id < stamp

(* The vault file as the run in progress found it: what it leaves behind   *)
(* unless it succeeds.                                                     *)
Home ==
  IF job.caller \in {"create", "mutate", "change", "adopt"} THEN job.was
  ELSE IF job.caller = "restore" /\ job.step \in WriteSteps \cup {"putBack"}
  THEN job.rescue
  ELSE vault

(* While the file generation stands, so does the file a restore saw.       *)
RestoreSawHome ==
  ~Idle("restore") /\ pending["restore"].fgen = fileGeneration =>
    /\ job.caller # "restore" => Home = pending["restore"].saw
    /\ job.step = "setAside" => vault = pending["restore"].saw

(* Where one operation derives at a time, an unlock is that one.           *)
Alone ==
  MaxPending <= 1 /\ ~Idle("unlock") =>
    /\ job.caller \in {"none", "poll", "mutate"}
    /\ \A op \in Operations \ {"unlock"} : Idle(op)

(* While the generation stands, the file an unlock read is there, and no   *)
(* save is replacing it.                                                   *)
UnlockSeesHome ==
  ~Idle("unlock") /\ pending["unlock"].gen = generation =>
    Home \in {pending["unlock"].env, Torn} /\ job.caller # "mutate"

(* A new vault and an adopted one are made where there is none.            *)
NothingToOpen ==
  ~Idle("create") \/ ~Idle("adopt") => ~Unlocked /\ Home = None

(* What the user was told holds of the session and of the file a run found. *)
PromiseIsKept ==
  /\ Unlocked => promised = {Content(session)}
  /\ Readable(Home) => Content(Home) \in promised

(* What a proof of the passphrase is checked against opens the session.    *)
ProofIsOfTheSession ==
  /\ ~Idle("verify") /\ Unlocked
  /\ pending["verify"].gen = generation /\ pending["verify"].sid = session.id
  => pending["verify"].env.key = session.key

(* What holds whatever fails, and what holds besides while one fault at    *)
(* most happens or one operation at most derives a key.                    *)
Structure ==
  /\ TypeOK /\ JobShape /\ VaultStands /\ RestoreFaults
  /\ OneAtATime /\ JobIsTheSessions /\ FlightsArePast /\ RestoreSawHome
Agreement ==
  /\ Alone /\ UnlockSeesHome /\ NothingToOpen /\ PromiseIsKept /\ ProofIsOfTheSession

(* The copy a run could be undone from is there until it has ended.        *)
CopiesStand ==
  /\ job.caller \in {"mutate", "change"} /\ job.step = "uncertain" /\ job.was # None
       => backup = job.was
  /\ job.caller = "change" => Readable(job.was)
  /\ job.caller \in Reconcilers /\ ~Writing /\ job.step \in BackupSteps => Readable(vault)
  /\ job.caller = "restore" /\ job.step \in WriteSteps \cup {"putBack"} /\ job.rescue # None
       => job.rescue \in superseded \/ (job.step = "putBack" /\ vault = job.rescue)

(* The program finds the vault file damaged while it is open, or is being  *)
(* opened, only after the last failure there was to come; a save over it   *)
(* then goes through.                                                      *)
Spent == faults = MaxFaults
Opens == ~Idle("unlock") /\ pending["unlock"].gen = generation
TornSave == job.caller = "mutate" /\ job.was = Torn
TornIsTheEnd ==
  /\ Home = Torn /\ (Unlocked \/ Opens) => Spent
  /\ Home = Torn /\ Opens => pending["unlock"].env \in superseded
  /\ TornSave => job.step \in {"copy", "publish", "verify", "written"}

Copies == {backup} \cup rescues \cup superseded
GoodCopy == \E copy \in Copies : Readable(copy) /\ Content(copy) \in promised
CopyIsKept == assured # None /\ ~Readable(Home) /\ ~TornSave => GoodCopy
Safekeeping == CopiesStand /\ TornIsTheEnd /\ CopyIsKept

-----------------------------------------------------------------------------
(* The file routines.                                                      *)
LEMMA EnvelopesAreReadable ==
  /\ \A f \in File : Readable(f) <=> f \in Envelope
  /\ None \notin Envelope /\ Torn \notin Envelope /\ None # Torn
  /\ None \notin JournalRecord /\ Torn \notin JournalRecord /\ None \notin Nat
BY AbsentAssumption DEF File, Readable

LEMMA WriteTypes ==
  ASSUME StorageTypeOK, JobShape, WriteEnvelope
  PROVE  StorageTypeOK'
<1> USE EnvelopesAreReadable, FaultsAssumption
    DEF StorageTypeOK, Job, File, Steps, Results, At, Goto, Smooth, Fault, files
<1>1. CASE CopyBackup \/ CopyBackupFails \/ Publish \/ PublishFails
  BY <1>1 DEF CopyBackup, CopyBackupFails, Publish, PublishFails
<1>2. CASE FallBackToCopy \/ PlaceCopy \/ PlaceCopyFails \/ Verify \/ VerifyFails
  BY <1>2 DEF FallBackToCopy, PlaceCopy, PlaceCopyFails, Verify, VerifyFails
<1>3. CASE Rollback \/ RollbackFails \/ RestoreFromCopy \/ RestoreFromCopyFails
  BY <1>3 DEF Rollback, RollbackFails, RestoreFromCopy, RestoreFromCopyFails
<1> QED BY <1>1, <1>2, <1>3 DEF WriteEnvelope

LEMMA BackupTypes ==
  ASSUME StorageTypeOK, VaultStands, WriteBackup
  PROVE  StorageTypeOK'
<1> USE EnvelopesAreReadable, FaultsAssumption
    DEF StorageTypeOK, Job, File, Steps, Results, At, Goto, Smooth, Fault, files
<1>1. CASE StageBackup \/ StageBackupFails \/ SwapBackup \/ SwapBackupFails
  BY <1>1 DEF StageBackup, StageBackupFails, SwapBackup, SwapBackupFails
<1>2. CASE SetBackupAside
  <2>1. backup \in File \ {None} /\ rescues' \in SUBSET (File \ {None})
    BY <1>2 DEF SetBackupAside, VaultStands
  <2>2. (backup \in rescues) \in BOOLEAN
    OBVIOUS
  <2>3. job' \in Job
    BY <1>2, <2>1, <2>2 DEF SetBackupAside
  <2> QED BY <1>2, <2>1, <2>3 DEF SetBackupAside
<1>5. CASE SetBackupAsideFails
  BY <1>5 DEF SetBackupAsideFails, VaultStands
<1>3. CASE CheckBackup \/ CheckBackupFails \/ RevertBackup \/ RevertBackupFails
  BY <1>3 DEF CheckBackup, CheckBackupFails, RevertBackup, RevertBackupFails
<1>4. CASE SweepRescues \/ SweepRescuesFails
  BY <1>4 DEF SweepRescues, SweepRescuesFails
<1> QED BY <1>1, <1>2, <1>3, <1>4, <1>5 DEF WriteBackup

LEMMA HousekeepingTypes ==
  ASSUME StorageTypeOK, JobShape, Housekeeping
  PROVE  StorageTypeOK'
<1> USE EnvelopesAreReadable, FaultsAssumption
    DEF StorageTypeOK, Job, File, Steps, Results, At, Goto, Smooth, Fault, files
<1>1. CASE UndoVault \/ UndoVaultFails \/ WriteJournalFails
  BY <1>1 DEF UndoVault, UndoVaultFails, WriteJournalFails
<1>2. CASE WriteJournal
  <2>1. job.env \in Envelope /\ job.seal \in Envelope
    BY <1>2 DEF WriteJournal, JobShape, BackupSteps, WriteSteps, CopySteps, ChangeSteps, Callers, NoJob
  <2> QED BY <1>2, <2>1 DEF WriteJournal, JournalRecord, Envelope, WriteEntry
<1>3. CASE RestoreJournal \/ ClearJournal
  BY <1>3 DEF RestoreJournal, ClearJournal
<1>4. CASE SetAside
  <2>1. job' \in Job
    BY <1>4 DEF SetAside
  <2>2. superseded' \in SUBSET (File \ {None})
    BY <1>4 DEF SetAside
  <2> QED BY <1>4, <2>1, <2>2 DEF SetAside
<1>6. CASE SetAsideFails
  BY <1>6 DEF SetAsideFails
<1>5. CASE PutBack
  BY <1>5 DEF PutBack
<1> QED BY <1>1, <1>2, <1>3, <1>4, <1>5, <1>6 DEF Housekeeping

(* A call on the files goes on with the same run, and whatever it does the *)
(* file the run found is the same.                                         *)
SameRun ==
  /\ job'.caller = job.caller /\ job'.env = job.env
  /\ job.step # "idle" /\ job'.step # "idle" /\ job'.step # "setAside"
  /\ Home' = Home

LEMMA WriteFrame ==
  ASSUME StorageTypeOK, JobShape, VaultStands, RestoreFaults, WriteEnvelope
  PROVE  SameRun /\ JobShape' /\ VaultStands' /\ RestoreFaults'
<1> USE EnvelopesAreReadable, FaultsAssumption
    DEF At, Goto, Smooth, Fault, files, StorageTypeOK, Job, File, Callers, NoJob,
        BackupSteps, WriteSteps, CopySteps, ChangeSteps, Before, After, Between, Writing
<1>1. SameRun
  <2>1. CASE CopyBackup \/ CopyBackupFails \/ Publish \/ PublishFails \/ FallBackToCopy
    BY <2>1 DEF CopyBackup, CopyBackupFails, Publish, PublishFails, FallBackToCopy,
         JobShape, SameRun, Home
  <2>2. CASE PlaceCopy \/ PlaceCopyFails \/ Verify \/ VerifyFails \/ Rollback \/ RollbackFails
    BY <2>2 DEF PlaceCopy, PlaceCopyFails, Verify, VerifyFails, Rollback, RollbackFails,
         JobShape, SameRun, Home
  <2>3. CASE RestoreFromCopy \/ RestoreFromCopyFails
    BY <2>3 DEF RestoreFromCopy, RestoreFromCopyFails, JobShape, SameRun, Home
  <2> QED BY <2>1, <2>2, <2>3 DEF WriteEnvelope
<1>2. JobShape'
  <2>1. CASE CopyBackup \/ CopyBackupFails \/ Publish \/ PublishFails \/ FallBackToCopy
    BY <2>1 DEF CopyBackup, CopyBackupFails, Publish, PublishFails, FallBackToCopy, JobShape
  <2>2. CASE PlaceCopy \/ PlaceCopyFails \/ Verify \/ VerifyFails
    BY <2>2 DEF PlaceCopy, PlaceCopyFails, Verify, VerifyFails, JobShape
  <2>3. CASE Rollback \/ RollbackFails
    BY <2>3 DEF Rollback, RollbackFails, JobShape
  <2>4. CASE RestoreFromCopy \/ RestoreFromCopyFails
    BY <2>4 DEF RestoreFromCopy, RestoreFromCopyFails, JobShape
  <2> QED BY <2>1, <2>2, <2>3, <2>4 DEF WriteEnvelope
<1>3. VaultStands'
  <2>1. CASE CopyBackup \/ CopyBackupFails \/ Publish \/ PublishFails \/ FallBackToCopy
    BY <2>1 DEF CopyBackup, CopyBackupFails, Publish, PublishFails, FallBackToCopy, JobShape, VaultStands
  <2>2. CASE PlaceCopy \/ PlaceCopyFails \/ Verify \/ VerifyFails
    BY <2>2 DEF PlaceCopy, PlaceCopyFails, Verify, VerifyFails, JobShape, VaultStands
  <2>3. CASE Rollback \/ RollbackFails
    BY <2>3 DEF Rollback, RollbackFails, JobShape, VaultStands
  <2>4. CASE RestoreFromCopy \/ RestoreFromCopyFails
    BY <2>4 DEF RestoreFromCopy, RestoreFromCopyFails, JobShape, VaultStands
  <2> QED BY <2>1, <2>2, <2>3, <2>4 DEF WriteEnvelope
<1>4. RestoreFaults'
  <2>1. CASE CopyBackup \/ CopyBackupFails \/ Publish \/ PublishFails \/ FallBackToCopy
    BY <2>1 DEF CopyBackup, CopyBackupFails, Publish, PublishFails, FallBackToCopy, RestoreFaults
  <2>2. CASE PlaceCopy \/ PlaceCopyFails \/ Verify \/ VerifyFails
    BY <2>2 DEF PlaceCopy, PlaceCopyFails, Verify, VerifyFails, RestoreFaults
  <2>3. CASE Rollback \/ RollbackFails
    BY <2>3 DEF Rollback, RollbackFails, JobShape, RestoreFaults
  <2>4. CASE RestoreFromCopy \/ RestoreFromCopyFails
    BY <2>4 DEF RestoreFromCopy, RestoreFromCopyFails, JobShape, RestoreFaults
  <2> QED BY <2>1, <2>2, <2>3, <2>4 DEF WriteEnvelope
<1> QED BY <1>1, <1>2, <1>3, <1>4

LEMMA BackupFrame ==
  ASSUME StorageTypeOK, JobShape, VaultStands, RestoreFaults, WriteBackup
  PROVE  SameRun /\ JobShape' /\ VaultStands' /\ RestoreFaults'
<1> USE EnvelopesAreReadable, FaultsAssumption
    DEF At, Goto, Smooth, Fault, files, StorageTypeOK, Job, File, Callers, NoJob,
        BackupSteps, WriteSteps, CopySteps, ChangeSteps, Before, After, Between, Writing
<1>1. /\ vault' = vault
      /\ job'.caller = job.caller /\ job'.env = job.env /\ job'.seal = job.seal
      /\ job'.was = job.was
      /\ job.step \in {"stage", "aside", "swap", "check", "revert", "sweep"}
      /\ job'.step \in BackupSteps \ {"stage"}
      /\ job'.step = "aside" => backup' # None
  <2>1. CASE StageBackup \/ StageBackupFails \/ SetBackupAside \/ SetBackupAsideFails
    BY <2>1 DEF StageBackup, StageBackupFails, SetBackupAside, SetBackupAsideFails
  <2>2. CASE SwapBackup \/ SwapBackupFails \/ CheckBackup \/ CheckBackupFails
    BY <2>2 DEF SwapBackup, SwapBackupFails, CheckBackup, CheckBackupFails
  <2>3. CASE RevertBackup \/ RevertBackupFails \/ SweepRescues \/ SweepRescuesFails
    BY <2>3 DEF RevertBackup, RevertBackupFails, SweepRescues, SweepRescuesFails
  <2> QED BY <2>1, <2>2, <2>3 DEF WriteBackup
<1>2. SameRun
  BY <1>1 DEF JobShape, SameRun, Home
<1>3. JobShape'
  BY <1>1 DEF JobShape
<1>4. VaultStands' /\ RestoreFaults'
  BY <1>1 DEF JobShape, VaultStands, RestoreFaults
<1> QED BY <1>2, <1>3, <1>4

LEMMA HousekeepingFrame ==
  ASSUME StorageTypeOK, JobShape, VaultStands, RestoreFaults, Housekeeping
  PROVE  SameRun /\ JobShape' /\ VaultStands' /\ RestoreFaults'
<1> USE EnvelopesAreReadable, FaultsAssumption
    DEF At, Goto, Smooth, Fault, files, StorageTypeOK, Job, File, Callers, NoJob,
        BackupSteps, WriteSteps, CopySteps, ChangeSteps, Before, After, Between, Writing
<1>1. CASE UndoVault \/ UndoVaultFails \/ WriteJournal \/ WriteJournalFails
  <2>1. SameRun
    BY <1>1 DEF UndoVault, UndoVaultFails, WriteJournal, WriteJournalFails, WriteEntry,
         JobShape, SameRun, Home
  <2>2. JobShape'
    BY <1>1 DEF UndoVault, UndoVaultFails, WriteJournal, WriteJournalFails, WriteEntry, JobShape
  <2>3. VaultStands' /\ RestoreFaults'
    BY <1>1 DEF UndoVault, UndoVaultFails, WriteJournal, WriteJournalFails, WriteEntry,
         JobShape, VaultStands, RestoreFaults
  <2> QED BY <2>1, <2>2, <2>3
<1>2. CASE RestoreJournal \/ ClearJournal
  <2>1. SameRun /\ JobShape'
    BY <1>2 DEF RestoreJournal, ClearJournal, JobShape, SameRun, Home
  <2>2. VaultStands' /\ RestoreFaults'
    BY <1>2 DEF RestoreJournal, ClearJournal, JobShape, VaultStands, RestoreFaults
  <2> QED BY <2>1, <2>2
<1>3. CASE SetAside
  <2>1. job.caller = "restore" /\ job.env \in Envelope /\ job.step = "setAside"
    BY <1>3 DEF SetAside, JobShape
  <2>2. /\ job'.caller = "restore" /\ job'.env = job.env /\ job'.seal = job.seal
        /\ job'.step = "publish" /\ job'.rescue = vault /\ job'.was = None /\ vault' = None
    BY <1>3, <2>1 DEF SetAside
  <2>3. SameRun /\ JobShape'
    BY <2>1, <2>2 DEF JobShape, SameRun, Home
  <2>4. VaultStands' /\ RestoreFaults'
    BY <2>1, <2>2 DEF VaultStands, RestoreFaults
  <2> QED BY <2>3, <2>4
<1>5. CASE SetAsideFails
  <2>1. job.caller = "restore" /\ job.env \in Envelope
    BY <1>5 DEF SetAsideFails, JobShape
  <2>2. SameRun /\ JobShape'
    BY <1>5, <2>1 DEF SetAsideFails, JobShape, SameRun, Home
  <2>3. VaultStands' /\ RestoreFaults'
    BY <1>5, <2>1 DEF SetAsideFails, JobShape, VaultStands, RestoreFaults
  <2> QED BY <2>2, <2>3
<1>4. CASE PutBack
  <2>0. job.env \in Envelope
    BY <1>4 DEF PutBack, JobShape
  <2>1. SameRun /\ JobShape'
    BY <1>4, <2>0 DEF PutBack, JobShape, SameRun, Home
  <2>2. VaultStands'
    BY <1>4, <2>0 DEF PutBack, JobShape, VaultStands
  <2>3. RestoreFaults'
    BY <1>4, <2>0 DEF PutBack, JobShape, VaultStands, RestoreFaults
  <2> QED BY <2>1, <2>2, <2>3
<1> QED BY <1>1, <1>2, <1>3, <1>4, <1>5 DEF Housekeeping

LEMMA StorageFrame ==
  ASSUME StorageTypeOK, JobShape, VaultStands, RestoreFaults, StorageStep
  PROVE  SameRun /\ StorageTypeOK' /\ JobShape' /\ VaultStands' /\ RestoreFaults'
BY WriteTypes, BackupTypes, HousekeepingTypes, WriteFrame, BackupFrame, HousekeepingFrame
   DEF StorageStep

-----------------------------------------------------------------------------
(* The session's steps, by what they do to the run: they leave all of it   *)
(* alone, start one, turn to its next part, or end it.                     *)
Rests ==
  /\ Quiet /\ UNCHANGED storageVars

Begins(op) ==
  \/ op = "create" /\ CreateBegin
  \/ op = "unlock" /\ UnlockBegin
  \/ op = "check" /\ ChangeBegin
  \/ op = "adopt" /\ AdoptBegin
  \/ op = "verify" /\ ProveBegin
Gives ==
  \/ UnlockRefused \/ ChangeWrongPassphrase \/ ChangeRefused \/ RestoreRefused
  \/ AdoptRefused \/ ProveRefused \/ ProveDone
Starts ==
  \/ CreateWrite \/ MutateWrite \/ ChangeRotate \/ Poll \/ RestoreBegin
  \/ RestoreWrite \/ AdoptWrite
Verdicts == ReconcileAnswer \/ ReconcileUnread \/ ReconcileDone \/ ReconcileFails
Turns ==
  \/ ChangeNotWritten \/ ChangeReseal \/ ChangeUndo \/ ChangeUndone \/ ChangePaid
  \/ ReconcileSettle \/ ReconcileRewrite \/ ReconcilePaid
  \/ Verdicts /\ job.caller = "restore"
EndsWrite ==
  \/ CreateDone \/ CreateFails \/ MutateDone \/ MutateFails \/ MutateUncertain
  \/ RestoreRead \/ RestoreNotAside \/ RestoreFails \/ RestoreDone
  \/ AdoptDone \/ AdoptFails
Adopts == ChangeStands \/ ChangeSweepOwed \/ ChangeDone
EndsChange == ChangeNoJournal \/ ChangeUncertain \/ ChangeFails \/ Adopts
Ends == EndsWrite \/ EndsChange \/ (Verdicts /\ job.caller # "restore")

LEMMA StepsOfTheService ==
  ASSUME Next
  PROVE  \/ StorageRuns \/ (\E op \in Operations : Begins(op)) \/ Gives
         \/ UnlockDone \/ Lock \/ ChangeDerive
         \/ Starts \/ Turns \/ Ends \/ Restart \/ Crash \/ VaultVanishes
<1>1. CASE Opening
  BY <1>1 DEF Opening, Begins, Operations, Gives, Starts, Ends, EndsWrite
<1>2. CASE Saving \/ Restoring
  BY <1>2 DEF Saving, Restoring, Starts, Gives, Ends, EndsWrite
<1>3. CASE Changing
  BY <1>3 DEF Changing, Begins, Operations, Gives, Starts, Turns, Ends, EndsChange, Adopts
<1>4. CASE Reconciling
  BY <1>4 DEF Reconciling, Starts, Turns, Ends, Verdicts
<1>5. CASE Adopting \/ Proving
  BY <1>5 DEF Adopting, Proving, Begins, Operations, Gives, Starts, Ends, EndsWrite
<1>6. CASE Environment
  BY <1>6 DEF Environment
<1> QED BY <1>1, <1>2, <1>3, <1>4, <1>5, <1>6 DEF Next

LEMMA RunIs ==
  ASSUME StorageTypeOK, NEW c \in Callers, NEW s \in Steps, NEW e \in File, NEW z \in File,
         NEW p \in JournalRecord \cup {None, Torn}, Run(c, s, e, z, p)
  PROVE  /\ job' \in Job
         /\ job'.caller = c /\ job'.step = s /\ job'.env = e /\ job'.seal = z
         /\ job'.was = vault
<1>1. job' = [caller |-> c, step |-> s, env |-> e, seal |-> z, was |-> vault,
              rescue |-> None, twin |-> FALSE, prior |-> p]
  BY DEF Run, NoJob
<1> QED BY <1>1 DEF Job, StorageTypeOK, File

(* A run starts with the file it found.                                    *)
LEMMA StartsAJob ==
  ASSUME Structure, Starts
  PROVE  /\ Quiet /\ job'.step # "idle" /\ UNCHANGED <<files, faults>>
         /\ job' \in Job /\ JobShape' /\ VaultStands' /\ RestoreFaults' /\ Home' = Home
<1>1. /\ Quiet /\ UNCHANGED <<files, faults>> /\ job' \in Job
      /\ \/ job'.caller \in {"create", "adopt"} /\ job'.step = "publish" /\ vault = None
         \/ job'.caller = "mutate" /\ job'.step = WriteEntry(vault)
         \/ job'.caller = "change" /\ job'.step = "journal" /\ job'.seal \in Envelope
         \/ job'.caller \in {"poll", "restore"} /\ job'.step = "reconcile" /\ job'.env = None
         \/ job'.caller = "restore" /\ job'.step = "setAside"
      /\ job'.was = vault
      /\ job'.step # "reconcile" => job'.env \in Envelope
  <2> USE EnvelopesAreReadable
      DEF Structure, TypeOK, StorageTypeOK, Callers, Steps, Results, File
  <2>1. CASE CreateWrite
    <3>1. Sealed(stamp, stamp, stamp) \in Envelope
      BY DEF Sealed, Envelope
    <3>2. WriteEntry(vault) = "publish"
      BY <2>1 DEF CreateWrite, WriteEntry
    <3>3. Run("create", "publish", Sealed(stamp, stamp, stamp), None, None)
      BY <2>1, <3>2 DEF CreateWrite
    <3> QED BY <2>1, <3>1, <3>3, RunIs DEF CreateWrite
  <2>2. CASE MutateWrite
    <3>1. Sealed(session.key, stamp, stamp) \in Envelope
      BY <2>2 DEF MutateWrite, Unlocked, Session, Sealed, Envelope
    <3>2. WriteEntry(vault) \in Steps
      BY DEF WriteEntry
    <3> HIDE DEF Steps
    <3> QED BY <2>2, <3>1, <3>2, RunIs DEF MutateWrite
  <2>3. CASE ChangeRotate
    <3>1. /\ Sealed(stamp, stamp, session.body) \in Envelope
          /\ Sealed(stamp, stamp + 1, session.body) \in Envelope
      BY <2>3 DEF ChangeRotate, SameSession, Unlocked, Session, Sealed, Envelope
    <3> QED BY <2>3, <3>1, RunIs DEF ChangeRotate
  <2>4. CASE Poll \/ RestoreBegin
    BY <2>4, RunIs DEF Poll, RestoreBegin, ReplacementFree
  <2>5. CASE RestoreWrite
    <3>1. pending["restore"].env \in Envelope
      BY <2>5 DEF RestoreWrite, FlightsArePast, Operations
    <3> QED BY <2>5, <3>1, RunIs DEF RestoreWrite
  <2>6. CASE AdoptWrite
    <3>1. pending["adopt"].env \in Envelope
      BY <2>6 DEF AdoptWrite, FlightsArePast, Operations
    <3> QED BY <2>6, <3>1, RunIs DEF AdoptWrite, WriteEntry
  <2> QED BY <2>1, <2>2, <2>3, <2>4, <2>5, <2>6 DEF Starts
<1>2. job.caller = "none"
  BY <1>1 DEF Structure, JobShape, Quiet
<1>3. JobShape' /\ job'.step # "idle"
  BY <1>1, EnvelopesAreReadable
     DEF JobShape, WriteEntry, Writing, WriteSteps, CopySteps, ChangeSteps, BackupSteps
<1>4. VaultStands' /\ RestoreFaults'
  BY <1>1, EnvelopesAreReadable
     DEF VaultStands, RestoreFaults, WriteEntry, Writing, CopySteps, BackupSteps, Before,
         After, Between, files
<1>5. Home' = Home
  BY <1>1, <1>2 DEF Home, WriteEntry, WriteSteps, files
<1> QED BY <1>1, <1>3, <1>4, <1>5

LEMMA ReconcilesAre ==
  ASSUME Structure, job.caller \in Reconcilers, job.step \in {"reconcile"} \cup BackupSteps
  PROVE  job.env = None
BY EnvelopesAreReadable
   DEF Structure, JobShape, Reconcilers, BackupSteps, WriteSteps, Writing

LEMMA TurnsTheJob ==
  ASSUME Structure, Turns
  PROVE  /\ SameRun /\ UNCHANGED files /\ faults' \in 0..MaxFaults
         /\ job' \in Job /\ JobShape' /\ VaultStands' /\ RestoreFaults'
         /\ UNCHANGED <<session, generation, pending, stamp, history>>
         /\ fileGeneration' # fileGeneration =>
              fileGeneration' = fileGeneration + 1 /\ job.caller = "change"
<1> USE EnvelopesAreReadable, FaultsAssumption
    DEF Structure, TypeOK, StorageTypeOK, Quiet, Goto, At, NoJob, files, Job, Steps, Callers,
        File, JournalRecord, BackupSteps, WriteSteps, CopySteps, ChangeSteps, Before, After,
        Between, Writing, Home, Returned, serviceVars, history, SameRun
<1>1. CASE ChangeNotWritten \/ ChangeReseal \/ ChangeUndo \/ ChangePaid
  <2>1. SameRun /\ job' \in Job /\ JobShape'
    BY <1>1 DEF ChangeNotWritten, ChangeReseal, ChangeUndo, ChangePaid, JobShape
  <2> QED BY <1>1, <2>1 DEF ChangeNotWritten, ChangeReseal, ChangeUndo, ChangePaid, JobShape,
            VaultStands, RestoreFaults
<1>2. CASE ChangeUndone
  <2>1. SameRun /\ job' \in Job /\ JobShape'
    BY <1>2 DEF ChangeUndone, JobShape
  <2> QED BY <1>2, <2>1 DEF ChangeUndone, Inspect, Smooth, Fault, JobShape, VaultStands, RestoreFaults
<1>3. CASE ReconcileSettle \/ ReconcilePaid
  <2>0. job.env = None /\ job.caller \in Reconcilers
    BY <1>3, ReconcilesAre DEF ReconcileSettle, ReconcilePaid, JobShape, Reconcilers
  <2>1. SameRun /\ job' \in Job /\ JobShape'
    BY <1>3, <2>0 DEF ReconcileSettle, ReconcilePaid, JobShape, Reconcilers
  <2> QED BY <1>3, <2>0, <2>1 DEF ReconcileSettle, ReconcilePaid, JobShape, VaultStands, RestoreFaults
<1>4. CASE ReconcileRewrite
  <2>0. job.env = None /\ job.caller \in Reconcilers
    BY <1>4, ReconcilesAre DEF ReconcileRewrite, JobShape, Reconcilers
  <2>1. journal \in JournalRecord
    BY <1>4 DEF ReconcileRewrite, Verdict, JournalVerdict, Owed, Landed, Recorded, Stale, Paid
  <2>2. SameRun /\ job' \in Job /\ JobShape'
    BY <1>4, <2>0, <2>1 DEF ReconcileRewrite, JobShape, Reconcilers
  <2> QED BY <1>4, <2>0, <2>2 DEF ReconcileRewrite, JobShape, VaultStands, RestoreFaults
<1>5. CASE Verdicts /\ job.caller = "restore"
  <2>0. job.env = None /\ job.caller = "restore"
    BY <1>5, ReconcilesAre DEF Verdicts, ReconcileAnswer, ReconcileUnread, ReconcileDone, ReconcileFails, Reconcilers
  <2>1. /\ Goto("reconciled") /\ UNCHANGED files /\ faults' \in 0..MaxFaults
        /\ job.step \in {"reconcile"} \cup BackupSteps
        /\ UNCHANGED <<session, generation, pending, stamp, history, fileGeneration>>
    BY <1>5 DEF Verdicts, ReconcileAnswer, ReconcileUnread, ReconcileDone, ReconcileFails,
         EndReconcile, Inspect, Smooth, Fault
  <2>2. job' \in Job /\ job'.caller = "restore" /\ job'.env = None /\ job'.step = "reconciled"
    BY <2>0, <2>1 DEF Results
  <2>3. SameRun /\ JobShape'
    BY <2>0, <2>1, <2>2 DEF JobShape
  <2> QED BY <2>0, <2>1, <2>2, <2>3 DEF JobShape, VaultStands, RestoreFaults
<1> QED BY <1>1, <1>2, <1>3, <1>4, <1>5 DEF Turns

LEMMA EndsTheJob ==
  ASSUME Structure, Ends
  PROVE  /\ job' = NoJob /\ job.step # "idle" /\ UNCHANGED files /\ faults' \in 0..MaxFaults
         /\ job' \in Job /\ JobShape' /\ VaultStands' /\ RestoreFaults' /\ Home' = vault
<1>1. job' = NoJob /\ job.step # "idle" /\ UNCHANGED files /\ faults' \in 0..MaxFaults
  <2> USE FaultsAssumption DEF Structure, TypeOK, StorageTypeOK
  <2>1. CASE EndsWrite
    BY <2>1 DEF EndsWrite, CreateDone, CreateFails, MutateDone, MutateFails, MutateUncertain,
         RestoreRead, RestoreNotAside, RestoreFails, RestoreDone, AdoptDone, AdoptFails,
         Returned, Finish
  <2>2. CASE EndsChange
    BY <2>2 DEF EndsChange, Adopts, ChangeNoJournal, ChangeUncertain, ChangeFails, ChangeStands,
         ChangeSweepOwed, ChangeDone, AdoptRotation, ChangeEnd, Returned, Finish
  <2>3. CASE Verdicts /\ job.caller # "restore"
    BY <2>3 DEF Verdicts, ReconcileAnswer, ReconcileUnread, ReconcileDone, ReconcileFails,
         EndReconcile, Finish, At, Inspect, Smooth, Fault
  <2> QED BY <2>1, <2>2, <2>3 DEF Ends
<1>2. job' \in Job
  BY <1>1 DEF NoJob, Job, Callers, Steps, File
<1> QED BY <1>1, <1>2 DEF NoJob, JobShape, VaultStands, RestoreFaults, Writing, CopySteps, Home,
          files, Before, After, Between

-----------------------------------------------------------------------------
(* Types.                                                                  *)
LEMMA FlightTypes ==
  ASSUME TypeOK, NEW op \in Operations
  PROVE  /\ \A env \in File : Await(op, env) => pending' \in [Operations -> Flight \cup {None}]
         /\ Settle(op) => pending' \in [Operations -> Flight \cup {None}]
         /\ Overtake(pending) \in [Operations -> Flight \cup {None}]
<1> USE EnvelopesAreReadable DEF TypeOK, StorageTypeOK
<1>1. ASSUME NEW env \in File, Await(op, env)
      PROVE  pending' \in [Operations -> Flight \cup {None}]
  <2>1. Capture(env) \in Flight
    BY DEF Capture, Flight, Unlocked, Session
  <2> QED BY <1>1, <2>1 DEF Await
<1>2. Settle(op) => pending' \in [Operations -> Flight \cup {None}]
  BY DEF Settle
<1>3. ASSUME NEW o \in Operations, pending[o] # None
      PROVE  [pending[o] EXCEPT !.overtaken = TRUE] \in Flight
  BY <1>3 DEF Flight
<1>4. Overtake(pending) \in [Operations -> Flight \cup {None}]
  BY <1>3 DEF Overtake
<1> QED BY <1>1, <1>2, <1>4

SessionTypeOK ==
  /\ session \in Session \cup {None}
  /\ generation \in Nat /\ fileGeneration \in Nat /\ stamp \in Nat
  /\ pending \in [Operations -> Flight \cup {None}]
  /\ reconcileFailed \in BOOLEAN /\ backupSuspect \in BOOLEAN
HistoryTypeOK ==
  /\ promised \in SUBSET [key : Nat, body : Nat]
  /\ assured \in [key : Nat, body : Nat] \cup {None}
  /\ retired \in SUBSET Nat
  /\ rotating \in (Nat \X Nat) \cup {None}
  /\ evidenceLost \in BOOLEAN

LEMMA ContentTypes ==
  ASSUME HistoryTypeOK, NEW env \in Envelope
  PROVE  /\ Content(env) \in [key : Nat, body : Nat]
         /\ Promise(Content(env)) =>
              /\ promised' \in SUBSET [key : Nat, body : Nat]
              /\ assured' \in [key : Nat, body : Nat] \cup {None}
BY DEF Content, Envelope, Promise, HistoryTypeOK

LEMMA AnswerTypes ==
  ASSUME HistoryTypeOK, NEW u \in BOOLEAN, u => job.env \in Envelope, Answer(u)
  PROVE  /\ promised' \in SUBSET [key : Nat, body : Nat]
         /\ assured' \in [key : Nat, body : Nat] \cup {None}
BY ContentTypes DEF Answer, HistoryTypeOK

LEMMA EndsTypes ==
  ASSUME Structure, SessionTypeOK, HistoryTypeOK, Ends
  PROVE  SessionTypeOK' /\ HistoryTypeOK'
<1>0. job.env # None => job.env \in Envelope
  BY EnvelopesAreReadable DEF Structure, JobShape, Writing, NoJob, TypeOK, StorageTypeOK, Job, Callers
<1>a. \A op \in Operations : Settle(op) => pending' \in [Operations -> Flight \cup {None}]
  BY FlightTypes DEF Structure
<1>b. Overtake(pending) \in [Operations -> Flight \cup {None}]
  BY FlightTypes DEF Structure, Operations
<1>1. CASE CreateDone
  <2>1. job.env \in Envelope
    BY <1>1, <1>0, EnvelopesAreReadable DEF CreateDone, Returned, Structure, JobShape
  <2>2. session' \in Session \cup {None} /\ stamp' \in Nat
    BY <1>1, <2>1 DEF CreateDone, Session, SessionTypeOK, Envelope
  <2> QED BY <1>1, <1>a, <2>1, <2>2, ContentTypes DEF CreateDone, SessionTypeOK, HistoryTypeOK, Operations
<1>2. CASE RestoreDone
  <2>1. job.env \in Envelope
    BY <1>2, <1>0, EnvelopesAreReadable DEF RestoreDone, Returned, Structure, JobShape, BackupSteps
  <2>2. session' \in Session \cup {None} /\ stamp' \in Nat
    BY <1>2, <2>1 DEF RestoreDone, Session, SessionTypeOK, Envelope
  <2> QED BY <1>2, <1>a, <2>1, <2>2, ContentTypes DEF RestoreDone, SessionTypeOK, HistoryTypeOK, Operations
<1>3. CASE MutateDone
  <2>1. job.env \in Envelope /\ session \in Session
    BY <1>3 DEF MutateDone, Returned, Structure, JobShape, JobIsTheSessions, Unlocked, SessionTypeOK
  <2>2. session' \in Session
    BY <1>3, <2>1 DEF MutateDone, Session, Envelope
  <2> QED BY <1>3, <2>1, <2>2, ContentTypes DEF MutateDone, SessionTypeOK, HistoryTypeOK
<1>4. CASE AdoptDone
  <2>1. job.env \in Envelope
    BY <1>4 DEF AdoptDone, Returned, Structure, JobShape
  <2>2. /\ promised' \in SUBSET [key : Nat, body : Nat]
        /\ assured' \in [key : Nat, body : Nat] \cup {None}
        /\ retired' \in SUBSET Nat
        /\ pending' \in [Operations -> Flight \cup {None}]
    BY <1>4, <1>a, <2>1, ContentTypes DEF AdoptDone, HistoryTypeOK, Operations
  <2>3. UNCHANGED <<reconcileFailed, backupSuspect, evidenceLost>>
    BY <1>4 DEF AdoptDone
  <2> QED BY <1>4, <2>2, <2>3 DEF AdoptDone, SessionTypeOK, HistoryTypeOK
<1>5. CASE CreateFails \/ AdoptFails \/ RestoreFails \/ RestoreNotAside
  <2>1. job.env \in Envelope
    BY <1>5, EnvelopesAreReadable
       DEF CreateFails, AdoptFails, RestoreFails, RestoreNotAside, Returned, Structure, JobShape, BackupSteps
  <2>2. \/ UNCHANGED <<promised, assured>>
        \/ \E u \in BOOLEAN : Answer(u)
    BY <1>5 DEF CreateFails, AdoptFails, RestoreFails, RestoreNotAside, At, history
  <2>3. /\ promised' \in SUBSET [key : Nat, body : Nat]
        /\ assured' \in [key : Nat, body : Nat] \cup {None}
    BY <2>1, <2>2, AnswerTypes DEF HistoryTypeOK
  <2>4. UNCHANGED <<reconcileFailed, backupSuspect, evidenceLost>>
    BY <1>5 DEF CreateFails, AdoptFails, RestoreFails, RestoreNotAside, history
  <2>5. pending' \in [Operations -> Flight \cup {None}]
    BY <1>5, <1>a DEF CreateFails, AdoptFails, RestoreFails, RestoreNotAside, Operations
  <2> QED BY <1>5, <2>3, <2>4, <2>5
          DEF CreateFails, AdoptFails, RestoreFails, RestoreNotAside, history, SessionTypeOK,
              HistoryTypeOK
<1>6. CASE MutateFails
  BY <1>6 DEF MutateFails, serviceVars, history, SessionTypeOK, HistoryTypeOK
<1>7. CASE MutateUncertain
  <2>1. job.env \in Envelope
    BY <1>7 DEF MutateUncertain, Returned, Structure, JobShape
  <2>2. /\ promised' \in SUBSET [key : Nat, body : Nat]
        /\ assured' \in [key : Nat, body : Nat] \cup {None}
    BY <1>7, <2>1, AnswerTypes DEF MutateUncertain
  <2>3. UNCHANGED <<reconcileFailed, backupSuspect, evidenceLost>>
    BY <1>7 DEF MutateUncertain
  <2> QED BY <1>7, <1>b, <2>2, <2>3 DEF MutateUncertain, SessionTypeOK, HistoryTypeOK
<1>8. CASE RestoreRead
  <2>1. backup \in File
    BY DEF Structure, TypeOK, StorageTypeOK
  <2>2. pending' \in [Operations -> Flight \cup {None}]
    BY <1>8, <2>1, FlightTypes DEF RestoreRead, SessionTypeOK, Structure, Operations
  <2> QED BY <1>8, <2>2 DEF RestoreRead, SessionTypeOK, HistoryTypeOK, history
<1>9. CASE ChangeNoJournal \/ ChangeFails
  BY <1>9, <1>a DEF ChangeNoJournal, ChangeFails, ChangeEnd, ForgetEvidence, OverwroteEvidence,
       SessionTypeOK, HistoryTypeOK, Operations
<1>10. CASE ChangeUncertain
  <2>1. job.env \in Envelope
    BY <1>10 DEF ChangeUncertain, Returned, Structure, JobShape
  <2>2. pending' \in [Operations -> Flight \cup {None}]
    BY <1>10, <1>b DEF ChangeUncertain
  <2>3. evidenceLost' \in BOOLEAN
    BY <1>10 DEF ChangeUncertain, ForgetEvidence, OverwroteEvidence, HistoryTypeOK
  <2>4. /\ promised' \in SUBSET [key : Nat, body : Nat]
        /\ assured' \in [key : Nat, body : Nat] \cup {None}
    BY <1>10, <2>1, AnswerTypes DEF ChangeUncertain
  <2>5. UNCHANGED <<reconcileFailed, backupSuspect>>
    BY <1>10 DEF ChangeUncertain
  <2> QED BY <1>10, <2>2, <2>3, <2>4, <2>5 DEF ChangeUncertain, SessionTypeOK, HistoryTypeOK
<1>11. CASE Adopts
  <2>1. job.env \in Envelope /\ session \in Session /\ AdoptRotation
    BY <1>11 DEF Adopts, ChangeStands, ChangeSweepOwed, ChangeDone, Returned, Structure, JobShape,
         JobIsTheSessions, Unlocked, SessionTypeOK
  <2>2. session' \in Session /\ retired' \in SUBSET Nat
    BY <2>1 DEF AdoptRotation, Session, Envelope, HistoryTypeOK
  <2>3. /\ pending' \in [Operations -> Flight \cup {None}]
        /\ promised' \in SUBSET [key : Nat, body : Nat]
        /\ assured' \in [key : Nat, body : Nat] \cup {None}
        /\ generation' = generation + 1
    BY <2>1, <1>a, ContentTypes DEF AdoptRotation, ChangeEnd, Operations
  <2>4. UNCHANGED <<fileGeneration, stamp, rotating>>
    BY <1>11 DEF Adopts, ChangeStands, ChangeSweepOwed, ChangeDone
  <2>5. UNCHANGED <<reconcileFailed, evidenceLost>> /\ backupSuspect' \in BOOLEAN
    BY <1>11 DEF Adopts, ChangeStands, ChangeSweepOwed, ChangeDone, SessionTypeOK
  <2>6. generation' \in Nat
    BY <2>3 DEF SessionTypeOK
  <2>7. reconcileFailed' \in BOOLEAN /\ evidenceLost' \in BOOLEAN
    BY <2>5 DEF SessionTypeOK, HistoryTypeOK
  <2>8. SessionTypeOK'
    BY <2>2, <2>3, <2>4, <2>5, <2>6, <2>7 DEF SessionTypeOK
  <2> QED BY <2>2, <2>3, <2>4, <2>7, <2>8 DEF HistoryTypeOK
<1>12. CASE Verdicts
  <2>1. /\ UNCHANGED <<session, generation, fileGeneration, stamp, pending, history>>
        /\ reconcileFailed' \in {reconcileFailed, TRUE}
        /\ backupSuspect' \in BOOLEAN
    BY <1>12 DEF Verdicts, ReconcileAnswer, ReconcileUnread, ReconcileDone, ReconcileFails, Inspect
  <2> QED BY <2>1 DEF SessionTypeOK, HistoryTypeOK, history
<1> QED BY <1>1, <1>2, <1>3, <1>4, <1>5, <1>6, <1>7, <1>8, <1>9, <1>10, <1>11, <1>12
        DEF Ends, EndsWrite, EndsChange

LEMMA TypeStep ==
  ASSUME Structure, [Next]_vars
  PROVE  TypeOK'
<1>0. /\ SessionTypeOK /\ HistoryTypeOK /\ StorageTypeOK
      /\ SessionTypeOK' /\ HistoryTypeOK' /\ StorageTypeOK' => TypeOK'
  BY DEF Structure, TypeOK, SessionTypeOK, HistoryTypeOK
<1>1. CASE StorageRuns
  BY <1>0, <1>1, StorageFrame
     DEF StorageRuns, serviceVars, history, SessionTypeOK, HistoryTypeOK, Structure
<1>2. ASSUME NEW op \in Operations, Begins(op) PROVE TypeOK'
  <2>1. StorageTypeOK' /\ HistoryTypeOK'
    BY <1>0, <1>2 DEF Begins, CreateBegin, UnlockBegin, ChangeBegin, AdoptBegin, ProveBegin,
         storageVars, history, StorageTypeOK, HistoryTypeOK
  <2>2. pending' \in [Operations -> Flight \cup {None}]
    <3>1. \E env \in File : Await(op, env)
      <4>1. CASE op = "adopt" /\ AdoptBegin
        <5>1. Sealed(stamp, stamp, stamp) \in File
          BY <1>0 DEF Sealed, File, Envelope, SessionTypeOK
        <5> QED BY <1>0, <4>1, <5>1 DEF AdoptBegin, StorageTypeOK, File
      <4>2. CASE ~(op = "adopt" /\ AdoptBegin)
        BY <1>0, <1>2, <4>2 DEF Begins, CreateBegin, UnlockBegin, ChangeBegin, ProveBegin,
             StorageTypeOK, File
      <4> QED BY <4>1, <4>2
    <3> QED BY <3>1, FlightTypes DEF Structure
  <2> QED BY <1>0, <1>2, <2>1, <2>2 DEF Begins, CreateBegin, UnlockBegin, ChangeBegin, AdoptBegin,
            ProveBegin, Draw, SessionTypeOK
<1>3. CASE Gives
  <2>1. \E op \in Operations : Give(op)
    BY <1>3 DEF Gives, UnlockRefused, ChangeWrongPassphrase, ChangeRefused, RestoreRefused,
         AdoptRefused, ProveRefused, ProveDone, Operations
  <2>2. PICK op \in Operations : Give(op)
    BY <2>1
  <2>3. pending' \in [Operations -> Flight \cup {None}]
    BY <2>2, FlightTypes DEF Give, Structure
  <2> QED BY <1>0, <2>2, <2>3
          DEF Give, storageVars, history, SessionTypeOK, HistoryTypeOK, StorageTypeOK
<1>4. CASE UnlockDone
  <2>1. pending["unlock"].env \in Envelope
    BY <1>4 DEF UnlockDone, Structure, FlightsArePast, Operations
  <2>2. session' \in Session /\ stamp' \in Nat
    BY <1>0, <1>4, <2>1 DEF UnlockDone, Draw, Session, Envelope, SessionTypeOK
  <2>3. /\ promised' \in SUBSET [key : Nat, body : Nat]
        /\ assured' \in [key : Nat, body : Nat] \cup {None}
    BY <1>0, <1>4, <2>1, ContentTypes DEF UnlockDone
  <2>4. retired' \in SUBSET Nat
    BY <1>0, <1>4 DEF UnlockDone, HistoryTypeOK
  <2>5. pending' \in [Operations -> Flight \cup {None}]
    BY <1>4, FlightTypes DEF UnlockDone, Structure, Operations
  <2> QED BY <1>0, <1>4, <2>2, <2>3, <2>4, <2>5
          DEF UnlockDone, storageVars, SessionTypeOK, HistoryTypeOK, StorageTypeOK
<1>5. CASE Lock
  <2>1. pending' \in [Operations -> Flight \cup {None}]
    BY <1>5, FlightTypes DEF Lock, Structure, Operations
  <2> QED BY <1>0, <1>5, <2>1
          DEF Lock, storageVars, history, SessionTypeOK, HistoryTypeOK, StorageTypeOK
<1>6. CASE ChangeDerive
  BY <1>0, <1>6 DEF ChangeDerive, storageVars, history, SessionTypeOK, HistoryTypeOK,
       StorageTypeOK, Operations
<1>7. CASE Starts
  <2>1. StorageTypeOK'
    BY <1>0, <1>7, StartsAJob DEF StorageTypeOK, files
  <2>2. SessionTypeOK'
    <3>1. /\ reconcileFailed' \in BOOLEAN
          /\ UNCHANGED <<session, fileGeneration, pending, backupSuspect>>
      BY <1>0, <1>7 DEF Starts, CreateWrite, MutateWrite, ChangeRotate, Poll, RestoreBegin,
           RestoreWrite, AdoptWrite, serviceVars, SessionTypeOK
    <3>2. generation' \in Nat /\ stamp' \in Nat
      BY <1>0, <1>7 DEF Starts, CreateWrite, MutateWrite, ChangeRotate, Poll, RestoreBegin,
           RestoreWrite, AdoptWrite, Draw, serviceVars, SessionTypeOK
    <3> QED BY <1>0, <3>1, <3>2 DEF SessionTypeOK
  <2>3. HistoryTypeOK'
    <3>1. CASE ChangeRotate
      BY <1>0, <3>1 DEF ChangeRotate, SameSession, Unlocked, Session, SessionTypeOK, HistoryTypeOK
    <3>2. CASE ~ChangeRotate
      BY <1>0, <1>7, <3>2 DEF Starts, CreateWrite, MutateWrite, Poll, RestoreBegin,
           RestoreWrite, AdoptWrite, history, HistoryTypeOK
    <3> QED BY <3>1, <3>2
  <2> QED BY <1>0, <2>1, <2>2, <2>3
<1>8. CASE Turns
  <2>1. StorageTypeOK' /\ HistoryTypeOK'
    BY <1>0, <1>8, TurnsTheJob DEF StorageTypeOK, HistoryTypeOK, history, files
  <2>2. reconcileFailed' \in BOOLEAN /\ backupSuspect' \in BOOLEAN
    BY <1>0, <1>8 DEF Turns, ChangeNotWritten, ChangeReseal, ChangeUndo, ChangeUndone, ChangePaid,
         ReconcileSettle, ReconcileRewrite, ReconcilePaid, Verdicts, ReconcileAnswer,
         ReconcileUnread, ReconcileDone, ReconcileFails, Inspect, serviceVars, SessionTypeOK
  <2>3. SessionTypeOK'
    BY <1>0, <1>8, <2>2, TurnsTheJob DEF SessionTypeOK
  <2> QED BY <1>0, <2>1, <2>3
<1>9. CASE Ends
  <2>1. StorageTypeOK'
    BY <1>0, <1>9, EndsTheJob DEF StorageTypeOK, files
  <2> QED BY <1>0, <1>9, <2>1, EndsTypes
<1>10. CASE Restart \/ Crash
  <2>1. Startup \in Job
    BY DEF Startup, NoJob, Job, Callers, Steps, File
  <2>2. SessionTypeOK'
    <3>1. /\ session' = None /\ generation' = 0 /\ fileGeneration' = 0
          /\ pending' = [op \in Operations |-> None] /\ stamp' = stamp
          /\ reconcileFailed' \in BOOLEAN /\ backupSuspect' \in BOOLEAN
      BY <1>10 DEF Restart, Crash, Reboot
    <3> QED BY <1>0, <3>1 DEF SessionTypeOK
  <2>3. CASE Restart
    BY <1>0, <2>1, <2>2, <2>3 DEF Restart, Reboot, files, history, StorageTypeOK, HistoryTypeOK
  <2>4. CASE Crash
    <3>1. job.env # None => job.env \in Envelope
      BY EnvelopesAreReadable DEF Structure, JobShape, Writing, NoJob, TypeOK, StorageTypeOK, Job, Callers
    <3>2. HistoryTypeOK'
      BY <1>0, <2>4, <3>1, AnswerTypes DEF Crash, ForgetEvidence, OverwroteEvidence, HistoryTypeOK
    <3>3. StorageTypeOK'
      BY <1>0, <2>1, <2>4, FaultsAssumption, EnvelopesAreReadable
         DEF Crash, TornByCrash, Reboot, Fault, StorageTypeOK, File
    <3> QED BY <1>0, <2>2, <3>2, <3>3
  <2> QED BY <1>10, <2>3, <2>4
<1>11. CASE VaultVanishes
  BY <1>0, <1>11, FaultsAssumption
     DEF VaultVanishes, Fault, serviceVars, StorageTypeOK, SessionTypeOK, HistoryTypeOK, File
<1>12. CASE UNCHANGED vars
  BY <1>0, <1>12 DEF vars, storageVars, serviceVars, history, StorageTypeOK, SessionTypeOK, HistoryTypeOK
<1> QED BY <1>1, <1>2, <1>3, <1>4, <1>5, <1>6, <1>7, <1>8, <1>9, <1>10, <1>11, <1>12,
           StepsOfTheService

-----------------------------------------------------------------------------
(* The rest of the run, and what the operations in flight carry on.        *)
Reboots == Restart \/ Crash

LEMMA RunsStand ==
  ASSUME Structure, [Next]_vars
  PROVE  JobShape' /\ VaultStands' /\ RestoreFaults'
<1> DEFINE Rest == /\ UNCHANGED <<job, vault, backup, faults>>
<1>0. Rest => JobShape' /\ VaultStands' /\ RestoreFaults'
  BY DEF Structure, JobShape, VaultStands, RestoreFaults, Writing
<1>1. CASE StorageRuns
  BY <1>1, StorageFrame DEF StorageRuns, Structure, TypeOK
<1>2. ASSUME NEW op \in Operations, Begins(op) PROVE Rest
  BY <1>2 DEF Begins, CreateBegin, UnlockBegin, ChangeBegin, AdoptBegin, ProveBegin, storageVars
<1>3. CASE Gives \/ UnlockDone \/ Lock \/ ChangeDerive
  <2>1. Rest
    BY <1>3 DEF Gives, UnlockRefused, ChangeWrongPassphrase, ChangeRefused, RestoreRefused,
         AdoptRefused, ProveRefused, ProveDone, Give, UnlockDone, Lock, ChangeDerive, storageVars
  <2> QED BY <1>0, <2>1
<1>4. CASE Starts \/ Turns \/ Ends
  BY <1>4, StartsAJob, TurnsTheJob, EndsTheJob
<1>5. CASE Reboots
  <2>1. job' = Startup
    BY <1>5 DEF Reboots, Restart, Crash, Reboot
  <2> QED BY <2>1 DEF Startup, NoJob, JobShape, VaultStands, RestoreFaults, Writing, Before, After,
            Between, CopySteps, BackupSteps
<1>6. CASE VaultVanishes
  <2>1. job.step = "idle" /\ UNCHANGED job
    BY <1>6 DEF VaultVanishes, Quiet
  <2> QED BY <2>1 DEF Structure, JobShape, VaultStands, RestoreFaults, NoJob, Writing
<1>7. CASE UNCHANGED vars
  BY <1>0, <1>7 DEF vars, storageVars
<1> QED BY <1>0, <1>1, <1>2, <1>3, <1>4, <1>5, <1>6, <1>7, StepsOfTheService DEF Reboots

(* A flight that stays is the one it was; a lock marks it and moves on.    *)
Carried(new, old) ==
  /\ old # None
  /\ new.gen = old.gen /\ new.fgen = old.fgen /\ new.env = old.env
  /\ new.sid = old.sid /\ new.saw = old.saw
  /\ new.overtaken => old.overtaken \/ generation' = generation + 1
Remains ==
  \A op \in Operations : pending'[op] = None \/ Carried(pending'[op], pending[op])

LEMMA SettledRemains ==
  ASSUME TypeOK, NEW op \in Operations, Settle(op) \/ UNCHANGED pending
  PROVE  Remains
BY DEF TypeOK, Settle, Remains, Carried

LEMMA OvertakenRemains ==
  ASSUME TypeOK, generation' = generation + 1,
         \/ pending' = Overtake(pending)
         \/ pending' = [Overtake(pending) EXCEPT !["rekey"] = None]
  PROVE  Remains
<1>1. ASSUME NEW op \in Operations, pending[op] # None
      PROVE  Carried([pending[op] EXCEPT !.overtaken = TRUE], pending[op])
  BY <1>1 DEF TypeOK, Flight, Carried
<1>2. ASSUME NEW op \in Operations, pending'[op] # None
      PROVE  pending[op] # None /\ pending'[op] = [pending[op] EXCEPT !.overtaken = TRUE]
  BY <1>2 DEF Overtake, Operations
<1> QED BY <1>1, <1>2 DEF Remains

LEMMA PendingShape ==
  ASSUME Structure, [Next]_vars
  PROVE  Remains \/ (\E op \in Operations : Begins(op)) \/ RestoreRead \/ ChangeDerive
<1>0. TypeOK
  BY DEF Structure
<1>1. CASE StorageRuns \/ Starts \/ Turns \/ VaultVanishes \/ UNCHANGED vars
  <2>1. UNCHANGED pending
    BY <1>1, TurnsTheJob DEF StorageRuns, Starts, CreateWrite, MutateWrite, ChangeRotate, Poll,
         RestoreBegin, RestoreWrite, AdoptWrite, VaultVanishes, vars, serviceVars
  <2> QED BY <1>0, <2>1, SettledRemains DEF Operations
<1>2. CASE Gives \/ UnlockDone
  <2>1. \E op \in Operations : Settle(op)
    BY <1>2 DEF Gives, UnlockRefused, ChangeWrongPassphrase, ChangeRefused, RestoreRefused,
         AdoptRefused, ProveRefused, ProveDone, Give, UnlockDone, Operations
  <2> QED BY <1>0, <2>1, SettledRemains
<1>3. CASE Lock \/ MutateUncertain \/ ChangeUncertain
  BY <1>0, <1>3, OvertakenRemains DEF Lock, MutateUncertain, ChangeUncertain
<1>4. CASE EndsWrite /\ ~RestoreRead /\ ~MutateUncertain
  <2>1. UNCHANGED pending \/ \E op \in Operations : Settle(op)
    BY <1>4 DEF EndsWrite, CreateDone, CreateFails, MutateDone, MutateFails, RestoreNotAside,
         RestoreFails, RestoreDone, AdoptDone, AdoptFails, Operations, serviceVars
  <2> QED BY <1>0, <2>1, SettledRemains DEF Operations
<1>5. CASE EndsChange /\ ~ChangeUncertain
  <2>1. Settle("rekey")
    BY <1>5 DEF EndsChange, Adopts, ChangeNoJournal, ChangeFails, ChangeStands, ChangeSweepOwed,
         ChangeDone, AdoptRotation, ChangeEnd
  <2> QED BY <1>0, <2>1, SettledRemains DEF Operations
<1>6. CASE Verdicts
  <2>1. UNCHANGED pending
    BY <1>6 DEF Verdicts, ReconcileAnswer, ReconcileUnread, ReconcileDone, ReconcileFails
  <2> QED BY <1>0, <2>1, SettledRemains DEF Operations
<1>7. CASE Reboots
  BY <1>7 DEF Reboots, Restart, Crash, Reboot, Remains
<1> QED BY <1>1, <1>2, <1>3, <1>4, <1>5, <1>6, <1>7, StepsOfTheService DEF Ends, EndsWrite, Reboots

(* What moves forward, and how a session comes about.                      *)
Forward ==
  /\ generation' \in {generation, generation + 1}
  /\ fileGeneration' \in {fileGeneration, fileGeneration + 1}
  /\ stamp' >= stamp
  /\ \/ session' = None
     \/ Unlocked /\ session'.id = session.id /\ (session' = session \/ job.step # "idle")
     \/ session'.id = stamp /\ stamp' > stamp

LEMMA CountersShape ==
  ASSUME Structure, [Next]_vars
  PROVE  Forward \/ Reboots
<1> USE DEF Structure, TypeOK, Forward, Unlocked
<1>1. CASE StorageRuns \/ VaultVanishes \/ UNCHANGED vars \/ Gives \/ Lock \/ ChangeDerive
  <2>1. /\ generation' \in {generation, generation + 1} /\ session' \in {session, None}
        /\ UNCHANGED <<fileGeneration, stamp>>
    BY <1>1 DEF StorageRuns, VaultVanishes, vars, serviceVars, Gives, UnlockRefused,
         ChangeWrongPassphrase, ChangeRefused, RestoreRefused, AdoptRefused, ProveRefused,
         ProveDone, Give, Lock, ChangeDerive
  <2> QED BY <2>1
<1>2. ASSUME NEW op \in Operations, Begins(op) PROVE Forward
  <2>1. UNCHANGED <<generation, fileGeneration, session>> /\ stamp' >= stamp
    BY <1>2 DEF Begins, CreateBegin, UnlockBegin, ChangeBegin, AdoptBegin, ProveBegin, Draw
  <2> QED BY <2>1
<1>3. CASE UnlockDone
  BY <1>3 DEF UnlockDone, Draw
<1>4. CASE Starts
  <2>1. /\ generation' \in {generation, generation + 1} /\ session' = session
        /\ UNCHANGED fileGeneration /\ stamp' >= stamp
    BY <1>4 DEF Starts, CreateWrite, MutateWrite, ChangeRotate, Poll, RestoreBegin, RestoreWrite,
         AdoptWrite, Draw, serviceVars
  <2> QED BY <2>1
<1>5. CASE Turns
  BY <1>5, TurnsTheJob
<1>6. CASE EndsWrite
  <2>1. CASE CreateDone \/ RestoreDone
    BY <2>1 DEF CreateDone, RestoreDone, Returned
  <2>2. CASE MutateDone
    <3>1. session \in Session /\ session # None /\ job.step # "idle"
      BY <2>2 DEF MutateDone, Returned, JobIsTheSessions
    <3>2. session' = [session EXCEPT !.body = job.env.body] /\ fileGeneration' = fileGeneration + 1
          /\ UNCHANGED <<generation, stamp>>
      BY <2>2 DEF MutateDone
    <3>3. session'.id = session.id
      BY <3>1, <3>2 DEF Session
    <3> QED BY <3>1, <3>2, <3>3
  <2>3. CASE ~CreateDone /\ ~RestoreDone /\ ~MutateDone
    <3>1. /\ generation' \in {generation, generation + 1} /\ session' \in {session, None}
          /\ fileGeneration' \in {fileGeneration, fileGeneration + 1} /\ stamp' = stamp
      BY <1>6, <2>3 DEF EndsWrite, CreateFails, MutateFails, MutateUncertain, RestoreRead,
           RestoreNotAside, RestoreFails, AdoptDone, AdoptFails, serviceVars
    <3> QED BY <3>1
  <2> QED BY <2>1, <2>2, <2>3
<1>7. CASE Adopts
  <2>1. session \in Session /\ job.step # "idle"
    BY <1>7 DEF Adopts, ChangeStands, ChangeSweepOwed, ChangeDone, Returned, JobIsTheSessions
  <2>2. /\ generation' = generation + 1 /\ UNCHANGED <<fileGeneration, stamp>>
        /\ session' = [session EXCEPT !.key = job.env.key]
    BY <1>7 DEF Adopts, ChangeStands, ChangeSweepOwed, ChangeDone, AdoptRotation
  <2>3. session'.id = session.id /\ session # None
    BY <1>7, <2>1, <2>2 DEF Session, JobIsTheSessions, Adopts, ChangeStands, ChangeSweepOwed,
       ChangeDone, Returned
  <2> QED BY <2>1, <2>2, <2>3
<1>8. CASE (EndsChange /\ ~Adopts) \/ Verdicts
  <2>1. /\ generation' \in {generation, generation + 1} /\ session' \in {session, None}
        /\ UNCHANGED <<fileGeneration, stamp>>
    BY <1>8 DEF EndsChange, ChangeNoJournal, ChangeUncertain, ChangeFails, Verdicts,
         ReconcileAnswer, ReconcileUnread, ReconcileDone, ReconcileFails
  <2> QED BY <2>1
<1> QED BY <1>1, <1>2, <1>3, <1>4, <1>5, <1>6, <1>7, <1>8, StepsOfTheService
        DEF Ends, EndsChange, Reboots

LEMMA FlightsStep ==
  ASSUME Structure, [Next]_vars
  PROVE  FlightsArePast'
<1> USE DEF Idle, Unlocked
<1>1. CASE Reboots
  <2>1. session' = None /\ pending' = [op \in Operations |-> None]
    BY <1>1 DEF Reboots, Restart, Crash, Reboot
  <2> QED BY <2>1 DEF FlightsArePast
<1>2. CASE Forward
  <2>1. (session # None => session.id < stamp) => (session' # None => session'.id < stamp')
    BY <1>2, TypeStep DEF Forward, Structure, TypeOK, Session
  <2>2. CASE Remains
    <3>1. ASSUME NEW op \in Operations, pending'[op] # None
          PROVE  /\ pending'[op].gen <= generation' /\ pending'[op].fgen <= fileGeneration'
                 /\ pending'[op].overtaken => pending'[op].gen < generation'
                 /\ pending'[op].sid \in Nat => pending'[op].sid < stamp'
                 /\ op # "create" => pending'[op].env \in Envelope
      <4>1. pending[op] \in Flight /\ Carried(pending'[op], pending[op])
        BY <2>2, <3>1 DEF Remains, Carried, Structure, TypeOK
      <4> QED BY <1>2, <4>1, TypeStep
              DEF Carried, Forward, Structure, TypeOK, Flight, FlightsArePast
    <3> QED BY <2>1, <3>1 DEF Structure, FlightsArePast
  <2>3. ASSUME NEW o \in Operations, NEW env \in File, Await(o, env), UNCHANGED generation,
               UNCHANGED fileGeneration, o # "create" => env \in Envelope
        PROVE  FlightsArePast'
    <3>1. Capture(env).gen = generation /\ Capture(env).fgen = fileGeneration
          /\ Capture(env).env = env /\ ~Capture(env).overtaken
          /\ (Capture(env).sid \in Nat => Capture(env).sid < stamp)
      BY EnvelopesAreReadable DEF Capture, Structure, FlightsArePast
    <3>2. ASSUME NEW op \in Operations, pending'[op] # None
          PROVE  /\ pending'[op].gen <= generation' /\ pending'[op].fgen <= fileGeneration'
                 /\ pending'[op].overtaken => pending'[op].gen < generation'
                 /\ pending'[op].sid \in Nat => pending'[op].sid < stamp'
                 /\ op # "create" => pending'[op].env \in Envelope
      <4>1. CASE op = o
        <5>1. pending'[op] = Capture(env)
          BY <2>3, <4>1 DEF Await, Structure, TypeOK
        <5> QED BY <1>2, <2>3, <3>1, <4>1, <5>1, TypeStep DEF Forward, Structure, TypeOK
      <4>2. CASE op # o
        <5>1. pending'[op] = pending[op] /\ pending[op] \in Flight
          BY <2>3, <3>2, <4>2 DEF Await, Structure, TypeOK
        <5> QED BY <1>2, <2>3, <3>2, <5>1, TypeStep
                DEF Forward, Structure, TypeOK, Flight, FlightsArePast
      <4> QED BY <4>1, <4>2
    <3> QED BY <2>1, <3>2 DEF Structure, FlightsArePast
  <2>4. ASSUME NEW op \in Operations, Begins(op) PROVE FlightsArePast'
    <3>1. vault \in File /\ backup \in File /\ None \in File /\ rescues \in SUBSET File
          /\ superseded \in SUBSET File /\ Sealed(stamp, stamp, stamp) \in Envelope
      BY DEF Structure, TypeOK, StorageTypeOK, File, Sealed, Envelope
    <3>2. \E env \in File : Await(op, env) /\ (op # "create" => env \in Envelope)
      BY <2>4, <3>1, EnvelopesAreReadable
         DEF Begins, CreateBegin, UnlockBegin, ChangeBegin, AdoptBegin, ProveBegin, NotStarted, File
    <3>3. UNCHANGED <<generation, fileGeneration>>
      BY <2>4 DEF Begins, CreateBegin, UnlockBegin, ChangeBegin, AdoptBegin, ProveBegin
    <3> QED BY <2>3, <3>2, <3>3
  <2>5. CASE RestoreRead
    <3>1. UNCHANGED <<generation, fileGeneration>> /\ backup \in File
      BY <2>5 DEF RestoreRead, Structure, TypeOK, StorageTypeOK
    <3>2. UNCHANGED pending \/ (Await("restore", backup) /\ backup \in Envelope)
      BY <2>5, <3>1, EnvelopesAreReadable DEF RestoreRead
    <3>3. UNCHANGED pending => Remains
      BY SettledRemains DEF Structure, Operations
    <3> QED BY <2>2, <2>3, <3>1, <3>2, <3>3 DEF Operations
  <2>6. CASE ChangeDerive
    <3>1. /\ UNCHANGED <<generation, fileGeneration>>
          /\ \A op \in Operations : pending'[op] \in {pending[op], None, pending["check"]}
          /\ pending'["check"] = None /\ pending'["create"] = pending["create"]
      BY <2>6 DEF ChangeDerive, Structure, TypeOK, Operations
    <3>2. ASSUME NEW op \in Operations, pending'[op] # None
          PROVE  \E o \in Operations : pending'[op] = pending[o] /\ pending[o] # None
                                       /\ (op # "create" => o # "create")
      BY <2>6, <3>1, <3>2 DEF ChangeDerive, Structure, TypeOK, Operations
    <3>3. ASSUME NEW op \in Operations, pending'[op] # None
          PROVE  /\ pending'[op].gen <= generation' /\ pending'[op].fgen <= fileGeneration'
                 /\ pending'[op].overtaken => pending'[op].gen < generation'
                 /\ pending'[op].sid \in Nat => pending'[op].sid < stamp'
                 /\ op # "create" => pending'[op].env \in Envelope
      <4>1. PICK o \in Operations : pending'[op] = pending[o] /\ pending[o] # None
                                    /\ (op # "create" => o # "create")
        BY <3>2, <3>3
      <4> QED BY <1>2, <3>1, <4>1, TypeStep
              DEF Forward, Structure, TypeOK, Flight, FlightsArePast
    <3> QED BY <2>1, <3>3 DEF Structure, FlightsArePast
  <2> QED BY <2>2, <2>4, <2>5, <2>6, PendingShape
<1> QED BY <1>1, <1>2, CountersShape

-----------------------------------------------------------------------------
(* How a step treats the run: it leaves it idle, starts it, goes on, ends. *)
Continues ==
  /\ SameRun
  /\ UNCHANGED <<session, generation, pending, stamp, promised>>
  /\ fileGeneration' # fileGeneration =>
       fileGeneration' = fileGeneration + 1 /\ job.caller = "change"

LEMMA RunShape ==
  ASSUME Structure, [Next]_vars
  PROVE  \/ Continues
         \/ Quiet /\ UNCHANGED job /\ (VaultVanishes \/ UNCHANGED storageVars)
         \/ Starts \/ Ends \/ Reboots \/ UNCHANGED vars
<1>1. CASE StorageRuns
  BY <1>1, StorageFrame DEF StorageRuns, Structure, TypeOK, Continues, serviceVars, history
<1>2. CASE Turns
  BY <1>2, TurnsTheJob DEF Continues, history
<1>3. ASSUME NEW op \in Operations, Begins(op) PROVE Quiet /\ UNCHANGED storageVars
  BY <1>3 DEF Begins, CreateBegin, UnlockBegin, ChangeBegin, AdoptBegin, ProveBegin, NotStarted,
     ReplacementFree
<1>4. CASE Gives \/ UnlockDone \/ Lock \/ ChangeDerive
  BY <1>4 DEF Gives, UnlockRefused, ChangeWrongPassphrase, ChangeRefused, RestoreRefused,
     AdoptRefused, ProveRefused, ProveDone, Give, UnlockDone, Lock, ChangeDerive, storageVars
<1>5. CASE VaultVanishes
  BY <1>5 DEF VaultVanishes
<1> QED BY <1>1, <1>2, <1>3, <1>4, <1>5, StepsOfTheService DEF Reboots, storageVars

LEMMA QuietIsNobody ==
  ASSUME Structure, Quiet
  PROVE  job.caller = "none" /\ job = NoJob /\ ~Writing /\ Home = vault
BY DEF Structure, JobShape, Quiet, NoJob, Writing, Home

LEMMA OneStep ==
  ASSUME Structure, [Next]_vars
  PROVE  OneAtATime'
<1> USE DEF Idle
<1> DEFINE Few == \A a, b \in Replacements : pending'[a] # None /\ pending'[b] # None => a = b
<1>0. Replacements \subseteq Operations
  BY DEF Replacements, Operations
<1>1. Few
  <2>1. CASE Remains
    BY <1>0, <2>1 DEF Remains, Carried, Structure, OneAtATime
  <2>2. ASSUME NEW op \in Operations, Begins(op) PROVE Few
    <3>1. CASE op \in Replacements
      <4>1. \A a \in Replacements : pending[a] = None
        BY <2>2, <3>1 DEF Begins, CreateBegin, UnlockBegin, ChangeBegin, AdoptBegin, ProveBegin,
           ReplacementFree, Replacements
      <4>2. \A a \in Operations : a # op => pending'[a] = pending[a]
        BY <2>2 DEF Begins, CreateBegin, UnlockBegin, ChangeBegin, AdoptBegin, ProveBegin, Await,
           Structure, TypeOK
      <4> QED BY <1>0, <4>1, <4>2
    <3>2. CASE op \notin Replacements
      <4>1. \A a \in Replacements : pending'[a] = pending[a]
        BY <1>0, <2>2, <3>2 DEF Begins, CreateBegin, UnlockBegin, ChangeBegin, AdoptBegin,
           ProveBegin, Await, Structure, TypeOK
      <4> QED BY <4>1 DEF Structure, OneAtATime
    <3> QED BY <3>1, <3>2
  <2>3. CASE RestoreRead
    <3>1. job.env = None
      BY <2>3 DEF RestoreRead, Returned, Structure, JobShape, WriteSteps, Writing
    <3>2. \A a \in Replacements : pending[a] = None
      BY <2>3, <3>1 DEF RestoreRead, Returned, Structure, OneAtATime, Writing
    <3>3. \A a \in Operations : a # "restore" => pending'[a] = pending[a]
      BY <2>3 DEF RestoreRead, Await, Structure, TypeOK
    <3> QED BY <1>0, <3>2, <3>3
  <2>4. CASE ChangeDerive
    <3>1. \A a \in Replacements : a # "check" => pending[a] = None
      BY <2>4 DEF ChangeDerive, Structure, OneAtATime, Replacements
    <3>2. \A a \in Replacements : a # "rekey" => pending'[a] = None
      BY <1>0, <2>4, <3>1 DEF ChangeDerive, Structure, TypeOK
    <3> QED BY <3>2
  <2> QED BY <2>1, <2>2, <2>3, <2>4, PendingShape
<1>2. CASE Continues
  BY <1>2 DEF Continues, SameRun, Structure, OneAtATime, Writing
<1>3. CASE Quiet /\ UNCHANGED job
  BY <1>1, <1>3, QuietIsNobody DEF OneAtATime, Writing
<1>4. CASE Starts
  <2>1. UNCHANGED pending
    BY <1>4 DEF Starts, CreateWrite, MutateWrite, ChangeRotate, Poll, RestoreBegin, RestoreWrite,
       AdoptWrite, serviceVars
  <2>2. /\ job'.caller = "create" => ~Idle("create")
        /\ job'.caller = "adopt" => ~Idle("adopt")
        /\ job'.caller = "change" => ~Idle("rekey")
        /\ job'.caller = "restore" /\ job'.env # None => ~Idle("restore")
        /\ job'.caller = "restore" /\ job'.env = None => \A a \in Replacements : Idle(a)
        /\ job'.caller # "boot"
    <3>1. pending["restore"] # None => pending["restore"].env # None
      BY EnvelopesAreReadable DEF Structure, FlightsArePast, Operations
    <3>2. CASE CreateWrite \/ MutateWrite \/ ChangeRotate
      BY <3>2 DEF CreateWrite, MutateWrite, ChangeRotate, Run, NoJob
    <3>3. CASE Poll \/ RestoreBegin
      BY <3>3 DEF Poll, RestoreBegin, Run, NoJob, ReplacementFree
    <3>4. CASE RestoreWrite \/ AdoptWrite
      BY <3>1, <3>4 DEF RestoreWrite, AdoptWrite, Run, NoJob
    <3> QED BY <1>4, <3>2, <3>3, <3>4 DEF Starts
  <2> QED BY <1>1, <2>1, <2>2 DEF OneAtATime, Writing
<1>5. CASE Ends
  BY <1>1, <1>5, EndsTheJob DEF OneAtATime, Writing, NoJob
<1>6. CASE Reboots
  BY <1>6 DEF Reboots, Restart, Crash, Reboot, Startup, NoJob, OneAtATime, Operations, Replacements, Writing
<1>7. CASE UNCHANGED vars
  BY <1>7 DEF vars, storageVars, serviceVars, Structure, OneAtATime, Writing
<1> QED BY <1>2, <1>3, <1>4, <1>5, <1>6, <1>7, RunShape

LEMMA SessionOfJobStep ==
  ASSUME Structure, [Next]_vars
  PROVE  JobIsTheSessions'
<1>2. CASE Continues
  BY <1>2 DEF Continues, SameRun, Structure, JobIsTheSessions, Writing, Unlocked
<1>3. CASE Quiet /\ UNCHANGED job
  BY <1>3, QuietIsNobody DEF JobIsTheSessions, Writing
<1>4. CASE Starts
  <2> USE DEF JobIsTheSessions, Unlocked, Writing, Run, NoJob, serviceVars
  <2>1. CASE CreateWrite \/ AdoptWrite
    BY <2>1 DEF CreateWrite, AdoptWrite
  <2>2. CASE MutateWrite
    BY <2>2 DEF MutateWrite, Sealed
  <2>3. CASE ChangeRotate
    BY <2>3 DEF ChangeRotate, SameSession, Sealed
  <2>4. CASE Poll \/ RestoreBegin \/ RestoreWrite
    BY <2>4 DEF Poll, RestoreBegin, RestoreWrite
  <2> QED BY <1>4, <2>1, <2>2, <2>3, <2>4 DEF Starts
<1>5. CASE Ends
  BY <1>5, EndsTheJob DEF JobIsTheSessions, Writing, NoJob
<1>6. CASE Reboots
  BY <1>6 DEF Reboots, Restart, Crash, Reboot, Startup, NoJob, JobIsTheSessions, Unlocked, Writing
<1>7. CASE UNCHANGED vars
  BY <1>7 DEF vars, storageVars, serviceVars, Structure, JobIsTheSessions, Writing, Unlocked
<1> QED BY <1>2, <1>3, <1>4, <1>5, <1>6, <1>7, RunShape

(* Reconciling leaves the vault file alone.                                *)
LEMMA VerdictsHome ==
  ASSUME Structure, Verdicts
  PROVE  job.caller \in Reconcilers /\ Home = vault
<1>1. job.caller \in Reconcilers /\ job.step \in {"reconcile"} \cup BackupSteps
  <2>1. job.step = "reconcile" \/ (job.caller \in Reconcilers /\ job.step \in BackupSteps)
    BY DEF Verdicts, ReconcileAnswer, ReconcileUnread, ReconcileDone, ReconcileFails, At, BackupSteps
  <2>2. job.caller \in Callers \cup {"none"}
    BY DEF Structure, TypeOK, StorageTypeOK, Job
  <2> QED BY <2>1, <2>2 DEF Reconcilers, Structure, JobShape, Callers, NoJob, WriteSteps,
            CopySteps, ChangeSteps, BackupSteps
<1> QED BY <1>1 DEF Home, Reconcilers, WriteSteps, BackupSteps

(* A run that leaves the file generation alone leaves the file too, as     *)
(* long as it is not that of a replacement.                                *)
LEMMA EndsHome ==
  ASSUME Structure, Ends, ~Idle("restore"), UNCHANGED fileGeneration, job.caller # "restore"
  PROVE  vault = Home
<1>0. job.caller \notin {"create", "adopt", "change"}
  BY DEF Structure, OneAtATime, Replacements
<1>1. CASE MutateFails
  BY <1>1, EnvelopesAreReadable
     DEF MutateFails, Returned, Home, Structure, JobShape, VaultStands, Before, Writing
<1>2. ~MutateDone /\ ~MutateUncertain
  <2>1. fileGeneration \in Nat
    BY DEF Structure, TypeOK
  <2>2. fileGeneration' # fileGeneration + 1
    BY <2>1
  <2>3. MutateDone \/ MutateUncertain => fileGeneration' = fileGeneration + 1
    BY DEF MutateDone, MutateUncertain
  <2> QED BY <2>2, <2>3
<1>3. CASE Verdicts
  BY <1>3, VerdictsHome
<1> QED BY <1>0, <1>1, <1>2, <1>3
        DEF Ends, EndsWrite, EndsChange, Adopts, CreateDone, CreateFails, RestoreRead,
            RestoreNotAside, RestoreFails, RestoreDone, AdoptDone, AdoptFails, ChangeNoJournal,
            ChangeUncertain, ChangeFails, ChangeStands, ChangeSweepOwed, ChangeDone, Returned

LEMMA SawStep ==
  ASSUME Structure, [Next]_vars
  PROVE  RestoreSawHome'
<1> USE DEF Idle
<1> DEFINE Fresh == pending'["restore"].saw
<1>0. pending["restore"] # None =>
        pending["restore"].fgen \in Nat /\ pending["restore"].fgen <= fileGeneration
      /\ fileGeneration \in Nat
  BY DEF Structure, TypeOK, Flight, FlightsArePast, Operations
<1>1. CASE RestoreRead
  <2>1. job' = NoJob /\ vault' = vault /\ job.env = None /\ job.caller = "restore"
    BY <1>1, EndsTheJob DEF Ends, EndsWrite, files, RestoreRead, Returned, Structure, JobShape,
       WriteSteps, Writing
  <2>2. pending["restore"] = None
    BY <2>1 DEF Structure, OneAtATime, Writing, Replacements
  <2>3. pending'["restore"] # None => pending'["restore"].saw = vault
    BY <1>1, <2>2 DEF RestoreRead, Await, Capture, Structure, TypeOK, Operations
  <2> QED BY <2>1, <2>3 DEF RestoreSawHome, Home, NoJob
<1>2. CASE ~RestoreRead
  <2>1. pending'["restore"] # None => Carried(pending'["restore"], pending["restore"])
    <3>1. CASE Remains
      BY <3>1 DEF Remains, Operations
    <3>2. ASSUME NEW op \in Operations, Begins(op)
          PROVE  pending'["restore"] = pending["restore"]
      BY <3>2 DEF Begins, CreateBegin, UnlockBegin, ChangeBegin, AdoptBegin, ProveBegin, Await,
         Structure, TypeOK, Operations
    <3>3. ChangeDerive => pending'["restore"] = pending["restore"]
      BY DEF ChangeDerive, Structure, TypeOK, Operations
    <3>4. pending["restore"] # None /\ pending'["restore"] = pending["restore"]
            => Carried(pending'["restore"], pending["restore"])
      BY DEF Carried
    <3> QED BY <1>2, <3>1, <3>2, <3>3, <3>4, PendingShape
  <2>2. CASE Reboots
    BY <2>2 DEF Reboots, Restart, Crash, Reboot, RestoreSawHome, Operations
  <2>3. CASE ~Reboots
    <3>0. SUFFICES ASSUME pending'["restore"] # None,
                          pending'["restore"].fgen = fileGeneration'
                   PROVE  /\ job'.caller # "restore" => Home' = Fresh
                          /\ job'.step = "setAside" => vault' = Fresh
      BY DEF RestoreSawHome
    <3>1. /\ pending["restore"] # None /\ Fresh = pending["restore"].saw
          /\ pending["restore"].fgen = fileGeneration /\ fileGeneration' = fileGeneration
      BY <1>0, <2>1, <2>3, <3>0, CountersShape DEF Carried, Forward
    <3>2. CASE Continues
      BY <3>1, <3>2 DEF Continues, SameRun, Structure, RestoreSawHome
    <3>3. CASE Quiet /\ UNCHANGED job /\ UNCHANGED storageVars
      BY <3>1, <3>3, QuietIsNobody DEF Structure, RestoreSawHome, storageVars, Quiet, Home
    <3>4. CASE VaultVanishes
      BY <3>1, <3>4 DEF VaultVanishes
    <3>5. CASE Starts
      <4>1. Home = Fresh /\ Home' = Home /\ Home = vault /\ vault' = vault
        BY <3>1, <3>5, StartsAJob, QuietIsNobody DEF Structure, RestoreSawHome, files
      <4> QED BY <4>1
    <3>6. CASE Ends
      <4>1. job' = NoJob /\ Home' = vault
        BY <3>6, EndsTheJob
      <4>2. job.caller # "restore"
        <5>1. CASE job.caller = "restore" /\ job.env = None
          BY <3>1, <5>1 DEF Structure, OneAtATime, Writing, Replacements
        <5>2. CASE job.caller = "restore" /\ job.env # None
          <6>1. EndsWrite /\ job.step \in {"notAside", "putBack", "written"}
            BY <1>2, <3>6, <5>2
               DEF Ends, EndsWrite, EndsChange, Adopts, CreateDone, CreateFails, MutateDone,
                   MutateFails, MutateUncertain, RestoreNotAside, RestoreFails, RestoreDone,
                   AdoptDone, AdoptFails, ChangeNoJournal, ChangeUncertain, ChangeFails,
                   ChangeStands, ChangeSweepOwed, ChangeDone, Returned
          <6>2. pending'["restore"] = None
            BY <1>2, <5>2, <6>1
               DEF EndsWrite, CreateDone, CreateFails, MutateDone, MutateFails, MutateUncertain,
                   RestoreNotAside, RestoreFails, RestoreDone, AdoptDone, AdoptFails, Returned,
                   Settle, Structure, TypeOK, Operations
          <6> QED BY <3>0, <6>2
        <5> QED BY <5>1, <5>2
      <4>3. Home = Fresh /\ vault = Home
        BY <3>1, <3>6, <4>2, EndsHome DEF Structure, RestoreSawHome
      <4> QED BY <4>1, <4>3 DEF NoJob
    <3>7. CASE UNCHANGED vars
      BY <3>1, <3>7 DEF vars, storageVars, Structure, RestoreSawHome, Home
    <3> QED BY <2>3, <3>2, <3>3, <3>4, <3>5, <3>6, <3>7, RunShape
  <2> QED BY <2>2, <2>3
<1> QED BY <1>1, <1>2

LEMMA StructureStep == Structure /\ [Next]_vars => Structure'
BY TypeStep, RunsStand, OneStep, SessionOfJobStep, FlightsStep, SawStep DEF Structure

-----------------------------------------------------------------------------
(* What the user was told.                                                 *)
LEMMA SessionShape ==
  ASSUME Structure, [Next]_vars
  PROVE  \/ session' \in {session, None} \/ UnlockDone \/ MutateDone \/ Adopts
         \/ CreateDone /\ pending["create"].gen = generation
         \/ RestoreDone /\ pending["restore"].gen = generation
<1>1. CASE StorageRuns \/ Gives \/ Lock \/ ChangeDerive \/ VaultVanishes \/ Reboots \/ UNCHANGED vars
  BY <1>1 DEF StorageRuns, VaultVanishes, vars, serviceVars, Gives, UnlockRefused,
     ChangeWrongPassphrase, ChangeRefused, RestoreRefused, AdoptRefused, ProveRefused, ProveDone,
     Give, Lock, ChangeDerive, Reboots, Restart, Crash, Reboot
<1>2. ASSUME NEW op \in Operations, Begins(op) PROVE session' = session
  BY <1>2 DEF Begins, CreateBegin, UnlockBegin, ChangeBegin, AdoptBegin, ProveBegin
<1>3. CASE Starts \/ Turns
  BY <1>3, TurnsTheJob DEF Starts, CreateWrite, MutateWrite, ChangeRotate, Poll, RestoreBegin,
     RestoreWrite, AdoptWrite, serviceVars
<1>4. CASE EndsWrite
  BY <1>4 DEF EndsWrite, CreateDone, CreateFails, MutateFails, MutateUncertain, RestoreRead,
     RestoreNotAside, RestoreFails, RestoreDone, AdoptDone, AdoptFails, serviceVars
<1>5. CASE EndsChange \/ Verdicts
  BY <1>5 DEF EndsChange, ChangeNoJournal, ChangeUncertain, ChangeFails, Verdicts,
     ReconcileAnswer, ReconcileUnread, ReconcileDone, ReconcileFails
<1> QED BY <1>1, <1>2, <1>3, <1>4, <1>5, StepsOfTheService DEF Ends, Reboots

LEMMA RoomIsAlone ==
  ASSUME MaxPending <= 1, Room
  PROVE  \A op \in Operations : Idle(op)
<1> DEFINE Busy == {op \in Operations : ~Idle(op)}
<1>1. IsFiniteSet(Operations)
  <2> DEFINE Opening4 == ({"create"} \cup {"unlock"}) \cup ({"verify"} \cup {"restore"})
             Changing3 == ({"check"} \cup {"rekey"}) \cup {"adopt"}
  <2>1. IsFiniteSet({"create"} \cup {"unlock"}) /\ IsFiniteSet({"verify"} \cup {"restore"})
        /\ IsFiniteSet({"check"} \cup {"rekey"}) /\ IsFiniteSet({"adopt"})
    BY FS_Singleton, FS_Union
  <2>2. IsFiniteSet(Opening4) /\ IsFiniteSet(Changing3)
    BY <2>1, FS_Union
  <2>3. IsFiniteSet(Opening4 \cup Changing3)
    BY <2>2, FS_Union
  <2>4. Operations = Opening4 \cup Changing3
    BY DEF Operations
  <2> QED BY <2>3, <2>4
<1>2. IsFiniteSet(Busy)
  BY <1>1, FS_Subset
<1>3. Cardinality(Busy) \in Nat /\ Cardinality(Busy) < MaxPending
  BY <1>2, FS_CardinalityType DEF Room
<1>4. Cardinality(Busy) = 0
  BY <1>3, BoundsAssumption
<1>5. Busy = {}
  BY <1>2, <1>4, FS_EmptySet
<1> QED BY <1>5

(* What a write in progress may have left at the live name.                *)
LEMMA VaultMeanwhile ==
  ASSUME Structure
  PROVE  vault \in {Home, Torn, None} \/ (Writing /\ vault = job.env)
<1>1. CASE Home = vault
  BY <1>1
<1>2. CASE job.caller = "restore" /\ Writing
  BY <1>2 DEF Structure, JobShape, VaultStands, Before, After, Between, BackupSteps, WriteSteps,
     Writing, Home
<1>3. CASE job.caller \in {"create", "adopt", "mutate"}
  BY <1>3, EnvelopesAreReadable DEF Structure, JobShape, VaultStands, Before, After, Between,
     BackupSteps, WriteSteps, CopySteps, Writing, Home
<1>4. CASE job.caller = "change"
  BY <1>4, EnvelopesAreReadable DEF Structure, JobShape, VaultStands, Before, After, Between,
     BackupSteps, WriteSteps, CopySteps, ChangeSteps, Writing, Home
<1>5. CASE job.caller = "restore" /\ ~Writing
  BY <1>5, EnvelopesAreReadable DEF Structure, JobShape, BackupSteps, WriteSteps, Writing, Home
<1> QED BY <1>1, <1>2, <1>3, <1>4, <1>5 DEF Home

LEMMA AloneStep ==
  ASSUME Structure, Structure', Alone, [Next]_vars
  PROVE  Alone'
<1> USE DEF Idle
<1>0. SUFFICES ASSUME MaxPending <= 1, pending'["unlock"] # None
               PROVE  /\ job'.caller \in {"none", "poll", "mutate"}
                      /\ \A op \in Operations \ {"unlock"} : pending'[op] = None
  BY DEF Alone
<1>1. ASSUME NEW op \in Operations, Begins(op)
      PROVE  op = "unlock" /\ \A o \in Operations \ {"unlock"} : pending'[o] = None
  <2>1. Room
    BY <1>1 DEF Begins, CreateBegin, UnlockBegin, ChangeBegin, AdoptBegin, ProveBegin, NotStarted,
       ReplacementFree
  <2>2. \A o \in Operations : pending[o] = None
    BY <1>0, <2>1, RoomIsAlone
  <2>3. \A o \in Operations : o # op => pending'[o] = pending[o]
    BY <1>1 DEF Begins, CreateBegin, UnlockBegin, ChangeBegin, AdoptBegin, ProveBegin, Await,
       Structure, TypeOK
  <2> QED BY <1>0, <2>2, <2>3 DEF Operations
<1>2. ASSUME NEW op \in Operations, Begins(op) PROVE job'.caller = "none"
  <2>1. Quiet /\ UNCHANGED storageVars
    BY <1>2 DEF Begins, CreateBegin, UnlockBegin, ChangeBegin, AdoptBegin, ProveBegin, NotStarted,
       ReplacementFree
  <2> QED BY <2>1, QuietIsNobody DEF storageVars
<1>3. ~RestoreRead
  <2>1. RestoreRead => pending'["unlock"] = pending["unlock"] /\ job.caller = "restore"
    BY DEF RestoreRead, Await, Returned, Structure, TypeOK, Operations
  <2> QED BY <1>0, <2>1 DEF Alone
<1>4. ~ChangeDerive
  <2>1. ChangeDerive => pending'["unlock"] = pending["unlock"] /\ pending["check"] # None
    BY DEF ChangeDerive, Structure, TypeOK, Operations
  <2> QED BY <1>0, <2>1 DEF Alone, Operations
<1>5. CASE Remains
  <2>1. /\ pending["unlock"] # None
        /\ \A op \in Operations \ {"unlock"} : pending[op] = None /\ pending'[op] = None
        /\ job.caller \in {"none", "poll", "mutate"}
    BY <1>0, <1>5 DEF Remains, Carried, Alone, Operations
  <2>2. CASE Continues \/ (Quiet /\ UNCHANGED job) \/ Ends \/ UNCHANGED vars
    BY <2>1, <2>2, EndsTheJob DEF Continues, SameRun, NoJob, vars, storageVars
  <2>3. CASE Starts
    <3>1. ~Room
      BY <1>0, <2>1, RoomIsAlone DEF Operations
    <3>2. Poll \/ MutateWrite
      BY <2>1, <2>3, <3>1 DEF Starts, CreateWrite, ChangeRotate, RestoreBegin, ReplacementFree,
         RestoreWrite, AdoptWrite, Operations
    <3> QED BY <2>1, <3>2 DEF Poll, MutateWrite, Run, NoJob
  <2>4. CASE Reboots
    BY <1>0, <2>4 DEF Reboots, Restart, Crash, Reboot, Operations
  <2> QED BY <2>1, <2>2, <2>3, <2>4, RunShape
<1> QED BY <1>1, <1>2, <1>3, <1>4, <1>5, PendingShape

(* An unlock that may still open the vault was begun before, or just now.  *)
LEMMA UnlockStep ==
  ASSUME Structure, Alone, UnlockSeesHome, [Next]_vars,
         MaxFaults <= 1 \/ MaxPending <= 1
  PROVE  UnlockSeesHome'
<1> USE DEF Idle
<1>0. SUFFICES ASSUME pending'["unlock"] # None, pending'["unlock"].gen = generation'
               PROVE  Home' \in {pending'["unlock"].env, Torn} /\ job'.caller # "mutate"
  BY DEF UnlockSeesHome
<1>1. CASE UnlockBegin
  <2>1. pending'["unlock"] = Capture(vault) /\ Quiet /\ UNCHANGED storageVars
    BY <1>1 DEF UnlockBegin, NotStarted, Await, Structure, TypeOK, Operations
  <2> QED BY <2>1, QuietIsNobody DEF Capture, storageVars, Home
<1>2. CASE ~UnlockBegin
  <2>1. Carried(pending'["unlock"], pending["unlock"])
    <3>1. CASE Remains
      BY <1>0, <3>1 DEF Remains, Operations
    <3>2. ASSUME NEW op \in Operations, Begins(op)
          PROVE  pending'["unlock"] = pending["unlock"]
      BY <1>2, <3>2 DEF Begins, CreateBegin, ChangeBegin, AdoptBegin, ProveBegin, Await,
         Structure, TypeOK, Operations
    <3>3. ChangeDerive \/ RestoreRead => pending'["unlock"] = pending["unlock"]
      BY DEF ChangeDerive, RestoreRead, Await, Structure, TypeOK, Operations
    <3>4. pending'["unlock"] = pending["unlock"] => Carried(pending'["unlock"], pending["unlock"])
      BY <1>0 DEF Carried
    <3> QED BY <3>1, <3>2, <3>3, <3>4, PendingShape
  <2>2. ~Reboots
    BY <1>0 DEF Reboots, Restart, Crash, Reboot, Operations
  <2>3. pending["unlock"] \in Flight /\ pending["unlock"].env \in Envelope
        /\ pending["unlock"].gen <= generation /\ generation \in Nat
    BY <2>1 DEF Carried, Structure, TypeOK, FlightsArePast, Operations
  <2>4. /\ pending["unlock"] # None /\ pending["unlock"].gen = generation
        /\ generation' = generation /\ pending'["unlock"].env = pending["unlock"].env
    BY <1>0, <2>1, <2>2, <2>3, CountersShape DEF Carried, Forward, Flight
  <2>5. Home \in {pending["unlock"].env, Torn} /\ job.caller # "mutate"
    BY <2>4 DEF UnlockSeesHome
  <2>6. CASE Continues \/ UNCHANGED vars
    BY <2>4, <2>5, <2>6 DEF Continues, SameRun, vars, storageVars, Home
  <2>7. CASE Quiet /\ UNCHANGED storageVars
    BY <2>4, <2>5, <2>7 DEF storageVars, Home
  <2>8. ~VaultVanishes
    BY <2>4 DEF VaultVanishes
  <2>9. CASE Starts
    <3>1. ~MutateWrite
      BY <2>3, <2>4 DEF MutateWrite
    <3>2. job'.caller # "mutate"
      BY <2>9, <3>1 DEF Starts, CreateWrite, ChangeRotate, Poll, RestoreBegin, RestoreWrite,
         AdoptWrite, Run, NoJob
    <3> QED BY <2>4, <2>5, <2>9, <3>2, StartsAJob
  <2>10. CASE Ends
    <3>1. Home' = vault /\ job'.caller = "none"
      BY <2>10, EndsTheJob DEF NoJob
    <3>2. Home # None
      BY <2>3, <2>5, EnvelopesAreReadable
    <3>3. job.caller \notin {"create", "adopt"}
      BY <3>2 DEF Home, Structure, JobShape
    <3>4. CASE RestoreFails
      <4>1. job.caller = "restore" /\ job.step = "putBack" /\ Home = job.rescue
        BY <3>4 DEF RestoreFails, Returned, Home
      <4>2. MaxFaults <= 1
        BY <2>4, <4>1 DEF Alone
      <4>3. vault \in {job.rescue, Torn}
        BY <4>1, <4>2, FaultsAssumption DEF Structure, RestoreFaults, TypeOK, StorageTypeOK
      <4> QED BY <2>4, <2>5, <3>1, <4>1, <4>3
    <3>5. CASE RestoreRead \/ RestoreNotAside \/ ChangeNoJournal \/ ChangeFails \/ Verdicts
      <4>1. vault = Home
        <5>1. CASE RestoreRead \/ RestoreNotAside
          BY <5>1 DEF RestoreRead, RestoreNotAside, Returned, Home, WriteSteps
        <5>2. CASE ChangeNoJournal \/ ChangeFails
          BY <5>2, EnvelopesAreReadable DEF ChangeNoJournal, ChangeFails, Returned, Home, Structure,
             JobShape, VaultStands, Before, Writing
        <5>3. CASE Verdicts
          BY <5>3, VerdictsHome
        <5> QED BY <3>5, <5>1, <5>2, <5>3
      <4> QED BY <2>4, <2>5, <3>1, <4>1
    <3>6. CASE RestoreDone \/ ChangeUncertain \/ Adopts
      <4>1. generation' = generation + 1
        BY <3>6 DEF RestoreDone, ChangeUncertain, Adopts, ChangeStands, ChangeSweepOwed, ChangeDone,
           AdoptRotation
      <4> QED BY <2>3, <2>4, <4>1
    <3>7. CASE EndsWrite /\ ~RestoreFails /\ ~RestoreRead /\ ~RestoreNotAside /\ ~RestoreDone
      BY <2>5, <3>3, <3>7 DEF EndsWrite, CreateDone, CreateFails, MutateDone, MutateFails,
         MutateUncertain, AdoptDone, AdoptFails, Returned
    <3> QED BY <2>10, <3>4, <3>5, <3>6, <3>7 DEF Ends, EndsChange
  <2> QED BY <2>2, <2>6, <2>7, <2>8, <2>9, <2>10, RunShape
<1> QED BY <1>1, <1>2

LEMMA NothingToOpenStep ==
  ASSUME Structure, UnlockSeesHome, NothingToOpen, [Next]_vars
  PROVE  NothingToOpen'
<1> USE DEF Idle, Unlocked
<1>0. SUFFICES ASSUME NEW op \in {"create", "adopt"}, pending'[op] # None
               PROVE  session' = None /\ Home' = None
  BY DEF NothingToOpen
<1>1. CASE Begins(op)
  <2>1. Quiet /\ UNCHANGED storageVars /\ session' = None /\ vault = None
    BY <1>1 DEF Begins, CreateBegin, UnlockBegin, ChangeBegin, AdoptBegin, ProveBegin,
       ReplacementFree, NotStarted
  <2> QED BY <2>1, QuietIsNobody DEF storageVars, Home
<1>2. CASE ~Begins(op)
  <2>1. pending[op] # None
    <3>1. CASE Remains
      BY <1>0, <3>1 DEF Remains, Carried, Operations
    <3>2. ASSUME NEW o \in Operations, Begins(o)
          PROVE  pending'[op] = pending[op]
      BY <1>2, <3>2 DEF Begins, CreateBegin, UnlockBegin, ChangeBegin, AdoptBegin, ProveBegin,
         Await, Structure, TypeOK, Operations
    <3>3. ChangeDerive \/ RestoreRead => pending'[op] = pending[op]
      BY DEF ChangeDerive, RestoreRead, Await, Structure, TypeOK, Operations
    <3> QED BY <1>0, <3>1, <3>2, <3>3, PendingShape
  <2>2. session = None /\ Home = None
    BY <2>1 DEF NothingToOpen
  <2>3. /\ job.caller \notin {"mutate", "change", "restore", "boot"}
        /\ job.caller \in {"create", "adopt"} => job.caller = op
    BY <2>1, <2>2 DEF Structure, JobIsTheSessions, OneAtATime, Replacements, Operations
  <2>4. ~Reboots
    BY <1>0 DEF Reboots, Restart, Crash, Reboot, Operations
  <2>5. ~UnlockDone
    <3>1. UnlockDone => Home \in {pending["unlock"].env, Torn} /\ pending["unlock"].env \in Envelope
      BY DEF UnlockDone, UnlockSeesHome, Structure, FlightsArePast, Operations
    <3> QED BY <2>2, <3>1, EnvelopesAreReadable
  <2>6. session' = None
    <3>1. ~MutateDone /\ ~Adopts /\ ~RestoreDone
      BY <2>3 DEF MutateDone, Adopts, ChangeStands, ChangeSweepOwed, ChangeDone, RestoreDone, Returned
    <3>2. ~CreateDone
      <4>1. CreateDone => pending'["create"] = None /\ job.caller = "create"
        BY DEF CreateDone, Returned, Settle, Structure, TypeOK, Operations
      <4> QED BY <1>0, <2>3, <4>1
    <3> QED BY <2>2, <2>5, <3>1, <3>2, SessionShape
  <2>7. Home' = None
    <3>1. CASE Continues \/ UNCHANGED vars
      BY <2>2, <3>1 DEF Continues, SameRun, vars, storageVars, Home
    <3>2. CASE Quiet /\ UNCHANGED storageVars
      BY <2>2, <3>2 DEF storageVars, Home
    <3>3. CASE VaultVanishes
      BY <3>3 DEF VaultVanishes, Structure, JobShape, NoJob, Home, Quiet
    <3>4. CASE Starts
      BY <2>2, <3>4, StartsAJob
    <3>5. CASE Ends
      <4>1. Verdicts
        <5>1. ~EndsChange
          BY <2>3 DEF EndsChange, Adopts, ChangeNoJournal, ChangeUncertain, ChangeFails, ChangeStands,
             ChangeSweepOwed, ChangeDone, Returned
        <5>2. ~EndsWrite
          <6>1. ~MutateDone /\ ~MutateFails /\ ~MutateUncertain /\ ~RestoreRead /\ ~RestoreNotAside
                /\ ~RestoreFails /\ ~RestoreDone
            BY <2>3 DEF MutateDone, MutateFails, MutateUncertain, RestoreRead, RestoreNotAside,
               RestoreFails, RestoreDone, Returned
          <6>2. CreateDone \/ CreateFails => pending'["create"] = None /\ job.caller = "create"
            BY DEF CreateDone, CreateFails, Returned, Settle, Structure, TypeOK, Operations
          <6>3. AdoptDone \/ AdoptFails => pending'["adopt"] = None /\ job.caller = "adopt"
            BY DEF AdoptDone, AdoptFails, Returned, Settle, Structure, TypeOK, Operations
          <6> QED BY <1>0, <2>3, <6>1, <6>2, <6>3 DEF EndsWrite
        <5> QED BY <3>5, <5>1, <5>2 DEF Ends
      <4> QED BY <2>2, <3>5, <4>1, VerdictsHome, EndsTheJob
    <3> QED BY <2>4, <3>1, <3>2, <3>3, <3>4, <3>5, RunShape
  <2> QED BY <2>6, <2>7
<1> QED BY <1>1, <1>2

(* The operation said what the vault holds, and so it does.                *)
LEMMA PromiseStep ==
  ASSUME Structure, UnlockSeesHome, NothingToOpen, PromiseIsKept, [Next]_vars
  PROVE  PromiseIsKept'
<1> USE DEF Unlocked
<1>0. /\ None \notin Envelope /\ ~Readable(None) /\ ~Readable(Torn)
      /\ \A f \in Envelope : Readable(f)
  BY EnvelopesAreReadable DEF Readable
<1>1. CASE Continues \/ UNCHANGED vars
  <2>1. UNCHANGED <<session, promised>> /\ Home' = Home
    BY <1>1 DEF Continues, SameRun, vars, storageVars, serviceVars, history, Home
  <2> QED BY <2>1 DEF PromiseIsKept
<1>2. CASE UnlockDone
  <2>1. /\ Home = vault /\ Home' = vault
        /\ vault \in {pending["unlock"].env, Torn}
        /\ promised' = {Content(pending["unlock"].env)}
    BY <1>2, QuietIsNobody DEF UnlockDone, UnlockSeesHome, Promise, storageVars, Home
  <2>2. Content(session') = Content(pending["unlock"].env)
    BY <1>2 DEF UnlockDone, Content
  <2> QED BY <1>0, <2>1, <2>2 DEF PromiseIsKept
<1>3. CASE Quiet /\ UNCHANGED storageVars /\ ~UnlockDone /\ ~Ends /\ ~Reboots
  <2>1. ~Starts /\ ~Turns /\ ~StorageRuns
    <3>1. ~StorageRuns
      BY <1>3, StorageFrame DEF StorageRuns, SameRun, Quiet, Structure, TypeOK
    <3> QED BY <1>3, <3>1, StartsAJob, TurnsTheJob DEF storageVars, Quiet, SameRun
  <2>2. promised' = promised /\ session' \in {session, None}
    <3>1. ASSUME NEW op \in Operations, Begins(op) PROVE UNCHANGED <<promised, session>>
      BY <3>1 DEF Begins, CreateBegin, UnlockBegin, ChangeBegin, AdoptBegin, ProveBegin, history
    <3>2. CASE Gives \/ Lock \/ ChangeDerive \/ VaultVanishes \/ UNCHANGED vars
      BY <3>2 DEF Gives, UnlockRefused, ChangeWrongPassphrase, ChangeRefused, RestoreRefused,
         AdoptRefused, ProveRefused, ProveDone, Give, Lock, ChangeDerive, VaultVanishes, vars,
         serviceVars, history
    <3> QED BY <1>3, <2>1, <3>1, <3>2, StepsOfTheService DEF Reboots
  <2>3. Home' = Home
    BY <1>3 DEF storageVars, Home
  <2> QED BY <2>2, <2>3 DEF PromiseIsKept
<1>4. CASE VaultVanishes
  <2>1. Home' = None /\ UNCHANGED <<session, promised>>
    BY <1>4 DEF VaultVanishes, serviceVars, Structure, JobShape, NoJob, Home, Quiet
  <2> QED BY <1>0, <2>1 DEF PromiseIsKept
<1>5. CASE Starts
  <2>1. UNCHANGED <<session, promised>>
    BY <1>5 DEF Starts, CreateWrite, MutateWrite, ChangeRotate, Poll, RestoreBegin, RestoreWrite,
       AdoptWrite, serviceVars, history
  <2>2. Home' = Home
    BY <1>5, StartsAJob
  <2> QED BY <2>1, <2>2 DEF PromiseIsKept
<1>6. CASE Ends
  <2>0. Home' = vault
    BY <1>6, EndsTheJob
  <2>1. CASE Verdicts
    <3>1. UNCHANGED <<session, promised>> /\ Home = vault
      BY <2>1, VerdictsHome DEF Verdicts, ReconcileAnswer, ReconcileUnread, ReconcileDone,
         ReconcileFails, history
    <3> QED BY <2>0, <3>1 DEF PromiseIsKept
  <2>2. CASE CreateDone \/ RestoreDone \/ AdoptDone
    <3>1. job.env \in Envelope /\ vault = job.env /\ session = None
      <4>1. job.env \in Envelope /\ job.env # None
        BY <2>2, <1>0 DEF CreateDone, RestoreDone, AdoptDone, Returned, Structure, JobShape, BackupSteps
      <4>2. vault = job.env
        BY <2>2, <4>1 DEF CreateDone, RestoreDone, AdoptDone, Returned, Structure, VaultStands,
           After, Writing
      <4>3. CreateDone => pending["create"] # None
        BY DEF CreateDone, Returned, Structure, OneAtATime, Idle
      <4> QED BY <2>2, <4>1, <4>2, <4>3
              DEF CreateDone, RestoreDone, AdoptDone, Returned, Structure, JobIsTheSessions,
                  NothingToOpen, Idle, Writing
    <3>2. promised' = {Content(job.env)}
      BY <2>2 DEF CreateDone, RestoreDone, AdoptDone, Promise
    <3>3. session' # None => Content(session') = Content(job.env)
      BY <2>2, <3>1 DEF CreateDone, RestoreDone, AdoptDone, Content
    <3> QED BY <2>0, <3>1, <3>2, <3>3 DEF PromiseIsKept
  <2>3. CASE CreateFails \/ AdoptFails
    <3>1. job.env \in Envelope /\ session = None /\ session' = None /\ vault \in {job.env, None, Torn}
      <4>1. job.env \in Envelope /\ job.env # None /\ job.was = None
        BY <2>3, <1>0 DEF CreateFails, AdoptFails, Returned, Structure, JobShape
      <4>2. vault \in {job.env, None, Torn}
        BY <2>3, <4>1 DEF CreateFails, AdoptFails, Returned, Structure, VaultStands, Before, Between,
           Writing
      <4>3. CreateFails => pending["create"] # None
        BY DEF CreateFails, Returned, Structure, OneAtATime, Idle
      <4> QED BY <2>3, <4>1, <4>2, <4>3 DEF CreateFails, AdoptFails, Returned, Structure,
              JobIsTheSessions, NothingToOpen, Idle
    <3>2. vault # job.env \/ promised' = promised \cup {Content(job.env)}
      <4>1. CASE job.step = "uncertain"
        BY <2>3, <4>1 DEF CreateFails, AdoptFails, Answer, At
      <4>2. CASE job.step # "uncertain"
        BY <2>3, <3>1, <4>2, <1>0 DEF CreateFails, AdoptFails, Returned, Structure, VaultStands,
           JobShape, Before, Writing
      <4> QED BY <4>1, <4>2
    <3> QED BY <1>0, <2>0, <3>1, <3>2 DEF PromiseIsKept
  <2>4. CASE MutateDone
    <3>1. /\ job.env \in Envelope /\ vault = job.env /\ session \in Session
          /\ job.env.key = session.key
      BY <2>4, <1>0 DEF MutateDone, Returned, Structure, JobShape, VaultStands, After, Writing,
         JobIsTheSessions, TypeOK
    <3>2. promised' = {Content(job.env)} /\ session' = [session EXCEPT !.body = job.env.body]
      BY <2>4 DEF MutateDone, Promise
    <3>3. Content(session') = Content(job.env)
      BY <3>1, <3>2 DEF Content, Session
    <3> QED BY <2>0, <3>1, <3>2, <3>3 DEF PromiseIsKept
  <2>5. CASE MutateFails \/ ChangeNoJournal \/ ChangeFails
    <3>1. vault = Home
      BY <2>5, <1>0 DEF MutateFails, ChangeNoJournal, ChangeFails, Returned, Structure, JobShape,
         VaultStands, Before, Writing, Home
    <3>2. UNCHANGED <<session, promised>>
      BY <2>5 DEF MutateFails, ChangeNoJournal, ChangeFails, serviceVars, history
    <3> QED BY <2>0, <3>1, <3>2 DEF PromiseIsKept
  <2>6. CASE MutateUncertain \/ ChangeUncertain
    <3>1. vault \in {Home, Torn, None} \/ vault = job.env
      BY VaultMeanwhile
    <3>2. session' = None /\ promised' = promised \cup {Content(job.env)}
      BY <2>6 DEF MutateUncertain, ChangeUncertain, Answer
    <3> QED BY <1>0, <2>0, <3>1, <3>2 DEF PromiseIsKept
  <2>7. CASE RestoreRead \/ RestoreNotAside
    <3>1. Home = vault /\ UNCHANGED <<session, promised>>
      BY <2>7 DEF RestoreRead, RestoreNotAside, Returned, Home, WriteSteps, history
    <3> QED BY <2>0, <3>1 DEF PromiseIsKept
  <2>8. CASE RestoreFails
    <3>1. job.env \in Envelope /\ session = None /\ session' = None /\ Home = job.rescue
      BY <2>8, <1>0 DEF RestoreFails, Returned, Structure, JobShape, JobIsTheSessions, Home,
         BackupSteps, Writing
    <3>2. vault \in {job.rescue, job.env, Torn, None}
      BY <2>8, <3>1, <1>0 DEF RestoreFails, Returned, Structure, VaultStands, Writing
    <3>3. \/ vault = job.rescue /\ promised' = promised
          \/ vault # job.rescue /\ promised' = promised \cup {Content(job.env)}
      BY <2>8 DEF RestoreFails, Answer
    <3> QED BY <1>0, <2>0, <3>1, <3>2, <3>3 DEF PromiseIsKept
  <2>9. CASE Adopts
    <3>1. job.caller = "change" /\ job.step \in {"stuck", "sweepOwed", "cleared"} /\ AdoptRotation
      BY <2>9 DEF Adopts, ChangeStands, ChangeSweepOwed, ChangeDone, Returned
    <3>2. /\ job.env \in Envelope /\ vault = job.env /\ session \in Session
          /\ job.env.body = session.body
      BY <3>1, <1>0 DEF Structure, JobShape, VaultStands, After, BackupSteps, Writing,
         JobIsTheSessions, TypeOK
    <3>3. promised' = {Content(job.env)} /\ session' = [session EXCEPT !.key = job.env.key]
      BY <3>1 DEF AdoptRotation, Promise
    <3>4. Content(session') = Content(job.env)
      BY <3>2, <3>3 DEF Content, Session
    <3> QED BY <2>0, <3>2, <3>3, <3>4 DEF PromiseIsKept
  <2> QED BY <1>6, <2>1, <2>2, <2>3, <2>4, <2>5, <2>6, <2>7, <2>8, <2>9
          DEF Ends, EndsWrite, EndsChange
<1>7. CASE Restart
  <2>1. session' = None /\ promised' = promised /\ Home' = vault /\ Home = vault
    BY <1>7, QuietIsNobody DEF Restart, Reboot, Startup, NoJob, files, history, Home
  <2> QED BY <2>1 DEF PromiseIsKept
<1>8. CASE Crash
  <2>1. session' = None /\ Home' = vault' /\ vault' \in {vault, Torn}
    BY <1>8 DEF Crash, Reboot, TornByCrash, Startup, NoJob, Home
  <2>2. vault \in {Home, Torn, None} \/ (Writing /\ vault = job.env)
    BY VaultMeanwhile
  <2>3. promised' = IF job.env # None THEN promised \cup {Content(job.env)} ELSE promised
    BY <1>8 DEF Crash, Answer
  <2> QED BY <1>0, <2>1, <2>2, <2>3 DEF PromiseIsKept, Writing
<1> QED BY <1>1, <1>2, <1>3, <1>4, <1>5, <1>6, <1>7, <1>8, RunShape DEF Reboots

LEMMA ProofStep ==
  ASSUME Structure, PromiseIsKept, ProofIsOfTheSession, [Next]_vars
  PROVE  ProofIsOfTheSession'
<1> USE DEF Idle, Unlocked
<1>0. SUFFICES ASSUME pending'["verify"] # None, session' # None,
                      pending'["verify"].gen = generation',
                      pending'["verify"].sid = session'.id
               PROVE  pending'["verify"].env.key = session'.key
  BY DEF ProofIsOfTheSession
<1>1. CASE ProveBegin
  <2>1. pending'["verify"] = Capture(vault) /\ Quiet /\ session # None /\ session' = session
        /\ Readable(vault)
    BY <1>1 DEF ProveBegin, NotStarted, Await, Structure, TypeOK, Operations
  <2>2. Content(vault) = Content(session)
    BY <2>1, QuietIsNobody DEF PromiseIsKept
  <2> QED BY <2>1, <2>2 DEF Capture, Content
<1>2. CASE ~ProveBegin
  <2>1. Carried(pending'["verify"], pending["verify"])
    <3>1. CASE Remains
      BY <1>0, <3>1 DEF Remains, Operations
    <3>2. ASSUME NEW op \in Operations, Begins(op)
          PROVE  pending'["verify"] = pending["verify"]
      BY <1>2, <3>2 DEF Begins, CreateBegin, UnlockBegin, ChangeBegin, AdoptBegin, Await,
         Structure, TypeOK, Operations
    <3>3. ChangeDerive \/ RestoreRead => pending'["verify"] = pending["verify"]
      BY DEF ChangeDerive, RestoreRead, Await, Structure, TypeOK, Operations
    <3>4. pending'["verify"] = pending["verify"] => Carried(pending'["verify"], pending["verify"])
      BY <1>0 DEF Carried
    <3> QED BY <3>1, <3>2, <3>3, <3>4, PendingShape
  <2>2. ~Reboots
    BY <1>0 DEF Reboots, Restart, Crash, Reboot, Operations
  <2>3. /\ pending["verify"] \in Flight /\ generation \in Nat /\ stamp \in Nat
        /\ pending["verify"].gen <= generation
        /\ pending["verify"].sid \in Nat => pending["verify"].sid < stamp
    BY <2>1 DEF Carried, Structure, TypeOK, FlightsArePast, Operations
  <2>4. /\ pending["verify"].gen = generation /\ generation' = generation
        /\ pending["verify"].sid = session'.id
        /\ pending'["verify"].env = pending["verify"].env
    BY <1>0, <2>1, <2>2, <2>3, CountersShape DEF Carried, Forward, Flight
  <2>5. session'.id # stamp
    BY <2>3, <2>4
  <2>6. ~UnlockDone /\ ~Adopts
        /\ ~(CreateDone /\ pending["create"].gen = generation)
        /\ ~(RestoreDone /\ pending["restore"].gen = generation)
    <3>1. UnlockDone => session'.id = stamp
      BY DEF UnlockDone
    <3>2. (CreateDone /\ pending["create"].gen = generation) => session'.id = stamp
      BY DEF CreateDone
    <3>3. (RestoreDone /\ pending["restore"].gen = generation) => session'.id = stamp
      BY DEF RestoreDone
    <3>4. Adopts => generation' = generation + 1
      BY DEF Adopts, ChangeStands, ChangeSweepOwed, ChangeDone, AdoptRotation
    <3> QED BY <2>3, <2>4, <2>5, <3>1, <3>2, <3>3, <3>4
  <2>7. CASE MutateDone
    <3>1. session \in Session /\ session # None /\ session' = [session EXCEPT !.body = job.env.body]
      BY <2>7 DEF MutateDone, Returned, Structure, JobIsTheSessions, TypeOK
    <3>2. session'.id = session.id /\ session'.key = session.key
      BY <3>1 DEF Session
    <3> QED BY <2>1, <2>4, <3>1, <3>2 DEF Carried, ProofIsOfTheSession
  <2>8. CASE session' = session
    BY <1>0, <2>1, <2>4, <2>8 DEF Carried, ProofIsOfTheSession
  <2> QED BY <1>0, <2>6, <2>7, <2>8, SessionShape
<1> QED BY <1>1, <1>2

LEMMA AgreementStep ==
  ASSUME MaxFaults <= 1 \/ MaxPending <= 1
  PROVE  Structure /\ Agreement /\ [Next]_vars => Agreement'
BY StructureStep, AloneStep, UnlockStep, NothingToOpenStep, PromiseStep, ProofStep DEF Agreement

-----------------------------------------------------------------------------
(* The copies beside the vault file.                                       *)
LEMMA WriteCopies ==
  ASSUME Structure, CopiesStand, WriteEnvelope
  PROVE  CopiesStand'
<1> USE EnvelopesAreReadable
    DEF At, Goto, Smooth, Fault, files, Structure, TypeOK, StorageTypeOK, Job, BackupSteps,
        WriteSteps, CopySteps, Writing, CopiesStand, VaultStands, JobShape, Before, Reconcilers
<1>1. CASE CopyBackup \/ CopyBackupFails \/ Publish \/ PublishFails \/ FallBackToCopy
  BY <1>1 DEF CopyBackup, CopyBackupFails, Publish, PublishFails, FallBackToCopy
<1>2. CASE PlaceCopy \/ PlaceCopyFails \/ Verify \/ VerifyFails
  BY <1>2 DEF PlaceCopy, PlaceCopyFails, Verify, VerifyFails
<1>3. CASE Rollback \/ RollbackFails \/ RestoreFromCopy \/ RestoreFromCopyFails
  BY <1>3 DEF Rollback, RollbackFails, RestoreFromCopy, RestoreFromCopyFails
<1> QED BY <1>1, <1>2, <1>3 DEF WriteEnvelope

(* The backup's own steps are taken beside a vault file that parses.       *)
LEMMA BackupsBesideAVault ==
  ASSUME Structure, CopiesStand, job.step \in BackupSteps
  PROVE  Readable(vault) /\ Readable(Home) /\ job.caller \in {"change"} \cup Reconcilers
         /\ (job.caller # "change" => ~Writing)
<1>1. job.caller \in Callers \cup {"none"}
  BY DEF Structure, TypeOK, StorageTypeOK, Job
<1>2. job.caller = "change" \/ (job.caller \in Reconcilers /\ ~Writing)
  BY <1>1, EnvelopesAreReadable
     DEF Callers, Structure, JobShape, BackupSteps, WriteSteps, CopySteps, NoJob, Reconcilers
<1>3. CASE job.caller = "change"
  BY <1>3, EnvelopesAreReadable DEF Structure, JobShape, VaultStands, CopiesStand, After, Writing,
     Home, File
<1>4. CASE job.caller \in Reconcilers /\ ~Writing
  BY <1>4 DEF CopiesStand, Reconcilers, Home, WriteSteps, BackupSteps
<1> QED BY <1>2, <1>3, <1>4

LEMMA BackupCopies ==
  ASSUME Structure, CopiesStand, WriteBackup
  PROVE  CopiesStand'
<1>1. /\ UNCHANGED <<vault, superseded>>
      /\ job'.caller = job.caller /\ job'.env = job.env /\ job'.was = job.was
      /\ job.step \in BackupSteps /\ job'.step \in BackupSteps
  <2> USE DEF At, Goto, Smooth, Fault, files, BackupSteps, Structure, TypeOK, StorageTypeOK, Job
  <2>1. CASE StageBackup \/ StageBackupFails \/ SetBackupAside \/ SetBackupAsideFails
    BY <2>1 DEF StageBackup, StageBackupFails, SetBackupAside, SetBackupAsideFails
  <2>2. CASE SwapBackup \/ SwapBackupFails \/ CheckBackup \/ CheckBackupFails
    BY <2>2 DEF SwapBackup, SwapBackupFails, CheckBackup, CheckBackupFails
  <2>3. CASE RevertBackup \/ RevertBackupFails \/ SweepRescues \/ SweepRescuesFails
    BY <2>3 DEF RevertBackup, RevertBackupFails, SweepRescues, SweepRescuesFails
  <2> QED BY <2>1, <2>2, <2>3 DEF WriteBackup
<1> QED BY <1>1, BackupsBesideAVault DEF CopiesStand, BackupSteps, WriteSteps, Writing

LEMMA HousekeepingCopies ==
  ASSUME Structure, CopiesStand, Housekeeping
  PROVE  CopiesStand'
<1> USE EnvelopesAreReadable
    DEF At, Goto, Smooth, Fault, files, Structure, TypeOK, StorageTypeOK, Job, BackupSteps,
        WriteSteps, CopySteps, ChangeSteps, Writing, CopiesStand, JobShape, Reconcilers
<1>1. CASE UndoVault \/ UndoVaultFails \/ WriteJournal \/ WriteJournalFails
  BY <1>1 DEF UndoVault, UndoVaultFails, WriteJournal, WriteJournalFails, WriteEntry
<1>2. CASE RestoreJournal \/ ClearJournal
  BY <1>2 DEF RestoreJournal, ClearJournal
<1>3. CASE SetAside
  <2>1. job.caller = "restore" /\ job.env \in Envelope
    BY <1>3 DEF SetAside, Callers, NoJob
  <2>2. /\ job'.caller = "restore" /\ job'.step = "publish" /\ job'.rescue = vault
        /\ vault # None => vault \in superseded'
        /\ job'.env = job.env
    BY <1>3, <2>1 DEF SetAside
  <2> QED BY <2>1, <2>2
<1>5. CASE SetAsideFails
  <2>1. job.caller = "restore" /\ job'.caller = "restore" /\ job'.step = "notAside" /\ job'.env # None
    BY <1>5 DEF SetAsideFails, Callers, NoJob
  <2> QED BY <2>1
<1>4. CASE PutBack
  BY <1>4 DEF PutBack
<1> QED BY <1>1, <1>2, <1>3, <1>4, <1>5 DEF Housekeeping

LEMMA CopiesStep ==
  ASSUME Structure, CopiesStand, [Next]_vars
  PROVE  CopiesStand'
<1>1. CASE StorageRuns
  BY <1>1, WriteCopies, BackupCopies, HousekeepingCopies DEF StorageRuns, StorageStep
<1>2. CASE Turns
  <2>1. /\ UNCHANGED files /\ job'.caller = job.caller /\ job'.env = job.env
    BY <1>2, TurnsTheJob DEF SameRun
  <2>2. /\ job'.was = job.was /\ job'.rescue = job.rescue
        /\ \/ job.caller = "change" /\ job'.step \in BackupSteps \cup ChangeSteps
           \/ job'.step \in BackupSteps /\ Readable(vault)
           \/ job'.step = "reconciled"
    <3> USE DEF Goto, Structure, TypeOK, StorageTypeOK, Job, BackupSteps, ChangeSteps
    <3>1. CASE ChangeNotWritten \/ ChangeReseal \/ ChangeUndo \/ ChangeUndone \/ ChangePaid
      BY <3>1 DEF ChangeNotWritten, ChangeReseal, ChangeUndo, ChangeUndone, ChangePaid, Returned
    <3>2. CASE ReconcileSettle
      BY <3>2 DEF ReconcileSettle, Verdict, JournalVerdict, Stale, Paid, Landed, Owed
    <3>3. CASE ReconcileRewrite
      BY <3>3 DEF ReconcileRewrite, Verdict, JournalVerdict, Stale, Paid, Landed, Owed
    <3>4. CASE ReconcilePaid
      BY <3>4, BackupsBesideAVault DEF ReconcilePaid, At
    <3>5. CASE Verdicts /\ job.caller = "restore"
      BY <3>5 DEF Verdicts, ReconcileAnswer, ReconcileUnread, ReconcileDone, ReconcileFails,
         EndReconcile
    <3> QED BY <1>2, <3>1, <3>2, <3>3, <3>4, <3>5 DEF Turns
  <2> QED BY <2>1, <2>2 DEF CopiesStand, BackupSteps, ChangeSteps, WriteSteps, Writing, files,
          Reconcilers
<1>3. ASSUME NEW op \in Operations, Begins(op) PROVE UNCHANGED <<files, job>>
  BY <1>3 DEF Begins, CreateBegin, UnlockBegin, ChangeBegin, AdoptBegin, ProveBegin, storageVars, files
<1>4. CASE Gives \/ UnlockDone \/ Lock \/ ChangeDerive
  <2>1. UNCHANGED <<files, job>>
    BY <1>4 DEF Gives, UnlockRefused, ChangeWrongPassphrase, ChangeRefused, RestoreRefused,
       AdoptRefused, ProveRefused, ProveDone, Give, UnlockDone, Lock, ChangeDerive, storageVars, files
  <2> QED BY <2>1 DEF CopiesStand, Writing, files
<1>5. CASE Starts
  <2> USE EnvelopesAreReadable
      DEF Run, NoJob, CopiesStand, BackupSteps, WriteSteps, Writing, Reconcilers
  <2>1. CASE CreateWrite \/ MutateWrite \/ AdoptWrite
    BY <2>1 DEF CreateWrite, MutateWrite, AdoptWrite, WriteEntry
  <2>2. CASE ChangeRotate
    BY <2>2 DEF ChangeRotate
  <2>3. CASE Poll \/ RestoreBegin \/ RestoreWrite
    BY <2>3 DEF Poll, RestoreBegin, RestoreWrite
  <2> QED BY <1>5, <2>1, <2>2, <2>3 DEF Starts
<1>6. CASE Ends
  BY <1>6, EndsTheJob DEF NoJob, CopiesStand, Reconcilers
<1>7. CASE Reboots
  BY <1>7 DEF Reboots, Restart, Crash, Reboot, Startup, NoJob, CopiesStand, BackupSteps, WriteSteps
<1>8. CASE VaultVanishes
  <2>1. job'.caller = "none"
    BY <1>8, QuietIsNobody DEF VaultVanishes
  <2> QED BY <2>1 DEF CopiesStand, Reconcilers
<1>9. CASE UNCHANGED <<files, job>>
  BY <1>9 DEF CopiesStand, Writing, files
<1>10. UNCHANGED vars => UNCHANGED <<files, job>>
  BY DEF vars, storageVars, files
<1> QED BY <1>1, <1>2, <1>3, <1>4, <1>5, <1>6, <1>7, <1>8, <1>9, <1>10, StepsOfTheService DEF Reboots

(* Only a file put back is no longer set aside.                            *)
LEMMA SetAsideStays ==
  ASSUME Structure, [Next]_vars
  PROVE  superseded \ {Home} \subseteq superseded'
<1>1. CASE StorageRuns
  <2>1. CASE WriteEnvelope
    BY <2>1 DEF WriteEnvelope, CopyBackup, CopyBackupFails, Publish, PublishFails, FallBackToCopy,
       PlaceCopy, PlaceCopyFails, Verify, VerifyFails, Rollback, RollbackFails, RestoreFromCopy,
       RestoreFromCopyFails, files
  <2>2. CASE WriteBackup
    BY <2>2 DEF WriteBackup, StageBackup, StageBackupFails, SetBackupAside, SetBackupAsideFails,
       SwapBackup, SwapBackupFails, CheckBackup, CheckBackupFails, RevertBackup, RevertBackupFails,
       SweepRescues, SweepRescuesFails, files
  <2>3. CASE PutBack
    BY <2>3 DEF PutBack, Home, WriteSteps
  <2>4. CASE Housekeeping /\ ~PutBack
    BY <2>4 DEF Housekeeping, UndoVault, UndoVaultFails, WriteJournal, WriteJournalFails,
       RestoreJournal, ClearJournal, SetAside, SetAsideFails, files
  <2> QED BY <1>1, <2>1, <2>2, <2>3, <2>4 DEF StorageRuns, StorageStep
<1>2. CASE Turns \/ Starts \/ Ends
  BY <1>2, TurnsTheJob, StartsAJob, EndsTheJob DEF files
<1>3. CASE Quiet /\ UNCHANGED job /\ (VaultVanishes \/ UNCHANGED storageVars)
  BY <1>3 DEF VaultVanishes, storageVars
<1>4. CASE Reboots
  BY <1>4 DEF Reboots, Restart, Crash, TornByCrash, files
<1>5. CASE UNCHANGED vars
  BY <1>5 DEF vars, storageVars
<1>6. ASSUME NEW op \in Operations, Begins(op) PROVE UNCHANGED storageVars
  BY <1>6 DEF Begins, CreateBegin, UnlockBegin, ChangeBegin, AdoptBegin, ProveBegin
<1>7. CASE Gives \/ UnlockDone \/ Lock \/ ChangeDerive
  BY <1>7 DEF Gives, UnlockRefused, ChangeWrongPassphrase, ChangeRefused, RestoreRefused,
     AdoptRefused, ProveRefused, ProveDone, Give, UnlockDone, Lock, ChangeDerive, storageVars
<1>8. CASE VaultVanishes
  BY <1>8 DEF VaultVanishes
<1> QED BY <1>1, <1>2, <1>4, <1>5, <1>6, <1>7, <1>8, StepsOfTheService DEF Reboots, storageVars

(* An unlock that could open the vault after a step could before it, or    *)
(* has just read a file that parses.                                       *)
LEMMA OpensStep ==
  ASSUME Structure, [Next]_vars, Opens'
  PROVE  \/ UnlockBegin
         \/ Opens /\ pending'["unlock"].env = pending["unlock"].env /\ UNCHANGED generation
<1> USE DEF Idle, Opens
<1>1. CASE ~UnlockBegin
  <2>1. Carried(pending'["unlock"], pending["unlock"])
    <3>1. CASE Remains
      BY <3>1 DEF Remains, Operations
    <3>2. ASSUME NEW op \in Operations, Begins(op)
          PROVE  pending'["unlock"] = pending["unlock"]
      BY <1>1, <3>2 DEF Begins, CreateBegin, ChangeBegin, AdoptBegin, ProveBegin, Await,
         Structure, TypeOK, Operations
    <3>3. ChangeDerive \/ RestoreRead => pending'["unlock"] = pending["unlock"]
      BY DEF ChangeDerive, RestoreRead, Await, Structure, TypeOK, Operations
    <3>4. pending'["unlock"] = pending["unlock"] => Carried(pending'["unlock"], pending["unlock"])
      BY DEF Carried
    <3> QED BY <3>1, <3>2, <3>3, <3>4, PendingShape
  <2>2. ~Reboots
    BY DEF Reboots, Restart, Crash, Reboot, Operations
  <2>3. pending["unlock"] \in Flight /\ pending["unlock"].gen <= generation /\ generation \in Nat
    BY <2>1 DEF Carried, Structure, TypeOK, FlightsArePast, Operations
  <2> QED BY <2>1, <2>2, <2>3, CountersShape DEF Carried, Forward, Flight
<1> QED BY <1>1

(* How a run ends where the file it found was not to be trusted.           *)
LEMMA EndsShape ==
  ASSUME Structure, UnlockSeesHome, NothingToOpen, Ends
  PROVE  \/ vault = Home /\ UNCHANGED promised /\ UNCHANGED assured /\ UNCHANGED session
         \/ Readable(vault)
         \/ /\ CreateFails \/ AdoptFails
            /\ Home = None /\ session' = None
         \/ MutateUncertain \/ ChangeUncertain
         \/ RestoreFails /\ Home = job.rescue /\ session' = None
<1>1. CASE CreateDone \/ RestoreDone \/ AdoptDone \/ MutateDone
  <2>1. job.env \in Envelope
    BY <1>1, EnvelopesAreReadable DEF CreateDone, RestoreDone, AdoptDone, MutateDone, Returned,
       Structure, JobShape, BackupSteps
  <2>2. vault = job.env
    BY <1>1, <2>1, EnvelopesAreReadable DEF CreateDone, RestoreDone, AdoptDone, MutateDone,
       Returned, Structure, VaultStands, After, Writing
  <2> QED BY <2>1, <2>2, EnvelopesAreReadable DEF File
<1>2. CASE Adopts
  <2>1. job.env \in Envelope /\ job.step \in {"stuck", "sweepOwed", "cleared"}
    BY <1>2 DEF Adopts, ChangeStands, ChangeSweepOwed, ChangeDone, Returned, Structure, JobShape
  <2>2. vault = job.env
    BY <2>1, EnvelopesAreReadable DEF Structure, VaultStands, After, BackupSteps, Writing
  <2> QED BY <2>1, <2>2, EnvelopesAreReadable DEF File
<1>3. CASE CreateFails \/ AdoptFails
  <2>1. Home = None /\ session' = session
    BY <1>3 DEF CreateFails, AdoptFails, Returned, Structure, JobShape, Home
  <2>2. session = None
    BY <1>3 DEF CreateFails, AdoptFails, Returned, Structure, OneAtATime, NothingToOpen, Idle, Unlocked
  <2> QED BY <1>3, <2>1, <2>2
<1>4. CASE MutateFails \/ ChangeNoJournal \/ ChangeFails
  <2>1. vault = Home
    BY <1>4, EnvelopesAreReadable DEF MutateFails, ChangeNoJournal, ChangeFails, Returned, Structure,
       JobShape, VaultStands, Before, Writing, Home
  <2> QED BY <1>4, <2>1 DEF MutateFails, ChangeNoJournal, ChangeFails, serviceVars, history
<1>5. CASE RestoreRead \/ RestoreNotAside
  BY <1>5 DEF RestoreRead, RestoreNotAside, Returned, Home, WriteSteps, history
<1>6. CASE RestoreFails
  BY <1>6, EnvelopesAreReadable DEF RestoreFails, Returned, Structure, JobShape, JobIsTheSessions,
     BackupSteps, Writing, Unlocked, Home
<1>7. CASE Verdicts
  BY <1>7, VerdictsHome DEF Verdicts, ReconcileAnswer, ReconcileUnread, ReconcileDone,
     ReconcileFails, history
<1> QED BY <1>1, <1>2, <1>3, <1>4, <1>5, <1>6, <1>7 DEF Ends, EndsWrite, EndsChange

LEMMA SpentStays ==
  ASSUME Structure, Spent, [Next]_vars
  PROVE  Spent'
<1>1. faults \in 0..MaxFaults /\ faults' \in 0..MaxFaults
  BY TypeStep DEF Structure, TypeOK, StorageTypeOK
<1>2. faults' >= faults
  <2>1. CASE StorageRuns
    <3>1. CASE WriteEnvelope
      BY <1>1, <3>1 DEF WriteEnvelope, CopyBackup, CopyBackupFails, Publish, PublishFails,
         FallBackToCopy, PlaceCopy, PlaceCopyFails, Verify, VerifyFails, Rollback, RollbackFails,
         RestoreFromCopy, RestoreFromCopyFails, Smooth, Fault
    <3>2. CASE WriteBackup
      BY <1>1, <3>2 DEF WriteBackup, StageBackup, StageBackupFails, SetBackupAside,
         SetBackupAsideFails, SwapBackup, SwapBackupFails, CheckBackup, CheckBackupFails,
         RevertBackup, RevertBackupFails, SweepRescues, SweepRescuesFails, Smooth, Fault
    <3>3. CASE Housekeeping
      BY <1>1, <3>3 DEF Housekeeping, UndoVault, UndoVaultFails, WriteJournal, WriteJournalFails,
         RestoreJournal, ClearJournal, SetAside, SetAsideFails, PutBack, Smooth, Fault
    <3> QED BY <2>1, <3>1, <3>2, <3>3 DEF StorageRuns, StorageStep
  <2>2. CASE Turns \/ Ends
    <3>1. \/ UNCHANGED faults \/ Fault \/ Smooth
      BY <2>2 DEF Turns, Ends, EndsWrite, EndsChange, Adopts, CreateDone, CreateFails, MutateDone,
         MutateFails, MutateUncertain, RestoreRead, RestoreNotAside, RestoreFails, RestoreDone,
         AdoptDone, AdoptFails, ChangeNoJournal, ChangeUncertain, ChangeFails, ChangeStands,
         ChangeSweepOwed, ChangeDone, ChangeNotWritten, ChangeReseal, ChangeUndo, ChangeUndone,
         ChangePaid, ReconcileSettle, ReconcileRewrite, ReconcilePaid, Verdicts, ReconcileAnswer,
         ReconcileUnread, ReconcileDone, ReconcileFails, Inspect
    <3> QED BY <1>1, <3>1 DEF Smooth, Fault
  <2>3. CASE Starts
    BY <1>1, <2>3, StartsAJob
  <2>4. CASE Reboots \/ VaultVanishes
    BY <1>1, <2>4 DEF Reboots, Restart, Crash, VaultVanishes, Fault
  <2>5. CASE UNCHANGED storageVars
    BY <1>1, <2>5 DEF storageVars
  <2>6. ASSUME NEW op \in Operations, Begins(op) PROVE UNCHANGED storageVars
    BY <2>6 DEF Begins, CreateBegin, UnlockBegin, ChangeBegin, AdoptBegin, ProveBegin
  <2>7. Gives \/ UnlockDone \/ Lock \/ ChangeDerive => UNCHANGED storageVars
    BY DEF Gives, UnlockRefused, ChangeWrongPassphrase, ChangeRefused, RestoreRefused,
       AdoptRefused, ProveRefused, ProveDone, Give, UnlockDone, Lock, ChangeDerive, storageVars
  <2>8. UNCHANGED vars => UNCHANGED storageVars
    BY DEF vars
  <2> QED BY <2>1, <2>2, <2>3, <2>4, <2>5, <2>6, <2>7, <2>8, StepsOfTheService DEF Reboots
<1> QED BY <1>1, <1>2, FaultsAssumption DEF Spent

(* No call on the files fails any more under a save over a damaged file.   *)
LEMMA TornSaveGoesOn ==
  ASSUME Structure, TornIsTheEnd, StorageStep, TornSave
  PROVE  TornSave' /\ job'.step \in {"copy", "publish", "verify", "written"}
<1>1. Spent /\ ~Fault /\ job.caller = "mutate" /\ job.was = Torn /\ Torn # None
  BY EnvelopesAreReadable DEF TornIsTheEnd, TornSave, Home, Structure, JobIsTheSessions, Spent,
     Fault, TypeOK, StorageTypeOK
<1>2. CopyBackup \/ Publish \/ Verify
  <2>1. job.step \in {"copy", "publish", "verify", "written"}
    BY DEF TornIsTheEnd
  <2>2. WriteEnvelope => CopyBackup \/ Publish \/ Verify
    BY <1>1, <2>1 DEF WriteEnvelope, CopyBackup, CopyBackupFails, Publish, PublishFails,
       FallBackToCopy, PlaceCopy, PlaceCopyFails, Verify, VerifyFails, Rollback, RollbackFails,
       RestoreFromCopy, RestoreFromCopyFails, At
  <2>3. ~WriteBackup
    BY <2>1 DEF WriteBackup, StageBackup, StageBackupFails, SetBackupAside, SetBackupAsideFails,
       SwapBackup, SwapBackupFails, CheckBackup, CheckBackupFails, RevertBackup, RevertBackupFails,
       SweepRescues, SweepRescuesFails, At
  <2>4. ~Housekeeping
    BY <1>1, <2>1 DEF Housekeeping, UndoVault, UndoVaultFails, WriteJournal, WriteJournalFails,
       RestoreJournal, ClearJournal, SetAside, SetAsideFails, PutBack, At
  <2> QED BY <2>2, <2>3, <2>4 DEF StorageStep
<1> QED BY <1>1, <1>2 DEF CopyBackup, Publish, Verify, Goto, TornSave, Structure, TypeOK,
        StorageTypeOK, Job

LEMMA TornSaveStep ==
  ASSUME Structure, TornIsTheEnd, [Next]_vars, TornSave'
  PROVE  job'.step \in {"copy", "publish", "verify", "written"}
         /\ (TornSave \/ (MutateWrite /\ Home = Torn))
<1>0. job'.caller = "mutate" /\ job'.was = Torn
  BY DEF TornSave
<1>1. CASE StorageRuns
  <2>1. job.caller = "mutate" /\ Home' = Home
    BY <1>0, <1>1, StorageFrame DEF StorageRuns, SameRun, Structure, TypeOK
  <2>2. TornSave
    BY <1>0, <2>1 DEF TornSave, Home
  <2> QED BY <1>1, <2>2, TornSaveGoesOn DEF StorageRuns
<1>2. CASE Turns
  <2>1. job'.caller = job.caller
    BY <1>2, TurnsTheJob DEF SameRun
  <2>2. job.caller # "mutate"
    <3>1. Verdicts => job.caller \in Reconcilers
      BY VerdictsHome
    <3>2. ReconcileSettle \/ ReconcileRewrite => job.step = "reconcile"
      BY DEF ReconcileSettle, ReconcileRewrite, At
    <3> QED BY <1>2, <3>1, <3>2 DEF Turns, ChangeNotWritten, ChangeReseal, ChangeUndo, ChangeUndone,
            ChangePaid, ReconcilePaid, Returned, Reconcilers, Structure, JobShape, WriteSteps, CopySteps
  <2> QED BY <1>0, <2>1, <2>2
<1>3. CASE Starts
  <2>1. MutateWrite
    BY <1>0, <1>3 DEF Starts, CreateWrite, ChangeRotate, Poll, RestoreBegin, RestoreWrite, AdoptWrite,
       Run, NoJob
  <2>2. vault = Torn /\ job'.step = WriteEntry(vault) /\ Home = vault
    BY <1>0, <2>1, QuietIsNobody DEF MutateWrite, Run, NoJob
  <2> QED BY <2>1, <2>2, EnvelopesAreReadable DEF WriteEntry
<1>4. ~Ends
  BY <1>0, EndsTheJob DEF NoJob
<1>5. ~Reboots
  BY <1>0 DEF Reboots, Restart, Crash, Reboot, Startup, NoJob
<1>6. CASE UNCHANGED job
  BY <1>6 DEF TornSave, TornIsTheEnd
<1>7. ASSUME NEW op \in Operations, Begins(op) PROVE UNCHANGED storageVars
  BY <1>7 DEF Begins, CreateBegin, UnlockBegin, ChangeBegin, AdoptBegin, ProveBegin
<1>8. Gives \/ UnlockDone \/ Lock \/ ChangeDerive => UNCHANGED storageVars
  BY DEF Gives, UnlockRefused, ChangeWrongPassphrase, ChangeRefused, RestoreRefused,
     AdoptRefused, ProveRefused, ProveDone, Give, UnlockDone, Lock, ChangeDerive, storageVars
<1>9. VaultVanishes \/ UNCHANGED vars => UNCHANGED job
  BY DEF VaultVanishes, vars, storageVars
<1> QED BY <1>1, <1>2, <1>3, <1>4, <1>5, <1>6, <1>7, <1>8, <1>9, StepsOfTheService
        DEF Reboots, storageVars

(* The file comes to be damaged before an open session, or an unlock still *)
(* to be answered, only where a restore could not put it back.             *)
LEMMA TornStep ==
  ASSUME Structure, Structure', Alone, UnlockSeesHome, NothingToOpen, CopiesStand, TornIsTheEnd,
         [Next]_vars, MaxFaults <= 1 \/ MaxPending <= 1
  PROVE  TornIsTheEnd'
<1>0. ~Readable(None) /\ ~Readable(Torn) /\ None # Torn /\ Torn \notin Envelope
  BY EnvelopesAreReadable DEF Readable
<1>1. ASSUME Home = Torn, Unlocked \/ Opens PROVE Spent'
  BY <1>1, SpentStays DEF TornIsTheEnd
<1>2. Opens => pending["unlock"] \in Flight /\ pending["unlock"].env \in Envelope
  BY DEF Opens, Structure, TypeOK, FlightsArePast, Operations, Idle
<1>3. ASSUME Opens, Home = Torn PROVE pending["unlock"].env \in superseded'
  <2>1. pending["unlock"].env \in superseded /\ pending["unlock"].env # Home
    BY <1>0, <1>2, <1>3 DEF TornIsTheEnd
  <2> QED BY <2>1, SetAsideStays
<1>4. ASSUME Home' = Torn
      PROVE  /\ Unlocked' \/ Opens' => Spent'
             /\ Opens' => pending'["unlock"].env \in superseded'
  <2> USE <1>4
  <2>1. ~UnlockBegin
    BY <1>0, QuietIsNobody DEF UnlockBegin, NotStarted, storageVars, Home
  <2>2. Opens' => Opens /\ pending'["unlock"].env = pending["unlock"].env /\ UNCHANGED generation
    BY <2>1, OpensStep
  <2>3. CASE Home = Torn /\ (Unlocked' => Unlocked \/ Opens)
    BY <1>1, <1>3, <2>2, <2>3
  <2>4. CASE Continues \/ Starts \/ UNCHANGED vars
    <3>1. Home' = Home /\ session' = session
      BY <2>4, StartsAJob DEF Continues, SameRun, vars, storageVars, serviceVars, Home, Starts,
         CreateWrite, MutateWrite, ChangeRotate, Poll, RestoreBegin, RestoreWrite, AdoptWrite
    <3> QED BY <2>3, <3>1 DEF Unlocked
  <2>5. CASE Quiet /\ UNCHANGED storageVars
    <3>1. Home' = Home
      BY <2>5 DEF storageVars, Home
    <3>2. session' \in {session, None} \/ UnlockDone
      <4>1. ~MutateDone /\ ~Adopts /\ ~CreateDone /\ ~RestoreDone
        BY <2>5 DEF Quiet, MutateDone, Adopts, ChangeStands, ChangeSweepOwed, ChangeDone, CreateDone,
           RestoreDone, Returned
      <4> QED BY <4>1, SessionShape
    <3>3. UnlockDone => Opens
      BY DEF UnlockDone, Opens
    <3> QED BY <2>3, <3>1, <3>2, <3>3 DEF Unlocked
  <2>6. CASE VaultVanishes
    BY <1>0, <2>6, QuietIsNobody DEF VaultVanishes, Home
  <2>7. CASE Ends
    <3>1. Home' = vault
      BY <2>7, EndsTheJob
    <3>2. CASE vault = Home /\ UNCHANGED session
      BY <2>3, <3>1, <3>2 DEF Unlocked
    <3>3. CASE Home = None /\ session' = None
      <4>1. ~Opens
        BY <1>0, <1>2, <3>3, EnvelopesAreReadable DEF UnlockSeesHome, Opens
      <4> QED BY <2>2, <3>3, <4>1 DEF Unlocked
    <3>4. CASE MutateUncertain \/ ChangeUncertain
      <4>1. session' = None /\ generation' = generation + 1 /\ generation \in Nat
        BY <3>4 DEF MutateUncertain, ChangeUncertain, Structure, TypeOK
      <4> QED BY <2>2, <4>1 DEF Unlocked
    <3>5. CASE RestoreFails /\ Home = job.rescue /\ session' = None
      <4>1. SUFFICES ASSUME Opens' PROVE Spent' /\ pending'["unlock"].env \in superseded'
        BY <3>5 DEF Unlocked
      <4>2. Opens /\ pending'["unlock"].env = pending["unlock"].env
        BY <2>2, <4>1
      <4>3. job.caller = "restore" /\ job.step = "putBack" /\ UNCHANGED <<files, faults>>
        BY <3>5 DEF RestoreFails, Returned
      <4>4. MaxFaults <= 1
        BY <4>2, <4>3 DEF Alone, Opens
      <4>5. Spent'
        BY <4>3, <4>4, FaultsAssumption DEF Structure, RestoreFaults, TypeOK, StorageTypeOK, Spent
      <4>6. CASE Home = Torn
        BY <1>3, <4>2, <4>5, <4>6
      <4>7. CASE Home # Torn
        <5>1. job.rescue = pending["unlock"].env
          BY <3>5, <4>2, <4>7 DEF UnlockSeesHome, Opens
        <5>2. job.rescue \in superseded
          BY <1>0, <1>2, <3>1, <4>2, <4>3, <5>1, EnvelopesAreReadable DEF CopiesStand
        <5> QED BY <4>2, <4>3, <4>5, <5>1, <5>2 DEF files
      <4> QED BY <4>6, <4>7
    <3> QED BY <1>0, <2>7, <3>1, <3>2, <3>3, <3>4, <3>5, EndsShape
  <2>8. CASE Reboots
    BY <2>8 DEF Reboots, Restart, Crash, Reboot, Opens, Unlocked, Idle, Operations
  <2> QED BY <2>4, <2>5, <2>6, <2>7, <2>8, RunShape
<1>5. TornSave' => job'.step \in {"copy", "publish", "verify", "written"}
  BY TornSaveStep
<1> QED BY <1>4, <1>5 DEF TornIsTheEnd

(* A copy that parses is removed or overwritten only beside a vault file   *)
(* that does, or by a save over a damaged one.                             *)
LEMMA CopiesRemain ==
  ASSUME Structure, CopiesStand, TornIsTheEnd, [Next]_vars, ~Readable(Home'), ~TornSave',
         NEW copy \in Copies, Readable(copy)
  PROVE  copy \in Copies'
<1> USE DEF Copies
<1>0. None # Torn /\ ~Readable(None) /\ ~Readable(Torn) /\ None \notin Envelope
      /\ \A f \in File : Readable(f) <=> f \in Envelope
  BY EnvelopesAreReadable DEF Readable
<1>1. CASE StorageRuns
  <2>1. Home' = Home /\ job'.caller = job.caller
    BY <1>1, StorageFrame DEF StorageRuns, SameRun, Structure, TypeOK
  <2>2. job.step \notin BackupSteps
    BY <2>1, BackupsBesideAVault
  <2>3. job.step # "copy"
    <3>1. ASSUME job.step = "copy" PROVE FALSE
      <4>1. job.caller \in {"mutate", "change"} /\ job.was # None /\ job.was \in File
        BY <3>1, <1>0 DEF Structure, JobShape, VaultStands, TypeOK, StorageTypeOK, Job, Callers,
           NoJob, CopySteps, BackupSteps, WriteSteps, Writing
      <4>2. job.was = Torn /\ job.caller = "mutate"
        BY <2>1, <4>1, <1>0 DEF Home, CopiesStand, File
      <4>3. TornSave /\ StorageStep
        BY <1>1, <4>2 DEF TornSave, StorageRuns
      <4> QED BY <4>3, TornSaveGoesOn
    <3> QED BY <3>1
  <2>4. CASE WriteEnvelope
    BY <2>3, <2>4 DEF WriteEnvelope, CopyBackup, CopyBackupFails, Publish, PublishFails,
       FallBackToCopy, PlaceCopy, PlaceCopyFails, Verify, VerifyFails, Rollback, RollbackFails,
       RestoreFromCopy, RestoreFromCopyFails, files, At
  <2>5. ~WriteBackup
    BY <2>2 DEF WriteBackup, StageBackup, StageBackupFails, SetBackupAside, SetBackupAsideFails,
       SwapBackup, SwapBackupFails, CheckBackup, CheckBackupFails, RevertBackup, RevertBackupFails,
       SweepRescues, SweepRescuesFails, At, BackupSteps
  <2>6. CASE Housekeeping
    <3>1. UNCHANGED <<backup, rescues>>
      BY <2>6 DEF Housekeeping, UndoVault, UndoVaultFails, WriteJournal, WriteJournalFails,
         RestoreJournal, ClearJournal, SetAside, SetAsideFails, PutBack, files
    <3>2. copy # Home
      BY <2>1
    <3> QED BY <3>1, <3>2, SetAsideStays
  <2> QED BY <1>1, <2>4, <2>5, <2>6 DEF StorageRuns, StorageStep
<1>2. CASE Turns \/ Starts \/ Ends \/ Restart
  BY <1>2, TurnsTheJob, StartsAJob, EndsTheJob DEF Restart, files
<1>3. CASE Crash
  <2>1. Home' = vault' /\ Fault
    BY <1>3 DEF Crash, Reboot, Startup, NoJob, Home
  <2>2. job.step \notin BackupSteps
    <3>1. job.step \in BackupSteps => vault' = vault
      BY <1>3 DEF Crash, TornByCrash, BackupSteps
    <3> QED BY <2>1, <3>1, BackupsBesideAVault
  <2>3. job.step # "copy"
    <3>1. ASSUME job.step = "copy" PROVE FALSE
      <4>1. job.caller \in {"mutate", "change"} /\ job.was # None /\ job.was \in File
            /\ vault = job.was
        BY <3>1, <1>0 DEF Structure, JobShape, VaultStands, TypeOK, StorageTypeOK, Job, Callers,
           NoJob, CopySteps, BackupSteps, WriteSteps, Writing, Before
      <4>2. vault' = vault
        BY <1>3, <3>1 DEF Crash, TornByCrash
      <4>3. job.was = Torn /\ job.caller = "mutate" /\ Home = Torn
        BY <2>1, <4>1, <4>2, <1>0 DEF Home, CopiesStand, File
      <4>4. Unlocked
        BY <4>3 DEF Structure, JobIsTheSessions
      <4>5. Spent
        BY <4>3, <4>4 DEF TornIsTheEnd
      <4> QED BY <2>1, <4>5, FaultsAssumption DEF Spent, Fault
    <3> QED BY <3>1
  <2>4. backup' = backup /\ rescues \subseteq rescues' /\ superseded \subseteq superseded'
    BY <1>3, <2>2, <2>3 DEF Crash, TornByCrash, BackupSteps
  <2> QED BY <2>4
<1>4. CASE VaultVanishes
  BY <1>4 DEF VaultVanishes
<1>5. CASE UNCHANGED storageVars
  BY <1>5 DEF storageVars
<1>6. ASSUME NEW op \in Operations, Begins(op) PROVE UNCHANGED storageVars
  BY <1>6 DEF Begins, CreateBegin, UnlockBegin, ChangeBegin, AdoptBegin, ProveBegin
<1>7. Gives \/ UnlockDone \/ Lock \/ ChangeDerive \/ UNCHANGED vars => UNCHANGED storageVars
  BY DEF Gives, UnlockRefused, ChangeWrongPassphrase, ChangeRefused, RestoreRefused,
     AdoptRefused, ProveRefused, ProveDone, Give, UnlockDone, Lock, ChangeDerive, vars
<1> QED BY <1>1, <1>2, <1>3, <1>4, <1>5, <1>6, <1>7, StepsOfTheService

(* A stop in the middle of a run leaves a copy of the file it found.       *)
LEMMA CrashLeavesACopy ==
  ASSUME Structure, CopiesStand, Crash, Readable(Home), ~Readable(vault')
  PROVE  Home \in Copies'
<1>0. None # Torn /\ ~Readable(None) /\ ~Readable(Torn) /\ None \notin Envelope
      /\ \A f \in File : Readable(f) <=> f \in Envelope
  BY EnvelopesAreReadable DEF Readable
<1>1. /\ superseded \subseteq superseded'
      /\ job.step \notin {"copy", "revert"} => backup' = backup
      /\ job.step \notin {"place", "restore"} => vault' = vault
  BY DEF Crash, TornByCrash
<1>2. job.caller \in Callers /\ job.was \in File
  BY DEF Structure, JobShape, TypeOK, StorageTypeOK, Job, Crash, Quiet, NoJob
<1>3. CASE job.caller \in {"boot", "poll"}
  BY <1>1, <1>3 DEF Structure, JobShape, BackupSteps, Home
<1>4. CASE job.caller \in {"create", "adopt"}
  BY <1>0, <1>4 DEF Structure, JobShape, Home
<1>5. CASE job.caller = "restore"
  <2>1. CASE job.step \in WriteSteps \cup {"putBack"}
    <3>1. Home = job.rescue /\ job.rescue # None
      BY <1>0, <1>5, <2>1 DEF Home
    <3>2. ~(job.step = "putBack" /\ vault = job.rescue)
      BY <1>1, <3>1
    <3>3. job.rescue \in superseded
      BY <1>5, <2>1, <3>1, <3>2 DEF CopiesStand
    <3> QED BY <1>1, <3>1, <3>3 DEF Copies
  <2>2. CASE job.step \notin WriteSteps \cup {"putBack"}
    <3>1. Home = vault /\ job.step \notin {"place", "restore"}
      BY <1>5, <2>2 DEF Home, Structure, JobShape, WriteSteps, BackupSteps
    <3> QED BY <1>1, <3>1
  <2> QED BY <2>1, <2>2
<1>6. CASE job.caller \in {"mutate", "change"}
  <2>1. Home = job.was /\ job.env \in Envelope /\ job.was # None
    BY <1>0, <1>6 DEF Home, Structure, JobShape
  <2>2. job.step \in Before \cup After \cup Between
    BY <1>6 DEF Structure, JobShape, WriteSteps, CopySteps, ChangeSteps, BackupSteps, Before, After,
       Between
  <2>3. job.step \notin {"place"} \cup (Before \ {"place"})
    BY <1>1, <2>1, <1>0 DEF Structure, VaultStands, Writing, Before
  <2>4. job.step \notin After
    <3>1. job.step \in After => vault' = vault /\ vault = job.env
      BY <1>0, <1>1, <2>1 DEF Structure, VaultStands, Writing, After, BackupSteps
    <3>2. Readable(job.env)
      BY <1>0, <2>1 DEF File
    <3> QED BY <3>1, <3>2
  <2>5. job.step \in Between
    BY <2>2, <2>3, <2>4
  <2>6. backup = job.was /\ backup' = backup
    BY <1>0, <1>1, <1>6, <2>1, <2>5 DEF Structure, VaultStands, CopiesStand, Between, Writing
  <2> QED BY <2>1, <2>6 DEF Copies
<1> QED BY <1>2, <1>3, <1>4, <1>5, <1>6 DEF Callers

LEMMA ContinuesAssured ==
  ASSUME Structure, Continues \/ Starts, [Next]_vars
  PROVE  UNCHANGED <<promised, assured>>
<1>1. StorageRuns => UNCHANGED <<promised, assured>>
  BY DEF StorageRuns, history
<1>2. Turns => UNCHANGED <<promised, assured>>
  BY TurnsTheJob DEF history
<1>3. Starts => UNCHANGED <<promised, assured>>
  BY DEF Starts, CreateWrite, MutateWrite, ChangeRotate, Poll, RestoreBegin, RestoreWrite,
     AdoptWrite, history
<1>4. CASE Quiet
  BY <1>3, <1>4 DEF Continues, SameRun, Quiet
<1>5. CASE ~Quiet
  <2>1. ~\E op \in Operations : Begins(op)
    BY <1>5 DEF Begins, CreateBegin, UnlockBegin, ChangeBegin, AdoptBegin, ProveBegin, NotStarted,
       ReplacementFree
  <2>2. ~Gives /\ ~UnlockDone /\ ~Lock /\ ~ChangeDerive /\ ~Restart /\ ~VaultVanishes
    BY <1>5 DEF Gives, UnlockRefused, ChangeWrongPassphrase, ChangeRefused, RestoreRefused,
       AdoptRefused, ProveRefused, ProveDone, Give, UnlockDone, Lock, ChangeDerive, Restart,
       VaultVanishes
  <2>3. Continues => ~Ends
    BY EndsTheJob DEF Continues, SameRun, NoJob
  <2>4. Continues /\ Crash => UNCHANGED <<promised, assured>>
    BY DEF Crash, Answer, Continues
  <2>5. UNCHANGED vars => UNCHANGED <<promised, assured>>
    BY DEF vars, history
  <2> QED BY <1>1, <1>2, <1>3, <2>1, <2>2, <2>3, <2>4, <2>5, StepsOfTheService
<1> QED BY <1>4, <1>5

(* Whatever the step, what was last promised is still beside the file.     *)
LEMMA KeptStep ==
  ASSUME Structure, UnlockSeesHome, NothingToOpen, PromiseIsKept, Safekeeping, [Next]_vars
  PROVE  CopyIsKept'
<1> USE DEF Safekeeping
<1>0. None # Torn /\ ~Readable(None) /\ ~Readable(Torn) /\ None \notin Envelope
      /\ \A f \in File : Readable(f) <=> f \in Envelope
  BY EnvelopesAreReadable DEF Readable
<1>1. SUFFICES ASSUME assured' # None, ~Readable(Home'), ~TornSave' PROVE GoodCopy'
  BY DEF CopyIsKept
<1>2. \A copy \in Copies : Readable(copy) => copy \in Copies'
  BY <1>1, CopiesRemain
<1>3. ASSUME NEW copy \in Copies, Readable(copy), Content(copy) \in promised'
      PROVE  GoodCopy'
  <2>1. copy \in Copies'
    BY <1>2, <1>3
  <2> QED BY <1>3, <2>1 DEF GoodCopy
<1>4. ASSUME assured # None, ~Readable(Home), ~TornSave, promised \subseteq promised'
      PROVE  GoodCopy'
  <2>1. PICK copy \in Copies : Readable(copy) /\ Content(copy) \in promised
    BY <1>4 DEF CopyIsKept, GoodCopy
  <2> QED BY <1>3, <1>4, <2>1
<1>5. CASE Continues \/ Starts
  <2>1. UNCHANGED <<promised, assured>> /\ Home' = Home
    BY <1>5, ContinuesAssured, StartsAJob DEF Continues, SameRun
  <2>2. ~TornSave
    <3>1. ASSUME TornSave PROVE FALSE
      <4>1. ~Starts /\ job.caller = "mutate" /\ job.was = Torn
        BY <3>1, StartsAJob, QuietIsNobody DEF TornSave
      <4>2. job'.caller = "mutate" /\ job'.was = job.was
        BY <1>5, <4>1 DEF Continues, SameRun, Home
      <4> QED BY <1>1, <4>1, <4>2 DEF TornSave
    <3> QED BY <3>1
  <2> QED BY <1>1, <1>4, <2>1, <2>2
<1>6. CASE UnlockDone
  <2>1. Home = vault /\ Home' = vault /\ Opens
    BY <1>6, QuietIsNobody DEF UnlockDone, storageVars, Home, Opens
  <2>2. pending["unlock"].env \in Envelope /\ Home \in {pending["unlock"].env, Torn}
    BY <2>1 DEF Opens, Structure, FlightsArePast, Operations, UnlockSeesHome
  <2>3. Readable(pending["unlock"].env)
    BY <1>0, <2>2 DEF File
  <2>4. Home = Torn
    BY <1>1, <2>1, <2>2, <2>3
  <2>5. pending["unlock"].env \in superseded
    BY <2>1, <2>4 DEF TornIsTheEnd
  <2>6. Content(pending["unlock"].env) \in promised'
    BY <1>6 DEF UnlockDone, Promise
  <2> QED BY <1>3, <2>3, <2>5, <2>6 DEF Copies
<1>7. CASE Quiet /\ UNCHANGED storageVars /\ ~UnlockDone /\ ~Ends /\ ~Crash
  <2>1. Home' = Home /\ ~TornSave
    BY <1>7, QuietIsNobody DEF storageVars, Home, TornSave
  <2>2. ~Turns /\ ~StorageRuns
    <3>1. ~StorageRuns
      BY <1>7, StorageFrame DEF StorageRuns, SameRun, Quiet, Structure, TypeOK
    <3> QED BY <1>7, <3>1, TurnsTheJob DEF storageVars, Quiet, SameRun
  <2>3. UNCHANGED <<promised, assured>>
    <3>1. ASSUME NEW op \in Operations, Begins(op) PROVE UNCHANGED <<promised, assured>>
      BY <3>1 DEF Begins, CreateBegin, UnlockBegin, ChangeBegin, AdoptBegin, ProveBegin, history
    <3>2. CASE Gives \/ Lock \/ ChangeDerive \/ Restart \/ UNCHANGED vars
      BY <3>2 DEF Gives, UnlockRefused, ChangeWrongPassphrase, ChangeRefused, RestoreRefused,
         AdoptRefused, ProveRefused, ProveDone, Give, Lock, ChangeDerive, Restart, vars, history
    <3>3. Starts => UNCHANGED <<promised, assured>>
      BY ContinuesAssured
    <3>4. ~VaultVanishes
      BY <1>7 DEF VaultVanishes, storageVars
    <3> QED BY <1>7, <2>2, <3>1, <3>2, <3>3, <3>4, StepsOfTheService
  <2> QED BY <1>1, <1>4, <2>1, <2>3
<1>8. CASE VaultVanishes
  BY <1>1, <1>8 DEF VaultVanishes
<1>9. CASE Ends
  <2>1. Home' = vault /\ ~Readable(vault)
    BY <1>1, <1>9, EndsTheJob
  <2>2. ~TornSave
    <3>1. ASSUME TornSave PROVE FALSE
      <4>1. job.caller = "mutate" /\ job.step \in {"copy", "publish", "verify", "written"}
        BY <3>1 DEF TornSave, TornIsTheEnd
      <4>2. ~Verdicts
        BY <4>1, VerdictsHome DEF Reconcilers
      <4>3. MutateDone
        BY <1>9, <4>1, <4>2
           DEF Ends, EndsWrite, EndsChange, Adopts, CreateDone, CreateFails, MutateFails,
               MutateUncertain, RestoreRead, RestoreNotAside, RestoreFails, RestoreDone, AdoptDone,
               AdoptFails, ChangeNoJournal, ChangeUncertain, ChangeFails, ChangeStands,
               ChangeSweepOwed, ChangeDone, Returned
      <4>4. job.env \in Envelope /\ vault = job.env
        BY <1>0, <4>1, <4>3 DEF MutateDone, Returned, Structure, JobShape, VaultStands, After, Writing
      <4> QED BY <1>0, <2>1, <4>4 DEF File
    <3> QED BY <3>1
  <2>3. CASE vault = Home /\ UNCHANGED promised /\ UNCHANGED assured /\ UNCHANGED session
    BY <1>1, <1>4, <2>1, <2>2, <2>3
  <2>4. CASE (CreateFails \/ AdoptFails) /\ Home = None
    <3>1. assured' = assured /\ promised \subseteq promised'
      BY <2>4 DEF CreateFails, AdoptFails, Answer
    <3> QED BY <1>0, <1>1, <1>4, <2>2, <2>4, <3>1
  <2>5. CASE MutateUncertain \/ ChangeUncertain
    <3>1. /\ assured' = assured /\ promised \subseteq promised'
          /\ job.caller \in {"mutate", "change"} /\ job.step = "uncertain" /\ Home = job.was
      BY <2>5 DEF MutateUncertain, ChangeUncertain, Answer, Returned, Home
    <3>2. CASE Readable(Home)
      <4>1. backup = Home
        BY <1>0, <3>1, <3>2 DEF CopiesStand
      <4>2. Content(Home) \in promised'
        BY <3>1, <3>2 DEF PromiseIsKept
      <4>3. backup \in Copies
        BY DEF Copies
      <4> QED BY <1>3, <3>2, <4>1, <4>2, <4>3
    <3> QED BY <1>1, <1>4, <2>2, <3>1, <3>2
  <2>6. CASE RestoreFails /\ Home = job.rescue
    <3>1. /\ assured' = assured /\ promised \subseteq promised'
          /\ job.caller = "restore" /\ job.step = "putBack"
      BY <2>6 DEF RestoreFails, Answer, Returned
    <3>2. CASE Readable(Home)
      <4>1. Home \in superseded
        BY <1>0, <2>1, <2>6, <3>1, <3>2 DEF CopiesStand
      <4>2. Content(Home) \in promised'
        BY <3>1, <3>2 DEF PromiseIsKept
      <4>3. Home \in Copies
        BY <4>1 DEF Copies
      <4> QED BY <1>3, <3>2, <4>2, <4>3
    <3> QED BY <1>1, <1>4, <2>2, <3>1, <3>2
  <2> QED BY <1>9, <2>1, <2>3, <2>4, <2>5, <2>6, EndsShape
<1>10. CASE Restart
  <2>1. Home' = Home /\ ~TornSave
    BY <1>10, QuietIsNobody DEF Restart, Reboot, Startup, NoJob, files, Home, TornSave
  <2>2. UNCHANGED <<promised, assured>>
    BY <1>10 DEF Restart, history
  <2> QED BY <1>1, <1>4, <2>1, <2>2
<1>11. CASE Crash
  <2>1. Home' = vault' /\ assured' = assured /\ promised \subseteq promised' /\ Fault
    BY <1>11 DEF Crash, Reboot, Startup, NoJob, Home, Answer
  <2>2. ~TornSave
    <3>1. TornSave => Spent
      BY DEF TornIsTheEnd, TornSave, Home, Structure, JobIsTheSessions
    <3> QED BY <2>1, <3>1, FaultsAssumption DEF Spent, Fault
  <2>3. CASE Readable(Home)
    <3>1. Home \in Copies'
      BY <1>1, <1>11, <2>1, <2>3, CrashLeavesACopy
    <3>2. Content(Home) \in promised'
      BY <2>1, <2>3 DEF PromiseIsKept
    <3> QED BY <2>3, <3>1, <3>2 DEF GoodCopy
  <2> QED BY <1>1, <1>4, <2>1, <2>2, <2>3
<1>12. UNCHANGED vars => UNCHANGED storageVars /\ UNCHANGED <<promised, assured>>
  BY DEF vars, history
<1>13. CASE UNCHANGED vars
  <2>1. Home' = Home /\ UNCHANGED job
    BY <1>12, <1>13 DEF storageVars, Home
  <2> QED BY <1>1, <1>4, <1>12, <1>13, <2>1 DEF TornSave
<1> QED BY <1>5, <1>6, <1>7, <1>8, <1>9, <1>10, <1>11, <1>13, RunShape DEF Reboots

LEMMA SafekeepingStep ==
  ASSUME MaxFaults <= 1 \/ MaxPending <= 1
  PROVE  Structure /\ Agreement /\ Safekeeping /\ [Next]_vars => Safekeeping'
BY StructureStep, CopiesStep, TornStep, KeptStep DEF Agreement, Safekeeping

-----------------------------------------------------------------------------
LEMMA Initially == Init => Structure /\ Agreement
<1> SUFFICES ASSUME Init PROVE Structure /\ Agreement
  OBVIOUS
<1> USE DEF Init, StorageInit, Idle, Unlocked
<1>1. /\ job = [caller |-> "boot", step |-> "reconcile", env |-> None, seal |-> None, was |-> None,
                rescue |-> None, twin |-> FALSE, prior |-> None]
      /\ pending = [op \in Operations |-> None] /\ session = None
  BY DEF Startup, NoJob
<1>2. /\ vault \in File /\ backup \in File /\ journal \in JournalRecord \cup {None, Torn}
      /\ promised = IF vault = None THEN {} ELSE {Content(vault)}
      /\ assured = IF vault = None THEN None ELSE Content(vault)
      /\ vault \in Envelope \cup {None}
      /\ rotating \in (Nat \X Nat) \cup {None}
  <2>1. /\ Sealed(1, 1, 1) \in Envelope /\ Sealed(1, 2, 2) \in Envelope
        /\ Sealed(2, 4, 2) \in Envelope /\ BareJournal \in JournalRecord
    BY DEF Sealed, Envelope, BareJournal, JournalRecord
  <2>2. <<1, 2>> \in Nat \X Nat
    OBVIOUS
  <2> QED BY <2>1, <2>2 DEF Start, File
<1>3. TypeOK
  <2>1. StorageTypeOK
    BY <1>1, <1>2, FaultsAssumption DEF StorageTypeOK, Job, File, Callers, Steps
  <2>2. /\ promised \in SUBSET [key : Nat, body : Nat]
        /\ assured \in [key : Nat, body : Nat] \cup {None}
    BY <1>2 DEF Content, Envelope
  <2> QED BY <1>1, <1>2, <2>1, <2>2 DEF TypeOK
<1>4. JobShape /\ VaultStands /\ RestoreFaults
  BY <1>1 DEF JobShape, VaultStands, RestoreFaults, Writing, Before, After, Between, BackupSteps,
     WriteSteps, CopySteps
<1>5. OneAtATime /\ JobIsTheSessions /\ FlightsArePast /\ RestoreSawHome
  BY <1>1 DEF OneAtATime, JobIsTheSessions, FlightsArePast, RestoreSawHome, Writing, Operations,
     Replacements
<1>6. Home = vault
  BY <1>1 DEF Home
<1>7. Alone /\ UnlockSeesHome /\ NothingToOpen /\ ProofIsOfTheSession
  BY <1>1 DEF Alone, UnlockSeesHome, NothingToOpen, ProofIsOfTheSession, Operations
<1>8. PromiseIsKept
  BY <1>1, <1>2, <1>6 DEF PromiseIsKept, Readable
<1> QED BY <1>3, <1>4, <1>5, <1>7, <1>8 DEF Structure, Agreement

LEMMA InitiallySafe == Init => Safekeeping
<1> SUFFICES ASSUME Init PROVE Safekeeping
  OBVIOUS
<1>1. /\ job.caller = "boot" /\ job.step = "reconcile" /\ session = None
      /\ pending["unlock"] = None /\ Home = vault
  BY DEF Init, Startup, NoJob, Operations, Home
<1>2. assured # None => Readable(vault)
  <2>1. Sealed(1, 2, 2) \in Envelope /\ Sealed(2, 4, 2) \in Envelope
    BY DEF Sealed, Envelope
  <2> QED BY <2>1, EnvelopesAreReadable DEF Init, Start, File
<1> QED BY <1>1, <1>2 DEF Safekeeping, CopiesStand, TornIsTheEnd, CopyIsKept, TornSave, Opens,
        Unlocked, Idle, BackupSteps, Reconcilers

(* What the run in progress has done, whatever fails and stops.            *)
THEOREM StructureInvariant == Spec => []Structure
BY Initially, StructureStep, PTL DEF Spec

(* Every variable keeps its type.                                          *)
THEOREM TypeCorrect == Spec => []TypeOK
BY StructureInvariant, PTL DEF Structure

LEMMA LocksStep ==
  ASSUME Structure, [Next]_vars, NEW op \in {"create", "unlock", "restore"},
         ~Idle(op), pending'[op] = None, session' \notin {session, None}
  PROVE  ~pending[op].overtaken
<1>1. pending[op] # None /\ pending[op].overtaken => pending[op].gen < generation
  BY DEF Structure, FlightsArePast, Operations, Idle
<1>2. pending[op] \in Flight /\ generation \in Nat
  BY DEF Structure, TypeOK, Operations, Idle
<1>3. CASE UnlockDone
  <2>1. op = "unlock"
    BY <1>3 DEF UnlockDone, Settle, Structure, TypeOK, Operations, Idle
  <2> QED BY <1>1, <1>2, <1>3, <2>1 DEF UnlockDone, Flight, Idle
<1>4. CASE CreateDone /\ pending["create"].gen = generation
  <2>1. op = "create"
    BY <1>4 DEF CreateDone, Settle, Structure, TypeOK, Operations, Idle
  <2> QED BY <1>1, <1>2, <1>4, <2>1 DEF Flight, Idle
<1>5. CASE RestoreDone /\ pending["restore"].gen = generation
  <2>1. op = "restore"
    BY <1>5 DEF RestoreDone, Settle, Structure, TypeOK, Operations, Idle
  <2> QED BY <1>1, <1>2, <1>5, <2>1 DEF Flight, Idle
<1>6. ~MutateDone /\ ~Adopts
  BY DEF MutateDone, Adopts, ChangeStands, ChangeSweepOwed, ChangeDone, AdoptRotation, ChangeEnd,
     Settle, Structure, TypeOK, Operations, Idle
<1> QED BY <1>3, <1>4, <1>5, <1>6, SessionShape

(* A lock that arrives while a vault is being created, opened or restored  *)
(* leaves it locked, whatever fails on the way.                            *)
THEOREM LocksCancelOpenings == Spec => LockCancelsOpening
<1>1. Structure /\ [Next]_vars =>
        [\A op \in {"create", "unlock", "restore"} :
           ~Idle(op) /\ pending'[op] = None /\ session' \notin {session, None}
             => ~pending[op].overtaken]_vars
  BY LocksStep
<1> QED BY <1>1, StructureInvariant, PTL DEF Spec, LockCancelsOpening

(* A restore sets aside the file it was authorised against, or finds none. *)
THEOREM RestoresReplaceWhatTheySaw == Spec => RestoreReplacesWhatItSaw
<1>1. Structure /\ [Next]_vars => [RestoreWrite => vault \in {pending["restore"].saw, None}]_vars
  <2> SUFFICES ASSUME Structure, RestoreWrite PROVE vault = pending["restore"].saw
    OBVIOUS
  <2>1. Quiet /\ ~Idle("restore") /\ pending["restore"].fgen = fileGeneration
    BY DEF RestoreWrite
  <2> QED BY <2>1, QuietIsNobody DEF Structure, RestoreSawHome
<1> QED BY <1>1, StructureInvariant, PTL DEF Spec, RestoreReplacesWhatItSaw

(* The rest holds if at most one fault ever happens, or if one operation   *)
(* at a time derives a key.                                                *)
THEOREM Invariant ==
  ASSUME MaxFaults <= 1 \/ MaxPending <= 1
  PROVE  Spec => [](Structure /\ Agreement)
BY Initially, StructureStep, AgreementStep, PTL DEF Spec

(* A vault file that parses holds what the last operation told its caller, *)
(* or what one that was cut may have left.                                 *)
THEOREM FileAsPromised ==
  ASSUME MaxFaults <= 1 \/ MaxPending <= 1
  PROVE  Spec => []FileKeepsPromise
<1>1. Structure /\ Agreement => FileKeepsPromise
  BY QuietIsNobody DEF Agreement, PromiseIsKept, FileKeepsPromise
<1> QED BY <1>1, Invariant, PTL

(* An open session and the file agree on key and contents, so no save can  *)
(* seal under a retired key or write a stale copy back.                    *)
THEOREM SessionAndFileAgree ==
  ASSUME MaxFaults <= 1 \/ MaxPending <= 1
  PROVE  Spec => []SessionAgreesWithFile
<1>1. Structure /\ Agreement => SessionAgreesWithFile
  BY QuietIsNobody DEF Agreement, PromiseIsKept, SessionAgreesWithFile, Content
<1> QED BY <1>1, Invariant, PTL

(* What was asked for under one session or file takes effect in no other:  *)
(* locks, restores and proofs of the passphrase.                           *)
THEOREM NothingStale ==
  ASSUME MaxFaults <= 1 \/ MaxPending <= 1
  PROVE  Spec => NothingStaleTakesEffect
<1>1. Structure /\ Agreement /\ [Next]_vars =>
        [ProveDone => pending["verify"].env.key = session.key]_vars
  BY DEF ProveDone, SameSession, Agreement, ProofIsOfTheSession
<1>2. Spec => ProofIsCurrent
  BY <1>1, Invariant, PTL DEF Spec, ProofIsCurrent
<1> QED BY <1>2, LocksCancelOpenings, RestoresReplaceWhatTheySaw, PTL DEF NothingStaleTakesEffect

(* When the program leaves the vault file unreadable or gone, a copy of    *)
(* what was last promised is still beside it.                              *)
THEOREM LastCopySurvives ==
  ASSUME MaxFaults <= 1 \/ MaxPending <= 1
  PROVE  Spec => []LastGoodCopySurvives
<1>1. Structure /\ Safekeeping => LastGoodCopySurvives
  BY QuietIsNobody DEF Safekeeping, CopyIsKept, GoodCopy, Copies, TornSave, LastGoodCopySurvives
<1>2. Spec => [](Structure /\ Agreement)
  BY Invariant
<1>3. Init => Safekeeping
  BY InitiallySafe
<1>4. Structure /\ Agreement /\ Safekeeping /\ [Next]_vars => Safekeeping'
  BY SafekeepingStep
<1> QED BY <1>1, <1>2, <1>3, <1>4, PTL DEF Spec
=============================================================================
