------------------------------ MODULE Workflows ------------------------------
(***************************************************************************)
(* The two ways an authenticator gets into the vault, for one account:     *)
(* Transfer and Enrollment over one journal, one vault row and one         *)
(* coordinator, with locks, imports, removals, restores, adoptions, and    *)
(* crashes between their steps.                                            *)
(***************************************************************************)
EXTENDS Enrollment

allVars == <<vars, enrollment>>

-----------------------------------------------------------------------------
(* The rest of the program.                                                *)
Lock ==
  /\ Idle /\ unlocked /\ unlocked' = FALSE
  /\ TransferLocked /\ EnrollLocked
  /\ UNCHANGED <<journalVars, job, row, bak, world>>

Unlock ==
  /\ Idle /\ ~unlocked /\ unlocked' = TRUE
  /\ UNCHANGED <<journalVars, service, enrollment, row, bak, world>>

NothingOwed == owed = None /\ enrollOwed = None

(* accountMutationBlockedByDurableState, as far as a workflow goes.        *)
MutationAllowed ==
  /\ NothingOwed /\ ReadsWell /\ Merged(dir).files = {}
  /\ row # None => row.backup # "pending"

(* An import of the phone's authenticator, a removal of the account.       *)
ImportOld ==
  /\ Idle /\ unlocked /\ row = None /\ steam = Old /\ Reservable /\ MutationAllowed
  /\ Save([auth |-> Old, backup |-> "current"])
  /\ UNCHANGED <<service, enrollment, world>>
RemoveRow ==
  /\ Idle /\ unlocked /\ row # None /\ Reservable /\ MutationAllowed
  /\ Save(None)
  /\ UNCHANGED <<service, enrollment, world>>

(* vaultRestoreBackup and vaultAdopt: the journal must be readable, and    *)
(* nothing may be owed that only this process knows.                       *)
Restore ==
  /\ Idle /\ ~unlocked /\ Reservable /\ NothingOwed /\ ReadsWell
  /\ row' = bak /\ unlocked' = TRUE
  /\ UNCHANGED <<service, enrollment, bak, world>>
Adopt ==
  /\ Idle /\ ~unlocked /\ Reservable /\ NothingOwed /\ ReadsWell
  /\ ~adopted /\ adopted' = TRUE
  /\ row' \in {None} \cup [auth : {Old, Elsewhere}, backup : {"current"}]
  /\ UNCHANGED <<service, enrollment, unlocked, bak, steam, enrolment, sent,
                 open, received>>

-----------------------------------------------------------------------------
(* The world.                                                              *)

(* Steam Support removes the authenticator of an unclear attempt.          *)
Support ==
  /\ Idle /\ ~Submitting /\ ~Busy /\ open # {} /\ steam \notin {None, Old}
  /\ \A r \in dir.files : r.reply # "usable"
  /\ steam' = None
  /\ UNCHANGED <<journalVars, service, enrollment, vault, enrolment, sent, open,
                 received, adopted>>

(* While the reply waits to be stored, the user moves the authenticator    *)
(* again, with another device.                                             *)
MoveAway ==
  /\ Idle /\ ~Submitting /\ ~Busy /\ ~adopted
  /\ \E r \in dir.files : r.reply = "usable"
  /\ steam' = Elsewhere
  /\ UNCHANGED <<journalVars, service, enrollment, vault, enrolment, sent, open,
                 received, adopted>>

-----------------------------------------------------------------------------
(* Stopping and starting.                                                  *)
Restarted ==
  /\ TransferForgotten /\ EnrollForgotten
  /\ unlocked' = FALSE /\ Start("load", "start", FALSE, None)

OnDisk(n, d) ==
  \/ \E r \in d.files \cup d.staged : r.attempt = n /\ r.reply # "none"
  \/ row # None /\ row.auth = n
InMemory(n) == Holding \/ (staged # None /\ staged.attempt = n)

(* A stop takes the replies that were nowhere but in memory: the window    *)
(* the messages warn of ("Do not close this app").                         *)
OnlyInMemory == {n \in received : InMemory(n) /\ \E d \in {dir} \cup older : ~OnDisk(n, d)}

(* A request that was out may still take effect.                           *)
Crash ==
  /\ JournalCrash /\ Restarted
  /\ \/ UNCHANGED steam
     \/ phase = "asked" /\ Executed
     \/ login = "asked" /\ Attaches
  /\ received' = received \ OnlyInMemory
  /\ UNCHANGED <<row, bak, sent, open, adopted>>

(* Only reopening helps when the journal could not be read.                *)
Reopen ==
  /\ Idle /\ ~Holding /\ staged = None /\ ~Submitting /\ ~Busy
  /\ problem \/ debt
  /\ Restarted /\ debt' = FALSE
  /\ UNCHANGED <<dir, older, faults, row, bak, steam, sent, open, received, adopted>>

-----------------------------------------------------------------------------
Init ==
  /\ JournalInit /\ TransferInit /\ job = None
  /\ login = "no" /\ erec = None /\ staged = None /\ known = {}
  /\ enrollOwed = None /\ enrollHolds = FALSE
  /\ unlocked = FALSE /\ row = None
  /\ bak \in {None, [auth |-> Old, backup |-> "current"]}
  /\ steam \in {None, Old} /\ sent = {} /\ open = {} /\ received = {}
  /\ adopted = FALSE

(* A vault that locks itself when a write fails takes the sign-in with it. *)
Aside == IF unlocked /\ ~unlocked' THEN EnrollLocked ELSE UNCHANGED enrollment
Run == (TransferRun /\ Aside) \/ EnrollRun
Replies == (Replying /\ UNCHANGED enrollment) \/ EnrollReplying
Asked == (Asking /\ UNCHANGED enrollment) \/ EnrollAsking
Trying == ((Signing \/ Completing) /\ UNCHANGED enrollment) \/ EnrollSigning
Around == Lock \/ Unlock \/ ImportOld \/ RemoveRow \/ Restore \/ Adopt \/ Support
            \/ MoveAway \/ Crash \/ Reopen

Next == Run \/ Replies \/ Asked \/ Trying \/ Around

Spec == Init /\ [][Next]_allVars

(* A synchronous run ends and requests end; and, for the one property that *)
(* says so, a user who keeps asking.                                       *)
Fairness == WF_allVars(Run) /\ WF_allVars(Replies)
RetryTransfer == RetryBegin(TRUE) /\ UNCHANGED enrollment
ProveTransfer == ProofAccepted /\ UNCHANGED enrollment
DropTransfer == ResolveRefused /\ UNCHANGED enrollment
Persistence ==
  /\ WF_allVars(Unlock) /\ WF_allVars(Reopen) /\ WF_allVars(DropTransfer)
  /\ SF_allVars(RetryTransfer) /\ SF_allVars(ProveTransfer)
  /\ SF_allVars(EnrollRetry) /\ SF_allVars(EnrollResolve("storedHere"))
FairSpec == Spec /\ Fairness /\ Persistence

-----------------------------------------------------------------------------
TypeOK ==
  /\ JournalTypeOK /\ TransferTypeOK /\ EnrollTypeOK
  /\ job \in Job \cup {None} /\ unlocked \in BOOLEAN
  /\ row \in Row \cup {None} /\ bak \in Row \cup {None} /\ steam \in Prints \cup {None}
  /\ adopted \in BOOLEAN
  /\ sent \subseteq Attempts /\ open \subseteq sent /\ received \subseteq sent

(* No request goes out while the outcome of an earlier one, of either      *)
(* kind, is unknown, or its reply is not stored: whatever crashes, locks,  *)
(* lost answers and failed writes came between.                            *)
Promise == INSTANCE IrreversibleRequests WITH
  Requests <- Attempts, asked <- sent, unknown <- open
KeepsPromise == Promise!Spec

(* The secrets Steam sends once are in memory, or on the disk whatever a   *)
(* power loss makes of it, until the vault holds them for good or the user *)
(* says they are not needed.                                               *)
ReplySurvives ==
  \A n \in received : InMemory(n) \/ \A d \in {dir} \cup older : OnDisk(n, d)

(* A transfer or an enrolment never overwrites or removes the              *)
(* authenticator Steam accepts by now: the row it replaces or drops is an  *)
(* obsolete one.  Where no backup told a transfer which one was there, the *)
(* passphrase is the only guard.                                           *)
Vouched == wf # None => wf.prior # None
CurrentIsKept ==
  Run /\ row # None /\ row.auth = steam /\ Vouched => row' # None /\ row'.auth = row.auth

(* A reply that can be used is let go of only when the vault holds it and  *)
(* its recovery file is written; the user's word, which may be wrong, does *)
(* it only for a row that is there.                                        *)
Usable(n) ==
  \/ unsaved
  \/ staged # None /\ staged.attempt = n /\ staged.usable
  \/ \E r \in dir.files : r.attempt = n /\ r.reply = "usable"
Starts == Step("load") \/ (job' # None /\ job'.step = "load")
UsableIsSaved ==
  \A n \in received \ received' :
    Usable(n) => \/ Starts
                 \/ /\ row # None /\ row.auth = n
                    /\ job.resolution = None => row.backup = "current"

(* Between them: what Steam accepts, or issued and can be used, is never   *)
(* what a workflow throws away.                                            *)
OnlyTheObsoleteGoes == [][CurrentIsKept /\ UsableIsSaved]_allVars

(* Whoever keeps asking gets a usable reply stored, unless the journal was *)
(* cut while being written, another vault was put in place, the row is     *)
(* another one than an enrolment's, or a note that was left behind when it *)
(* could not be read back makes two of the transfers'.                     *)
Waits(n) == unsaved \/ (staged # None /\ staged.attempt = n /\ staged.usable)
SeveralTransfers == Cardinality(Records(dir, "transfer")) > 1
Overtaken == wf = None /\ row # None /\ row.auth \notin open
ReplyIsStored ==
  \A n \in Attempts :
    (n \in received /\ Waits(n)) ~>
      (n \notin received \/ dir.torn \/ adopted \/ Overtaken \/ SeveralTransfers)
=============================================================================
