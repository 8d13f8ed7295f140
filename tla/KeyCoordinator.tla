---------------------------- MODULE KeyCoordinator ----------------------------
(***************************************************************************)
(* VaultKeyOperationCoordinator (src/main/vault/key-operation-coordinator) *)
(* and the code that holds its reservations across awaits:                 *)
(*   steam        activation, removal, enrollment and transfer, each from  *)
(*                before its irreversible request until its answer is kept *)
(*   mutation     import, removal, recovery file, recovery-backup repair   *)
(*   replacement  create, adopt, restore, passphrase change                *)
(*   export       a maFile written and published outside the vault         *)
(* The coordinator refuses, it never queues: a task that cannot begin ends. *)
(***************************************************************************)
EXTENDS Naturals, FiniteSets

CONSTANTS
  Accounts,    \* SteamIDs
  Tasks,       \* handlers that may be running at once
  None,        \* no reservation, no account row
  MaxVersion   \* bound: changes of the secrets of one account

ASSUME TasksAssumption == IsFiniteSet(Tasks)
ASSUME VersionAssumption == MaxVersion \in Nat

VARIABLES
  steamOperation,    \* the account an irreversible request is about, or None
  vaultReplacement,  \* whether the key or the file is being replaced
  accountMutation,   \* the accounts being rewritten, or None
  accountSnapshots,  \* how many exports hold each account still
  task,              \* what each handler is doing
  secrets,           \* what an export of each account would hold, or None
  unlocked           \* whether the vault session is open

vars == <<steamOperation, vaultReplacement, accountMutation, accountSnapshots,
          task, secrets, unlocked>>
coordinator == <<steamOperation, vaultReplacement, accountMutation, accountSnapshots>>

(* `held' is the closure's own flag: FALSE once its release was called.    *)
Roles == {"steam", "mutation", "replacement", "export"}
Steps == {"working", "publish", "confirm", "saved", "gaveUp"}
Task == [role : Roles, over : SUBSET Accounts, held : BOOLEAN,
         step : Steps, contents : Nat \cup {None}]
Running(t) == task[t] # None

ASSUME NoneAssumption ==
  /\ None \notin Accounts \cup Nat \cup Task
  /\ \A affected \in SUBSET Accounts : affected # None

Doing(t, role) == Running(t) /\ task[t].role = role /\ task[t].held

Begin(t, role, over, contents) ==
  /\ ~Running(t)
  /\ task' = [task EXCEPT ![t] = [role |-> role, over |-> over, held |-> TRUE,
                                   step |-> "working", contents |-> contents]]
  /\ UNCHANGED <<secrets, unlocked>>

(* Faulty: exports under way are not looked at.                            *)
BeginSteamUnasked(t, a) ==
  /\ accountMutation = None /\ ~vaultReplacement /\ steamOperation = None
  /\ steamOperation' = a
  /\ Begin(t, "steam", {a}, None)
  /\ UNCHANGED <<vaultReplacement, accountMutation, accountSnapshots>>

(* beginSteamOperation, for all six kinds.                                 *)
BeginSteam(t, a) ==
  /\ accountMutation = None /\ ~vaultReplacement /\ steamOperation = None
  /\ accountSnapshots[a] = 0
  /\ steamOperation' = a
  /\ Begin(t, "steam", {a}, None)
  /\ UNCHANGED <<vaultReplacement, accountMutation, accountSnapshots>>

(* Faulty: a Steam request under way is not looked at.                      *)
BeginMutationUnasked(t, affected) ==
  /\ accountMutation = None /\ ~vaultReplacement
  /\ \A a \in affected : accountSnapshots[a] = 0
  /\ accountMutation' = affected
  /\ Begin(t, "mutation", affected, None)
  /\ UNCHANGED <<steamOperation, vaultReplacement, accountSnapshots>>

(* beginAccountMutation; without a list it stands for every account.       *)
BeginMutation(t, affected) ==
  /\ accountMutation = None /\ ~vaultReplacement /\ steamOperation = None
  /\ \A a \in affected : accountSnapshots[a] = 0
  /\ accountMutation' = affected
  /\ Begin(t, "mutation", affected, None)
  /\ UNCHANGED <<steamOperation, vaultReplacement, accountSnapshots>>

(* duringVaultReplacement does not ask about snapshots: its commit does.   *)
BeginReplacement(t) ==
  /\ ~vaultReplacement /\ steamOperation = None /\ accountMutation = None
  /\ vaultReplacement' = TRUE
  /\ Begin(t, "replacement", {}, None)
  /\ UNCHANGED <<steamOperation, accountMutation, accountSnapshots>>

(* beginAccountSnapshot, in the same synchronous run as the check that the *)
(* vault is open and the read of the bytes that will be exported.          *)
BeginExport(t, a) ==
  /\ unlocked /\ secrets[a] # None
  /\ steamOperation # a
  /\ accountMutation # None => a \notin accountMutation
  /\ accountSnapshots' = [accountSnapshots EXCEPT ![a] = @ + 1]
  /\ Begin(t, "export", {a}, secrets[a])
  /\ UNCHANGED <<steamOperation, vaultReplacement, accountMutation>>

(* Faulty: a release that can be called twice releases twice.              *)
ReleaseAgain(t) ==
  /\ Running(t)
  /\ task' = [task EXCEPT ![t].held = FALSE]
  /\ steamOperation' = IF task[t].role = "steam" THEN None ELSE steamOperation
  /\ accountMutation' = IF task[t].role = "mutation" THEN None ELSE accountMutation
  /\ vaultReplacement' = (vaultReplacement /\ task[t].role # "replacement")
  /\ accountSnapshots' =
       [a \in Accounts |-> IF task[t].role = "export" /\ a \in task[t].over
                           THEN accountSnapshots[a] - 1 ELSE accountSnapshots[a]]
  /\ UNCHANGED <<secrets, unlocked>>

(* The release every begin returns.  Error paths may call it again.        *)
Release(t) ==
  /\ Running(t)
  /\ task' = [task EXCEPT ![t].held = FALSE]
  /\ UNCHANGED <<secrets, unlocked>>
  /\ \/ /\ ~task[t].held
        /\ UNCHANGED coordinator
     \/ /\ Doing(t, "steam")
        /\ steamOperation' = None
        /\ UNCHANGED <<vaultReplacement, accountMutation, accountSnapshots>>
     \/ /\ Doing(t, "mutation")
        /\ accountMutation' = None
        /\ UNCHANGED <<steamOperation, vaultReplacement, accountSnapshots>>
     \/ /\ Doing(t, "replacement")
        /\ vaultReplacement' = FALSE
        /\ UNCHANGED <<steamOperation, accountMutation, accountSnapshots>>
     \/ /\ Doing(t, "export") /\ task[t].step \in {"saved", "gaveUp"}
        /\ accountSnapshots' =
             [a \in Accounts |-> IF a \in task[t].over THEN accountSnapshots[a] - 1
                                                       ELSE accountSnapshots[a]]
        /\ UNCHANGED <<steamOperation, vaultReplacement, accountMutation>>

End(t) ==
  /\ Running(t) /\ ~task[t].held
  /\ task' = [task EXCEPT ![t] = None]
  /\ UNCHANGED <<coordinator, secrets, unlocked>>

-----------------------------------------------------------------------------
(* assertAccountSnapshotsUnchanged, run by every save before it seals.     *)
SnapshotsUnchanged ==
  \A a \in Accounts :
    accountSnapshots[a] > 0 => secrets[a] # None /\ secrets'[a] = secrets[a]

(* A row added, rewritten with other secrets, or removed.                  *)
Rewritten(a) ==
  {v \in 0..MaxVersion : secrets[a] # None => v > secrets[a]} \cup {None}

Commit(t, a) ==
  /\ unlocked /\ a \in task[t].over
  /\ \E v \in Rewritten(a) : secrets' = [secrets EXCEPT ![a] = v]
  /\ SnapshotsUnchanged
  /\ UNCHANGED <<coordinator, task, unlocked>>

SteamCommit(t, a) == Doing(t, "steam") /\ Commit(t, a)
MutationCommit(t, a) == Doing(t, "mutation") /\ Commit(t, a)

(* Faulty: the commit does not ask about exports, as the begin did not.     *)
ReplacementCommitUnasked(t) ==
  /\ Doing(t, "replacement") /\ ~unlocked
  /\ secrets' \in [Accounts -> 0..MaxVersion \cup {None}]
  /\ UNCHANGED <<coordinator, task, unlocked>>

(* A restore or an adoption puts other accounts in place, locked, and only *)
(* when no export is live (assertNoAccountSnapshots).                      *)
ReplacementCommit(t) ==
  /\ Doing(t, "replacement") /\ ~unlocked
  /\ \A a \in Accounts : accountSnapshots[a] = 0
  /\ secrets' \in [Accounts -> 0..MaxVersion \cup {None}]
  /\ UNCHANGED <<coordinator, task, unlocked>>

Lock == unlocked /\ unlocked' = FALSE /\ UNCHANGED <<coordinator, task, secrets>>
Unlock == ~unlocked /\ unlocked' = TRUE /\ UNCHANGED <<coordinator, task, secrets>>

-----------------------------------------------------------------------------
(* The export between its awaits: staged, published under the final name,  *)
(* and each time checked against the live account before it goes on.       *)
StillExported(t) ==
  unlocked /\ \A a \in task[t].over : secrets[a] = task[t].contents

AtStep(t, step) == Doing(t, "export") /\ task[t].step = step
Proceed(t, step) ==
  /\ task' = [task EXCEPT ![t].step = step]
  /\ UNCHANGED <<coordinator, secrets, unlocked>>

ExportStaged(t) == AtStep(t, "working") /\ StillExported(t) /\ Proceed(t, "publish")
ExportPublished(t) == AtStep(t, "publish") /\ StillExported(t) /\ Proceed(t, "confirm")
ExportSaved(t) == AtStep(t, "confirm") /\ StillExported(t) /\ Proceed(t, "saved")

(* The lock is a reason to take the file back; so is any failed write.     *)
ExportGivesUp(t) ==
  \E step \in {"working", "publish", "confirm"} : AtStep(t, step) /\ Proceed(t, "gaveUp")

-----------------------------------------------------------------------------
Init ==
  /\ steamOperation = None /\ vaultReplacement = FALSE /\ accountMutation = None
  /\ accountSnapshots = [a \in Accounts |-> 0]
  /\ task = [t \in Tasks |-> None]
  /\ secrets \in [Accounts -> {0, None}]
  /\ unlocked = FALSE

Next ==
  \/ Lock \/ Unlock
  \/ \E t \in Tasks :
       \/ BeginReplacement(t) \/ ReplacementCommit(t) \/ Release(t) \/ End(t)
       \/ ExportStaged(t) \/ ExportPublished(t) \/ ExportSaved(t) \/ ExportGivesUp(t)
       \/ \E affected \in SUBSET Accounts : BeginMutation(t, affected)
       \/ \E a \in Accounts :
            BeginSteam(t, a) \/ BeginExport(t, a) \/ SteamCommit(t, a)
            \/ MutationCommit(t, a)

Spec == Init /\ [][Next]_vars

-----------------------------------------------------------------------------
(* Every variable keeps its type.                                          *)
TypeOK ==
  /\ steamOperation \in Accounts \cup {None}
  /\ vaultReplacement \in BOOLEAN
  /\ accountMutation \in (SUBSET Accounts) \cup {None}
  /\ accountSnapshots \in [Accounts -> Nat]
  /\ task \in [Tasks -> Task \cup {None}]
  /\ secrets \in [Accounts -> 0..MaxVersion \cup {None}]
  /\ unlocked \in BOOLEAN

(* An irreversible Steam request, a rewrite of account rows and a          *)
(* replacement of the vault key or file never run side by side, whichever  *)
(* handlers they are and however often a release is called.                *)
Writes(t) == Doing(t, "steam") \/ Doing(t, "mutation") \/ Doing(t, "replacement")
OneWriter == \A t, u \in Tasks : Writes(t) /\ Writes(u) => t = u

(* No account is the subject of a Steam request or a rewrite while an      *)
(* export of it is under way, in whichever order the two began.            *)
ExportsUndisturbed ==
  \A t, u \in Tasks :
    Doing(t, "export") /\ (Doing(u, "steam") \/ Doing(u, "mutation"))
      => task[t].over \cap task[u].over = {}

(* The bytes being exported are the account's own from the moment they are *)
(* read until the file is reported saved or taken back, even when the      *)
(* vault is locked and a restore is waiting: the checks of the export can  *)
(* be lost to a lock and to nothing else.                                  *)
ExportedBytesHold ==
  \A t \in Tasks :
    Doing(t, "export") => \A a \in task[t].over : secrets[a] = task[t].contents
=============================================================================
