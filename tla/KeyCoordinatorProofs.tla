------------------------- MODULE KeyCoordinatorProofs -------------------------
(***************************************************************************)
(* Proofs about KeyCoordinator for any set of accounts, any finite set of  *)
(* handlers and any number of changes of an account; and in the second     *)
(* half about AccountRows, beside it in MCKeyCoordinator, for any accounts *)
(* imported, proxies, authenticators, faults and copies.                   *)
(***************************************************************************)
EXTENDS MCKeyCoordinator, FiniteSetTheorems, TLAPS

(* The exports that hold an account still.                                 *)
Exporting(a) == {t \in Tasks : Doing(t, "export") /\ a \in task[t].over}

(* Each counter is the number of live exports of its account.              *)
Counted == \A a \in Accounts : accountSnapshots[a] = Cardinality(Exporting(a))

(* A live reservation is the one the coordinator has on record.            *)
Recorded ==
  \A t \in Tasks :
    /\ Doing(t, "steam") =>
         steamOperation # None /\ task[t].over = {steamOperation}
    /\ Doing(t, "mutation") => accountMutation # None /\ accountMutation = task[t].over
    /\ Doing(t, "replacement") => vaultReplacement

(* What a reservation is over: accounts, for each task that is live.       *)
IInv ==
  /\ TypeOK /\ Counted /\ Recorded
  /\ OneWriter /\ ExportsUndisturbed /\ ExportedBytesHold

-----------------------------------------------------------------------------
(* What a step does to the handlers.                                       *)

(* A live handler is a task record.                                        *)
LEMMA LiveTask ==
  ASSUME TypeOK, NEW t \in Tasks, Running(t)
  PROVE  task[t] \in Task
BY DEF TypeOK, Running

(* Beginning a handler makes it live in its role and leaves the others be. *)
LEMMA BeginFrame ==
  ASSUME TypeOK, NEW t \in Tasks, NEW role \in Roles,
         NEW over \in SUBSET Accounts, NEW contents \in Nat \cup {None},
         Begin(t, role, over, contents)
  PROVE  /\ task' \in [Tasks -> Task \cup {None}]
         /\ secrets' = secrets /\ unlocked' = unlocked
         /\ \A r \in Roles : ~Doing(t, r) /\ (Doing(t, r)' <=> r = role)
         /\ task'[t].over = over /\ task'[t].contents = contents
         /\ \A u \in Tasks \ {t} : /\ task'[u] = task[u]
                                   /\ \A r \in Roles : Doing(u, r)' <=> Doing(u, r)
<1> DEFINE new == [role |-> role, over |-> over, held |-> TRUE,
                   step |-> "working", contents |-> contents]
<1>1. new \in Task
  BY DEF Task, Steps
<1>2. task' = [task EXCEPT ![t] = new] /\ ~Running(t)
  BY DEF Begin
<1>3. task'[t] = new /\ \A u \in Tasks \ {t} : task'[u] = task[u]
  BY <1>2 DEF TypeOK
<1>4. new # None
  BY <1>1, NoneAssumption
<1> HIDE DEF new
<1>5. task' \in [Tasks -> Task \cup {None}]
  BY <1>1, <1>2 DEF TypeOK
<1>6. new.role = role /\ new.held = TRUE /\ new.over = over /\ new.contents = contents
  BY DEF new
<1> QED
  BY <1>2, <1>3, <1>4, <1>5, <1>6 DEF Begin, Doing, Running

(* Releasing ends what the handler was doing and nothing else.             *)
LEMMA ReleaseFrame ==
  ASSUME TypeOK, NEW t \in Tasks, Release(t)
  PROVE  /\ task' \in [Tasks -> Task \cup {None}]
         /\ secrets' = secrets /\ unlocked' = unlocked
         /\ \A r \in Roles : ~Doing(t, r)'
         /\ \A u \in Tasks : /\ task'[u].over = task[u].over
                             /\ task'[u].contents = task[u].contents
         /\ \A u \in Tasks \ {t}, r \in Roles : Doing(u, r)' <=> Doing(u, r)
<1>1. task[t] \in Task /\ task' = [task EXCEPT ![t].held = FALSE]
  BY LiveTask DEF Release
<1>2. task'[t] \in Task /\ task'[t] = [task[t] EXCEPT !.held = FALSE]
  BY <1>1 DEF TypeOK, Task
<1>3. \A u \in Tasks \ {t} : task'[u] = task[u]
  BY <1>1 DEF TypeOK
<1>4. task' \in [Tasks -> Task \cup {None}]
  BY <1>1, <1>2 DEF TypeOK
<1>5. /\ task'[t].held = FALSE /\ task'[t].over = task[t].over
      /\ task'[t].contents = task[t].contents
  BY <1>1, <1>2 DEF Task
<1> QED
  BY <1>3, <1>4, <1>5 DEF Release, Doing, Running

(* A step of an export changes how far it is, not what it holds.           *)
LEMMA ProceedFrame ==
  ASSUME TypeOK, NEW t \in Tasks, Running(t), NEW step \in Steps, Proceed(t, step)
  PROVE  /\ task' \in [Tasks -> Task \cup {None}]
         /\ \A u \in Tasks : /\ task'[u].over = task[u].over
                             /\ task'[u].contents = task[u].contents
         /\ \A u \in Tasks, r \in Roles : Doing(u, r)' <=> Doing(u, r)
<1>1. task[t] \in Task /\ task' = [task EXCEPT ![t].step = step]
  BY LiveTask DEF Proceed
<1>2. task'[t] \in Task /\ task'[t] = [task[t] EXCEPT !.step = step]
  BY <1>1 DEF TypeOK, Task
<1>3. \A u \in Tasks \ {t} : task'[u] = task[u]
  BY <1>1 DEF TypeOK
<1>4. task' \in [Tasks -> Task \cup {None}]
  BY <1>1, <1>2 DEF TypeOK
<1>5. /\ task'[t].held = task[t].held /\ task'[t].over = task[t].over
      /\ task'[t].role = task[t].role
      /\ task'[t].contents = task[t].contents
  BY <1>1, <1>2 DEF Task
<1>6. task[t] # None /\ task'[t] # None
  BY <1>1, <1>2, NoneAssumption
<1> QED
  BY <1>3, <1>4, <1>5, <1>6 DEF Doing, Running

(* Ending a released handler ends nothing that is live.                    *)
LEMMA EndFrame ==
  ASSUME TypeOK, NEW t \in Tasks, End(t)
  PROVE  /\ task' \in [Tasks -> Task \cup {None}]
         /\ \A r \in Roles : ~Doing(t, r) /\ ~Doing(t, r)'
         /\ \A u \in Tasks \ {t} : /\ task'[u] = task[u]
                                   /\ \A r \in Roles : Doing(u, r)' <=> Doing(u, r)
BY DEF TypeOK, End, Doing, Running

(* An account whose counter is zero is not being exported, and one that is *)
(* being exported has a positive counter.                                  *)
LEMMA CounterMeaning ==
  ASSUME TypeOK, Counted, NEW a \in Accounts, NEW t \in Tasks,
         Doing(t, "export"), a \in task[t].over
  PROVE  accountSnapshots[a] > 0
<1>1. IsFiniteSet(Exporting(a)) /\ t \in Exporting(a)
  BY FS_Subset, TasksAssumption DEF Exporting
<1>2. Cardinality(Exporting(a)) # 0 /\ Cardinality(Exporting(a)) \in Nat
  BY <1>1, FS_EmptySet, FS_CardinalityType
<1> QED
  BY <1>2 DEF Counted

-----------------------------------------------------------------------------
(* The invariant, action by action.                                        *)

(* An account's exporters stay the same when no live export changes.       *)
LEMMA SameExporters ==
  ASSUME NEW a \in Accounts,
         \A u \in Tasks : Doing(u, "export")' <=> Doing(u, "export"),
         \A u \in Tasks : Doing(u, "export") => task'[u].over = task[u].over
  PROVE  Exporting(a)' = Exporting(a)
BY DEF Exporting

(* Reserving for a Steam request keeps the invariant.                      *)
LEMMA BeginSteamKeeps ==
  ASSUME IInv, NEW t \in Tasks, NEW a \in Accounts, BeginSteam(t, a)
  PROVE  IInv'
<1> USE DEF Roles
<1>1. Begin(t, "steam", {a}, None) /\ steamOperation' = a
  BY DEF BeginSteam
<1>2. /\ task' \in [Tasks -> Task \cup {None}]
      /\ secrets' = secrets /\ unlocked' = unlocked
      /\ \A r \in Roles : ~Doing(t, r) /\ (Doing(t, r)' <=> r = "steam")
      /\ task'[t].over = {a}
      /\ \A u \in Tasks \ {t} : /\ task'[u] = task[u]
                                /\ \A r \in Roles : Doing(u, r)' <=> Doing(u, r)
  BY <1>1, BeginFrame DEF IInv
<1>3. TypeOK'
  BY <1>1, <1>2 DEF IInv, TypeOK, BeginSteam
<1>4. Counted'
  BY <1>2, SameExporters DEF IInv, Counted, BeginSteam
<1>5. \A u \in Tasks : ~Writes(u)
  BY DEF IInv, Recorded, Writes, BeginSteam
<1>6. Recorded' /\ OneWriter'
  BY <1>1, <1>2, <1>5, NoneAssumption DEF Recorded, OneWriter, Writes
<1>7. ExportsUndisturbed'
  <2>1. \A u \in Tasks : Doing(u, "export") => a \notin task[u].over
    BY CounterMeaning DEF IInv, BeginSteam
  <2> QED BY <1>2, <1>5, <2>1 DEF ExportsUndisturbed, Writes
<1>8. ExportedBytesHold'
  BY <1>2 DEF IInv, ExportedBytesHold
<1> QED BY <1>3, <1>4, <1>6, <1>7, <1>8 DEF IInv

(* Reserving accounts for a rewrite keeps the invariant.                   *)
LEMMA BeginMutationKeeps ==
  ASSUME IInv, NEW t \in Tasks, NEW affected \in SUBSET Accounts,
         BeginMutation(t, affected)
  PROVE  IInv'
<1> USE DEF Roles
<1>1. Begin(t, "mutation", affected, None) /\ accountMutation' = affected
  BY DEF BeginMutation
<1>2. /\ task' \in [Tasks -> Task \cup {None}]
      /\ secrets' = secrets /\ unlocked' = unlocked
      /\ \A r \in Roles : ~Doing(t, r) /\ (Doing(t, r)' <=> r = "mutation")
      /\ task'[t].over = affected
      /\ \A u \in Tasks \ {t} : /\ task'[u] = task[u]
                                /\ \A r \in Roles : Doing(u, r)' <=> Doing(u, r)
  BY <1>1, BeginFrame DEF IInv
<1>3. TypeOK'
  BY <1>1, <1>2 DEF IInv, TypeOK, BeginMutation
<1>4. Counted'
  BY <1>2, SameExporters DEF IInv, Counted, BeginMutation
<1>5. \A u \in Tasks : ~Writes(u)
  BY DEF IInv, Recorded, Writes, BeginMutation
<1>6. Recorded' /\ OneWriter'
  BY <1>1, <1>2, <1>5, NoneAssumption DEF Recorded, OneWriter, Writes
<1>7. ExportsUndisturbed'
  <2>1. \A u \in Tasks, a \in affected : Doing(u, "export") => a \notin task[u].over
    BY CounterMeaning DEF IInv, BeginMutation
  <2> QED BY <1>2, <1>5, <2>1 DEF ExportsUndisturbed, Writes
<1>8. ExportedBytesHold'
  BY <1>2 DEF IInv, ExportedBytesHold
<1> QED BY <1>3, <1>4, <1>6, <1>7, <1>8 DEF IInv

(* Reserving the key and the file keeps the invariant.                     *)
LEMMA BeginReplacementKeeps ==
  ASSUME IInv, NEW t \in Tasks, BeginReplacement(t)
  PROVE  IInv'
<1> USE DEF Roles
<1>1. Begin(t, "replacement", {}, None) /\ vaultReplacement' = TRUE
  BY DEF BeginReplacement
<1>2. /\ task' \in [Tasks -> Task \cup {None}]
      /\ secrets' = secrets /\ unlocked' = unlocked
      /\ \A r \in Roles : ~Doing(t, r) /\ (Doing(t, r)' <=> r = "replacement")
      /\ \A u \in Tasks \ {t} : /\ task'[u] = task[u]
                                /\ \A r \in Roles : Doing(u, r)' <=> Doing(u, r)
  BY <1>1, BeginFrame DEF IInv
<1>3. TypeOK'
  BY <1>1, <1>2 DEF IInv, TypeOK, BeginReplacement
<1>4. Counted'
  BY <1>2, SameExporters DEF IInv, Counted, BeginReplacement
<1>5. \A u \in Tasks : ~Writes(u)
  BY DEF IInv, Recorded, Writes, BeginReplacement
<1>6. Recorded' /\ OneWriter' /\ ExportsUndisturbed'
  BY <1>1, <1>2, <1>5, NoneAssumption DEF Recorded, OneWriter, ExportsUndisturbed, Writes
<1>7. ExportedBytesHold'
  BY <1>2 DEF IInv, ExportedBytesHold
<1> QED BY <1>3, <1>4, <1>6, <1>7 DEF IInv

(* An export that begins counts itself and reads current bytes.            *)
LEMMA BeginExportKeeps ==
  ASSUME IInv, NEW t \in Tasks, NEW a \in Accounts, BeginExport(t, a)
  PROVE  IInv'
<1> USE DEF Roles
<1>1. /\ Begin(t, "export", {a}, secrets[a])
      /\ accountSnapshots' = [accountSnapshots EXCEPT ![a] = @ + 1]
  BY DEF BeginExport
<1>2. secrets[a] \in Nat \cup {None}
  BY VersionAssumption DEF IInv, TypeOK
<1>3. /\ task' \in [Tasks -> Task \cup {None}]
      /\ secrets' = secrets /\ unlocked' = unlocked
      /\ \A r \in Roles : ~Doing(t, r) /\ (Doing(t, r)' <=> r = "export")
      /\ task'[t].over = {a} /\ task'[t].contents = secrets[a]
      /\ \A u \in Tasks \ {t} : /\ task'[u] = task[u]
                                /\ \A r \in Roles : Doing(u, r)' <=> Doing(u, r)
  BY <1>1, <1>2, BeginFrame DEF IInv
<1>4. TypeOK'
  BY <1>1, <1>3 DEF IInv, TypeOK, BeginExport
<1>5. Counted'
  <2>1. Exporting(a)' = Exporting(a) \cup {t} /\ t \notin Exporting(a)
    BY <1>3 DEF Exporting
  <2>2. \A b \in Accounts \ {a} : Exporting(b)' = Exporting(b)
    BY <1>3 DEF Exporting
  <2>3. IsFiniteSet(Exporting(a))
    BY FS_Subset, TasksAssumption DEF Exporting
  <2>4. Cardinality(Exporting(a)') = Cardinality(Exporting(a)) + 1
    BY <2>1, <2>3, FS_AddElement
  <2> QED BY <1>1, <2>2, <2>4 DEF IInv, TypeOK, Counted
<1>6. Recorded' /\ OneWriter'
  BY <1>1, <1>3 DEF IInv, Recorded, OneWriter, Writes, BeginExport
<1>7. ExportsUndisturbed'
  <2>1. \A u \in Tasks : Doing(u, "steam") \/ Doing(u, "mutation")
                          => a \notin task[u].over
    BY DEF IInv, Recorded, BeginExport
  <2> QED BY <1>3, <2>1 DEF IInv, ExportsUndisturbed
<1>8. ExportedBytesHold'
  BY <1>3 DEF IInv, ExportedBytesHold
<1> QED BY <1>4, <1>5, <1>6, <1>7, <1>8 DEF IInv

(* A release, first or repeated, uncounts exactly what was reserved.        *)
LEMMA ReleaseKeeps ==
  ASSUME IInv, NEW t \in Tasks, Release(t)
  PROVE  IInv'
<1> USE DEF Roles
<1>1. /\ task' \in [Tasks -> Task \cup {None}]
      /\ secrets' = secrets /\ unlocked' = unlocked
      /\ \A r \in Roles : ~Doing(t, r)'
      /\ \A u \in Tasks : /\ task'[u].over = task[u].over
                          /\ task'[u].contents = task[u].contents
      /\ \A u \in Tasks \ {t}, r \in Roles : Doing(u, r)' <=> Doing(u, r)
  BY ReleaseFrame DEF IInv
<1>2. OneWriter' /\ ExportsUndisturbed' /\ ExportedBytesHold'
  BY <1>1 DEF IInv, OneWriter, ExportsUndisturbed, ExportedBytesHold, Writes
<1>3. CASE Doing(t, "export")
  <2>1. accountSnapshots' =
          [a \in Accounts |-> IF a \in task[t].over THEN accountSnapshots[a] - 1
                                                    ELSE accountSnapshots[a]]
        /\ UNCHANGED <<steamOperation, vaultReplacement, accountMutation>>
    BY <1>3 DEF Release, Doing
  <2>2. \A a \in Accounts :
          IsFiniteSet(Exporting(a)) /\ Cardinality(Exporting(a)) \in Nat
    BY FS_Subset, FS_CardinalityType, TasksAssumption DEF Exporting
  <2>3. ASSUME NEW a \in Accounts
        PROVE  accountSnapshots'[a] = Cardinality(Exporting(a)')
    <3>1. Exporting(a)' = Exporting(a) \ {t}
      BY <1>1 DEF Exporting
    <3>2. t \in Exporting(a) <=> a \in task[t].over
      BY <1>3 DEF Exporting
    <3>3. Cardinality(Exporting(a) \ {t}) =
            IF t \in Exporting(a) THEN Cardinality(Exporting(a)) - 1
                                  ELSE Cardinality(Exporting(a))
      BY <2>2, FS_RemoveElement
    <3> QED BY <2>1, <3>1, <3>2, <3>3 DEF IInv, Counted
  <2>4. Counted'
    BY <2>3 DEF Counted
  <2>5. accountSnapshots' \in [Accounts -> Nat]
    <3>1. \A a \in Accounts : IsFiniteSet(Exporting(a)')
      BY FS_Subset, TasksAssumption, <1>1 DEF Exporting
    <3>2. \A a \in Accounts : accountSnapshots'[a] \in Nat
      BY <2>3, <3>1, FS_CardinalityType
    <3> QED BY <2>1, <3>2
  <2>6. TypeOK'
    BY <1>1, <2>1, <2>5 DEF IInv, TypeOK
  <2>7. Recorded'
    BY <1>1, <2>1 DEF IInv, Recorded
  <2> QED BY <1>2, <2>4, <2>6, <2>7 DEF IInv
<1>4. CASE ~Doing(t, "export")
  <2>1. UNCHANGED accountSnapshots
    BY <1>4 DEF Release, coordinator
  <2>2. Counted'
    BY <1>1, <1>4, <2>1, SameExporters DEF IInv, Counted
  <2>3. TypeOK'
    BY <1>1, <1>4 DEF IInv, TypeOK, Release, coordinator
  <2>4. Recorded'
    <3> SUFFICES ASSUME NEW u \in Tasks, u # t
                 PROVE  /\ Doing(u, "steam") =>
                             steamOperation' # None /\ task[u].over = {steamOperation'}
                        /\ Doing(u, "mutation") =>
                             accountMutation' # None /\ accountMutation' = task[u].over
                        /\ Doing(u, "replacement") => vaultReplacement'
      BY <1>1 DEF Recorded
    <3>1. CASE Doing(t, "steam") \/ Doing(t, "mutation") \/ Doing(t, "replacement")
      BY <3>1 DEF IInv, OneWriter, Writes
    <3>2. CASE ~(Doing(t, "steam") \/ Doing(t, "mutation") \/ Doing(t, "replacement"))
      BY <1>4, <3>2 DEF IInv, Recorded, Release, coordinator
    <3> QED BY <3>1, <3>2
  <2> QED BY <1>2, <2>2, <2>3, <2>4 DEF IInv
<1> QED BY <1>3, <1>4

(* A handler that released may end.                                        *)
LEMMA EndKeeps ==
  ASSUME IInv, NEW t \in Tasks, End(t)
  PROVE  IInv'
<1> USE DEF Roles
<1>1. /\ task' \in [Tasks -> Task \cup {None}]
      /\ \A r \in Roles : ~Doing(t, r) /\ ~Doing(t, r)'
      /\ \A u \in Tasks \ {t} : /\ task'[u] = task[u]
                                /\ \A r \in Roles : Doing(u, r)' <=> Doing(u, r)
  BY EndFrame DEF IInv
<1>2. UNCHANGED <<coordinator, secrets, unlocked>>
  BY DEF End
<1>3. TypeOK' /\ Recorded'
  BY <1>1, <1>2 DEF IInv, TypeOK, Recorded, coordinator
<1>4. Counted'
  BY <1>1, <1>2, SameExporters DEF IInv, Counted, coordinator
<1>5. OneWriter' /\ ExportsUndisturbed' /\ ExportedBytesHold'
  BY <1>1, <1>2 DEF IInv, OneWriter, ExportsUndisturbed, ExportedBytesHold, Writes
<1> QED BY <1>3, <1>4, <1>5 DEF IInv

(* An export that goes on changes no reservation.                          *)
LEMMA ProceedKeeps ==
  ASSUME IInv, NEW t \in Tasks, Running(t), NEW step \in Steps, Proceed(t, step)
  PROVE  IInv'
<1> USE DEF Roles
<1>1. /\ task' \in [Tasks -> Task \cup {None}]
      /\ \A u \in Tasks : /\ task'[u].over = task[u].over
                          /\ task'[u].contents = task[u].contents
      /\ \A u \in Tasks, r \in Roles : Doing(u, r)' <=> Doing(u, r)
  BY ProceedFrame DEF IInv
<1>2. UNCHANGED <<coordinator, secrets, unlocked>>
  BY DEF Proceed
<1>3. TypeOK' /\ Recorded'
  BY <1>1, <1>2 DEF IInv, TypeOK, Recorded, coordinator
<1>4. Counted'
  BY <1>1, <1>2, SameExporters DEF IInv, Counted, coordinator
<1>5. OneWriter' /\ ExportsUndisturbed' /\ ExportedBytesHold'
  BY <1>1, <1>2 DEF IInv, OneWriter, ExportsUndisturbed, ExportedBytesHold, Writes
<1> QED BY <1>3, <1>4, <1>5 DEF IInv

(* When neither the handlers nor the coordinator change, only the bytes    *)
(* under an export are at stake.                                           *)
LEMMA SecretsOnly ==
  ASSUME IInv, UNCHANGED <<coordinator, task>>, TypeOK', ExportedBytesHold'
  PROVE  IInv'
<1> USE DEF Roles
<1>1. \A u \in Tasks, r \in Roles : Doing(u, r)' <=> Doing(u, r)
  BY DEF Doing, Running
<1>2. Counted'
  BY <1>1, SameExporters DEF IInv, Counted, coordinator
<1>3. Recorded' /\ OneWriter' /\ ExportsUndisturbed'
  BY <1>1 DEF IInv, Recorded, OneWriter, ExportsUndisturbed, Writes, coordinator
<1> QED BY <1>2, <1>3 DEF IInv

(* A save of one account cannot reach one that is being exported.          *)
LEMMA CommitKeeps ==
  ASSUME IInv, NEW t \in Tasks, NEW a \in Accounts, Commit(t, a)
  PROVE  IInv'
<1>1. UNCHANGED <<coordinator, task>>
  BY DEF Commit
<1>2. TypeOK'
  BY DEF IInv, TypeOK, Commit, Rewritten, coordinator
<1>3. ExportedBytesHold'
  <2> SUFFICES ASSUME NEW u \in Tasks, Doing(u, "export")', NEW b \in task'[u].over
               PROVE  secrets'[b] = task'[u].contents
    BY DEF ExportedBytesHold
  <2>1. Doing(u, "export") /\ b \in task[u].over /\ task'[u].contents = task[u].contents
    BY <1>1 DEF Doing, Running
  <2>2. b \in Accounts
    BY <2>1, LiveTask DEF IInv, Doing, Task
  <2>3. accountSnapshots[b] > 0
    BY <2>1, <2>2, CounterMeaning DEF IInv
  <2>4. secrets'[b] = secrets[b]
    BY <2>2, <2>3 DEF Commit, SnapshotsUnchanged
  <2> QED BY <2>1, <2>4 DEF IInv, ExportedBytesHold
<1> QED BY <1>1, <1>2, <1>3, SecretsOnly

(* A replaced vault finds no export live.                                  *)
LEMMA ReplacementCommitKeeps ==
  ASSUME IInv, NEW t \in Tasks, ReplacementCommit(t)
  PROVE  IInv'
<1>1. UNCHANGED <<coordinator, task>>
  BY DEF ReplacementCommit
<1>2. TypeOK'
  BY DEF IInv, TypeOK, ReplacementCommit, coordinator
<1>3. ExportedBytesHold'
  <2> SUFFICES ASSUME NEW u \in Tasks, Doing(u, "export")', NEW b \in task'[u].over
               PROVE  FALSE
    BY DEF ExportedBytesHold
  <2>1. Doing(u, "export") /\ b \in task[u].over
    BY <1>1 DEF Doing, Running
  <2>2. b \in Accounts
    BY <2>1, LiveTask DEF IInv, Doing, Task
  <2>3. accountSnapshots[b] > 0
    BY <2>1, <2>2, CounterMeaning DEF IInv
  <2> QED BY <2>2, <2>3 DEF ReplacementCommit
<1> QED BY <1>1, <1>2, <1>3, SecretsOnly

(* Locking and unlocking touch no reservation.                             *)
LEMMA LockingKeeps ==
  ASSUME IInv, Lock \/ Unlock \/ UNCHANGED vars
  PROVE  IInv'
<1>1. UNCHANGED <<coordinator, task, secrets>> /\ unlocked' \in BOOLEAN
  BY DEF Lock, Unlock, vars, coordinator, IInv, TypeOK
<1>2. TypeOK'
  BY <1>1 DEF IInv, TypeOK, coordinator
<1>3. ExportedBytesHold'
  BY <1>1 DEF IInv, ExportedBytesHold, Doing, Running
<1> QED BY <1>1, <1>2, <1>3, SecretsOnly

(* A step of an export is one of these.                                    *)
LEMMA ExportStep ==
  ASSUME NEW t \in Tasks,
         ExportStaged(t) \/ ExportPublished(t) \/ ExportSaved(t) \/ ExportGivesUp(t)
  PROVE  Running(t) /\ \E step \in Steps : Proceed(t, step)
BY DEF ExportStaged, ExportPublished, ExportSaved, ExportGivesUp, AtStep, Doing, Steps

(* No handler runs in the initial states.                                  *)
LEMMA Initially == Init => IInv
<1> SUFFICES ASSUME Init PROVE IInv
  OBVIOUS
<1>1. TypeOK
  <2>1. {0, None} \subseteq 0..MaxVersion \cup {None}
    BY VersionAssumption
  <2>2. secrets \in [Accounts -> 0..MaxVersion \cup {None}]
    BY <2>1 DEF Init
  <2> QED BY <2>2 DEF Init, TypeOK
<1>2. \A t \in Tasks, role \in Roles : ~Doing(t, role)
  BY DEF Init, Doing, Running
<1>3. Counted
  <2>1. \A a \in Accounts : Exporting(a) = {}
    BY <1>2 DEF Exporting, Roles
  <2> QED BY <2>1, FS_EmptySet DEF Counted, Init
<1>4. Recorded /\ OneWriter /\ ExportsUndisturbed /\ ExportedBytesHold
  BY <1>2 DEF Recorded, OneWriter, ExportsUndisturbed, ExportedBytesHold, Writes, Roles
<1> QED BY <1>1, <1>3, <1>4 DEF IInv

(* Every step keeps the invariant.                                         *)
LEMMA Inductive == IInv /\ [Next]_vars => IInv'
<1> SUFFICES ASSUME IInv, [Next]_vars PROVE IInv'
  OBVIOUS
<1>1. CASE Lock \/ Unlock \/ UNCHANGED vars
  BY <1>1, LockingKeeps
<1>2. ASSUME NEW t \in Tasks, BeginReplacement(t) PROVE IInv'
  BY <1>2, BeginReplacementKeeps
<1>3. ASSUME NEW t \in Tasks, ReplacementCommit(t) PROVE IInv'
  BY <1>3, ReplacementCommitKeeps
<1>4. ASSUME NEW t \in Tasks, Release(t) PROVE IInv'
  BY <1>4, ReleaseKeeps
<1>5. ASSUME NEW t \in Tasks, End(t) PROVE IInv'
  BY <1>5, EndKeeps
<1>6. ASSUME NEW t \in Tasks,
             \/ ExportStaged(t) \/ ExportPublished(t) \/ ExportSaved(t)
             \/ ExportGivesUp(t)
      PROVE IInv'
  BY <1>6, ExportStep, ProceedKeeps
<1>7. ASSUME NEW t \in Tasks, NEW affected \in SUBSET Accounts,
             BeginMutation(t, affected)
      PROVE IInv'
  BY <1>7, BeginMutationKeeps
<1>8. ASSUME NEW t \in Tasks, NEW a \in Accounts, BeginSteam(t, a) PROVE IInv'
  BY <1>8, BeginSteamKeeps
<1>9. ASSUME NEW t \in Tasks, NEW a \in Accounts, BeginExport(t, a) PROVE IInv'
  BY <1>9, BeginExportKeeps
<1>10. ASSUME NEW t \in Tasks, NEW a \in Accounts,
              SteamCommit(t, a) \/ MutationCommit(t, a)
       PROVE IInv'
  BY <1>10, CommitKeeps DEF SteamCommit, MutationCommit
<1> QED
  BY <1>1, <1>2, <1>3, <1>4, <1>5, <1>6, <1>7, <1>8, <1>9, <1>10 DEF Next

(* The inductive invariant holds throughout.                               *)
THEOREM Invariant == Spec => []IInv
BY Initially, Inductive, PTL DEF Spec

-----------------------------------------------------------------------------
(* Every reachable state has the types the model declares.                 *)
THEOREM TypeCorrect == Spec => []TypeOK
BY Invariant, PTL DEF IInv

(* Steam requests, rewrites of accounts and vault replacements exclude one *)
(* another for any number of handlers and accounts.                        *)
THEOREM Exclusion == Spec => []OneWriter
BY Invariant, PTL DEF IInv

(* No export runs beside a request or a rewrite of the same account.       *)
THEOREM ExportExclusion == Spec => []ExportsUndisturbed
BY Invariant, PTL DEF IInv

(* What an export read stays what the vault holds until it has ended.      *)
THEOREM ExportStability == Spec => []ExportedBytesHold
BY Invariant, PTL DEF IInv

-----------------------------------------------------------------------------
(* Account rows and their recovery files.                                  *)

(* A file that no stop takes away: nothing is left to publish under its    *)
(* name that would be the same file.                                       *)
Secure(fs, ss, n) == n \in DOMAIN fs /\ (n \in DOMAIN ss => ~ss[n].out)

(* A row's recovery file has the name of its account and authenticator.    *)
FilesAreOwned ==
  \A a \in Imported : Rows!Stored(a) /\ row[a].file # None =>
    row[a].file.account = a /\ row[a].file.auth = Rows!Auth(row[a].of)

CurrentIsSecure ==
  \A a \in Imported : Rows!Stored(a) /\ row[a].state = "current" /\ row[a].exact =>
    Secure(files, stages, row[a].file) /\ files[row[a].file] = Rows!Body(row[a])

(* A file holds what was backed up, and the row that would replace it has  *)
(* the code too.                                                           *)
Holds(a, v, n) ==
  /\ n.account = a /\ n.auth = Rows!Auth(v) /\ files[n] # Torn
  /\ Rows!HasCode(v) =>
       Rows!HasCode(files[n].of) /\ (Rows!Stored(a) /\ row[a].file = n => Rows!HasCode(row[a].of))
SafeIsSecure ==
  \A a \in Imported, v \in Versions : <<a, v>> \in safe =>
    \E n \in DOMAIN files : Secure(files, stages, n) /\ Holds(a, v, n)

ApprovedIsAllowed == Direct \in allowed /\ approved \subseteq allowed

RowsInv ==
  /\ Rows!TypeOK /\ FilesAreOwned /\ CurrentIsSecure /\ SafeIsSecure
  /\ ApprovedIsAllowed /\ Rows!RoutesAreAgreed

-----------------------------------------------------------------------------
LEMMA VersionCodes ==
  ASSUME Rows!ConstantsFit, NEW v \in Versions, NEW code \in BOOLEAN
  PROVE  /\ Rows!Auth(v) \in Nat /\ Rows!HasCode(v) \in BOOLEAN
         /\ Rows!Auth(Rows!Version(Rows!Auth(v), code)) = Rows!Auth(v)
         /\ Rows!HasCode(Rows!Version(Rows!Auth(v), code)) <=> code
         /\ (code \/ ~Rows!HasCode(v)) => Rows!Version(Rows!Auth(v), code) \in Versions
<1>1. v \in Nat /\ Rows!Version(Rows!Auth(v), TRUE) \in Versions
  BY DEF Rows!ConstantsFit
<1>2. v \div 2 \in Nat /\ v = 2 * (v \div 2) + (v % 2) /\ v % 2 \in {0, 1}
  BY <1>1
<1>3. ASSUME NEW k \in Nat PROVE (2 * k + 1) \div 2 = k /\ (2 * k + 1) % 2 = 1
  OBVIOUS
<1>4. ASSUME NEW k \in Nat PROVE (2 * k + 0) \div 2 = k /\ (2 * k + 0) % 2 = 0
  OBVIOUS
<1>5. CASE code
  BY <1>1, <1>2, <1>3, <1>5 DEF Rows!Version, Rows!Auth, Rows!HasCode
<1>6. CASE ~code
  <2>1. Rows!Version(Rows!Auth(v), code) = 2 * (v \div 2) + 0
    BY <1>6 DEF Rows!Version, Rows!Auth
  <2>2. ~Rows!HasCode(v) => Rows!Version(Rows!Auth(v), code) = v
    BY <2>1, <1>2 DEF Rows!HasCode
  <2> QED BY <1>2, <1>4, <1>6, <2>1, <2>2 DEF Rows!Auth, Rows!HasCode
<1> QED BY <1>5, <1>6

(* What stands in the directory has its types.                             *)
Typed(fs, ss) ==
  /\ DOMAIN fs \subseteq Rows!Names /\ fs \in [DOMAIN fs -> Rows!Bodies \cup {Torn}]
  /\ DOMAIN ss \subseteq Rows!Names /\ ss \in [DOMAIN ss -> Rows!Staged]

(* An outcome that leaves every secure file secure and as it was, but for  *)
(* the file `own', which may have become `body'.                           *)
Spares(o, own, body) ==
  /\ Typed(o.files, o.stages) /\ o.cost \in Nat
  /\ \A n \in DOMAIN files : Secure(files, stages, n) =>
       /\ Secure(o.files, o.stages, n)
       /\ o.files[n] = files[n] \/ (n = own /\ o.files[n] = body)

LEMMA DurablyOK ==
  ASSUME Typed(files, stages), NEW n \in Rows!Names, NEW body \in Rows!Bodies,
         n \notin DOMAIN files, n \notin DOMAIN stages,
         NEW own, NEW new, NEW o \in Rows!Durably(n, body)
  PROVE  /\ Spares(o, own, new) /\ o.name \in {n, None}
         /\ o.name = n /\ n # None => Secure(o.files, o.stages, n)
<1> DEFINE put == Rows!With(files, n, body)
           torn == Rows!With(files, n, Torn)
           left == Rows!With(stages, n, Rows!Stage(body, FALSE))
           linked == Rows!With(stages, n, Rows!Stage(body, TRUE))
<1>1. Typed(put, stages) /\ Typed(files, stages)
  BY DEF Typed, Rows!With
<1>2. Typed(files, left) /\ Typed(put, linked) /\ Typed(torn, left)
  <2>1. \A out \in BOOLEAN : Rows!Stage(body, out) \in Rows!Staged
    BY DEF Rows!Stage, Rows!Staged
  <2>2. /\ left \in [DOMAIN left -> Rows!Staged] /\ DOMAIN left \subseteq Rows!Names
        /\ linked \in [DOMAIN linked -> Rows!Staged] /\ DOMAIN linked \subseteq Rows!Names
    BY <2>1 DEF Typed, Rows!With
  <2>3. torn \in [DOMAIN torn -> Rows!Bodies \cup {Torn}] /\ DOMAIN torn \subseteq Rows!Names
    BY DEF Typed, Rows!With
  <2> QED BY <1>1, <2>2, <2>3 DEF Typed
<1>3. \A m \in DOMAIN files : Secure(files, stages, m) =>
        /\ m # n
        /\ Secure(put, stages, m) /\ Secure(torn, stages, m) /\ put[m] = files[m] /\ torn[m] = files[m]
        /\ Secure(files, left, m) /\ Secure(put, linked, m) /\ Secure(torn, left, m)
  BY DEF Secure, Rows!With
<1>4. Secure(put, stages, n)
  BY DEF Secure, Rows!With
<1>5. o \in { Rows!Outcome(put, stages, n, 0),
              Rows!Outcome(files, stages, None, 1), Rows!Outcome(files, left, None, 1),
              Rows!Outcome(put, linked, None, 1), Rows!Outcome(torn, left, None, 2) }
  BY DEF Rows!Durably
<1> HIDE DEF put, torn, left, linked
<1>6. CASE o = Rows!Outcome(put, stages, n, 0)
  BY <1>6, <1>1, <1>3, <1>4 DEF Spares, Rows!Outcome
<1>7. CASE o = Rows!Outcome(files, stages, None, 1)
  BY <1>7, <1>1, <1>3 DEF Spares, Rows!Outcome
<1>8. CASE o = Rows!Outcome(files, left, None, 1)
  BY <1>8, <1>2, <1>3 DEF Spares, Rows!Outcome
<1>9. CASE o = Rows!Outcome(put, linked, None, 1)
  BY <1>9, <1>2, <1>3 DEF Spares, Rows!Outcome
<1>10. CASE o = Rows!Outcome(torn, left, None, 2)
  BY <1>10, <1>2, <1>3 DEF Spares, Rows!Outcome
<1> QED BY <1>5, <1>6, <1>7, <1>8, <1>9, <1>10

LEMMA ResumeOK ==
  ASSUME Typed(files, stages), NEW n \in Rows!Names, Rows!Resumable(n),
         NEW own, NEW new, NEW o \in Rows!Resume(n)
  PROVE  /\ Spares(o, own, new) /\ o.name \in {n, None}
         /\ o.name = n /\ n # None => Secure(o.files, o.stages, n)
         /\ ~Secure(files, stages, n)
<1> DEFINE put == Rows!With(files, n, stages[n].body)
           torn == Rows!With(files, n, Torn)
           kept == [stages EXCEPT ![n].out = TRUE]
           rest == Rows!Without(n)
<1>1. /\ n \in DOMAIN stages /\ stages[n] \in Rows!Staged /\ stages[n].body \in Rows!Bodies
      /\ n \in DOMAIN files => stages[n].out
  BY DEF Rows!Resumable, Rows!Published, Typed, Rows!Staged
<1>2. /\ put \in [DOMAIN put -> Rows!Bodies \cup {Torn}] /\ DOMAIN put \subseteq Rows!Names
      /\ torn \in [DOMAIN torn -> Rows!Bodies \cup {Torn}] /\ DOMAIN torn \subseteq Rows!Names
  BY <1>1 DEF Typed, Rows!With
<1>3. kept \in [DOMAIN stages -> Rows!Staged] /\ DOMAIN kept = DOMAIN stages
  BY <1>1 DEF Typed, Rows!Staged
<1>4. rest \in [DOMAIN stages \ {n} -> Rows!Staged] /\ DOMAIN rest = DOMAIN stages \ {n}
  BY DEF Typed, Rows!Without, Rows!Restrict
<1>5. /\ \A m \in DOMAIN stages \ {n} : kept[m] = stages[m] /\ rest[m] = stages[m]
  BY DEF Typed, Rows!Without, Rows!Restrict
<1>6. /\ Typed(put, rest) /\ Typed(files, stages) /\ Typed(put, kept) /\ Typed(torn, stages)
  BY <1>2, <1>3, <1>4 DEF Typed
<1>7. ~Secure(files, stages, n)
  BY <1>1 DEF Secure
<1>8. \A m \in DOMAIN files \ {n} : put[m] = files[m] /\ torn[m] = files[m]
  BY DEF Rows!With
<1>9. DOMAIN put = DOMAIN files \cup {n} /\ DOMAIN torn = DOMAIN files \cup {n}
  BY DEF Rows!With
<1>10. Secure(put, rest, n)
  BY <1>4, <1>9 DEF Secure
<1>11. o \in { Rows!Outcome(put, rest, n, 0), Rows!Outcome(files, stages, None, 1),
               Rows!Outcome(put, kept, None, 1), Rows!Outcome(torn, stages, None, 2) }
  BY DEF Rows!Resume
<1> HIDE DEF put, torn, kept, rest
<1>12. \A m \in DOMAIN files : Secure(files, stages, m) =>
         m # n /\ Secure(put, rest, m) /\ Secure(put, kept, m) /\ Secure(torn, stages, m)
  BY <1>3, <1>4, <1>5, <1>7, <1>9 DEF Secure
<1>13. CASE o = Rows!Outcome(put, rest, n, 0)
  BY <1>13, <1>6, <1>7, <1>8, <1>10, <1>12 DEF Spares, Rows!Outcome
<1>14. CASE o = Rows!Outcome(files, stages, None, 1)
  BY <1>14, <1>6, <1>7 DEF Spares, Rows!Outcome
<1>15. CASE o = Rows!Outcome(put, kept, None, 1)
  BY <1>15, <1>6, <1>7, <1>8, <1>12 DEF Spares, Rows!Outcome
<1>16. CASE o = Rows!Outcome(torn, stages, None, 2)
  BY <1>16, <1>6, <1>7, <1>8, <1>12 DEF Spares, Rows!Outcome
<1> QED BY <1>11, <1>13, <1>14, <1>15, <1>16

LEMMA UpdateOK ==
  ASSUME Typed(files, stages), NEW n \in DOMAIN files, NEW body \in Rows!Bodies,
         NEW o \in Rows!Update(n, body)
  PROVE  /\ Spares(o, n, body) /\ o.name \in {n, None}
         /\ o.name = n /\ n # None => Secure(o.files, o.stages, n) /\ o.files[n] = body
<1> DEFINE put == [files EXCEPT ![n] = body]
           others == [m \in DOMAIN stages |-> [stages[m] EXCEPT !.out = @ /\ m # n]]
<1>1. put \in [DOMAIN files -> Rows!Bodies \cup {Torn}] /\ DOMAIN put = DOMAIN files /\ put[n] = body
      /\ \A m \in DOMAIN files \ {n} : put[m] = files[m]
  BY DEF Typed
<1>2. \A m \in DOMAIN stages : /\ others[m] \in Rows!Staged
                               /\ others[m].out = (stages[m].out /\ m # n)
  <2> TAKE m \in DOMAIN stages
  <2>1. stages[m] \in Rows!Staged
    BY DEF Typed
  <2>2. others[m] = [stages[m] EXCEPT !.out = stages[m].out /\ m # n]
    BY Zenon
  <2>3. (stages[m].out /\ m # n) \in BOOLEAN
    BY <2>1 DEF Rows!Staged
  <2> HIDE DEF others
  <2> QED BY <2>1, <2>2, <2>3, Zenon DEF Rows!Staged
<1>3. DOMAIN others = DOMAIN stages /\ others \in [DOMAIN stages -> Rows!Staged]
  BY <1>2
<1>4. o \in { Rows!Outcome(put, others, n, 0), Rows!Outcome(files, stages, None, 1),
              Rows!Outcome(put, others, None, 1) }
  BY DEF Rows!Update
<1> HIDE DEF put, others
<1>5. Typed(put, others)
  BY <1>1, <1>3 DEF Typed
<1>6. Secure(put, others, n)
  BY <1>1, <1>2, <1>3 DEF Secure
<1>7. \A m \in DOMAIN files : Secure(files, stages, m) => Secure(put, others, m)
  BY <1>1, <1>2, <1>3 DEF Secure
<1>8. CASE o = Rows!Outcome(put, others, n, 0)
  BY <1>8, <1>1, <1>5, <1>6, <1>7 DEF Spares, Rows!Outcome
<1>9. CASE o = Rows!Outcome(files, stages, None, 1)
  BY <1>9 DEF Spares, Rows!Outcome
<1>10. CASE o = Rows!Outcome(put, others, None, 1)
  BY <1>10, <1>1, <1>5, <1>7 DEF Spares, Rows!Outcome
<1> QED BY <1>4, <1>8, <1>9, <1>10

(* The recovery file of a row has a name of its account and authenticator. *)
Owns(a, r) == r.file # None => r.file.account = a /\ r.file.auth = Rows!Auth(r.of)

LEMMA BodyIs ==
  ASSUME Rows!ConstantsFit, NEW r \in Rows!Row
  PROVE  Rows!Body(r) \in Rows!Bodies /\ Rows!Body(r).of = r.of /\ Rows!Body(r) # Torn
BY DEF Rows!Body, Rows!Bodies, Rows!Row, Rows!ConstantsFit

LEMMA NameIs ==
  ASSUME Rows!ConstantsFit, NEW a \in Imported, NEW v \in Versions, NEW copy \in Nat
  PROVE  /\ Rows!Name(a, v, copy) \in Rows!Names /\ Rows!Name(a, v, copy) # None
         /\ Rows!Name(a, v, copy).account = a /\ Rows!Name(a, v, copy).auth = Rows!Auth(v)
<1>1. Rows!Auth(v) \in Nat
  BY VersionCodes, TRUE \in BOOLEAN
<1>2. Rows!Name(a, v, copy) \in Rows!Names
  BY <1>1 DEF Rows!Name, Rows!Names
<1> QED BY <1>2 DEF Rows!Name, Rows!ConstantsFit

(* A publication under a name: an old one, of the row's, is replaced by    *)
(* what the row holds; a new one takes no secure file's place.             *)
LEMMA PublishingOK ==
  ASSUME Rows!ConstantsFit, Typed(files, stages), NEW a \in Imported, NEW r \in Rows!Row, Owns(a, r),
         NEW o \in Rows!Publishing(a, r)
  PROVE  /\ Spares(o, r.file, Rows!Body(r)) /\ o.name \in Rows!Names \cup {None}
         /\ o.name # None =>
              /\ o.name.account = a /\ o.name.auth = Rows!Auth(r.of)
              /\ Secure(o.files, o.stages, o.name)
              /\ o.name = r.file \/ ~Secure(files, stages, o.name)
<1>1. r.of \in Versions /\ Rows!Body(r) \in Rows!Bodies
  BY BodyIs DEF Rows!Row
<1> DEFINE n0 == Rows!Name(a, r.of, 0)
<1>2. n0 \in Rows!Names /\ n0 # None /\ n0.account = a /\ n0.auth = Rows!Auth(r.of)
  BY <1>1, NameIs
<1>3. CASE r.state = "stale" /\ Rows!Published(r.file)
  <2>1. o \in Rows!Update(r.file, Rows!Body(r)) /\ r.file \in DOMAIN files /\ r.file \in Rows!Names
    BY <1>3 DEF Rows!Publishing, Rows!Published, Typed
  <2>2. r.file # None
    BY <2>1 DEF Rows!ConstantsFit
  <2>3. /\ Spares(o, r.file, Rows!Body(r)) /\ o.name \in {r.file, None}
        /\ o.name = r.file => Secure(o.files, o.stages, r.file)
    BY <1>1, <2>1, <2>2, UpdateOK
  <2> QED BY <2>1, <2>2, <2>3 DEF Owns
<1>4. CASE ~(r.state = "stale" /\ Rows!Published(r.file)) /\ Rows!Resumable(n0)
  <2>1. o \in Rows!Resume(n0)
    BY <1>4 DEF Rows!Publishing, Rows!Write
  <2> QED BY <1>2, <1>4, <2>1, ResumeOK
<1>5. CASE ~(r.state = "stale" /\ Rows!Published(r.file)) /\ ~Rows!Resumable(n0)
  <2>1. PICK n \in Rows!Target(a, r.of) : o \in Rows!Durably(n, Rows!Body(r))
    BY <1>5 DEF Rows!Publishing, Rows!Write
  <2>2. /\ n \in Rows!Names /\ n # None /\ n.account = a /\ n.auth = Rows!Auth(r.of)
        /\ n \notin DOMAIN files /\ n \notin DOMAIN stages
    <3>1. CASE ~Rows!Published(n0)
      BY <1>2, <1>5, <2>1, <3>1 DEF Rows!Target, Rows!Resumable, Rows!Published
    <3>2. CASE Rows!Published(n0)
      <4>1. PICK c \in 1..MaxCopies : n = Rows!Name(a, r.of, c) /\ n \notin DOMAIN files \cup DOMAIN stages
        BY <2>1, <3>2 DEF Rows!Target
      <4> QED BY <1>1, <4>1, NameIs
    <3> QED BY <3>1, <3>2
  <2>3. /\ Spares(o, r.file, Rows!Body(r)) /\ o.name \in {n, None}
        /\ o.name = n => Secure(o.files, o.stages, n)
    BY <1>1, <2>1, <2>2, DurablyOK
  <2>4. ~Secure(files, stages, n)
    BY <2>2 DEF Secure
  <2> QED BY <2>2, <2>3, <2>4
<1> QED BY <1>3, <1>4, <1>5

-----------------------------------------------------------------------------
(* A row that takes the place of the account's row: it keeps the file only *)
(* with the authenticator, and then the code too.                          *)
Follows(a, r) ==
  /\ r \in Rows!Row /\ r.state # "current" /\ Owns(a, r)
  /\ r.file # None =>
       /\ Rows!Stored(a) /\ r.file = row[a].file
       /\ Rows!HasCode(row[a].of) => Rows!HasCode(r.of)

LEMMA TypesOf ==
  ASSUME Rows!TypeOK
  PROVE  /\ Typed(files, stages)
         /\ \A a \in Imported : Rows!Stored(a) => row[a] \in Rows!Row
BY DEF Rows!TypeOK, Typed, Rows!Stored

(* The invariant of the rows and their recovery files.                     *)
RowsFit ==
  /\ row \in [Imported -> Rows!Row \cup {None}] /\ Typed(files, stages)
  /\ faults \in 0..MaxFaults /\ safe \subseteq Imported \X Versions
  /\ FilesAreOwned /\ CurrentIsSecure /\ SafeIsSecure

(* A step of one account's row and recovery files.                         *)
Changed(a, route) ==
  /\ RowsFit' /\ (row'[a] # None => row'[a].route = route)
  /\ \A b \in Imported \ {a} : row'[b] = row[b]

LEMMA FinishesOK ==
  ASSUME Rows!ConstantsFit, RowsInv, NEW a \in Imported, NEW r, Follows(a, r), Rows!Finishes(a, r)
  PROVE  Changed(a, r.route)
<1> DEFINE exact(o) == o.files[o.name] = Rows!Body(r)
           done(o, saved) == saved /\ o.name # None
           new(o, saved) == IF ~done(o, saved) THEN r
                            ELSE [r EXCEPT !.state = "current", !.file = o.name, !.exact = exact(o)]
<1>1. PICK o \in Rows!Publishing(a, r), saved \in BOOLEAN :
        /\ files' = o.files /\ stages' = o.stages
        /\ row' = [row EXCEPT ![a] = new(o, saved)]
        /\ safe' = IF ~done(o, saved) THEN safe
                   ELSE IF exact(o) THEN safe \cup {<<a, r.of>>}
                   ELSE {w \in safe : w[1] # a \/ Rows!Auth(w[2]) # Rows!Auth(r.of)}
        /\ faults + (o.cost + IF saved \/ o.name = None THEN 0 ELSE 1) <= MaxFaults
        /\ faults' = faults + (o.cost + IF saved \/ o.name = None THEN 0 ELSE 1)
  BY DEF Rows!Finishes
<1>2. Typed(files, stages) /\ Rows!TypeOK /\ r \in Rows!Row /\ r.of \in Versions
  BY TypesOf DEF RowsInv, Follows, Rows!Row
<1>3. /\ Spares(o, r.file, Rows!Body(r)) /\ o.name \in Rows!Names \cup {None}
      /\ o.name # None =>
           /\ o.name.account = a /\ o.name.auth = Rows!Auth(r.of)
           /\ Secure(o.files, o.stages, o.name)
           /\ o.name = r.file \/ ~Secure(files, stages, o.name)
  BY <1>1, <1>2, PublishingOK DEF Follows
<1>4. Typed(files, stages)' /\ o.cost \in Nat
  BY <1>1, <1>3 DEF Spares, Typed
<1>5. /\ new(o, saved) \in Rows!Row /\ new(o, saved).of = r.of /\ new(o, saved).route = r.route
      /\ ~done(o, saved) => new(o, saved) = r
      /\ done(o, saved) => /\ new(o, saved).file = o.name /\ o.name # None
                           /\ new(o, saved).exact = exact(o)
  <2>1. exact(o) \in BOOLEAN
    OBVIOUS
  <2>2. CASE done(o, saved)
    <3> HIDE DEF exact
    <3> QED BY <1>2, <1>3, <2>1, <2>2 DEF Rows!Row
  <2> QED BY <1>2, <2>2
<1> DEFINE now == new(o, saved)
           ended == done(o, saved)
           same == exact(o)
<1>6. /\ row' = [row EXCEPT ![a] = now]
      /\ safe' = IF ~ended THEN safe
                 ELSE IF same THEN safe \cup {<<a, r.of>>}
                 ELSE {w \in safe : w[1] # a \/ Rows!Auth(w[2]) # Rows!Auth(r.of)}
      /\ now \in Rows!Row /\ now.of = r.of /\ now.route = r.route
      /\ ~ended => now = r
      /\ ended => now.file = o.name /\ o.name # None /\ now.exact = same
      /\ same = (o.files[o.name] = Rows!Body(r))
  BY <1>1, <1>5
<1> HIDE DEF new, done, exact, now, ended, same
<1>7. /\ row' \in [Imported -> Rows!Row \cup {None}] /\ row'[a] = now
      /\ \A b \in Imported \ {a} : row'[b] = row[b]
  BY <1>2, <1>6 DEF Rows!TypeOK
<1>8. faults' \in 0..MaxFaults
  BY <1>1, <1>2, <1>4 DEF Rows!TypeOK, Rows!ConstantsFit
<1>9. safe' \subseteq Imported \X Versions
  BY <1>2, <1>6 DEF Rows!TypeOK
<1>11. FilesAreOwned'
  <2> SUFFICES ASSUME NEW b \in Imported, row'[b] # None, row'[b].file # None
               PROVE  row'[b].file.account = b /\ row'[b].file.auth = Rows!Auth(row'[b].of)
    BY DEF FilesAreOwned, Rows!Stored
  <2>1. CASE b # a
    BY <1>7, <2>1 DEF RowsInv, FilesAreOwned, Rows!Stored
  <2>2. CASE b = a
    BY <1>3, <1>6, <1>7, <2>2 DEF Follows, Owns
  <2> QED BY <2>1, <2>2
<1>12. CurrentIsSecure'
  <2> SUFFICES ASSUME NEW b \in Imported, row'[b] # None, row'[b].state = "current", row'[b].exact
               PROVE  Secure(o.files, o.stages, row'[b].file) /\ o.files[row'[b].file] = Rows!Body(row'[b])
    BY <1>1 DEF CurrentIsSecure, Rows!Stored
  <2>1. CASE b # a
    <3> DEFINE n == row[b].file
    <3>1. /\ row'[b] = row[b] /\ Rows!Stored(b) /\ Secure(files, stages, n)
          /\ files[n] = Rows!Body(row[b]) /\ n \in DOMAIN files
      BY <1>7, <2>1 DEF RowsInv, CurrentIsSecure, Rows!Stored, Secure
    <3>2. n # None
      BY <1>2, <3>1 DEF Typed, Rows!ConstantsFit
    <3>3. n # r.file
      BY <2>1, <3>1, <3>2 DEF RowsInv, FilesAreOwned, Follows, Owns
    <3> QED BY <1>3, <3>1, <3>3 DEF Spares
  <2>2. CASE b = a
    <3>1. ended
      BY <1>6, <1>7, <2>2 DEF Follows
    <3>2. Rows!Body(now) = Rows!Body(r)
      BY <1>6 DEF Rows!Body
    <3> QED BY <1>3, <1>6, <1>7, <2>2, <3>1, <3>2
  <2> QED BY <2>1, <2>2
<1>13. SafeIsSecure'
  <2> SUFFICES ASSUME NEW b \in Imported, NEW v \in Versions, <<b, v>> \in safe'
               PROVE  \E n \in DOMAIN files' : Secure(files, stages, n)' /\ Holds(b, v, n)'
    BY DEF SafeIsSecure
  <2>0. SUFFICES \E n \in DOMAIN o.files :
                   /\ Secure(o.files, o.stages, n)
                   /\ n.account = b /\ n.auth = Rows!Auth(v) /\ o.files[n] # Torn
                   /\ Rows!HasCode(v) =>
                        /\ Rows!HasCode(o.files[n].of)
                        /\ row'[b] # None /\ row'[b].file = n => Rows!HasCode(row'[b].of)
    <3>1. files' = o.files /\ stages' = o.stages
      BY <1>1
    <3> QED BY <3>1 DEF Secure, Holds, Rows!Stored
  <2>1. CASE <<b, v>> \in safe
    <3>1. PICK n \in DOMAIN files : Secure(files, stages, n) /\ Holds(b, v, n)
      BY <2>1 DEF RowsInv, SafeIsSecure
    <3>2. n # None
      BY <1>2 DEF Typed, Rows!ConstantsFit
    <3>3. /\ Secure(o.files, o.stages, n)
          /\ o.files[n] = files[n] \/ (n = r.file /\ o.files[n] = Rows!Body(r))
      BY <1>3, <3>1 DEF Spares
    <3>4. Rows!HasCode(v) => (row'[b] # None /\ row'[b].file = n => Rows!HasCode(row'[b].of))
      <4>1. CASE b # a
        BY <1>7, <3>1, <4>1 DEF Holds, Rows!Stored
      <4>2. CASE b = a
        <5>1. now.file = n => n = r.file
          BY <1>3, <1>6, <3>1
        <5> QED BY <1>6, <1>7, <3>1, <3>2, <4>2, <5>1 DEF Holds, Follows
      <4> QED BY <4>1, <4>2
    <3>5. n = r.file => b = a
      BY <3>1, <3>2 DEF Holds, Follows, Owns
    <3>6. n = r.file /\ Rows!HasCode(v) => Rows!HasCode(Rows!Body(r).of)
      BY <1>2, <3>1, <3>2, <3>5, BodyIs DEF Holds, Follows
    <3>7. o.files[n] # Torn /\ (Rows!HasCode(v) => Rows!HasCode(o.files[n].of))
      BY <1>2, <3>1, <3>3, <3>6, BodyIs DEF Holds
    <3>8. n \in DOMAIN o.files
      BY <3>3 DEF Secure
    <3> QED BY <3>1, <3>3, <3>4, <3>7, <3>8 DEF Holds
  <2>2. CASE <<b, v>> \notin safe
    <3>1. ended /\ same /\ b = a /\ v = r.of
      BY <1>6, <2>2
    <3>2. /\ o.name \in DOMAIN o.files /\ Secure(o.files, o.stages, o.name)
          /\ o.name.account = a /\ o.name.auth = Rows!Auth(r.of) /\ o.files[o.name] = Rows!Body(r)
      BY <1>3, <1>6, <3>1 DEF Secure
    <3>3. Rows!Body(r) # Torn /\ Rows!Body(r).of = r.of
      BY <1>2, BodyIs
    <3>4. row'[a].of = r.of
      BY <1>6, <1>7
    <3> QED BY <3>1, <3>2, <3>3, <3>4
  <2> QED BY <2>1, <2>2
<1> QED BY <1>4, <1>6, <1>7, <1>8, <1>9, <1>11, <1>12, <1>13 DEF Changed, RowsFit

-----------------------------------------------------------------------------
(* A row as a change leaves it, before it is marked.                       *)
Edits(a, s) ==
  /\ s \in Rows!Row
  /\ IF Rows!Stored(a)
     THEN /\ s.file = row[a].file
          /\ Rows!SameAuth(s, row[a]) /\ Rows!HasCode(row[a].of) => Rows!HasCode(s.of)
     ELSE s.file = None

LEMMA MarkedOK ==
  ASSUME Rows!ConstantsFit, RowsInv, NEW a \in Imported, NEW s, Edits(a, s)
  PROVE  Follows(a, Rows!Marked(s, row[a])) /\ Rows!Marked(s, row[a]).route = s.route
<1>1. s \in Rows!Row /\ (Rows!Stored(a) => row[a] \in Rows!Row)
  BY TypesOf DEF Edits, RowsInv
<1>2. Rows!Stored(a) /\ row[a].file # None =>
        row[a].file.account = a /\ row[a].file.auth = Rows!Auth(row[a].of)
  BY DEF RowsInv, FilesAreOwned
<1>3. CASE row[a] # None /\ Rows!SameAuth(s, row[a]) /\ s.file # None
  <2> DEFINE m == [s EXCEPT !.state = "stale", !.exact = FALSE]
  <2>1. m \in Rows!Row /\ m.state = "stale" /\ m.file = s.file /\ m.of = s.of /\ m.route = s.route
    BY <1>1 DEF Rows!Row
  <2>2. Rows!Marked(s, row[a]) = m
    BY <1>3 DEF Rows!Marked
  <2> HIDE DEF m
  <2> QED BY <1>2, <1>3, <2>1, <2>2 DEF Edits, Follows, Owns, Rows!Stored, Rows!SameAuth
<1>4. CASE ~(row[a] # None /\ Rows!SameAuth(s, row[a]) /\ s.file # None)
  <2> DEFINE m == [s EXCEPT !.state = "pending", !.file = None, !.exact = FALSE]
  <2>1. m \in Rows!Row /\ m.state = "pending" /\ m.file = None /\ m.route = s.route
    BY <1>1 DEF Rows!Row
  <2>2. Rows!Marked(s, row[a]) = m
    BY <1>4 DEF Rows!Marked, Rows!Pending
  <2> HIDE DEF m
  <2> QED BY <2>1, <2>2 DEF Follows, Owns
<1> QED BY <1>3, <1>4

LEMMA IncomingOK ==
  ASSUME Rows!ConstantsFit, RowsInv, NEW a \in Imported, NEW v \in Versions, NEW route \in Rows!Routes
  PROVE  Edits(a, Rows!Incoming(a, v, route)) /\ Rows!Incoming(a, v, route).route = route
<1>1. CASE ~Rows!Stored(a)
  BY <1>1 DEF Rows!Incoming, Edits, Rows!Row
<1>2. CASE Rows!Stored(a)
  <2>1. row[a] \in Rows!Row /\ row[a].of \in Versions
    BY <1>2, TypesOf DEF RowsInv, Rows!Row
  <2> DEFINE code == Rows!HasCode(v) \/ Rows!HasCode(row[a].of)
             w == Rows!Version(Rows!Auth(v), code)
             m == [row[a] EXCEPT !.of = w, !.route = route]
  <2>2. code \in BOOLEAN /\ (code \/ ~Rows!HasCode(v))
    OBVIOUS
  <2>3. w \in Versions /\ (Rows!HasCode(w) <=> code)
    <3> HIDE DEF code
    <3> QED BY <2>2, VersionCodes
  <2>4. Rows!Incoming(a, v, route) = m
    BY <1>2 DEF Rows!Incoming
  <2> HIDE DEF w
  <2>5. m \in Rows!Row /\ m.of = w /\ m.file = row[a].file /\ m.route = route
    BY <2>1, <2>3 DEF Rows!Row
  <2> HIDE DEF m
  <2> QED BY <1>2, <2>3, <2>4, <2>5 DEF Edits
<1> QED BY <1>1, <1>2

(* A row that stays as it is, or is marked and no more.                    *)
LEMMA UnfinishedOK ==
  ASSUME Rows!ConstantsFit, RowsInv, NEW a \in Imported, NEW r, Rows!Unfinished(a, r),
         Follows(a, r) \/ (Rows!Stored(a) /\ r = row[a])
  PROVE  Changed(a, r.route)
<1>1. /\ row' = [row EXCEPT ![a] = r] /\ files' = files /\ stages' = stages
      /\ faults' = faults /\ safe' = safe
  BY DEF Rows!Unfinished, Rows!disk
<1>2. Typed(files, stages) /\ Rows!TypeOK /\ r \in Rows!Row
  BY TypesOf DEF RowsInv, Follows
<1>3. /\ row' \in [Imported -> Rows!Row \cup {None}] /\ row'[a] = r
      /\ \A b \in Imported \ {a} : row'[b] = row[b]
  BY <1>1, <1>2 DEF Rows!TypeOK
<1>4. CASE r = row[a]
  <2>1. row' = row
    BY <1>1, <1>2, <1>4 DEF Rows!TypeOK
  <2> QED BY <1>1, <1>2, <1>3, <1>4, <2>1
          DEF Changed, RowsFit, RowsInv, Rows!TypeOK, Typed, Secure, FilesAreOwned, CurrentIsSecure, SafeIsSecure,
              Holds, Rows!Stored
<1>5. CASE Follows(a, r)
  <2>1. FilesAreOwned'
    BY <1>1, <1>3, <1>5 DEF RowsInv, FilesAreOwned, Rows!Stored, Follows, Owns
  <2>2. CurrentIsSecure'
    BY <1>1, <1>3, <1>5 DEF RowsInv, CurrentIsSecure, Secure, Rows!Stored, Follows
  <2>3. SafeIsSecure'
    <3> SUFFICES ASSUME NEW b \in Imported, NEW v \in Versions, <<b, v>> \in safe
                 PROVE  \E n \in DOMAIN files : Secure(files, stages, n) /\ Holds(b, v, n)'
      BY <1>1 DEF SafeIsSecure, Secure
    <3>1. PICK n \in DOMAIN files : Secure(files, stages, n) /\ Holds(b, v, n)
      BY DEF RowsInv, SafeIsSecure
    <3>2. n # None
      BY <1>2 DEF Typed, Rows!ConstantsFit
    <3> QED BY <1>1, <1>3, <1>5, <3>1, <3>2 DEF Holds, Rows!Stored, Follows
  <2> QED BY <1>1, <1>2, <1>3, <2>1, <2>2, <2>3 DEF Changed, RowsFit, Rows!TypeOK, Typed
<1> QED BY <1>4, <1>5

(* What a step allows is what the rows need.                               *)
LEMMA AllowedOK ==
  ASSUME RowsInv, NEW more \in SUBSET Rows!Routes, Rows!Allow(more),
         \A a \in Imported : row'[a] # None => row'[a].route \in allowed \cup more,
         approved' \subseteq allowed \cup more
  PROVE  allowed' \subseteq Rows!Routes /\ ApprovedIsAllowed' /\ Rows!RoutesAreAgreed'
<1>1. allowed' = (allowed \cup more) \cap ({Direct} \cup approved' \cup Rows!RoutesIn(row'))
  BY DEF Rows!Allow
<1>2. allowed' \subseteq Rows!Routes
  BY <1>1 DEF RowsInv, Rows!TypeOK
<1>3. ApprovedIsAllowed'
  BY <1>1 DEF RowsInv, ApprovedIsAllowed
<1>4. Rows!RoutesAreAgreed'
  <2> SUFFICES ASSUME NEW b \in Imported, row'[b] # None
               PROVE  row'[b].route \in allowed'
    BY DEF Rows!RoutesAreAgreed, Rows!Stored
  <2>1. row'[b].route \in Rows!RoutesIn(row')
    BY DEF Rows!RoutesIn
  <2> QED BY <1>1, <2>1
<1> QED BY <1>2, <1>3, <1>4

LEMMA ChangedAllowed ==
  ASSUME RowsInv, NEW a \in Imported, NEW route, Changed(a, route), NEW more,
         route \in allowed \cup more
  PROVE  \A b \in Imported : row'[b] # None => row'[b].route \in allowed \cup more
BY DEF Changed, RowsInv, Rows!RoutesAreAgreed, Rows!Stored

LEMMA RowsStay ==
  ASSUME RowsInv, UNCHANGED <<row, files, stages, faults, safe>>
  PROVE  RowsFit' /\ \A a \in Imported : row'[a] # None => row'[a].route \in allowed
BY DEF RowsInv, RowsFit, Rows!TypeOK, Typed, Secure, FilesAreOwned, CurrentIsSecure, SafeIsSecure,
       Holds, Rows!Stored, Rows!RoutesAreAgreed

(* The invariant from its parts.                                           *)
Asking ==
  /\ open \in BOOLEAN /\ approved \subseteq Proxies
  /\ asked \in Rows!Question \cup {None}
  /\ asked # None /\ asked.own => asked.route \in Proxies

LEMMA Together ==
  ASSUME RowsFit', Asking', allowed' \subseteq Rows!Routes, ApprovedIsAllowed', Rows!RoutesAreAgreed'
  PROVE  RowsInv'
BY DEF RowsInv, RowsFit, Asking, Rows!TypeOK, Typed

-----------------------------------------------------------------------------
LEMMA TakeOK ==
  ASSUME Rows!ConstantsFit, RowsInv, NEW a \in Imported, NEW v \in Versions, NEW route \in Rows!Routes,
         NEW replace, Rows!Take(a, v, route, replace)
  PROVE  Changed(a, Rows!RouteAfter(a, route)) /\ open' \in BOOLEAN
<1> DEFINE rt == Rows!RouteAfter(a, route)
           r == Rows!Incoming(a, v, rt)
<1>1. rt \in Rows!Routes
  <2>1. Rows!Stored(a) => row[a].route \in Rows!Routes
    BY TypesOf DEF RowsInv, Rows!Row
  <2> QED BY <2>1 DEF Rows!RouteAfter
<1> HIDE DEF rt
<1>2. Edits(a, r) /\ r.route = rt
  BY <1>1, IncomingOK
<1>3. /\ IF r = row[a] THEN Rows!Unfinished(a, r) ELSE Rows!Finishes(a, Rows!Marked(r, row[a]))
      /\ open' = open
  BY DEF Rows!Take, rt
<1> HIDE DEF r
<1>4. CASE r = row[a]
  <2>1. Rows!Stored(a)
    BY <1>2, <1>4 DEF Edits, Rows!Stored, Rows!ConstantsFit
  <2>2. Changed(a, r.route)
    BY <1>3, <1>4, <2>1, UnfinishedOK
  <2> QED BY <1>2, <1>3, <2>2 DEF rt, RowsInv, Rows!TypeOK
<1>5. CASE r # row[a]
  <2>1. Follows(a, Rows!Marked(r, row[a])) /\ Rows!Marked(r, row[a]).route = rt
    BY <1>2, MarkedOK
  <2>2. Changed(a, Rows!Marked(r, row[a]).route)
    BY <1>3, <1>5, <2>1, FinishesOK
  <2> QED BY <1>3, <2>1, <2>2 DEF rt, RowsInv, Rows!TypeOK
<1> QED BY <1>4, <1>5

LEMMA RouteTaken ==
  ASSUME RowsInv, NEW a \in Imported, NEW route, NEW more, route \in allowed \cup more
  PROVE  Rows!RouteAfter(a, route) \in allowed \cup more
BY DEF Rows!RouteAfter, RowsInv, Rows!RoutesAreAgreed

LEMMA ReroutesOK ==
  ASSUME Rows!ConstantsFit, RowsInv, NEW a \in Imported, NEW route \in Rows!Routes, Rows!Reroutes(a, route)
  PROVE  Changed(a, route) /\ open' \in BOOLEAN
<1> DEFINE s == [row[a] EXCEPT !.route = route]
<1>1. Rows!Stored(a) /\ open' = open
      /\ (Rows!Finishes(a, Rows!Marked(s, row[a])) \/ Rows!Unfinished(a, Rows!Marked(s, row[a])))
  BY DEF Rows!Reroutes
<1>2. Edits(a, s) /\ s.route = route
  BY <1>1, TypesOf DEF Edits, RowsInv, Rows!Row
<1> HIDE DEF s
<1>3. Follows(a, Rows!Marked(s, row[a])) /\ Rows!Marked(s, row[a]).route = route
  BY <1>2, MarkedOK
<1>4. CASE Rows!Finishes(a, Rows!Marked(s, row[a]))
  <2>1. Changed(a, Rows!Marked(s, row[a]).route)
    BY <1>3, <1>4, FinishesOK
  <2> QED BY <1>1, <1>3, <2>1 DEF RowsInv, Rows!TypeOK
<1>5. CASE Rows!Unfinished(a, Rows!Marked(s, row[a]))
  <2>1. Changed(a, Rows!Marked(s, row[a]).route)
    BY <1>3, <1>5, UnfinishedOK
  <2> QED BY <1>1, <1>3, <2>1 DEF RowsInv, Rows!TypeOK
<1> QED BY <1>1, <1>4, <1>5

(* What the user agreed to, if the question still counted.                 *)
LEMMA AgreedOK ==
  ASSUME RowsInv, Rows!Agreed, Rows!AllowAsked
  PROVE  /\ asked # None /\ asked \in Rows!Question /\ asked.route \in Rows!Routes
         /\ asked' = None /\ approved' \subseteq Proxies
         /\ approved' \subseteq allowed \cup {asked.route} /\ Rows!Allow({asked.route})
<1>1. asked # None /\ ~asked.late /\ asked' = None
      /\ approved' = IF asked.own THEN approved \cup {asked.route} ELSE approved
  BY DEF Rows!Agreed, Rows!Counts
<1>2. asked \in Rows!Question /\ asked.route \in Rows!Routes
  BY <1>1 DEF RowsInv, Rows!TypeOK, Rows!Question
<1> QED BY <1>1, <1>2 DEF RowsInv, Rows!TypeOK, ApprovedIsAllowed, Rows!AllowAsked

LEMMA ImportKeeps ==
  ASSUME Rows!ConstantsFit, RowsInv, NEW a \in Imported, Rows!Import(a)
  PROVE  RowsInv'
<1>1. PICK v \in Versions, route \in Rows!Routes :
        /\ ~Rows!MustAsk(a, route, TRUE) /\ Rows!Take(a, v, route, TRUE)
        /\ approved' = approved /\ asked' = asked /\ Rows!Allow({})
  BY DEF Rows!Import
<1>2. Changed(a, Rows!RouteAfter(a, route)) /\ open' \in BOOLEAN
  BY <1>1, TakeOK
<1>3. route \in allowed
  BY <1>1 DEF Rows!MustAsk, Rows!Duplicate, RowsInv, ApprovedIsAllowed, Rows!RoutesAreAgreed
<1>4. Rows!RouteAfter(a, route) \in allowed \cup {}
  BY <1>3, RouteTaken
<1>5. allowed' \subseteq Rows!Routes /\ ApprovedIsAllowed' /\ Rows!RoutesAreAgreed'
  BY <1>1, <1>2, <1>4, ChangedAllowed, AllowedOK DEF RowsInv, ApprovedIsAllowed
<1>6. RowsFit' /\ Asking'
  BY <1>1, <1>2 DEF Changed, Asking, RowsInv, Rows!TypeOK
<1> QED BY <1>5, <1>6, Together

LEMMA ImportAgreedKeeps ==
  ASSUME Rows!ConstantsFit, RowsInv, NEW a \in Imported, Rows!ImportAgreed(a)
  PROVE  RowsInv'
<1>1. /\ asked.of # None /\ Rows!Agreed /\ Rows!AllowAsked
      /\ Rows!Take(a, asked.of, asked.route, asked.replace)
  BY DEF Rows!ImportAgreed
<1>2. /\ asked \in Rows!Question /\ asked.route \in Rows!Routes
      /\ asked' = None /\ approved' \subseteq Proxies
      /\ approved' \subseteq allowed \cup {asked.route} /\ Rows!Allow({asked.route})
  BY <1>1, AgreedOK
<1>3. asked.of \in Versions
  BY <1>1, <1>2 DEF Rows!Question
<1>4. Changed(a, Rows!RouteAfter(a, asked.route)) /\ open' \in BOOLEAN
  BY <1>1, <1>2, <1>3, TakeOK
<1>5. Rows!RouteAfter(a, asked.route) \in allowed \cup {asked.route}
  BY RouteTaken
<1>6. allowed' \subseteq Rows!Routes /\ ApprovedIsAllowed' /\ Rows!RoutesAreAgreed'
  BY <1>2, <1>4, <1>5, ChangedAllowed, AllowedOK
<1>7. RowsFit' /\ Asking'
  BY <1>2, <1>4 DEF Changed, Asking
<1> QED BY <1>6, <1>7, Together

LEMMA RouteSavedKeeps ==
  ASSUME Rows!ConstantsFit, RowsInv, NEW a \in Imported, NEW r \in Rows!Routes, Rows!RouteSaved(a, r)
  PROVE  RowsInv'
<1>1. /\ r = Direct \/ r \in approved
      /\ Rows!Reroutes(a, r) /\ approved' = approved /\ asked' = asked /\ Rows!Allow({})
  BY DEF Rows!RouteSaved
<1>2. Changed(a, r) /\ open' \in BOOLEAN
  BY <1>1, ReroutesOK
<1>3. r \in allowed \cup {}
  BY <1>1 DEF RowsInv, ApprovedIsAllowed
<1>4. allowed' \subseteq Rows!Routes /\ ApprovedIsAllowed' /\ Rows!RoutesAreAgreed'
  BY <1>1, <1>2, <1>3, ChangedAllowed, AllowedOK DEF RowsInv, ApprovedIsAllowed
<1>5. RowsFit' /\ Asking'
  BY <1>1, <1>2 DEF Changed, Asking, RowsInv, Rows!TypeOK
<1> QED BY <1>4, <1>5, Together

LEMMA RouteAgreedKeeps ==
  ASSUME Rows!ConstantsFit, RowsInv, Rows!RouteAgreed
  PROVE  RowsInv'
<1>1. Rows!Agreed /\ Rows!Reroutes(asked.account, asked.route) /\ Rows!AllowAsked
  BY DEF Rows!RouteAgreed
<1>2. /\ asked \in Rows!Question /\ asked.route \in Rows!Routes
      /\ asked' = None /\ approved' \subseteq Proxies
      /\ approved' \subseteq allowed \cup {asked.route} /\ Rows!Allow({asked.route})
  BY <1>1, AgreedOK
<1>3. asked.account \in Imported
  BY <1>2 DEF Rows!Question
<1>4. Changed(asked.account, asked.route) /\ open' \in BOOLEAN
  BY <1>1, <1>2, <1>3, ReroutesOK
<1>5. allowed' \subseteq Rows!Routes /\ ApprovedIsAllowed' /\ Rows!RoutesAreAgreed'
  BY <1>2, <1>3, <1>4, ChangedAllowed, AllowedOK
<1>6. RowsFit' /\ Asking'
  BY <1>2, <1>4 DEF Changed, Asking
<1> QED BY <1>5, <1>6, Together

LEMMA AgreedInVainKeeps ==
  ASSUME RowsInv, Rows!AgreedInVain
  PROVE  RowsInv'
<1>1. /\ asked.route \in Rows!Routes /\ asked' = None /\ approved' \subseteq Proxies
      /\ approved' \subseteq allowed \cup {asked.route} /\ Rows!Allow({asked.route})
      /\ open' = open
  BY AgreedOK DEF Rows!AgreedInVain
<1>2. RowsFit' /\ \A a \in Imported : row'[a] # None => row'[a].route \in allowed
  BY RowsStay DEF Rows!AgreedInVain, Rows!disk
<1>3. allowed' \subseteq Rows!Routes /\ ApprovedIsAllowed' /\ Rows!RoutesAreAgreed'
  BY <1>1, <1>2, AllowedOK
<1>4. Asking'
  BY <1>1 DEF Asking, RowsInv, Rows!TypeOK
<1> QED BY <1>2, <1>3, <1>4, Together

LEMMA RemoveKeeps ==
  ASSUME Rows!ConstantsFit, RowsInv, NEW a \in Imported, Rows!Remove(a)
  PROVE  RowsInv'
<1>1. /\ row' = [row EXCEPT ![a] = None] /\ Rows!Allow({})
      /\ UNCHANGED <<open, files, stages, approved, asked, faults, safe>>
  BY DEF Rows!Remove, Rows!disk
<1>2. /\ row' \in [Imported -> Rows!Row \cup {None}] /\ row'[a] = None
      /\ \A b \in Imported \ {a} : row'[b] = row[b]
  BY <1>1 DEF RowsInv, Rows!TypeOK
<1>3. FilesAreOwned' /\ CurrentIsSecure'
  BY <1>1, <1>2 DEF RowsInv, FilesAreOwned, CurrentIsSecure, Secure, Rows!Stored
<1>4. SafeIsSecure'
  BY <1>1, <1>2 DEF RowsInv, SafeIsSecure, Secure, Rows!Stored, Holds
<1>5. RowsFit'
  BY <1>1, <1>2, <1>3, <1>4 DEF RowsFit, RowsInv, Rows!TypeOK, Typed
<1>6. Asking'
  BY <1>1 DEF Asking, RowsInv, Rows!TypeOK
<1>7. \A b \in Imported : row'[b] # None => row'[b].route \in allowed \cup {}
  BY <1>2 DEF RowsInv, Rows!RoutesAreAgreed, Rows!Stored
<1>8. allowed' \subseteq Rows!Routes /\ ApprovedIsAllowed' /\ Rows!RoutesAreAgreed'
  BY <1>1, <1>7, AllowedOK DEF RowsInv, ApprovedIsAllowed
<1> QED BY <1>5, <1>6, <1>8, Together

LEMMA SteamStoresKeeps ==
  ASSUME Rows!ConstantsFit, RowsInv, NEW a \in Imported, Rows!SteamStores(a)
  PROVE  RowsInv'
<1> DEFINE rt == Rows!RouteAfter(a, Direct)
           s(v) == [Rows!Incoming(a, v, rt) EXCEPT !.of = v]
<1>1. PICK v \in Versions :
        /\ Rows!HasCode(v) /\ (Rows!Stored(a) => Rows!Auth(v) # Rows!Auth(row[a].of))
        /\ Rows!Finishes(a, Rows!Marked(s(v), row[a]))
  BY DEF Rows!SteamStores
<1>2. UNCHANGED <<open, approved, asked>> /\ Rows!Allow({})
  BY DEF Rows!SteamStores
<1>3. rt \in allowed \cup {} /\ rt \in Rows!Routes
  BY RouteTaken DEF RowsInv, Rows!TypeOK, ApprovedIsAllowed
<1> HIDE DEF rt
<1>4. Edits(a, Rows!Incoming(a, v, rt)) /\ Rows!Incoming(a, v, rt).route = rt
  BY <1>3, IncomingOK
<1>5. s(v) \in Rows!Row /\ s(v).of = v /\ s(v).route = rt /\ s(v).file = Rows!Incoming(a, v, rt).file
  BY <1>4 DEF Edits, Rows!Row
<1> HIDE DEF s
<1>6. Edits(a, s(v))
  BY <1>1, <1>4, <1>5 DEF Edits, Rows!SameAuth
<1>7. Follows(a, Rows!Marked(s(v), row[a])) /\ Rows!Marked(s(v), row[a]).route = rt
  BY <1>5, <1>6, MarkedOK
<1>8. Changed(a, rt)
  BY <1>1, <1>7, FinishesOK
<1>9. allowed' \subseteq Rows!Routes /\ ApprovedIsAllowed' /\ Rows!RoutesAreAgreed'
  BY <1>2, <1>3, <1>8, ChangedAllowed, AllowedOK DEF RowsInv, ApprovedIsAllowed
<1>10. RowsFit' /\ Asking'
  BY <1>2, <1>8 DEF Changed, Asking, RowsInv, Rows!TypeOK
<1> QED BY <1>9, <1>10, Together

LEMMA FinishRecoveryKeeps ==
  ASSUME Rows!ConstantsFit, RowsInv, NEW a \in Imported, Rows!FinishRecovery(a)
  PROVE  RowsInv'
<1>1. /\ Rows!Stored(a) /\ Rows!NeedsAttention(row[a]) /\ Rows!Finishes(a, row[a])
      /\ UNCHANGED <<open, approved, allowed, asked>>
  BY DEF Rows!FinishRecovery, Rows!consent
<1>2. Follows(a, row[a])
  BY <1>1, TypesOf DEF RowsInv, Follows, Rows!NeedsAttention, FilesAreOwned, Owns
<1>3. Changed(a, row[a].route)
  BY <1>2, <1>1, FinishesOK
<1>4. Rows!RoutesAreAgreed'
  BY <1>1, <1>3 DEF RowsInv, Rows!RoutesAreAgreed, Changed, Rows!Stored
<1>5. allowed' \subseteq Rows!Routes /\ ApprovedIsAllowed' /\ Asking' /\ RowsFit'
  BY <1>1, <1>3 DEF RowsInv, Rows!TypeOK, ApprovedIsAllowed, Changed, Asking
<1> QED BY <1>4, <1>5, Together

-----------------------------------------------------------------------------
LEMMA AskKeeps ==
  ASSUME RowsInv, NEW what \in Rows!Question, what.own => what.route \in Proxies, Rows!Ask(what)
  PROVE  RowsInv'
<1>1. /\ asked' = what
      /\ UNCHANGED <<open, row, files, stages, approved, allowed, faults, safe>>
  BY DEF Rows!Ask, Rows!disk, Rows!consent
<1>2. RowsFit'
  BY <1>1, RowsStay
<1>3. Asking' /\ allowed' \subseteq Rows!Routes /\ ApprovedIsAllowed' /\ Rows!RoutesAreAgreed'
  BY <1>1 DEF Asking, RowsInv, Rows!TypeOK, ApprovedIsAllowed, Rows!RoutesAreAgreed, Rows!Stored
<1> QED BY <1>2, <1>3, Together

LEMMA AskRouteKeeps ==
  ASSUME RowsInv, NEW a \in Imported, NEW r \in Rows!Routes, Rows!AskRoute(a, r)
  PROVE  RowsInv'
<1> DEFINE what == [account |-> a, of |-> None, route |-> r, replace |-> TRUE,
                    own |-> TRUE, late |-> FALSE]
<1>1. what \in Rows!Question /\ what.route \in Proxies /\ Rows!Ask(what)
  BY DEF Rows!AskRoute, Rows!Question, Rows!Routes
<1> HIDE DEF what
<1> QED BY <1>1, AskKeeps

LEMMA AskImportKeeps ==
  ASSUME RowsInv, NEW a \in Imported, NEW v \in Versions, NEW r \in Rows!Routes,
         NEW replace \in BOOLEAN, Rows!AskImport(a, v, r, replace)
  PROVE  RowsInv'
<1> DEFINE own == Rows!MustAsk(a, r, replace)
           what == [account |-> a, of |-> v, route |-> r, replace |-> replace,
                    own |-> own, late |-> FALSE]
<1>1. own \in BOOLEAN /\ (own => r \in Proxies)
  BY DEF Rows!MustAsk, Rows!Routes
<1>2. Rows!Ask(what)
  BY DEF Rows!AskImport
<1> HIDE DEF own
<1>3. what \in Rows!Question /\ what.route = r /\ what.own = own
  BY <1>1 DEF Rows!Question
<1> HIDE DEF what
<1> QED BY <1>1, <1>2, <1>3, AskKeeps

LEMMA FailsKeeps ==
  ASSUME RowsInv, Rows!Fails
  PROVE  RowsInv'
<1>1. /\ asked' = None
      /\ UNCHANGED <<open, row, files, stages, approved, allowed, faults, safe>>
  BY DEF Rows!Fails, Rows!disk, Rows!consent
<1>2. RowsFit'
  BY <1>1, RowsStay
<1>3. Asking' /\ allowed' \subseteq Rows!Routes /\ ApprovedIsAllowed' /\ Rows!RoutesAreAgreed'
  BY <1>1 DEF Asking, RowsInv, Rows!TypeOK, ApprovedIsAllowed, Rows!RoutesAreAgreed, Rows!Stored
<1> QED BY <1>2, <1>3, Together

LEMMA LockKeeps ==
  ASSUME RowsInv, Rows!Lock
  PROVE  RowsInv'
<1>1. /\ open' = FALSE /\ approved' = {} /\ Rows!Allow({})
      /\ asked' = IF asked = None THEN None ELSE [asked EXCEPT !.late = TRUE]
      /\ UNCHANGED <<row, files, stages, faults, safe>>
  BY DEF Rows!Lock, Rows!disk
<1>2. RowsFit' /\ \A a \in Imported : row'[a] # None => row'[a].route \in allowed \cup {}
  BY <1>1, RowsStay
<1>3. allowed' \subseteq Rows!Routes /\ ApprovedIsAllowed' /\ Rows!RoutesAreAgreed'
  BY <1>1, <1>2, AllowedOK
<1>4. Asking'
  <2>1. CASE asked = None
    BY <1>1, <2>1 DEF Asking
  <2>2. CASE asked # None
    <3>1. asked \in Rows!Question /\ (asked.own => asked.route \in Proxies)
      BY <2>2 DEF RowsInv, Rows!TypeOK
    <3>2. asked' \in Rows!Question /\ asked'.own = asked.own /\ asked'.route = asked.route
      BY <1>1, <2>2, <3>1 DEF Rows!Question
    <3> QED BY <1>1, <3>1, <3>2 DEF Asking
  <2> QED BY <2>1, <2>2
<1> QED BY <1>2, <1>3, <1>4, Together

LEMMA UnlockKeeps ==
  ASSUME RowsInv, Rows!Unlock
  PROVE  RowsInv'
<1>1. /\ open' = TRUE /\ approved' = Rows!RoutesIn(row) \ {Direct}
      /\ UNCHANGED <<row, files, stages, allowed, asked, faults, safe>>
  BY DEF Rows!Unlock, Rows!disk
<1>2. RowsFit'
  BY <1>1, RowsStay
<1>3. Rows!RoutesIn(row) \subseteq allowed /\ Rows!RoutesIn(row) \subseteq Rows!Routes
  BY DEF Rows!RoutesIn, RowsInv, Rows!RoutesAreAgreed, Rows!Stored, Rows!TypeOK, Rows!Row
<1>4. Asking' /\ allowed' \subseteq Rows!Routes /\ ApprovedIsAllowed' /\ Rows!RoutesAreAgreed'
  BY <1>1, <1>3 DEF Asking, RowsInv, Rows!TypeOK, ApprovedIsAllowed, Rows!RoutesAreAgreed, Rows!Stored, Rows!Routes
<1> QED BY <1>2, <1>4, Together

LEMMA ReplacedKeeps ==
  ASSUME Rows!ConstantsFit, RowsInv, Rows!Replaced
  PROVE  RowsInv'
<1> DEFINE brought(old, route, marked, a) ==
             [of |-> old[a], route |-> route, exact |-> FALSE,
              state |-> IF marked THEN "current" ELSE "none",
              file |-> IF marked THEN Rows!Name(a, old[a], 0) ELSE None]
<1>1. PICK old \in [Imported -> Versions \cup {None}], route \in Rows!Routes, marked \in BOOLEAN :
        row' = [a \in Imported |-> IF old[a] = None THEN None ELSE brought(old, route, marked, a)]
  BY DEF Rows!Replaced
<1>2. /\ safe' = {} /\ Rows!Allow(Rows!RoutesIn(row'))
      /\ UNCHANGED <<open, files, stages, approved, asked, faults>>
  BY DEF Rows!Replaced, Rows!disk
<1>3. ASSUME NEW a \in Imported, old[a] # None
      PROVE  LET r == brought(old, route, marked, a) IN
             /\ r \in Rows!Row /\ r.route = route /\ r.exact = FALSE
             /\ r.file # None => r.file.account = a /\ r.file.auth = Rows!Auth(r.of)
  <2>1. old[a] \in Versions
    BY <1>3
  <2>2. LET n == Rows!Name(a, old[a], 0) IN n \in Rows!Names /\ n.account = a /\ n.auth = Rows!Auth(old[a])
    BY <2>1, NameIs
  <2> QED BY <2>1, <2>2 DEF Rows!Row
<1> HIDE DEF brought
<1>4. /\ row' \in [Imported -> Rows!Row \cup {None}]
      /\ \A a \in Imported : row'[a] # None =>
           /\ row'[a].route = route /\ row'[a].exact = FALSE
           /\ row'[a].file # None => row'[a].file.account = a /\ row'[a].file.auth = Rows!Auth(row'[a].of)
  BY <1>1, <1>3
<1>5. RowsFit'
  BY <1>2, <1>4
     DEF RowsFit, RowsInv, Rows!TypeOK, Typed, FilesAreOwned, CurrentIsSecure, SafeIsSecure, Rows!Stored
<1>6. Rows!RoutesIn(row') \in SUBSET Rows!Routes
  BY <1>4 DEF Rows!RoutesIn
<1>7. \A a \in Imported : row'[a] # None => row'[a].route \in allowed \cup Rows!RoutesIn(row')
  BY DEF Rows!RoutesIn
<1>8. allowed' \subseteq Rows!Routes /\ ApprovedIsAllowed' /\ Rows!RoutesAreAgreed'
  BY <1>2, <1>6, <1>7, AllowedOK DEF RowsInv, ApprovedIsAllowed
<1>9. Asking'
  BY <1>2 DEF Asking, RowsInv, Rows!TypeOK
<1> QED BY <1>5, <1>8, <1>9, Together

(* What a stop leaves, and the next start makes of it.                     *)
LEMMA ReconciledOK ==
  ASSUME NEW fs, NEW ss, Typed(fs, ss), NEW lost \in SUBSET DOMAIN ss,
         LET named == {n \in lost : n \in DOMAIN fs /\ ss[n].out} IN
         Rows!Reconciled(Rows!Restrict(fs, DOMAIN fs \ named), Rows!Restrict(ss, DOMAIN ss \ lost))
  PROVE  /\ Typed(files, stages)'
         /\ \A n \in DOMAIN fs : Secure(fs, ss, n) =>
              Secure(files, stages, n)' /\ files'[n] = fs[n]
<1> DEFINE named == {n \in lost : n \in DOMAIN fs /\ ss[n].out}
           F == Rows!Restrict(fs, DOMAIN fs \ named)
           S == Rows!Restrict(ss, DOMAIN ss \ lost)
           absent == {n \in DOMAIN S : n \notin DOMAIN F}
           twins == {n \in DOMAIN S : n \in DOMAIN F /\ S[n].out}
<1>1. /\ files' = [n \in absent \cup DOMAIN F |-> IF n \in absent THEN S[n].body ELSE F[n]]
      /\ stages' = Rows!Restrict(S, DOMAIN S \ (absent \cup twins))
  BY DEF Rows!Reconciled
<1>2. /\ DOMAIN F = DOMAIN fs \ named /\ DOMAIN S = DOMAIN ss \ lost
      /\ \A n \in DOMAIN F : F[n] = fs[n]
      /\ \A n \in DOMAIN S : S[n] = ss[n]
  BY DEF Rows!Restrict
<1> HIDE DEF F, S
<1>3. /\ DOMAIN stages' \subseteq DOMAIN S
      /\ \A n \in DOMAIN stages' : stages'[n] = ss[n]
      /\ stages' \in [DOMAIN stages' -> Rows!Staged]
  BY <1>1, <1>2 DEF Rows!Restrict, Typed
<1>4. \A n \in absent : S[n].body \in Rows!Bodies /\ n \in Rows!Names
  BY <1>2 DEF Typed, Rows!Staged
<1>5. \A n \in DOMAIN F : F[n] \in Rows!Bodies \cup {Torn} /\ n \in Rows!Names
  BY <1>2 DEF Typed
<1>6. \A n \in DOMAIN fs : Secure(fs, ss, n) => n \in DOMAIN F /\ n \notin absent
  BY <1>2 DEF Secure
<1> HIDE DEF absent, twins, named
<1>7. DOMAIN files' = absent \cup DOMAIN F
  BY <1>1
<1>8. files' \in [DOMAIN files' -> Rows!Bodies \cup {Torn}] /\ DOMAIN files' \subseteq Rows!Names
  BY <1>1, <1>4, <1>5, <1>7
<1>9. Typed(files, stages)'
  BY <1>2, <1>3, <1>8 DEF Typed
<1>10. \A n \in DOMAIN fs : Secure(fs, ss, n) =>
         Secure(files, stages, n)' /\ files'[n] = fs[n]
  BY <1>1, <1>2, <1>3, <1>6, <1>7 DEF Secure
<1> QED BY <1>9, <1>10

LEMMA CrashKeeps ==
  ASSUME Rows!ConstantsFit, RowsInv, Rows!Crash
  PROVE  RowsInv'
<1>1. PICK o \in Rows!Cut : \E lost \in SUBSET DOMAIN o.stages :
        LET named == {n \in lost : n \in DOMAIN o.files /\ o.stages[n].out} IN
        Rows!Reconciled(Rows!Restrict(o.files, DOMAIN o.files \ named),
                   Rows!Restrict(o.stages, DOMAIN o.stages \ lost))
  BY DEF Rows!Crash
<1>2. /\ faults < MaxFaults /\ faults' = faults + 1
      /\ open' = FALSE /\ approved' = {} /\ asked' = None /\ Rows!Allow({})
      /\ row' = row /\ safe' = safe
  BY DEF Rows!Crash
<1>3. Typed(files, stages) /\ Rows!TypeOK
  BY TypesOf DEF RowsInv
<1>4. /\ Typed(o.files, o.stages)
      /\ \A n \in DOMAIN files : Secure(files, stages, n) =>
           /\ Secure(o.files, o.stages, n)
           /\ \/ o.files[n] = files[n]
              \/ \E a \in Imported :
                   /\ Rows!Stored(a) /\ Rows!NeedsAttention(row[a]) /\ n = row[a].file
                   /\ o.files[n] = Rows!Body(row[a])
  <2>1. CASE o = Rows!Outcome(files, stages, None, 0)
    BY <1>3, <2>1 DEF Rows!Outcome
  <2>2. CASE o # Rows!Outcome(files, stages, None, 0)
    <3>1. PICK a \in Imported : Rows!Stored(a) /\ Rows!NeedsAttention(row[a]) /\ o \in Rows!Publishing(a, row[a])
      BY <1>1, <2>2 DEF Rows!Cut
    <3>2. row[a] \in Rows!Row /\ Owns(a, row[a])
      BY <3>1, TypesOf DEF RowsInv, FilesAreOwned, Owns
    <3>3. Spares(o, row[a].file, Rows!Body(row[a]))
      BY <1>3, <3>1, <3>2, PublishingOK
    <3> QED BY <3>1, <3>3 DEF Spares
  <2> QED BY <2>1, <2>2
<1>5. /\ Typed(files, stages)'
      /\ \A n \in DOMAIN o.files : Secure(o.files, o.stages, n) =>
           Secure(files, stages, n)' /\ files'[n] = o.files[n]
  BY <1>1, <1>4, ReconciledOK
<1>6. \A n \in DOMAIN files : Secure(files, stages, n) =>
        /\ n # None /\ n \in DOMAIN files'
        /\ Secure(files, stages, n)'
        /\ \/ files'[n] = files[n]
           \/ \E a \in Imported :
                /\ Rows!Stored(a) /\ Rows!NeedsAttention(row[a]) /\ n = row[a].file /\ n.account = a
                /\ files'[n] = Rows!Body(row[a])
  <2> SUFFICES ASSUME NEW n \in DOMAIN files, Secure(files, stages, n)
               PROVE  /\ n # None /\ n \in DOMAIN files'
                      /\ Secure(files, stages, n)'
                      /\ \/ files'[n] = files[n]
                         \/ \E a \in Imported :
                              /\ Rows!Stored(a) /\ Rows!NeedsAttention(row[a]) /\ n = row[a].file
                              /\ n.account = a /\ files'[n] = Rows!Body(row[a])
    OBVIOUS
  <2>1. n # None
    BY <1>3 DEF Typed, Rows!ConstantsFit
  <2>2. n \in DOMAIN o.files /\ Secure(o.files, o.stages, n)
    BY <1>4 DEF Secure
  <2>3. Secure(files, stages, n)' /\ files'[n] = o.files[n] /\ n \in DOMAIN files'
    BY <1>5, <2>2 DEF Secure
  <2> QED BY <1>4, <2>1, <2>3 DEF RowsInv, FilesAreOwned
<1>7. FilesAreOwned'
  BY <1>2 DEF RowsInv, FilesAreOwned, Rows!Stored
<1>8. CurrentIsSecure'
  <2> SUFFICES ASSUME NEW b \in Imported, Rows!Stored(b), row[b].state = "current", row[b].exact
               PROVE  Secure(files, stages, row[b].file)' /\ files'[row[b].file] = Rows!Body(row[b])
    BY <1>2 DEF CurrentIsSecure, Rows!Stored, Rows!Body, Secure
  <2>1. Secure(files, stages, row[b].file) /\ files[row[b].file] = Rows!Body(row[b])
        /\ row[b].file \in DOMAIN files
    BY DEF RowsInv, CurrentIsSecure, Secure
  <2>2. row[b].file # None => row[b].file.account = b
    BY DEF RowsInv, FilesAreOwned
  <2>3. ~Rows!NeedsAttention(row[b])
    BY DEF Rows!NeedsAttention
  <2>4. PICK n \in DOMAIN files : n = row[b].file
    BY <2>1
  <2>5. /\ n # None /\ Secure(files, stages, n)'
        /\ \/ files'[n] = files[n]
           \/ \E a \in Imported : Rows!NeedsAttention(row[a]) /\ n.account = a
    BY <1>6, <2>1, <2>4
  <2>6. files'[n] = files[n]
    BY <2>2, <2>3, <2>4, <2>5
  <2>7. Secure(files, stages, n)' <=> Secure(files', stages', row[b].file)
    BY <2>4 DEF Secure
  <2>8. Secure(files', stages', row[b].file)
    BY <2>5, <2>7
  <2> QED BY <1>2, <2>1, <2>4, <2>6, <2>8 DEF Secure, Rows!Stored
<1>9. SafeIsSecure'
  <2> SUFFICES ASSUME NEW b \in Imported, NEW v \in Versions, <<b, v>> \in safe
               PROVE  \E n \in DOMAIN files' : Secure(files, stages, n)' /\ Holds(b, v, n)'
    BY <1>2 DEF SafeIsSecure
  <2>1. PICK n \in DOMAIN files : Secure(files, stages, n) /\ Holds(b, v, n)
    BY DEF RowsInv, SafeIsSecure
  <2>2. CASE files'[n] = files[n]
    BY <1>2, <1>6, <2>1, <2>2 DEF Holds, Rows!Stored
  <2>3. CASE files'[n] # files[n]
    <3>1. /\ Rows!Stored(b) /\ n = row[b].file /\ files'[n] = Rows!Body(row[b])
          /\ n \in DOMAIN files' /\ Secure(files, stages, n)'
      BY <1>6, <2>1, <2>3 DEF Holds
    <3>2. Rows!Body(row[b]) # Torn /\ Rows!Body(row[b]).of = row[b].of
      BY <3>1, BodyIs, TypesOf DEF RowsInv
    <3> QED BY <1>2, <2>1, <3>1, <3>2 DEF Holds, Rows!Stored
  <2> QED BY <2>2, <2>3
<1>10. RowsFit'
  BY <1>2, <1>3, <1>5, <1>7, <1>8, <1>9 DEF RowsFit, Rows!TypeOK, Rows!ConstantsFit
<1>11. \A a \in Imported : row'[a] # None => row'[a].route \in allowed \cup {}
  BY <1>2 DEF RowsInv, Rows!RoutesAreAgreed, Rows!Stored
<1>12. allowed' \subseteq Rows!Routes /\ ApprovedIsAllowed' /\ Rows!RoutesAreAgreed'
  BY <1>2, <1>11, AllowedOK
<1>13. Asking'
  BY <1>2 DEF Asking
<1> QED BY <1>10, <1>12, <1>13, Together

-----------------------------------------------------------------------------
LEMMA RowsInitially == Rows!ConstantsFit /\ Rows!Init => RowsInv
<1> SUFFICES ASSUME Rows!ConstantsFit, Rows!Init PROVE RowsInv
  OBVIOUS
<1>1. DOMAIN files = {} /\ DOMAIN stages = {}
  BY DEF Rows!Init
<1>2. files \in [DOMAIN files -> Rows!Bodies \cup {Torn}] /\ stages \in [DOMAIN stages -> Rows!Staged]
  BY DEF Rows!Init
<1>3. Rows!TypeOK
  <2>1. row \in [Imported -> Rows!Row \cup {None}] /\ faults \in 0..MaxFaults
    BY DEF Rows!Init, Rows!ConstantsFit
  <2> QED BY <1>1, <1>2, <2>1 DEF Rows!Init, Rows!TypeOK, Rows!Routes
<1> QED BY <1>3 DEF Rows!Init, RowsInv, FilesAreOwned, CurrentIsSecure, SafeIsSecure, Rows!Stored,
                    ApprovedIsAllowed, Rows!RoutesAreAgreed

LEMMA RowsInductive == Rows!ConstantsFit /\ RowsInv /\ [Rows!Next]_(Rows!vars) => RowsInv'
<1> SUFFICES ASSUME Rows!ConstantsFit, RowsInv, [Rows!Next]_(Rows!vars) PROVE RowsInv'
  OBVIOUS
<1>1. CASE UNCHANGED Rows!vars
  <2>1. UNCHANGED <<open, row, files, stages, approved, allowed, asked, faults, safe>>
    BY <1>1 DEF Rows!vars, Rows!disk, Rows!consent
  <2>2. RowsFit'
    BY <2>1, RowsStay
  <2>3. Asking' /\ allowed' \subseteq Rows!Routes /\ ApprovedIsAllowed' /\ Rows!RoutesAreAgreed'
    BY <2>1 DEF Asking, RowsInv, Rows!TypeOK, ApprovedIsAllowed, Rows!RoutesAreAgreed, Rows!Stored
  <2> QED BY <2>2, <2>3, Together
<1>2. CASE Rows!Lock \/ Rows!Unlock \/ Rows!Crash \/ Rows!Replaced
  BY <1>2, LockKeeps, UnlockKeeps, CrashKeeps, ReplacedKeeps
<1>3. CASE Rows!Fails \/ Rows!AgreedInVain \/ Rows!RouteAgreed
  BY <1>3, FailsKeeps, AgreedInVainKeeps, RouteAgreedKeeps
<1>4. ASSUME NEW a \in Imported,
             \/ Rows!Import(a) \/ Rows!ImportAgreed(a)
             \/ Rows!Remove(a) \/ Rows!SteamStores(a) \/ Rows!FinishRecovery(a)
      PROVE  RowsInv'
  BY <1>4, ImportKeeps, ImportAgreedKeeps, RemoveKeeps, SteamStoresKeeps, FinishRecoveryKeeps
<1>5. ASSUME NEW a \in Imported, NEW r \in Rows!Routes, Rows!AskRoute(a, r) \/ Rows!RouteSaved(a, r)
      PROVE  RowsInv'
  BY <1>5, AskRouteKeeps, RouteSavedKeeps
<1>6. ASSUME NEW a \in Imported, NEW v \in Versions, NEW r \in Rows!Routes, NEW replace \in BOOLEAN,
             Rows!AskImport(a, v, r, replace)
      PROVE  RowsInv'
  BY <1>6, AskImportKeeps
<1> QED BY <1>1, <1>2, <1>3, <1>4, <1>5, <1>6 DEF Rows!Next

LEMMA RowsInvariant == Both => []RowsInv
<1>1. Start => RowsInv
  BY RowsInitially, RowsAssumption DEF Start
<1>2. RowsInv /\ [Step]_<<part, vars, rows>> => RowsInv'
  <2> SUFFICES ASSUME RowsInv, [Step]_<<part, vars, rows>> PROVE RowsInv'
    OBVIOUS
  <2>1. [Rows!Next]_(Rows!vars)
    BY DEF Step, rows, Rows!vars, Rows!disk, Rows!consent
  <2> QED BY <2>1, RowsInductive, RowsAssumption
<1> QED BY <1>1, <1>2, PTL DEF Both

(* Every variable keeps its type, and only names of known accounts are in  *)
(* the recovery directory.                                                 *)
THEOREM RowTypes == Both => []Rows!TypeOK
<1>1. RowsInv => Rows!TypeOK
  BY DEF RowsInv
<1> QED BY <1>1, RowsInvariant, PTL

(* For any accounts, any authenticators, any number of failures and stops: *)
(* a row that needs no attention has a recovery file of exactly what the   *)
(* row holds, and what was reported backed up stays so with its revocation *)
(* code: no later row's recovery file and no stop takes its place.         *)
THEOREM BackupsKept == Both => []BackupsAreKept
<1>1. RowsInv => Rows!BackupHoldsWhatTheVaultDoes
  BY DEF RowsInv, CurrentIsSecure, Secure, Rows!BackupHoldsWhatTheVaultDoes, Rows!Published
<1>2. RowsInv => Rows!NoBackupIsLost
  BY DEF RowsInv, SafeIsSecure, Holds, Rows!NoBackupIsLost
<1>3. RowsInv => BackupsAreKept
  BY <1>1, <1>2 DEF BackupsAreKept, Rows!BackupsAreKept
<1> QED BY <1>3, RowsInvariant, PTL

(* Every row's route was agreed to under a vault that stayed open until    *)
(* the answer, or a whole vault brought it.                                *)
THEOREM RoutesAgreed == Both => []RoutesAreAgreed
<1>1. RowsInv => RoutesAreAgreed
  BY DEF RowsInv, RoutesAreAgreed
<1> QED BY <1>1, RowsInvariant, PTL
=============================================================================
