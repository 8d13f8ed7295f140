--------------------------- MODULE ServicesProofs ---------------------------
(***************************************************************************)
(* Three services that share nothing.                                      *)
(*                                                                         *)
(* The engine's schedule and what the user hears of it, proved for any     *)
(* number of accounts.  First the engine alone: its deadline is exact, the *)
(* stopped accounts are those it announces, and nothing is asked of them.  *)
(* Then the same of the engine as index.ts wires it, for each step of the  *)
(* whole is the engine's or leaves the engine alone.  Then that the user   *)
(* hears of everything, once: the marks that the notifier keeps and the    *)
(* toasts on their way answer to one another.                              *)
(*                                                                         *)
(* The codes, for any accounts, codes, clock skews and tolerances: a code  *)
(* on the clipboard is watched, and one shown without a warning is right.  *)
(*                                                                         *)
(* The issue tracker, for any requests, reports, files and limits: what it *)
(* stores, says of a report and keeps of it.                               *)
(***************************************************************************)
EXTENDS Announcements, Codes, Tickets, FiniteSetTheorems, WellFoundedInduction, TLAPS

-----------------------------------------------------------------------------
(* The engine, and what is heard of it.                                    *)

(* The early-out neither hides a due account nor keeps reading the vault   *)
(* for nothing: it is the soonest entry, unless an invalidation is pending. *)
EarlyOutIsExact == earliest = IF scheduleDirty THEN 0 ELSE Soonest(state)

(* The beat speaks of exactly the accounts that are stopped: none that is  *)
(* polled again after a save, and none that a save left stopped in secret. *)
HaltsAgree == halted = {a \in Accounts : Stopped(a)}

(* A halted account is left alone until the user changes something, and an *)
(* entry is kept only for an account with something switched on.           *)
HaltedIsLeftAlone == \A a \in Accounts : Stopped(a) => ~Current(a)
EntriesAreOn == \A a \in Accounts : state[a] # None => Eligible(a)

IInv ==
  /\ TypeOK /\ EarlyOutIsExact /\ HaltsAgree /\ PolledAsConfigured
  /\ HaltedIsLeftAlone /\ EntriesAreOn

-----------------------------------------------------------------------------
(* Every set of times has a soonest one, finite or not.                    *)
LEMMA SomeLeast ==
  ASSUME NEW S \in SUBSET Nat, S # {}
  PROVE  \E d \in S : \A e \in S : d <= e
<1> DEFINE R == {ss \in Nat \X Nat : ss[1] < ss[2]}
<1>1. IsWellFoundedOn(R, Nat)
  BY NatLessThanWellFounded, Zenon DEF OpToRel
<1>2. PICK d \in S : \A e \in S : ~(<<e, d>> \in R)
  <2> HIDE DEF R
  <2> QED BY <1>1, WFMin
<1>3. \A e \in S : ~(e < d)
  BY <1>2
<1> QED BY <1>3

LEMMA NoneIsNoState == None \notin AccountState /\ None \notin Request
BY SentinelAssumption DEF AccountState, Request

Entries == [Accounts -> AccountState \cup {None}]
Dues(entries) == {entries[a].due : a \in {b \in Accounts : entries[b] # None}}

LEMMA DuesType ==
  ASSUME NEW entries \in Entries
  PROVE  Dues(entries) \subseteq Due
BY DEF Entries, Dues, AccountState

(* What rememberEarliest returns: nothing to ask for, nothing ever due, or *)
(* the least of the times.                                                 *)
LEMMA SoonestIsLeast ==
  ASSUME NEW entries \in Entries
  PROVE  /\ Dues(entries) = {} => Soonest(entries) = 0
         /\ Dues(entries) = {Never} => Soonest(entries) = Never
         /\ Dues(entries) \notin {{}, {Never}} =>
              /\ Soonest(entries) \in Dues(entries) \ {Never}
              /\ \A e \in Dues(entries) \ {Never} : Soonest(entries) <= e
<1> DEFINE dues == Dues(entries)
           P(d) == d \in dues \ {Never} /\ \A e \in dues \ {Never} : d <= e
<1>0. dues \subseteq Due
  BY DuesType
<1>1. Soonest(entries) = IF dues = {} THEN 0
        ELSE IF dues = {Never} THEN Never
        ELSE CHOOSE d \in dues \ {Never} : \A e \in dues \ {Never} : d <= e
  BY DEF Soonest, Dues
<1>2. CASE dues \in {{}, {Never}}
  <2> HIDE DEF dues
  <2> QED BY <1>1, <1>2 DEF dues
<1>3. CASE dues \notin {{}, {Never}}
  <2> HIDE DEF dues
  <2>1. dues \ {Never} \in SUBSET Nat /\ dues \ {Never} # {}
    BY <1>0, <1>3 DEF Due
  <2>2. \E d \in dues \ {Never} : \A e \in dues \ {Never} : d <= e
    BY <2>1, SomeLeast
  <2>3. Soonest(entries) = CHOOSE d \in dues \ {Never} : \A e \in dues \ {Never} : d <= e
    BY <1>1, <1>3
  <2>4. /\ Soonest(entries) \in dues \ {Never}
        /\ \A e \in dues \ {Never} : Soonest(entries) <= e
    BY <2>2, <2>3
  <2> QED BY <2>4, <1>3 DEF dues
<1> QED BY <1>2, <1>3

LEMMA SoonestType ==
  ASSUME NEW entries \in Entries
  PROVE  Soonest(entries) \in Due
<1>1. Dues(entries) \subseteq Due
  BY DuesType
<1> QED BY <1>1, SoonestIsLeast DEF Due

(* A beat brings the deadline as much closer as it brings every entry.     *)
Elapsed(entries) ==
  [a \in Accounts |->
     IF entries[a] = None THEN None ELSE [entries[a] EXCEPT !.due = Elapse(@)]]

LEMMA ElapseType ==
  ASSUME NEW d \in Due
  PROVE  Elapse(d) \in Due /\ (Elapse(d) = Never <=> d = Never)
BY SentinelAssumption DEF Elapse, Due

LEMMA ElapsedType ==
  ASSUME NEW entries \in Entries
  PROVE  /\ Elapsed(entries) \in Entries
         /\ \A a \in Accounts :
              /\ Elapsed(entries)[a] = None <=> entries[a] = None
              /\ entries[a] # None => Elapsed(entries)[a].due = Elapse(entries[a].due)
<1> SUFFICES ASSUME NEW a \in Accounts
    PROVE  /\ Elapsed(entries)[a] \in AccountState \cup {None}
           /\ Elapsed(entries)[a] = None <=> entries[a] = None
           /\ entries[a] # None => Elapsed(entries)[a].due = Elapse(entries[a].due)
  BY DEF Entries, Elapsed
<1>1. CASE entries[a] = None
  BY <1>1 DEF Elapsed
<1>2. CASE entries[a] # None
  <2>1. entries[a] \in AccountState
    BY <1>2 DEF Entries
  <2>2. Elapse(entries[a].due) \in Due
    BY <2>1, ElapseType DEF AccountState
  <2>3. Elapsed(entries)[a] = [entries[a] EXCEPT !.due = Elapse(entries[a].due)]
    BY <1>2 DEF Elapsed
  <2>4. Elapsed(entries)[a] \in AccountState
    BY <2>1, <2>2, <2>3 DEF AccountState
  <2>5. Elapsed(entries)[a].due = Elapse(entries[a].due)
    BY <2>1, <2>3 DEF AccountState
  <2>6. None \notin AccountState
    BY NoneIsNoState
  <2> QED BY <1>2, <2>4, <2>5, <2>6
<1> QED BY <1>1, <1>2

LEMMA SoonestElapses ==
  ASSUME NEW entries \in Entries
  PROVE  Soonest(Elapsed(entries)) = Elapse(Soonest(entries))
<1> DEFINE dues == Dues(entries)
           next == Dues(Elapsed(entries))
           s == Soonest(entries)
           t == Soonest(Elapsed(entries))
<1>1. dues \subseteq Due
  BY DuesType
<1>2. next = {Elapse(d) : d \in dues}
  BY ElapsedType DEF Dues
<1>3. Elapsed(entries) \in Entries
  BY ElapsedType
<1>4. /\ dues = {} => s = 0
      /\ dues = {Never} => s = Never
      /\ dues \notin {{}, {Never}} =>
           s \in dues \ {Never} /\ \A e \in dues \ {Never} : s <= e
  BY SoonestIsLeast
<1>5. /\ next = {} => t = 0
      /\ next = {Never} => t = Never
      /\ next \notin {{}, {Never}} =>
           t \in next \ {Never} /\ \A e \in next \ {Never} : t <= e
  BY <1>3, SoonestIsLeast
<1> HIDE DEF dues, next, s, t
<1>6. CASE dues = {}
  BY <1>2, <1>4, <1>5, <1>6 DEF Elapse, s, t
<1>7. CASE dues = {Never}
  <2>1. next = {Never}
    BY <1>2, <1>7 DEF Elapse
  <2> QED BY <2>1, <1>4, <1>5, <1>7 DEF Elapse, s, t
<1>8. CASE dues \notin {{}, {Never}}
  <2>1. s \in dues /\ s \in Nat /\ s # Never /\ \A e \in dues \ {Never} : s <= e
    BY <1>1, <1>4, <1>8 DEF Due
  <2>2. Elapse(s) \in next \ {Never}
    BY <1>1, <1>2, <2>1, ElapseType
  <2>3. next \notin {{}, {Never}}
    BY <2>2
  <2>4. PICK d \in dues : t = Elapse(d) /\ t # Never
    BY <1>2, <1>5, <2>3
  <2>5. d \in Nat /\ s <= d
    BY <1>1, <2>1, <2>4, ElapseType DEF Due
  <2>6. t <= Elapse(s)
    BY <1>5, <2>2, <2>3
  <2>7. Elapse(s) <= Elapse(d)
    BY <2>1, <2>5, SentinelAssumption DEF Elapse
  <2>8. Elapse(s) \in Nat /\ Elapse(d) \in Nat
    BY <2>1, <2>5, SentinelAssumption DEF Elapse
  <2> QED BY <2>4, <2>6, <2>7, <2>8 DEF s, t
<1> QED BY <1>6, <1>7, <1>8

-----------------------------------------------------------------------------
LEMMA InitOK == Init => IInv
<1> SUFFICES ASSUME Init PROVE IInv
  OBVIOUS
<1>1. TypeOK
  BY DEF Init, TypeOK, Due
<1>2. Dues(state) = {} /\ state \in Entries
  BY DEF Init, Dues, Entries
<1>3. EarlyOutIsExact
  BY <1>2, SoonestIsLeast DEF EarlyOutIsExact, Init
<1>4. HaltsAgree
  BY DEF Init, HaltsAgree, Stopped
<1>5. PolledAsConfigured
  BY DEF Init, PolledAsConfigured, Current, InFlight
<1>6. HaltedIsLeftAlone /\ EntriesAreOn
  BY DEF Init, HaltedIsLeftAlone, EntriesAreOn, Stopped
<1> QED BY <1>1, <1>3, <1>4, <1>5, <1>6 DEF IInv

(* Requests are disowned, and nobody else is touched.                      *)
LEMMA DisownedType ==
  ASSUME TypeOK, NEW gone \in SUBSET Accounts, poll' = Disowned(poll, gone)
  PROVE  /\ poll' \in [Accounts -> Request \cup {None}]
         /\ \A a \in gone : ~Current(a)'
         /\ \A a \in Accounts \ gone : poll'[a] = poll[a]
<1> SUFFICES ASSUME NEW a \in Accounts
    PROVE  /\ poll'[a] \in Request \cup {None}
           /\ a \in gone => ~Current(a)'
           /\ a \notin gone => poll'[a] = poll[a]
  BY DEF Disowned
<1>1. CASE a \in gone /\ poll[a] # None
  <2>1. poll[a] \in Request
    BY <1>1 DEF TypeOK
  <2>2. poll'[a] = [poll[a] EXCEPT !.owned = FALSE]
    BY <1>1 DEF Disowned
  <2>3. poll'[a] \in Request /\ poll'[a].owned = FALSE
    BY <2>1, <2>2 DEF Request
  <2> QED BY <1>1, <2>3 DEF Current
<1>2. CASE ~(a \in gone /\ poll[a] # None)
  <2>1. poll'[a] = poll[a]
    BY <1>2 DEF Disowned
  <2> QED BY <1>2, <2>1 DEF TypeOK, Current, InFlight
<1> QED BY <1>1, <1>2

(* reset, forgetAccount and the policy: whoever is forgotten starts anew.  *)
LEMMA ForgetOK ==
  ASSUME IInv, NEW gone \in SUBSET Accounts, Forget(gone)
  PROVE  /\ unlocked' = unlocked /\ parked' \in BOOLEAN
         /\ state' \in Entries /\ halted' \in SUBSET Accounts
         /\ poll' \in [Accounts -> Request \cup {None}]
         /\ scheduleDirty' \in BOOLEAN /\ earliest' \in Due
         /\ EarlyOutIsExact' /\ HaltsAgree'
         /\ \A a \in gone : ~Current(a)' /\ state'[a] = None
         /\ \A a \in Accounts \ gone : poll'[a] = poll[a] /\ state'[a] = state[a]
<1> USE DEF IInv
<1>1. /\ poll' \in [Accounts -> Request \cup {None}]
      /\ \A a \in gone : ~Current(a)'
      /\ \A a \in Accounts \ gone : poll'[a] = poll[a]
  BY DisownedType DEF Forget
<1>2. state' \in Entries
  BY DEF Forget, Entries, TypeOK
<1>3. EarlyOutIsExact' /\ earliest' \in Due /\ scheduleDirty' \in BOOLEAN
  BY DEF Forget, EarlyOutIsExact, Due
<1>4. HaltsAgree' /\ halted' \in SUBSET Accounts
  BY DEF Forget, HaltsAgree, Stopped, TypeOK
<1>5. unlocked' = unlocked /\ parked' \in BOOLEAN
  BY DEF Forget, TypeOK
<1>6. /\ \A a \in gone : state'[a] = None
      /\ \A a \in Accounts \ gone : state'[a] = state[a]
  BY DEF Forget
<1> QED BY <1>1, <1>2, <1>3, <1>4, <1>5, <1>6

LEMMA SaveSettingsOK ==
  ASSUME IInv, NEW a \in Accounts, SaveSettings(a)
  PROVE  IInv'
<1>1. PICK p \in Plans : plan' = [plan EXCEPT ![a] = p]
  BY DEF SaveSettings
<1>2. Forget({a}) /\ required' = required /\ unlocked
  BY DEF SaveSettings
<1>3. /\ unlocked' = unlocked /\ parked' \in BOOLEAN
      /\ state' \in Entries /\ halted' \in SUBSET Accounts
      /\ poll' \in [Accounts -> Request \cup {None}]
      /\ scheduleDirty' \in BOOLEAN /\ earliest' \in Due
      /\ EarlyOutIsExact' /\ HaltsAgree'
      /\ ~Current(a)' /\ state'[a] = None
      /\ \A b \in Accounts \ {a} : poll'[b] = poll[b] /\ state'[b] = state[b]
  BY <1>2, ForgetOK
<1>4. TypeOK'
  BY <1>1, <1>2, <1>3 DEF TypeOK, Entries, IInv
<1>5. PolledAsConfigured'
  BY <1>1, <1>2, <1>3 DEF IInv, TypeOK, PolledAsConfigured, Current, InFlight, Eligible
<1>6. HaltedIsLeftAlone' /\ EntriesAreOn'
  BY <1>1, <1>2, <1>3 DEF IInv, TypeOK, HaltedIsLeftAlone, EntriesAreOn, Stopped, Current,
                          InFlight, Eligible
<1> QED BY <1>3, <1>4, <1>5, <1>6 DEF IInv

LEMMA ForgetAccountOK ==
  ASSUME IInv, NEW a \in Accounts, ForgetAccount(a)
  PROVE  IInv'
<1>1. Forget({a}) /\ plan' = plan /\ required' = required
  BY DEF ForgetAccount
<1>2. /\ unlocked' = unlocked /\ parked' \in BOOLEAN
      /\ state' \in Entries /\ halted' \in SUBSET Accounts
      /\ poll' \in [Accounts -> Request \cup {None}]
      /\ scheduleDirty' \in BOOLEAN /\ earliest' \in Due
      /\ EarlyOutIsExact' /\ HaltsAgree'
      /\ ~Current(a)' /\ state'[a] = None
      /\ \A b \in Accounts \ {a} : poll'[b] = poll[b] /\ state'[b] = state[b]
  BY <1>1, ForgetOK
<1>3. TypeOK'
  BY <1>1, <1>2 DEF TypeOK, Entries, IInv
<1>4. PolledAsConfigured'
  BY <1>1, <1>2 DEF IInv, PolledAsConfigured, Current, InFlight, Eligible
<1>5. HaltedIsLeftAlone' /\ EntriesAreOn'
  BY <1>1, <1>2 DEF IInv, HaltedIsLeftAlone, EntriesAreOn, Stopped, Current, InFlight, Eligible
<1> QED BY <1>2, <1>3, <1>4, <1>5 DEF IInv

LEMMA RequireProxiesOK ==
  ASSUME IInv, RequireProxies
  PROVE  IInv'
<1>1. Forget(Accounts) /\ plan' = plan /\ required' = TRUE
  BY DEF RequireProxies
<1>2. /\ unlocked' = unlocked /\ parked' \in BOOLEAN
      /\ state' \in Entries /\ halted' \in SUBSET Accounts
      /\ poll' \in [Accounts -> Request \cup {None}]
      /\ scheduleDirty' \in BOOLEAN /\ earliest' \in Due
      /\ EarlyOutIsExact' /\ HaltsAgree'
      /\ \A a \in Accounts : ~Current(a)' /\ state'[a] = None
  BY <1>1, ForgetOK
<1>3. TypeOK'
  BY <1>1, <1>2 DEF TypeOK, Entries, IInv
<1> QED BY <1>2, <1>3 DEF IInv, PolledAsConfigured, HaltedIsLeftAlone, EntriesAreOn

LEMMA RelaxProxiesOK ==
  ASSUME IInv, RelaxProxies
  PROVE  IInv'
<1> USE DEF IInv, RelaxProxies
<1>1. TypeOK'
  BY DEF TypeOK, Due
<1>2. EarlyOutIsExact'
  BY DEF EarlyOutIsExact
<1>3. HaltsAgree'
  BY DEF HaltsAgree, Stopped
<1>4. PolledAsConfigured' /\ HaltedIsLeftAlone' /\ EntriesAreOn'
  BY DEF PolledAsConfigured, HaltedIsLeftAlone, EntriesAreOn, Current, InFlight, Eligible, Stopped
<1> QED BY <1>1, <1>2, <1>3, <1>4

LEMMA StartOK ==
  ASSUME IInv, Start
  PROVE  IInv'
<1> USE DEF IInv, Start
<1>1. TypeOK'
  BY DEF TypeOK
<1>2. EarlyOutIsExact'
  BY DEF EarlyOutIsExact
<1>3. HaltsAgree'
  BY DEF HaltsAgree, Stopped
<1>4. PolledAsConfigured' /\ HaltedIsLeftAlone' /\ EntriesAreOn'
  BY DEF PolledAsConfigured, HaltedIsLeftAlone, EntriesAreOn, Current, InFlight, Eligible, Stopped
<1> QED BY <1>1, <1>2, <1>3, <1>4

(* A lock empties the schedule: nothing is due, and nothing is current.    *)
LEMMA StopOK ==
  ASSUME IInv, Stop
  PROVE  IInv'
<1> USE DEF IInv
<1>1. /\ poll' \in [Accounts -> Request \cup {None}]
      /\ \A a \in Accounts : ~Current(a)'
  BY DisownedType DEF Stop
<1>2. state' \in Entries /\ Dues(state') = {}
  BY DEF Stop, Entries, Dues
<1>3. EarlyOutIsExact'
  BY <1>2, SoonestIsLeast DEF Stop, EarlyOutIsExact
<1>4. HaltsAgree'
  BY DEF Stop, HaltsAgree, Stopped
<1>5. TypeOK'
  BY <1>1, <1>2 DEF Stop, TypeOK, Entries, Due
<1>6. HaltedIsLeftAlone' /\ EntriesAreOn'
  BY DEF Stop, HaltedIsLeftAlone, EntriesAreOn, Stopped
<1> QED BY <1>1, <1>3, <1>4, <1>5, <1>6 DEF PolledAsConfigured

LEMMA BeatOK ==
  ASSUME IInv, Beat
  PROVE  IInv'
<1> USE DEF IInv
<1>1. state \in Entries /\ state' = Elapsed(state)
  BY DEF TypeOK, Entries, Beat, Elapsed
<1>2. state' \in Entries
  BY <1>1, ElapsedType
<1>3. earliest' = Elapse(earliest) /\ earliest' \in Due
  BY ElapseType DEF Beat, TypeOK
<1>4. TypeOK'
  BY <1>2, <1>3 DEF Beat, TypeOK, Entries
<1>5. EarlyOutIsExact'
  <2>1. CASE scheduleDirty
    BY <2>1, <1>3 DEF EarlyOutIsExact, Beat, Elapse
  <2>2. CASE ~scheduleDirty
    BY <2>2, <1>1, <1>3, SoonestElapses DEF EarlyOutIsExact, Beat
  <2> QED BY <2>1, <2>2
<1>6. \A a \in Accounts : (Stopped(a)' <=> Stopped(a)) /\ (state'[a] = None <=> state[a] = None)
  <2> SUFFICES ASSUME NEW a \in Accounts
      PROVE  (Stopped(a)' <=> Stopped(a)) /\ (state'[a] = None <=> state[a] = None)
    OBVIOUS
  <2>1. CASE state[a] = None
    BY <2>1, <1>1, ElapsedType DEF Stopped
  <2>2. CASE state[a] # None
    <3>1. state[a].due \in Due
      BY <2>2 DEF TypeOK, AccountState
    <3>2. state'[a] # None /\ state'[a].due = Elapse(state[a].due)
      BY <2>2, <1>1, ElapsedType
    <3> QED BY <2>2, <3>1, <3>2, ElapseType DEF Stopped
  <2> QED BY <2>1, <2>2
<1>7. HaltsAgree'
  BY <1>6 DEF HaltsAgree, Beat
<1>8. PolledAsConfigured' /\ HaltedIsLeftAlone' /\ EntriesAreOn'
  BY <1>6 DEF Beat, PolledAsConfigured, HaltedIsLeftAlone, EntriesAreOn, Current, InFlight, Eligible
<1> QED BY <1>4, <1>5, <1>7, <1>8

-----------------------------------------------------------------------------
LEMMA PlanType ==
  ASSUME TypeOK, NEW a \in Accounts
  PROVE  plan[a] \in Plans /\ plan[a].interval \in Nat \ {0}
BY SettingsAssumption DEF TypeOK, Plan

LEMMA BeforeType ==
  ASSUME NEW a \in Accounts, NEW others \in SUBSET Accounts
  PROVE  Before(a, others) \in Nat
<1>1. IsFiniteSet({b \in others : b < a})
  BY SettingsAssumption, FS_Subset
<1> QED BY <1>1, FS_CardinalityType DEF Before

LEMMA SlotType ==
  ASSUME TypeOK, NEW a \in Accounts
  PROVE  Slot(a) \in Nat /\ StaggerFor(a) \in Nat
<1>1. Before(a, Unscheduled) \in Nat /\ Before(a, DueAccounts) \in Nat
  BY BeforeType DEF Unscheduled, DueAccounts, Candidates
<1>2. Slot(a) \in Nat
  BY <1>1, PlanType DEF Slot
<1>3. StaggerFor(a) \in Nat
  <2> DEFINE beats == IF plan[a].interval < 4 THEN 1 ELSE plan[a].interval \div 4
  <2>1. beats \in Nat \ {0}
    BY PlanType
  <2>2. StaggerFor(a) = Before(a, DueAccounts) % beats
    BY DEF StaggerFor
  <2> HIDE DEF beats
  <2> QED BY <1>1, <2>1, <2>2
<1> QED BY <1>2, <1>3

LEMMA FreshType ==
  ASSUME NEW d \in Nat
  PROVE  Fresh(d) \in AccountState /\ Fresh(d) # None /\ Fresh(d).due = d /\ Fresh(d).due # Never
<1>1. Fresh(d) \in AccountState /\ Fresh(d).due = d
  BY DEF Fresh, AccountState, Due
<1> QED BY <1>1, SentinelAssumption

(* A sweep asks only for accounts that are on, idle and not stopped.       *)
LEMMA SweepOK ==
  ASSUME IInv, Sweep
  PROVE  IInv'
<1> USE DEF IInv
<1>1. \A a \in DueAccounts : a \in Accounts /\ Eligible(a) /\ ~Stopped(a) /\ ~InFlight(a)
  BY DEF DueAccounts, Candidates
<1>2. \A a \in Accounts :
        /\ state'[a] \in AccountState \cup {None}
        /\ state'[a] # None => Eligible(a)
        /\ Stopped(a)' <=> Stopped(a)
  <2> SUFFICES ASSUME NEW a \in Accounts
      PROVE  /\ state'[a] \in AccountState \cup {None}
             /\ state'[a] # None => Eligible(a)
             /\ Stopped(a)' <=> Stopped(a)
    OBVIOUS
  <2>1. CASE ~Eligible(a)
    BY <2>1 DEF Sweep, Rescheduled, EntriesAreOn, Stopped
  <2>2. CASE Eligible(a) /\ a \in Unscheduled \ DueAccounts
    <3>1. state'[a] = Fresh(Slot(a)) /\ state[a] = None
      BY <2>2 DEF Sweep, Rescheduled, Unscheduled
    <3> QED BY <3>1, <2>2, SlotType, FreshType DEF Stopped
  <2>3. CASE Eligible(a) /\ a \notin Unscheduled \ DueAccounts
    <3>1. state'[a] = state[a]
      BY <2>3 DEF Sweep, Rescheduled
    <3> QED BY <3>1, <2>3 DEF Stopped, TypeOK
  <2> QED BY <2>1, <2>2, <2>3
<1>3. state' \in Entries
  BY <1>2 DEF Sweep, Rescheduled, Entries
<1>4. \A a \in Accounts :
        /\ poll'[a] \in Request \cup {None}
        /\ a \in DueAccounts => poll'[a].plan = plan[a]
        /\ a \notin DueAccounts => poll'[a] = poll[a]
  BY SlotType, PlanType DEF Sweep, Request, TypeOK
<1>5. poll' \in [Accounts -> Request \cup {None}]
  BY <1>4 DEF Sweep
<1>6. EarlyOutIsExact' /\ earliest' \in Due
  BY <1>3, SoonestType DEF EarlyOutIsExact, Sweep
<1>7. TypeOK'
  BY <1>3, <1>5, <1>6 DEF Sweep, TypeOK, Entries
<1>8. HaltsAgree' /\ EntriesAreOn'
  BY <1>2 DEF Sweep, HaltsAgree, EntriesAreOn, Eligible
<1>9. PolledAsConfigured' /\ HaltedIsLeftAlone'
  <2> SUFFICES ASSUME NEW a \in Accounts, Current(a)'
      PROVE  ~Stopped(a)' /\ unlocked' /\ Eligible(a)' /\ poll'[a].plan = plan'[a]
    BY DEF PolledAsConfigured, HaltedIsLeftAlone
  <2>1. unlocked' = unlocked /\ unlocked /\ plan' = plan /\ required' = required
    BY DEF Sweep
  <2>2. CASE a \in DueAccounts
    BY <2>1, <2>2, <1>1, <1>2, <1>4 DEF Eligible
  <2>3. CASE a \notin DueAccounts
    <3>1. Current(a) /\ poll'[a] = poll[a]
      BY <2>3, <1>4 DEF Current, InFlight
    <3> QED BY <2>1, <3>1, <1>2 DEF PolledAsConfigured, HaltedIsLeftAlone, Eligible
  <2> QED BY <2>2, <2>3
<1> QED BY <1>6, <1>7, <1>8, <1>9

(* A poll that counts writes one entry, and is over.                       *)
LEMMA RescheduleOK ==
  ASSUME IInv, NEW a \in Accounts, Current(a), NEW entry \in AccountState,
         Reschedule(a, entry),
         halted' = IF entry.due = Never THEN halted \cup {a} ELSE halted
  PROVE  IInv'
<1> USE DEF IInv
<1>1. state' = [state EXCEPT ![a] = entry] /\ state \in Entries
  BY DEF Reschedule, TypeOK, Entries
<1>2. state' \in Entries /\ entry # None
  BY <1>1, SentinelAssumption DEF Entries
<1>3. poll' \in [Accounts -> Request \cup {None}] /\ ~Current(a)'
  BY DEF Reschedule, Land, TypeOK, Current, InFlight
<1>4. EarlyOutIsExact' /\ earliest' \in Due
  BY <1>1, <1>2, SoonestType DEF Reschedule, RememberEarliest, EarlyOutIsExact, Due
<1>5. TypeOK'
  BY <1>2, <1>3, <1>4 DEF Reschedule, TypeOK, Entries
<1>6. ~Stopped(a) /\ Eligible(a)
  BY DEF HaltedIsLeftAlone, PolledAsConfigured
<1>7. Stopped(a)' <=> entry.due = Never
  BY <1>1, <1>2 DEF Stopped, Entries
<1>8. \A b \in Accounts \ {a} :
        state'[b] = state[b] /\ poll'[b] = poll[b] /\ (Stopped(b)' <=> Stopped(b))
  BY <1>1 DEF Reschedule, Land, Stopped, Entries, TypeOK
<1>9. HaltsAgree'
  BY <1>6, <1>7, <1>8 DEF HaltsAgree
<1>10. PolledAsConfigured' /\ HaltedIsLeftAlone' /\ EntriesAreOn'
  <2>1. \A b \in Accounts : Eligible(b)' <=> Eligible(b)
    BY DEF Reschedule, Eligible
  <2>2. unlocked' = unlocked /\ plan' = plan
    BY DEF Reschedule
  <2> QED BY <1>3, <1>6, <1>8, <2>1, <2>2
             DEF PolledAsConfigured, HaltedIsLeftAlone, EntriesAreOn, Current, InFlight
<1> QED BY <1>4, <1>5, <1>9, <1>10

LEMMA NextTurnType ==
  ASSUME TypeOK, NEW a \in Accounts, Current(a)
  PROVE  NextTurn(a) \in Nat
<1>1. poll[a] \in Request
  BY DEF TypeOK, Current, InFlight
<1> QED BY <1>1, SettingsAssumption DEF NextTurn, Request, Plan

LEMMA AccumulatedType ==
  ASSUME TypeOK, NEW a \in Accounts
  PROVE  Failures(a) \in Nat /\ Backoff(a) \in Nat \cup {None} /\ NextBackoff(a) \in Nat
<1>1. Failures(a) \in Nat /\ Backoff(a) \in Nat \cup {None}
  BY DEF TypeOK, Failures, Backoff, AccountState
<1> QED BY <1>1, SettingsAssumption DEF NextBackoff

LEMMA PollLandsOK ==
  ASSUME IInv, NEW a \in Accounts, PollLands(a)
  PROVE  IInv'
<1>0. TypeOK
  BY DEF IInv
<1>1. CASE PollSucceeds(a)
  BY <1>0, <1>1, NextTurnType, FreshType, RescheduleOK DEF PollSucceeds
<1>2. CASE PollNeedsSignIn(a)
  <2> DEFINE entry == [due |-> NextTurn(a), failures |-> Failures(a), backoff |-> Backoff(a)]
  <2>1. Current(a) /\ Reschedule(a, entry) /\ halted' = halted
    BY <1>2 DEF PollNeedsSignIn
  <2>2. entry \in AccountState /\ entry.due # Never
    BY <1>0, <2>1, NextTurnType, AccumulatedType, SentinelAssumption DEF AccountState, Due
  <2> HIDE DEF entry
  <2> QED BY <2>1, <2>2, RescheduleOK
<1>3. CASE PollFails(a)
  <2> DEFINE failures == Failures(a) + 1
             last == [due |-> Never, failures |-> failures, backoff |-> None]
             held == [due |-> NextBackoff(a), failures |-> failures, backoff |-> NextBackoff(a)]
  <2>1. last \in AccountState /\ last.due = Never
    BY <1>0, AccumulatedType DEF AccountState, Due
  <2>2. held \in AccountState /\ held.due # Never
    BY <1>0, AccumulatedType, SentinelAssumption DEF AccountState, Due
  <2>3. /\ Current(a)
        /\ \/ Reschedule(a, last) /\ halted' = halted \cup {a}
           \/ Reschedule(a, held) /\ halted' = halted
    BY <1>3 DEF PollFails
  <2> HIDE DEF last, held
  <2> QED BY <2>1, <2>2, <2>3, RescheduleOK
<1>4. CASE PollDisowned(a)
  <2>1. /\ poll' \in [Accounts -> Request \cup {None}] /\ poll'[a] = None
        /\ \A b \in Accounts \ {a} : poll'[b] = poll[b]
    BY <1>0, <1>4 DEF PollDisowned, Land, TypeOK
  <2>2. UNCHANGED <<unlocked, plan, required, state, halted, scheduleDirty, earliest, parked>>
    BY <1>4 DEF PollDisowned
  <2> QED BY <2>1, <2>2 DEF IInv, TypeOK, EarlyOutIsExact, HaltsAgree, Stopped, PolledAsConfigured,
                            HaltedIsLeftAlone, EntriesAreOn, Current, InFlight, Eligible
<1> QED BY <1>1, <1>2, <1>3, <1>4 DEF PollLands

-----------------------------------------------------------------------------
LEMMA StepOK == IInv /\ [Next]_vars => IInv'
<1> SUFFICES ASSUME IInv, [Next]_vars PROVE IInv'
  OBVIOUS
<1>1. CASE UNCHANGED vars
  BY <1>1 DEF vars, IInv, TypeOK, EarlyOutIsExact, HaltsAgree, Stopped, PolledAsConfigured,
              HaltedIsLeftAlone, EntriesAreOn, Current, InFlight, Eligible
<1>2. ASSUME NEW a \in Accounts, SaveSettings(a) \/ ForgetAccount(a) \/ PollLands(a)
      PROVE  IInv'
  BY <1>2, SaveSettingsOK, ForgetAccountOK, PollLandsOK
<1> QED BY <1>1, <1>2, StartOK, StopOK, RequireProxiesOK, RelaxProxiesOK, BeatOK, SweepOK DEF Next

LEMMA InvariantHolds == Spec => []IInv
BY InitOK, StepOK, PTL DEF Spec

(* Every variable keeps its type, for any settings and any number of       *)
(* accounts.                                                               *)
THEOREM TypeCorrect == Spec => []TypeOK
BY InvariantHolds, PTL DEF IInv

(* A poll that may still raise a toast, approve something or write the     *)
(* schedule was begun under the settings in force now: no lock, save,      *)
(* change of route or of the policy lets an older one count.               *)
THEOREM PolledAsConfiguredAlways == Spec => []PolledAsConfigured
BY InvariantHolds, PTL DEF IInv

(* The scheduler's deadline is exact whatever lands, elapses or is saved,  *)
(* so that no due account waits for another one's turn.                    *)
THEOREM EarlyOutIsExactAlways == Spec => []EarlyOutIsExact
BY InvariantHolds, PTL DEF IInv

(* The accounts announced as halted are the stopped ones, and no request   *)
(* that counts is made for them.                                           *)
THEOREM HaltsAreHonest == Spec => [](HaltsAgree /\ HaltedIsLeftAlone)
BY InvariantHolds, PTL DEF IInv

-----------------------------------------------------------------------------
(* The engine among the rest of the application.                           *)
LEMMA EngineStep == [AllNext]_allVars => [Next]_vars
<1> SUFFICES ASSUME [AllNext]_allVars, ~UNCHANGED vars PROVE Next
  OBVIOUS
<1>1. AllNext
  BY DEF allVars
<1>2. CASE Elsewhere
  BY <1>2 DEF Elsewhere, Next
<1>3. CASE Locks
  BY <1>3 DEF Locks, Next
<1>4. CASE Beats
  BY <1>4 DEF Beats, Next
<1>5. CASE HostAnswers
  BY <1>5 DEF HostAnswers
<1>6. ASSUME NEW a \in Accounts, Routed(a)
      PROVE  Next
  BY <1>6 DEF Routed, Next
<1>7. ASSUME NEW a \in Accounts, Lands(a)
      PROVE  Next
  <2>1. PollLands(a)
    BY <1>7 DEF Lands, Succeeds, NeedsSignIn, Fails, ReturnsDisowned, PollLands
  <2> QED BY <2>1 DEF Next
<1> QED BY <1>1, <1>2, <1>3, <1>4, <1>5, <1>6, <1>7 DEF AllNext

(* The engine with the notifier it reports to is the engine.               *)
THEOREM ImplementsEngine == AllSpec => Spec
BY EngineStep, PTL DEF AllSpec, Spec, AllInit

(* Every toast that a poll can still raise, for any number of accounts and *)
(* whatever became of earlier toasts, is raised under the settings in      *)
(* force now.                                                              *)
THEOREM RaisedAsConfigured == AllSpec => []PolledAsConfigured
BY ImplementsEngine, PolledAsConfiguredAlways, PTL

-----------------------------------------------------------------------------
(* The notifier's own copy of the library is the library.                  *)
LEMMA SameLibrary ==
  ASSUME NEW S
  PROVE  N!Cardinality(S) = Cardinality(S) /\ (N!IsFiniteSet(S) <=> IsFiniteSet(S))
<1>1. N!Cardinality(S) = Cardinality(S)
  BY DEF N!Cardinality, Cardinality
<1>2. N!IsFiniteSet(S) <=> IsFiniteSet(S)
  BY DEF N!IsFiniteSet, IsFiniteSet
<1> QED BY <1>1, <1>2

(* A new number is one that nothing holds, and the numbers stay few.       *)
LEMMA FreshNumber ==
  ASSUME NEW used, IsFiniteSet(used), Cardinality(used) <= MaxToasts + 1
  PROVE  N!NewNumber(used) \in N!Number /\ N!NewNumber(used) \notin used
<1> DEFINE some == 1..(Cardinality(used) + 1)
           free == some \ used
<1>1. Cardinality(used) \in Nat
  BY FS_CardinalityType
<1>2. IsFiniteSet(some) /\ Cardinality(some) = Cardinality(used) + 1
  BY <1>1, FS_Interval
<1>3. free # {}
  <2>1. ASSUME some \subseteq used PROVE FALSE
    <3>1. Cardinality(some) <= Cardinality(used)
      BY <2>1, FS_Subset
    <3> QED BY <1>1, <1>2, <3>1
  <2> QED BY <2>1
<1>4. free \in SUBSET Nat
  BY <1>1
<1>5. \E d \in free : \A e \in free : d <= e
  BY <1>3, <1>4, SomeLeast
<1>6. N!NewNumber(used) = CHOOSE x \in free : \A y \in free : x <= y
  BY SameLibrary DEF N!NewNumber, N!Min
<1>7. N!NewNumber(used) \in free
  BY <1>5, <1>6
<1> QED BY <1>1, <1>7, NotifierAssumption DEF N!Number

(* The records that a set of toasts yields are no more than the toasts.    *)
LEMMA FewNumbers ==
  ASSUME NEW some, IsFiniteSet(some)
  PROVE  IsFiniteSet(N!Numbers(some)) /\ Cardinality(N!Numbers(some)) <= Cardinality(some)
<1> DEFINE f == [t \in some |-> t.attempt]
<1>1. f \in Surjection(some, N!Numbers(some))
  BY DEF Surjection, N!Numbers
<1> HIDE DEF f
<1> QED BY <1>1, FS_Surjection

Polls == N!Of("poll")
Calls == Polls \cup N!Of("signIn")

LEMMA PollsAreTyped ==
  ASSUME N!TypeOK
  PROVE  /\ \A t \in Polls : t \in N!PollToast /\ t \in toasts
         /\ \A t \in N!PollToast : t.kind = "poll"
         /\ \A t \in toasts : t.attempt \in N!Number
         /\ IsFiniteSet(toasts) /\ Cardinality(toasts) \in Nat /\ Cardinality(toasts) <= MaxToasts
<1>1. IsFiniteSet(toasts) /\ Cardinality(toasts) <= MaxToasts
  BY SameLibrary DEF N!TypeOK
<1>2. Cardinality(toasts) \in Nat
  BY <1>1, FS_CardinalityType
<1>3. toasts \subseteq N!Toast
  BY DEF N!TypeOK
<1>4. \A t \in N!PollToast : t.kind = "poll" /\ t.attempt \in N!Number
  BY DEF N!PollToast
<1>5. \A t \in N!Toast \ N!PollToast : t.kind # "poll" /\ t.attempt \in N!Number
  BY DEF N!Toast
<1>6. \A t \in Polls : t \in toasts /\ t.kind = "poll"
  BY DEF Polls, N!Of
<1> QED BY <1>1, <1>2, <1>3, <1>4, <1>5, <1>6

LEMMA NewAttempt ==
  ASSUME N!TypeOK
  PROVE  N!NextAttempt \in N!Number /\ \A t \in Calls : t.attempt # N!NextAttempt
<1>1. Calls \in SUBSET toasts
  BY DEF Calls, Polls, N!Of
<1>2. IsFiniteSet(Calls) /\ Cardinality(Calls) <= Cardinality(toasts)
  BY <1>1, PollsAreTyped, FS_Subset
<1>3. IsFiniteSet(N!Numbers(Calls)) /\ Cardinality(N!Numbers(Calls)) <= Cardinality(Calls)
  BY <1>2, FewNumbers
<1>4. Cardinality(Calls) \in Nat /\ Cardinality(N!Numbers(Calls)) \in Nat
  BY <1>2, <1>3, FS_CardinalityType
<1>5. Cardinality(N!Numbers(Calls)) <= MaxToasts + 1
  BY <1>2, <1>3, <1>4, PollsAreTyped, NotifierAssumption
<1>6. N!NextAttempt = N!NewNumber(N!Numbers(Calls))
  BY DEF N!NextAttempt, Calls, Polls
<1>7. N!NextAttempt \in N!Number /\ N!NextAttempt \notin N!Numbers(Calls)
  BY <1>3, <1>5, <1>6, FreshNumber
<1> QED BY <1>7 DEF N!Numbers

LEMMA NewChange ==
  ASSUME N!TypeOK
  PROVE  N!NextChange \in N!Number
<1> DEFINE claiming == {u \in Polls : u.claim # None}
           f == [t \in claiming |-> t.claim.revision]
           held == {t.claim.revision : t \in claiming}
           due == IF memory = None \/ memory.due = None THEN {} ELSE {memory.due.revision}
<1>1. claiming \in SUBSET toasts
  BY DEF Polls, N!Of
<1>2. IsFiniteSet(claiming) /\ Cardinality(claiming) <= Cardinality(toasts)
  BY <1>1, PollsAreTyped, FS_Subset
<1>3. f \in Surjection(claiming, held)
  BY DEF Surjection
<1>4. IsFiniteSet(held) /\ Cardinality(held) <= Cardinality(claiming)
  <2> HIDE DEF f, held, claiming
  <2> QED BY <1>2, <1>3, FS_Surjection
<1>5. N!Changes = held \cup due
  BY DEF N!Changes, Polls
<1> HIDE DEF held, claiming, f
<1>6. IsFiniteSet(due) /\ Cardinality(due) \in Nat /\ Cardinality(due) <= 1
  <2>1. IsFiniteSet({}) /\ Cardinality({}) = 0
    BY FS_EmptySet
  <2>2. IsFiniteSet({memory.due.revision}) /\ Cardinality({memory.due.revision}) = 1
    BY FS_Singleton
  <2> QED BY <2>1, <2>2
<1>7. IsFiniteSet(held \cup due)
      /\ Cardinality(held \cup due) = Cardinality(held) + Cardinality(due) - Cardinality(held \cap due)
  BY <1>4, <1>6, FS_Union
<1>8. IsFiniteSet(held \cap due)
  BY <1>4, FS_Intersection
<1>9. /\ Cardinality(claiming) \in Nat /\ Cardinality(held) \in Nat
      /\ Cardinality(held \cap due) \in Nat /\ Cardinality(held \cup due) \in Nat
  BY <1>2, <1>4, <1>7, <1>8, FS_CardinalityType
<1>10. Cardinality(held \cup due) <= MaxToasts + 1
  BY <1>2, <1>4, <1>6, <1>7, <1>9, PollsAreTyped, NotifierAssumption
<1> QED BY <1>5, <1>7, <1>10, FreshNumber DEF N!NextChange

(* What a list does to a toast on its way.                                 *)
Grown(u, t, awaiting, unreadable, epoch) ==
  /\ u \in N!PollToast
  /\ u.attempt = t.attempt /\ u.ids = t.ids /\ u.claim = t.claim
  /\ u.count = t.count /\ u.seed = t.seed /\ u.mine = t.mine
  /\ u.about = t.about \cap awaiting
  /\ u.episode = (t.episode /\ unreadable > 0)
  /\ u.epoch = (t.epoch /\ epoch)

LEMMA AgedToast ==
  ASSUME NEW awaiting \in SUBSET Confirms, NEW unreadable \in Nat, NEW epoch,
         NEW t \in N!PollToast
  PROVE  Grown(N!Aged(t, awaiting, unreadable, epoch), t, awaiting, unreadable, epoch)
<1> DEFINE u == N!Aged(t, awaiting, unreadable, epoch)
<1>1. t.kind = "poll"
  BY DEF N!PollToast
<1>2. u = [t EXCEPT !.about = @ \cap awaiting, !.episode = @ /\ unreadable > 0,
                    !.epoch = @ /\ epoch]
  BY <1>1 DEF N!Aged
<1> HIDE DEF u
<1>3. /\ u.attempt = t.attempt /\ u.ids = t.ids /\ u.claim = t.claim
      /\ u.count = t.count /\ u.seed = t.seed /\ u.mine = t.mine
      /\ u.about = t.about \cap awaiting
  BY <1>2 DEF N!PollToast
<1>4. u.episode = (t.episode /\ unreadable > 0)
  BY <1>2, Zenon DEF N!PollToast
<1>5. u.epoch = (t.epoch /\ epoch)
  BY <1>2, Zenon DEF N!PollToast
<1>6. (t.episode /\ unreadable > 0) \in BOOLEAN /\ (t.epoch /\ epoch) \in BOOLEAN
  OBVIOUS
<1>7. u \in N!PollToast
  BY <1>2, <1>6 DEF N!PollToast
<1>8. Grown(u, t, awaiting, unreadable, epoch)
  BY <1>3, <1>4, <1>5, <1>7, Zenon DEF Grown
<1> QED BY <1>8 DEF u

(* The toasts that report a poll, agedToasts old.                               *)
Older(awaiting, unreadable, epoch) ==
  {N!Aged(t, awaiting, unreadable, epoch) : t \in Polls}

(* A list ages the toasts on their way, and what it says joins them.       *)
LEMMA ListedToasts ==
  ASSUME N!TypeOK, NEW awaiting \in SUBSET Confirms, NEW unreadable \in Nat,
         NEW epoch, NEW said \in SUBSET N!PollToast,
         said = {} \/ (N!Room /\ \E s : said = {s}),
         N!Listed(awaiting, unreadable, epoch, said)
  PROVE  /\ toasts' \subseteq N!Toast /\ N!IsFiniteSet(toasts') /\ N!Cardinality(toasts') <= MaxToasts
         /\ heard' \in SUBSET Confirms /\ heardCount' \in Nat
         /\ Polls' = Older(awaiting, unreadable, epoch) \cup said
         /\ N!Of("signIn")' = N!Of("signIn") /\ N!Of("halt")' = N!Of("halt")
<1> DEFINE f == [t \in toasts |-> N!Aged(t, awaiting, unreadable, epoch)]
           agedToasts == {N!Aged(t, awaiting, unreadable, epoch) : t \in toasts}
<1>1. toasts' = agedToasts \cup said
  BY DEF N!Listed
<1>2. f \in Surjection(toasts, agedToasts)
  BY DEF Surjection
<1>3. IsFiniteSet(agedToasts) /\ Cardinality(agedToasts) <= Cardinality(toasts) /\ Cardinality(agedToasts) \in Nat
  <2> HIDE DEF f, agedToasts
  <2>1. IsFiniteSet(agedToasts) /\ Cardinality(agedToasts) <= Cardinality(toasts)
    BY <1>2, PollsAreTyped, FS_Surjection
  <2> QED BY <2>1, FS_CardinalityType
<1>4. IsFiniteSet(toasts') /\ Cardinality(toasts') <= MaxToasts
  <2> HIDE DEF f, agedToasts
  <2>1. CASE said = {}
    BY <1>1, <1>3, <2>1, PollsAreTyped, NotifierAssumption
  <2>2. CASE N!Room /\ \E s : said = {s}
    <3>1. PICK s : said = {s}
      BY <2>2
    <3>2. /\ IsFiniteSet(agedToasts \cup {s})
          /\ Cardinality(agedToasts \cup {s}) = IF s \in agedToasts THEN Cardinality(agedToasts) ELSE Cardinality(agedToasts) + 1
      BY <1>3, FS_AddElement
    <3>3. Cardinality(toasts) < MaxToasts
      BY <2>2, SameLibrary DEF N!Room
    <3> QED BY <1>1, <1>3, <3>1, <3>2, <3>3, PollsAreTyped, NotifierAssumption
  <2> QED BY <2>1, <2>2
<1>5. \A t \in toasts : /\ t \in Polls => N!Aged(t, awaiting, unreadable, epoch) \in N!PollToast
                        /\ t \notin Polls => N!Aged(t, awaiting, unreadable, epoch) = t
  <2>1. ASSUME NEW t \in Polls PROVE N!Aged(t, awaiting, unreadable, epoch) \in N!PollToast
    BY <2>1, PollsAreTyped, AgedToast DEF Grown
  <2>2. ASSUME NEW t \in toasts \ Polls PROVE N!Aged(t, awaiting, unreadable, epoch) = t
    BY <2>2 DEF Polls, N!Of, N!Aged
  <2> QED BY <2>1, <2>2
<1>6. \A s \in said : s.kind = "poll"
  BY PollsAreTyped
<1>7. \A t \in Polls : N!Aged(t, awaiting, unreadable, epoch).kind = "poll"
  BY <1>5, PollsAreTyped
<1>8. Polls' = Older(awaiting, unreadable, epoch) \cup said
  <2>1. \A t \in toasts \ Polls : t.kind # "poll"
    BY DEF Polls, N!Of
  <2>2. Polls' = {t \in toasts' : t.kind = "poll"}
    BY DEF Polls, N!Of
  <2> QED BY <1>1, <1>5, <1>6, <1>7, <2>1, <2>2, PollsAreTyped DEF Older
<1>9. ASSUME NEW kind \in {"signIn", "halt"} PROVE N!Of(kind)' = N!Of(kind)
  <2>1. N!Of(kind) \cap Polls = {}
    BY DEF N!Of, Polls
  <2>2. N!Of(kind)' = {t \in toasts' : t.kind = kind} /\ N!Of(kind) = {t \in toasts : t.kind = kind}
    BY DEF N!Of
  <2>3. \A s \in said : s.kind # kind
    BY <1>6
  <2>4. \A t \in Polls : N!Aged(t, awaiting, unreadable, epoch).kind # kind
    BY <1>7
  <2> QED BY <1>1, <1>5, <2>1, <2>2, <2>3, <2>4
<1>10. toasts' \subseteq N!Toast
  BY <1>1, <1>5, PollsAreTyped DEF N!TypeOK, N!Toast
<1>11. heard' \in SUBSET Confirms /\ heardCount' \in Nat
  BY DEF N!Listed, N!TypeOK, N!Least
<1> QED BY <1>4, <1>8, <1>9, <1>10, <1>11, SameLibrary

(* What a toast says, and the marks it leaves, whatever it is about.       *)
LEMMA SaysToast ==
  ASSUME N!TypeOK, NEW m \in N!Record, NEW ids \in SUBSET Confirms, NEW unreadable \in Nat,
         NEW seed \in BOOLEAN, NEW s, s = N!Says(ids, m, unreadable, seed)
  PROVE  /\ s \in N!PollToast
         /\ s.attempt = N!NextAttempt /\ s.ids = ids /\ s.claim = m.due /\ s.count = unreadable
         /\ s.mine /\ s.about = ids /\ s.episode /\ s.epoch
<1>1. m.due \in N!Claim \cup {None} /\ N!NextAttempt \in N!Number
  BY NewAttempt DEF N!Record
<1> QED BY <1>1 DEF N!Says, N!PollToast

LEMMA MarkedRecord ==
  ASSUME N!TypeOK, NEW m \in N!Record, NEW ids \in SUBSET Confirms,
         NEW r, r = N!Marked(m, ids)
  PROVE  /\ r \in N!Record
         /\ r.seeded = m.seeded /\ r.told = m.told /\ r.signInBy = m.signInBy
         /\ r.due = m.due /\ r.delivered = m.delivered /\ r.last = m.last
         /\ DOMAIN r.seen = DOMAIN m.seen \cup ids
         /\ \A x \in DOMAIN r.seen : r.seen[x] = IF x \in ids THEN N!NextAttempt ELSE m.seen[x]
         /\ m.due = None => r.claims = m.claims
         /\ m.due # None =>
              /\ DOMAIN r.claims = DOMAIN m.claims \cup {N!NextAttempt}
              /\ \A k \in DOMAIN r.claims :
                   r.claims[k] = IF k = N!NextAttempt THEN m.due.revision ELSE m.claims[k]
<1> DEFINE seen == [x \in DOMAIN m.seen \cup ids |-> IF x \in ids THEN N!NextAttempt ELSE m.seen[x]]
           claims == IF m.due = None THEN m.claims
                     ELSE N!With(m.claims, N!NextAttempt, m.due.revision)
<1>1. N!NextAttempt \in N!Number
  BY NewAttempt
<1>2. /\ m.seen \in N!Partial(Confirms) /\ m.claims \in N!Partial(N!Number)
      /\ m.due \in N!Claim \cup {None}
  BY DEF N!Record
<1>3. PICK S \in SUBSET Confirms : m.seen \in [S -> {0} \cup N!Number]
  BY <1>2 DEF N!Partial
<1>4. PICK K \in SUBSET N!Number : m.claims \in [K -> {0} \cup N!Number]
  BY <1>2 DEF N!Partial
<1>5. seen \in [S \cup ids -> {0} \cup N!Number] /\ S \cup ids \in SUBSET Confirms
  BY <1>1, <1>3
<1>6. seen \in N!Partial(Confirms)
  BY <1>5 DEF N!Partial
<1>7. /\ claims \in N!Partial(N!Number)
      /\ m.due = None => claims = m.claims
      /\ m.due # None =>
           /\ DOMAIN claims = DOMAIN m.claims \cup {N!NextAttempt}
           /\ \A k \in DOMAIN claims :
                claims[k] = IF k = N!NextAttempt THEN m.due.revision ELSE m.claims[k]
  <2>1. CASE m.due = None
    BY <1>2, <2>1
  <2>2. CASE m.due # None
    <3>1. m.due.revision \in N!Number
      BY <1>2, <2>2 DEF N!Claim
    <3>2. claims = [k \in K \cup {N!NextAttempt} |->
                      IF k = N!NextAttempt THEN m.due.revision ELSE m.claims[k]]
      BY <1>4, <2>2 DEF N!With
    <3>3. claims \in [K \cup {N!NextAttempt} -> {0} \cup N!Number]
      BY <1>1, <1>4, <3>1, <3>2
    <3>4. K \cup {N!NextAttempt} \in SUBSET N!Number
      BY <1>1
    <3>5. claims \in N!Partial(N!Number)
      <4> HIDE DEF claims
      <4> QED BY <3>3, <3>4 DEF N!Partial
    <3> QED BY <1>4, <2>2, <3>2, <3>5
  <2> QED BY <2>1, <2>2
<1>8. r = [m EXCEPT !.seen = seen, !.claims = claims]
  BY DEF N!Marked
<1> HIDE DEF claims
<1>9. /\ r \in N!Record /\ r.seen = seen /\ r.claims = claims
      /\ r.seeded = m.seeded /\ r.told = m.told /\ r.signInBy = m.signInBy
      /\ r.due = m.due /\ r.delivered = m.delivered /\ r.last = m.last
  <2> HIDE DEF seen
  <2> QED BY <1>6, <1>7, <1>8 DEF N!Record
<1> QED BY <1>7, <1>9

(* The count of a record is balanced when nothing is due any more only if  *)
(* the user knows of as many, and what was delivered is part of that.      *)
Balanced(m, known) ==
  /\ m.delivered <= m.last /\ m.delivered <= known
  /\ IF m.due = None THEN known >= m.last ELSE m.due.count = m.last /\ m.last > 0

LEMMA CoveredRecord ==
  ASSUME NEW m \in N!Record, NEW r, r = N!Covered(m)
  PROVE  /\ r \in N!Record
         /\ r.seeded = m.seeded /\ r.seen = m.seen /\ r.told = m.told
         /\ r.signInBy = m.signInBy /\ r.claims = m.claims
         /\ r.delivered = m.delivered /\ r.last = m.last
         /\ IF m.due # None /\ m.delivered >= m.due.count THEN r.due = None ELSE r.due = m.due
BY DEF N!Covered, N!Record

LEMMA LevelRecord ==
  ASSUME N!TypeOK, NEW m \in N!Record, NEW unreadable \in Nat, NEW known \in Nat,
         Balanced(m, known), NEW r, r = N!Level(m, unreadable)
  PROVE  /\ r \in N!Record
         /\ r.seeded = m.seeded /\ r.seen = m.seen /\ r.told = m.told
         /\ r.signInBy = m.signInBy /\ r.claims = m.claims
         /\ r.last = unreadable /\ Balanced(r, N!Least(known, unreadable))
<1> DEFINE news == [revision |-> N!NextChange, count |-> unreadable]
           less == IF m.due = None THEN m.due ELSE [m.due EXCEPT !.count = unreadable]
           level ==
             CASE unreadable > m.last ->
                    IF unreadable > m.delivered THEN [m EXCEPT !.due = news] ELSE m
               [] unreadable = 0 -> [m EXCEPT !.due = None, !.delivered = 0]
               [] OTHER -> [m EXCEPT !.delivered = N!Least(m.delivered, unreadable), !.due = less]
<1>0. r = IF unreadable = m.last THEN m ELSE N!Covered([level EXCEPT !.last = unreadable])
  BY Zenon DEF N!Level
<1>1. news \in N!Claim /\ news.count = unreadable /\ news # None
  BY NewChange, NoticeAssumption DEF N!Claim
<1>2. /\ m.due \in N!Claim \cup {None} /\ m.delivered \in Nat /\ m.last \in Nat
      /\ None \notin N!Claim
  BY NoticeAssumption DEF N!Record
<1>3. /\ less \in N!Claim \cup {None} /\ (less = None <=> m.due = None)
      /\ less # None => less.count = unreadable
  BY <1>2 DEF N!Claim
<1>4. CASE unreadable = m.last
  BY <1>2, <1>4 DEF N!Level, N!Least, Balanced
<1>5. CASE unreadable > m.last
  <2>1. unreadable > m.delivered
    BY <1>2, <1>5 DEF Balanced
  <2>2. level = [m EXCEPT !.due = news]
    BY <1>2, <1>5, <2>1
  <2> HIDE DEF news, level
  <2>3. PICK n : n = [[m EXCEPT !.due = news] EXCEPT !.last = unreadable]
    OBVIOUS
  <2>a. r = N!Covered(n)
    BY <1>0, <1>2, <1>5, <2>2, <2>3
  <2>4. /\ n \in N!Record /\ n.seeded = m.seeded /\ n.seen = m.seen /\ n.told = m.told
        /\ n.signInBy = m.signInBy /\ n.claims = m.claims
        /\ n.delivered = m.delivered /\ n.last = unreadable /\ n.due = news
    BY <1>1, <2>3 DEF N!Record
  <2>5. /\ r \in N!Record /\ r.seeded = n.seeded /\ r.seen = n.seen /\ r.told = n.told
        /\ r.signInBy = n.signInBy /\ r.claims = n.claims
        /\ r.delivered = n.delivered /\ r.last = n.last /\ r.due = n.due
    BY <1>1, <1>2, <2>1, <2>a, <2>4, CoveredRecord
  <2>6. Balanced(r, N!Least(known, unreadable))
    BY <1>1, <1>2, <1>5, <2>1, <2>4, <2>5 DEF N!Least, Balanced
  <2> QED BY <2>4, <2>5, <2>6
<1>6. CASE unreadable < m.last /\ unreadable = 0
  <2>1. level = [m EXCEPT !.due = None, !.delivered = 0]
    BY <1>2, <1>6
  <2> HIDE DEF news, less, level
  <2>2. PICK n : n = [[m EXCEPT !.due = None, !.delivered = 0] EXCEPT !.last = unreadable]
    OBVIOUS
  <2>a. r = N!Covered(n)
    BY <1>0, <1>6, <1>2, <2>1, <2>2
  <2>3. /\ n \in N!Record /\ n.seeded = m.seeded /\ n.seen = m.seen /\ n.told = m.told
        /\ n.signInBy = m.signInBy /\ n.claims = m.claims
        /\ n.delivered = 0 /\ n.last = unreadable /\ n.due = None
    BY <2>2 DEF N!Record
  <2>4. /\ r \in N!Record /\ r.seeded = n.seeded /\ r.seen = n.seen /\ r.told = n.told
        /\ r.signInBy = n.signInBy /\ r.claims = n.claims
        /\ r.delivered = n.delivered /\ r.last = n.last /\ r.due = n.due
    BY <2>a, <2>3, CoveredRecord
  <2>5. Balanced(r, N!Least(known, unreadable))
    BY <1>6, <2>3, <2>4 DEF N!Least, Balanced
  <2> QED BY <2>3, <2>4, <2>5
<1>7. CASE unreadable < m.last /\ unreadable # 0
  <2>1. level = [m EXCEPT !.delivered = N!Least(m.delivered, unreadable), !.due = less]
    BY <1>2, <1>7
  <2> HIDE DEF news, less, level
  <2>2. PICK n : n = [[m EXCEPT !.delivered = N!Least(m.delivered, unreadable), !.due = less]
                        EXCEPT !.last = unreadable]
    OBVIOUS
  <2>3. r = N!Covered(n)
    BY <1>0, <1>2, <1>7, <2>1, <2>2
  <2>4. N!Least(m.delivered, unreadable) \in Nat
    BY <1>2 DEF N!Least
  <2>5. /\ n \in N!Record /\ n.seeded = m.seeded /\ n.seen = m.seen /\ n.told = m.told
        /\ n.signInBy = m.signInBy /\ n.claims = m.claims
        /\ n.delivered = N!Least(m.delivered, unreadable) /\ n.last = unreadable /\ n.due = less
    BY <1>3, <2>2, <2>4 DEF N!Record
  <2>6. /\ r \in N!Record /\ r.seeded = n.seeded /\ r.seen = n.seen /\ r.told = n.told
        /\ r.signInBy = n.signInBy /\ r.claims = n.claims
        /\ r.delivered = n.delivered /\ r.last = n.last
        /\ IF n.due # None /\ n.delivered >= n.due.count THEN r.due = None ELSE r.due = n.due
    BY <2>3, <2>5, CoveredRecord
  <2>7. Balanced(r, N!Least(known, unreadable))
    BY <1>2, <1>3, <1>7, <2>5, <2>6 DEF N!Least, Balanced
  <2> QED BY <2>5, <2>6, <2>7
<1> QED BY <1>2, <1>4, <1>5, <1>6, <1>7

-----------------------------------------------------------------------------
(* The inductive invariant.  Toasts that report a poll or a sign-in are    *)
(* told apart by their attempt.                                            *)
ToldApart == \A t, u \in Calls : t.attempt = u.attempt => t = u

(* Before the first list nothing was said, and nothing on its way is the   *)
(* account's any more.                                                     *)
NothingListed ==
  memory = None \/ ~memory.seeded =>
    /\ heard = {}
    /\ \A t \in Polls : ~t.mine /\ t.about = {} /\ ~t.episode /\ ~t.epoch
    /\ memory # None =>
         /\ DOMAIN memory.seen = {} /\ DOMAIN memory.claims = {}
         /\ memory.due = None /\ memory.last = 0 /\ memory.delivered = 0

(* Every mark is that of a toast on its way that tells of the confirmation,*)
(* every such toast has its marks, and what was told stays marked as told; *)
(* but for the confirmations `ids', about to be said.                      *)
MarksBut(m, polls, told, ids) ==
  /\ \A t \in polls : \A x \in t.about :
       t.mine /\ x \in DOMAIN m.seen /\ m.seen[x] = t.attempt /\ x \notin ids
  /\ \A x \in DOMAIN m.seen \ ids :
       IF m.seen[x] = 0 THEN x \in told \/ x \notin Critical
       ELSE \E t \in polls : t.mine /\ t.attempt = m.seen[x] /\ x \in t.ids /\ x \in t.about
  /\ \A x \in told : x \in DOMAIN m.seen /\ m.seen[x] = 0 /\ x \notin ids

(* Every claim is that of a toast on its way, for as many as it tells of.  *)
Claimed(m, polls) ==
  \A k \in DOMAIN m.claims : \E t \in polls :
    t.mine /\ t.attempt = k /\ t.claim # None /\ t.claim.revision = m.claims[k]
ClaimsCount(polls) == \A t \in polls : t.claim # None => t.claim.count = t.count

(* A toast that may still cover what is due is of the present episode.     *)
EpochsHold(m, polls) ==
  \A t \in polls : t.claim # None /\ t.epoch => m.last > 0 /\ t.episode

(* The inductive invariant.                                                *)
Hears ==
  /\ N!TypeOK /\ ToldApart /\ NothingListed /\ ClaimsCount(Polls)
  /\ memory # None =>
       /\ MarksBut(memory, Polls, heard, {}) /\ Claimed(memory, Polls)
       /\ Balanced(memory, heardCount) /\ EpochsHold(memory, Polls)

(* A list that speaks of `ids' marks them, and its toast bears the marks.  *)
LEMMA Spoken ==
  ASSUME N!TypeOK, NEW m \in N!Record, NEW polls \in SUBSET N!PollToast,
         \A t \in polls : t.attempt # N!NextAttempt,
         NEW ids \in SUBSET Confirms, NEW told, NEW known, NEW seed \in BOOLEAN,
         MarksBut(m, polls, told, ids), Claimed(m, polls), EpochsHold(m, polls),
         ClaimsCount(polls), Balanced(m, known),
         NEW r, r = N!Marked(m, ids), NEW s, s = N!Says(ids, m, m.last, seed)
  PROVE  /\ MarksBut(r, polls \cup {s}, told, {}) /\ Claimed(r, polls \cup {s})
         /\ EpochsHold(r, polls \cup {s}) /\ ClaimsCount(polls \cup {s}) /\ Balanced(r, known)
<1>1. /\ s \in N!PollToast
      /\ s.attempt = N!NextAttempt /\ s.ids = ids /\ s.claim = m.due /\ s.count = m.last
      /\ s.mine /\ s.about = ids /\ s.episode /\ s.epoch
  <2>1. m.last \in Nat
    BY DEF N!Record
  <2> QED BY <2>1, SaysToast
<1>2. /\ r.due = m.due /\ r.delivered = m.delivered /\ r.last = m.last
      /\ DOMAIN r.seen = DOMAIN m.seen \cup ids
      /\ \A x \in DOMAIN r.seen : r.seen[x] = IF x \in ids THEN N!NextAttempt ELSE m.seen[x]
      /\ m.due = None => r.claims = m.claims
      /\ m.due # None =>
           /\ DOMAIN r.claims = DOMAIN m.claims \cup {N!NextAttempt}
           /\ \A k \in DOMAIN r.claims :
                r.claims[k] = IF k = N!NextAttempt THEN m.due.revision ELSE m.claims[k]
  BY MarkedRecord
<1>3. N!NextAttempt # 0
  BY NewAttempt DEF N!Number
<1>4. MarksBut(r, polls \cup {s}, told, {})
  <2>1. ASSUME NEW t \in polls \cup {s}, NEW x \in t.about
        PROVE  t.mine /\ x \in DOMAIN r.seen /\ r.seen[x] = t.attempt
    BY <1>1, <1>2, <2>1 DEF MarksBut
  <2>2. ASSUME NEW x \in DOMAIN r.seen, r.seen[x] = 0
        PROVE  x \in told \/ x \notin Critical
    BY <1>2, <1>3, <2>2 DEF MarksBut
  <2>3. ASSUME NEW x \in DOMAIN r.seen, r.seen[x] # 0
        PROVE  \E t \in polls \cup {s} :
                 t.mine /\ t.attempt = r.seen[x] /\ x \in t.ids /\ x \in t.about
    BY <1>1, <1>2, <2>3 DEF MarksBut
  <2>4. \A x \in told : x \in DOMAIN r.seen /\ r.seen[x] = 0
    BY <1>2 DEF MarksBut
  <2> QED BY <2>1, <2>2, <2>3, <2>4 DEF MarksBut
<1>5. Claimed(r, polls \cup {s})
  BY <1>1, <1>2 DEF Claimed
<1>6. EpochsHold(r, polls \cup {s}) /\ ClaimsCount(polls \cup {s})
  BY <1>1, <1>2 DEF EpochsHold, ClaimsCount, Balanced
<1>7. Balanced(r, known)
  BY <1>2 DEF Balanced
<1> QED BY <1>4, <1>5, <1>6, <1>7

(* Toasts grow old without becoming alike.                                 *)
LEMMA StillApart ==
  ASSUME N!TypeOK, ToldApart, NEW awaiting \in SUBSET Confirms, NEW unreadable \in Nat,
         NEW epoch, NEW said \in SUBSET N!PollToast,
         said = {} \/ (\E s : said = {s} /\ s.attempt = N!NextAttempt),
         Polls' = Older(awaiting, unreadable, epoch) \cup said,
         N!Of("signIn")' = N!Of("signIn")
  PROVE  ToldApart'
<1> DEFINE agedToasts == Older(awaiting, unreadable, epoch)
           before == agedToasts \cup N!Of("signIn")
<1>1. \A t \in Calls : t.attempt # N!NextAttempt
  BY NewAttempt
<1>2. \A t \in Polls : N!Aged(t, awaiting, unreadable, epoch).attempt = t.attempt
  <2> SUFFICES ASSUME NEW t \in Polls
               PROVE  N!Aged(t, awaiting, unreadable, epoch).attempt = t.attempt
    OBVIOUS
  <2>1. t \in N!PollToast
    BY PollsAreTyped
  <2>2. Grown(N!Aged(t, awaiting, unreadable, epoch), t, awaiting, unreadable, epoch)
    BY <2>1, AgedToast
  <2> QED BY <2>2, Zenon DEF Grown
<1>3. \A t \in before : t.attempt # N!NextAttempt
  BY <1>1, <1>2 DEF Calls, Older
<1>4. \A t, u \in before : t.attempt = u.attempt => t = u
  <2> SUFFICES ASSUME NEW t \in before, NEW u \in before, t.attempt = u.attempt PROVE t = u
    OBVIOUS
  <2>1. PICK t0 \in Calls : /\ t0.attempt = t.attempt
                            /\ t = IF t0 \in Polls THEN N!Aged(t0, awaiting, unreadable, epoch) ELSE t0
    <3>1. CASE t \in agedToasts
      BY <1>2, <3>1 DEF Calls, Older
    <3>2. CASE t \in N!Of("signIn")
      BY <3>2 DEF Calls, Polls, N!Of
    <3> QED BY <3>1, <3>2
  <2>2. PICK u0 \in Calls : /\ u0.attempt = u.attempt
                            /\ u = IF u0 \in Polls THEN N!Aged(u0, awaiting, unreadable, epoch) ELSE u0
    <3>1. CASE u \in agedToasts
      BY <1>2, <3>1 DEF Calls, Older
    <3>2. CASE u \in N!Of("signIn")
      BY <3>2 DEF Calls, Polls, N!Of
    <3> QED BY <3>1, <3>2
  <2>3. t0 = u0
    BY <2>1, <2>2 DEF ToldApart
  <2> QED BY <2>1, <2>2, <2>3
<1>5. Calls' = before \cup said
  BY DEF Calls
<1> HIDE DEF before, agedToasts
<1>6. \A t, u \in Calls' : t.attempt = u.attempt => t = u
  BY <1>3, <1>4, <1>5
<1> QED BY <1>6 DEF ToldApart

(* Every toast has agedToasts old, and every old toast was one.                 *)
LEMMA AgedPolls ==
  ASSUME N!TypeOK, NEW awaiting \in SUBSET Confirms, NEW unreadable \in Nat,
         NEW epoch, NEW agedToasts,
         agedToasts = Older(awaiting, unreadable, epoch)
  PROVE  /\ \A t \in Polls : \E u \in agedToasts : Grown(u, t, awaiting, unreadable, epoch)
         /\ \A u \in agedToasts : \E t \in Polls : Grown(u, t, awaiting, unreadable, epoch)
         /\ agedToasts \in SUBSET N!PollToast /\ \A u \in agedToasts : u.attempt # N!NextAttempt
<1>1. ASSUME NEW t \in Polls
      PROVE  Grown(N!Aged(t, awaiting, unreadable, epoch), t, awaiting, unreadable, epoch)
  BY PollsAreTyped, AgedToast
<1>2. \A t \in Polls : t.attempt # N!NextAttempt
  BY NewAttempt DEF Calls
<1>3. \A u \in agedToasts : \E t \in Polls : Grown(u, t, awaiting, unreadable, epoch)
  BY <1>1 DEF Older
<1>4. \A t \in Polls : \E u \in agedToasts : Grown(u, t, awaiting, unreadable, epoch)
  BY <1>1 DEF Older
<1>5. \A u \in agedToasts : u \in N!PollToast /\ u.attempt # N!NextAttempt
  BY <1>2, <1>3 DEF Grown
<1> QED BY <1>3, <1>4, <1>5

LEMMA AgedCounts ==
  ASSUME N!TypeOK, ClaimsCount(Polls), NEW awaiting \in SUBSET Confirms, NEW unreadable \in Nat,
         NEW epoch, NEW agedToasts,
         agedToasts = Older(awaiting, unreadable, epoch)
  PROVE  ClaimsCount(agedToasts)
<1>1. \A u \in agedToasts : \E t \in Polls : Grown(u, t, awaiting, unreadable, epoch)
  BY AgedPolls
<1> QED BY <1>1 DEF ClaimsCount, Grown

(* The rest of a list's step, once its record and its toast agree.         *)
LEMMA ListOK ==
  ASSUME Hears, NEW awaiting \in SUBSET Confirms, NEW unreadable \in Nat,
         NEW epoch, NEW ids \in SUBSET Confirms, NEW seed \in BOOLEAN,
         NEW m \in N!Record, m.seeded, m.told = FALSE, m.last = unreadable,
         NEW agedToasts, agedToasts = Older(awaiting, unreadable, epoch),
         NEW s, s = N!Says(ids, m, unreadable, seed), NEW said,
         \/ N!Room /\ said = {s} /\ memory' = N!Marked(m, ids)
         \/ ids = {} /\ said = {} /\ memory' = m,
         N!Listed(awaiting, unreadable, epoch, said),
         MarksBut(m, agedToasts, heard', ids), Claimed(m, agedToasts), EpochsHold(m, agedToasts),
         ClaimsCount(agedToasts), Balanced(m, heardCount'),
         heardSignIn' \in BOOLEAN, UNCHANGED N!notices
  PROVE  Hears' /\ memory'.told = FALSE
<1>0. N!TypeOK /\ ToldApart
  BY DEF Hears
<1>1. s \in N!PollToast /\ s.attempt = N!NextAttempt
  BY <1>0, SaysToast
<1>2. said \in SUBSET N!PollToast /\ (said = {} \/ (said = {s} /\ N!Room))
  BY <1>1
<1>4. /\ toasts' \subseteq N!Toast /\ N!IsFiniteSet(toasts') /\ N!Cardinality(toasts') <= MaxToasts
      /\ heard' \in SUBSET Confirms /\ heardCount' \in Nat
      /\ Polls' = Older(awaiting, unreadable, epoch) \cup said
      /\ N!Of("signIn")' = N!Of("signIn") /\ N!Of("halt")' = N!Of("halt")
  <2>1. said = {} \/ (N!Room /\ \E u : said = {u})
    BY <1>2
  <2>2. said \in SUBSET N!PollToast
    BY <1>2
  <2> QED BY <1>0, <2>1, <2>2, ListedToasts
<1>5. ToldApart'
  <2>1. said = {} \/ (\E u : said = {u} /\ u.attempt = N!NextAttempt)
    BY <1>1, <1>2
  <2>2. said \in SUBSET N!PollToast
    BY <1>2
  <2> QED BY <1>0, <1>4, <2>1, <2>2, StillApart
<1>6. /\ memory' \in N!Record /\ memory'.seeded /\ memory'.told = FALSE
      /\ MarksBut(memory', Polls', heard', {}) /\ Claimed(memory', Polls')
      /\ EpochsHold(memory', Polls') /\ ClaimsCount(Polls') /\ Balanced(memory', heardCount')
  <2>1. CASE N!Room /\ said = {s} /\ memory' = N!Marked(m, ids)
    <3>1. memory' = N!Marked(m, ids) /\ Polls' = agedToasts \cup {s}
      BY <1>4, <2>1
    <3>2. memory' \in N!Record /\ memory'.seeded /\ memory'.told = FALSE
      BY <1>0, <3>1, MarkedRecord
    <3>3. agedToasts \in SUBSET N!PollToast /\ \A u \in agedToasts : u.attempt # N!NextAttempt
      <4>1. agedToasts \in SUBSET N!PollToast
        BY <1>0, AgedPolls
      <4>2. \A u \in agedToasts : u.attempt # N!NextAttempt
        BY <1>0, AgedPolls
      <4> QED BY <4>1, <4>2
    <3>4. s = N!Says(ids, m, m.last, seed)
      OBVIOUS
    <3> QED BY <1>0, <3>1, <3>2, <3>3, <3>4, Spoken
  <2>2. CASE ids = {} /\ said = {} /\ memory' = m
    BY <1>4, <2>2
  <2> QED BY <2>1, <2>2
<1>7. N!TypeOK'
  BY <1>0, <1>4, <1>6 DEF N!TypeOK, N!notices
<1>8. NothingListed' /\ memory' # None
  BY <1>6, NoticeAssumption DEF NothingListed
<1> QED BY <1>5, <1>6, <1>7, <1>8 DEF Hears

(* The first list of an account.                                           *)
LEMMA SeedsOK ==
  ASSUME Hears, memory = None \/ ~memory.seeded, NEW awaiting \in SUBSET Confirms,
         NEW unreadable \in Nat, N!Seeds(awaiting, unreadable),
         heardSignIn' \in BOOLEAN, UNCHANGED N!notices
  PROVE  Hears' /\ memory'.told = FALSE
<1> DEFINE loud == awaiting \cap Critical
           due == IF unreadable = 0 THEN None
                  ELSE [revision |-> N!NextChange, count |-> unreadable]
           seen == [x \in awaiting |-> 0]
           n == [N!Blank(FALSE, 0) EXCEPT !.seeded = TRUE, !.due = due, !.last = unreadable,
                                          !.seen = seen]
           speaks == loud # {} \/ unreadable > 0
<1>1. N!TypeOK /\ NothingListed
  BY DEF Hears
<1>2. PICK m : m = n
  OBVIOUS
<1>3. /\ speaks => N!Room
      /\ memory' = IF speaks THEN N!Marked(m, loud) ELSE m
      /\ N!Listed(awaiting, unreadable, FALSE,
                  IF speaks THEN {N!Says(loud, m, unreadable, TRUE)} ELSE {})
  BY <1>2 DEF N!Seeds
<1>4. due \in N!Claim \cup {None} /\ (due = None <=> unreadable = 0)
      /\ (due # None => due.count = unreadable)
  BY <1>1, NewChange, NoticeAssumption DEF N!Claim
<1>5. seen \in N!Partial(Confirms) /\ <<>> \in N!Partial(N!Number) /\ DOMAIN <<>> = {}
  <2>1. seen \in [awaiting -> {0} \cup N!Number]
    OBVIOUS
  <2>2. DOMAIN <<>> = {}
    OBVIOUS
  <2>3. <<>> \in [{} -> {0} \cup N!Number]
    OBVIOUS
  <2> HIDE DEF seen
  <2> QED BY <2>1, <2>2, <2>3 DEF N!Partial
<1>6. /\ m \in N!Record /\ m.seeded /\ m.due = due /\ m.last = unreadable /\ m.delivered = 0
      /\ m.seen = seen /\ m.claims = <<>> /\ m.told = FALSE
  <2> HIDE DEF due, seen
  <2>1. m = [seeded |-> TRUE, seen |-> seen, told |-> FALSE, signInBy |-> 0, due |-> due,
             claims |-> <<>>, delivered |-> 0, last |-> unreadable]
    BY <1>2 DEF N!Blank
  <2> QED BY <1>4, <1>5, <2>1 DEF N!Record
<1> DEFINE agedToasts == Older(awaiting, unreadable, FALSE)
           said == IF speaks THEN {N!Says(loud, m, unreadable, TRUE)} ELSE {}
<1>7. \A u \in agedToasts : ~u.mine /\ u.about = {} /\ ~u.epoch
  <2>1. \A u \in agedToasts : \E t \in Polls : Grown(u, t, awaiting, unreadable, FALSE)
    BY <1>1, AgedPolls
  <2> QED BY <1>1, <2>1 DEF NothingListed, Grown
<1>8. heard' = {} /\ heardCount' \in Nat
  BY <1>1, <1>3 DEF NothingListed, N!Listed, N!Least, N!TypeOK
<1>9. MarksBut(m, agedToasts, heard', loud)
  BY <1>6, <1>7, <1>8 DEF MarksBut
<1>10. Claimed(m, agedToasts)
  BY <1>5, <1>6 DEF Claimed
<1>11. EpochsHold(m, agedToasts)
  BY <1>7 DEF EpochsHold
<1>12. ClaimsCount(agedToasts)
  BY AgedCounts DEF Hears
<1>13. Balanced(m, heardCount')
  BY <1>4, <1>6, <1>8 DEF Balanced
<1>14. loud \in SUBSET Confirms
  OBVIOUS
<1>15. \/ N!Room /\ said = {N!Says(loud, m, unreadable, TRUE)} /\ memory' = N!Marked(m, loud)
       \/ loud = {} /\ said = {} /\ memory' = m
  BY <1>3
<1>16. N!Listed(awaiting, unreadable, FALSE, said)
  BY <1>3
<1> HIDE DEF loud, due, seen, n, speaks, agedToasts, said
<1>17. PICK s : s = N!Says(loud, m, unreadable, TRUE)
  OBVIOUS
<1> QED BY <1>6, <1>9, <1>10, <1>11, <1>12, <1>13, <1>14, <1>15, <1>16, <1>17, ListOK DEF agedToasts

(* Every list after it.                                                    *)
LEMMA UpdatesOK ==
  ASSUME Hears, memory # None, memory.seeded, NEW awaiting \in SUBSET Confirms,
         NEW unreadable \in Nat, N!Updates(awaiting, unreadable),
         heardSignIn' \in BOOLEAN, UNCHANGED N!notices
  PROVE  Hears' /\ memory'.told = FALSE
<1> DEFINE seen == [x \in DOMAIN memory.seen \cap awaiting |-> memory.seen[x]]
           epoch == unreadable > 0 \/ memory.last = 0
           level == N!Level([memory EXCEPT !.told = FALSE, !.seen = seen], unreadable)
           fresh == awaiting \ DOMAIN level.seen
           speaks == fresh # {}
                     \/ (level.due # None /\ level.due.revision \notin N!Range(level.claims))
<1>1. /\ N!TypeOK /\ MarksBut(memory, Polls, heard, {}) /\ Claimed(memory, Polls)
      /\ Balanced(memory, heardCount) /\ EpochsHold(memory, Polls) /\ ClaimsCount(Polls)
  BY DEF Hears
<1>2. memory \in N!Record /\ heardCount \in Nat
  BY <1>1 DEF N!TypeOK
<1>3. seen \in N!Partial(Confirms)
  <2>1. memory.seen \in N!Partial(Confirms)
    BY <1>2 DEF N!Record
  <2>2. PICK S \in SUBSET Confirms : memory.seen \in [S -> {0} \cup N!Number]
    BY <2>1 DEF N!Partial
  <2>3. seen \in [S \cap awaiting -> {0} \cup N!Number] /\ S \cap awaiting \in SUBSET Confirms
    BY <2>2
  <2> HIDE DEF seen
  <2> QED BY <2>3 DEF N!Partial
<1>4. PICK base : base = [memory EXCEPT !.told = FALSE, !.seen = seen]
  OBVIOUS
<1>5. /\ base \in N!Record /\ base.seeded /\ base.told = FALSE /\ base.seen = seen /\ base.claims = memory.claims
      /\ base.due = memory.due /\ base.delivered = memory.delivered /\ base.last = memory.last
  <2> HIDE DEF seen
  <2> QED BY <1>2, <1>3, <1>4 DEF N!Record
<1>6. Balanced(base, heardCount)
  BY <1>1, <1>5 DEF Balanced
<1>7. PICK m : m = N!Level(base, unreadable)
  OBVIOUS
<1>8. m = level
  BY <1>4, <1>7
<1>9. /\ m \in N!Record /\ m.seeded /\ m.told = FALSE /\ m.seen = seen /\ m.claims = memory.claims
      /\ m.last = unreadable /\ Balanced(m, N!Least(heardCount, unreadable))
  BY <1>1, <1>2, <1>5, <1>6, <1>7, LevelRecord
<1>10. PICK ids : ids = fresh
  OBVIOUS
<1>11. /\ speaks => N!Room
       /\ memory' = IF speaks THEN N!Marked(m, ids) ELSE m
       /\ N!Listed(awaiting, unreadable, epoch,
                   IF speaks THEN {N!Says(ids, m, unreadable, FALSE)} ELSE {})
  BY <1>8, <1>10 DEF N!Updates, N!Restrict
<1>12. ids \in SUBSET Confirms /\ ids = awaiting \ DOMAIN memory.seen
  BY <1>8, <1>9, <1>10
<1> DEFINE agedToasts == Older(awaiting, unreadable, epoch)
           said == IF speaks THEN {N!Says(ids, m, unreadable, FALSE)} ELSE {}
<1>13. \/ N!Room /\ said = {N!Says(ids, m, unreadable, FALSE)} /\ memory' = N!Marked(m, ids)
       \/ ids = {} /\ said = {} /\ memory' = m
  BY <1>10, <1>11
<1>14. N!Listed(awaiting, unreadable, epoch, said)
  BY <1>11
<1> HIDE DEF speaks, fresh, level, said
<1>15. heard' = heard \cap awaiting /\ heardCount' = N!Least(heardCount, unreadable)
  BY <1>11 DEF N!Listed
<1>16. /\ \A t \in Polls : \E u \in agedToasts : Grown(u, t, awaiting, unreadable, epoch)
       /\ \A u \in agedToasts : \E t \in Polls : Grown(u, t, awaiting, unreadable, epoch)
  <2> HIDE DEF epoch
  <2> QED BY <1>1, AgedPolls
<1> HIDE DEF agedToasts
<1>17. MarksBut(m, agedToasts, heard', ids)
  <2>1. ASSUME NEW u \in agedToasts, NEW x \in u.about
        PROVE  u.mine /\ x \in DOMAIN m.seen /\ m.seen[x] = u.attempt /\ x \notin ids
    <3> HIDE DEF epoch
    <3>1. PICK t \in Polls : Grown(u, t, awaiting, unreadable, epoch)
      BY <1>16
    <3>2. x \in t.about /\ x \in awaiting /\ u.mine = t.mine /\ u.attempt = t.attempt
      BY <2>1, <3>1 DEF Grown
    <3> QED BY <1>1, <1>9, <1>12, <3>2 DEF MarksBut
  <2>2. ASSUME NEW x \in DOMAIN m.seen, m.seen[x] = 0
        PROVE  x \in heard' \/ x \notin Critical
    BY <1>1, <1>9, <1>15, <2>2 DEF MarksBut
  <2>3. ASSUME NEW x \in DOMAIN m.seen, m.seen[x] # 0
        PROVE  \E u \in agedToasts : u.mine /\ u.attempt = m.seen[x] /\ x \in u.ids /\ x \in u.about
    <3>1. x \in DOMAIN memory.seen /\ memory.seen[x] = m.seen[x] /\ x \in awaiting
      BY <1>9
    <3>2. PICK t \in Polls : t.mine /\ t.attempt = m.seen[x] /\ x \in t.ids /\ x \in t.about
      BY <1>1, <2>3, <3>1 DEF MarksBut
    <3> HIDE DEF epoch
    <3>3. PICK u \in agedToasts : Grown(u, t, awaiting, unreadable, epoch)
      BY <1>16
    <3> QED BY <3>1, <3>2, <3>3 DEF Grown
  <2>4. \A x \in heard' : x \in DOMAIN m.seen /\ m.seen[x] = 0 /\ x \notin ids
    BY <1>1, <1>9, <1>12, <1>15 DEF MarksBut
  <2> QED BY <2>1, <2>2, <2>3, <2>4 DEF MarksBut
<1>18. Claimed(m, agedToasts)
  <2> SUFFICES ASSUME NEW k \in DOMAIN m.claims
               PROVE  \E u \in agedToasts : u.mine /\ u.attempt = k /\ u.claim # None
                                      /\ u.claim.revision = m.claims[k]
    BY DEF Claimed
  <2> HIDE DEF epoch
  <2>1. PICK t \in Polls : t.mine /\ t.attempt = k /\ t.claim # None
                           /\ t.claim.revision = m.claims[k]
    BY <1>1, <1>9 DEF Claimed
  <2>2. PICK u \in agedToasts : Grown(u, t, awaiting, unreadable, epoch)
    BY <1>16
  <2> QED BY <2>1, <2>2 DEF Grown
<1>19. EpochsHold(m, agedToasts)
  <2> SUFFICES ASSUME NEW u \in agedToasts, u.claim # None, u.epoch
               PROVE  m.last > 0 /\ u.episode
    BY DEF EpochsHold
  <2>1. PICK t \in Polls : Grown(u, t, awaiting, unreadable, epoch)
    BY <1>16
  <2>2. t.claim # None /\ t.epoch /\ (unreadable > 0 \/ memory.last = 0)
    BY <2>1 DEF Grown
  <2>3. memory.last > 0 /\ t.episode
    BY <1>1, <2>2 DEF EpochsHold
  <2>4. unreadable > 0
    BY <1>2, <2>2, <2>3
  <2>5. u.episode
    BY <2>1, <2>3, <2>4 DEF Grown
  <2> QED BY <1>9, <2>4, <2>5
<1>20. ClaimsCount(agedToasts)
  BY <1>1, AgedCounts DEF agedToasts
<1>21. Balanced(m, heardCount')
  BY <1>9, <1>15
<1> HIDE DEF epoch, seen
<1>22. PICK s : s = N!Says(ids, m, unreadable, FALSE)
  OBVIOUS
<1> QED BY <1>9, <1>12, <1>13, <1>14, <1>17, <1>18, <1>19, <1>20, <1>21, <1>22, ListOK DEF agedToasts

LEMMA PendingOK ==
  ASSUME Hears, NEW awaiting \in SUBSET Confirms, NEW unreadable \in Nat,
         N!Pending(awaiting, unreadable)
  PROVE  Hears' /\ memory'.told = FALSE
<1>1. heardSignIn' \in BOOLEAN /\ UNCHANGED N!notices
  BY DEF N!Pending
<1>2. CASE memory = None \/ ~memory.seeded
  BY <1>1, <1>2, SeedsOK DEF N!Pending
<1>3. CASE ~(memory = None \/ ~memory.seeded)
  BY <1>1, <1>3, UpdatesOK DEF N!Pending
<1> QED BY <1>2, <1>3

-----------------------------------------------------------------------------
(* A toast that has ended is gone, and the others are as they were.        *)
LEMMA ToastGone ==
  ASSUME N!TypeOK, ToldApart, NEW t \in toasts, toasts' = toasts \ {t}
  PROVE  /\ toasts' \subseteq N!Toast /\ N!IsFiniteSet(toasts') /\ N!Cardinality(toasts') <= MaxToasts
         /\ Polls' = Polls \ {t} /\ N!Of("signIn")' = N!Of("signIn") \ {t}
         /\ N!Of("halt")' = N!Of("halt") \ {t} /\ ToldApart'
<1>1. IsFiniteSet(toasts) /\ Cardinality(toasts) \in Nat /\ Cardinality(toasts) <= MaxToasts
  BY PollsAreTyped
<1>2. IsFiniteSet(toasts') /\ Cardinality(toasts') = Cardinality(toasts) - 1
  BY <1>1, FS_RemoveElement
<1>3. Cardinality(toasts') <= MaxToasts
  BY <1>1, <1>2, NotifierAssumption
<1>4. /\ Polls' = Polls \ {t} /\ N!Of("signIn")' = N!Of("signIn") \ {t}
      /\ N!Of("halt")' = N!Of("halt") \ {t}
  BY DEF Polls, N!Of
<1>5. Calls' \subseteq Calls
  BY <1>4 DEF Calls
<1>6. ToldApart'
  BY <1>5 DEF ToldApart
<1>7. toasts' \subseteq N!Toast
  BY DEF N!TypeOK
<1> QED BY <1>2, <1>3, <1>4, <1>6, <1>7, SameLibrary

(* The marks a toast leaves behind when it ends: those it had set are gone *)
(* or say that the user was told, and nobody else's is touched.            *)
LEMMA MarksAfter ==
  ASSUME Hears, memory # None, NEW t \in Polls, NEW r,
         \/ /\ r.seen = N!Settled(memory.seen, t)
            /\ heard' = heard \cup t.about
         \/ /\ r.seen = N!Unmarked(memory.seen, t)
            /\ heard' = heard
  PROVE  MarksBut(r, Polls \ {t}, heard', {})
<1>1. MarksBut(memory, Polls, heard, {}) /\ ToldApart /\ N!TypeOK
  BY DEF Hears
<1>2. \A u \in Polls \ {t} : u.attempt # t.attempt
  BY <1>1 DEF ToldApart, Calls
<1>3. t.attempt # 0
  BY <1>1, PollsAreTyped DEF N!Number
<1>4. CASE r.seen = N!Settled(memory.seen, t) /\ heard' = heard \cup t.about
  <2>1. /\ DOMAIN r.seen = DOMAIN memory.seen
        /\ \A x \in DOMAIN r.seen :
             r.seen[x] = IF memory.seen[x] = t.attempt THEN 0 ELSE memory.seen[x]
    BY <1>4 DEF N!Settled
  <2>2. ASSUME NEW u \in Polls \ {t}, NEW x \in u.about
        PROVE  u.mine /\ x \in DOMAIN r.seen /\ r.seen[x] = u.attempt
    BY <1>1, <1>2, <2>1, <2>2 DEF MarksBut
  <2>3. ASSUME NEW x \in DOMAIN r.seen, r.seen[x] = 0
        PROVE  x \in heard' \/ x \notin Critical
    <3>1. CASE memory.seen[x] = t.attempt
      <4>1. PICK u \in Polls : u.attempt = t.attempt /\ x \in u.about
        BY <1>1, <1>3, <2>1, <3>1 DEF MarksBut
      <4>2. u = t
        BY <1>2, <4>1
      <4> QED BY <1>4, <4>1, <4>2
    <3>2. CASE memory.seen[x] # t.attempt
      BY <1>1, <1>4, <2>1, <2>3, <3>2 DEF MarksBut
    <3> QED BY <3>1, <3>2
  <2>4. ASSUME NEW x \in DOMAIN r.seen, r.seen[x] # 0
        PROVE  \E u \in Polls \ {t} :
                 u.mine /\ u.attempt = r.seen[x] /\ x \in u.ids /\ x \in u.about
    BY <1>1, <2>1, <2>4 DEF MarksBut
  <2>5. \A x \in heard' : x \in DOMAIN r.seen /\ r.seen[x] = 0
    BY <1>1, <1>4, <2>1 DEF MarksBut
  <2> QED BY <2>2, <2>3, <2>4, <2>5 DEF MarksBut
<1>5. CASE r.seen = N!Unmarked(memory.seen, t) /\ heard' = heard
  <2>1. /\ DOMAIN r.seen = {x \in DOMAIN memory.seen : x \in t.ids => memory.seen[x] # t.attempt}
        /\ \A x \in DOMAIN r.seen : r.seen[x] = memory.seen[x]
    BY <1>5 DEF N!Unmarked, N!Restrict
  <2>2. ASSUME NEW u \in Polls \ {t}, NEW x \in u.about
        PROVE  u.mine /\ x \in DOMAIN r.seen /\ r.seen[x] = u.attempt
    BY <1>1, <1>2, <2>1, <2>2 DEF MarksBut
  <2>3. ASSUME NEW x \in DOMAIN r.seen, r.seen[x] = 0
        PROVE  x \in heard' \/ x \notin Critical
    BY <1>1, <1>5, <2>1, <2>3 DEF MarksBut
  <2>4. ASSUME NEW x \in DOMAIN r.seen, r.seen[x] # 0
        PROVE  \E u \in Polls \ {t} :
                 u.mine /\ u.attempt = r.seen[x] /\ x \in u.ids /\ x \in u.about
    BY <1>1, <2>1, <2>4 DEF MarksBut
  <2>5. \A x \in heard' : x \in DOMAIN r.seen /\ r.seen[x] = 0
    BY <1>1, <1>3, <1>5, <2>1 DEF MarksBut
  <2> QED BY <2>2, <2>3, <2>4, <2>5 DEF MarksBut
<1> QED BY <1>4, <1>5

LEMMA ClaimsAfter ==
  ASSUME Hears, memory # None, NEW t \in Polls, NEW r,
         r.claims = N!Except(memory.claims, t.attempt), r.last = memory.last
  PROVE  Claimed(r, Polls \ {t}) /\ EpochsHold(r, Polls \ {t}) /\ ClaimsCount(Polls \ {t})
<1>1. Claimed(memory, Polls) /\ EpochsHold(memory, Polls) /\ ClaimsCount(Polls)
  BY DEF Hears
<1>2. /\ DOMAIN r.claims = DOMAIN memory.claims \ {t.attempt}
      /\ \A k \in DOMAIN r.claims : r.claims[k] = memory.claims[k]
  BY DEF N!Except
<1>3. Claimed(r, Polls \ {t})
  BY <1>1, <1>2 DEF Claimed
<1>4. EpochsHold(r, Polls \ {t}) /\ ClaimsCount(Polls \ {t})
  BY <1>1 DEF EpochsHold, ClaimsCount
<1> QED BY <1>3, <1>4

(* A toast that was looked up in a record that is not its own finds        *)
(* nothing of it there.                                                    *)
LEMMA NotMine ==
  ASSUME Hears, memory # None, NEW t \in Polls, ~t.mine
  PROVE  /\ t.about = {} /\ MarksBut(memory, Polls \ {t}, heard, {})
         /\ Claimed(memory, Polls \ {t}) /\ EpochsHold(memory, Polls \ {t}) /\ ClaimsCount(Polls \ {t})
<1>1. /\ MarksBut(memory, Polls, heard, {}) /\ Claimed(memory, Polls)
      /\ EpochsHold(memory, Polls) /\ ClaimsCount(Polls)
  BY DEF Hears
<1>2. t.about = {}
  BY <1>1 DEF MarksBut
<1>3. MarksBut(memory, Polls \ {t}, heard, {})
  BY <1>1 DEF MarksBut
<1>4. Claimed(memory, Polls \ {t})
  BY <1>1 DEF Claimed
<1>5. EpochsHold(memory, Polls \ {t}) /\ ClaimsCount(Polls \ {t})
  BY <1>1 DEF EpochsHold, ClaimsCount
<1> QED BY <1>2, <1>3, <1>4, <1>5

(* The record once a toast has ended, whatever marks that leaves.          *)
Ended(m, t, seen) == [m EXCEPT !.claims = N!Except(m.claims, t.attempt), !.seen = seen]

LEMMA EndedRecord ==
  ASSUME NEW m \in N!Record, NEW t \in N!PollToast, NEW seen,
         seen = N!Settled(m.seen, t) \/ seen = N!Unmarked(m.seen, t),
         NEW r, r = Ended(m, t, seen)
  PROVE  /\ r \in N!Record /\ r.seeded = m.seeded /\ r.told = m.told /\ r.signInBy = m.signInBy
         /\ r.due = m.due /\ r.delivered = m.delivered /\ r.last = m.last
         /\ r.seen = seen /\ r.claims = N!Except(m.claims, t.attempt)
         /\ DOMAIN r.seen \subseteq DOMAIN m.seen /\ DOMAIN r.claims \subseteq DOMAIN m.claims
<1>1. m.seen \in N!Partial(Confirms) /\ m.claims \in N!Partial(N!Number)
  BY DEF N!Record
<1>2. PICK S \in SUBSET Confirms : m.seen \in [S -> {0} \cup N!Number]
  BY <1>1 DEF N!Partial
<1>3. PICK K \in SUBSET N!Number : m.claims \in [K -> {0} \cup N!Number]
  BY <1>1 DEF N!Partial
<1>4. seen \in N!Partial(Confirms) /\ DOMAIN seen \subseteq DOMAIN m.seen
  <2>1. CASE seen = N!Settled(m.seen, t)
    <3>1. seen \in [S -> {0} \cup N!Number]
      BY <1>2, <2>1 DEF N!Settled
    <3> QED BY <1>2, <3>1 DEF N!Partial
  <2>2. CASE seen = N!Unmarked(m.seen, t)
    <3> DEFINE T == {x \in DOMAIN m.seen : x \in t.ids => m.seen[x] # t.attempt}
    <3>1. seen \in [T -> {0} \cup N!Number] /\ T \in SUBSET S
      BY <1>2, <2>2 DEF N!Unmarked, N!Restrict
    <3> HIDE DEF T
    <3> QED BY <1>2, <3>1 DEF N!Partial
  <2> QED BY <2>1, <2>2
<1>5. PICK claims : claims = N!Except(m.claims, t.attempt)
  OBVIOUS
<1>6. claims \in N!Partial(N!Number) /\ DOMAIN claims \subseteq DOMAIN m.claims
  <2>1. claims \in [K \ {t.attempt} -> {0} \cup N!Number]
    BY <1>3, <1>5 DEF N!Except
  <2>2. K \ {t.attempt} \in SUBSET N!Number
    OBVIOUS
  <2> QED BY <1>3, <2>1, <2>2 DEF N!Partial
<1>7. r = [m EXCEPT !.claims = claims, !.seen = seen]
  BY <1>5 DEF Ended
<1>8. /\ r \in N!Record /\ r.seen = seen /\ r.claims = claims
      /\ r.seeded = m.seeded /\ r.told = m.told /\ r.signInBy = m.signInBy
      /\ r.due = m.due /\ r.delivered = m.delivered /\ r.last = m.last
  BY <1>4, <1>6, <1>7 DEF N!Record
<1> QED BY <1>4, <1>5, <1>6, <1>8

(* What was shown is delivered; nothing is due once as much was.           *)
LEMMA DeliveredRecord ==
  ASSUME Hears, memory # None, NEW t \in Polls, NEW known \in Nat,
         known = IF t.episode THEN N!Most(heardCount, N!Least(t.count, memory.last)) ELSE heardCount,
         NEW m,
         m = IF N!Carries(t)
             THEN N!Covered([memory EXCEPT !.delivered = N!Most(@, N!Least(t.claim.count, memory.last))])
             ELSE memory
  PROVE  /\ m \in N!Record /\ m.seeded = memory.seeded /\ m.seen = memory.seen
         /\ m.told = memory.told /\ m.signInBy = memory.signInBy
         /\ m.claims = memory.claims /\ m.last = memory.last /\ Balanced(m, known)
         /\ ~memory.seeded => m = memory
<1>1. /\ Balanced(memory, heardCount) /\ EpochsHold(memory, Polls) /\ ClaimsCount(Polls)
      /\ N!TypeOK /\ NothingListed
  BY DEF Hears
<1>2. /\ memory \in N!Record /\ heardCount \in Nat /\ t \in N!PollToast
      /\ memory.last \in Nat /\ memory.delivered \in Nat /\ t.count \in Nat
      /\ memory.due \in N!Claim \cup {None} /\ t.claim \in N!Claim \cup {None}
  BY <1>1, PollsAreTyped DEF N!TypeOK, N!Record, N!PollToast
<1>3. CASE ~N!Carries(t)
  BY <1>1, <1>2, <1>3 DEF Balanced, N!Most, N!Least
<1>4. CASE N!Carries(t)
  <2>1. t.claim # None /\ t.epoch /\ t.attempt \in DOMAIN memory.claims
    BY <1>4 DEF N!Carries
  <2>2. t.episode /\ t.claim.count = t.count /\ memory.last > 0
    BY <1>1, <2>1 DEF EpochsHold, ClaimsCount
  <2> DEFINE much == N!Most(memory.delivered, N!Least(t.count, memory.last))
  <2>3. much \in Nat /\ much <= memory.last /\ much <= known
    BY <1>1, <1>2, <2>2 DEF N!Most, N!Least, Balanced
  <2>4. PICK n : n = [memory EXCEPT !.delivered = much]
    OBVIOUS
  <2>5. m = N!Covered(n)
    BY <1>4, <2>2, <2>4
  <2> HIDE DEF much
  <2>6. /\ n \in N!Record /\ n.seeded = memory.seeded /\ n.seen = memory.seen
        /\ n.told = memory.told /\ n.signInBy = memory.signInBy
        /\ n.claims = memory.claims /\ n.last = memory.last /\ n.delivered = much
        /\ n.due = memory.due
    BY <1>2, <2>3, <2>4 DEF N!Record
  <2>7. /\ m \in N!Record /\ m.seeded = n.seeded /\ m.seen = n.seen /\ m.told = n.told
        /\ m.signInBy = n.signInBy /\ m.claims = n.claims
        /\ m.delivered = n.delivered /\ m.last = n.last
        /\ IF n.due # None /\ n.delivered >= n.due.count THEN m.due = None ELSE m.due = n.due
    BY <2>5, <2>6, CoveredRecord
  <2>8. Balanced(m, known)
    <3>1. memory.due = None => known >= memory.last
      BY <1>1, <1>2, <2>2 DEF Balanced, N!Most, N!Least
    <3>2. memory.due # None => memory.due.count = memory.last /\ memory.last > 0
      BY <1>1 DEF Balanced
    <3> QED BY <1>2, <2>3, <2>6, <2>7, <3>1, <3>2 DEF Balanced
  <2>9. memory.seeded
    BY <1>1, <2>1 DEF NothingListed
  <2> QED BY <2>6, <2>7, <2>8, <2>9
<1> QED BY <1>3, <1>4

LEMMA PollShownOK ==
  ASSUME Hears, NEW t \in Polls, toasts' = toasts \ {t}, N!PollShown(t)
  PROVE  Hears'
<1> DEFINE known == IF t.episode THEN N!Most(heardCount, N!Least(t.count, memory.last)) ELSE heardCount
<1>1. N!TypeOK /\ ToldApart /\ NothingListed /\ t \in toasts /\ t \in N!PollToast
  BY PollsAreTyped DEF Hears
<1>2. /\ toasts' \subseteq N!Toast /\ N!IsFiniteSet(toasts') /\ N!Cardinality(toasts') <= MaxToasts
      /\ Polls' = Polls \ {t} /\ ToldApart'
  BY <1>1, ToastGone
<1>3. heard' = heard \cup t.about /\ heardCount' = known /\ UNCHANGED <<N!notices, heardSignIn>>
  BY DEF N!PollShown
<1>4. heard' \in SUBSET Confirms
  BY <1>1, <1>3 DEF N!PollToast, N!TypeOK
<1>5. CASE memory = None
  <2>1. memory' = None
    BY <1>5 DEF N!PollShown, N!Reaches
  <2>2. heard' = {} /\ heardCount' = heardCount
    BY <1>1, <1>3, <1>5 DEF NothingListed
  <2>3. N!TypeOK'
    BY <1>1, <1>2, <1>3, <1>4, <2>1, <2>2 DEF N!TypeOK, N!notices
  <2>4. NothingListed' /\ ClaimsCount(Polls')
    BY <1>2, <1>5, <2>1, <2>2 DEF NothingListed, Hears, ClaimsCount
  <2> QED BY <1>2, <2>1, <2>3, <2>4 DEF Hears
<1>6. CASE memory # None
  <2>1. memory \in N!Record /\ memory.last \in Nat /\ heardCount \in Nat /\ t.count \in Nat
    BY <1>1, <1>6 DEF N!TypeOK, N!Record, N!PollToast
  <2>2. known \in Nat /\ known >= heardCount
    BY <2>1 DEF N!Most, N!Least
  <2>3. CASE ~N!Reaches(t)
    <3>1. memory' = memory /\ ~t.mine
      BY <1>6, <2>3 DEF N!PollShown, N!Reaches
    <3>2. /\ t.about = {} /\ MarksBut(memory, Polls \ {t}, heard, {})
          /\ Claimed(memory, Polls \ {t}) /\ EpochsHold(memory, Polls \ {t}) /\ ClaimsCount(Polls \ {t})
      BY <1>6, <3>1, NotMine
    <3>3. heard' = heard
      BY <1>3, <3>2
    <3>4. Balanced(memory, heardCount')
      <4>1. Balanced(memory, heardCount) /\ memory.delivered \in Nat
        BY <1>6, <2>1 DEF Hears, N!Record
      <4> HIDE DEF known
      <4> QED BY <1>3, <2>1, <2>2, <4>1 DEF Balanced
    <3>5. N!TypeOK'
      BY <1>1, <1>2, <1>3, <1>4, <2>2, <3>1 DEF N!TypeOK, N!notices
    <3>6. NothingListed'
      BY <1>1, <1>2, <3>1, <3>3 DEF NothingListed
    <3> QED BY <1>2, <3>1, <3>2, <3>3, <3>4, <3>5, <3>6 DEF Hears
  <2>4. CASE N!Reaches(t)
    <3>1. PICK m : m = IF N!Carries(t)
             THEN N!Covered([memory EXCEPT !.delivered = N!Most(@, N!Least(t.claim.count, memory.last))])
             ELSE memory
      OBVIOUS
    <3>2. /\ m \in N!Record /\ m.seeded = memory.seeded /\ m.seen = memory.seen
          /\ m.told = memory.told /\ m.signInBy = memory.signInBy
          /\ m.claims = memory.claims /\ m.last = memory.last /\ Balanced(m, known)
          /\ ~memory.seeded => m = memory
      BY <1>6, <2>2, <3>1, DeliveredRecord
    <3>a. PICK seen : seen = N!Settled(m.seen, t)
      OBVIOUS
    <3>3. PICK r : r = Ended(m, t, seen)
      OBVIOUS
    <3>4. memory' = r
      BY <2>4, <3>1, <3>a, <3>3 DEF N!PollShown, Ended
    <3>5. /\ r \in N!Record /\ r.seeded = m.seeded
          /\ r.due = m.due /\ r.delivered = m.delivered /\ r.last = m.last
          /\ r.seen = N!Settled(m.seen, t) /\ r.claims = N!Except(m.claims, t.attempt)
          /\ DOMAIN r.seen \subseteq DOMAIN m.seen /\ DOMAIN r.claims \subseteq DOMAIN m.claims
      BY <1>1, <3>2, <3>a, <3>3, EndedRecord
    <3>6. MarksBut(r, Polls \ {t}, heard', {})
      BY <1>3, <1>6, <3>2, <3>5, MarksAfter
    <3>7. Claimed(r, Polls \ {t}) /\ EpochsHold(r, Polls \ {t}) /\ ClaimsCount(Polls \ {t})
      BY <1>6, <3>2, <3>5, ClaimsAfter
    <3>8. Balanced(r, heardCount')
      BY <1>3, <3>2, <3>5 DEF Balanced
    <3>9. N!TypeOK'
      BY <1>1, <1>2, <1>3, <1>4, <2>2, <3>4, <3>5 DEF N!TypeOK, N!notices
    <3>10. NothingListed'
      <4>1. CASE memory.seeded
        BY <3>2, <3>4, <3>5, <4>1, NoticeAssumption DEF NothingListed
      <4>2. CASE ~memory.seeded
        <5>1. t.about = {} /\ heard' = {}
          BY <1>1, <1>3, <4>2 DEF NothingListed
        <5>2. /\ DOMAIN m.seen = {} /\ DOMAIN m.claims = {} /\ m.due = None
              /\ m.last = 0 /\ m.delivered = 0
          BY <1>1, <1>6, <3>2, <4>2 DEF NothingListed
        <5> QED BY <1>1, <1>2, <3>4, <3>5, <4>2, <5>1, <5>2 DEF NothingListed
      <4> QED BY <4>1, <4>2
    <3> QED BY <1>2, <3>4, <3>6, <3>7, <3>8, <3>9, <3>10 DEF Hears
  <2> QED BY <2>3, <2>4
<1> QED BY <1>5, <1>6

LEMMA PollNotShownOK ==
  ASSUME Hears, NEW t \in Polls, toasts' = toasts \ {t}, N!PollNotShown(t)
  PROVE  Hears'
<1>1. N!TypeOK /\ ToldApart /\ NothingListed /\ t \in toasts /\ t \in N!PollToast
  BY PollsAreTyped DEF Hears
<1>2. /\ toasts' \subseteq N!Toast /\ N!IsFiniteSet(toasts') /\ N!Cardinality(toasts') <= MaxToasts
      /\ Polls' = Polls \ {t} /\ ToldApart'
  BY <1>1, ToastGone
<1>3. UNCHANGED <<N!notices, heard, heardCount, heardSignIn>>
  BY DEF N!PollNotShown
<1>4. CASE memory = None
  <2>1. memory' = None
    BY <1>4 DEF N!PollNotShown, N!Reaches
  <2>2. N!TypeOK'
    BY <1>1, <1>2, <1>3, <2>1 DEF N!TypeOK, N!notices
  <2>3. NothingListed' /\ ClaimsCount(Polls')
    BY <1>2, <1>3, <1>4, <2>1 DEF NothingListed, Hears, ClaimsCount
  <2> QED BY <1>2, <2>1, <2>2, <2>3 DEF Hears
<1>5. CASE memory # None
  <2>1. memory \in N!Record /\ Balanced(memory, heardCount)
    BY <1>1, <1>5 DEF N!TypeOK, Hears
  <2>2. CASE ~N!Reaches(t)
    <3>1. memory' = memory /\ ~t.mine
      BY <1>5, <2>2 DEF N!PollNotShown, N!Reaches
    <3>2. /\ MarksBut(memory, Polls \ {t}, heard, {})
          /\ Claimed(memory, Polls \ {t}) /\ EpochsHold(memory, Polls \ {t}) /\ ClaimsCount(Polls \ {t})
      BY <1>5, <3>1, NotMine
    <3>3. N!TypeOK'
      BY <1>1, <1>2, <1>3, <3>1 DEF N!TypeOK, N!notices
    <3>4. NothingListed'
      BY <1>1, <1>2, <1>3, <3>1 DEF NothingListed
    <3> QED BY <1>2, <1>3, <2>1, <3>1, <3>2, <3>3, <3>4 DEF Hears
  <2>3. CASE N!Reaches(t)
    <3>a. PICK seen : seen = N!Unmarked(memory.seen, t)
      OBVIOUS
    <3>1. PICK r : r = Ended(memory, t, seen)
      OBVIOUS
    <3>2. memory' = r
      <4>1. memory' = [memory EXCEPT !.seen = N!Unmarked(@, t), !.claims = N!Except(@, t.attempt)]
        BY <2>3 DEF N!PollNotShown
      <4> QED BY <2>1, <3>a, <3>1, <4>1 DEF N!Record, Ended
    <3>3. /\ r \in N!Record /\ r.seeded = memory.seeded
          /\ r.due = memory.due /\ r.delivered = memory.delivered /\ r.last = memory.last
          /\ r.seen = N!Unmarked(memory.seen, t) /\ r.claims = N!Except(memory.claims, t.attempt)
          /\ DOMAIN r.seen \subseteq DOMAIN memory.seen
          /\ DOMAIN r.claims \subseteq DOMAIN memory.claims
      BY <1>1, <2>1, <3>a, <3>1, EndedRecord
    <3>4. MarksBut(r, Polls \ {t}, heard', {})
      BY <1>3, <1>5, <3>3, MarksAfter
    <3>5. Claimed(r, Polls \ {t}) /\ EpochsHold(r, Polls \ {t}) /\ ClaimsCount(Polls \ {t})
      BY <1>5, <3>3, ClaimsAfter
    <3>6. Balanced(r, heardCount')
      BY <1>3, <2>1, <3>3 DEF Balanced
    <3>7. N!TypeOK'
      BY <1>1, <1>2, <1>3, <3>2, <3>3 DEF N!TypeOK, N!notices
    <3>8. NothingListed'
      BY <1>1, <1>2, <1>3, <1>5, <3>2, <3>3, NoticeAssumption DEF NothingListed
    <3> QED BY <1>2, <3>2, <3>4, <3>5, <3>6, <3>7, <3>8 DEF Hears
  <2> QED BY <2>2, <2>3
<1> QED BY <1>4, <1>5

(* A report of confirmations leaves the prompt to sign in alone.           *)
LEMMA PollKeepsPrompt ==
  ASSUME Hears, NEW t \in Polls, N!PollShown(t) \/ N!PollNotShown(t), memory' # None
  PROVE  memory # None /\ memory'.told = memory.told /\ memory'.signInBy = memory.signInBy
<1>1. t \in N!PollToast /\ (memory # None => memory \in N!Record) /\ heardCount \in Nat
  BY PollsAreTyped DEF Hears, N!TypeOK
<1>2. CASE ~N!Reaches(t)
  BY <1>2 DEF N!PollShown, N!PollNotShown
<1>3. CASE N!Reaches(t) /\ N!PollShown(t)
  <2>1. memory # None /\ memory.last \in Nat /\ t.count \in Nat
    BY <1>1, <1>3 DEF N!Reaches, N!Record, N!PollToast
  <2>2. PICK known : known = IF t.episode THEN N!Most(heardCount, N!Least(t.count, memory.last)) ELSE heardCount
    OBVIOUS
  <2>3. known \in Nat
    BY <1>1, <2>1, <2>2 DEF N!Most, N!Least
  <2>4. PICK m : m = IF N!Carries(t)
           THEN N!Covered([memory EXCEPT !.delivered = N!Most(@, N!Least(t.claim.count, memory.last))])
           ELSE memory
    OBVIOUS
  <2>5. m \in N!Record /\ m.told = memory.told /\ m.signInBy = memory.signInBy
    BY <2>1, <2>2, <2>3, <2>4, DeliveredRecord
  <2>6. PICK seen : seen = N!Settled(m.seen, t)
    OBVIOUS
  <2>7. memory' = Ended(m, t, seen)
    BY <1>3, <2>4, <2>6 DEF N!PollShown, Ended
  <2> QED BY <1>1, <2>1, <2>5, <2>6, <2>7, EndedRecord
<1>4. CASE N!Reaches(t) /\ N!PollNotShown(t)
  <2>1. memory # None /\ memory \in N!Record
    BY <1>1, <1>4 DEF N!Reaches
  <2>2. PICK seen : seen = N!Unmarked(memory.seen, t)
    OBVIOUS
  <2>3. memory' = Ended(memory, t, seen)
    BY <1>4, <2>1, <2>2 DEF N!PollNotShown, Ended, N!Record
  <2> QED BY <1>1, <2>1, <2>2, <2>3, EndedRecord
<1> QED BY <1>2, <1>3, <1>4

-----------------------------------------------------------------------------
(* A step that leaves the lists alone: sign-in and halt notices.           *)
LEMMA ListsAlone ==
  ASSUME Hears, N!TypeOK', ToldApart', Polls' = Polls, UNCHANGED <<heard, heardCount>>,
         \/ memory' = memory
         \/ /\ memory # None /\ memory' # None /\ memory'.seeded = memory.seeded
            /\ memory'.seen = memory.seen /\ memory'.claims = memory.claims
            /\ memory'.due = memory.due /\ memory'.delivered = memory.delivered
            /\ memory'.last = memory.last
  PROVE  Hears'
<1>1. NothingListed'
  BY DEF Hears, NothingListed
<1>2. ClaimsCount(Polls')
  BY DEF Hears
<1>3. memory' # None =>
        /\ MarksBut(memory', Polls', heard', {}) /\ Claimed(memory', Polls')
        /\ Balanced(memory', heardCount') /\ EpochsHold(memory', Polls')
  <2>1. CASE memory' = memory
    BY <2>1 DEF Hears
  <2>2. CASE memory' # memory
    <3>1. /\ MarksBut(memory, Polls, heard, {}) /\ Claimed(memory, Polls)
          /\ Balanced(memory, heardCount) /\ EpochsHold(memory, Polls)
      BY <2>2 DEF Hears
    <3>2. MarksBut(memory', Polls', heard', {})
      BY <2>2, <3>1 DEF MarksBut
    <3>3. Claimed(memory', Polls')
      BY <2>2, <3>1 DEF Claimed
    <3>4. Balanced(memory', heardCount') /\ EpochsHold(memory', Polls')
      BY <2>2, <3>1 DEF Balanced, EpochsHold
    <3> QED BY <3>2, <3>3, <3>4
  <2> QED BY <2>1, <2>2
<1> QED BY <1>1, <1>2, <1>3 DEF Hears

(* A toast about anything but a poll joins the others.                     *)
LEMMA ToastJoins ==
  ASSUME N!TypeOK, N!Room, NEW t \in N!Toast \ N!PollToast, toasts' = toasts \cup {t}
  PROVE  /\ toasts' \subseteq N!Toast /\ N!IsFiniteSet(toasts') /\ N!Cardinality(toasts') <= MaxToasts
         /\ Polls' = Polls /\ \A kind \in {"signIn", "halt"} :
              N!Of(kind)' = N!Of(kind) \cup (IF t.kind = kind THEN {t} ELSE {})
<1>1. IsFiniteSet(toasts) /\ Cardinality(toasts) \in Nat /\ Cardinality(toasts) < MaxToasts
  BY PollsAreTyped, SameLibrary DEF N!Room
<1>2. /\ IsFiniteSet(toasts')
      /\ Cardinality(toasts') = IF t \in toasts THEN Cardinality(toasts) ELSE Cardinality(toasts) + 1
  BY <1>1, FS_AddElement
<1>3. Cardinality(toasts') <= MaxToasts
  BY <1>1, <1>2, NotifierAssumption
<1>4. t.kind # "poll"
  BY DEF N!Toast
<1>5. Polls' = Polls
  BY <1>4 DEF Polls, N!Of
<1>6. \A kind \in {"signIn", "halt"} :
        N!Of(kind)' = N!Of(kind) \cup (IF t.kind = kind THEN {t} ELSE {})
  BY DEF N!Of
<1>7. toasts' \subseteq N!Toast
  BY DEF N!TypeOK
<1> QED BY <1>2, <1>3, <1>5, <1>6, <1>7, SameLibrary

LEMMA PollSucceededOK ==
  ASSUME Hears, N!PollSucceeded
  PROVE  Hears'
<1>1. N!TypeOK /\ ToldApart
  BY DEF Hears
<1>2. heardSignIn' = FALSE /\ UNCHANGED <<N!notices, toasts, heard, heardCount>>
  BY DEF N!PollSucceeded
<1>3. Polls' = Polls /\ Calls' = Calls
  BY <1>2 DEF Polls, Calls, N!Of
<1>4. \/ memory' = memory
      \/ /\ memory' \in N!Record /\ memory # None /\ memory'.seeded = memory.seeded
         /\ memory'.seen = memory.seen /\ memory'.claims = memory.claims
         /\ memory'.due = memory.due /\ memory'.delivered = memory.delivered
         /\ memory'.last = memory.last
  <2>1. CASE memory = None
    BY <2>1 DEF N!PollSucceeded
  <2>2. CASE memory # None
    <3>1. memory \in N!Record /\ memory' = [memory EXCEPT !.told = FALSE]
      BY <1>1, <2>2 DEF N!PollSucceeded, N!TypeOK
    <3> QED BY <2>2, <3>1 DEF N!Record
  <2> QED BY <2>1, <2>2
<1>5. N!TypeOK'
  BY <1>1, <1>2, <1>4 DEF N!TypeOK, N!notices
<1>6. ToldApart'
  BY <1>1, <1>3 DEF ToldApart
<1> QED BY <1>2, <1>3, <1>4, <1>5, <1>6, ListsAlone, NoticeAssumption

LEMMA SignInNeededOK ==
  ASSUME Hears, N!SignInNeeded, ~UNCHANGED N!notifier
  PROVE  Hears'
<1> DEFINE t == [kind |-> "signIn", attempt |-> N!NextAttempt]
<1>1. N!TypeOK /\ ToldApart /\ NothingListed
  BY DEF Hears
<1>2. /\ N!Room /\ toasts' = toasts \cup {t} /\ heardSignIn' = FALSE
      /\ UNCHANGED <<N!notices, heard, heardCount>>
      /\ memory' = IF memory = None THEN N!Blank(TRUE, N!NextAttempt)
                   ELSE [memory EXCEPT !.told = TRUE, !.signInBy = N!NextAttempt]
  BY DEF N!SignInNeeded
<1>3. N!NextAttempt \in N!Number /\ \A u \in Calls : u.attempt # N!NextAttempt
  BY <1>1, NewAttempt
<1>4. t \in N!Toast \ N!PollToast /\ t.kind = "signIn" /\ t.attempt = N!NextAttempt
  BY <1>3, PollsAreTyped, <1>1 DEF N!Toast
<1> HIDE DEF t
<1>5. /\ toasts' \subseteq N!Toast /\ N!IsFiniteSet(toasts') /\ N!Cardinality(toasts') <= MaxToasts
      /\ Polls' = Polls /\ N!Of("signIn")' = N!Of("signIn") \cup {t}
  BY <1>1, <1>2, <1>4, ToastJoins
<1>6. Calls' = Calls \cup {t}
  BY <1>5 DEF Calls
<1>7. ToldApart'
  BY <1>1, <1>3, <1>4, <1>6 DEF ToldApart
<1>8. CASE memory = None
  <2>1. memory' = [seeded |-> FALSE, seen |-> <<>>, told |-> TRUE, signInBy |-> N!NextAttempt,
                   due |-> None, claims |-> <<>>, delivered |-> 0, last |-> 0]
    BY <1>2, <1>8 DEF N!Blank
  <2>2. DOMAIN <<>> = {} /\ <<>> \in [{} -> {0} \cup N!Number]
    OBVIOUS
  <2>3. <<>> \in N!Partial(Confirms) /\ <<>> \in N!Partial(N!Number)
    BY <2>2 DEF N!Partial
  <2>4. /\ memory' \in N!Record /\ memory'.seeded = FALSE /\ memory'.seen = <<>>
        /\ memory'.claims = <<>> /\ memory'.due = None /\ memory'.delivered = 0 /\ memory'.last = 0
    BY <1>3, <2>1, <2>3 DEF N!Record
  <2>5. N!TypeOK'
    BY <1>1, <1>2, <1>5, <2>4 DEF N!TypeOK, N!notices
  <2>6. heard = {} /\ \A u \in Polls : ~u.mine /\ u.about = {} /\ ~u.episode /\ ~u.epoch
    BY <1>1, <1>8 DEF NothingListed
  <2>7. NothingListed'
    BY <1>2, <1>5, <2>2, <2>4, <2>6 DEF NothingListed
  <2>8. MarksBut(memory', Polls', heard', {}) /\ Claimed(memory', Polls')
    BY <1>2, <1>5, <2>2, <2>4, <2>6 DEF MarksBut, Claimed
  <2>9. Balanced(memory', heardCount')
    <3>1. heardCount' = heardCount /\ heardCount \in Nat
      BY <1>1, <1>2 DEF N!TypeOK
    <3> QED BY <2>4, <3>1 DEF Balanced
  <2>10. EpochsHold(memory', Polls') /\ ClaimsCount(Polls')
    BY <1>5, <2>6 DEF EpochsHold, Hears
  <2> QED BY <1>7, <2>5, <2>7, <2>8, <2>9, <2>10 DEF Hears
<1>9. CASE memory # None
  <2>1. memory \in N!Record /\ memory' = [memory EXCEPT !.told = TRUE, !.signInBy = N!NextAttempt]
    BY <1>1, <1>2, <1>9 DEF N!TypeOK
  <2>2. /\ memory' \in N!Record /\ memory'.seeded = memory.seeded
        /\ memory'.seen = memory.seen /\ memory'.claims = memory.claims
        /\ memory'.due = memory.due /\ memory'.delivered = memory.delivered
        /\ memory'.last = memory.last
    BY <1>3, <2>1 DEF N!Record
  <2>3. N!TypeOK'
    BY <1>1, <1>2, <1>5, <2>2 DEF N!TypeOK, N!notices
  <2> QED BY <1>2, <1>5, <1>7, <1>9, <2>2, <2>3, ListsAlone, NoticeAssumption
<1> QED BY <1>8, <1>9

LEMMA SignInEndsOK ==
  ASSUME Hears, NEW t \in N!Of("signIn"), toasts' = toasts \ {t},
         N!SignInShown(t) \/ N!SignInNotShown(t)
  PROVE  Hears'
<1>1. N!TypeOK /\ ToldApart /\ t \in toasts /\ t \notin Polls
  BY DEF Hears, N!Of, Polls
<1>2. /\ toasts' \subseteq N!Toast /\ N!IsFiniteSet(toasts') /\ N!Cardinality(toasts') <= MaxToasts
      /\ Polls' = Polls /\ ToldApart'
  BY <1>1, ToastGone
<1>3. UNCHANGED <<N!notices, heard, heardCount>>
  BY DEF N!SignInShown, N!SignInNotShown
<1>4. heardSignIn' \in BOOLEAN
  <2>1. CASE N!SignInShown(t)
    <3>1. heardSignIn' = (heardSignIn \/ (N!Current(t) /\ memory.told))
      BY <2>1 DEF N!SignInShown
    <3>2. (heardSignIn \/ (N!Current(t) /\ memory.told)) \in BOOLEAN
      OBVIOUS
    <3> QED BY <3>1, <3>2
  <2>2. CASE N!SignInNotShown(t)
    BY <1>1, <2>2 DEF N!SignInNotShown, N!TypeOK
  <2> QED BY <2>1, <2>2
<1>5. \/ memory' = memory
      \/ /\ memory' \in N!Record /\ memory # None /\ memory'.seeded = memory.seeded
         /\ memory'.seen = memory.seen /\ memory'.claims = memory.claims
         /\ memory'.due = memory.due /\ memory'.delivered = memory.delivered
         /\ memory'.last = memory.last
  <2>1. CASE ~N!Current(t)
    BY <2>1 DEF N!SignInShown, N!SignInNotShown
  <2>2. CASE N!Current(t)
    <3>1. memory \in N!Record /\ memory # None
      BY <1>1, <2>2 DEF N!TypeOK, N!Current
    <3>2. \/ memory' = [memory EXCEPT !.signInBy = 0]
          \/ memory' = [memory EXCEPT !.told = FALSE, !.signInBy = 0]
      BY <2>2 DEF N!SignInShown, N!SignInNotShown
    <3> QED BY <3>1, <3>2 DEF N!Record
  <2> QED BY <2>1, <2>2
<1>6. N!TypeOK'
  BY <1>1, <1>2, <1>3, <1>4, <1>5 DEF N!TypeOK, N!notices
<1> QED BY <1>2, <1>3, <1>5, <1>6, ListsAlone, NoticeAssumption

LEMMA HaltedOK ==
  ASSUME Hears, N!Halted
  PROVE  Hears'
<1> DEFINE generation == N!NewNumber(N!Numbers(N!Of("halt")))
           t == N!Notice(generation)
<1>1. N!TypeOK /\ ToldApart
  BY DEF Hears
<1>2. /\ N!Room /\ latestHalt' = generation /\ toasts' = toasts \cup {t}
      /\ undeliveredHalt' = None /\ heardHalt' = FALSE
      /\ UNCHANGED <<memory, heard, heardCount, heardSignIn>>
  BY DEF N!Halted
<1>3. generation \in N!Number
  <2>1. N!Of("halt") \in SUBSET toasts
    BY DEF N!Of
  <2>2. /\ IsFiniteSet(toasts) /\ Cardinality(toasts) \in Nat /\ Cardinality(toasts) <= MaxToasts
    BY <1>1, PollsAreTyped
  <2>3. IsFiniteSet(N!Of("halt")) /\ Cardinality(N!Of("halt")) <= Cardinality(toasts)
    BY <2>1, <2>2, FS_Subset
  <2>4. /\ IsFiniteSet(N!Numbers(N!Of("halt")))
        /\ Cardinality(N!Numbers(N!Of("halt"))) <= Cardinality(N!Of("halt"))
    BY <2>3, FewNumbers
  <2>5. Cardinality(N!Of("halt")) \in Nat /\ Cardinality(N!Numbers(N!Of("halt"))) \in Nat
    BY <2>3, <2>4, FS_CardinalityType
  <2>6. Cardinality(N!Numbers(N!Of("halt"))) <= MaxToasts + 1
    BY <2>2, <2>3, <2>4, <2>5, NotifierAssumption
  <2> QED BY <2>4, <2>6, FreshNumber
<1> HIDE DEF generation
<1>4. t \in N!Toast \ N!PollToast /\ t.kind = "halt"
  BY <1>1, <1>3, PollsAreTyped DEF N!Toast, N!Notice
<1> HIDE DEF t
<1>5. /\ toasts' \subseteq N!Toast /\ N!IsFiniteSet(toasts') /\ N!Cardinality(toasts') <= MaxToasts
      /\ Polls' = Polls /\ N!Of("signIn")' = N!Of("signIn")
  BY <1>1, <1>2, <1>4, ToastJoins
<1>6. ToldApart'
  BY <1>1, <1>5 DEF ToldApart, Calls
<1>7. N!TypeOK'
  BY <1>1, <1>2, <1>3, <1>5 DEF N!TypeOK
<1> QED BY <1>2, <1>5, <1>6, <1>7, ListsAlone

LEMMA StillHaltedOK ==
  ASSUME Hears, N!StillHalted, ~UNCHANGED N!notifier
  PROVE  Hears'
<1> DEFINE t == N!Notice(undeliveredHalt)
<1>1. N!TypeOK /\ ToldApart
  BY DEF Hears
<1>2. /\ N!Room /\ toasts' = toasts \cup {t} /\ undeliveredHalt # None /\ undeliveredHalt' = None
      /\ UNCHANGED <<memory, latestHalt, heard, heardCount, heardSignIn, heardHalt>>
  BY DEF N!StillHalted
<1>3. undeliveredHalt \in N!Number
  BY <1>1, <1>2 DEF N!TypeOK
<1>4. t \in N!Toast \ N!PollToast /\ t.kind = "halt"
  BY <1>1, <1>3, PollsAreTyped DEF N!Toast, N!Notice
<1> HIDE DEF t
<1>5. /\ toasts' \subseteq N!Toast /\ N!IsFiniteSet(toasts') /\ N!Cardinality(toasts') <= MaxToasts
      /\ Polls' = Polls /\ N!Of("signIn")' = N!Of("signIn")
  BY <1>1, <1>2, <1>4, ToastJoins
<1>6. ToldApart'
  BY <1>1, <1>5 DEF ToldApart, Calls
<1>7. N!TypeOK'
  BY <1>1, <1>2, <1>5 DEF N!TypeOK
<1> QED BY <1>2, <1>5, <1>6, <1>7, ListsAlone

LEMMA HaltEndsOK ==
  ASSUME Hears, NEW t \in N!Of("halt"), toasts' = toasts \ {t},
         N!HaltShown(t) \/ N!HaltNotShown(t)
  PROVE  Hears'
<1>1. N!TypeOK /\ ToldApart /\ t \in toasts /\ t \notin Polls
  BY DEF Hears, N!Of, Polls
<1>2. /\ toasts' \subseteq N!Toast /\ N!IsFiniteSet(toasts') /\ N!Cardinality(toasts') <= MaxToasts
      /\ Polls' = Polls /\ ToldApart'
  BY <1>1, ToastGone
<1>3. UNCHANGED <<memory, latestHalt, heard, heardCount, heardSignIn>>
  BY DEF N!HaltShown, N!HaltNotShown
<1>4. heardHalt' \in BOOLEAN
  <2>1. CASE N!HaltShown(t)
    <3>1. heardHalt' = (heardHalt \/ latestHalt = t.attempt)
      BY <2>1 DEF N!HaltShown
    <3>2. (heardHalt \/ latestHalt = t.attempt) \in BOOLEAN
      OBVIOUS
    <3> QED BY <3>1, <3>2
  <2>2. CASE N!HaltNotShown(t)
    BY <1>1, <2>2 DEF N!HaltNotShown, N!TypeOK
  <2> QED BY <2>1, <2>2
<1>5. undeliveredHalt' \in N!Number \cup {None}
  <2>1. t.attempt \in N!Number /\ undeliveredHalt \in N!Number \cup {None}
    BY <1>1, PollsAreTyped DEF N!TypeOK
  <2> QED BY <2>1 DEF N!HaltShown, N!HaltNotShown
<1>6. N!TypeOK'
  BY <1>1, <1>2, <1>3, <1>4, <1>5 DEF N!TypeOK
<1> QED BY <1>2, <1>3, <1>6, ListsAlone

(* Whoever is forgotten starts anew: what is on its way is nobody's.       *)
Orphan(t) ==
  IF t.kind = "poll" THEN [t EXCEPT !.mine = FALSE, !.epoch = FALSE, !.about = {}, !.episode = FALSE]
  ELSE t

LEMMA ForgetNoticesOK ==
  ASSUME Hears, N!ForgetNotices
  PROVE  Hears'
<1> DEFINE f == [t \in toasts |-> Orphan(t)]
           orphans == {Orphan(t) : t \in toasts}
<1>1. N!TypeOK /\ ToldApart
  BY DEF Hears
<1>2. /\ memory' = None /\ latestHalt' = None /\ undeliveredHalt' = None /\ toasts' = orphans
      /\ heard' = {} /\ heardCount' = 0 /\ heardSignIn' = FALSE /\ heardHalt' = FALSE
  BY DEF N!ForgetNotices, Orphan
<1>3. f \in Surjection(toasts, orphans)
  BY DEF Surjection
<1>4. IsFiniteSet(toasts') /\ Cardinality(toasts') <= MaxToasts
  <2> HIDE DEF f, orphans
  <2>1. IsFiniteSet(toasts) /\ Cardinality(toasts) \in Nat /\ Cardinality(toasts) <= MaxToasts
    BY <1>1, PollsAreTyped
  <2>2. IsFiniteSet(orphans) /\ Cardinality(orphans) <= Cardinality(toasts)
    BY <1>3, <2>1, FS_Surjection
  <2>3. Cardinality(orphans) \in Nat
    BY <2>2, FS_CardinalityType
  <2> QED BY <1>2, <2>1, <2>2, <2>3, NotifierAssumption
<1>5. ASSUME NEW t \in Polls
      PROVE  /\ Orphan(t) \in N!PollToast /\ Orphan(t).attempt = t.attempt
             /\ Orphan(t).claim = t.claim /\ Orphan(t).count = t.count
             /\ ~Orphan(t).mine /\ Orphan(t).about = {} /\ ~Orphan(t).episode /\ ~Orphan(t).epoch
  <2>1. t \in N!PollToast /\ t.kind = "poll"
    BY <1>1, PollsAreTyped
  <2>2. PICK u : u = [t EXCEPT !.mine = FALSE, !.epoch = FALSE, !.about = {}, !.episode = FALSE]
    OBVIOUS
  <2>3. /\ u \in N!PollToast /\ u.attempt = t.attempt /\ u.claim = t.claim /\ u.count = t.count
        /\ u.mine = FALSE /\ u.about = {} /\ u.episode = FALSE /\ u.epoch = FALSE
    BY <2>1, <2>2 DEF N!PollToast
  <2>4. Orphan(t) = u
    BY <2>1, <2>2 DEF Orphan
  <2> QED BY <2>3, <2>4
<1>6. \A t \in toasts \ Polls : Orphan(t) = t
  BY DEF Orphan, Polls, N!Of
<1>7. \A u \in toasts' : \E t \in toasts : u = Orphan(t)
  BY <1>2
<1>8. toasts' \subseteq N!Toast
  BY <1>1, <1>5, <1>6, <1>7 DEF N!TypeOK, N!Toast
<1> HIDE DEF orphans
<1>9. \A u \in Polls' : \E t \in Polls : u = Orphan(t)
  <2> SUFFICES ASSUME NEW u \in Polls' PROVE \E t \in Polls : u = Orphan(t)
    OBVIOUS
  <2>1. u \in toasts' /\ u.kind = "poll"
    BY DEF Polls, N!Of
  <2>2. PICK t \in toasts : u = Orphan(t)
    BY <1>7, <2>1
  <2>3. t \in Polls
    BY <1>6, <2>1, <2>2 DEF Polls, N!Of
  <2> QED BY <2>2, <2>3
<1>10. \A u \in N!Of("signIn")' : u \in N!Of("signIn")
  <2> SUFFICES ASSUME NEW u \in N!Of("signIn")' PROVE u \in N!Of("signIn")
    OBVIOUS
  <2>1. u \in toasts' /\ u.kind = "signIn"
    BY DEF N!Of
  <2>2. PICK t \in toasts : u = Orphan(t)
    BY <1>7, <2>1
  <2>3. t \notin Polls
    BY <1>1, <1>5, <2>1, <2>2, PollsAreTyped
  <2> QED BY <1>6, <2>1, <2>2, <2>3 DEF N!Of
<1>11. ToldApart'
  <2> SUFFICES ASSUME NEW u \in Calls', NEW v \in Calls', u.attempt = v.attempt PROVE u = v
    BY DEF ToldApart
  <2>a. \A w \in Calls' : \E t \in Calls : w = Orphan(t) /\ w.attempt = t.attempt
    <3> SUFFICES ASSUME NEW w \in Calls'
                 PROVE  \E t \in Calls : w = Orphan(t) /\ w.attempt = t.attempt
      OBVIOUS
    <3>1. CASE w \in Polls'
      <4>1. PICK t \in Polls : w = Orphan(t)
        BY <1>9, <3>1
      <4> QED BY <1>5, <4>1 DEF Calls
    <3>2. CASE w \in N!Of("signIn")'
      <4>1. w \in N!Of("signIn") /\ w \in toasts \ Polls
        BY <1>10, <3>2 DEF N!Of, Polls
      <4> QED BY <1>6, <4>1 DEF Calls
    <3> QED BY <3>1, <3>2 DEF Calls
  <2>1. PICK t \in Calls : u = Orphan(t) /\ u.attempt = t.attempt
    BY <2>a
  <2>2. PICK s \in Calls : v = Orphan(s) /\ v.attempt = s.attempt
    BY <2>a
  <2> QED BY <1>1, <2>1, <2>2 DEF ToldApart
<1>12. N!TypeOK'
  BY <1>2, <1>4, <1>8, SameLibrary DEF N!TypeOK
<1>13. NothingListed'
  BY <1>2, <1>5, <1>9 DEF NothingListed
<1>14. ClaimsCount(Polls')
  BY <1>5, <1>9 DEF ClaimsCount, Hears
<1> QED BY <1>2, <1>11, <1>12, <1>13, <1>14 DEF Hears

LEMMA HearsUnchanged ==
  ASSUME Hears, UNCHANGED notifier
  PROVE  Hears'
<1>1. /\ UNCHANGED <<memory, latestHalt, undeliveredHalt, toasts>>
      /\ UNCHANGED <<heard, heardCount, heardSignIn, heardHalt>>
  BY DEF notifier
<1>2. N!TypeOK'
  BY <1>1 DEF Hears, N!TypeOK
<1>3. Polls' = Polls /\ Calls' = Calls
  BY <1>1 DEF Polls, Calls, N!Of
<1>4. ToldApart'
  BY <1>3 DEF Hears, ToldApart
<1> QED BY <1>1, <1>2, <1>3, <1>4, ListsAlone

LEMMA ToastEndsOK ==
  ASSUME Hears, NEW t \in toasts, N!ToastEnds(t)
  PROVE  Hears'
<1>1. toasts' = toasts \ {t}
  BY DEF N!ToastEnds
<1>2. CASE t.kind = "poll" /\ (N!PollShown(t) \/ N!PollNotShown(t))
  <2>1. t \in Polls
    BY <1>2 DEF Polls, N!Of
  <2> QED BY <1>1, <1>2, <2>1, PollShownOK, PollNotShownOK
<1>3. CASE t.kind = "signIn" /\ (N!SignInShown(t) \/ N!SignInNotShown(t))
  <2>1. t \in N!Of("signIn")
    BY <1>3 DEF N!Of
  <2> QED BY <1>1, <1>3, <2>1, SignInEndsOK
<1>4. CASE t.kind = "halt" /\ (N!HaltShown(t) \/ N!HaltNotShown(t))
  <2>1. t \in N!Of("halt")
    BY <1>4 DEF N!Of
  <2> QED BY <1>1, <1>4, <2>1, HaltEndsOK
<1> QED BY <1>2, <1>3, <1>4 DEF N!ToastEnds

(* What the notifier is asked in one step of the whole.                    *)
Asked ==
  \/ UNCHANGED notifier \/ N!PollSucceeded \/ N!SignInNeeded
  \/ \E awaiting \in SUBSET Confirms, unreadable \in 0..MaxUnreadable : N!Pending(awaiting, unreadable)
  \/ N!Halted \/ N!StillHalted \/ N!ForgetNotices
  \/ \E t \in toasts : N!ToastEnds(t)

LEMMA NotifierStep == [AllNext]_allVars => Asked
<1> SUFFICES ASSUME [AllNext]_allVars PROVE Asked
  OBVIOUS
<1>1. CASE UNCHANGED allVars
  BY <1>1 DEF allVars, Asked
<1>2. CASE Elsewhere \/ Beats \/ Locks \/ HostAnswers
  BY <1>2 DEF Elsewhere, Beats, Locks, HostAnswers, Unheard, Asked
<1>3. ASSUME NEW a \in Accounts, Routed(a) \/ Lands(a) PROVE Asked
  BY <1>3 DEF Routed, Lands, Succeeds, NeedsSignIn, Fails, ReturnsDisowned, Unheard, Asked
<1> QED BY <1>1, <1>2, <1>3 DEF AllNext

LEMMA HearsStep == Hears /\ [AllNext]_allVars => Hears'
<1> SUFFICES ASSUME Hears, Asked PROVE Hears'
  BY NotifierStep
<1>1. CASE UNCHANGED notifier
  BY <1>1, HearsUnchanged
<1>2. ASSUME NEW awaiting \in SUBSET Confirms, NEW unreadable \in 0..MaxUnreadable,
             N!Pending(awaiting, unreadable)
      PROVE  Hears'
  <2>1. unreadable \in Nat
    BY NotifierAssumption
  <2> QED BY <1>2, <2>1, PendingOK
<1>3. UNCHANGED N!notifier => UNCHANGED notifier
  BY DEF N!notifier, N!notices, notifier
<1>4. N!SignInNeeded => Hears'
  BY <1>3, HearsUnchanged, SignInNeededOK
<1>5. N!StillHalted => Hears'
  BY <1>3, HearsUnchanged, StillHaltedOK
<1>6. ASSUME NEW t \in toasts, N!ToastEnds(t) PROVE Hears'
  BY <1>6, ToastEndsOK
<1> QED BY <1>1, <1>2, <1>4, <1>5, <1>6, PollSucceededOK, HaltedOK, ForgetNoticesOK DEF Asked

LEMMA HearsAtFirst == AllInit => Hears
<1> SUFFICES ASSUME N!NotifierInit PROVE Hears
  BY DEF AllInit
<1>1. Polls = {} /\ Calls = {}
  BY DEF N!NotifierInit, Polls, Calls, N!Of
<1>2. IsFiniteSet({}) /\ Cardinality({}) = 0
  BY FS_EmptySet
<1>3. N!TypeOK
  <2>1. N!IsFiniteSet(toasts) /\ N!Cardinality(toasts) <= MaxToasts
    BY <1>2, SameLibrary, NotifierAssumption DEF N!NotifierInit
  <2> QED BY <2>1 DEF N!NotifierInit, N!TypeOK
<1>4. ToldApart /\ NothingListed /\ ClaimsCount(Polls) /\ memory = None
  BY <1>1 DEF N!NotifierInit, ToldApart, NothingListed, ClaimsCount
<1> QED BY <1>3, <1>4 DEF Hears

(* A prompt to sign in is taken for told only while its toast is on its    *)
(* way, or once that was shown.                                            *)
LEMMA PromptStep ==
  ASSUME Hears, N!SignInWasTold, Asked
  PROVE  N!SignInWasTold'
<1>0. memory # None => memory \in N!Record
  BY DEF N!TypeOK, Hears
<1>1. CASE UNCHANGED notifier
  BY <1>1 DEF notifier, N!SignInWasTold, N!Of
<1>2. N!PollSucceeded => N!SignInWasTold'
  <2>1. N!PollSucceeded => memory' = None \/ memory'.told = FALSE
    BY <1>0 DEF N!PollSucceeded, N!Record
  <2> QED BY <2>1 DEF N!SignInWasTold
<1>3. ASSUME N!SignInNeeded PROVE N!SignInWasTold'
  <2>1. CASE UNCHANGED N!notifier
    BY <2>1 DEF N!notifier, N!SignInWasTold, N!Of
  <2>2. CASE ~UNCHANGED N!notifier
    <3>1. /\ toasts' = toasts \cup {[kind |-> "signIn", attempt |-> N!NextAttempt]}
          /\ memory' = IF memory = None THEN N!Blank(TRUE, N!NextAttempt)
                       ELSE [memory EXCEPT !.told = TRUE, !.signInBy = N!NextAttempt]
      BY <1>3, <2>2 DEF N!SignInNeeded
    <3>2. memory'.signInBy = N!NextAttempt
      BY <1>0, <3>1 DEF N!Blank, N!Record
    <3>3. [kind |-> "signIn", attempt |-> N!NextAttempt] \in N!Of("signIn")'
      BY <3>1 DEF N!Of
    <3> QED BY <3>2, <3>3 DEF N!SignInWasTold
  <2> QED BY <2>1, <2>2
<1>4. ASSUME NEW awaiting \in SUBSET Confirms, NEW unreadable \in 0..MaxUnreadable,
             N!Pending(awaiting, unreadable)
      PROVE  N!SignInWasTold'
  <2>1. unreadable \in Nat
    BY NotifierAssumption
  <2>2. memory'.told = FALSE
    BY <1>4, <2>1, PendingOK
  <2> QED BY <2>2 DEF N!SignInWasTold
<1>5. N!Halted \/ N!StillHalted => N!SignInWasTold'
  <2>1. N!Halted \/ N!StillHalted =>
          UNCHANGED <<memory, heardSignIn>> /\ N!Of("signIn") \subseteq N!Of("signIn")'
    BY DEF N!Halted, N!StillHalted, N!Of, N!notifier
  <2> QED BY <2>1 DEF N!SignInWasTold
<1>6. N!ForgetNotices => N!SignInWasTold'
  BY DEF N!ForgetNotices, N!SignInWasTold
<1>7. ASSUME NEW t \in toasts, N!ToastEnds(t) PROVE N!SignInWasTold'
  <2>1. toasts' = toasts \ {t}
    BY <1>7 DEF N!ToastEnds
  <2>2. N!Of("signIn")' = N!Of("signIn") \ {t}
    BY <2>1 DEF N!Of
  <2>3. CASE t.kind = "poll" /\ (N!PollShown(t) \/ N!PollNotShown(t))
    <3>1. heardSignIn' = heardSignIn /\ t \notin N!Of("signIn")
      BY <2>3 DEF N!PollShown, N!PollNotShown, N!Of
    <3>2. memory' # None =>
            memory # None /\ memory'.told = memory.told /\ memory'.signInBy = memory.signInBy
      BY <2>3, PollKeepsPrompt DEF Polls, N!Of
    <3> QED BY <2>2, <3>1, <3>2 DEF N!SignInWasTold
  <2>4. CASE t.kind = "signIn" /\ (N!SignInShown(t) \/ N!SignInNotShown(t))
    <3>1. CASE ~N!Current(t)
      <4>a. memory' = memory
        BY <2>4, <3>1 DEF N!SignInShown, N!SignInNotShown
      <4>b. heardSignIn => heardSignIn'
        BY <2>4, Zenon DEF N!SignInShown, N!SignInNotShown
      <4>1. memory' = memory /\ (heardSignIn => heardSignIn')
        BY <4>a, <4>b
      <4>2. memory # None => memory.signInBy # t.attempt
        BY <3>1 DEF N!Current
      <4> QED BY <2>2, <4>1, <4>2 DEF N!SignInWasTold
    <3>2. CASE N!Current(t)
      <4>1. memory # None /\ memory \in N!Record
        BY <1>0, <3>2 DEF N!Current
      <4>2. N!SignInNotShown(t) => memory'.told = FALSE
        BY <3>2, <4>1 DEF N!SignInNotShown, N!Record
      <4>3. N!SignInShown(t) => memory'.told = memory.told /\ (memory.told => heardSignIn')
        BY <3>2, <4>1 DEF N!SignInShown, N!Record
      <4> QED BY <2>4, <4>1, <4>2, <4>3 DEF N!SignInWasTold
    <3> QED BY <3>1, <3>2
  <2>5. CASE t.kind = "halt" /\ (N!HaltShown(t) \/ N!HaltNotShown(t))
    <3>1. UNCHANGED <<memory, heardSignIn>> /\ t \notin N!Of("signIn")
      BY <2>5 DEF N!HaltShown, N!HaltNotShown, N!Of
    <3> QED BY <2>2, <3>1 DEF N!SignInWasTold
  <2> QED BY <1>7, <2>3, <2>4, <2>5 DEF N!ToastEnds
<1> QED BY <1>1, <1>2, <1>3, <1>4, <1>5, <1>6, <1>7 DEF Asked

(* A halt is told, or on its way, or waits for the beat: the engine enters *)
(* it only together with its notice, and whatever forgets the notice also  *)
(* leaves the halt.                                                        *)
LEMMA NoticesKept ==
  ASSUME HaltWasTold, Watched \in halted,
         UNCHANGED <<latestHalt, undeliveredHalt, heardHalt>>, N!Of("halt") \subseteq N!Of("halt")'
  PROVE  HaltWasTold'
BY DEF HaltWasTold

LEMMA HaltStep ==
  ASSUME HaltWasTold, [AllNext]_allVars
  PROVE  HaltWasTold'
<1> SUFFICES ASSUME Watched \in halted' PROVE HaltWasTold'
  BY DEF HaltWasTold
<1>1. UNCHANGED notifier /\ Watched \in halted => HaltWasTold'
  <2>1. UNCHANGED notifier =>
          UNCHANGED <<latestHalt, undeliveredHalt, heardHalt>> /\ N!Of("halt")' = N!Of("halt")
    BY DEF notifier, N!Of
  <2> QED BY <2>1, NoticesKept
<1>2. CASE UNCHANGED allVars
  BY <1>1, <1>2 DEF allVars, vars
<1>3. CASE Elsewhere
  <2>1. halted' \subseteq halted
    BY <1>3 DEF Elsewhere, Start, RequireProxies, RelaxProxies, Sweep, SaveSettings, Forget
  <2> QED BY <1>1, <1>3, <2>1 DEF Elsewhere, Unheard
<1>4. CASE Locks
  BY <1>4 DEF Locks, Stop
<1>5. CASE Beats
  <2>1. halted' = halted /\ (N!StillHalted \/ UNCHANGED notifier)
    BY <1>5 DEF Beats, Beat, Unheard
  <2>2. CASE N!StillHalted
    <3>1. CASE undeliveredHalt = None
      BY <1>1, <2>1, <2>2, <3>1 DEF N!StillHalted, N!notifier, N!notices, notifier
    <3>2. CASE undeliveredHalt # None
      <4>1. /\ toasts' = toasts \cup {N!Notice(undeliveredHalt)}
            /\ UNCHANGED <<latestHalt, heardHalt>>
        BY <2>2, <3>2 DEF N!StillHalted
      <4>2. N!Of("halt")' = N!Of("halt") \cup {N!Notice(undeliveredHalt)}
        BY <4>1 DEF N!Of, N!Notice
      <4>3. N!Notice(undeliveredHalt).attempt = undeliveredHalt
        BY DEF N!Notice
      <4> QED BY <2>1, <4>1, <4>2, <4>3 DEF HaltWasTold
    <3> QED BY <3>1, <3>2
  <2> QED BY <1>1, <2>1, <2>2
<1>6. CASE HostAnswers
  <2>1. PICK t \in toasts : N!ToastEnds(t) /\ halted' = halted
    BY <1>6 DEF HostAnswers, vars
  <2>2. toasts' = toasts \ {t}
    BY <2>1 DEF N!ToastEnds
  <2>3. CASE t.kind # "halt"
    <3>1. UNCHANGED <<latestHalt, undeliveredHalt, heardHalt>>
      BY <2>1, <2>3 DEF N!ToastEnds, N!PollShown, N!PollNotShown, N!SignInShown,
         N!SignInNotShown, N!notices
    <3>2. N!Of("halt")' = N!Of("halt")
      BY <2>2, <2>3 DEF N!Of
    <3> QED BY <2>1, <3>1, <3>2, NoticesKept
  <2>4. CASE t.kind = "halt"
    <3>1. N!Of("halt")' = N!Of("halt") \ {t}
      BY <2>2 DEF N!Of
    <3>2. latestHalt' = latestHalt /\ (N!HaltShown(t) \/ N!HaltNotShown(t))
      BY <2>1, <2>4 DEF N!ToastEnds, N!HaltShown, N!HaltNotShown
    <3>3. CASE latestHalt = t.attempt
      <4>1. N!HaltShown(t) => heardHalt'
        BY <3>3, Zenon DEF N!HaltShown
      <4>2. N!HaltNotShown(t) => undeliveredHalt' = latestHalt'
        BY <3>2, <3>3 DEF N!HaltNotShown
      <4> QED BY <3>2, <4>1, <4>2 DEF HaltWasTold
    <3>4. CASE latestHalt # t.attempt
      <4>1. undeliveredHalt' = undeliveredHalt
        BY <3>2, <3>4 DEF N!HaltShown, N!HaltNotShown
      <4>2. heardHalt => heardHalt'
        BY <3>2, Zenon DEF N!HaltShown, N!HaltNotShown
      <4> QED BY <2>1, <3>1, <3>2, <3>4, <4>1, <4>2 DEF HaltWasTold
    <3> QED BY <3>3, <3>4
  <2> QED BY <2>3, <2>4
<1>7. ASSUME NEW a \in Accounts, Routed(a) PROVE HaltWasTold'
  <2>1. halted' = halted \ {a}
    BY <1>7 DEF Routed, ForgetAccount, Forget
  <2> QED BY <1>1, <1>7, <2>1 DEF Routed, Unheard
<1>8. ASSUME NEW a \in Accounts \ {Watched}, Lands(a) PROVE HaltWasTold'
  <2>1. PollLands(a) /\ UNCHANGED notifier
    BY <1>8 DEF Lands, Unheard
  <2>2. halted' \subseteq halted \cup {a}
    BY <2>1 DEF PollLands, PollSucceeds, PollNeedsSignIn, PollFails, PollDisowned
  <2> QED BY <1>1, <2>1, <2>2
<1>9. ASSUME Lands(Watched) PROVE HaltWasTold'
  <2>1. CASE Fails
    <3>1. N!Halted
      BY <2>1 DEF Fails
    <3>2. toasts' = toasts \cup {N!Notice(latestHalt')}
      BY <3>1 DEF N!Halted
    <3>3. N!Notice(latestHalt') \in N!Of("halt")' /\ N!Notice(latestHalt').attempt = latestHalt'
      BY <3>2 DEF N!Of, N!Notice
    <3> QED BY <3>3 DEF HaltWasTold
  <2>2. CASE Succeeds
    <3>1. halted' = halted
      BY <2>2 DEF Succeeds, PollSucceeds
    <3>2. N!PollSucceeded => UNCHANGED <<N!notices, toasts>>
      BY DEF N!PollSucceeded
    <3>3. ASSUME NEW awaiting \in SUBSET Confirms, NEW unreadable \in 0..MaxUnreadable,
                 N!Pending(awaiting, unreadable)
          PROVE  UNCHANGED N!notices /\ N!Of("halt") \subseteq N!Of("halt")'
      <4>1. PICK epoch, said : N!Listed(awaiting, unreadable, epoch, said)
        BY <3>3 DEF N!Pending, N!Seeds, N!Updates
      <4>2. \A t \in N!Of("halt") : t \in toasts /\ N!Aged(t, awaiting, unreadable, epoch) = t
        BY DEF N!Of, N!Aged
      <4>3. \A t \in N!Of("halt") : t \in toasts'
        BY <4>1, <4>2 DEF N!Listed
      <4> QED BY <3>3, <4>3 DEF N!Pending, N!Of
    <3>4. UNCHANGED N!notices /\ N!Of("halt") \subseteq N!Of("halt")'
      BY <2>2, <3>2, <3>3 DEF Succeeds, N!Of
    <3> QED BY <3>1, <3>4, NoticesKept DEF N!notices
  <2>3. CASE NeedsSignIn
    <3>1. halted' = halted
      BY <2>3 DEF NeedsSignIn, PollNeedsSignIn
    <3>2. UNCHANGED N!notices /\ N!Of("halt") \subseteq N!Of("halt")'
      BY <2>3 DEF NeedsSignIn, N!SignInNeeded, N!notifier, N!Of
    <3> QED BY <3>1, <3>2, NoticesKept DEF N!notices
  <2>4. CASE ReturnsDisowned
    <3>1. halted' = halted
      BY <2>4 DEF ReturnsDisowned, PollDisowned
    <3>2. UNCHANGED N!notices /\ N!Of("halt") \subseteq N!Of("halt")'
      BY <2>4 DEF ReturnsDisowned, Unheard, notifier, N!PollSucceeded, N!notices, N!Of
    <3> QED BY <3>1, <3>2, NoticesKept DEF N!notices
  <2> QED BY <1>9, <2>1, <2>2, <2>3, <2>4 DEF Lands
<1> QED BY <1>2, <1>3, <1>4, <1>5, <1>6, <1>7, <1>8, <1>9 DEF AllNext

-----------------------------------------------------------------------------
LEMMA HearsAlways == AllSpec => [](Hears /\ N!SignInWasTold /\ HaltWasTold)
<1>1. AllInit => Hears /\ N!SignInWasTold /\ HaltWasTold
  <2>1. AllInit => N!SignInWasTold /\ HaltWasTold
    BY DEF AllInit, Init, N!NotifierInit, N!SignInWasTold, HaltWasTold
  <2> QED BY <2>1, HearsAtFirst
<1>2. Hears /\ N!SignInWasTold /\ HaltWasTold /\ [AllNext]_allVars
        => (Hears /\ N!SignInWasTold /\ HaltWasTold)'
  BY HearsStep, PromptStep, HaltStep, NotifierStep
<1> QED BY <1>1, <1>2, PTL DEF AllSpec

(* Every variable of the notifier keeps its type, and no more toasts are   *)
(* on their way than there is room for.                                    *)
THEOREM NotifierTypes == AllSpec => []N!TypeOK
<1>1. Hears => N!TypeOK
  BY DEF Hears
<1> QED BY <1>1, HearsAlways, PTL

(* However late the host answers, and whatever polls, locks and changes of *)
(* route come first: what the engine found and the notifier holds for told *)
(* was told since it appeared, or a toast on its way tells it.             *)
THEOREM NothingLost == AllSpec => []NothingIsLost
<1>1. Hears => N!SeenWasTold
  BY DEF Hears, MarksBut, N!SeenWasTold, Polls
<1>2. Hears => N!CountWasTold
  <2> SUFFICES ASSUME Hears, memory # None
               PROVE  /\ memory.due = None => heardCount >= memory.last
                      /\ memory.due # None /\ memory.due.revision \in N!Range(memory.claims)
                           => \E t \in N!Of("poll") :
                                t.mine /\ t.claim # None /\ t.claim.revision = memory.due.revision
    BY DEF N!CountWasTold
  <2>1. Balanced(memory, heardCount) /\ Claimed(memory, Polls)
    BY DEF Hears
  <2>2. memory.due = None => heardCount >= memory.last
    BY <2>1 DEF Balanced
  <2>3. ASSUME memory.due.revision \in N!Range(memory.claims)
        PROVE  \E t \in N!Of("poll") :
                 t.mine /\ t.claim # None /\ t.claim.revision = memory.due.revision
    BY <2>1, <2>3 DEF Claimed, N!Range, Polls
  <2> QED BY <2>2, <2>3
<1> QED BY <1>1, <1>2, HearsAlways, PTL DEF NothingIsLost

(* What the user was told of stays marked while it stays as it was: no     *)
(* other toast's failure makes the notifier say it again.                  *)
THEOREM NothingTwice == AllSpec => []ToldOnce
<1>1. Hears => ToldOnce
  BY DEF Hears, MarksBut, ToldOnce, N!ToldOnce
<1> QED BY <1>1, HearsAlways, PTL

-----------------------------------------------------------------------------
(* The codes.                                                              *)

(* What the clock's fields say of one another once an answer came: the     *)
(* offset is the skew of that moment, less what the answer took.           *)
Measured ==
  /\ skew \in Int /\ measured \in Int /\ offset \in Int
  /\ verified => \E late \in 0..MaxLatency : offset = measured - late

-----------------------------------------------------------------------------
(* The courier.  Every operation of Codes moves the clipboard by one of    *)
(* the courier's, or leaves it alone.                                      *)
CourierStep ==
  \/ Unlock \/ Lock \/ TimerFires \/ EndClear \/ UNCHANGED clipboard
  \/ \E c \in Codes : Copy(c)
  \/ \E t \in Texts : OtherWrites(t)

LEMMA StepsOfTheCourier == [CodesNext]_codesVars => CourierStep
<1> USE DEF CourierStep
<1> SUFFICES ASSUME [CodesNext]_codesVars PROVE CourierStep  OBVIOUS
<1>1. CASE Poll \/ CopyAsked \/ Copied
  BY <1>1 DEF Poll, CopyAsked, Copied, WriteCode, CopyFails
<1>2. CASE UnlockVault \/ LockVault
  BY <1>2 DEF UnlockVault, LockVault
<1>3. CASE (\E late \in 0..MaxLatency : Answered(late)) \/ Failed \/ CooldownEnds \/ Ages
  BY <1>3 DEF Answered, Failed, CooldownEnds, Ages
<1>4. CASE ClipboardActs
  BY <1>4 DEF ClipboardActs
<1>5. CASE (\E s \in Skews : ClockSet(s)) \/ (\E a \in Ids : SaveProxy(a))
  BY <1>5 DEF ClockSet, SaveProxy
<1>6. CASE UNCHANGED codesVars
  BY <1>6 DEF codesVars
<1> QED BY <1>1, <1>2, <1>3, <1>4, <1>5, <1>6 DEF CodesNext

(* A clear that was begun finds the code of this courier, if it is there.  *)
LEMMA BegunClearFinds ==
  ASSUME ClipboardTypeOK, CodeIsWatched, BeginClear
  PROVE  CodeIsWatched'
<1>1. CASE ours /\ ~missed
  <2>1. clip = written /\ clip # Nothing
    BY <1>1, TextAssumption DEF BeginClear, CodeIsWatched, ClipboardTypeOK, Texts
  <2>2. clearing' = written \/ missed'
    BY <2>1 DEF BeginClear, Find
  <2> QED BY <2>1, <2>2 DEF CodeIsWatched, Idle
<1>2. CASE ~ours
  BY <1>2 DEF BeginClear, CodeIsWatched
<1>3. CASE missed
  BY <1>3 DEF BeginClear, Find, CodeIsWatched
<1> QED BY <1>1, <1>2, <1>3

LEMMA CourierKeepsWatch ==
  ASSUME ClipboardTypeOK, CodeIsWatched, CourierStep
  PROVE  CodeIsWatched'
<1>1. CASE Unlock
  BY <1>1 DEF Unlock, CodeIsWatched, Idle
<1>2. CASE Lock \/ TimerFires
  BY <1>2, BegunClearFinds DEF Lock, TimerFires
<1>3. CASE EndClear
  BY <1>3 DEF EndClear, CodeIsWatched
<1>4. CASE UNCHANGED clipboard
  BY <1>4 DEF clipboard, CodeIsWatched, Idle
<1>5. ASSUME NEW c \in Codes, Copy(c) PROVE CodeIsWatched'
  BY <1>5 DEF Copy, CodeIsWatched
<1>6. ASSUME NEW t \in Texts, OtherWrites(t) PROVE CodeIsWatched'
  BY <1>6 DEF OtherWrites, CodeIsWatched
<1> QED BY <1>1, <1>2, <1>3, <1>4, <1>5, <1>6 DEF CourierStep

LEMMA CourierKeepsTypes ==
  ASSUME ClipboardTypeOK, CourierStep
  PROVE  ClipboardTypeOK'
<1>1. CASE Unlock \/ EndClear
  BY <1>1 DEF Unlock, EndClear, ClipboardTypeOK
<1>2. CASE BeginClear /\ isUnlocked' \in BOOLEAN
  BY <1>2 DEF BeginClear, Find, ClipboardTypeOK
<1>3. CASE Lock \/ TimerFires
  BY <1>2, <1>3 DEF Lock, TimerFires, ClipboardTypeOK
<1>4. CASE UNCHANGED clipboard
  BY <1>4 DEF clipboard, ClipboardTypeOK
<1>5. ASSUME NEW c \in Codes, Copy(c) PROVE ClipboardTypeOK'
  BY <1>5 DEF Copy, ClipboardTypeOK, Texts
<1>6. ASSUME NEW t \in Texts, OtherWrites(t) PROVE ClipboardTypeOK'
  BY <1>6 DEF OtherWrites, ClipboardTypeOK
<1> QED BY <1>1, <1>3, <1>4, <1>5, <1>6 DEF CourierStep

(* A code that was copied is remembered and has a timer of its own running *)
(* until it is gone, or a clear of it was tried and failed; whatever copies*)
(* failed, and whoever wrote the clipboard, since.                         *)
THEOREM CopiedCodesAreWatched == CodesSpec => []CodeIsWatched
<1>1. CodesInit => ClipboardTypeOK /\ CodeIsWatched
  BY DEF CodesInit, ClipboardInit, ClipboardTypeOK, CodeIsWatched, Texts
<1>2. ClipboardTypeOK /\ CodeIsWatched /\ [CodesNext]_codesVars => ClipboardTypeOK' /\ CodeIsWatched'
  BY StepsOfTheCourier, CourierKeepsTypes, CourierKeepsWatch
<1> QED BY <1>1, <1>2, PTL DEF CodesSpec

-----------------------------------------------------------------------------
(* The clock.                                                              *)
LEMMA DistancesAdd ==
  ASSUME NEW x \in Int, NEW y \in Int, NEW z \in Int
  PROVE  Distance(x, z) <= Distance(x, y) + Distance(y, z)
BY DEF Distance

(* What the accuracy of a code depends on.                                 *)
Reading == <<skew, offset, verified, measured>>

LEMMA StepsOfTheClock ==
  ASSUME Measured, [CodesNext]_codesVars
  PROVE  Measured'
<1>1. CASE Poll \/ CopyAsked \/ Copied \/ UnlockVault \/ LockVault
  <2>1. UNCHANGED Reading
    BY <1>1 DEF Poll, CopyAsked, Copied, UnlockVault, LockVault, ClockRests, world, clock,
       Reading
  <2> QED BY <2>1 DEF Reading, Measured
<1>2. CASE Failed \/ CooldownEnds \/ Ages \/ ClipboardActs \/ (\E a \in Ids : SaveProxy(a))
  <2>1. UNCHANGED Reading
    BY <1>2 DEF Failed, CooldownEnds, Ages, ClipboardActs, SaveProxy, ClockRests, world, clock,
       Reading
  <2> QED BY <2>1 DEF Reading, Measured
<1>3. ASSUME NEW late \in 0..MaxLatency, Answered(late) PROVE Measured'
  BY <1>3, ClockAssumption DEF Answered, world, Measured
<1>4. ASSUME NEW s \in Skews, ClockSet(s) PROVE Measured'
  BY <1>4, ClockAssumption DEF ClockSet, clock, Measured
<1>5. CASE UNCHANGED codesVars
  BY <1>5 DEF codesVars, world, clock, Measured
<1> QED BY <1>1, <1>2, <1>3, <1>4, <1>5 DEF CodesNext

(* A code shown without the warning is for Steam's time to within what the *)
(* comparison of the two clocks tolerates and an answer may take, however  *)
(* often the machine's clock was set.                                      *)
THEOREM UnwarnedCodesAreRight == CodesSpec => []VerifiedIsRight
<1>1. CodesInit => Measured
  BY ClockAssumption DEF CodesInit, Measured
<1>2. Measured /\ [CodesNext]_codesVars => Measured'
  BY StepsOfTheClock
<1>3. Measured => VerifiedIsRight
  <2> SUFFICES ASSUME Measured, ~clockUnverified
               PROVE  Distance(skew, offset) < Tolerance + MaxLatency
    BY DEF VerifiedIsRight
  <2>1. verified /\ ~(Distance(skew, measured) >= Tolerance)
    BY DEF clockUnverified, clockJumped
  <2>2. PICK late \in 0..MaxLatency : offset = measured - late
    BY <2>1 DEF Measured
  <2>3. Distance(measured, offset) <= MaxLatency
    BY <2>2, ClockAssumption DEF Distance, Measured
  <2>4. Distance(skew, offset) <= Distance(skew, measured) + Distance(measured, offset)
    BY DistancesAdd DEF Measured
  <2>5. Distance(skew, measured) \in Int /\ Distance(measured, offset) \in Int
        /\ Distance(skew, offset) \in Int
    BY DEF Distance, Measured
  <2> QED BY <2>1, <2>3, <2>4, <2>5, ClockAssumption
<1> QED BY <1>1, <1>2, <1>3, PTL DEF CodesSpec

-----------------------------------------------------------------------------
(* Every file that counts has a row, and the rows are within the limit.    *)
Budgeted ==
  /\ disk \subseteq DOMAIN rows \cup strays /\ strays \cap DOMAIN rows = {}
  /\ IsFiniteSet(DOMAIN rows) /\ Cardinality(DOMAIN rows) <= Limit

TrackerIInv ==
  /\ TrackerTypeOK /\ Budgeted /\ StatusIsTheLastWord
  /\ decided \in [Reports -> Statuses] /\ replied \subseteq DOMAIN tickets

-----------------------------------------------------------------------------
(* Taking rows away leaves no more of them.                                *)
LEMMA FewerRows ==
  ASSUME TrackerIInv, DOMAIN rows' \subseteq DOMAIN rows
  PROVE  IsFiniteSet(DOMAIN rows') /\ Cardinality(DOMAIN rows') <= Limit
<1>1. IsFiniteSet(DOMAIN rows) /\ Cardinality(DOMAIN rows) <= Limit
  BY DEF TrackerIInv, Budgeted
<1>2. IsFiniteSet(DOMAIN rows') /\ Cardinality(DOMAIN rows') <= Cardinality(DOMAIN rows)
  BY <1>1, FS_Subset
<1>3. Cardinality(DOMAIN rows') \in Nat /\ Cardinality(DOMAIN rows) \in Nat
  BY <1>1, <1>2, FS_CardinalityType
<1> QED BY <1>1, <1>2, <1>3, TicketsAssumption

(* What a sweep leaves.                                                    *)
LEMMA SweepsOnly ==
  ASSUME TrackerTypeOK, NEW held, Sweeps(held)
  PROVE  /\ DOMAIN tickets' \subseteq DOMAIN tickets
         /\ \A t \in DOMAIN tickets' : tickets'[t] = tickets[t]
         /\ DOMAIN rows' \subseteq DOMAIN rows
         /\ \A f \in DOMAIN rows' :
              rows'[f] = rows[f] /\ rows[f].ticket \in DOMAIN tickets' \cup {Nobody}
         /\ disk' \subseteq disk /\ strays' = strays \cap disk'
         /\ \A f \in disk' \cap DOMAIN rows : f \in DOMAIN rows'
         /\ replied' = replied \cap DOMAIN tickets'
<1> DEFINE cleared == ClearedReports(held)
           dropped == (Expired \ held) \cup UNION {FilesOf(t) : t \in cleared}
<1>1. /\ disk' = disk \ ((Condemned \cup Orphans) \ held)
      /\ rows' = Restrict(rows, DOMAIN rows \ dropped)
      /\ tickets' = Restrict(tickets, DOMAIN tickets \ cleared)
      /\ strays' = strays \cap disk' /\ replied' = replied \cap DOMAIN tickets'
  BY DEF Sweeps
<1>2. /\ DOMAIN rows' = DOMAIN rows \ dropped
      /\ \A f \in DOMAIN rows' : rows'[f] = rows[f]
      /\ DOMAIN tickets' = DOMAIN tickets \ cleared
      /\ \A t \in DOMAIN tickets' : tickets'[t] = tickets[t]
  BY <1>1 DEF Restrict
<1>3. ASSUME NEW f \in DOMAIN rows' PROVE rows[f].ticket \in DOMAIN tickets' \cup {Nobody}
  <2>1. f \in DOMAIN rows /\ f \notin dropped /\ rows[f].ticket \in DOMAIN tickets \cup {Nobody}
    BY <1>2, <1>3 DEF TrackerTypeOK
  <2>2. rows[f].ticket \notin cleared
    BY <2>1 DEF FilesOf
  <2> QED BY <1>2, <2>1, <2>2
<1>4. ASSUME NEW f \in disk' \cap DOMAIN rows PROVE f \notin dropped
  <2>1. f \notin Condemned \ held
    BY <1>1, <1>4
  <2>2. /\ Expired \subseteq Condemned
        /\ \A t \in cleared : FilesOf(t) \subseteq Condemned \ held
    BY DEF Condemned, ClearedReports
  <2> QED BY <2>1, <2>2
<1> QED BY <1>1, <1>2, <1>3, <1>4

(* A sweep, whatever could not be removed, keeps the invariant.            *)
LEMMA SweepsKeep ==
  ASSUME TrackerIInv, NEW held, Sweeps(held), UNCHANGED <<admins, decided>>,
         token' \in BOOLEAN, faults' \in 0..MaxFaults
  PROVE  TrackerIInv'
<1>1. TrackerTypeOK
  BY DEF TrackerIInv
<1>2. TrackerTypeOK'
  BY <1>1, SweepsOnly DEF TrackerTypeOK
<1>3. Budgeted'
  BY <1>1, SweepsOnly, FewerRows DEF TrackerIInv, Budgeted
<1>4. StatusIsTheLastWord' /\ replied' \subseteq DOMAIN tickets'
  BY <1>1, SweepsOnly DEF TrackerIInv, StatusIsTheLastWord
<1> QED BY <1>2, <1>3, <1>4 DEF TrackerIInv

(* A file for which there was room, and its row.                           *)
LEMMA StoreKeeps ==
  ASSUME TrackerIInv, NEW r \in Requests, Store(r)
  PROVE  TrackerIInv'
<1>1. FreshId \in Files /\ FreshId \notin DOMAIN rows /\ FreshId \notin disk
  BY DEF Store, FreshId, Unused
<1>2. /\ DOMAIN rows' = DOMAIN rows \cup {FreshId}
      /\ \A f \in DOMAIN rows : rows'[f] = rows[f]
      /\ rows'[FreshId] = [ticket |-> Nobody, old |-> FALSE]
  BY <1>1 DEF Store, With
<1>3. TrackerTypeOK'
  <2>1. /\ disk' = disk \cup {FreshId}
        /\ UNCHANGED <<tickets, admins, token, faults, decided, replied, strays>>
    BY DEF Store, history
  <2>2. \A f \in DOMAIN rows' : rows'[f] \in [ticket : DOMAIN tickets' \cup {Nobody}, old : BOOLEAN]
    <3> SUFFICES ASSUME NEW f \in DOMAIN rows'
                 PROVE  rows'[f] \in [ticket : DOMAIN tickets \cup {Nobody}, old : BOOLEAN]
      BY <2>1
    <3>1. CASE f = FreshId
      <4>1. [ticket |-> Nobody, old |-> FALSE] \in [ticket : DOMAIN tickets \cup {Nobody}, old : BOOLEAN]
        OBVIOUS
      <4> QED BY <1>2, <3>1, <4>1
    <3>2. CASE f \in DOMAIN rows
      BY <1>2, <3>2 DEF TrackerIInv, TrackerTypeOK
    <3> QED BY <1>2, <3>1, <3>2
  <2> QED BY <1>1, <1>2, <2>1, <2>2 DEF TrackerIInv, TrackerTypeOK
<1>4. Budgeted'
  <2>1. IsFiniteSet(DOMAIN rows) /\ Cardinality(DOMAIN rows) + 1 <= Limit
    BY DEF TrackerIInv, Budgeted, Store, Room
  <2>2. IsFiniteSet(DOMAIN rows') /\ Cardinality(DOMAIN rows') = Cardinality(DOMAIN rows) + 1
    BY <1>1, <1>2, <2>1, FS_AddElement
  <2>3. disk' = disk \cup {FreshId} /\ strays' = strays /\ FreshId \notin strays
    BY <1>1 DEF Store, history, TrackerIInv, TrackerTypeOK
  <2> QED BY <1>2, <2>1, <2>2, <2>3 DEF TrackerIInv, Budgeted
<1>5. UNCHANGED <<tickets, decided, replied>>
  BY DEF Store, history
<1> QED BY <1>3, <1>4, <1>5 DEF TrackerIInv, StatusIsTheLastWord

(* Bytes come or go, and no row does.                                      *)
LEMMA BytesKeep ==
  ASSUME TrackerIInv, UNCHANGED <<tables, decided, replied>>,
         token' \in BOOLEAN, faults' \in 0..MaxFaults,
         \/ disk' \subseteq disk /\ strays' = strays /\ strays \subseteq disk'
         \/ \E f \in Files \ DOMAIN rows : disk' = disk \cup {f} /\ strays' = strays \cup {f}
  PROVE  TrackerIInv'
BY DEF TrackerIInv, TrackerTypeOK, Budgeted, StatusIsTheLastWord, tables

(* A picture nobody claimed is withdrawn, or its file only.                *)
LEMMA WithdrawKeeps ==
  ASSUME TrackerIInv, NEW f \in Files, Withdraw(f)
  PROVE  TrackerIInv'
<1>1. /\ f \in DOMAIN rows /\ disk' = disk \ {f}
      /\ UNCHANGED <<tickets, admins, token, decided, replied, strays>>
  BY DEF Withdraw, Withdrawn
<1>2. faults' \in 0..MaxFaults
  BY TicketsAssumption DEF Withdraw, Fault, TrackerIInv, TrackerTypeOK
<1>3. /\ DOMAIN rows' \subseteq DOMAIN rows /\ DOMAIN rows \ {f} \subseteq DOMAIN rows'
      /\ \A g \in DOMAIN rows' : rows'[g] = rows[g]
  BY DEF Withdraw, Restrict
<1>4. TrackerTypeOK'
  BY <1>1, <1>2, <1>3 DEF TrackerIInv, TrackerTypeOK, Budgeted
<1>5. Budgeted'
  BY <1>1, <1>3, FewerRows DEF TrackerIInv, Budgeted
<1> QED BY <1>1, <1>4, <1>5 DEF TrackerIInv, StatusIsTheLastWord

(* Who claims pictures takes what is nobody's.                             *)
LEMMA ClaimsOnly ==
  ASSUME TrackerTypeOK, NEW t, NEW asked, Claims(t, asked)
  PROVE  /\ DOMAIN rows' = DOMAIN rows
         /\ \A f \in DOMAIN rows :
              \/ rows'[f] = rows[f]
              \/ Unclaimed(f) /\ rows'[f] = [rows[f] EXCEPT !.ticket = t]
BY DEF Claims, Claimable

LEMMA ClaimsKeepTypes ==
  ASSUME TrackerIInv, NEW t \in DOMAIN tickets', NEW asked, Claims(t, asked),
         DOMAIN tickets \subseteq DOMAIN tickets'
  PROVE  \A f \in DOMAIN rows' : rows'[f] \in [ticket : DOMAIN tickets' \cup {Nobody}, old : BOOLEAN]
<1>1. TrackerTypeOK
  BY DEF TrackerIInv
<1> SUFFICES ASSUME NEW f \in DOMAIN rows'
             PROVE  rows'[f] \in [ticket : DOMAIN tickets' \cup {Nobody}, old : BOOLEAN]
  OBVIOUS
<1>2. f \in DOMAIN rows /\ (rows'[f] = rows[f] \/ rows'[f] = [rows[f] EXCEPT !.ticket = t])
  BY <1>1, ClaimsOnly
<1>3. rows[f] \in [ticket : DOMAIN tickets' \cup {Nobody}, old : BOOLEAN]
  BY <1>1, <1>2 DEF TrackerTypeOK
<1> QED BY <1>2, <1>3

(* A new report, and a reply to one, with the pictures they claim.         *)
LEMMA SubmittedKeeps ==
  ASSUME TrackerIInv, NEW r \in Requests, NEW t \in Reports, NEW asked,
         Submitted(r, t, asked)
  PROVE  TrackerIInv'
<1>1. /\ DOMAIN tickets' = DOMAIN tickets \cup {t}
      /\ tickets'[t] = [status |-> "open", old |-> FALSE]
      /\ \A u \in DOMAIN tickets : tickets'[u] = tickets[u] /\ u # t
  BY DEF Submitted, With
<1>2. /\ Claims(t, asked) /\ decided' = [decided EXCEPT ![t] = "open"]
      /\ UNCHANGED <<admins, disk, token, faults, replied, strays>>
  BY DEF Submitted
<1>3. DOMAIN rows' = DOMAIN rows
  BY <1>2, ClaimsOnly DEF TrackerIInv
<1>4. TrackerTypeOK'
  <2>1. TrackerTypeOK /\ [status |-> "open", old |-> FALSE] \in [status : Statuses, old : BOOLEAN]
    BY DEF TrackerIInv, Statuses
  <2>2. \A f \in DOMAIN rows' : rows'[f] \in [ticket : DOMAIN tickets' \cup {Nobody}, old : BOOLEAN]
    BY <1>1, <1>2, ClaimsKeepTypes
  <2>3. \A u \in DOMAIN tickets' : tickets'[u] \in [status : Statuses, old : BOOLEAN]
    BY <1>1, <2>1 DEF TrackerTypeOK
  <2> QED BY <1>1, <1>2, <1>3, <2>1, <2>2, <2>3 DEF TrackerTypeOK
<1>5. /\ StatusIsTheLastWord' /\ decided' \in [Reports -> Statuses]
      /\ replied' \subseteq DOMAIN tickets'
  BY <1>1, <1>2 DEF TrackerIInv, TrackerTypeOK, StatusIsTheLastWord, Statuses
<1> QED BY <1>2, <1>3, <1>4, <1>5 DEF TrackerIInv, Budgeted

LEMMA RepliedKeeps ==
  ASSUME TrackerIInv, NEW r \in Requests, NEW asked, Replied(r, asked)
  PROVE  TrackerIInv'
<1> DEFINE t == request[r].about
<1>1. /\ t \in DOMAIN tickets /\ DOMAIN tickets' = DOMAIN tickets
      /\ tickets'[t] = [status |-> StatusNow(r), old |-> FALSE]
      /\ \A u \in DOMAIN tickets \ {t} : tickets'[u] = tickets[u]
  BY DEF Replied
<1>2. /\ Claims(t, asked) /\ replied' = replied \cup {t}
      /\ UNCHANGED <<admins, disk, token, faults, decided, strays>>
  BY DEF Replied
<1>3. DOMAIN rows' = DOMAIN rows
  BY <1>2, ClaimsOnly DEF TrackerIInv
<1>4. StatusNow(r) = IF tickets[t].status = "assigned" THEN "assigned" ELSE "open"
  BY DEF StatusNow
<1>5. TrackerTypeOK'
  <2>1. TrackerTypeOK /\ [status |-> StatusNow(r), old |-> FALSE] \in [status : Statuses, old : BOOLEAN]
    BY <1>4 DEF TrackerIInv, Statuses
  <2>2. \A f \in DOMAIN rows' : rows'[f] \in [ticket : DOMAIN tickets' \cup {Nobody}, old : BOOLEAN]
    BY <1>1, <1>2, ClaimsKeepTypes
  <2>3. \A u \in DOMAIN tickets' : tickets'[u] \in [status : Statuses, old : BOOLEAN]
    BY <1>1, <2>1 DEF TrackerTypeOK
  <2> QED BY <1>1, <1>2, <1>3, <2>1, <2>2, <2>3 DEF TrackerTypeOK
<1>6. StatusIsTheLastWord' /\ replied' \subseteq DOMAIN tickets'
  BY <1>1, <1>2, <1>4 DEF TrackerIInv, StatusIsTheLastWord
<1> QED BY <1>2, <1>3, <1>5, <1>6 DEF TrackerIInv, Budgeted

(* An administrator's decision, and the passing of time.                   *)
LEMMA ActKeeps ==
  ASSUME TrackerIInv, NEW t \in Reports,
         (\E status \in Statuses : Act(t, status)) \/ ReportAges(t)
  PROVE  TrackerIInv'
<1>1. /\ DOMAIN tickets' = DOMAIN tickets /\ t \in DOMAIN tickets
      /\ \A u \in DOMAIN tickets \ {t} : tickets'[u] = tickets[u]
      /\ UNCHANGED <<rows, admins, disk, token, faults, strays>>
  BY DEF Act, ReportAges, history
<1>2. CASE ReportAges(t)
  BY <1>1, <1>2 DEF ReportAges, history, TrackerIInv, TrackerTypeOK, Budgeted,
     StatusIsTheLastWord
<1>3. ASSUME NEW status \in Statuses, Act(t, status) PROVE TrackerIInv'
  <2>1. /\ tickets'[t] = [status |-> status, old |-> FALSE] /\ replied' = replied \ {t}
        /\ decided' = [decided EXCEPT ![t] = status]
    BY <1>3 DEF Act
  <2>2. TrackerTypeOK'
    <3>1. [status |-> status, old |-> FALSE] \in [status : Statuses, old : BOOLEAN]
      OBVIOUS
    <3>2. \A u \in DOMAIN tickets' : tickets'[u] \in [status : Statuses, old : BOOLEAN]
      BY <1>1, <2>1, <3>1 DEF TrackerIInv, TrackerTypeOK
    <3> QED BY <1>1, <3>2 DEF TrackerIInv, TrackerTypeOK
  <2>3. StatusIsTheLastWord'
    <3>1. decided'[t] = status /\ \A u \in Reports \ {t} : decided'[u] = decided[u]
      BY <2>1 DEF TrackerIInv
    <3> QED BY <1>1, <2>1, <3>1 DEF TrackerIInv, TrackerTypeOK, StatusIsTheLastWord
  <2> QED BY <1>1, <2>1, <2>2, <2>3 DEF TrackerIInv, Budgeted
<1> QED BY <1>2, <1>3

LEMMA FileAgesKeeps ==
  ASSUME TrackerIInv, NEW f \in Files, FileAges(f)
  PROVE  TrackerIInv'
<1>1. /\ DOMAIN rows' = DOMAIN rows
      /\ \A g \in DOMAIN rows : rows'[g] = rows[g] \/ rows'[g] = [rows[g] EXCEPT !.old = TRUE]
      /\ UNCHANGED <<tickets, admins, disk, token, faults, history>>
  BY DEF FileAges
<1>2. \A g \in DOMAIN rows' : rows'[g] \in [ticket : DOMAIN tickets \cup {Nobody}, old : BOOLEAN]
  BY <1>1 DEF TrackerIInv, TrackerTypeOK
<1> QED BY <1>1, <1>2 DEF TrackerIInv, TrackerTypeOK, Budgeted, StatusIsTheLastWord,
   history

(* A stop inside a synchronous run leaves bytes without a row, or a row    *)
(* without its bytes.                                                      *)
LEMMA CrashKeeps ==
  ASSUME TrackerIInv, Crash \/ \E r \in Requests : StoreFails(r)
  PROVE  TrackerIInv'
<1>1. faults' \in 0..MaxFaults /\ token' \in BOOLEAN /\ UNCHANGED <<tables, decided, replied>>
  <2>1. faults \in 0..MaxFaults /\ token \in BOOLEAN
    BY DEF TrackerIInv, TrackerTypeOK
  <2>2. CASE Crash
    <3>1. token' = FALSE /\ faults < MaxFaults /\ faults' = faults + 1
      BY <2>2 DEF Crash, Fault
    <3>2. UNCHANGED <<tables, decided, replied>>
      BY <2>2 DEF Crash
    <3>3. faults' \in 0..MaxFaults
      BY <2>1, <3>1, TicketsAssumption
    <3> QED BY <3>1, <3>2, <3>3
  <2>3. ASSUME NEW r \in Requests, StoreFails(r)
        PROVE  /\ faults' \in 0..MaxFaults /\ token' = token
               /\ UNCHANGED <<tables, decided, replied>>
    BY <2>1, <2>3, TicketsAssumption DEF StoreFails
  <2> QED BY <2>1, <2>2, <2>3
<1>2. CASE UNCHANGED <<disk, strays>>
  BY <1>1, <1>2, BytesKeep DEF TrackerIInv, TrackerTypeOK
<1>3. CASE Unused # {} /\ disk' = disk \cup {FreshId} /\ strays' = strays \cup {FreshId}
  <2>1. FreshId \in Files \ DOMAIN rows
    BY <1>3 DEF FreshId, Unused
  <2> QED BY <1>1, <1>3, <2>1, BytesKeep
<1>4. CASE \E gone \in SUBSET ((Condemned \cup {f \in DOMAIN rows : Unclaimed(f)}) \cap disk) :
              disk' = disk \ gone /\ UNCHANGED strays
  <2>1. Condemned \subseteq DOMAIN rows
    BY DEF Condemned, Expired, FilesOf
  <2>2. strays \subseteq disk'
    BY <1>4, <2>1 DEF TrackerIInv, TrackerTypeOK, Budgeted
  <2> QED BY <1>1, <1>4, <2>2, BytesKeep
<1> QED BY <1>2, <1>3, <1>4 DEF Crash, StoreFails

(* What neither store hears of.                                            *)
LEMMA QuietKeeps ==
  ASSUME TrackerIInv, token' \in BOOLEAN, admins' \in Nat,
         UNCHANGED <<tickets, rows, disk, faults, history>>
  PROVE  TrackerIInv'
BY DEF TrackerIInv, TrackerTypeOK, Budgeted, StatusIsTheLastWord, history

LEMMA HandlesKeep ==
  ASSUME TrackerIInv, NEW r \in Requests, Handles(r)
  PROVE  TrackerIInv'
<1>1. TrackerTypeOK
  BY DEF TrackerIInv
<1>2. CASE Attach(r)
  BY <1>1, <1>2, SweepsKeep DEF Attach, TrackerTypeOK
<1>3. CASE \/ Dropped(r) \/ Submits(r) \/ Bootstraps(r) \/ Refused(r)
           \/ \E t \in Reports : Replies(r, t)
  BY <1>1, <1>3, QuietKeeps DEF Dropped, Submits, Bootstraps,
     Refused, Replies, TrackerTypeOK, tables
<1>4. CASE Bootstrapped(r)
  <2>1. /\ token' = FALSE /\ admins' = admins + 1
        /\ UNCHANGED <<tickets, rows, disk, faults, history>>
    BY <1>4 DEF Bootstrapped
  <2>2. admins' \in Nat
    BY <1>1, <2>1 DEF TrackerTypeOK
  <2> QED BY <2>1, <2>2, QuietKeeps
<1>5. CASE Store(r) \/ StoreFails(r)
  BY <1>5, StoreKeeps, CrashKeeps
<1>6. CASE \E t \in Reports : \E asked \in SUBSET DOMAIN rows : Submitted(r, t, asked)
  BY <1>6, SubmittedKeeps
<1>7. CASE \E asked \in SUBSET DOMAIN rows : Replied(r, asked)
  BY <1>7, RepliedKeeps
<1> QED BY <1>2, <1>3, <1>4, <1>5, <1>6, <1>7 DEF Handles

LEMMA Inductive ==
  ASSUME TrackerIInv, [TrackerNext]_trackerVars
  PROVE  TrackerIInv'
<1>1. TrackerTypeOK
  BY DEF TrackerIInv
<1>2. CASE \E r \in Requests : Handles(r)
  BY <1>2, HandlesKeep
<1>3. CASE \E f \in Files : Withdraw(f) \/ FileAges(f)
  BY <1>3, WithdrawKeeps, FileAgesKeeps
<1>4. CASE \E t \in Reports : ReportAges(t) \/ \E status \in Statuses : Act(t, status)
  BY <1>4, ActKeeps
<1>5. CASE SweepHourly
  BY <1>1, <1>5, SweepsKeep DEF SweepHourly, TrackerTypeOK
<1>6. CASE SweepFails
  <2>1. faults' \in 0..MaxFaults
    BY <1>1, <1>6, TicketsAssumption DEF SweepFails, Fault, TrackerTypeOK
  <2>2. PICK f \in disk : Sweeps({f})
    BY <1>6 DEF SweepFails
  <2> QED BY <1>1, <1>6, <2>1, <2>2, SweepsKeep DEF SweepFails, TrackerTypeOK
<1>7. CASE ServerStops \/ Closes \/ UNCHANGED trackerVars
  BY <1>1, <1>7, QuietKeeps DEF ServerStops, Closes, trackerVars, tables,
     TrackerTypeOK
<1>8. CASE Crash
  BY <1>8, CrashKeeps
<1>9. CASE ServerStarts
  <2>1. token' \in BOOLEAN /\ faults' \in 0..MaxFaults /\ UNCHANGED <<admins, decided>>
    BY <1>1, <1>9 DEF ServerStarts, TrackerTypeOK
  <2> QED BY <1>9, <2>1, SweepsKeep DEF ServerStarts
<1> QED BY <1>2, <1>3, <1>4, <1>5, <1>6, <1>7, <1>8, <1>9 DEF TrackerNext

LEMMA Initially ==
  ASSUME TrackerInit
  PROVE  TrackerIInv
<1>1. DOMAIN tickets = {} /\ DOMAIN rows = {} /\ disk = {} /\ strays = {} /\ replied = {}
  BY DEF TrackerInit
<1>2. TrackerTypeOK
  BY <1>1, TicketsAssumption DEF TrackerInit, TrackerTypeOK
<1>3. IsFiniteSet({}) /\ Cardinality({}) = 0
  BY FS_EmptySet
<1>4. Budgeted
  BY <1>1, <1>3, TicketsAssumption DEF Budgeted
<1> QED BY <1>1, <1>2, <1>4 DEF TrackerInit, TrackerIInv, StatusIsTheLastWord,
   Statuses

(* All of it, in every state of every behaviour.                           *)
THEOREM TrackerInvariant == TrackerSpec => []TrackerIInv
<1>1. TrackerInit => TrackerIInv
  BY Initially
<1>2. TrackerIInv /\ [TrackerNext]_trackerVars => TrackerIInv'
  BY Inductive
<1> QED BY <1>1, <1>2, PTL DEF TrackerSpec

(* Every variable of the tracker keeps its type; in particular no          *)
(* attachment is a report's that the sweeps have deleted.                  *)
THEOREM TrackerTypes == TrackerSpec => []TrackerTypeOK
<1>1. TrackerIInv => TrackerTypeOK
  BY DEF TrackerIInv
<1> QED BY <1>1, TrackerInvariant, PTL

(* However many uploads, withdrawals, sweeps and failed removals ran, the  *)
(* files on disk are within TOTAL_STORAGE_LIMIT, but for those a stop or a *)
(* double failure left without a row.                                      *)
THEOREM WithinLimit == TrackerSpec => []StoredWithinLimit
<1>1. TrackerIInv => StoredWithinLimit
  <2> SUFFICES ASSUME TrackerIInv PROVE Cardinality(disk \ strays) <= Limit
    BY DEF StoredWithinLimit
  <2>1. disk \ strays \subseteq DOMAIN rows /\ IsFiniteSet(DOMAIN rows)
        /\ Cardinality(DOMAIN rows) <= Limit
    BY DEF TrackerIInv, Budgeted
  <2>2. IsFiniteSet(disk \ strays) /\ Cardinality(disk \ strays) <= Cardinality(DOMAIN rows)
    BY <2>1, FS_Subset
  <2>3. Cardinality(disk \ strays) \in Nat /\ Cardinality(DOMAIN rows) \in Nat
    BY <2>1, <2>2, FS_CardinalityType
  <2> QED BY <2>1, <2>2, <2>3, TicketsAssumption
<1> QED BY <1>1, TrackerInvariant, PTL

(* A report's status is the operator's last decision, or open if the       *)
(* reporter replied since and nobody has claimed it.  What was decided     *)
(* while the reply's form was on its way: a claim stands, but a report     *)
(* resolved, or asked a question, is open again.                           *)
THEOREM LastWord == TrackerSpec => []StatusIsTheLastWord
<1>1. TrackerIInv => StatusIsTheLastWord
  BY DEF TrackerIInv
<1> QED BY <1>1, TrackerInvariant, PTL

-----------------------------------------------------------------------------
(* A report's own picture, while the report is within its retention.       *)
Evidence(f) == f \in DOMAIN rows \cap disk /\ ~Unclaimed(f) /\ rows[f].ticket \notin Overdue
Kept(f) == f \in disk' /\ f \in DOMAIN rows' /\ rows'[f].ticket = rows[f].ticket

LEMMA SweepsSpare ==
  ASSUME NEW held, Sweeps(held), NEW f, Evidence(f)
  PROVE  Kept(f)
<1>1. f \notin Expired /\ \A t \in Overdue : f \notin FilesOf(t)
  BY DEF Evidence, Expired, FilesOf
<1>2. f \notin Condemned /\ f \notin Orphans /\ ClearedReports(held) \subseteq Overdue
  BY <1>1 DEF Condemned, Orphans, Evidence, ClearedReports
<1>3. f \notin (Expired \ held) \cup UNION {FilesOf(t) : t \in ClearedReports(held)}
  BY <1>1, <1>2
<1> QED BY <1>2, <1>3 DEF Sweeps, Restrict, Kept, Evidence

LEMMA ClaimsSpare ==
  ASSUME TrackerTypeOK, NEW t, NEW asked, Claims(t, asked), disk' = disk, NEW f, Evidence(f)
  PROVE  Kept(f)
BY ClaimsOnly DEF Evidence, Kept

(* Whatever happens, it stays.                                             *)
LEMMA EvidenceIsSpared ==
  ASSUME TrackerTypeOK, [TrackerNext]_trackerVars, NEW f, Evidence(f)
  PROVE  Kept(f)
<1>1. CASE SweepHourly \/ SweepFails \/ ServerStarts \/ \E r \in Requests : Attach(r)
  BY <1>1, SweepsSpare DEF SweepHourly, SweepFails, ServerStarts, Attach
<1>2. CASE \E r \in Requests : \E asked \in SUBSET DOMAIN rows :
             Replied(r, asked) \/ \E t \in Reports : Submitted(r, t, asked)
  BY <1>2, ClaimsSpare DEF Replied, Submitted
<1>3. CASE \E r \in Requests : Store(r)
  BY <1>3 DEF Store, With, Evidence, Kept, FreshId, Unused
<1>4. CASE \E g \in Files : Withdraw(g)
  BY <1>4 DEF Withdraw, Withdrawn, Restrict, Evidence, Kept
<1>5. CASE \E g \in Files : FileAges(g)
  BY <1>5 DEF FileAges, Evidence, Kept, Claimable
<1>6. CASE Crash
  <2>1. f \notin Condemned
    BY DEF Condemned, Expired, FilesOf, Evidence
  <2>2. f \in disk'
    BY <1>6, <2>1 DEF Crash, Evidence
  <2> QED BY <1>6, <2>2 DEF Crash, tables, Evidence, Kept
<1>7. CASE rows' = rows /\ disk \subseteq disk'
  BY <1>7 DEF Evidence, Kept
<1>8. ASSUME NEW r \in Requests,
             \/ Dropped(r) \/ Submits(r) \/ Bootstraps(r) \/ Refused(r) \/ Bootstrapped(r)
             \/ StoreFails(r) \/ \E t \in Reports : Replies(r, t)
      PROVE rows' = rows /\ disk \subseteq disk'
  BY <1>8 DEF Dropped, Submits, Bootstraps, Refused,
     Bootstrapped, StoreFails, Replies, tables
<1>9. CASE \/ \E t \in Reports : ReportAges(t) \/ \E status \in Statuses : Act(t, status)
           \/ ServerStops \/ Closes \/ UNCHANGED trackerVars
  BY <1>7, <1>9 DEF ReportAges, Act, ServerStops, Closes,
     trackerVars, tables
<1> QED BY <1>1, <1>2, <1>3, <1>4, <1>5, <1>6, <1>7, <1>8, <1>9 DEF TrackerNext,
   Handles

(* No step takes an attachment's row or bytes from a report that is within *)
(* its retention: no sweep, withdrawal, other report, failure or stop.     *)
THEOREM EvidenceIsKept == TrackerSpec => EvidenceStays
<1>1. TrackerTypeOK /\ [TrackerNext]_trackerVars =>
        [\A f \in DOMAIN rows \cap disk : ~Unclaimed(f) /\ rows[f].ticket \notin Overdue =>
           f \in disk' /\ f \in DOMAIN rows' /\ rows'[f].ticket = rows[f].ticket]_trackerVars
  BY EvidenceIsSpared DEF Evidence, Kept
<1> QED BY <1>1, TrackerTypes, PTL DEF TrackerSpec, EvidenceStays
=============================================================================
