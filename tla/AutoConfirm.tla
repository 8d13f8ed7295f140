----------------------------- MODULE AutoConfirm -----------------------------
(***************************************************************************)
(* AutoConfirmEngine (src/main/confirmations/auto.ts): when each account's *)
(* confirmations are polled, how failures hold it back, and what a lock, a *)
(* settings save or a change of route does to a poll that is in the air.   *)
(*                                                                         *)
(* The scheduler looks once per beat.  Times are kept as the number of     *)
(* beats still to pass, so a moment that has been reached is 0.  A sweep   *)
(* awaits the Steam clock before it reads the vault, and a poll awaits     *)
(* Steam: each is split there, and everything else may come between.       *)
(***************************************************************************)
EXTENDS Naturals, FiniteSets

CONSTANTS
  Accounts,      \* positions in the vault, 1..n
  Plans,         \* the settings an account may have, see Plan
  Proxied,       \* the accounts with a stored proxy
  HaltAfter,     \* HALT_AFTER_FAILURES
  BackoffStart, BackoffMax,  \* in beats
  None,          \* no entry, no request
  Never          \* the due time of a halted account (POSITIVE_INFINITY)

(* `confirm': an automatic type is on; `notify': toasts are on; `interval': *)
(* beats between polls, MIN_INTERVAL_MS already applied.                   *)
Plan == [confirm : BOOLEAN, notify : BOOLEAN, interval : Nat \ {0}]

ASSUME SettingsAssumption ==
  /\ Accounts \subseteq Nat /\ IsFiniteSet(Accounts)
  /\ \A p \in Plans : p \in Plan
  /\ Proxied \subseteq Accounts
  /\ HaltAfter \in Nat \ {0}
  /\ BackoffStart \in Nat /\ BackoffMax \in Nat

VARIABLES
  unlocked,      \* whether the vault is open, and so the ticker runs
  plan,          \* autoConfirmSchedule of each account
  required,      \* the setting `Require proxies'
  state,         \* AccountState of each account, or None
  halted,        \* the accounts that have given up
  poll,          \* the request of each account in the air (inFlight), or None
  scheduleDirty, \* the schedule was invalidated and not rebuilt yet
  earliest,      \* earliestDueAt: no vault read before then
  parked         \* a sweep is waiting for the Steam clock

vars == <<unlocked, plan, required, state, halted, poll, scheduleDirty,
          earliest, parked>>

Due == Nat \cup {Never}
AccountState == [due : Due, failures : Nat, backoff : Nat \cup {None}]

(* `owned' stands for current(): no stop, reset or forgetAccount since the *)
(* request began (the generation and epoch comparison).                    *)
Request == [plan : Plans, jitter : Nat, owned : BOOLEAN]

ASSUME SentinelAssumption ==
  /\ None \notin Nat \cup AccountState \cup Request
  /\ Never \notin Nat

InFlight(a) == poll[a] # None
Eligible(a) ==
  /\ plan[a].confirm \/ plan[a].notify
  /\ required => a \in Proxied

(* rememberEarliest: an empty map means `ask the vault'.                   *)
Soonest(entries) ==
  LET dues == {entries[a].due : a \in {b \in Accounts : entries[b] # None}} IN
    IF dues = {} THEN 0
    ELSE IF dues = {Never} THEN Never
    ELSE CHOOSE d \in dues \ {Never} : \A e \in dues \ {Never} : d <= e

(* Faulty: an invalidation does not outrank a recomputation.               *)
RememberEarliestTrusting(entries) == earliest' = Soonest(entries)

RememberEarliest(entries) ==
  earliest' = IF scheduleDirty THEN 0 ELSE Soonest(entries)

-----------------------------------------------------------------------------
(* start, after an unlock.                                                 *)
Start ==
  /\ ~unlocked /\ unlocked' = TRUE
  /\ UNCHANGED <<plan, required, state, halted, poll, scheduleDirty, earliest, parked>>

Disowned(requests, gone) ==
  [a \in Accounts |->
     IF a \in gone /\ requests[a] # None THEN [requests[a] EXCEPT !.owned = FALSE]
                                         ELSE requests[a]]

(* Faulty: a request outlives the lock and goes on counting as current.    *)
StopOnly ==
  /\ unlocked /\ unlocked' = FALSE
  /\ state' = [a \in Accounts |-> None] /\ halted' = {}
  /\ earliest' = 0 /\ parked' = FALSE
  /\ UNCHANGED <<plan, required, poll, scheduleDirty>>

(* stop, on a lock: requests in the air are disowned, not forgotten, and a *)
(* sweep waiting for the clock finds another generation and returns.       *)
Stop ==
  /\ unlocked /\ unlocked' = FALSE
  /\ poll' = Disowned(poll, Accounts)
  /\ state' = [a \in Accounts |-> None] /\ halted' = {}
  /\ earliest' = 0 /\ parked' = FALSE
  /\ UNCHANGED <<plan, required, scheduleDirty>>

(* Faulty: the schedule is known to be stale, and its deadline is kept.    *)
ForgetLate(gone) ==
  /\ poll' = Disowned(poll, gone)
  /\ state' = [a \in Accounts |-> IF a \in gone THEN None ELSE state[a]]
  /\ halted' = halted \ gone
  /\ scheduleDirty' = TRUE
  /\ UNCHANGED <<unlocked, parked, earliest>>

(* reset and forgetAccount.                                                *)
Forget(gone) ==
  /\ poll' = Disowned(poll, gone)
  /\ state' = [a \in Accounts |-> IF a \in gone THEN None ELSE state[a]]
  /\ halted' = halted \ gone
  /\ scheduleDirty' = TRUE /\ earliest' = 0
  /\ UNCHANGED <<unlocked, parked>>

(* accountSetAutoConfirm saves the settings and then calls reset.          *)
SaveSettings(a) ==
  /\ unlocked
  /\ \E p \in Plans : plan' = [plan EXCEPT ![a] = p]
  /\ Forget({a})
  /\ UNCHANGED required

(* A route is saved or an account imported anew: forgetAccount, which      *)
(* leaves the settings alone.                                              *)
ForgetAccount(a) ==
  /\ unlocked
  /\ Forget({a})
  /\ UNCHANGED <<plan, required>>

(* `Require proxies' saved on: every transport is dropped, every poll of   *)
(* every account disowned.                                                 *)
RequireProxies ==
  /\ unlocked /\ ~required /\ required' = TRUE
  /\ Forget(Accounts)
  /\ UNCHANGED plan

(* Saved off: policyChanged.                                               *)
RelaxProxies ==
  /\ unlocked /\ required /\ required' = FALSE
  /\ scheduleDirty' = TRUE /\ earliest' = 0
  /\ UNCHANGED <<unlocked, plan, state, halted, poll, parked>>

-----------------------------------------------------------------------------
Elapse(due) == IF due \in {0, Never} THEN due ELSE due - 1

(* One second passes and the timer fires: tick up to its first await.      *)
Beat ==
  /\ unlocked
  /\ state' = [a \in Accounts |->
       IF state[a] = None THEN None ELSE [state[a] EXCEPT !.due = Elapse(@)]]
  /\ earliest' = Elapse(earliest)
  /\ parked' = (parked \/ earliest' = 0)
  /\ UNCHANGED <<unlocked, plan, required, halted, poll, scheduleDirty>>

(* dueAccounts.  An account without an entry is given a slot of its own,   *)
(* and the first of them goes at once.                                     *)
Stopped(a) == state[a] # None /\ state[a].due = Never
Candidates == {a \in Accounts : Eligible(a) /\ ~InFlight(a) /\ ~Stopped(a)}
Unscheduled == {a \in Candidates : state[a] = None}
Before(a, others) == Cardinality({b \in others : b < a})
Slot(a) == Before(a, Unscheduled) % plan[a].interval
DueAccounts ==
  {a \in Candidates : IF state[a] = None THEN Slot(a) = 0 ELSE state[a].due = 0}

Fresh(due) == [due |-> due, failures |-> 0, backoff |-> None]
Rescheduled ==
  [a \in Accounts |->
     IF ~Eligible(a) THEN None
     ELSE IF a \in Unscheduled \ DueAccounts THEN Fresh(Slot(a))
     ELSE state[a]]

StaggerFor(a) ==
  LET beats == IF plan[a].interval < 4 THEN 1 ELSE plan[a].interval \div 4
  IN Before(a, DueAccounts) % beats

(* The rest of tick: the vault is read, the schedule rebuilt, and every    *)
(* due account's request begins in the same synchronous run.               *)
Sweep ==
  /\ unlocked /\ parked /\ parked' = FALSE
  /\ state' = Rescheduled
  /\ poll' = [a \in Accounts |->
       IF a \in DueAccounts
       THEN [plan |-> plan[a], jitter |-> StaggerFor(a), owned |-> TRUE]
       ELSE poll[a]]
  /\ scheduleDirty' = FALSE
  /\ earliest' = Soonest(Rescheduled)
  /\ UNCHANGED <<unlocked, plan, required, halted>>

-----------------------------------------------------------------------------
(* runOne after its await.                                                 *)
Current(a) == InFlight(a) /\ poll[a].owned
Land(a) == poll' = [poll EXCEPT ![a] = None]
Reschedule(a, entry) ==
  /\ state' = [state EXCEPT ![a] = entry]
  /\ RememberEarliest([state EXCEPT ![a] = entry])
  /\ Land(a)
  /\ UNCHANGED <<unlocked, plan, required, scheduleDirty, parked>>

NextTurn(a) == poll[a].plan.interval + poll[a].jitter

PollSucceeds(a) ==
  /\ Current(a) /\ Reschedule(a, Fresh(NextTurn(a)))
  /\ UNCHANGED halted

Failures(a) == IF state[a] = None THEN 0 ELSE state[a].failures
Backoff(a) == IF state[a] = None THEN None ELSE state[a].backoff

(* An expired session is not counted, and what accumulated is kept.        *)
PollNeedsSignIn(a) ==
  /\ Current(a)
  /\ Reschedule(a, [due |-> NextTurn(a), failures |-> Failures(a),
                    backoff |-> Backoff(a)])
  /\ UNCHANGED halted

NextBackoff(a) ==
  CASE Backoff(a) = None -> BackoffStart
    [] Backoff(a) # None /\ Backoff(a) * 2 <= BackoffMax -> Backoff(a) * 2
    [] OTHER -> BackoffMax

(* The tenth failure in a row stops the account, with a time never due.    *)
PollFails(a) ==
  /\ Current(a)
  /\ LET failures == Failures(a) + 1 IN
       IF failures >= HaltAfter
       THEN /\ Reschedule(a, [due |-> Never, failures |-> failures, backoff |-> None])
            /\ halted' = halted \cup {a}
       ELSE /\ Reschedule(a, [due |-> NextBackoff(a), failures |-> failures,
                              backoff |-> NextBackoff(a)])
            /\ UNCHANGED halted

(* Whatever the answer, a disowned request writes nothing.                 *)
PollDisowned(a) ==
  /\ InFlight(a) /\ ~poll[a].owned /\ Land(a)
  /\ UNCHANGED <<unlocked, plan, required, state, halted, scheduleDirty,
                 earliest, parked>>

PollLands(a) ==
  PollSucceeds(a) \/ PollNeedsSignIn(a) \/ PollFails(a) \/ PollDisowned(a)

-----------------------------------------------------------------------------
Init ==
  /\ unlocked = FALSE /\ required \in BOOLEAN
  /\ plan \in [Accounts -> Plans]
  /\ state = [a \in Accounts |-> None] /\ halted = {}
  /\ poll = [a \in Accounts |-> None]
  /\ scheduleDirty = FALSE /\ earliest = 0 /\ parked = FALSE

Next ==
  \/ Start \/ Stop \/ RequireProxies \/ RelaxProxies \/ Beat \/ Sweep
  \/ \E a \in Accounts : SaveSettings(a) \/ ForgetAccount(a) \/ PollLands(a)

Spec == Init /\ [][Next]_vars

-----------------------------------------------------------------------------
(* Every variable keeps its type.                                          *)
TypeOK ==
  /\ unlocked \in BOOLEAN /\ required \in BOOLEAN
  /\ plan \in [Accounts -> Plans]
  /\ state \in [Accounts -> AccountState \cup {None}]
  /\ halted \in SUBSET Accounts
  /\ poll \in [Accounts -> Request \cup {None}]
  /\ scheduleDirty \in BOOLEAN /\ parked \in BOOLEAN
  /\ earliest \in Due

(* A request that may still raise a toast or write the schedule was begun  *)
(* under the settings in force now, and under the routing rule.            *)
PolledAsConfigured ==
  \A a \in Accounts :
    Current(a) => unlocked /\ Eligible(a) /\ poll[a].plan = plan[a]

(* An account with something switched on is polled again and again, unless *)
(* it has halted: the promise of the schedule, once the user leaves the    *)
(* settings alone and the vault open.                                      *)
Disturbed ==
  RequireProxies \/ RelaxProxies \/ \E a \in Accounts : SaveSettings(a) \/ ForgetAccount(a)
LeftToRun(a) ==
  /\ <>[](unlocked /\ Eligible(a) /\ a \notin halted)
  /\ <>[][~Disturbed]_vars
PolledAgain == \A a \in Accounts : LeftToRun(a) => []<>InFlight(a)

(* The same, where no sweep comes between the save that disowned a request *)
(* and the end of that request.                                            *)
Overtaken(a) == InFlight(a) /\ ~poll[a].owned /\ ~scheduleDirty
PolledAgainUnlessOvertaken ==
  \A a \in Accounts : LeftToRun(a) => []<>InFlight(a) \/ <>Overtaken(a)
=============================================================================
