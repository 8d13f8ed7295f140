--------------------------- MODULE Announcements ---------------------------
(***************************************************************************)
(* The automatic confirmation engine and the notifier it reports to, wired *)
(* as src/main/index.ts wires them: what each poll, halt, lock and change  *)
(* of settings lets the user hear of one account.                          *)
(***************************************************************************)
EXTENDS AutoConfirm, FiniteSetsExt

CONSTANTS Watched, Confirms, Critical, MaxUnreadable, MaxToasts

ASSUME NotifierAssumption ==
  Watched \in Accounts /\ Critical \subseteq Confirms /\ {MaxUnreadable, MaxToasts} \subseteq Nat

VARIABLES memory, latestHalt, undeliveredHalt, toasts,
          heard, heardCount, heardSignIn, heardHalt

N == INSTANCE Notifier
ASSUME NoticeAssumption == None \notin N!Record \cup N!Claim

notifier == <<memory, latestHalt, undeliveredHalt, toasts,
              heard, heardCount, heardSignIn, heardHalt>>
allVars == <<vars, notifier>>

Unheard == UNCHANGED notifier

-----------------------------------------------------------------------------
(* onOutcome and onPending: a list reaches the notifier when toasts are on *)
(* for the account, and that the poll succeeded when they are off.         *)
Succeeds ==
  /\ PollSucceeds(Watched)
  /\ IF poll[Watched].plan.notify
     THEN \E awaiting \in SUBSET Confirms, unreadable \in 0..MaxUnreadable :
            N!Pending(awaiting, unreadable)
     ELSE N!PollSucceeded

NeedsSignIn == PollNeedsSignIn(Watched) /\ N!SignInNeeded

Fails ==
  /\ PollFails(Watched)
  /\ IF Watched \in halted' THEN N!Halted ELSE Unheard

(* What a disowned request approved is reported all the same.              *)
ReturnsDisowned ==
  /\ PollDisowned(Watched)
  /\ Unheard \/ (poll[Watched].plan.confirm /\ N!PollSucceeded)

Lands(a) ==
  IF a = Watched THEN Succeeds \/ NeedsSignIn \/ Fails \/ ReturnsDisowned
                 ELSE PollLands(a) /\ Unheard

(* The beat speaks to every halted account before anything else.           *)
Beats == Beat /\ IF Watched \in halted THEN N!StillHalted ELSE Unheard

Locks == Stop /\ N!ForgetNotices

Routed(a) == ForgetAccount(a) /\ IF a = Watched THEN N!ForgetNotices ELSE Unheard

Elsewhere ==
  /\ Start \/ RequireProxies \/ RelaxProxies \/ Sweep \/ \E a \in Accounts : SaveSettings(a)
  /\ Unheard

HostAnswers == (\E t \in toasts : N!ToastEnds(t)) /\ UNCHANGED vars

-----------------------------------------------------------------------------
AllInit == Init /\ N!NotifierInit

AllNext ==
  \/ Elsewhere \/ Locks \/ Beats \/ HostAnswers
  \/ \E a \in Accounts : Routed(a) \/ Lands(a)

AllSpec == AllInit /\ [][AllNext]_allVars

(* The timer keeps firing while the vault is open, the clock sync and every *)
(* request end (each has a time limit), and the host answers for its toasts;*)
(* nothing is assumed of the user.                                         *)
FairSpec ==
  /\ AllSpec /\ WF_vars(Beat) /\ WF_vars(Sweep) /\ WF_allVars(HostAnswers)
  /\ \A a \in Accounts : WF_vars(PollLands(a))

-----------------------------------------------------------------------------
(* A halt the user has not heard of is on its way, or waits for the beat.  *)
HaltWasTold ==
  Watched \in halted =>
    \/ heardHalt \/ undeliveredHalt = latestHalt
    \/ \E t \in N!Of("halt") : t.attempt = latestHalt

(* Nothing that needs a person is passed over in silence: what the engine  *)
(* found and the notifier holds for told was told, or will be.             *)
NothingIsLost == N!SeenWasTold /\ N!CountWasTold /\ N!SignInWasTold /\ HaltWasTold

(* And nothing is told a second time while it stays as it was.             *)
ToldOnce == N!ToldOnce
=============================================================================
