------------------------------ MODULE Foreground ------------------------------
(***************************************************************************)
(* What owns the window (src/renderer/App.tsx with recovery-navigation.ts, *)
(* shared/recovery-view.ts and notification-click.ts): a stack of screens  *)
(* over the account list, which the user moves between while answers are   *)
(* on their way that want a screen of their own.  A browser that was asked *)
(* for may come back asking for a password; the question after interrupted *)
(* work, put at each unlock, opens that work; a notification opens an      *)
(* account's confirmations.                                                *)
(*                                                                         *)
(* What a press changes is rendered before anything else happens.  What an *)
(* answer changes is rendered a frame later, and the screen the user still *)
(* sees takes presses until then: `ui' is what was asked for and `shown'   *)
(* what can be seen.  uiGeneration and foregroundRevision are told apart   *)
(* only as the claim that is the newest.                                   *)
(***************************************************************************)
EXTENDS Naturals, FiniteSets

CONSTANTS
  MaxPresses,  \* browsers ever asked for
  MaxUnlocks,
  None

VARIABLES
  unlocked, unlocks,
  ui, shown,
  uiGeneration,               \* the press whose answer may still show a prompt
  calls,                      \* presses whose browser is being opened
  overlayOpenRef,
  accountHomeOwnsForeground,
  query,                      \* the question after interrupted work: None, "fresh", or
                              \* "stale" once foregroundRevision went on
  deferredRecovery,           \* what is announced above whatever is shown
  queuedRecoveryView,
  jobs,                       \* exports and recovery backups of the account list
  presses,
  interrupted,                \* the main process: what there is to go on with
  owed,                       \* history: what of it was answered and not yet visited
  intent,                     \* history: the last press, unless the user went elsewhere
  raced                       \* history: something came between an answer and its frame

window == <<ui, shown>>
recovery == <<query, deferredRecovery, queuedRecoveryView, owed>>
session == <<unlocked, unlocks, interrupted>>
vars == <<session, window, uiGeneration, calls, overlayOpenRef, accountHomeOwnsForeground,
          recovery, jobs, presses, intent, raced>>

(* None is no press and none of the words it stands beside.                *)
ConstantsFit == None \notin Nat /\ None \notin {"account", "backup", "fresh", "stale"}

Views == {"accounts", "reading", "occupied", "enroll", "resume", "move"}
Overlays == {None, "account", "backup"}
Bare == [view |-> "accounts", overlay |-> None, signIn |-> None, opening |-> None, busy |-> FALSE]

AccountList(w) == w = Bare
InFrame == ui # shown  \* an answer has yet to be rendered

-----------------------------------------------------------------------------
(* The render: a change of view drops the prompt and the continuation with *)
(* every claim, and an overlay drops the claims.                           *)
Rendered(w) ==
  IF w.view # shown.view THEN [w EXCEPT !.signIn = None, !.opening = None, !.busy = FALSE] ELSE w
Abandons(w) == w.view # shown.view \/ (w.overlay # None /\ shown.overlay = None)

Renders(w, generation) ==
  /\ ui' = Rendered(w) /\ shown' = Rendered(w)
  /\ uiGeneration' = IF Abandons(w) THEN None ELSE generation
  /\ overlayOpenRef' = (w.overlay # None)
  /\ owed' = owed \ IF w.overlay = None THEN {w.view} ELSE {}

Frame ==
  /\ InFrame /\ Renders(ui, uiGeneration)
  /\ UNCHANGED <<session, calls, accountHomeOwnsForeground, query, deferredRecovery,
                 queuedRecoveryView, jobs, presses, intent, raced>>

Superseded == query' = IF query = None THEN None ELSE "stale"

(* Faulty: that the list was left is known once it is rendered.            *)
LeaveOnRender == UNCHANGED <<accountHomeOwnsForeground, query>>

leaveAccountHome == accountHomeOwnsForeground' = FALSE /\ Superseded
returnToAccountHome == accountHomeOwnsForeground' = TRUE /\ Superseded

(* A press: of what can be seen.                                           *)
Press(w, generation) ==
  /\ unlocked /\ Renders(w, generation)
  /\ raced' = (raced \/ InFrame)
  /\ UNCHANGED <<session, presses>>

-----------------------------------------------------------------------------
(* onOpenBrowser and beginBrowserOpenAfterSignIn: the press claims the     *)
(* screen for its answer.                                                  *)
onOpenBrowser ==
  /\ AccountList(shown) /\ unlocked /\ presses < MaxPresses
  /\ leaveAccountHome /\ presses' = presses + 1 /\ intent' = presses + 1
  /\ calls' = calls \cup {presses + 1}
  /\ Renders(ui, presses + 1) /\ raced' = (raced \/ InFrame)
  /\ UNCHANGED <<session, deferredRecovery, queuedRecoveryView, jobs>>

claimSignInScreen(p) == uiGeneration = p /\ ~overlayOpenRef

BrowserAnswers(p, signInRequired) ==
  /\ p \in calls /\ ui.opening # p /\ calls' = calls \ {p}
  /\ ui' = IF signInRequired /\ claimSignInScreen(p) THEN [ui EXCEPT !.signIn = p] ELSE ui
  /\ UNCHANGED <<session, shown, uiGeneration, overlayOpenRef, accountHomeOwnsForeground,
                 recovery, jobs, presses, intent, raced>>

SignedIn ==
  /\ ui.signIn # None /\ shown.signIn = ui.signIn
  /\ ui' = [ui EXCEPT !.signIn = None, !.opening = ui.signIn, !.busy = TRUE]
  /\ uiGeneration' = ui.signIn /\ calls' = calls \cup {ui.signIn}
  /\ UNCHANGED <<session, shown, overlayOpenRef, accountHomeOwnsForeground, recovery, jobs,
                 presses, intent, raced>>

Retry ==
  /\ shown.opening # None /\ ~shown.busy
  /\ Press([ui EXCEPT !.signIn = None, !.busy = TRUE], shown.opening)
  /\ calls' = calls \cup {shown.opening}
  /\ UNCHANGED <<accountHomeOwnsForeground, query, deferredRecovery, queuedRecoveryView, jobs,
                 intent>>

OpenedAfterSignIn(p, opened) ==
  /\ p \in calls /\ ui.opening = p /\ calls' = calls \ {p}
  /\ ui' = IF uiGeneration # p THEN ui
           ELSE IF opened THEN [ui EXCEPT !.opening = None, !.busy = FALSE]
           ELSE [ui EXCEPT !.busy = FALSE]
  /\ UNCHANGED <<session, shown, uiGeneration, overlayOpenRef, accountHomeOwnsForeground,
                 recovery, jobs, presses, intent, raced>>

(* `Not now' and `Cancel'.                                                 *)
CancelPrompt ==
  /\ \/ shown.signIn # None /\ Press([ui EXCEPT !.signIn = None], uiGeneration)
     \/ shown.opening # None /\ Press([ui EXCEPT !.opening = None, !.busy = FALSE], None)
  /\ intent' = None
  /\ UNCHANGED <<calls, accountHomeOwnsForeground, query, deferredRecovery, queuedRecoveryView,
                 jobs>>

-----------------------------------------------------------------------------
(* openAccountOverlay: supersedeBrowserSignInForOverlay, then the overlay. *)
openAccountOverlay(w, overlay) == [Bare EXCEPT !.overlay = overlay]

(* From a row of the list, from Activity, and from the enrollment, which   *)
(* sends the user to write the revocation code down.                       *)
OpenOverlay(overlay) ==
  /\ \/ AccountList(shown)
     \/ shown.view = "reading" /\ overlay = "account"
     \/ shown.view \in {"enroll", "resume"} /\ overlay = "backup"
  /\ shown.overlay = None
  /\ leaveAccountHome /\ Press(openAccountOverlay(ui, overlay), None) /\ intent' = None
  /\ UNCHANGED <<calls, deferredRecovery, queuedRecoveryView, jobs>>

navigateFromAccountHome(view) ==
  /\ AccountList(shown) /\ view # "accounts"
  /\ leaveAccountHome /\ Press([ui EXCEPT !.view = view], uiGeneration) /\ intent' = None
  /\ UNCHANGED <<calls, deferredRecovery, queuedRecoveryView, jobs>>

Home(w) == [w EXCEPT !.view = "accounts", !.overlay = None]

CloseScreen ==
  /\ shown.overlay = "account" \/ shown.view \in {"reading", "occupied", "move"}
  /\ shown.overlay # "backup"
  /\ returnToAccountHome /\ Press(Home(ui), uiGeneration) /\ intent' = None
  /\ UNCHANGED <<calls, deferredRecovery, queuedRecoveryView, jobs>>

leaveEnrollmentRecovery ==
  /\ queuedRecoveryView' = FALSE
  /\ IF queuedRecoveryView
     THEN leaveAccountHome /\ Press([ui EXCEPT !.view = "move", !.overlay = None], uiGeneration)
     ELSE returnToAccountHome /\ Press(Home(ui), uiGeneration)

CloseEnrollment ==
  /\ shown.overlay = "backup" \/ (shown.view \in {"enroll", "resume"} /\ shown.overlay = None)
  /\ leaveEnrollmentRecovery /\ intent' = None
  /\ UNCHANGED <<calls, deferredRecovery, jobs>>

(* "Move from phone", offered by the enrollment.                           *)
MoveInstead ==
  /\ shown.view \in {"enroll", "resume"} /\ queuedRecoveryView' = FALSE
  /\ leaveAccountHome /\ Press([ui EXCEPT !.view = "move"], uiGeneration) /\ intent' = None
  /\ UNCHANGED <<calls, deferredRecovery, jobs>>

(* startAccountExport and startRecoveryBackup.                             *)
StartJob(j) ==
  /\ AccountList(shown) /\ j \notin jobs /\ jobs' = jobs \cup {j}
  /\ leaveAccountHome /\ Press(ui, uiGeneration)
  /\ UNCHANGED <<calls, deferredRecovery, queuedRecoveryView, intent>>

JobEnds(j) ==
  /\ j \in jobs /\ jobs' = jobs \ {j}
  /\ UNCHANGED <<session, window, uiGeneration, calls, overlayOpenRef,
                 accountHomeOwnsForeground, recovery, presses, intent, raced>>

-----------------------------------------------------------------------------
(* deliverRecoveryAttention: the untouched account list is taken over, and *)
(* anything else keeps its place and has it announced.                     *)
Destination(work) == IF "enroll" \in work THEN "enroll" ELSE "move"
Both == {"enroll", "move"}

deliverRecoveryAttention ==
  /\ query # None /\ query' = None /\ interrupted # {} /\ owed' = interrupted
  /\ IF query = "fresh" /\ accountHomeOwnsForeground
     THEN /\ accountHomeOwnsForeground' = FALSE
          /\ deferredRecovery' = {} /\ queuedRecoveryView' = (interrupted = Both)
          /\ ui' = [ui EXCEPT !.view = Destination(interrupted)]
     ELSE /\ deferredRecovery' = interrupted
          /\ UNCHANGED <<accountHomeOwnsForeground, queuedRecoveryView, ui>>
  /\ UNCHANGED <<session, shown, uiGeneration, calls, overlayOpenRef, jobs, presses, intent, raced>>

NothingInterrupted ==
  /\ query # None /\ interrupted = {} /\ query' = None
  /\ UNCHANGED <<session, window, uiGeneration, calls, overlayOpenRef, accountHomeOwnsForeground,
                 deferredRecovery, queuedRecoveryView, owed, jobs, presses, intent, raced>>

openDeferredRecovery ==
  /\ deferredRecovery # {} /\ AccountList(shown) /\ jobs = {}
  /\ deferredRecovery' = {} /\ queuedRecoveryView' = (deferredRecovery = Both)
  /\ leaveAccountHome
  /\ Press([ui EXCEPT !.view = Destination(deferredRecovery)], uiGeneration) /\ intent' = None
  /\ UNCHANGED <<calls, jobs>>

(* openConfirmationsFor, when a notification was clicked.  What it is      *)
(* ready for was computed for the screen that can be seen.                 *)
notificationMayTakeOver ==
  /\ shown.view \in {"accounts", "reading"} /\ shown.overlay = None
  /\ shown.signIn = None /\ shown.opening = None /\ jobs = {}

openConfirmationsFor ==
  /\ unlocked /\ notificationMayTakeOver
  /\ leaveAccountHome
  /\ ui' = [Bare EXCEPT !.overlay = "account"] /\ uiGeneration' = None /\ overlayOpenRef' = TRUE
  /\ raced' = (raced \/ InFrame) /\ intent' = None
  /\ UNCHANGED <<session, shown, calls, deferredRecovery, queuedRecoveryView, owed, jobs, presses>>

-----------------------------------------------------------------------------
(* A lock reloads the document.                                            *)
Anew ==
  /\ ui' = Bare /\ shown' = Bare /\ uiGeneration' = None /\ calls' = {}
  /\ overlayOpenRef' = FALSE /\ accountHomeOwnsForeground' = TRUE
  /\ deferredRecovery' = {} /\ queuedRecoveryView' = FALSE /\ jobs' = {}
  /\ owed' = {} /\ intent' = None /\ raced' = FALSE
  /\ UNCHANGED presses

Lock == unlocked /\ unlocked' = FALSE /\ query' = None /\ Anew /\ UNCHANGED <<unlocks, interrupted>>

Unlock ==
  /\ ~unlocked /\ unlocks < MaxUnlocks
  /\ unlocked' = TRUE /\ unlocks' = unlocks + 1 /\ query' = "fresh"
  /\ interrupted' \in SUBSET Both
  /\ UNCHANGED <<window, uiGeneration, calls, overlayOpenRef, accountHomeOwnsForeground,
                 deferredRecovery, queuedRecoveryView, owed, jobs, presses, intent, raced>>

Init ==
  /\ unlocked = FALSE /\ unlocks = 0 /\ interrupted = {}
  /\ ui = Bare /\ shown = Bare /\ uiGeneration = None /\ calls = {}
  /\ overlayOpenRef = FALSE /\ accountHomeOwnsForeground = TRUE
  /\ query = None /\ deferredRecovery = {} /\ queuedRecoveryView = FALSE
  /\ jobs = {} /\ presses = 0 /\ owed = {} /\ intent = None /\ raced = FALSE

Answers ==
  \/ \E p \in calls : \E yes \in BOOLEAN : BrowserAnswers(p, yes) \/ OpenedAfterSignIn(p, yes)
  \/ deliverRecoveryAttention \/ NothingInterrupted \/ openConfirmationsFor

Next ==
  \/ Frame \/ Answers
  \/ onOpenBrowser \/ SignedIn \/ Retry \/ CancelPrompt
  \/ \E o \in {"account", "backup"} : OpenOverlay(o)
  \/ \E v \in Views : navigateFromAccountHome(v)
  \/ CloseScreen \/ CloseEnrollment \/ MoveInstead \/ openDeferredRecovery
  \/ \E j \in {"export", "recoveryBackup"} : StartJob(j) \/ JobEnds(j)
  \/ Lock \/ Unlock

Spec == Init /\ [][Next]_vars

-----------------------------------------------------------------------------
(* Every variable keeps its type.                                          *)
Screen ==
  [view : Views, overlay : Overlays, signIn : 1..MaxPresses \cup {None},
   opening : 1..MaxPresses \cup {None}, busy : BOOLEAN]
TypeOK ==
  /\ {ui, shown} \subseteq Screen /\ calls \subseteq 1..MaxPresses
  /\ {uiGeneration, intent} \subseteq calls \cup 1..presses \cup {None}
  /\ query \in {None, "fresh", "stale"}
  /\ {deferredRecovery, interrupted, owed} \subseteq SUBSET Both
  /\ {unlocked, overlayOpenRef, accountHomeOwnsForeground, queuedRecoveryView, raced}
       \subseteq BOOLEAN

(* A password is asked for, and a browser's opening reported, only for the *)
(* browser the user asked for last, and only if nothing else was opened    *)
(* since: no answer to an older press takes the window, now or on return.  *)
PromptIsForTheLastPress ==
  ~raced => {shown.signIn, shown.opening} \subseteq {None, intent}

(* Interrupted work, once it is known of, is on the screen, announced over *)
(* it, or next after the enrollment that is, until it was visited; and it  *)
(* takes the window from nobody who has begun to use it.                   *)
InSight ==
  unlocked /\ ~raced /\ ~InFrame =>
    \A work \in owed :
      \/ work \in deferredRecovery
      \/ /\ work = "move" /\ queuedRecoveryView
         /\ shown.view \in {"enroll", "resume"} \/ shown.overlay = "backup"
TakesOver == ui'.view # ui.view /\ query # None /\ query' = None /\ unlocked'
OnlyTheUntouchedList == TakesOver => AccountList(shown) /\ calls = {} /\ jobs = {}
RecoveryKeepsItsPlace == []InSight /\ [][OnlyTheUntouchedList]_vars

(* Both at once: an answer takes the window only where it is still wanted. *)
WindowIsTheUsers == []PromptIsForTheLastPress /\ RecoveryKeepsItsPlace
=============================================================================
