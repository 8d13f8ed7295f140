----------------------------- MODULE ToastClicks -----------------------------
(***************************************************************************)
(* What becomes of a click on a notification (ToastClickRouter in          *)
(* src/main/confirmations/toast-click.ts, src/shared/notification-click.ts *)
(* and the parts of src/renderer/App.tsx that use them).  The main process *)
(* keeps the newest click and pushes it as well; the document asks for it  *)
(* when it could navigate, and says so once it has.  Two deliveries of one *)
(* click may come in either order, a lock reloads the document, and the    *)
(* user goes on using the window.                                          *)
(***************************************************************************)
EXTENDS Naturals, Sequences

CONSTANTS
  Accounts,
  MaxClicks,   \* notifications ever clicked
  Guests,      \* the accounts that may be removed, and imported anew
  MaxFailures, \* questions, and acknowledgements with their retries, that fail
  Retries,     \* Len(ACK_RETRY_DELAYS_MS)
  None,
  Asked,       \* a question the main process has not answered yet
  Lost         \* a question that failed: nothing asks again by itself

VARIABLES
  unlocked, known,     \* the vault, and the accounts in it
  sequence, pending,   \* ToastClickRouter
  pushed,              \* clicks on their way to the document, oldest first
  listed,              \* the document's accounts: empty until it has seen the vault open
  screen,              \* what is in front: see Screens
  work,                \* what the confirmations screen is busy with
  newest, handled, acknowledged,   \* ConfirmationClickClaims, 0 for undefined
  refreshing,          \* confirmationRefreshClick, and with it the token's state
  attempted,           \* the last token this confirmations screen took up
  orphan,              \* a token whose list is still coming, its screen gone
  peek,                \* the document's question for a pending click
  acking,              \* the acknowledgements in progress, by token
  failures,
  served, strayed,     \* history: the newest click was answered, or taken up by the
                       \* screen of another account
  taken                \* history: those that navigated, in order

router == <<sequence, pending>>
claims == <<newest, handled, acknowledged>>
front == <<screen, work, attempted, orphan>>
vault == <<unlocked, known>>
history == <<served, strayed, taken>>
vars == <<vault, router, pushed, listed, front, claims, refreshing, peek, acking, failures, history>>

(* The account list, and activity and about, which may be replaced as well;*)
(* something that may not; or the confirmations of one account.            *)
Screens == {"home", "occupied"} \cup Accounts

Tokens == 1..MaxClicks
Click == [account : Accounts, token : Tokens]

notificationTakeoverReady == screen = "home"

-----------------------------------------------------------------------------
(* A toast is clicked: for an account that is not there nothing happens,   *)
(* and while the vault is locked nobody can tell.                          *)
activateToastForKnownAccount(a) ==
  /\ sequence < MaxClicks
  /\ unlocked => a \in known
  /\ sequence' = sequence + 1
  /\ pending' = [account |-> a, token |-> sequence + 1]
  /\ pushed' = Append(pushed, [account |-> a, token |-> sequence + 1])
  /\ served' = FALSE /\ strayed' = FALSE
  /\ UNCHANGED <<vault, listed, front, claims, refreshing, peek, acking, failures, taken>>

(* The effect that asks runs whenever one of its dependencies changes, and *)
(* what an earlier run asked for is dropped.                               *)
Asks(accounts) == peek' = IF accounts = {} THEN None ELSE Asked

(* Faulty: it runs when the list or the view changes, and not when a       *)
(* finished export or a closed prompt lets a notification take over.       *)
AsksLess(to) ==
  IF to = "home" /\ screen = "occupied" THEN UNCHANGED peek ELSE Asks(listed)

AsksAgain(to) == Asks(listed)

(* The handler runs in one piece.  CLICK_LIFETIME_MS may have passed.      *)
Peeked ==
  /\ peek = Asked /\ peek' = pending
  /\ UNCHANGED <<vault, router, pushed, listed, front, claims, refreshing, acking, failures, history>>

Expires ==
  /\ pending # None /\ peek = Asked
  /\ pending' = None /\ peek' = None
  /\ UNCHANGED <<vault, sequence, pushed, listed, front, claims, refreshing, acking, failures, history>>

(* The call fails, before it was heard or after, and the effect swallows   *)
(* the rejection: nothing asks again until a dependency changes.           *)
PeekFails ==
  /\ peek \notin {None, Lost} /\ failures < MaxFailures
  /\ failures' = failures + 1 /\ peek' = Lost
  /\ UNCHANGED <<vault, router, pushed, listed, front, claims, refreshing, acking, history>>

-----------------------------------------------------------------------------
shouldAcknowledge(t) == handled' = t /\ newest' = t /\ t > acknowledged

(* beginConfirmationClickAcknowledgement: the first attempt leaves at once.*)
Begun(t) ==
  acking' = IF \E k \in acking : k.token = t THEN acking
            ELSE acking \cup {[token |-> t, attempt |-> 0, sent |-> TRUE]}

(* Faulty: which click navigated is remembered when its acknowledgement    *)
(* has come through, not before.                                           *)
ClaimedLate(t, navigates) ==
  /\ newest' = IF t > newest THEN t ELSE newest
  /\ handled' = acknowledged

(* An older click is obsolete once a newer one was observed; one that was  *)
(* handled is not handled again.                                           *)
claimConfirmationClick(t, navigates) ==
  /\ newest' = IF t > newest THEN t ELSE newest
  /\ handled' = IF t >= newest /\ t > handled /\ navigates THEN t ELSE handled

(* openConfirmationsFor                                                    *)
MayOpen(c) == notificationTakeoverReady /\ c.account \in listed
Navigates(c) == MayOpen(c) /\ c.token >= newest /\ c.token > handled
Opens(c) ==
  /\ screen' = c.account /\ UNCHANGED orphan /\ work' = "busy" /\ attempted' = 0
  /\ Asks(listed)
  /\ served' = (served \/ c.token = sequence) /\ taken' = Append(taken, c.token)
  /\ UNCHANGED strayed

Refreshes(c) ==
  /\ screen = c.account /\ handled # c.token
  /\ claimConfirmationClick(c.token, FALSE)
  /\ refreshing' = IF c.token >= newest /\ c.token > handled THEN c ELSE refreshing
  /\ UNCHANGED <<front, acking, history, acknowledged>>

GoesThere(c) ==
  /\ ~(screen = c.account /\ handled # c.token)
  /\ claimConfirmationClick(c.token, MayOpen(c))
  /\ IF Navigates(c) THEN Opens(c) ELSE UNCHANGED <<front, history>>
  /\ IF Navigates(c) \/ shouldAcknowledge(c.token) THEN Begun(c.token) ELSE UNCHANGED acking
  /\ UNCHANGED <<refreshing, acknowledged>>

processConfirmationClick(c) == Refreshes(c) \/ GoesThere(c)
Moves(c) == GoesThere(c) /\ Navigates(c)

PushArrives ==
  /\ pushed # <<>> /\ pushed' = Tail(pushed)
  /\ processConfirmationClick(Head(pushed))
  /\ ~Moves(Head(pushed)) => UNCHANGED peek
  /\ UNCHANGED <<vault, router, listed, failures>>

PeekArrives ==
  /\ peek \notin {None, Asked, Lost}
  /\ processConfirmationClick(peek)
  /\ ~Moves(peek) => peek' = None
  /\ UNCHANGED <<vault, router, pushed, listed, failures>>

-----------------------------------------------------------------------------
(* retryConfirmationClickAcknowledgement: after a pause, if the click is   *)
(* the newest still.                                                       *)
StillWanted(t) == handled = t /\ newest = t /\ t > acknowledged
SendsAgain(k) ==
  /\ k \in acking /\ ~k.sent
  /\ acking' = (acking \ {k}) \cup
       IF StillWanted(k.token) THEN {[k EXCEPT !.sent = TRUE]} ELSE {}
  /\ UNCHANGED <<vault, router, pushed, listed, front, claims, refreshing, peek, failures, history>>

(* acknowledgeToastClickWhileUnlocked: the exact click, or nothing.        *)
Forgets(t) == IF unlocked /\ pending # None /\ pending.token = t THEN None ELSE pending

Acknowledges(k) ==
  /\ k \in acking /\ k.sent /\ acking' = acking \ {k}
  /\ pending' = Forgets(k.token)
  /\ acknowledged' = IF k.token > acknowledged THEN k.token ELSE acknowledged
  /\ UNCHANGED <<vault, sequence, pushed, listed, front, newest, handled, refreshing, peek,
                 failures, history>>

(* The call fails, before it was heard or after; so may each retry.        *)
AcknowledgementFails(k) ==
  /\ k \in acking /\ k.sent
  /\ \/ k.attempt = 0 /\ failures < MaxFailures /\ failures' = failures + 1
     \/ k.attempt > 0 /\ UNCHANGED failures
  /\ pending' \in {pending, Forgets(k.token)}
  /\ acking' = (acking \ {k}) \cup
       IF k.attempt = Retries \/ ~StillWanted(k.token) THEN {}
       ELSE {[k EXCEPT !.attempt = @ + 1, !.sent = FALSE]}
  /\ UNCHANGED <<vault, sequence, pushed, listed, front, claims, refreshing, peek, history>>

-----------------------------------------------------------------------------
(* The confirmations screen takes a token up once and when it is idle, and *)
(* settles it when its list has come, or failed to.  The effect runs with  *)
(* the render that made the screen idle, so before it can be left.         *)
MustTakeUp ==
  /\ screen \in Accounts /\ work = "idle"
  /\ refreshing # None /\ attempted # refreshing.token

TakesUp ==
  /\ MustTakeUp
  /\ attempted' = refreshing.token /\ work' = "refreshing"
  /\ IF screen = refreshing.account
     THEN served' = (served \/ refreshing.token = sequence) /\ UNCHANGED strayed
     ELSE strayed' = (strayed \/ refreshing.token = sequence) /\ UNCHANGED served
  /\ UNCHANGED <<vault, router, pushed, listed, screen, orphan, claims, refreshing, peek, acking,
                 failures, taken>>

(* completeNotificationRefresh                                             *)
Settles(t) ==
  IF refreshing = None \/ refreshing.token # t
  THEN UNCHANGED <<claims, refreshing, acking>>
  ELSE /\ claimConfirmationClick(t, TRUE)
       /\ refreshing' = None
       /\ IF shouldAcknowledge(t) THEN Begun(t) ELSE UNCHANGED acking
       /\ UNCHANGED acknowledged

Refreshed ==
  /\ work = "refreshing" /\ work' = "idle" /\ Settles(attempted)
  /\ UNCHANGED <<vault, router, pushed, listed, screen, attempted, orphan, peek, failures, history>>

OrphanSettles ==
  /\ orphan # 0 /\ orphan' = 0 /\ Settles(orphan)
  /\ UNCHANGED <<vault, router, pushed, listed, screen, work, attempted, peek, failures, history>>

Works ==
  /\ screen \in Accounts /\ work = "idle" /\ ~MustTakeUp /\ work' \in {"busy", "reloading"}
  /\ UNCHANGED <<vault, router, pushed, listed, screen, attempted, orphan, claims, refreshing, peek,
                 acking, failures, history>>

Worked ==
  /\ work \in {"busy", "reloading"} /\ work' = "idle"
  /\ UNCHANGED <<vault, router, pushed, listed, screen, attempted, orphan, claims, refreshing, peek,
                 acking, failures, history>>

(* The user goes somewhere else.  The confirmations are not left while they*)
(* work, but by way of the prompt to sign in, which stays where it is, and *)
(* enabled, while the list is loaded anew.                                 *)
UserGoes(to) ==
  /\ listed # {} /\ to # screen
  /\ screen \in Accounts =>
       to = "home" /\ work \in {"idle", "refreshing", "reloading"} /\ ~MustTakeUp
  /\ to \in Accounts => screen = "home" /\ to \in listed
  /\ screen' = to /\ attempted' = 0
  /\ orphan' = IF work = "refreshing" THEN attempted ELSE orphan
  /\ work' = IF to \in Accounts THEN "busy" ELSE "idle"
  /\ AsksAgain(to)
  /\ UNCHANGED <<vault, router, pushed, listed, claims, refreshing, acking, failures, history>>

(* The status poll: what the document knows of the vault.                  *)
Refresh ==
  /\ listed # (IF unlocked THEN known ELSE {})
  /\ listed' = IF unlocked THEN known ELSE {}
  /\ Asks(listed')
  /\ UNCHANGED <<vault, router, pushed, front, claims, refreshing, acking, failures, history>>

-----------------------------------------------------------------------------
(* A lock forgets the click and reloads the document.                      *)
Lock ==
  /\ unlocked /\ unlocked' = FALSE /\ pending' = None
  /\ pushed' = <<>> /\ listed' = {} /\ screen' = "home" /\ work' = "idle" /\ attempted' = 0
  /\ orphan' = 0 /\ newest' = 0 /\ handled' = 0 /\ acknowledged' = 0
  /\ refreshing' = None /\ peek' = None /\ acking' = {}
  /\ UNCHANGED <<known, sequence, failures, history>>

Unlock ==
  /\ ~unlocked /\ unlocked' = TRUE
  /\ UNCHANGED <<known, router, pushed, listed, front, claims, refreshing, peek, acking,
                 failures, history>>

(* forgetAccount on a removal, or the account comes with an import.        *)
Member(a) ==
  /\ unlocked
  /\ known' = IF a \in known THEN known \ {a} ELSE known \cup {a}
  /\ pending' = IF pending # None /\ pending.account = a /\ a \in known THEN None ELSE pending
  /\ UNCHANGED <<unlocked, sequence, pushed, listed, front, claims, refreshing, peek, acking,
                 failures, history>>

-----------------------------------------------------------------------------
Init ==
  /\ unlocked = TRUE /\ known = Accounts /\ sequence = 0 /\ pending = None
  /\ pushed = <<>> /\ listed = {} /\ screen = "home" /\ work = "idle" /\ attempted = 0 /\ orphan = 0
  /\ newest = 0 /\ handled = 0 /\ acknowledged = 0
  /\ refreshing = None /\ peek = None /\ acking = {} /\ failures = 0
  /\ served = FALSE /\ strayed = FALSE /\ taken = <<>>

Acknowledging == \E k \in acking : SendsAgain(k) \/ Acknowledges(k)

Next ==
  \/ \E a \in Accounts : activateToastForKnownAccount(a)
  \/ \E a \in Guests : Member(a)
  \/ Peeked \/ Expires \/ PeekFails \/ PushArrives \/ PeekArrives
  \/ Acknowledging \/ \E k \in acking : AcknowledgementFails(k)
  \/ TakesUp \/ Refreshed \/ OrphanSettles \/ Works \/ Worked
  \/ \E to \in Screens : UserGoes(to)
  \/ Refresh \/ Lock \/ Unlock

Spec == Init /\ [][Next]_vars

-----------------------------------------------------------------------------
(* Every variable keeps its type.                                          *)
TypeOK ==
  /\ {unlocked, served, strayed} \subseteq BOOLEAN /\ {known, listed} \subseteq SUBSET Accounts
  /\ sequence \in 0..MaxClicks /\ pending \in Click \cup {None}
  /\ screen \in Screens /\ work \in {"idle", "busy", "reloading", "refreshing"}
  /\ {newest, handled, acknowledged, attempted, orphan} \subseteq 0..MaxClicks
  /\ refreshing \in Click \cup {None} /\ peek \in Click \cup {None, Asked, Lost}

(* A click is let go for having been acted on only if it was: the window   *)
(* went to its account, or the list of that account, open already, was     *)
(* asked for anew.  (A screen left by its prompt to sign in leaves the     *)
(* click to the next account's: AnsweredByItsAccount does not hold.)  No   *)
(* click takes the window from the user twice, or after a newer was seen.  *)
LetGo(t) == \E k \in acking : k.token = t /\ k.sent /\ k \notin acking'
IsLetGo == pending # None /\ pending' = None /\ LetGo(pending.token)
ForgottenIsServed == IsLetGo => served \/ strayed
AnsweredByItsAccount == [][IsLetGo => served]_vars
OthersStay ==
  pending # None /\ pending' = None /\ unlocked' /\ known' = known /\ peek # Asked =>
    LetGo(pending.token)
NavigatesOnce ==
  taken' # taken =>
    /\ \A i \in DOMAIN taken : taken[i] < taken'[Len(taken')]
    /\ taken'[Len(taken')] >= newest
ClickIsActedOnOnce == [][ForgottenIsServed /\ OthersStay /\ NavigatesOnce]_vars

(* A click that could take the window to its account, and has not, does    *)
(* not lie there: the document is about to ask for it, or is about to be   *)
(* told of it.  Unless the call that asked for it failed (see PeekFails):  *)
(* then it lies there until the user goes somewhere or the accounts change.*)
(* One that has, and whose acknowledgements all failed, may lie there too. *)
CouldGo ==
  /\ pending # None /\ pending.token > handled
  /\ notificationTakeoverReady /\ pending.account \in listed
ClickIsOnItsWay ==
  CouldGo =>
    \/ peek \in {Asked, pending, Lost}
    \/ \E i \in DOMAIN pushed : pushed[i] = pending

(* Both at once: a click is neither lost nor acted on twice.               *)
ClicksAreServed == []ClickIsOnItsWay /\ ClickIsActedOnOnce
=============================================================================
