--------------------------- MODULE MCConfirmations ---------------------------
(***************************************************************************)
(* Instances of Confirmations, of the log that automatic confirmation      *)
(* writes, and of what becomes of a click on a notification about them,    *)
(* for TLC in one run.  A pass reports to the log in one call and a click  *)
(* opens a list as a press would; none reads what another keeps.  So they  *)
(* are explored one beside the other, and `part' is chosen once.  Calls    *)
(* differ only by their names; of the accounts a notification is about,    *)
(* one may be removed and imported anew.                                   *)
(***************************************************************************)
EXTENDS Confirmations, TLC

CONSTANTS
  o1, o2, t1, m1,
  Account, Held, MaxEntries, MaxUnreadable, MaxPushes,
  Stays, Guest, Asked, Lost, MaxClicks, MaxFailures, Retries

VARIABLES
  part,
  entries, signInOpen, reported, total, acknowledgedSeq, viewable, mounted, load, ack, seen,
  there, known, sequence, offered, pushed, listed, screen, work, newest, handled, acknowledged,
  refreshing, attempted, orphan, peek, acking, failures, served, strayed, taken

Log == INSTANCE ActivityLog WITH
  Accounts <- {Account}, Confirms <- Held, Critical <- Held,
  sequence <- total, unlocked <- viewable
Clicks == INSTANCE ToastClicks WITH
  Accounts <- {Stays, Guest}, Guests <- {Guest}, unlocked <- there, pending <- offered

record == <<entries, signInOpen, reported, total, acknowledgedSeq, viewable, mounted, load,
            ack, seen>>
clicks == <<there, known, sequence, offered, pushed, listed, screen, work, newest, handled,
            acknowledged, refreshing, attempted, orphan, peek, acking, failures, served,
            strayed, taken>>

AnyCall == Permutations({o1, o2})

Start ==
  /\ part \in {"service", "log", "clicks"}
  /\ Init /\ Log!Init /\ Clicks!Init
  /\ part # "service" => ~proxied /\ login = None /\ waiting = {}

Step ==
  \/ part = "service" /\ Next /\ UNCHANGED <<part, record, clicks>>
  \/ part = "log" /\ Log!Next /\ UNCHANGED <<part, vars, clicks>>
  \/ part = "clicks" /\ Clicks!Next /\ UNCHANGED <<part, vars, record>>

All == Start /\ [][Step]_<<part, vars, record, clicks>>

(* What the log and the clicks promise, as their modules state it.         *)
WarningsReachTheUser == Log!WarningsReachTheUser
ClicksAreServed == Clicks!ClicksAreServed
=============================================================================
