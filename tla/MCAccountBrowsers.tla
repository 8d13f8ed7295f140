-------------------------- MODULE MCAccountBrowsers --------------------------
(***************************************************************************)
(* Instances of AccountBrowsers and of Foreground, for TLC in one run.     *)
(* The buttons are in the program's own window, but neither reads what the *)
(* other keeps: they are explored one beside the other, and `part' is      *)
(* chosen once.  Presses differ only by their names.                       *)
(***************************************************************************)
EXTENDS AccountBrowsers, TLC

CONSTANTS a1, a2, a3, p1, MaxPresses, MaxUnlocks

VARIABLES
  part,
  open, ui, shown, uiGeneration, calls, overlayOpenRef, accountHomeOwnsForeground, query,
  deferredRecovery, queuedRecoveryView, jobs, presses, interrupted, unlocks, owed, intent, raced

Window == INSTANCE Foreground WITH unlocked <- open
ASSUME WindowAssumption == Window!ConstantsFit

window == <<open, ui, shown, uiGeneration, calls, overlayOpenRef, accountHomeOwnsForeground,
            query, deferredRecovery, queuedRecoveryView, jobs, presses, interrupted, unlocks,
            owed, intent, raced>>

AnyPress == Permutations(Presses)

Start ==
  /\ part \in {"browsers", "window"} /\ Init /\ Window!Init
  /\ part = "window" => stored = Direct

Step ==
  \/ part = "browsers" /\ Next /\ UNCHANGED <<part, window>>
  \/ part = "window" /\ Window!Next /\ UNCHANGED <<part, vars>>

Both == Start /\ [][Step]_<<part, vars, window>>

(* What the window promises, as Foreground states it.                      *)
WindowIsTheUsers == Window!WindowIsTheUsers
=============================================================================
