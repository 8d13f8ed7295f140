--------------------------- MODULE MCKeyCoordinator ---------------------------
(***************************************************************************)
(* Small instances of KeyCoordinator and AccountRows for TLC, in one run.  *)
(* What the two share is the reservation, which a change of a row takes    *)
(* and gives back in one step: they are explored one beside the other, not *)
(* interleaved, so `part' is chosen once.  The code tells neither the      *)
(* accounts of the coordinator nor its handlers apart: both are symmetric. *)
(***************************************************************************)
EXTENDS KeyCoordinator, TLC

CONSTANTS Imported, Proxies, Direct, Torn, Versions, MaxFaults, MaxCopies
VARIABLES part, open, row, files, stages, approved, asked, faults, allowed, safe

Rows == INSTANCE AccountRows WITH Accounts <- Imported, unlocked <- open

ASSUME RowsAssumption == Rows!ConstantsFit

rows == <<open, row, files, stages, approved, asked, faults, allowed, safe>>

Symmetry == Permutations(Accounts) \cup Permutations(Tasks)

Start ==
  /\ part \in {"handlers", "rows"}
  /\ Init /\ (part = "rows" => secrets = [a \in Accounts |-> None])
  /\ Rows!Init

Step ==
  \/ part = "handlers" /\ Next /\ UNCHANGED <<part, rows>>
  \/ part = "rows" /\ Rows!Next /\ UNCHANGED <<part, vars>>

Both == Start /\ [][Step]_<<part, vars, rows>>

(* The promises about rows, their routes and their recovery files, as      *)
(* AccountRows states them: a backup holds what the vault does, and stays. *)
BackupsAreKept == Rows!BackupsAreKept
RoutesAreAgreed == Rows!RoutesAreAgreed
=============================================================================
