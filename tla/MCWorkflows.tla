----------------------------- MODULE MCWorkflows -----------------------------
(* Instances of Workflows.  Attempts differ only by their names, so the    *)
(* safety runs take them up to renaming.                                   *)
EXTENDS Workflows, TLC

CONSTANTS a1, a2, old, elsewhere
EitherOrder == Permutations({a1, a2})
=============================================================================
