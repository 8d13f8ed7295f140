------------------------ MODULE IrreversibleRequests ------------------------
(***************************************************************************)
(* What the program promises about a request Steam cannot undo: it is sent *)
(* once, and never while the outcome of another one is unknown.            *)
(***************************************************************************)
CONSTANT Requests

VARIABLES
  asked,   \* every request ever sent
  unknown  \* those of which neither Steam nor the user has told the outcome

Init == asked = {} /\ unknown = {}

Ask(r) ==
  /\ unknown = {} /\ r \notin asked
  /\ asked' = asked \cup {r} /\ unknown' = {r}

Learn(r) ==
  /\ r \in unknown
  /\ unknown' = unknown \ {r} /\ UNCHANGED asked

Next == \E r \in Requests : Ask(r) \/ Learn(r)

Spec == Init /\ [][Next]_<<asked, unknown>>
=============================================================================
