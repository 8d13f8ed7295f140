------------------------------ MODULE MCTickets ------------------------------
(* Instances of Tickets.                                                   *)
EXTENDS Tickets

CONSTANTS r1, r2, f1, f2, f3, t1, t2
=============================================================================
