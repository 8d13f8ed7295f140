------------------------------- MODULE MCCodes -------------------------------
(* Instances of Codes.                                                     *)
EXTENDS Codes

CONSTANTS c1, c2, t1, a1, a2
MCAccounts == <<a1, a2>>
MCSkews == {-1, 0, 2}
=============================================================================
