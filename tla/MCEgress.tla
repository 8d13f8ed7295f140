------------------------------- MODULE MCEgress -------------------------------
(* Instances of Egress; proxies and callers are interchangeable.           *)
EXTENDS Egress, TLC

CONSTANTS c1, c2, p1
AnyCaller == Permutations({c1, c2})
=============================================================================
