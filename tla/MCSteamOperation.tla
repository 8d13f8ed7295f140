-------------------------- MODULE MCSteamOperation --------------------------
EXTENDS SteamOperation, TLC

CONSTANTS a1, a2

Symmetry == Permutations(Authenticators)
=============================================================================
