--------------------------- MODULE MCVaultService ---------------------------
(* The vault service on small bounds for TLC.                              *)
EXTENDS VaultService
=============================================================================
