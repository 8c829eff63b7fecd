---------------------------- MODULE MCVaultStore ----------------------------
(* VaultStore for TLC. *)
EXTENDS VaultStore
=============================================================================
