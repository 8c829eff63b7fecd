---------------------------- MODULE MCEndpoint -----------------------------
(* Endpoint with the applications of one vault.                            *)
EXTENDS Endpoint

CONSTANT v1

OneVault == [a \in Apps |-> v1]
=============================================================================
