---------------------------- MODULE MCSupervisor ----------------------------
(* Supervisor with the applications of one vault.                          *)
EXTENDS Supervisor

CONSTANT v1

OneVault == [a \in Apps |-> v1]
=============================================================================
