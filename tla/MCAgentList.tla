---------------------------- MODULE MCAgentList ----------------------------
(* AgentList for TLC.  The secrets may be exchanged. *)
EXTENDS AgentList, TLC

\* A second connection takes the place of one of the window's operations.
Budget == count.ops + nextConn <= 4

Symmetry == Permutations(Secrets)
=============================================================================
