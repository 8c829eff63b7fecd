---------------------------- MODULE MCRunBroker ----------------------------
(* RunBroker for TLC.  The workers, and the secrets, may be exchanged      *)
(* where the bounds do not tell them apart.                                *)
EXTENDS RunBroker, TLC

\* A second connection takes the place of the lock or of the window's operation.
Budget == count.locks + count.ops + nextConn <= 4

Symmetry == Permutations(Workers) \cup Permutations(Secrets)
=============================================================================
