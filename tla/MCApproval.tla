----------------------------- MODULE MCApproval -----------------------------
(* Small instances of Approval for TLC. *)
EXTENDS Approval, TLC

Symmetry == Permutations(Clients) \cup Permutations(Secrets) \cup Permutations(Threads)
=============================================================================
