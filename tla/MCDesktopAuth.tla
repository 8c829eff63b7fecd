--------------------------- MODULE MCDesktopAuth ---------------------------
EXTENDS DesktopAuth, TLC

\* Requests are published once a secret has been deleted: two secrets or two
\* requests at a time, not both.
Known == RequestsInUse \cup {pend.request : x \in {pend} \ {None}}
Budget == stored = Secrets => Known \subseteq {None}

Symmetry == Permutations(Sessions) \cup Permutations(Requests) \cup Permutations(Secrets)
=============================================================================
