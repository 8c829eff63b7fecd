--------------------------- MODULE VaultRegister ---------------------------
(***************************************************************************)
(* What the vault's storage promises: an atomic register whose write may   *)
(* have an unknown outcome.  `saved' holds every content that an unlock,   *)
(* now or after a power loss, may come to see: one of them is the vault.   *)
(* A write adds its content; a write that is confirmed leaves no other; an *)
(* outcome can settle, but never to nothing or to something not written.   *)
(***************************************************************************)
CONSTANTS Contents,  \* what a vault file may hold
          None       \* no vault

VARIABLES saved,  \* the contents the vault may turn out to have
          held    \* the content of the unlocked session, None if there is none

Init == saved = {None} /\ held = None

(* Earlier writes of unknown outcome may be overwritten; what is certain,  *)
(* and what the session holds, may not.                                    *)
Write(v) ==
  /\ \E rest \in (SUBSET saved) \ {{}} :
       /\ held # None => held \in rest
       /\ saved' = rest \cup {v}
  /\ UNCHANGED held

Confirm(v) ==
  /\ saved' = {v}
  /\ held' = v

(* A failure, a crash, damage to a file, or the start of a write, which    *)
(* takes the session out of use until its outcome is known.                *)
Settle ==
  /\ saved' \in (SUBSET saved) \ {{}}
  /\ held' \in {held, None}

Open ==
  /\ held = None
  /\ held' \in saved \ {None}
  /\ UNCHANGED saved

Next == (\E v \in Contents : Write(v) \/ Confirm(v)) \/ Settle \/ Open

Spec == Init /\ [][Next]_<<saved, held>>
=============================================================================
