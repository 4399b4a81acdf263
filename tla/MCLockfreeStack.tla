--------------------------- MODULE MCLockfreeStack ---------------------------
(* Instances of LockfreeStack for TLC. *)
EXTENDS LockfreeStack, TLC
=============================================================================
