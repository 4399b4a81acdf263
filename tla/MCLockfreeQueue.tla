--------------------------- MODULE MCLockfreeQueue ---------------------------
(* Instances of LockfreeQueue for TLC.  Nodes are interchangeable. *)
EXTENDS LockfreeQueue, TLC

Symmetry == Permutations(Nodes)

=============================================================================
