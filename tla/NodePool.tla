------------------------------ MODULE NodePool ------------------------------
(***************************************************************************)
(* What a pool of nodes promises its users: a node that is handed out is   *)
(* handed out to nobody else until it was given back, and a node is given  *)
(* back either to the pool or to the heap.                                 *)
(***************************************************************************)
CONSTANT Nodes

VARIABLES
  free,   \* the nodes in the pool
  used    \* the nodes that are handed out

vars == <<free, used>>

Init ==
  /\ free \subseteq Nodes
  /\ used = {}

Allocate(n) ==
  /\ n \notin used
  /\ used' = used \cup {n}
  /\ free' = free \ {n}

Deallocate(n) ==
  /\ n \in used
  /\ used' = used \ {n}
  /\ free' \in {free, free \cup {n}}

Next == \E n \in Nodes : Allocate(n) \/ Deallocate(n)

Spec == Init /\ [][Next]_vars

=============================================================================
