------------------------------ MODULE LifoStack ------------------------------
(***************************************************************************)
(* What lockfree::stack promises: push and pop take effect at one moment,  *)
(* the last item pushed is the first one popped, and clear takes away all  *)
(* the items there are.                                                    *)
(***************************************************************************)
EXTENDS Sequences

CONSTANT Items

VARIABLES
  items,  \* the first is the last one pushed
  taken   \* the items that were popped

vars == <<items, taken>>

Init == items = <<>> /\ taken = {}

Push(x) ==
  /\ items' = <<x>> \o items
  /\ UNCHANGED taken

Pop ==
  /\ items # <<>>
  /\ taken' = taken \cup {Head(items)}
  /\ items' = Tail(items)

Clear == items' = <<>> /\ UNCHANGED taken

Next == Pop \/ Clear \/ \E x \in Items : Push(x)

Spec == Init /\ [][Next]_vars

=============================================================================
