------------------------------ MODULE Freelist ------------------------------
(***************************************************************************)
(* detail::freelist, the pool from which queue and stack take their nodes: *)
(* a linked list that threads pop from and push to with a compare-and-swap *)
(* on its head, a counter beside it, and the heap behind it.               *)
(*                                                                         *)
(* The head has no tag, and its next pointer lives in memory that the user *)
(* of the node overwrites.  Allocators and Deallocators are the threads    *)
(* that call allocate() and deallocate(): the producers and the consumers  *)
(* of a queue.                                                             *)
(***************************************************************************)
EXTENDS Integers, NodeLists

CONSTANTS
  Allocators, Deallocators,
  Nodes,    \* all the memory there is: bounds the heap
  Pooled,   \* the nodes the constructor puts into the pool, max_size_ of them
  Null,     \* nullptr
  Junk      \* what a user leaves in a node's memory

Threads == Allocators \cup Deallocators
MaxSize == Cardinality(Pooled)

ASSUME ConstantsAssumption ==
  /\ IsFiniteSet(Allocators) /\ IsFiniteSet(Deallocators) /\ IsFiniteSet(Nodes)
  /\ Pooled \subseteq Nodes /\ Pooled # {}
  /\ Null \notin Nodes /\ Junk \notin Nodes /\ Junk # Null

VARIABLES
  head,     \* head_
  next,     \* node::next
  size,     \* size_
  heap,     \* the memory that is not allocated
  uses,     \* how many users a node was handed out to
  pc, node, expected  \* of a thread: its place, the node, the next it read

locals == <<pc, node, expected>>
vars == <<head, next, size, heap, uses, locals>>

\* The constructor pushes the nodes one after the other.
Init ==
  \E order \in [1..MaxSize -> Pooled] :
    /\ \A i, j \in 1..MaxSize : order[i] = order[j] => i = j
    /\ head = order[MaxSize]
    /\ next = [n \in Nodes |->
         IF n \notin Pooled THEN Junk
         ELSE LET i == CHOOSE j \in 1..MaxSize : order[j] = n
              IN  IF i = 1 THEN Null ELSE order[i - 1]]
    /\ size = MaxSize
    /\ heap = Nodes \ Pooled
    /\ uses = [n \in Nodes |-> 0]
    /\ pc = [t \in Threads |-> "idle"]
    /\ node = [t \in Threads |-> Null]
    /\ expected = [t \in Threads |-> Null]

Goto(t, here, there) == pc[t] = here /\ pc' = [pc EXCEPT ![t] = there]

-----------------------------------------------------------------------------
(* allocate() *)

AllocateLoad(t) ==
  /\ t \in Allocators
  /\ Goto(t, "idle", IF head = Null THEN "heap" ELSE "next")
  /\ node' = [node EXCEPT ![t] = head]
  /\ UNCHANGED <<head, next, size, heap, uses, expected>>

AllocateHeap(t) ==
  /\ Goto(t, "heap", "idle")
  /\ \E n \in heap :
       /\ heap' = heap \ {n}
       /\ uses' = [uses EXCEPT ![n] = @ + 1]
       /\ next' = [next EXCEPT ![n] = Junk]
  /\ UNCHANGED <<head, size, node, expected>>

\* head->next, read from a node that may have left the list meanwhile.
AllocateNext(t) ==
  /\ Goto(t, "next", "swap")
  /\ node[t] \in Nodes
  /\ expected' = [expected EXCEPT ![t] = next[node[t]]]
  /\ UNCHANGED <<head, next, size, heap, uses, node>>

\* Faulty: the last node is handed out and stays in the list.
AllocateSwapKeepLast(t) ==
  /\ head = node[t]
  /\ Goto(t, "swap", "subtract")
  /\ head' = IF expected[t] = Null THEN head ELSE expected[t]
  /\ uses' = [uses EXCEPT ![node[t]] = @ + 1]
  /\ UNCHANGED <<next, size, heap, node, expected>>

\* The swap takes the node, or fails, perhaps spuriously, and reloads the head.
AllocateSwap(t) ==
  \/ /\ Goto(t, "swap", "subtract")
     /\ head = node[t]
     /\ head' = expected[t]
     /\ uses' = [uses EXCEPT ![node[t]] = @ + 1]
     /\ UNCHANGED <<next, size, heap, node, expected>>
  \/ /\ Goto(t, "swap", "next")
     /\ node' = [node EXCEPT ![t] = head]
     /\ UNCHANGED <<head, next, size, heap, uses, expected>>

\* size_ follows; then the user constructs its object over node::next.
AllocateSubtract(t) ==
  /\ Goto(t, "subtract", "idle")
  /\ size' = size - 1
  /\ next' = [next EXCEPT ![node[t]] = Junk]
  /\ UNCHANGED <<head, heap, uses, node, expected>>

-----------------------------------------------------------------------------
(* deallocate() *)

\* A node is given back by one of its users, once it was returned to one.
GivenBack(n) ==
  /\ uses[n] > Cardinality({t \in Threads :
       node[t] = n /\ pc[t] \in {"subtract", "link", "push", "free"}})

\* Faulty: the limit is off by one.
DeallocateCheckLoose(t) ==
  /\ t \in Deallocators
  /\ \E n \in Nodes :
       /\ GivenBack(n)
       /\ node' = [node EXCEPT ![t] = n]
  /\ Goto(t, "idle", IF size > MaxSize THEN "free" ELSE "link")
  /\ UNCHANGED <<head, next, size, heap, uses, expected>>

DeallocateCheck(t) ==
  /\ t \in Deallocators
  /\ \E n \in Nodes :
       /\ GivenBack(n)
       /\ node' = [node EXCEPT ![t] = n]
  /\ Goto(t, "idle", IF size = MaxSize THEN "free" ELSE "link")
  /\ UNCHANGED <<head, next, size, heap, uses, expected>>

\* Faulty: a freed node is counted off too.
DeallocateHeapCounted(t) ==
  /\ Goto(t, "free", "idle")
  /\ heap' = heap \cup {node[t]}
  /\ uses' = [uses EXCEPT ![node[t]] = @ - 1]
  /\ size' = size - 1
  /\ UNCHANGED <<head, next, node, expected>>

DeallocateHeap(t) ==
  /\ Goto(t, "free", "idle")
  /\ heap' = heap \cup {node[t]}
  /\ uses' = [uses EXCEPT ![node[t]] = @ - 1]
  /\ UNCHANGED <<head, next, size, node, expected>>

DeallocateLink(t) ==
  /\ Goto(t, "link", "push")
  /\ next' = [next EXCEPT ![node[t]] = head]
  /\ UNCHANGED <<head, size, heap, uses, node, expected>>

\* Faulty: the head is stored and not swapped.
DeallocateStore(t) ==
  /\ Goto(t, "push", "add")
  /\ head' = node[t]
  /\ uses' = [uses EXCEPT ![node[t]] = @ - 1]
  /\ UNCHANGED <<next, size, heap, node, expected>>

\* A failed swap stores the head it found in the next pointer of the node.
DeallocateSwap(t) ==
  LET n == node[t] IN
  \/ /\ Goto(t, "push", "add")
     /\ head = next[n]
     /\ head' = n
     /\ uses' = [uses EXCEPT ![n] = @ - 1]
     /\ UNCHANGED <<next, size, heap, node, expected>>
  \/ /\ Goto(t, "push", "push")
     /\ next' = [next EXCEPT ![n] = head]
     /\ UNCHANGED <<head, size, heap, uses, node, expected>>

DeallocateAdd(t) ==
  /\ Goto(t, "add", "idle")
  /\ size' = size + 1
  /\ UNCHANGED <<head, next, heap, uses, node, expected>>

-----------------------------------------------------------------------------

Allocate(t) ==
  \/ AllocateLoad(t) \/ AllocateHeap(t) \/ AllocateNext(t)
  \/ AllocateSwap(t) \/ AllocateSubtract(t)

Deallocate(t) ==
  \/ DeallocateCheck(t) \/ DeallocateHeap(t) \/ DeallocateLink(t)
  \/ DeallocateSwap(t) \/ DeallocateAdd(t)

Next == \E t \in Threads : Allocate(t) \/ Deallocate(t)

Spec == Init /\ [][Next]_vars

-----------------------------------------------------------------------------
(* Properties *)

Places == {"idle", "heap", "next", "swap", "subtract", "free", "link", "push", "add"}

\* Type invariant: the head never becomes what a user left in its memory.
\* size_ is unsigned and may wrap below zero while a swap runs ahead of its
\* counter; it is only compared for equality, so an integer stands for it.
TypeOK ==
  /\ head \in Nodes \cup {Null}
  /\ next \in [Nodes -> Nodes \cup {Null, Junk}]
  /\ size \in Int
  /\ heap \subseteq Nodes
  /\ uses \in [Nodes -> Nat]
  /\ pc \in [Threads -> Places]
  /\ node \in [Threads -> Nodes \cup {Null}]
  /\ expected \in [Threads -> Nodes \cup {Null, Junk}]

\* The nodes of the list, from the head on.
Listed == Reach(head, next)

At(place) == {t \in Threads : pc[t] = place}

\* A node has one user at a time, and none while it is in the list or in the
\* heap: no stale compare-and-swap hands it out twice.
NoDoubleAllocation ==
  \A n \in Nodes : uses[n] <= (IF n \in Listed \cup heap THEN 0 ELSE 1)

\* No node leaks: memory is in the heap, in the list, or with a user.
NoLeak == \A n \in Nodes : n \in heap \cup Listed \/ uses[n] > 0

\* size_ counts the list, but for the threads between their swap and the
\* counter: the only ground for the decision to free a node.
SizeCounts ==
  size + Cardinality(At("add")) = Cardinality(Listed) + Cardinality(At("subtract"))

\* allocate() never follows a null head, though it tests the head only once.
NoNullHead == \A t \in Threads : pc[t] = "next" => node[t] # Null

\* The list, its counter and its users agree at every step, a node has one user,
\* and the head is never followed when it is null.
FreelistInv == TypeOK /\ NoDoubleAllocation /\ SizeCounts /\ NoNullHead

Quiescent == (\A t \in Threads : pc[t] = "idle") /\ (\A n \in Nodes : uses[n] = 0)

\* The assertions of the destructor, for users that gave every node back.
DestructorAssertions == Quiescent => size = MaxSize /\ head # Null

\* The pool as its users see it, see NodePool.tla.
Pool == INSTANCE NodePool WITH
  free <- Listed,
  used <- {n \in Nodes : uses[n] > 0}

ImplementsNodePool == Pool!Spec

=============================================================================
