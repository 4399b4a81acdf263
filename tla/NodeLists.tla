------------------------------ MODULE NodeLists ------------------------------
(***************************************************************************)
(* The singly linked lists of cyan::lockfree.  A list is a node, or a null *)
(* pointer, and the next pointers of all nodes, whose domain is the nodes  *)
(* there are.                                                              *)
(***************************************************************************)
EXTENDS Naturals, FiniteSets

Closed(S, next) == \A m \in S : next[m] \in DOMAIN next => next[m] \in S

\* The nodes from n on: the least set that has n and all that follows.
Reach(n, next) ==
  {m \in DOMAIN next : \A S \in SUBSET DOMAIN next :
     (n \in DOMAIN next => n \in S) /\ Closed(S, next) => m \in S}

\* The list that begins at n comes to an end, and the end is not junk.
Proper(n, next, junk) ==
  \A m \in Reach(n, next) : m \notin Reach(next[m], next) /\ next[m] # junk

Length(n, next) == Cardinality(Reach(n, next))

\* The nodes of a list in their order: each has one more behind it than the next.
The(S) == CHOOSE m \in S : TRUE
Chain(n, next) ==
  [i \in 1..Length(n, next) |->
     The({m \in Reach(n, next) : Length(m, next) = Length(n, next) + 1 - i})]

=============================================================================
