---------------------------- MODULE LockfreeStack ----------------------------
(***************************************************************************)
(* lockfree::stack, a list with a compare-and-swap on its head, one action *)
(* per access to shared memory.                                            *)
(*                                                                         *)
(* The nodes come from a pool, here the promise of NodePool.tla: a node    *)
(* that was given back may be handed out again at once.  The head has no   *)
(* tag: a pop that was overtaken by another pop, and by a push that got    *)
(* the same node again, would not notice.  So the threads that pop or      *)
(* clear are a parameter, and one of them is all the stack can bear.       *)
(***************************************************************************)
EXTENDS Naturals, Sequences, FiniteSets, NodeLists

CONSTANTS
  Pushers,   \* the threads that call push or emplace
  Poppers,   \* the threads that call try_pop or clear
  Nodes,     \* all the nodes there are
  MaxItems,  \* bound on the items of a pusher
  Null,      \* the null pointer
  Junk,      \* what the pool keeps in the memory of a pointer
  NoItem     \* a value that was moved from, or destroyed

Threads == Pushers \cup Poppers
Items == Pushers \X (1..MaxItems)

ASSUME ConstantsAssumption ==
  /\ IsFiniteSet(Nodes) /\ Pushers \cap Poppers = {}
  /\ MaxItems \in Nat /\ NoItem \notin Items
  /\ Null \notin Nodes /\ Junk \notin Nodes /\ Null # Junk

VARIABLES
  head,        \* head_
  next, data,  \* the members of the nodes
  free,        \* the nodes in the pool
  pc,          \* a thread's place in its call
  node, after, \* the call's n, or head, and the next pointer it has read
  sent,        \* the items a pusher has made
  delivered,   \* what try_pop returned
  destroyed    \* the destructor was called

memory == <<next, data, free>>
vars == <<head, memory, pc, node, after, sent, delivered, destroyed>>

Init ==
  /\ head = Null
  /\ next = [n \in Nodes |-> Junk] /\ data = [n \in Nodes |-> NoItem]
  /\ free = Nodes
  /\ pc = [t \in Threads |-> "idle"]
  /\ node = [t \in Threads |-> Null] /\ after = [t \in Threads |-> Null]
  /\ sent = [t \in Pushers |-> 0]
  /\ delivered = {} /\ destroyed = FALSE

Goto(t, here, there) == pc[t] = here /\ pc' = [pc EXCEPT ![t] = there]
Local(t, n) == node' = [node EXCEPT ![t] = n]

\* The destructor of a node, and the pool's deallocate().
GiveBack(n) ==
  /\ free' = free \cup {n}
  /\ next' = [next EXCEPT ![n] = Junk]
  /\ data' = [data EXCEPT ![n] = NoItem]

-----------------------------------------------------------------------------
(* push(value), emplace(args) *)

Allocate(t) ==
  /\ t \in Pushers /\ ~destroyed /\ sent[t] < MaxItems
  /\ Goto(t, "idle", "link")
  /\ sent' = [sent EXCEPT ![t] = @ + 1]
  /\ \E n \in free :
       /\ free' = free \ {n}
       /\ next' = [next EXCEPT ![n] = Null]
       /\ data' = [data EXCEPT ![n] = <<t, sent[t] + 1>>]
       /\ Local(t, n)
  /\ UNCHANGED <<head, after, delivered, destroyed>>

Link(t) ==
  /\ Goto(t, "link", "push")
  /\ next' = [next EXCEPT ![node[t]] = head]
  /\ UNCHANGED <<head, data, free, node, after, sent, delivered, destroyed>>

\* Faulty: the swap compares with a copy, and n->next keeps the old head.
PushStubborn(t) ==
  /\ pc[t] = "push"
  /\ head = next[node[t]]
  /\ Goto(t, "push", "idle") /\ head' = node[t] /\ Local(t, Null)
  /\ UNCHANGED <<memory, after, sent, delivered, destroyed>>

\* The swap: when it fails, it has written the new head to n->next.
Push(t) ==
  /\ pc[t] = "push"
  /\ IF head = next[node[t]]
     THEN Goto(t, "push", "idle") /\ head' = node[t] /\ Local(t, Null) /\ UNCHANGED next
     ELSE next' = [next EXCEPT ![node[t]] = head] /\ UNCHANGED <<head, pc, node>>
  /\ UNCHANGED <<data, free, after, sent, delivered, destroyed>>

-----------------------------------------------------------------------------
(* try_pop(value) *)

LoadHead(t, found) ==
  /\ Goto(t, "idle", IF head = Null THEN "idle" ELSE found)
  /\ t \in Poppers
  /\ Local(t, head)
  /\ UNCHANGED <<head, memory, after, sent, delivered>>

\* Of an empty stack the call returns false.
PopLoad(t) == ~destroyed /\ LoadHead(t, "read") /\ UNCHANGED destroyed

\* head->next, an argument of the swap, is read before the swap.
PopRead(t) ==
  /\ Goto(t, "read", "pop")
  /\ after' = [after EXCEPT ![t] = next[node[t]]]
  /\ UNCHANGED <<head, memory, node, sent, delivered, destroyed>>

\* The swap: when it fails, the call goes on with the head it has found.
Pop(t) ==
  /\ pc[t] = "pop"
  /\ IF head = node[t]
     THEN Goto(t, "pop", "take") /\ head' = after[t] /\ UNCHANGED node
     ELSE /\ Goto(t, "pop", IF head = Null THEN "idle" ELSE "read")
          /\ Local(t, head) /\ UNCHANGED head
  /\ UNCHANGED <<memory, after, sent, delivered, destroyed>>

\* Faulty: the node goes back before its value was moved out.
TakeLate(t) ==
  /\ Goto(t, "take", "give")
  /\ GiveBack(node[t])
  /\ UNCHANGED <<head, node, after, sent, delivered, destroyed>>

Take(t) ==
  /\ Goto(t, "take", "give")
  /\ delivered' = delivered \cup {data[node[t]]}
  /\ UNCHANGED <<head, memory, node, after, sent, destroyed>>

Give(t) ==
  /\ Goto(t, "give", "idle")
  /\ GiveBack(node[t])
  /\ Local(t, Null)
  /\ UNCHANGED <<head, after, sent, delivered, destroyed>>

-----------------------------------------------------------------------------
(* clear(), which the destructor calls when no other call is under way *)

ClearLoad(t) ==
  /\ \/ UNCHANGED destroyed
     \/ (\A u \in Threads : pc[u] = "idle") /\ destroyed' = TRUE
  /\ LoadHead(t, "clear")

\* The swap of the head against the null pointer.
Clear(t) ==
  /\ pc[t] = "clear"
  /\ IF head = node[t]
     THEN Goto(t, "clear", "walk") /\ head' = Null /\ UNCHANGED node
     ELSE Local(t, head) /\ UNCHANGED <<head, pc>>
  /\ UNCHANGED <<memory, after, sent, delivered, destroyed>>

\* Faulty: the last node, which has no successor, is not given back.
WalkShort(t) ==
  /\ pc[t] = "walk"
  /\ IF next[node[t]] = Null
     THEN Goto(t, "walk", "idle") /\ Local(t, Null) /\ UNCHANGED memory
     ELSE GiveBack(node[t]) /\ Local(t, next[node[t]]) /\ UNCHANGED pc
  /\ UNCHANGED <<head, after, sent, delivered, destroyed>>

\* One node of the list the call has taken.
Walk(t) ==
  /\ pc[t] = "walk"
  /\ IF node[t] = Null
     THEN Goto(t, "walk", "idle") /\ UNCHANGED <<memory, node>>
     ELSE GiveBack(node[t]) /\ Local(t, next[node[t]]) /\ UNCHANGED pc
  /\ UNCHANGED <<head, after, sent, delivered, destroyed>>

-----------------------------------------------------------------------------

Begin(t) == Allocate(t) \/ PopLoad(t) \/ ClearLoad(t)
Continue(t) ==
  Link(t) \/ Push(t) \/ PopRead(t) \/ Pop(t) \/ Take(t) \/ Give(t) \/ Clear(t) \/ Walk(t)

Next == \E t \in Threads : Begin(t) \/ Continue(t)

Spec == Init /\ [][Next]_vars

\* A thread goes on with a call it has begun.
FairSpec == Spec /\ \A t \in Threads : WF_vars(Continue(t))

-----------------------------------------------------------------------------
(* Properties *)

\* The nodes from n on.
Linked(n) == Reach(n, next)

\* The node that a call alone has, and the list that a clear has taken.
Owned(t) ==
  IF pc[t] \in {"link", "push", "take", "give"} THEN {node[t]}
  ELSE IF pc[t] = "walk" THEN Linked(node[t]) ELSE {}

\* Type invariant.
TypeOK ==
  /\ head \in Nodes \cup {Null}
  /\ next \in [Nodes -> Nodes \cup {Null, Junk}]
  /\ data \in [Nodes -> Items \cup {NoItem}]
  /\ free \subseteq Nodes
  /\ pc \in [Threads -> {"idle", "link", "push", "read", "pop", "take", "give", "clear", "walk"}]
  /\ node \in [Threads -> Nodes \cup {Null}]
  /\ after \in [Threads -> Nodes \cup {Null, Junk}]
  /\ sent \in [Pushers -> 0..MaxItems] /\ delivered \subseteq Items
  /\ destroyed \in BOOLEAN

\* Every node is in one place: in the pool, in the stack, or with one call.
\* Nothing is lost, not by a clear that runs into a push, and the node whose
\* next pointer try_pop reads was not given back.
OneOwner ==
  /\ \A n \in Nodes :
       Cardinality({t \in Threads : n \in Owned(t)})
         + (IF n \in Linked(head) THEN 1 ELSE 0) + (IF n \in free THEN 1 ELSE 0) = 1
  /\ \A t \in Threads : pc[t] \in {"read", "pop"} => node[t] \notin free

\* The items in the stack; and those that were popped, as soon as unlinked.
Content == [i \in 1..Length(head, next) |-> data[Chain(head, next)[i]]]
Taken == delivered \cup {data[node[t]] : t \in {u \in Threads : pc[u] = "take"}}

\* The stack is a stack: a pop returns the last item pushed, each item once.
Lifo == INSTANCE LifoStack WITH
  items <- Content, taken <- Taken

ImplementsLifoStack == Lifo!Spec

\* A call returns, however its swaps are overtaken: README, "lock-free".
CallsReturn == \A t \in Threads : pc[t] # "idle" ~> pc[t] = "idle"

=============================================================================
