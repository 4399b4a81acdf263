---------------------------- MODULE LockfreeQueue ----------------------------
(***************************************************************************)
(* lockfree::queue, the queue of Michael and Scott with tagged pointers,   *)
(* one action per access to shared memory.                                 *)
(*                                                                         *)
(* The nodes come from a pool, here the promise of NodePool.tla: a node    *)
(* that was given back may be handed out again at once.  Its constructor   *)
(* resets the tag of its next pointer.  Tags are 64 bits wide and do not   *)
(* wrap around.                                                            *)
(***************************************************************************)
EXTENDS Naturals, Sequences, FiniteSets

CONSTANTS
  Producers,  \* the threads that call enqueue or emplace
  Consumers,  \* the threads that call try_dequeue
  Askers,     \* the consumers that call empty as well
  Nodes,      \* all the nodes there are
  MaxItems,   \* bound on the items of a producer
  Moves,      \* whether a move leaves the value moved from empty
  Null,       \* the null pointer
  Junk,       \* what the pool keeps in the memory of a pointer
  NoItem      \* a value that was moved from, or destroyed

Threads == Producers \cup Consumers
Items == Producers \X (1..MaxItems)

ASSUME ConstantsAssumption ==
  /\ IsFiniteSet(Nodes) /\ Nodes # {}
  /\ Producers \cap Consumers = {}
  /\ Askers \subseteq Consumers
  /\ MaxItems \in Nat /\ Moves \in BOOLEAN
  /\ Null \notin Nodes /\ Junk \notin Nodes /\ Null # Junk
  /\ NoItem \notin Items

VARIABLES
  head, tail,   \* head_ and tail_
  next, data,   \* the members of the nodes
  free,         \* the nodes in the pool
  pc, local,    \* a thread: its place in a call, the variables of the call
  destroyed,    \* the destructor has run
  made,         \* history: the item a node was made for
  sent,         \* the items a producer has made
  delivered,    \* history: what try_dequeue returned, in the order of its swaps
  lacked        \* history: the consumers that saw the queue empty in their call

shared  == <<head, tail, next, data, free, destroyed>>
history == <<made, sent, delivered, lacked>>
vars == <<shared, pc, local, history>>

\* A tagged_ptr.
Handle(ptr, tag) == [ptr |-> ptr, tag |-> tag]
Nil == Handle(Null, 0)

NoLocals == [node |-> Null, head |-> Nil, tail |-> Nil, next |-> Nil, value |-> NoItem]

\* The constructor takes one node for the dummy; the pool's are not constructed.
Init ==
  \E n \in Nodes :
    /\ head = Handle(n, 0) /\ tail = Handle(n, 0)
    /\ next = [m \in Nodes |-> IF m = n THEN Nil ELSE Handle(Junk, 0)]
    /\ data = [m \in Nodes |-> NoItem]
    /\ free = Nodes \ {n}
    /\ destroyed = FALSE
    /\ made = [m \in Nodes |-> NoItem]
    /\ pc = [t \in Threads |-> "idle"]
    /\ local = [t \in Threads |-> NoLocals]
    /\ sent = [p \in Producers |-> 0]
    /\ delivered = <<>>
    /\ lacked = {}

\* The list from the dummy on.
Chain ==
  LET at[i \in 0..Cardinality(Nodes)] ==
        IF i = 0 THEN head.ptr
        ELSE IF at[i - 1] \in Nodes THEN next[at[i - 1]].ptr ELSE Null
  IN  at

TailAt == {i \in DOMAIN Chain : Chain[i] = tail.ptr}

\* The items behind the dummy, as far as the tail has come.
Queued ==
  IF TailAt = {} THEN <<>>
  ELSE LET last == CHOOSE i \in TailAt : \A j \in TailAt : i <= j
       IN  [i \in 1..last |-> made[Chain[i]]]

Goto(t, here, there) == pc[t] = here /\ pc' = [pc EXCEPT ![t] = there]

Return(t, here) == Goto(t, here, "idle") /\ local' = [local EXCEPT ![t] = NoLocals]

-----------------------------------------------------------------------------
(* enqueue(value), emplace(args) *)

\* A recycled node still has a tag above 0 in its memory, so no stale swap can
\* succeed on it between the pool and the constructor: they are one step.
Allocate(p) ==
  /\ ~destroyed /\ sent[p] < MaxItems
  /\ Goto(p, "idle", "loadTail")
  /\ sent' = [sent EXCEPT ![p] = @ + 1]
  /\ \E n \in free :
       /\ free' = free \ {n}
       /\ next' = [next EXCEPT ![n] = Nil]
       /\ data' = [data EXCEPT ![n] = <<p, sent[p] + 1>>]
       /\ made' = [made EXCEPT ![n] = <<p, sent[p] + 1>>]
       /\ local' = [local EXCEPT ![p].node = n]
  /\ UNCHANGED <<head, tail, destroyed, delivered, lacked>>

EnqueueLoadTail(p) ==
  /\ p \in Producers
  /\ Goto(p, "loadTail", "loadNext")
  /\ local' = [local EXCEPT ![p].tail = tail]
  /\ UNCHANGED <<shared, history>>

EnqueueLoadNext(p) ==
  /\ p \in Producers
  /\ Goto(p, "loadNext", "checkTail")
  /\ local' = [local EXCEPT ![p].next = next[local[p].tail.ptr]]
  /\ UNCHANGED <<shared, history>>

EnqueueCheckTail(p) ==
  /\ Goto(p, "checkTail",
       IF tail # local[p].tail THEN "loadTail"
       ELSE IF local[p].next.ptr = Null THEN "link" ELSE "help")
  /\ UNCHANGED <<shared, local, history>>

\* Faulty: the node is stored, whatever was linked meanwhile.
LinkStore(p) ==
  LET l == local[p] IN
  /\ Goto(p, "link", "swing")
  /\ next' = [next EXCEPT ![l.tail.ptr] = Handle(l.node, l.next.tag + 1)]
  /\ UNCHANGED <<head, tail, data, free, destroyed, local, history>>

Link(p) ==
  LET l == local[p]  last == l.tail.ptr IN
  /\ \/ /\ Goto(p, "link", "swing")
        /\ next[last] = l.next
        /\ next' = [next EXCEPT ![last] = Handle(l.node, l.next.tag + 1)]
     \/ /\ Goto(p, "link", "loadTail")
        /\ next[last] # l.next
        /\ UNCHANGED next
  /\ UNCHANGED <<head, tail, data, free, destroyed, local, history>>

\* Faulty: the tail is left to the next caller.
SwingTailNever(p) ==
  /\ Return(p, "swing")
  /\ UNCHANGED <<shared, history>>

\* The tag is read from tail_ once more, but the swap succeeds only if tail_
\* is what it was.
SwingTail(p) ==
  /\ Return(p, "swing")
  /\ tail' = IF tail = local[p].tail THEN Handle(local[p].node, tail.tag + 1) ELSE tail
  /\ UNCHANGED <<head, next, data, free, destroyed, history>>

\* Faulty: a tail that lags is left to the thread that linked the node.
HelpTailNever(t, there) ==
  /\ Goto(t, "help", there)
  /\ UNCHANGED <<shared, local, history>>

HelpTail(t, there) ==
  /\ Goto(t, "help", there)
  /\ tail' = IF tail = local[t].tail THEN Handle(local[t].next.ptr, tail.tag + 1) ELSE tail
  /\ UNCHANGED <<head, next, data, free, destroyed, local, history>>

EnqueueHelp(p) == p \in Producers /\ HelpTail(p, "loadTail")

-----------------------------------------------------------------------------
(* try_dequeue(value) *)

Call(c) ==
  lacked' = IF pc[c] = "idle" /\ Queued = <<>> THEN lacked \cup {c} ELSE lacked

DequeueLoadHead(c) ==
  /\ ~destroyed
  /\ Goto(c, "idle", "dequeueTail") \/ Goto(c, "loadHead", "dequeueTail")
  /\ Call(c)
  /\ local' = [local EXCEPT ![c].head = head]
  /\ UNCHANGED <<shared, made, sent, delivered>>

DequeueLoadTail(c) ==
  /\ Goto(c, "dequeueTail", "dequeueNext")
  /\ local' = [local EXCEPT ![c].tail = tail]
  /\ UNCHANGED <<shared, history>>

DequeueLoadNext(c) ==
  /\ Goto(c, "dequeueNext", "checkHead")
  /\ local' = [local EXCEPT ![c].next = next[local[c].head.ptr]]
  /\ UNCHANGED <<shared, history>>

HeadHeld(c) == head = local[c].head
Caught(c) == local[c].head.ptr = local[c].tail.ptr

\* Faulty: what was read is used without a look at the head.
DequeueUnchecked(c) ==
  /\ local[c].next.ptr # Null
  /\ Goto(c, "checkHead", IF Caught(c) THEN "help" ELSE "move")
  /\ UNCHANGED <<shared, local, history>>

\* Faulty: the head passes a tail that lags.
DequeueCheckHeadLoose(c) ==
  /\ ~HeadHeld(c) \/ local[c].next.ptr # Null
  /\ Goto(c, "checkHead", IF ~HeadHeld(c) THEN "loadHead" ELSE "move")
  /\ UNCHANGED <<shared, local, history>>

DequeueCheckHead(c) ==
  /\ ~HeadHeld(c) \/ ~Caught(c) \/ local[c].next.ptr # Null
  /\ Goto(c, "checkHead",
       IF ~HeadHeld(c) THEN "loadHead" ELSE IF Caught(c) THEN "help" ELSE "move")
  /\ UNCHANGED <<shared, local, history>>

DequeueFails(c) ==
  /\ HeadHeld(c) /\ Caught(c) /\ local[c].next.ptr = Null
  /\ Return(c, "checkHead")
  /\ lacked' = lacked \ {c}
  /\ UNCHANGED <<shared, made, sent, delivered>>

DequeueHelp(c) == c \in Consumers /\ HelpTail(c, "loadHead")

\* The value is moved out before the swap decides whose it is.
MoveValue(c) ==
  LET n == local[c].next.ptr IN
  /\ Goto(c, "move", "swap")
  /\ local' = [local EXCEPT ![c].value = data[n]]
  /\ data' = IF Moves THEN [data EXCEPT ![n] = NoItem] ELSE data
  /\ UNCHANGED <<head, tail, next, free, destroyed, history>>

\* Faulty: the head is compared without its tag.
SwapHeadUntagged(c) ==
  LET l == local[c] IN
  /\ \/ /\ head.ptr = l.head.ptr
        /\ Goto(c, "swap", "free")
        /\ head' = Handle(l.next.ptr, l.head.tag + 1)
        /\ delivered' = Append(delivered, l.value)
        /\ lacked' = IF Len(Queued) <= 1 THEN {d \in Consumers : pc[d] # "idle"} ELSE lacked
     \/ /\ head.ptr # l.head.ptr
        /\ Goto(c, "swap", "loadHead")
        /\ UNCHANGED <<head, delivered, lacked>>
  /\ UNCHANGED <<tail, next, data, free, destroyed, local, made, sent>>

SwapHead(c) ==
  LET l == local[c] IN
  /\ \/ /\ HeadHeld(c)
        /\ Goto(c, "swap", "free")
        /\ head' = Handle(l.next.ptr, l.head.tag + 1)
        /\ delivered' = Append(delivered, l.value)
        /\ lacked' = IF Len(Queued) <= 1 THEN {d \in Consumers : pc[d] # "idle"} ELSE lacked
     \/ /\ ~HeadHeld(c)
        /\ Goto(c, "swap", "loadHead")
        /\ UNCHANGED <<head, delivered, lacked>>
  /\ UNCHANGED <<tail, next, data, free, destroyed, local, made, sent>>

\* The pool overwrites the pointer and leaves the tag.
Free(c) ==
  LET n == local[c].head.ptr IN
  /\ Return(c, "free")
  /\ free' = free \cup {n}
  /\ next' = [next EXCEPT ![n].ptr = Junk]
  /\ data' = [data EXCEPT ![n] = NoItem]
  /\ lacked' = lacked \ {c}
  /\ UNCHANGED <<head, tail, destroyed, made, sent, delivered>>

-----------------------------------------------------------------------------
(* empty(), which loads its two operands in either order, and ~queue() *)

EmptyLoadFirst(c) ==
  /\ ~destroyed /\ c \in Askers
  /\ \/ /\ Goto(c, "idle", "askHead")
        /\ local' = [local EXCEPT ![c].tail = tail]
     \/ /\ Goto(c, "idle", "askTail")
        /\ local' = [local EXCEPT ![c].head = head]
  /\ Call(c)
  /\ UNCHANGED <<shared, made, sent, delivered>>

EmptyLoadSecond(c) ==
  LET answer(one, other) == IF one.ptr = other.ptr THEN "true" ELSE "false" IN
  /\ \/ Goto(c, "askHead", answer(local[c].tail, head))
     \/ Goto(c, "askTail", answer(tail, local[c].head))
  /\ UNCHANGED <<shared, local, history>>

EmptyReturn(c) ==
  /\ Return(c, "true") \/ Return(c, "false")
  /\ lacked' = lacked \ {c}
  /\ UNCHANGED <<shared, made, sent, delivered>>

\* From the dummy to the tail, wherever that is.
Destroy ==
  /\ ~destroyed
  /\ \A t \in Threads : pc[t] = "idle"
  /\ destroyed' = TRUE
  /\ TailAt # {}
  /\ free' = free \cup {Chain[i] : i \in 0..Len(Queued)}
  /\ UNCHANGED <<head, tail, next, data, pc, local, history>>

-----------------------------------------------------------------------------

Enqueue(p) ==
  \/ EnqueueLoadTail(p) \/ EnqueueLoadNext(p) \/ EnqueueCheckTail(p)
  \/ Link(p) \/ SwingTail(p) \/ EnqueueHelp(p)

Dequeue(c) ==
  \/ DequeueLoadTail(c) \/ DequeueLoadNext(c) \/ DequeueCheckHead(c) \/ DequeueFails(c)
  \/ DequeueHelp(c) \/ MoveValue(c) \/ SwapHead(c) \/ Free(c)

Empty(c) == EmptyLoadFirst(c) \/ EmptyLoadSecond(c) \/ EmptyReturn(c)

Next ==
  \/ \E p \in Producers : Allocate(p) \/ Enqueue(p)
  \/ \E c \in Consumers : DequeueLoadHead(c) \/ Dequeue(c) \/ Empty(c)
  \/ Destroy

Spec == Init /\ [][Next]_vars

\* A call that was started goes on; nobody has to start one.
Fairness ==
  /\ \A p \in Producers : WF_vars(Enqueue(p))
  /\ \A c \in Consumers :
       WF_vars(\/ Dequeue(c) \/ EmptyLoadSecond(c) \/ EmptyReturn(c)
               \/ pc[c] = "loadHead" /\ DequeueLoadHead(c))

FairSpec == Spec /\ Fairness

-----------------------------------------------------------------------------
(* Properties *)

Places ==
  {"idle", "loadTail", "loadNext", "checkTail", "link", "swing", "help", "loadHead",
   "dequeueTail", "dequeueNext", "checkHead", "move", "swap", "free",
   "askHead", "askTail", "true", "false"}

Pointers == Nodes \cup {Null, Junk}
Handles == [ptr : Pointers, tag : Nat]
Locals == [node : Nodes \cup {Null}, head : Handles, tail : Handles, next : Handles,
           value : Items \cup {NoItem}]

\* Type invariant: neither end of the queue is ever null or a pool's pointer.
TypeOK ==
  /\ head \in Handles /\ head.ptr \in Nodes
  /\ tail \in Handles /\ tail.ptr \in Nodes
  /\ next \in [Nodes -> Handles]
  /\ data \in [Nodes -> Items \cup {NoItem}] /\ made \in [Nodes -> Items \cup {NoItem}]
  /\ free \subseteq Nodes
  /\ destroyed \in BOOLEAN
  /\ pc \in [Threads -> Places]
  /\ local \in [Threads -> Locals]
  /\ sent \in [Producers -> 0..MaxItems]
  /\ delivered \in Seq(Items \cup {NoItem})
  /\ lacked \subseteq Consumers

\* The queue reaches no node of the pool: none is given back while it is linked.
LinkedNotFree ==
  ~destroyed => \A i \in DOMAIN Chain : Chain[i] \in Nodes => Chain[i] \notin free

\* What a thread read from a node that went to the pool meanwhile it throws away:
\* the comparison with head_ or tail_ protects every pointer that is followed.
ReadsValidated ==
  \A t \in Threads :
    /\ pc[t] \in {"move", "swap", "help"} => local[t].next.ptr \in Nodes
    /\ pc[t] = "link" => local[t].next = Nil

\* The head never passes the tail, and the tail is at most one node behind the end.
TailNear ==
  \E i \in TailAt : Chain[i + 1] = Null \/ Chain[i + 2] = Null

\* The protection of a recycled node with one producer: it is not linked, no thread
\* uses what it read from it, and the ends of the queue stay in order.
ProtectionInv == TypeOK /\ LinkedNotFree /\ ReadsValidated /\ TailNear

\* No item is lost or handed out twice, whatever tags are reset.
ItemsConserved ==
  /\ \A i, j \in DOMAIN delivered : delivered[i] = delivered[j] => i = j
  /\ (\A t \in Threads : pc[t] = "idle") /\ ~destroyed =>
       \A p \in Producers : \A k \in 1..sent[p] :
         \/ <<p, k>> \in {delivered[i] : i \in DOMAIN delivered}
         \/ \E i \in DOMAIN Chain \ {0} : Chain[i] \in Nodes /\ data[Chain[i]] = <<p, k>>

\* Its only consumer gets true answers from empty(), in either order of the loads:
\* true if the queue was empty in the call, false only if it is not.
EmptyAnswers ==
  \A c \in Askers :
    /\ pc[c] = "true" => c \in lacked
    /\ pc[c] = "false" => Queued # <<>>

\* An item is in the queue, or was handed out, when the call that brought it has
\* returned: only then does a failed try_dequeue mean that there is none yet.
ReturnedInQueue ==
  \A p \in Producers : pc[p] = "idle" =>
    \A k \in 1..sent[p] :
      \/ <<p, k>> \in {delivered[i] : i \in DOMAIN delivered}
      \/ \E i \in DOMAIN Chain \ {0} : Chain[i] \in Nodes /\ made[Chain[i]] = <<p, k>>

\* The destructor gives every node back, as the pool's own destructor asserts.
DestructorFreesAll == destroyed => free = Nodes

Entered(p) ==
  \/ <<p, sent[p]>> \in {delivered[i] : i \in DOMAIN delivered}
  \/ <<p, sent[p]>> \in {Queued[i] : i \in DOMAIN Queued}

CallOf(t) ==
  IF pc[t] = "idle" THEN "idle"
  ELSE IF t \in Producers THEN IF Entered(t) THEN "entered" ELSE "enqueue"
  ELSE CASE pc[t] = "free" -> "delivered"
         [] pc[t] \in {"askHead", "askTail"} -> "empty"
         [] pc[t] \in {"true", "false"} -> pc[t]
         [] OTHER -> "try_dequeue"

\* The queue is linearizable: enqueue takes effect when the tail reaches the node,
\* try_dequeue when it swaps the head.  See FifoQueue.tla.
Fifo == INSTANCE FifoQueue WITH items <- Queued, call <- [t \in Threads |-> CallOf(t)]

ImplementsFifoQueue == Fifo!Spec

\* Every call returns: a thread retries only when another one got on.
CallsReturn == \A t \in Threads : pc[t] # "idle" ~> pc[t] = "idle"

=============================================================================
