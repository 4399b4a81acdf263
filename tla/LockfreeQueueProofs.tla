------------------------ MODULE LockfreeQueueProofs ------------------------
(***************************************************************************)
(* Proofs about LockfreeQueue, for any number of producers, consumers and  *)
(* nodes; and for one producer what does not hold with several.            *)
(***************************************************************************)
EXTENDS LockfreeQueue, FiniteSetTheorems, WellFoundedInduction, TLAPS

\* A value may be moved from by a consumer that loses it, unless there is one.
Plain == ~Moves \/ \A c, d \in Consumers : c = d

Making  == {"loadTail", "loadNext", "checkTail", "link", "help"}
Waiting == {"loadNext", "checkTail", "link"}
Reading == {"dequeueTail", "dequeueNext", "checkHead", "move", "swap"}
Asking  == {"askHead", "askTail", "true", "false"}

\* A list from its first node to its end, as a sequence of nodes.
Run(link, s, first) ==
  /\ s \in Seq(Nodes) /\ s # <<>> /\ s[1] = first
  /\ \A i \in 1..(Len(s) - 1) : link[s[i]].ptr = s[i + 1]
  /\ link[s[Len(s)]] = Nil
  /\ \A i, j \in 1..Len(s) : s[i] = s[j] => i = j

Linked(s) == {s[i] : i \in 1..Len(s)}

\* The list from the dummy on.
IsList(s) == Run(next, s, head.ptr)

\* What a producer is about to link: its node, with the nodes that other producers
\* linked behind it since, for a delayed link may succeed on a node that was recycled.
SidesInv(w) ==
  /\ w \in [Producers -> Seq(Nodes)]
  /\ \A p \in Producers : IF pc[p] \in Making THEN Run(next, w[p], local[p].node) ELSE w[p] = <<>>

\* The nodes that a thread has for itself.
Held(t, w) ==
  IF t \in Producers THEN Linked(w[t]) ELSE IF pc[t] = "free" THEN {local[t].head.ptr} ELSE {}

\* A node is in one place, and in one only.
PlaceInv(s, w) ==
  IF destroyed THEN \A t \in Threads : pc[t] = "idle"
  ELSE /\ \A t, u \in Threads : t # u => Held(t, w) \cap Held(u, w) = {}
       /\ \A t \in Threads : Held(t, w) \cap (Linked(s) \cup free) = {}
       /\ Linked(s) \cap free = {}
       /\ \A n \in Nodes : n \in Linked(s) \cup free \/ \E t \in Threads : n \in Held(t, w)
       /\ \A n \in free : next[n].ptr = Junk

\* A handle with the tag of an end of the queue is that end.
Follows(handle, end) == handle.tag <= end.tag /\ (handle.tag = end.tag => handle = end)

\* What a producer has read is of use while the tail is what it was.
ProducerOK(p) ==
  LET l == local[p]
      held == tail = l.tail
  IN
  /\ pc[p] \in {"idle", "swing"} \cup Making
  /\ pc[p] \in Waiting \cup {"help", "swing"} => l.tail.ptr \in Nodes /\ Follows(l.tail, tail)
  /\ pc[p] = "checkTail" /\ held =>
       l.next = Nil \/ (l.next.ptr \in Nodes /\ next[tail.ptr].ptr = l.next.ptr)
  /\ pc[p] = "link" => l.next = Nil
  /\ pc[p] = "help" => l.next.ptr \in Nodes /\ (held => next[tail.ptr].ptr = l.next.ptr)
  /\ pc[p] = "swing" => l.node \in Nodes /\ (held => next[tail.ptr].ptr = l.node)

\* A producer that waits to link behind the node of another has read the tail before
\* that one did: so producers do not link in a circle.
Stamp(q) == IF pc[q] \in Waiting THEN local[q].tail.tag ELSE tail.tag

WaitInv(w) ==
  \A p, q \in Producers :
    pc[p] \in Waiting /\ local[p].tail.ptr \in Linked(w[q]) => local[p].tail.tag < Stamp(q)

\* What a consumer has read is of use while the head is what it was: then the tail
\* that it read was not ahead of the tail there is, and next is the second node.
ConsumerOK(c, s) ==
  LET l == local[c]
      held == head = l.head
  IN
  /\ pc[c] \in {"idle", "loadHead", "help", "free"} \cup Reading \cup Asking
  /\ pc[c] \in Asking => c \in Askers
  /\ pc[c] \in Reading \cup {"free"} => l.head.ptr \in Nodes
  /\ pc[c] \in Reading => Follows(l.head, head)
  /\ pc[c] \in {"dequeueNext", "checkHead", "help"} => Follows(l.tail, tail)
  /\ pc[c] \in Reading \ {"dequeueTail"} /\ held /\ l.tail.ptr # head.ptr => tail.ptr # head.ptr
  /\ pc[c] = "checkHead" /\ held =>
       /\ IF l.next.ptr = Null THEN c \in lacked ELSE Len(s) > 1 /\ l.next.ptr = s[2]
       /\ l.tail.ptr # head.ptr => l.next.ptr # Null
  /\ pc[c] \in {"move", "swap", "help"} => l.next.ptr \in Nodes
  /\ pc[c] \in {"move", "swap"} /\ held => l.tail.ptr # head.ptr /\ Len(s) > 1 /\ l.next.ptr = s[2]
  /\ pc[c] = "help" /\ tail = l.tail => next[tail.ptr].ptr = l.next.ptr
  /\ pc[c] = "free" => next[l.head.ptr].ptr # Null

\* The consumers that are in a call while the queue is empty know it.
LackedOK(c) == head.ptr = tail.ptr /\ pc[c] # "idle" => c \in lacked

\* A consumer that is alone finds the head where it was.
AloneOK(c) ==
  Consumers = {c} =>
    /\ pc[c] \in Reading \cup {"askTail"} => local[c].head = head
    /\ pc[c] = "askHead" => IF local[c].tail.ptr = head.ptr THEN c \in lacked ELSE tail.ptr # head.ptr
    /\ pc[c] = "true" => c \in lacked
    /\ pc[c] = "false" => tail.ptr # head.ptr

\* The lists, and what the threads know of them.
ListInv(s, w) ==
  /\ IsList(s) /\ SidesInv(w) /\ PlaceInv(s, w) /\ tail.ptr \in Linked(s) /\ WaitInv(w)
  /\ \A p \in Producers : ProducerOK(p)
  /\ \A c \in Consumers : ConsumerOK(c, s) /\ LackedOK(c) /\ AloneOK(c)

\* The nodes that carry an item: all but the dummy and those that go back to the pool.
Live ==
  {n \in Nodes : n \notin free \cup {head.ptr} /\ \A c \in Consumers : pc[c] = "free" => n # local[c].head.ptr}

Sent == {item \in Items : item[2] <= sent[item[1]]}
Out  == {delivered[i] : i \in DOMAIN delivered}

\* An item that was made is delivered once or in one node; its value is there until
\* the consumer takes it out whose it will be.
ItemInv ==
  Plain =>
    /\ \A i, j \in DOMAIN delivered : delivered[i] = delivered[j] => i = j
    /\ Out \subseteq Sent
    /\ ~destroyed =>
         /\ \A n \in Live : made[n] \in Sent \ Out
         /\ \A n, m \in Live : made[n] = made[m] => n = m
         /\ \A item \in Sent \ Out : \E n \in Live : made[n] = item
         /\ \A n \in Live : \/ data[n] = made[n]
                            \/ Moves /\ n = next[head.ptr].ptr /\ \E c \in Consumers : pc[c] = "swap"
         /\ \A c \in Consumers :
              pc[c] = "swap" /\ head = local[c].head => local[c].value = made[next[head.ptr].ptr]

QueueInv(s, w) == TypeOK /\ ListInv(s, w) /\ ItemInv

-----------------------------------------------------------------------------
(* Lists *)

LEMMA Types ==
  ASSUME TypeOK
  PROVE  /\ head \in Handles /\ head.ptr \in Nodes /\ tail \in Handles /\ tail.ptr \in Nodes
         /\ next \in [Nodes -> Handles] /\ free \subseteq Nodes
         /\ data \in [Nodes -> Items \cup {NoItem}] /\ made \in [Nodes -> Items \cup {NoItem}]
         /\ pc \in [Threads -> Places] /\ local \in [Threads -> Locals]
         /\ delivered \in Seq(Items \cup {NoItem}) /\ lacked \subseteq Consumers
         /\ sent \in [Producers -> 0..MaxItems]
         /\ Null \notin Nodes /\ Junk \notin Nodes /\ Null # Junk
         /\ Producers \subseteq Threads /\ Consumers \subseteq Threads /\ Producers \cap Consumers = {}
         /\ MaxItems \in Nat
  BY ConstantsAssumption DEF TypeOK, ConstantsAssumption, Threads

\* A list is a sequence.
LEMMA RunRule ==
  ASSUME NEW link, NEW s, NEW first, Run(link, s, first)
  PROVE  /\ Len(s) \in Nat \ {0} /\ s \in [1..Len(s) -> Nodes] /\ s[1] = first /\ s \in Seq(Nodes)
         /\ 1 \in 1..Len(s) /\ Len(s) \in 1..Len(s)
         /\ \A i \in 1..Len(s) : s[i] \in Nodes /\ s[i] \in Linked(s)
         /\ \A n \in Linked(s) : n \in Nodes /\ \E i \in 1..Len(s) : n = s[i]
         /\ \A i \in 1..(Len(s) - 1) : link[s[i]].ptr = s[i + 1] /\ i \in 1..Len(s) /\ i + 1 \in 1..Len(s)
         /\ link[s[Len(s)]] = Nil
         /\ \A i, j \in 1..Len(s) : s[i] = s[j] => i = j
  <1>1. s \in Seq(Nodes) /\ s # <<>>
    BY DEF Run
  <1>2. Len(s) \in Nat /\ s \in [1..Len(s) -> Nodes] /\ Len(s) # 0
    BY <1>1
  <1>3. 1 \in 1..Len(s) /\ Len(s) \in 1..Len(s) /\ \A i \in 1..(Len(s) - 1) : i \in 1..Len(s) /\ i + 1 \in 1..Len(s)
    BY <1>2
  <1>4. QED
    BY <1>1, <1>2, <1>3 DEF Run, Linked

LEMMA ListRule ==
  ASSUME NEW s, IsList(s)
  PROVE  /\ Len(s) \in Nat \ {0} /\ s \in [1..Len(s) -> Nodes] /\ s[1] = head.ptr
         /\ 1 \in 1..Len(s) /\ Len(s) \in 1..Len(s)
         /\ \A i \in 1..Len(s) : s[i] \in Nodes /\ s[i] \in Linked(s)
         /\ \A n \in Linked(s) : n \in Nodes /\ \E i \in 1..Len(s) : n = s[i]
         /\ \A i \in 1..(Len(s) - 1) : next[s[i]].ptr = s[i + 1] /\ i \in 1..Len(s) /\ i + 1 \in 1..Len(s)
         /\ next[s[Len(s)]] = Nil
         /\ \A i, j \in 1..Len(s) : s[i] = s[j] => i = j
  BY RunRule DEF IsList

\* A list depends on its own nodes alone.
LEMMA RunFrame ==
  ASSUME NEW link, NEW link2, NEW s, NEW first, Run(link, s, first),
         \A n \in Linked(s) : link2[n] = link[n]
  PROVE  Run(link2, s, first)
  <1>1. \A i \in 1..Len(s) : link2[s[i]] = link[s[i]]
    BY RunRule
  <1>2. Len(s) \in 1..Len(s) /\ \A i \in 1..(Len(s) - 1) : i \in 1..Len(s)
    BY RunRule
  <1>3. \A i \in 1..(Len(s) - 1) : link2[s[i]].ptr = s[i + 1]
    BY <1>1, <1>2 DEF Run
  <1>4. link2[s[Len(s)]] = Nil
    BY <1>1, <1>2 DEF Run
  <1>5. QED
    BY <1>3, <1>4 DEF Run

\* Only its end is followed by nothing.
LEMMA EndRule ==
  ASSUME NEW link, NEW s, NEW first, Run(link, s, first), NEW n \in Linked(s), link[n].ptr = Null,
         Null \notin Nodes
  PROVE  n = s[Len(s)]
  <1>1. PICK i \in 1..Len(s) : n = s[i]
    BY RunRule
  <1>2. Len(s) \in Nat /\ \A j \in 1..(Len(s) - 1) : link[s[j]].ptr \in Nodes
    <2>1. /\ Len(s) \in Nat /\ \A j \in 1..Len(s) : s[j] \in Nodes
          /\ \A j \in 1..(Len(s) - 1) : link[s[j]].ptr = s[j + 1] /\ j + 1 \in 1..Len(s)
      BY RunRule
    <2>2. QED
      BY <2>1
  <1>3. i \notin 1..(Len(s) - 1)
    BY <1>1, <1>2
  <1>4. QED
    BY <1>1, <1>2, <1>3

\* A node alone.
LEMMA RunOne ==
  ASSUME NEW link, NEW n \in Nodes, link[n] = Nil
  PROVE  Run(link, <<n>>, n) /\ Linked(<<n>>) = {n}
  <1> DEFINE s == <<n>>
  <1>1. s \in Seq(Nodes) /\ Len(s) = 1 /\ s # <<>> /\ s[1] = n
    OBVIOUS
  <1> HIDE DEF s
  <1>2. 1..Len(s) = {1} /\ 1..(Len(s) - 1) = {}
    BY <1>1
  <1>3. Run(link, s, n) /\ Linked(s) = {n}
    BY <1>1, <1>2 DEF Run, Linked
  <1>4. QED
    BY <1>3 DEF s

LEMMA LinkedNone == Linked(<<>>) = {}
  <1>1. 1..Len(<<>>) = {}
    OBVIOUS
  <1>2. QED
    BY <1>1 DEF Linked

\* u is s and then v.
Joined(u, s, v) ==
  /\ u \in Seq(Nodes) /\ Len(u) = Len(s) + Len(v)
  /\ \A i \in 1..Len(s) : u[i] = s[i]
  /\ \A i \in 1..Len(v) : u[Len(s) + i] = v[i]

LEMMA JoinedRule ==
  ASSUME NEW s \in Seq(Nodes), NEW v \in Seq(Nodes)
  PROVE  Joined(s \o v, s, v)
  <1> DEFINE u == s \o v
  <1>1. Len(s) \in Nat /\ Len(v) \in Nat /\ u \in Seq(Nodes) /\ Len(u) = Len(s) + Len(v)
    OBVIOUS
  <1>2. \A i \in 1..Len(s) : u[i] = s[i]
    BY <1>1
  <1>3. ASSUME NEW i \in 1..Len(v)
        PROVE  u[Len(s) + i] = v[i]
    <2>1. Len(s) + i \in 1..(Len(s) + Len(v)) /\ Len(s) + i > Len(s) /\ (Len(s) + i) - Len(s) = i
      BY <1>1
    <2>2. QED
      BY <1>1, <2>1
  <1> HIDE DEF u
  <1>4. Joined(u, s, v)
    BY <1>1, <1>2, <1>3 DEF Joined
  <1>5. QED
    BY <1>4 DEF u

\* Two lists are one when the end of the first is followed by the second.
LEMMA RunJoin ==
  ASSUME NEW link, NEW link2, NEW s, NEW first, Run(link, s, first),
         NEW v, NEW second, Run(link, v, second), Linked(s) \cap Linked(v) = {},
         link2[s[Len(s)]].ptr = second, \A n \in Nodes : n # s[Len(s)] => link2[n] = link[n],
         NEW u, Joined(u, s, v)
  PROVE  /\ Run(link2, u, first) /\ Linked(u) = Linked(s) \cup Linked(v)
         /\ Len(u) = Len(s) + Len(v)
         /\ \A i \in 1..Len(s) : i \in 1..Len(u) /\ u[i] = s[i]
         /\ \A i \in 1..Len(v) : Len(s) + i \in 1..Len(u) /\ u[Len(s) + i] = v[i]
  <1>1. /\ Len(s) \in Nat \ {0} /\ s \in Seq(Nodes) /\ s[1] = first /\ 1 \in 1..Len(s) /\ Len(s) \in 1..Len(s)
        /\ \A i \in 1..Len(s) : s[i] \in Nodes /\ s[i] \in Linked(s)
        /\ \A i \in 1..(Len(s) - 1) : link[s[i]].ptr = s[i + 1] /\ i \in 1..Len(s)
        /\ \A i, j \in 1..Len(s) : s[i] = s[j] => i = j
    BY RunRule
  <1>2. /\ Len(v) \in Nat \ {0} /\ v \in Seq(Nodes) /\ v[1] = second /\ 1 \in 1..Len(v) /\ Len(v) \in 1..Len(v)
        /\ \A i \in 1..Len(v) : v[i] \in Nodes /\ v[i] \in Linked(v)
        /\ \A i \in 1..(Len(v) - 1) : link[v[i]].ptr = v[i + 1] /\ i \in 1..Len(v)
        /\ link[v[Len(v)]] = Nil
        /\ \A i, j \in 1..Len(v) : v[i] = v[j] => i = j
    BY RunRule
  <1>3. /\ u \in Seq(Nodes) /\ Len(u) = Len(s) + Len(v)
        /\ \A i \in 1..Len(s) : u[i] = s[i]
        /\ \A i \in 1..Len(v) : u[Len(s) + i] = v[i]
    BY DEF Joined
  <1>4. /\ \A i \in 1..Len(u) : i \in 1..Len(s) \/ (i - Len(s) \in 1..Len(v) /\ u[i] = v[i - Len(s)])
        /\ \A i \in 1..Len(s) : i \in 1..Len(u)
        /\ \A i \in 1..Len(v) : Len(s) + i \in 1..Len(u)
    <2>1. \A i \in 1..Len(u) : i \in 1..Len(s) \/ (i - Len(s) \in 1..Len(v) /\ Len(s) + (i - Len(s)) = i)
      BY <1>1, <1>2, <1>3
    <2>2. (\A i \in 1..Len(s) : i \in 1..Len(u)) /\ \A i \in 1..Len(v) : Len(s) + i \in 1..Len(u)
      BY <1>1, <1>2, <1>3
    <2>3. \A i \in 1..Len(u) : i - Len(s) \in 1..Len(v) /\ Len(s) + (i - Len(s)) = i => u[i] = v[i - Len(s)]
      BY <1>3
    <2>4. QED
      BY <2>1, <2>2, <2>3
  <1>5. Linked(u) = Linked(s) \cup Linked(v)
    <2>1. ASSUME NEW i \in 1..Len(u)
          PROVE  u[i] \in Linked(s) \cup Linked(v)
      <3>1. CASE i \in 1..Len(s)
        BY <1>1, <1>3, <3>1
      <3>2. CASE i \notin 1..Len(s)
        <4>1. i - Len(s) \in 1..Len(v) /\ u[i] = v[i - Len(s)]
          BY <1>4, <3>2
        <4>2. QED
          BY <1>2, <4>1
      <3>3. QED
        BY <3>1, <3>2
    <2>2. (\A i \in 1..Len(s) : s[i] \in Linked(u)) /\ \A i \in 1..Len(v) : v[i] \in Linked(u)
      <3>1. \A i \in 1..Len(u) : u[i] \in Linked(u)
        BY DEF Linked
      <3>2. QED
        BY <1>3, <1>4, <3>1
    <2>3. /\ \A m \in Linked(u) : \E i \in 1..Len(u) : m = u[i]
          /\ \A m \in Linked(s) : \E i \in 1..Len(s) : m = s[i]
          /\ \A m \in Linked(v) : \E i \in 1..Len(v) : m = v[i]
      BY DEF Linked
    <2>4. Linked(u) \subseteq Linked(s) \cup Linked(v)
      BY <2>1, <2>3
    <2>5. Linked(s) \subseteq Linked(u) /\ Linked(v) \subseteq Linked(u)
      BY <2>2, <2>3
    <2>6. QED
      BY <2>4, <2>5
  <1>6. ASSUME NEW i \in 1..(Len(u) - 1)
        PROVE  link2[u[i]].ptr = u[i + 1]
    <2>1. CASE i \in 1..(Len(s) - 1)
      <3>1. i + 1 \in 1..Len(s) /\ i # Len(s)
        BY <1>1, <2>1
      <3>2. u[i] = s[i] /\ u[i + 1] = s[i + 1] /\ s[i] # s[Len(s)]
        BY <1>1, <1>3, <2>1, <3>1
      <3>3. QED
        BY <1>1, <2>1, <3>2
    <2>2. CASE i = Len(s)
      BY <1>1, <1>2, <1>3, <2>2
    <2>3. CASE i > Len(s)
      <3> DEFINE k == i - Len(s)
      <3>1. /\ k \in 1..(Len(v) - 1) /\ k + 1 \in 1..Len(v) /\ k \in 1..Len(v)
            /\ Len(s) + k = i /\ Len(s) + (k + 1) = i + 1
        BY <1>1, <1>2, <1>3, <2>3
      <3> HIDE DEF k
      <3>2. u[i] = v[k] /\ u[i + 1] = v[k + 1]
        BY <1>3, <3>1
      <3>3. v[k] # s[Len(s)]
        BY <1>1, <1>2, <3>1
      <3>4. link2[v[k]] = link[v[k]]
        BY <1>2, <3>1, <3>3
      <3>5. link[v[k]].ptr = v[k + 1]
        BY <1>2, <3>1
      <3>6. QED
        BY <3>2, <3>4, <3>5
    <2>4. QED
      BY <1>1, <1>2, <1>3, <2>1, <2>2, <2>3
  <1>7. link2[u[Len(u)]] = Nil
    <2>1. u[Len(u)] = v[Len(v)] /\ v[Len(v)] # s[Len(s)]
      BY <1>1, <1>2, <1>3
    <2>2. QED
      BY <1>2, <2>1
  <1>8. ASSUME NEW i \in 1..Len(u), NEW j \in 1..Len(u), u[i] = u[j]
        PROVE  i = j
    <2>1. CASE i \in 1..Len(s) /\ j \in 1..Len(s)
      BY <1>1, <1>3, <1>8, <2>1
    <2>2. CASE i \notin 1..Len(s) /\ j \notin 1..Len(s)
      <3>1. /\ i - Len(s) \in 1..Len(v) /\ u[i] = v[i - Len(s)]
            /\ j - Len(s) \in 1..Len(v) /\ u[j] = v[j - Len(s)]
        BY <1>4, <2>2
      <3>2. v[i - Len(s)] = v[j - Len(s)]
        BY <1>8, <3>1
      <3>3. i - Len(s) = j - Len(s)
        BY <1>2, <3>1, <3>2
      <3>4. QED
        BY <1>1, <1>3, <3>3
    <2>3. CASE i \in 1..Len(s) /\ j \notin 1..Len(s)
      <3>1. u[i] \in Linked(s)
        BY <1>1, <1>3, <2>3
      <3>2. u[j] \in Linked(v)
        BY <1>2, <1>4, <2>3
      <3>3. QED
        BY <1>8, <3>1, <3>2
    <2>4. CASE i \notin 1..Len(s) /\ j \in 1..Len(s)
      <3>1. u[j] \in Linked(s)
        BY <1>1, <1>3, <2>4
      <3>2. u[i] \in Linked(v)
        BY <1>2, <1>4, <2>4
      <3>3. QED
        BY <1>8, <3>1, <3>2
    <2>5. QED
      BY <2>1, <2>2, <2>3, <2>4
  <1>9. u # <<>> /\ u[1] = first
    BY <1>1, <1>3, <1>4
  <1>10. Run(link2, u, first)
    BY <1>3, <1>6, <1>7, <1>8, <1>9 DEF Run
  <1>11. QED
    BY <1>3, <1>4, <1>5, <1>10

\* A list without its first node.
LEMMA RunRest ==
  ASSUME NEW link, NEW s, NEW first, Run(link, s, first), Len(s) > 1
  PROVE  /\ Run(link, Tail(s), s[2]) /\ Len(Tail(s)) = Len(s) - 1
         /\ \A i \in 1..Len(Tail(s)) : Tail(s)[i] = s[i + 1] /\ i + 1 \in 2..Len(s)
         /\ Linked(s) = Linked(Tail(s)) \cup {s[1]} /\ s[1] \notin Linked(Tail(s))
  <1>1. /\ s \in Seq(Nodes) /\ Len(s) \in Nat \ {0} /\ 1 \in 1..Len(s)
        /\ \A i \in 1..Len(s) : s[i] \in Linked(s)
        /\ \A i \in 1..(Len(s) - 1) : link[s[i]].ptr = s[i + 1]
        /\ link[s[Len(s)]] = Nil
        /\ \A i, j \in 1..Len(s) : s[i] = s[j] => i = j
    BY RunRule
  <1> DEFINE u == Tail(s)
  <1>2. u \in Seq(Nodes) /\ Len(u) = Len(s) - 1 /\ \A i \in 1..Len(u) : u[i] = s[i + 1]
    BY <1>1
  <1> HIDE DEF u
  <1>3. /\ Len(u) \in Nat \ {0} /\ \A i \in 1..Len(u) : i + 1 \in 2..Len(s)
        /\ \A i \in 1..Len(s) : i = 1 \/ (i - 1 \in 1..Len(u) /\ s[i] = u[i - 1])
    BY <1>1, <1>2
  <1>4. Linked(s) = Linked(u) \cup {s[1]}
    <2>1. \A i \in 1..Len(u) : u[i] = s[i + 1] /\ i + 1 \in 1..Len(s)
      BY <1>1, <1>2, <1>3
    <2>2. \A i \in 1..Len(u) : u[i] \in Linked(u)
      BY DEF Linked
    <2>3. (\A n \in Linked(u) : \E i \in 1..Len(u) : n = u[i]) /\ \A n \in Linked(s) : \E i \in 1..Len(s) : n = s[i]
      BY DEF Linked
    <2>4. Linked(u) \cup {s[1]} \subseteq Linked(s)
      <3>1. \A i \in 1..Len(u) : u[i] \in Linked(s)
        BY <1>1, <2>1
      <3>2. QED
        BY <1>1, <2>3, <3>1
    <2>5. Linked(s) \subseteq Linked(u) \cup {s[1]}
      <3>1. \A i \in 1..Len(s) : s[i] \in Linked(u) \cup {s[1]}
        BY <1>3, <2>2
      <3>2. QED
        BY <2>3, <3>1
    <2>6. QED
      BY <2>4, <2>5
  <1>5. s[1] \notin Linked(u)
    <2>1. \A i \in 1..Len(u) : i + 1 \in 1..Len(s) /\ i + 1 # 1
      BY <1>1, <1>3
    <2>2. QED
      BY <1>1, <1>2, <2>1 DEF Linked
  <1>6. Run(link, u, s[2])
    <2>1. u # <<>> /\ u[1] = s[2]
      BY <1>2, <1>3
    <2>2. ASSUME NEW i \in 1..(Len(u) - 1)
          PROVE  link[u[i]].ptr = u[i + 1]
      <3>1. i \in 1..Len(u) /\ i + 1 \in 1..Len(u) /\ i + 1 \in 1..(Len(s) - 1)
        BY <1>1, <1>2
      <3>2. u[i] = s[i + 1] /\ u[i + 1] = s[(i + 1) + 1]
        BY <1>2, <3>1
      <3>3. QED
        BY <1>1, <3>1, <3>2
    <2>3. link[u[Len(u)]] = Nil
      <3>1. Len(u) \in 1..Len(u) /\ Len(u) + 1 = Len(s)
        BY <1>1, <1>2, <1>3
      <3>2. QED
        BY <1>1, <1>2, <3>1
    <2>4. ASSUME NEW i \in 1..Len(u), NEW j \in 1..Len(u), u[i] = u[j]
          PROVE  i = j
      <3>1. i + 1 \in 1..Len(s) /\ j + 1 \in 1..Len(s) /\ s[i + 1] = s[j + 1]
        BY <1>1, <1>2, <2>4
      <3>2. i + 1 = j + 1
        BY <1>1, <3>1
      <3>3. QED
        BY <1>3, <3>2
    <2>5. QED
      BY <1>2, <2>1, <2>2, <2>3, <2>4 DEF Run
  <1>7. QED
    BY <1>2, <1>3, <1>4, <1>5, <1>6 DEF u

LEMMA LeastNumber ==
  ASSUME NEW T, T \subseteq Nat, T # {}
  PROVE  \E n \in T : \A m \in T : n <= m
  <1> DEFINE R == OpToRel(<, Nat)
  <1>1. IsWellFoundedOn(R, Nat)
    BY NatLessThanWellFounded
  <1>2. \A x, y \in Nat : x < y => <<x, y>> \in R
    BY DEF OpToRel
  <1> HIDE DEF R
  <1>3. PICK x \in T : \A y \in T : ~ (<<y, x>> \in R)
    BY <1>1, WFMin
  <1>4. ASSUME NEW m \in T
        PROVE  x <= m
    <2>1. x \in Nat /\ m \in Nat
      OBVIOUS
    <2>2. ~ (m < x)
      BY <1>2, <1>3, <2>1
    <2>3. QED
      BY <2>1, <2>2
  <1>5. QED
    BY <1>4

\* No list is longer than there are nodes.
LEMMA ListFits ==
  ASSUME NEW s, IsList(s)
  PROVE  Cardinality(Nodes) \in Nat /\ Len(s) <= Cardinality(Nodes)
  <1>1. IsFiniteSet(Nodes)
    BY ConstantsAssumption DEF ConstantsAssumption
  <1>2. Len(s) \in Nat \ {0} /\ s \in [1..Len(s) -> Nodes] /\ \A i, j \in 1..Len(s) : s[i] = s[j] => i = j
    BY ListRule
  <1>3. s \in Injection(1..Len(s), Nodes)
    BY <1>2 DEF Injection, IsInjective
  <1>4. Cardinality(1..Len(s)) <= Cardinality(Nodes)
    BY <1>1, <1>3, FS_Injection
  <1>5. Cardinality(1..Len(s)) = Len(s)
    BY <1>2, FS_Interval
  <1>6. Cardinality(Nodes) \in Nat
    BY <1>1, FS_CardinalityType
  <1>7. QED
    BY <1>4, <1>5, <1>6

\* The recursive Chain follows the list, and is null behind it.
LEMMA ChainRule ==
  ASSUME NEW s, IsList(s), TypeOK
  PROVE  /\ DOMAIN Chain = 0..Cardinality(Nodes)
         /\ \A i \in 0..Cardinality(Nodes) : Chain[i] = IF i < Len(s) THEN s[i + 1] ELSE Null
  <1> DEFINE K == Cardinality(Nodes)
             F(at) == [i \in 0..K |-> IF i = 0 THEN head.ptr
                                      ELSE IF at[i - 1] \in Nodes THEN next[at[i - 1]].ptr ELSE Null]
             G == [i \in 0..K |-> IF i < Len(s) THEN s[i + 1] ELSE Null]
  <1>1. /\ K \in Nat /\ Len(s) \in Nat \ {0} /\ Len(s) <= K /\ s[1] = head.ptr
        /\ \A i \in 1..Len(s) : s[i] \in Nodes
        /\ \A i \in 1..(Len(s) - 1) : next[s[i]].ptr = s[i + 1]
        /\ next[s[Len(s)]].ptr = Null /\ Null \notin Nodes
    BY ListRule, ListFits, Types DEF Nil, Handle
  <1>2. Chain = CHOOSE at : at = F(at)
    BY DEF Chain
  <1>3. G = F(G)
    <2>1. ASSUME NEW i \in 0..K, i # 0
          PROVE  G[i] = IF G[i - 1] \in Nodes THEN next[G[i - 1]].ptr ELSE Null
      <3>1. G[i - 1] = IF i - 1 < Len(s) THEN s[i] ELSE Null
        BY <1>1, <2>1
      <3>2. CASE i < Len(s)
        BY <1>1, <2>1, <3>1, <3>2
      <3>3. CASE i = Len(s)
        BY <1>1, <2>1, <3>1, <3>3
      <3>4. CASE i > Len(s)
        BY <1>1, <2>1, <3>1, <3>4
      <3>5. QED
        BY <1>1, <3>2, <3>3, <3>4
    <2>2. G[0] = head.ptr
      BY <1>1
    <2>3. QED
      BY <2>1, <2>2
  <1> HIDE DEF F
  <1>4. Chain = F(Chain)
    BY <1>2, <1>3
  <1>5. /\ DOMAIN Chain = 0..K /\ (K >= 0 => Chain[0] = head.ptr)
        /\ \A i \in 0..K : i # 0 => Chain[i] = IF Chain[i - 1] \in Nodes THEN next[Chain[i - 1]].ptr ELSE Null
    <2>1. Chain = [i \in 0..K |-> IF i = 0 THEN head.ptr
                                ELSE IF Chain[i - 1] \in Nodes THEN next[Chain[i - 1]].ptr ELSE Null]
      BY <1>4 DEF F
    <2>2. DOMAIN Chain = 0..K
      BY <2>1
    <2>3. \A i \in 0..K : Chain[i] = IF i = 0 THEN head.ptr
                                ELSE IF Chain[i - 1] \in Nodes THEN next[Chain[i - 1]].ptr ELSE Null
      BY <2>1
    <2>4. QED
      BY <1>1, <2>2, <2>3
  <1>6. /\ G[0] = head.ptr
        /\ \A i \in 0..K : i # 0 => G[i] = IF G[i - 1] \in Nodes THEN next[G[i - 1]].ptr ELSE Null
    BY <1>1, <1>3 DEF F
  <1> DEFINE Wrong == {i \in 0..K : Chain[i] # G[i]}
  <1>7. Wrong = {}
    <2>1. SUFFICES ASSUME Wrong # {} PROVE FALSE
      OBVIOUS
    <2>2. PICK i \in Wrong : \A j \in Wrong : i <= j
      <3>1. Wrong \subseteq Nat
        BY <1>1
      <3> HIDE DEF Wrong
      <3>2. QED
        BY <2>1, <3>1, LeastNumber
    <2>3. i # 0
      BY <1>1, <1>5, <1>6
    <2>4. i - 1 \in 0..K /\ i - 1 \notin Wrong
      BY <1>1, <2>2, <2>3
    <2>5. Chain[i - 1] = G[i - 1]
      BY <2>4
    <2> HIDE DEF G
    <2>6. QED
      BY <1>5, <1>6, <2>2, <2>3, <2>5
  <1>8. QED
    BY <1>5, <1>7

LEMMA QueuedRule ==
  ASSUME NEW s, IsList(s), TypeOK, NEW k \in 1..Len(s), tail.ptr = s[k]
  PROVE  /\ TailAt = {k - 1}
         /\ Queued \in Seq(Items \cup {NoItem}) /\ Len(Queued) = k - 1
         /\ \A i \in 1..(k - 1) : Queued[i] = made[s[i + 1]]
         /\ Queued = <<>> <=> head.ptr = tail.ptr
  <1>1. /\ Cardinality(Nodes) \in Nat /\ Len(s) \in Nat \ {0} /\ Len(s) <= Cardinality(Nodes)
        /\ s[1] = head.ptr /\ \A i \in 1..Len(s) : s[i] \in Nodes
        /\ \A i, j \in 1..Len(s) : s[i] = s[j] => i = j
        /\ Null \notin Nodes /\ made \in [Nodes -> Items \cup {NoItem}]
    BY ListRule, ListFits, Types
  <1>2. /\ DOMAIN Chain = 0..Cardinality(Nodes)
        /\ \A i \in 0..Cardinality(Nodes) : Chain[i] = IF i < Len(s) THEN s[i + 1] ELSE Null
    BY ChainRule
  <1>3. TailAt = {k - 1}
    <2>1. k - 1 \in TailAt
      BY <1>1, <1>2 DEF TailAt
    <2>2. ASSUME NEW i \in TailAt
          PROVE  i = k - 1
      <3>1. i \in 0..Cardinality(Nodes) /\ Chain[i] = s[k]
        BY <1>2 DEF TailAt
      <3>2. i < Len(s)
        BY <1>1, <1>2, <3>1
      <3>3. i + 1 \in 1..Len(s) /\ s[i + 1] = s[k]
        BY <1>1, <1>2, <3>1, <3>2
      <3>4. i + 1 = k
        BY <1>1, <3>3
      <3>5. QED
        BY <1>1, <3>1, <3>4
    <2>3. QED
      BY <2>1, <2>2
  <1>4. Queued = [i \in 1..(k - 1) |-> made[Chain[i]]]
    <2>1. (CHOOSE i \in TailAt : \A j \in TailAt : i <= j) = k - 1
      BY <1>1, <1>3
    <2>2. QED
      BY <1>3, <2>1 DEF Queued
  <1>5. \A i \in 1..(k - 1) : Chain[i] = s[i + 1] /\ made[s[i + 1]] \in Items \cup {NoItem}
    BY <1>1, <1>2
  <1>6. Queued \in [1..(k - 1) -> Items \cup {NoItem}] /\ k - 1 \in Nat
    BY <1>1, <1>4, <1>5
  <1>7. Queued \in Seq(Items \cup {NoItem}) /\ Len(Queued) = k - 1
    BY <1>6
  <1>8. \A i \in 1..(k - 1) : Queued[i] = made[s[i + 1]]
    BY <1>4, <1>5
  <1>9. Queued = <<>> <=> head.ptr = tail.ptr
    <2>1. Queued = <<>> <=> k = 1
      BY <1>1, <1>7
    <2>2. QED
      BY <1>1, <2>1
  <1>10. QED
    BY <1>3, <1>7, <1>8, <1>9

LEMMA HandleTypes ==
  /\ \A h \in Handles : h.ptr \in Pointers /\ h.tag \in Nat
  /\ \A n \in Pointers, k \in Nat : Handle(n, k) \in Handles /\ Handle(n, k).ptr = n /\ Handle(n, k).tag = k
  /\ \A h, g \in Handles : h.ptr = g.ptr /\ h.tag = g.tag => h = g
  /\ Nil \in Handles /\ Nil.ptr = Null /\ NoLocals \in Locals
  BY DEF Handles, Handle, Nil, NoLocals, Locals, Pointers

LEMMA LocalTypes ==
  ASSUME NEW l \in Locals
  PROVE  /\ l.node \in Nodes \cup {Null} /\ l.head \in Handles /\ l.tail \in Handles /\ l.next \in Handles
         /\ l.value \in Items \cup {NoItem}
         /\ \A h \in Handles : /\ [l EXCEPT !.head = h] \in Locals /\ [l EXCEPT !.tail = h] \in Locals
                               /\ [l EXCEPT !.next = h] \in Locals
         /\ \A v \in Items \cup {NoItem} : [l EXCEPT !.value = v] \in Locals
         /\ \A n \in Nodes : [l EXCEPT !.node = n] \in Locals
  BY DEF Locals

-----------------------------------------------------------------------------
(* Steps that leave the lists alone *)

\* A thread goes on to x, with l in its variables.
Goes(t, x, l) ==
  /\ pc' = [pc EXCEPT ![t] = x] /\ local' = [local EXCEPT ![t] = l]
  /\ \A c \in Consumers : c # t /\ c \in lacked /\ pc[c] # "idle" => c \in lacked'

LEMMA GoesRule ==
  ASSUME TypeOK, NEW t \in Threads, NEW x \in Places, NEW l \in Locals, Goes(t, x, l)
  PROVE  /\ pc' \in [Threads -> Places] /\ local' \in [Threads -> Locals]
         /\ pc'[t] = x /\ local'[t] = l
         /\ \A u \in Threads : u # t => pc'[u] = pc[u] /\ local'[u] = local[u]
  BY Types DEF Goes

\* The parts of the invariant; a thread that is in a call finds the queue there.
LEMMA Parts ==
  ASSUME NEW s, NEW w, QueueInv(s, w)
  PROVE  /\ TypeOK /\ IsList(s) /\ SidesInv(w) /\ PlaceInv(s, w) /\ tail.ptr \in Linked(s) /\ WaitInv(w)
         /\ ListInv(s, w) /\ ItemInv
         /\ \A t \in Threads : pc[t] # "idle" => ~destroyed
         /\ \A p \in Producers : ProducerOK(p) /\ p \in Threads /\ p \notin Consumers /\ local[p] \in Locals
         /\ \A c \in Consumers : ConsumerOK(c, s) /\ LackedOK(c) /\ AloneOK(c)
         /\ \A c \in Consumers : c \in Threads /\ c \notin Producers /\ local[c] \in Locals
         /\ \A t \in Threads : local' = local => local' = [local EXCEPT ![t] = local[t]]
  <1>1. /\ TypeOK /\ IsList(s) /\ SidesInv(w) /\ PlaceInv(s, w) /\ tail.ptr \in Linked(s) /\ WaitInv(w)
        /\ ListInv(s, w) /\ ItemInv
    BY DEF QueueInv, ListInv
  <1>2. \A t \in Threads : pc[t] # "idle" => ~destroyed
    BY <1>1 DEF PlaceInv
  <1>3. local \in [Threads -> Locals] /\ Producers \subseteq Threads /\ Consumers \subseteq Threads
        /\ Producers \cap Consumers = {}
    BY <1>1, Types
  <1>4. \A p \in Producers : ProducerOK(p) /\ p \in Threads /\ p \notin Consumers /\ local[p] \in Locals
    BY <1>1, <1>3 DEF ListInv
  <1>5. \A c \in Consumers : ConsumerOK(c, s) /\ LackedOK(c) /\ AloneOK(c)
    BY <1>1 DEF ListInv
  <1>6. \A c \in Consumers : c \in Threads /\ c \notin Producers /\ local[c] \in Locals
    BY <1>3
  <1>7. QED
    BY <1>1, <1>2, <1>3, <1>4, <1>5, <1>6

\* What the threads other than t need of a step of t that makes u of the list s.
Keeps(t, s, u) ==
  /\ head' \in Handles /\ tail' \in Handles
  /\ tail' = tail \/ tail.tag < tail'.tag
  /\ tail' = tail /\ next[tail.ptr].ptr \in Nodes => next'[tail.ptr].ptr = next[tail.ptr].ptr
  /\ \A c \in Consumers : c # t /\ pc[c] = "free" => next'[local[c].head.ptr].ptr # Null
  /\ \/ /\ head' = head /\ (tail'.ptr = head.ptr => tail.ptr = head.ptr)
        /\ Len(s) > 1 => Len(u) > 1 /\ u[2] = s[2]
     \/ /\ t \in Consumers /\ head.tag < head'.tag
        /\ head'.ptr = tail'.ptr => \A c \in Consumers : c # t /\ pc[c] # "idle" => c \in lacked'

\* A copy of an end falls behind when that end moves.
LEMMA FollowsRule ==
  ASSUME NEW end \in Handles, NEW new \in Handles, new = end \/ end.tag < new.tag,
         NEW h \in Handles, Follows(h, end)
  PROVE  Follows(h, new) /\ (new = h => new = end /\ end = h)
  <1>1. h.tag \in Nat /\ end.tag \in Nat /\ new.tag \in Nat
    BY HandleTypes
  <1>2. QED
    BY <1>1 DEF Follows

LEMMA OthersRule ==
  ASSUME NEW s, NEW w, QueueInv(s, w), NEW u,
         NEW t \in Threads, NEW x \in Places, NEW l \in Locals, Goes(t, x, l), Keeps(t, s, u)
  PROVE  /\ \A p \in Producers : p # t => ProducerOK(p)'
         /\ \A c \in Consumers : c # t => ConsumerOK(c, u)' /\ LackedOK(c)' /\ AloneOK(c)'
  <1>1. /\ TypeOK /\ head \in Handles /\ tail \in Handles /\ head.tag \in Nat /\ Null \notin Nodes
        /\ \A v \in Threads : v # t => pc'[v] = pc[v] /\ local'[v] = local[v]
    BY Parts, Types, HandleTypes, GoesRule
  <1>2. head' \in Handles /\ tail' \in Handles /\ (tail' = tail \/ tail.tag < tail'.tag) /\ head'.tag \in Nat
    BY HandleTypes DEF Keeps
  <1>3. ASSUME NEW p \in Producers, p # t
        PROVE  ProducerOK(p)'
    <2>1. pc'[p] = pc[p] /\ local'[p] = local[p] /\ ProducerOK(p) /\ local[p].tail \in Handles
      BY <1>1, <1>3, Parts, LocalTypes
    <2>2. Follows(local[p].tail, tail) =>
            Follows(local[p].tail, tail') /\ (tail' = local[p].tail => tail' = tail /\ tail = local[p].tail)
      BY <1>1, <1>2, <2>1, FollowsRule
    <2>3. tail' = tail /\ next[tail.ptr].ptr \in Nodes => next'[tail.ptr].ptr = next[tail.ptr].ptr
      BY DEF Keeps
    <2>4. QED
      BY <2>1, <2>2, <2>3 DEF ProducerOK, Waiting
  <1>4. ASSUME NEW c \in Consumers, c # t
        PROVE  ConsumerOK(c, u)' /\ LackedOK(c)' /\ AloneOK(c)'
    <2>1. /\ pc'[c] = pc[c] /\ local'[c] = local[c] /\ local[c].tail \in Handles /\ local[c].head \in Handles
          /\ c \in lacked /\ pc[c] # "idle" => c \in lacked'
          /\ ConsumerOK(c, s) /\ LackedOK(c) /\ AloneOK(c)
      BY <1>1, <1>4, Parts, LocalTypes DEF Goes
    <2>2. Follows(local[c].tail, tail) =>
            Follows(local[c].tail, tail') /\ (tail' = local[c].tail => tail' = tail /\ tail = local[c].tail)
      BY <1>1, <1>2, <2>1, FollowsRule
    <2>3. head' = head \/ head.tag < head'.tag
      BY DEF Keeps
    <2>4. Follows(local[c].head, head) =>
            Follows(local[c].head, head') /\ (head' = local[c].head => head' = head /\ head = local[c].head)
      BY <1>1, <1>2, <2>1, <2>3, FollowsRule
    <2>5. /\ tail' = tail /\ next[tail.ptr].ptr \in Nodes => next'[tail.ptr].ptr = next[tail.ptr].ptr
          /\ pc[c] = "free" => next'[local[c].head.ptr].ptr # Null
          /\ head' = head => (tail'.ptr = head.ptr => tail.ptr = head.ptr) /\ (Len(s) > 1 => Len(u) > 1 /\ u[2] = s[2])
          /\ head' # head => t \in Consumers /\ (head'.ptr = tail'.ptr /\ pc[c] # "idle" => c \in lacked')
      BY <1>1, <1>2, <1>4 DEF Keeps
    <2>6. ConsumerOK(c, u)'
      <3> DEFINE k == local[c]
      <3>1. /\ pc[c] \in {"idle", "loadHead", "help", "free"} \cup Reading \cup Asking
            /\ pc[c] \in Asking => c \in Askers
            /\ pc[c] \in Reading \cup {"free"} => k.head.ptr \in Nodes
            /\ pc[c] \in Reading => Follows(k.head, head')
            /\ pc[c] \in {"dequeueNext", "checkHead", "help"} => Follows(k.tail, tail')
            /\ pc[c] \in {"move", "swap", "help"} => k.next.ptr \in Nodes
            /\ pc[c] = "free" => next'[k.head.ptr].ptr # Null
        BY <2>1, <2>2, <2>4, <2>5 DEF ConsumerOK
      <3>2. pc[c] = "help" /\ tail' = k.tail => next'[tail'.ptr].ptr = k.next.ptr
        BY <2>1, <2>2, <2>5 DEF ConsumerOK
      <3>3. ASSUME pc[c] \in Reading, head' = k.head
            PROVE  /\ pc[c] # "dequeueTail" /\ k.tail.ptr # head'.ptr => tail'.ptr # head'.ptr
                   /\ pc[c] = "checkHead" =>
                        /\ IF k.next.ptr = Null THEN c \in lacked' ELSE Len(u) > 1 /\ k.next.ptr = u[2]
                        /\ k.tail.ptr # head'.ptr => k.next.ptr # Null
                   /\ pc[c] \in {"move", "swap"} => k.tail.ptr # head'.ptr /\ Len(u) > 1 /\ k.next.ptr = u[2]
        <4>1. head' = head /\ head = k.head
          BY <2>1, <2>4, <3>3 DEF ConsumerOK
        <4>2. (tail'.ptr = head.ptr => tail.ptr = head.ptr) /\ (Len(s) > 1 => Len(u) > 1 /\ u[2] = s[2])
          BY <2>5, <4>1
        <4>3. pc[c] \in Reading \ {"dequeueTail"} /\ k.tail.ptr # head.ptr => tail.ptr # head.ptr
          BY <2>1, <4>1 DEF ConsumerOK
        <4>4. pc[c] = "checkHead" =>
                /\ IF k.next.ptr = Null THEN c \in lacked ELSE Len(s) > 1 /\ k.next.ptr = s[2]
                /\ k.tail.ptr # head.ptr => k.next.ptr # Null
          BY <2>1, <4>1 DEF ConsumerOK
        <4>5. pc[c] \in {"move", "swap"} => k.tail.ptr # head.ptr /\ Len(s) > 1 /\ k.next.ptr = s[2]
          BY <2>1, <4>1 DEF ConsumerOK
        <4>6. QED
          BY <2>1, <3>3, <4>1, <4>2, <4>3, <4>4, <4>5
      <3>4. QED
        BY <2>1, <3>1, <3>2, <3>3 DEF ConsumerOK, Reading
    <2>7. LackedOK(c)'
      BY <2>1, <2>5 DEF LackedOK
    <2>8. AloneOK(c)'
      <3>1. SUFFICES ASSUME Consumers = {c} PROVE AloneOK(c)'
        BY DEF AloneOK
      <3>2. head' = head
        BY <1>4, <2>5, <3>1
      <3>3. QED
        BY <2>1, <2>5, <3>1, <3>2 DEF AloneOK, Reading
    <2>9. QED
      BY <2>6, <2>7, <2>8
  <1>5. QED
    BY <1>3, <1>4
\* The tail stays, or goes on to a node that is linked.
TailGoes(s) ==
  tail' = tail \/ (tail' \in Handles /\ tail.tag < tail'.tag /\ tail'.ptr \in Linked(s) /\ tail'.ptr # head.ptr)

\* What a producer is about to link is as it was; what it has read of the tail it had
\* read before, or it is the tail that there is.
SideStays(t, x, l) ==
  /\ x \in Making <=> pc[t] \in Making
  /\ x \in Making => l.node = local[t].node
  /\ x \in Waiting => \/ pc[t] \in Waiting /\ l.tail = local[t].tail
                      \/ l.tail = tail /\ tail' = tail

\* Who waits behind the node of another still does.
LEMMA WaitRule ==
  ASSUME NEW s, NEW w, QueueInv(s, w), ~destroyed, NEW t \in Threads, NEW x \in Places, NEW l \in Locals,
         Goes(t, x, l), TailGoes(s), t \in Producers => SideStays(t, x, l)
  PROVE  WaitInv(w)'
  <1>1. /\ TypeOK /\ WaitInv(w) /\ PlaceInv(s, w) /\ tail \in Handles /\ tail.ptr \in Linked(s) /\ tail.tag \in Nat
        /\ tail'.tag \in Nat /\ tail.tag <= tail'.tag
    BY Parts, Types, HandleTypes DEF TailGoes
  <1>2. /\ pc'[t] = x /\ local'[t] = l /\ Producers \subseteq Threads
        /\ \A u \in Threads : u # t => pc'[u] = pc[u] /\ local'[u] = local[u]
    BY <1>1, GoesRule, Types
  <1>3. ASSUME NEW p \in Producers
        PROVE  /\ local[p].tail.tag \in Nat /\ Stamp(p) \in Nat /\ Stamp(p) <= tail.tag
               /\ Stamp(p)' \in Nat /\ Stamp(p) <= Stamp(p)'
    <2>1. local[p].tail.tag \in Nat /\ (pc[p] \in Waiting => local[p].tail.tag <= tail.tag)
      BY Parts, LocalTypes, HandleTypes DEF ProducerOK, Follows
    <2>2. Stamp(p) \in Nat /\ Stamp(p) <= tail.tag
      BY <1>1, <2>1 DEF Stamp
    <2>3. CASE p # t
      <3>1. pc'[p] = pc[p] /\ local'[p] = local[p]
        BY <1>2, <2>3
      <3>2. QED
        BY <1>1, <2>1, <2>2, <3>1 DEF Stamp
    <2>4. CASE p = t /\ x \in Waiting
      <3>1. Stamp(p)' = l.tail.tag
        BY <1>2, <2>4 DEF Stamp
      <3>2. CASE pc[t] \in Waiting /\ l.tail = local[t].tail
        BY <2>1, <2>2, <2>4, <3>1, <3>2 DEF Stamp
      <3>3. CASE l.tail = tail
        BY <1>1, <2>1, <2>2, <3>1, <3>3
      <3>4. QED
        BY <2>4, <3>2, <3>3 DEF SideStays
    <2>5. CASE p = t /\ x \notin Waiting
      <3>1. Stamp(p)' = tail'.tag
        BY <1>2, <2>5 DEF Stamp
      <3>2. QED
        BY <1>1, <2>1, <2>2, <3>1
    <2>6. QED
      BY <2>3, <2>4, <2>5
  <1>4. ASSUME NEW p \in Producers, NEW q \in Producers, pc'[p] \in Waiting, local'[p].tail.ptr \in Linked(w[q])
        PROVE  local'[p].tail.tag < Stamp(q)'
    <2>1. \/ pc[p] \in Waiting /\ local'[p].tail = local[p].tail
          \/ local'[p].tail = tail
      BY <1>2, <1>4 DEF SideStays
    <2>2. local'[p].tail # tail
      <3>1. q \in Threads /\ Held(q, w) = Linked(w[q]) /\ Held(q, w) \cap (Linked(s) \cup free) = {}
        BY <1>1, <1>2 DEF Held, PlaceInv
      <3>2. QED
        BY <1>1, <1>4, <3>1
    <2>3. local[p].tail.tag < Stamp(q)
      BY <1>1, <1>4, <2>1, <2>2 DEF WaitInv
    <2>4. QED
      BY <1>3, <2>1, <2>2, <2>3
  <1>5. QED
    BY <1>4 DEF WaitInv

\* A step that leaves the lists as they are, but for the tail.
LEMMA StillRule ==
  ASSUME NEW s, NEW w, QueueInv(s, w), ~destroyed, NEW t \in Threads, NEW x \in Places, NEW l \in Locals,
         Goes(t, x, l), UNCHANGED <<head, next, free, destroyed>>, TailGoes(s),
         t \in Producers => ProducerOK(t)' /\ SideStays(t, x, l),
         t \in Consumers => /\ pc[t] # "free" /\ x # "free"
                            /\ ConsumerOK(t, s)' /\ LackedOK(t)' /\ AloneOK(t)'
  PROVE  ListInv(s, w)'
  <1>1. /\ TypeOK /\ IsList(s) /\ SidesInv(w) /\ PlaceInv(s, w) /\ tail.ptr \in Linked(s)
        /\ \A c \in Consumers : ConsumerOK(c, s)
    BY Parts
  <1>2. /\ Producers \subseteq Threads /\ Consumers \subseteq Threads /\ Producers \cap Consumers = {}
        /\ head \in Handles /\ tail \in Handles /\ Threads = Producers \cup Consumers
    BY <1>1, Types DEF Threads
  <1>3. /\ pc'[t] = x /\ local'[t] = l
        /\ \A u \in Threads : u # t => pc'[u] = pc[u] /\ local'[u] = local[u]
    BY <1>1, GoesRule
  <1>4. IsList(s)'
    BY <1>1 DEF IsList
  <1>5. SidesInv(w)'
    <2>1. next' = next /\ w \in [Producers -> Seq(Nodes)]
      BY <1>1 DEF SidesInv
    <2>2. ASSUME NEW p \in Producers
          PROVE  IF pc'[p] \in Making THEN Run(next, w[p], local'[p].node) ELSE w[p] = <<>>
      <3>1. (pc'[p] \in Making <=> pc[p] \in Making) /\ (pc[p] \in Making => local'[p].node = local[p].node)
        BY <1>2, <1>3 DEF SideStays
      <3>2. IF pc[p] \in Making THEN Run(next, w[p], local[p].node) ELSE w[p] = <<>>
        BY <1>1 DEF SidesInv
      <3>3. CASE pc[p] \in Making
        <4>1. local'[p].node = local[p].node
          BY <3>1, <3>3
        <4>2. QED
          BY <3>1, <3>2, <3>3, <4>1
      <3>4. CASE pc[p] \notin Making
        BY <3>1, <3>2, <3>4
      <3>5. QED
        BY <3>3, <3>4
    <2>3. QED
      BY <2>1, <2>2 DEF SidesInv
  <1>6. \A u \in Threads : Held(u, w)' = Held(u, w)
    BY <1>2, <1>3 DEF Held
  <1>7. PlaceInv(s, w)'
    BY <1>1, <1>6 DEF PlaceInv
  <1>8. tail'.ptr \in Linked(s)
    BY <1>1 DEF TailGoes
  <1>9. WaitInv(w)'
    BY WaitRule
  <1>10. Keeps(t, s, s)
    <2>1. \A c \in Consumers : c # t /\ pc[c] = "free" => next'[local[c].head.ptr].ptr # Null
      BY <1>1 DEF ConsumerOK
    <2>2. QED
      BY <1>2, <2>1 DEF Keeps, TailGoes
  <1>11. /\ \A p \in Producers : ProducerOK(p)'
         /\ \A c \in Consumers : ConsumerOK(c, s)' /\ LackedOK(c)' /\ AloneOK(c)'
    BY <1>10, OthersRule
  <1>12. QED
    BY <1>4, <1>5, <1>7, <1>8, <1>9, <1>11 DEF ListInv, Linked

\* No value is touched either, and nobody goes to or from the swap.
LEMMA CarryRule ==
  ASSUME NEW s, NEW w, QueueInv(s, w), NEW t \in Threads, NEW x \in Places, NEW l \in Locals,
         Goes(t, x, l), UNCHANGED <<head, next, free, destroyed, data, made, sent, delivered>>,
         t \in Consumers => pc[t] \notin {"free", "swap"} /\ x \notin {"free", "swap"}
  PROVE  ItemInv'
  <1>1. TypeOK /\ ItemInv
    BY Parts
  <1>2. /\ Consumers \subseteq Threads /\ pc'[t] = x /\ local'[t] = l
        /\ \A u \in Threads : u # t => pc'[u] = pc[u] /\ local'[u] = local[u]
    BY <1>1, Types, GoesRule
  <1>3. \A c \in Consumers : /\ (pc'[c] = "swap" <=> pc[c] = "swap") /\ (pc'[c] = "free" <=> pc[c] = "free")
                             /\ pc[c] \in {"swap", "free"} => local'[c] = local[c]
    BY <1>2
  <1>4. Live' = Live /\ Sent' = Sent /\ Out' = Out
    BY <1>3 DEF Live, Sent, Out
  <1>5. QED
    BY <1>1, <1>3, <1>4 DEF ItemInv, Plain

\* A step that reads, compares, helps or returns.
LEMMA QuietRule ==
  ASSUME NEW s, NEW w, QueueInv(s, w), ~destroyed, NEW t \in Threads, NEW x \in Places, NEW l \in Locals,
         Goes(t, x, l), UNCHANGED <<head, next, free, destroyed, data, made, sent, delivered>>, TailGoes(s),
         lacked' \subseteq Consumers,
         t \in Producers => ProducerOK(t)' /\ SideStays(t, x, l),
         t \in Consumers => /\ pc[t] \notin {"free", "swap"} /\ x \notin {"free", "swap"}
                            /\ ConsumerOK(t, s)' /\ LackedOK(t)' /\ AloneOK(t)'
  PROVE  QueueInv(s, w)'
  <1>1. TypeOK /\ IsList(s)
    BY Parts
  <1>2. pc' \in [Threads -> Places] /\ local' \in [Threads -> Locals]
    BY <1>1, GoesRule
  <1>3. tail' \in Handles /\ tail'.ptr \in Nodes
    BY <1>1, Types, ListRule DEF TailGoes
  <1>4. TypeOK'
    BY <1>1, <1>2, <1>3 DEF TypeOK
  <1>5. ListInv(s, w)'
    BY StillRule
  <1>6. ItemInv'
    BY CarryRule
  <1>7. QED
    BY <1>4, <1>5, <1>6 DEF QueueInv

-----------------------------------------------------------------------------
(* A producer reads, compares and helps *)

\* What is known of a producer in a call.
LEMMA ProducerRule ==
  ASSUME NEW s, NEW w, QueueInv(s, w), NEW p \in Producers
  PROVE  /\ p \in Threads /\ p \notin Consumers /\ local[p] \in Locals /\ ProducerOK(p) /\ TypeOK /\ IsList(s)
         /\ pc[p] # "idle" => ~destroyed
         /\ tail \in Handles /\ tail.ptr \in Nodes /\ tail.tag \in Nat /\ lacked \subseteq Consumers
         /\ next \in [Nodes -> Handles]
         /\ local' = local => local' = [local EXCEPT ![p] = local[p]]
         /\ \A x \in Places, l \in Locals : Goes(p, x, l) => pc'[p] = x /\ local'[p] = l
  BY Parts, Types, HandleTypes, GoesRule

LEMMA EnqueueLoadTailStep ==
  ASSUME NEW s, NEW w, QueueInv(s, w), NEW p \in Producers, EnqueueLoadTail(p)
  PROVE  QueueInv(s, w)'
  <1> DEFINE l == [local[p] EXCEPT !.tail = tail]
  <1>1. /\ pc[p] = "loadTail" /\ pc' = [pc EXCEPT ![p] = "loadNext"]
        /\ local' = [local EXCEPT ![p] = l] /\ UNCHANGED <<shared, history>>
    BY DEF EnqueueLoadTail, Goto
  <1>2. /\ p \in Threads /\ p \notin Consumers /\ local[p] \in Locals /\ ProducerOK(p) /\ ~destroyed
        /\ tail \in Handles /\ tail.ptr \in Nodes /\ tail.tag \in Nat /\ lacked \subseteq Consumers
    BY <1>1, ProducerRule
  <1>3. l \in Locals /\ l.tail = tail /\ l.node = local[p].node
    BY <1>2, LocalTypes DEF Locals
  <1>4. Goes(p, "loadNext", l) /\ "loadNext" \in Places
    BY <1>1 DEF Goes, history, Places
  <1> HIDE DEF l
  <1>5. pc'[p] = "loadNext" /\ local'[p] = l
    BY <1>3, <1>4, ProducerRule
  <1>6. ProducerOK(p)'
    BY <1>1, <1>2, <1>3, <1>5 DEF ProducerOK, Making, Waiting, Follows, shared
  <1>7. TailGoes(s) /\ SideStays(p, "loadNext", l)
    BY <1>1, <1>3 DEF TailGoes, SideStays, Making, Waiting, shared
  <1>8. QED
    BY <1>1, <1>2, <1>3, <1>4, <1>6, <1>7, QuietRule DEF shared, history

\* While the tail is where it was, its next is the second node from there, or none.
LEMMA EnqueueLoadNextStep ==
  ASSUME NEW s, NEW w, QueueInv(s, w), NEW p \in Producers, EnqueueLoadNext(p)
  PROVE  QueueInv(s, w)'
  <1> DEFINE l == [local[p] EXCEPT !.next = next[local[p].tail.ptr]]
  <1>1. /\ pc[p] = "loadNext" /\ pc' = [pc EXCEPT ![p] = "checkTail"]
        /\ local' = [local EXCEPT ![p] = l] /\ UNCHANGED <<shared, history>>
    BY DEF EnqueueLoadNext, Goto
  <1>2. /\ p \in Threads /\ p \notin Consumers /\ local[p] \in Locals /\ ProducerOK(p) /\ ~destroyed
        /\ next \in [Nodes -> Handles] /\ lacked \subseteq Consumers
    BY <1>1, ProducerRule
  <1>3. local[p].tail.ptr \in Nodes /\ Follows(local[p].tail, tail)
    BY <1>1, <1>2 DEF ProducerOK, Waiting
  <1>4. l \in Locals /\ l.tail = local[p].tail /\ l.node = local[p].node /\ l.next = next[local[p].tail.ptr]
    BY <1>2, <1>3, LocalTypes DEF Locals
  <1>5. next[tail.ptr] = Nil \/ next[tail.ptr].ptr \in Nodes
    <2>1. IsList(s) /\ tail.ptr \in Linked(s)
      BY Parts
    <2>2. /\ \A i \in 1..(Len(s) - 1) : next[s[i]].ptr = s[i + 1] /\ i + 1 \in 1..Len(s)
          /\ next[s[Len(s)]] = Nil /\ \A i \in 1..Len(s) : s[i] \in Nodes
          /\ Len(s) \in Nat \ {0}
      BY <2>1, ListRule
    <2>3. PICK i \in 1..Len(s) : tail.ptr = s[i]
      BY <2>1, ListRule
    <2>4. i = Len(s) \/ i \in 1..(Len(s) - 1)
      BY <2>2
    <2>5. QED
      BY <2>2, <2>3, <2>4
  <1>6. Goes(p, "checkTail", l) /\ "checkTail" \in Places
    BY <1>1 DEF Goes, history, Places
  <1> HIDE DEF l
  <1>7. pc'[p] = "checkTail" /\ local'[p] = l
    BY <1>4, <1>6, ProducerRule
  <1>8. ProducerOK(p)'
    BY <1>1, <1>2, <1>3, <1>4, <1>5, <1>7 DEF ProducerOK, Making, Waiting, Follows, shared
  <1>9. TailGoes(s) /\ SideStays(p, "checkTail", l)
    BY <1>1, <1>4 DEF TailGoes, SideStays, Making, Waiting, shared
  <1>10. QED
    BY <1>1, <1>2, <1>4, <1>6, <1>8, <1>9, QuietRule DEF shared, history

LEMMA EnqueueCheckTailStep ==
  ASSUME NEW s, NEW w, QueueInv(s, w), NEW p \in Producers, EnqueueCheckTail(p)
  PROVE  QueueInv(s, w)'
  <1> DEFINE l == local[p]
             x == IF tail # l.tail THEN "loadTail" ELSE IF l.next.ptr = Null THEN "link" ELSE "help"
  <1>1. /\ pc[p] = "checkTail" /\ pc' = [pc EXCEPT ![p] = x] /\ UNCHANGED <<shared, local, history>>
    BY DEF EnqueueCheckTail, Goto
  <1>2. /\ p \in Threads /\ p \notin Consumers /\ l \in Locals /\ ProducerOK(p) /\ ~destroyed
        /\ local' = [local EXCEPT ![p] = l] /\ lacked \subseteq Consumers
    BY <1>1, ProducerRule
  <1>3. Goes(p, x, l) /\ x \in {"loadTail", "link", "help"} /\ x \in Places
    BY <1>1, <1>2 DEF Goes, history, Places
  <1>4. pc'[p] = x /\ local'[p] = l
    BY <1>2, <1>3, ProducerRule
  <1>5. l.tail.ptr \in Nodes /\ Follows(l.tail, tail)
    BY <1>1, <1>2 DEF ProducerOK, Waiting
  <1>6. tail = l.tail => l.next = Nil \/ (l.next.ptr \in Nodes /\ next[tail.ptr].ptr = l.next.ptr)
    BY <1>1, <1>2 DEF ProducerOK
  <1>7. Nil.ptr = Null /\ Null \notin Nodes
    BY HandleTypes, Parts, Types
  <1>8. /\ x = "link" => l.next = Nil
        /\ x = "help" => l.next.ptr \in Nodes /\ next[tail.ptr].ptr = l.next.ptr
    BY <1>6, <1>7
  <1>9. ProducerOK(p)'
    <2> HIDE DEF x
    <2>1. QED
      BY <1>1, <1>3, <1>4, <1>5, <1>8 DEF ProducerOK, Making, Waiting, Follows, shared
  <1>10. TailGoes(s) /\ SideStays(p, x, l)
    BY <1>1, <1>3 DEF TailGoes, SideStays, Making, Waiting, shared
  <1>11. QED
    BY <1>1, <1>2, <1>3, <1>9, <1>10, QuietRule DEF shared, history

\* A link that fails has read a node that another linked to.
LEMMA LinkFailsStep ==
  ASSUME NEW s, NEW w, QueueInv(s, w), NEW p \in Producers, Link(p), next[local[p].tail.ptr] # local[p].next
  PROVE  QueueInv(s, w)'
  <1> DEFINE l == local[p]
  <1>1. /\ pc[p] = "link" /\ pc' = [pc EXCEPT ![p] = "loadTail"] /\ UNCHANGED <<shared, local, history>>
    BY DEF Link, Goto, shared
  <1>2. /\ p \in Threads /\ p \notin Consumers /\ l \in Locals /\ ~destroyed
        /\ local' = [local EXCEPT ![p] = l] /\ lacked \subseteq Consumers
    BY <1>1, ProducerRule
  <1>3. Goes(p, "loadTail", l) /\ "loadTail" \in Places
    BY <1>1, <1>2 DEF Goes, history, Places
  <1>4. pc'[p] = "loadTail" /\ local'[p] = l
    BY <1>2, <1>3, ProducerRule
  <1>5. ProducerOK(p)'
    BY <1>4 DEF ProducerOK, Making, Waiting
  <1>6. TailGoes(s) /\ SideStays(p, "loadTail", l)
    BY <1>1 DEF TailGoes, SideStays, Making, Waiting, shared
  <1>7. QED
    BY <1>1, <1>2, <1>3, <1>5, <1>6, QuietRule DEF shared, history

\* A tail that was what was read goes on to the node that follows it.
LEMMA TailGoesOn ==
  ASSUME NEW s, NEW w, QueueInv(s, w), NEW n \in Nodes, next[tail.ptr].ptr = n,
         tail' = Handle(n, tail.tag + 1)
  PROVE  TailGoes(s)
  <1>1. /\ Len(s) \in Nat \ {0} /\ \A i \in 1..(Len(s) - 1) : next[s[i]].ptr = s[i + 1] /\ i + 1 \in 1..Len(s)
        /\ next[s[Len(s)]] = Nil /\ \A i \in 1..Len(s) : s[i] \in Linked(s)
        /\ \E i \in 1..Len(s) : tail.ptr = s[i]
        /\ s[1] = head.ptr /\ 1 \in 1..Len(s) /\ \A i, j \in 1..Len(s) : s[i] = s[j] => i = j
    BY Parts, ListRule
  <1>2. tail.tag \in Nat /\ Nil.ptr = Null /\ Null \notin Nodes
    BY Parts, Types, HandleTypes
  <1>3. PICK i \in 1..Len(s) : tail.ptr = s[i]
    BY <1>1
  <1>4. i # Len(s)
    BY <1>1, <1>2, <1>3
  <1>5. i \in 1..(Len(s) - 1)
    BY <1>1, <1>4
  <1>6. n = s[i + 1] /\ i + 1 \in 1..Len(s) /\ i + 1 # 1
    BY <1>1, <1>3, <1>5
  <1>7. n \in Linked(s) /\ n # head.ptr
    BY <1>1, <1>6
  <1>8. tail' \in Handles /\ tail'.ptr = n /\ tail'.tag = tail.tag + 1
    BY <1>2, HandleTypes DEF Pointers
  <1>9. QED
    BY <1>2, <1>7, <1>8 DEF TailGoes

LEMMA SwingTailStep ==
  ASSUME NEW s, NEW w, QueueInv(s, w), NEW p \in Producers, SwingTail(p)
  PROVE  QueueInv(s, w)'
  <1>1. /\ pc[p] = "swing" /\ pc' = [pc EXCEPT ![p] = "idle"] /\ local' = [local EXCEPT ![p] = NoLocals]
        /\ tail' = (IF tail = local[p].tail THEN Handle(local[p].node, tail.tag + 1) ELSE tail)
        /\ UNCHANGED <<head, next, data, free, destroyed, history>>
    BY DEF SwingTail, Return, Goto
  <1>2. /\ p \in Threads /\ p \notin Consumers /\ ~destroyed /\ lacked \subseteq Consumers
        /\ local[p].node \in Nodes /\ (tail = local[p].tail => next[tail.ptr].ptr = local[p].node)
    BY <1>1, ProducerRule DEF ProducerOK
  <1>3. NoLocals \in Locals /\ Goes(p, "idle", NoLocals) /\ "idle" \in Places
    BY <1>1, HandleTypes DEF Goes, history, Places
  <1>4. pc'[p] = "idle"
    BY <1>3, ProducerRule
  <1>5. ProducerOK(p)' /\ SideStays(p, "idle", NoLocals)
    BY <1>1, <1>4 DEF ProducerOK, SideStays, Making, Waiting
  <1>6. TailGoes(s)
    <2>1. CASE tail = local[p].tail
      BY <1>1, <1>2, <2>1, TailGoesOn
    <2>2. CASE tail # local[p].tail
      BY <1>1, <2>2 DEF TailGoes
    <2>3. QED
      BY <2>1, <2>2
  <1>7. QED
    BY <1>1, <1>2, <1>3, <1>5, <1>6, QuietRule DEF history

LEMMA EnqueueHelpStep ==
  ASSUME NEW s, NEW w, QueueInv(s, w), NEW p \in Producers, EnqueueHelp(p)
  PROVE  QueueInv(s, w)'
  <1>1. /\ pc[p] = "help" /\ pc' = [pc EXCEPT ![p] = "loadTail"]
        /\ tail' = (IF tail = local[p].tail THEN Handle(local[p].next.ptr, tail.tag + 1) ELSE tail)
        /\ UNCHANGED <<head, next, data, free, destroyed, local, history>>
    BY DEF EnqueueHelp, HelpTail, Goto
  <1>2. /\ p \in Threads /\ p \notin Consumers /\ ~destroyed /\ lacked \subseteq Consumers
        /\ local[p] \in Locals /\ local' = [local EXCEPT ![p] = local[p]]
        /\ local[p].next.ptr \in Nodes /\ (tail = local[p].tail => next[tail.ptr].ptr = local[p].next.ptr)
    BY <1>1, ProducerRule DEF ProducerOK
  <1>3. Goes(p, "loadTail", local[p]) /\ "loadTail" \in Places
    BY <1>1, <1>2 DEF Goes, history, Places
  <1>4. pc'[p] = "loadTail"
    BY <1>2, <1>3, ProducerRule
  <1>5. ProducerOK(p)' /\ SideStays(p, "loadTail", local[p])
    BY <1>1, <1>4 DEF ProducerOK, SideStays, Making, Waiting
  <1>6. TailGoes(s)
    <2>1. CASE tail = local[p].tail
      BY <1>1, <1>2, <2>1, TailGoesOn
    <2>2. CASE tail # local[p].tail
      BY <1>1, <2>2 DEF TailGoes
    <2>3. QED
      BY <2>1, <2>2
  <1>7. QED
    BY <1>1, <1>2, <1>3, <1>5, <1>6, QuietRule DEF history

(* A consumer reads, compares, asks and returns *)

LEMMA ConsumerRule ==
  ASSUME NEW s, NEW w, QueueInv(s, w), ~destroyed,
         NEW c \in Consumers, NEW x \in Places \ {"swap", "free"}, NEW l \in Locals,
         Goes(c, x, l), UNCHANGED <<shared, made, sent, delivered>>, lacked' \subseteq Consumers,
         pc[c] \notin {"swap", "free"}, ConsumerOK(c, s)', LackedOK(c)', AloneOK(c)'
  PROVE  QueueInv(s, w)'
  <1>1. c \in Threads /\ c \notin Producers /\ TailGoes(s)
    BY Parts DEF TailGoes, shared
  <1>2. QED
    BY <1>1, QuietRule DEF shared

\* The history at the start of a call.
LEMMA StartRule ==
  ASSUME NEW s, NEW w, QueueInv(s, w), NEW c \in Consumers, Call(c), pc[c] \in {"idle", "loadHead"}
  PROVE  /\ lacked' \subseteq Consumers
         /\ head.ptr = tail.ptr => c \in lacked'
         /\ \A d \in Consumers : d \in lacked => d \in lacked'
  <1>1. PICK k \in 1..Len(s) : tail.ptr = s[k]
    BY Parts, ListRule
  <1>2. Queued = <<>> <=> head.ptr = tail.ptr
    BY <1>1, QueuedRule, Parts
  <1>3. lacked \subseteq Consumers /\ LackedOK(c)
    BY Parts, Types
  <1>4. QED
    BY <1>2, <1>3 DEF Call, LackedOK

LEMMA DequeueLoadHeadStep ==
  ASSUME NEW s, NEW w, QueueInv(s, w), NEW c \in Consumers, DequeueLoadHead(c)
  PROVE  QueueInv(s, w)'
  <1> DEFINE l == [local[c] EXCEPT !.head = head]
  <1>1. /\ ~destroyed /\ pc[c] \in {"idle", "loadHead"} /\ pc' = [pc EXCEPT ![c] = "dequeueTail"]
        /\ Call(c) /\ local' = [local EXCEPT ![c] = l] /\ UNCHANGED <<shared, made, sent, delivered>>
    BY DEF DequeueLoadHead, Goto
  <1>2. /\ c \in Threads /\ local[c] \in Locals /\ TypeOK /\ head \in Handles /\ head.ptr \in Nodes
    BY Parts, Types
  <1>3. l \in Locals /\ l.head = head
    BY <1>2, LocalTypes DEF Locals
  <1>4. /\ lacked' \subseteq Consumers /\ (head.ptr = tail.ptr => c \in lacked')
        /\ \A d \in Consumers : d \in lacked => d \in lacked'
    BY <1>1, StartRule
  <1>5. Goes(c, "dequeueTail", l) /\ "dequeueTail" \in Places \ {"swap", "free"}
    BY <1>1, <1>4 DEF Goes, Places
  <1> HIDE DEF l
  <1>6. pc'[c] = "dequeueTail" /\ local'[c] = l
    BY <1>2, <1>3, <1>5, GoesRule
  <1>7. ConsumerOK(c, s)'
    BY <1>1, <1>2, <1>3, <1>6, HandleTypes DEF ConsumerOK, Reading, Asking, Follows, shared
  <1>8. LackedOK(c)' /\ AloneOK(c)'
    BY <1>1, <1>3, <1>4, <1>6 DEF LackedOK, AloneOK, shared
  <1>9. QED
    BY <1>1, <1>3, <1>4, <1>5, <1>7, <1>8, ConsumerRule

LEMMA DequeueLoadTailStep ==
  ASSUME NEW s, NEW w, QueueInv(s, w), NEW c \in Consumers, DequeueLoadTail(c)
  PROVE  QueueInv(s, w)'
  <1> DEFINE l == [local[c] EXCEPT !.tail = tail]
  <1>1. /\ pc[c] = "dequeueTail" /\ pc' = [pc EXCEPT ![c] = "dequeueNext"]
        /\ local' = [local EXCEPT ![c] = l] /\ UNCHANGED <<shared, history>>
    BY DEF DequeueLoadTail, Goto
  <1>2. /\ c \in Threads /\ local[c] \in Locals /\ TypeOK /\ tail \in Handles /\ lacked \subseteq Consumers
        /\ ConsumerOK(c, s) /\ LackedOK(c) /\ AloneOK(c) /\ ~destroyed
    BY <1>1, Parts, Types
  <1>3. l \in Locals /\ l.head = local[c].head /\ l.tail = tail
    BY <1>2, LocalTypes DEF Locals
  <1>4. Goes(c, "dequeueNext", l) /\ "dequeueNext" \in Places \ {"swap", "free"}
    BY <1>1 DEF Goes, Places, history
  <1> HIDE DEF l
  <1>5. pc'[c] = "dequeueNext" /\ local'[c] = l
    BY <1>2, <1>3, <1>4, GoesRule
  <1>6. ConsumerOK(c, s)'
    BY <1>1, <1>2, <1>3, <1>5, HandleTypes DEF ConsumerOK, Reading, Asking, Follows, shared, history
  <1>7. LackedOK(c)' /\ AloneOK(c)'
    BY <1>1, <1>2, <1>3, <1>5 DEF LackedOK, AloneOK, Reading, shared, history
  <1>8. QED
    BY <1>1, <1>2, <1>3, <1>4, <1>6, <1>7, ConsumerRule DEF history

\* While the head is what was read, its next is the second node, or there is none.
LEMMA DequeueLoadNextStep ==
  ASSUME NEW s, NEW w, QueueInv(s, w), NEW c \in Consumers, DequeueLoadNext(c)
  PROVE  QueueInv(s, w)'
  <1> DEFINE l == [local[c] EXCEPT !.next = next[local[c].head.ptr]]
  <1>1. /\ pc[c] = "dequeueNext" /\ pc' = [pc EXCEPT ![c] = "checkHead"]
        /\ local' = [local EXCEPT ![c] = l] /\ UNCHANGED <<shared, history>>
    BY DEF DequeueLoadNext, Goto
  <1>2. /\ c \in Threads /\ local[c] \in Locals /\ TypeOK /\ next \in [Nodes -> Handles] /\ lacked \subseteq Consumers
        /\ ConsumerOK(c, s) /\ LackedOK(c) /\ AloneOK(c) /\ ~destroyed /\ Null \notin Nodes
    BY <1>1, Parts, Types
  <1>3. local[c].head.ptr \in Nodes
    BY <1>1, <1>2 DEF ConsumerOK, Reading
  <1>4. l \in Locals /\ l.head = local[c].head /\ l.tail = local[c].tail /\ l.next = next[local[c].head.ptr]
    BY <1>2, <1>3, LocalTypes DEF Locals
  <1>5. Goes(c, "checkHead", l) /\ "checkHead" \in Places \ {"swap", "free"}
    BY <1>1 DEF Goes, Places, history
  <1>6. head = local[c].head =>
          /\ IF l.next.ptr = Null THEN c \in lacked ELSE Len(s) > 1 /\ l.next.ptr = s[2]
          /\ l.tail.ptr # head.ptr => l.next.ptr # Null
    <2>1. SUFFICES ASSUME head = local[c].head
                   PROVE  /\ IF l.next.ptr = Null THEN c \in lacked ELSE Len(s) > 1 /\ l.next.ptr = s[2]
                          /\ l.tail.ptr # head.ptr => l.next.ptr # Null
      OBVIOUS
    <2>2. /\ Len(s) \in Nat \ {0} /\ s[1] = head.ptr /\ \A i \in 1..Len(s) : s[i] \in Nodes
          /\ \A i \in 1..(Len(s) - 1) : next[s[i]].ptr = s[i + 1]
          /\ next[s[Len(s)]] = Nil
      BY Parts, ListRule
    <2>3. PICK k \in 1..Len(s) : tail.ptr = s[k]
      BY Parts, ListRule
    <2>4. l.next = next[s[1]]
      BY <1>4, <2>1, <2>2
    <2>5. CASE Len(s) = 1
      <3>1. l.next.ptr = Null /\ tail.ptr = head.ptr
        BY <2>2, <2>3, <2>4, <2>5, HandleTypes
      <3>2. c \in lacked /\ l.tail.ptr = head.ptr
        BY <1>1, <1>2, <1>4, <2>1, <3>1 DEF LackedOK, ConsumerOK, Reading
      <3>3. QED
        BY <3>1, <3>2
    <2>6. CASE Len(s) > 1
      <3>1. l.next.ptr = s[2] /\ s[2] \in Nodes
        BY <2>2, <2>4, <2>6
      <3>2. QED
        BY <1>2, <2>6, <3>1
    <2>7. Len(s) = 1 \/ Len(s) > 1
      <3>1. Len(s) \in Nat \ {0}
        BY <2>2
      <3>2. \A n \in Nat \ {0} : n = 1 \/ n > 1
        OBVIOUS
      <3>3. QED
        BY <3>1, <3>2
    <2> HIDE DEF l
    <2>8. QED
      BY <2>5, <2>6, <2>7
  <1> HIDE DEF l
  <1>7. pc'[c] = "checkHead" /\ local'[c] = l
    BY <1>2, <1>4, <1>5, GoesRule
  <1>8. ConsumerOK(c, s)'
    BY <1>1, <1>2, <1>4, <1>6, <1>7 DEF ConsumerOK, Reading, Asking, Follows, shared, history
  <1>9. LackedOK(c)' /\ AloneOK(c)'
    BY <1>1, <1>2, <1>4, <1>7 DEF LackedOK, AloneOK, Reading, shared, history
  <1>10. QED
    BY <1>1, <1>2, <1>4, <1>5, <1>8, <1>9, ConsumerRule DEF history

LEMMA DequeueCheckHeadStep ==
  ASSUME NEW s, NEW w, QueueInv(s, w), NEW c \in Consumers, DequeueCheckHead(c)
  PROVE  QueueInv(s, w)'
  <1> DEFINE l == local[c]
             x == IF head # l.head THEN "loadHead" ELSE IF l.head.ptr = l.tail.ptr THEN "help" ELSE "move"
  <1>1. /\ pc[c] = "checkHead" /\ pc' = [pc EXCEPT ![c] = x] /\ UNCHANGED <<shared, local, history>>
        /\ head # l.head \/ l.head.ptr # l.tail.ptr \/ l.next.ptr # Null
    BY DEF DequeueCheckHead, Goto, HeadHeld, Caught
  <1>2. /\ c \in Threads /\ l \in Locals /\ TypeOK /\ lacked \subseteq Consumers
        /\ ConsumerOK(c, s) /\ LackedOK(c) /\ AloneOK(c) /\ ~destroyed /\ local' = [local EXCEPT ![c] = l]
    BY <1>1, Parts, Types
  <1>3. Goes(c, x, l) /\ x \in {"loadHead", "help", "move"} /\ x \in Places \ {"swap", "free"}
    BY <1>1, <1>2 DEF Goes, Places, history
  <1>4. pc'[c] = x /\ local'[c] = l
    BY <1>2, <1>3, GoesRule
  <1>5. /\ Len(s) \in Nat \ {0} /\ s[1] = head.ptr /\ \A i \in 1..Len(s) : s[i] \in Nodes
        /\ \A i \in 1..(Len(s) - 1) : next[s[i]].ptr = s[i + 1]
    BY Parts, ListRule
  <1>6. head = l.head => Len(s) > 1 /\ l.next.ptr = s[2] /\ s[2] \in Nodes
    BY <1>1, <1>2, <1>5 DEF ConsumerOK
  <1>7. ConsumerOK(c, s)'
    <2>1. CASE head # l.head
      BY <1>1, <1>4, <2>1 DEF ConsumerOK, Reading, Asking
    <2>2. CASE head = l.head /\ l.head.ptr = l.tail.ptr
      <3>1. tail = l.tail => next[tail.ptr].ptr = l.next.ptr
        BY <1>5, <1>6, <2>2
      <3>2. QED
        BY <1>1, <1>2, <1>4, <1>6, <2>2, <3>1 DEF ConsumerOK, Reading, Asking, Follows, shared, history
    <2>3. CASE head = l.head /\ l.head.ptr # l.tail.ptr
      BY <1>1, <1>2, <1>4, <1>6, <2>3 DEF ConsumerOK, Reading, Asking, Follows, shared, history
    <2>4. QED
      BY <2>1, <2>2, <2>3
  <1>8. LackedOK(c)' /\ AloneOK(c)'
    BY <1>1, <1>2, <1>3, <1>4 DEF LackedOK, AloneOK, Reading, shared, history
  <1>9. QED
    BY <1>1, <1>2, <1>3, <1>7, <1>8, ConsumerRule DEF history

\* A call that returns leaves nothing behind.
LEMMA ReturnRule ==
  ASSUME NEW s, NEW w, QueueInv(s, w), NEW c \in Consumers, pc[c] \notin {"idle", "swap", "free"},
         pc' = [pc EXCEPT ![c] = "idle"], local' = [local EXCEPT ![c] = NoLocals], lacked' = lacked \ {c},
         UNCHANGED <<shared, made, sent, delivered>>
  PROVE  QueueInv(s, w)'
  <1>1. c \in Threads /\ TypeOK /\ lacked \subseteq Consumers /\ ~destroyed /\ NoLocals \in Locals
    BY Parts, Types, HandleTypes
  <1>2. Goes(c, "idle", NoLocals) /\ "idle" \in Places \ {"swap", "free"}
    BY DEF Goes, Places
  <1>3. pc'[c] = "idle"
    BY <1>1, <1>2, GoesRule
  <1>4. ConsumerOK(c, s)' /\ LackedOK(c)' /\ AloneOK(c)'
    BY <1>3 DEF ConsumerOK, LackedOK, AloneOK, Reading, Asking
  <1>5. QED
    BY <1>1, <1>2, <1>4, ConsumerRule

LEMMA EmptyStep ==
  ASSUME NEW s, NEW w, QueueInv(s, w), NEW c \in Consumers, Empty(c)
  PROVE  QueueInv(s, w)'
  <1> DEFINE lt == [local[c] EXCEPT !.tail = tail]
             lh == [local[c] EXCEPT !.head = head]
  <1>1. /\ c \in Threads /\ local[c] \in Locals /\ TypeOK /\ lacked \subseteq Consumers
        /\ ConsumerOK(c, s) /\ LackedOK(c) /\ AloneOK(c) /\ tail \in Handles /\ head \in Handles
    BY Parts, Types
  <1>2. lt \in Locals /\ lt.tail = tail /\ lh \in Locals /\ lh.head = head
    BY <1>1, LocalTypes DEF Locals
  <1> HIDE DEF lt, lh
  <1>3. ASSUME NEW x \in {"askHead", "askTail"}, NEW l \in Locals, EmptyLoadFirst(c), pc[c] = "idle",
               pc' = [pc EXCEPT ![c] = x], local' = [local EXCEPT ![c] = l],
               IF x = "askHead" THEN l.tail = tail ELSE l.head = head
        PROVE  QueueInv(s, w)'
    <2>1. /\ lacked' \subseteq Consumers /\ (head.ptr = tail.ptr => c \in lacked')
          /\ \A d \in Consumers : d \in lacked => d \in lacked'
      BY <1>3, StartRule DEF EmptyLoadFirst
    <2>2. ~destroyed /\ UNCHANGED <<shared, made, sent, delivered>>
      BY <1>3 DEF EmptyLoadFirst
    <2>3. Goes(c, x, l) /\ x \in Places \ {"swap", "free"}
      BY <1>3, <2>1 DEF Goes, Places
    <2>4. pc'[c] = x /\ local'[c] = l
      BY <1>1, <2>3, GoesRule
    <2>5. ConsumerOK(c, s)' /\ LackedOK(c)' /\ AloneOK(c)'
      BY <1>3, <2>1, <2>2, <2>4 DEF ConsumerOK, LackedOK, AloneOK, Reading, Asking, shared, EmptyLoadFirst
    <2>6. QED
      BY <1>3, <2>1, <2>2, <2>3, <2>5, ConsumerRule
  <1>4. CASE EmptyLoadFirst(c)
    <2>1. CASE Goto(c, "idle", "askHead") /\ local' = [local EXCEPT ![c].tail = tail]
      <3>1. local' = [local EXCEPT ![c] = lt]
        BY <2>1 DEF lt
      <3>2. QED
        BY <1>2, <1>3, <1>4, <2>1, <3>1 DEF Goto
    <2>2. CASE Goto(c, "idle", "askTail") /\ local' = [local EXCEPT ![c].head = head]
      <3>1. local' = [local EXCEPT ![c] = lh]
        BY <2>2 DEF lh
      <3>2. QED
        BY <1>2, <1>3, <1>4, <2>2, <3>1 DEF Goto
    <2>3. QED
      BY <1>4, <2>1, <2>2 DEF EmptyLoadFirst
  <1>5. CASE EmptyLoadSecond(c)
    <2>1. PICK x \in {"true", "false"} :
            /\ pc' = [pc EXCEPT ![c] = x]
            /\ \/ pc[c] = "askHead" /\ (x = "true" <=> local[c].tail.ptr = head.ptr)
               \/ pc[c] = "askTail" /\ (x = "true" <=> tail.ptr = local[c].head.ptr)
      BY <1>5 DEF EmptyLoadSecond, Goto
    <2>2. UNCHANGED <<shared, local, history>>
      BY <1>5 DEF EmptyLoadSecond
    <2>3. ~destroyed /\ local' = [local EXCEPT ![c] = local[c]]
      BY <1>1, <2>1, <2>2, Parts
    <2>4. Goes(c, x, local[c]) /\ x \in Places \ {"swap", "free"}
      BY <2>1, <2>2, <2>3 DEF Goes, Places, history
    <2>5. pc'[c] = x
      BY <1>1, <2>4, GoesRule
    <2>6. ConsumerOK(c, s)' /\ LackedOK(c)' /\ AloneOK(c)'
      BY <1>1, <2>1, <2>2, <2>5 DEF ConsumerOK, LackedOK, AloneOK, Reading, Asking, shared, history
    <2>7. QED
      BY <1>1, <2>1, <2>2, <2>3, <2>4, <2>6, ConsumerRule DEF history
  <1>6. CASE EmptyReturn(c)
    BY <1>6, ReturnRule DEF EmptyReturn, Return, Goto
  <1>7. QED
    BY <1>4, <1>5, <1>6 DEF Empty

LEMMA DequeueFailsStep ==
  ASSUME NEW s, NEW w, QueueInv(s, w), NEW c \in Consumers, DequeueFails(c)
  PROVE  QueueInv(s, w)'
  BY ReturnRule DEF DequeueFails, Return, Goto

LEMMA DequeueHelpStep ==
  ASSUME NEW s, NEW w, QueueInv(s, w), NEW c \in Consumers, DequeueHelp(c)
  PROVE  QueueInv(s, w)'
  <1>1. /\ pc[c] = "help" /\ pc' = [pc EXCEPT ![c] = "loadHead"]
        /\ tail' = (IF tail = local[c].tail THEN Handle(local[c].next.ptr, tail.tag + 1) ELSE tail)
        /\ UNCHANGED <<head, next, data, free, destroyed, local, history>>
    BY DEF DequeueHelp, HelpTail, Goto
  <1>2. /\ c \in Threads /\ c \notin Producers /\ ConsumerOK(c, s) /\ LackedOK(c) /\ ~destroyed /\ TypeOK
        /\ local[c] \in Locals /\ local' = [local EXCEPT ![c] = local[c]]
    BY <1>1, Parts
  <1>3. Goes(c, "loadHead", local[c]) /\ "loadHead" \in Places /\ lacked \subseteq Consumers
    BY <1>1, <1>2, Types DEF Goes, history, Places
  <1>4. pc'[c] = "loadHead"
    BY <1>2, <1>3, GoesRule
  <1>5. TailGoes(s)
    <2>1. CASE tail = local[c].tail
      <3>1. local[c].next.ptr \in Nodes /\ next[tail.ptr].ptr = local[c].next.ptr
        BY <1>1, <1>2, <2>1 DEF ConsumerOK
      <3>2. QED
        BY <1>1, <2>1, <3>1, TailGoesOn
    <2>2. CASE tail # local[c].tail
      BY <1>1, <2>2 DEF TailGoes
    <2>3. QED
      BY <2>1, <2>2
  <1>6. ConsumerOK(c, s)' /\ AloneOK(c)'
    BY <1>4 DEF ConsumerOK, AloneOK, Reading, Asking
  <1>7. LackedOK(c)'
    BY <1>1, <1>2, <1>5 DEF LackedOK, TailGoes, history
  <1>8. QED
    BY <1>1, <1>2, <1>3, <1>5, <1>6, <1>7, QuietRule DEF history

\* Where the nodes are.
LEMMA PlaceRule ==
  ASSUME NEW s, NEW w, QueueInv(s, w), ~destroyed
  PROVE  /\ Threads = Producers \cup Consumers /\ Producers \cap Consumers = {}
         /\ \A t, u \in Threads : t # u => Held(t, w) \cap Held(u, w) = {}
         /\ \A t \in Threads : Held(t, w) \cap Linked(s) = {} /\ Held(t, w) \cap free = {}
         /\ Linked(s) \cap free = {} /\ free \subseteq Nodes
         /\ \A n \in Nodes : n \in Linked(s) \cup free \/ \E t \in Threads : n \in Held(t, w)
         /\ \A n \in free : next[n].ptr = Junk
         /\ \A c \in Consumers : Held(c, w) = IF pc[c] = "free" THEN {local[c].head.ptr} ELSE {}
         /\ \A p \in Producers : Held(p, w) = Linked(w[p]) /\ Linked(w[p]) \subseteq Nodes
         /\ Linked(s) \subseteq Nodes /\ head.ptr \in Linked(s) /\ tail.ptr \in Linked(s)
  <1>1. /\ \A t, u \in Threads : t # u => Held(t, w) \cap Held(u, w) = {}
        /\ \A t \in Threads : Held(t, w) \cap Linked(s) = {} /\ Held(t, w) \cap free = {}
        /\ Linked(s) \cap free = {}
        /\ \A n \in Nodes : n \in Linked(s) \cup free \/ \E t \in Threads : n \in Held(t, w)
        /\ \A n \in free : next[n].ptr = Junk
    BY Parts DEF PlaceInv
  <1>2. /\ \A c \in Consumers : Held(c, w) = IF pc[c] = "free" THEN {local[c].head.ptr} ELSE {}
        /\ \A p \in Producers : Held(p, w) = Linked(w[p])
        /\ Threads = Producers \cup Consumers /\ Producers \cap Consumers = {}
    BY Parts DEF Held, Threads
  <1>3. Linked(s) \subseteq Nodes /\ head.ptr \in Linked(s) /\ tail.ptr \in Linked(s) /\ free \subseteq Nodes
    BY Parts, ListRule, Types
  <1>4. ASSUME NEW p \in Producers
        PROVE  Linked(w[p]) \subseteq Nodes
    <2>1. CASE pc[p] \in Making
      <3>1. Run(next, w[p], local[p].node)
        BY <2>1, Parts DEF SidesInv
      <3>2. QED
        BY <3>1, RunRule
    <2>2. CASE pc[p] \notin Making
      <3>1. w[p] = <<>>
        BY <2>2, Parts DEF SidesInv
      <3>2. QED
        BY <3>1, LinkedNone
    <2>3. QED
      BY <2>1, <2>2
  <1>5. QED
    BY <1>1, <1>2, <1>3, <1>4

\* The nodes with items: the list without its dummy, and what is to be linked.
LEMMA LiveRule ==
  ASSUME NEW s, NEW w, QueueInv(s, w), ~destroyed
  PROVE  /\ \A n \in Linked(s) : n # head.ptr => n \in Live
         /\ \A p \in Producers : Linked(w[p]) \subseteq Live
         /\ \A n \in Live : n # head.ptr /\ n \in Nodes /\ (n \in Linked(s) \/ \E p \in Producers : n \in Linked(w[p]))
  <1>1. \A n \in Linked(s) : n # head.ptr => n \in Live
    BY PlaceRule DEF Live
  <1>2. ASSUME NEW p \in Producers, NEW n \in Linked(w[p])
        PROVE  n \in Live
    <2>1. p \in Threads /\ n \in Held(p, w) /\ n \in Nodes /\ n \notin free /\ n # head.ptr
      BY <1>2, PlaceRule
    <2>2. \A c \in Consumers : n \notin Held(c, w)
      BY <1>2, <2>1, PlaceRule
    <2>3. \A c \in Consumers : pc[c] = "free" => n # local[c].head.ptr
      BY <2>2, PlaceRule
    <2>4. QED
      BY <2>1, <2>3 DEF Live
  <1>3. ASSUME NEW n \in Live
        PROVE  n # head.ptr /\ n \in Nodes /\ (n \in Linked(s) \/ \E p \in Producers : n \in Linked(w[p]))
    <2>1. n \in Nodes /\ n \notin free /\ n # head.ptr /\ \A c \in Consumers : n \notin Held(c, w)
      BY PlaceRule DEF Live
    <2>2. n \in Linked(s) \/ \E t \in Threads : n \in Held(t, w)
      BY <2>1, PlaceRule
    <2>3. QED
      BY <2>1, <2>2, PlaceRule
  <1>4. QED
    BY <1>1, <1>2, <1>3

\* Only the values differ: a swap that fails, and a move.
LEMMA SwapFailsStep ==
  ASSUME NEW s, NEW w, QueueInv(s, w), NEW c \in Consumers, SwapHead(c), ~HeadHeld(c)
  PROVE  QueueInv(s, w)'
  <1>1. /\ pc[c] = "swap" /\ pc' = [pc EXCEPT ![c] = "loadHead"] /\ head # local[c].head
        /\ UNCHANGED <<shared, local, history>>
    BY DEF SwapHead, HeadHeld, Goto, shared, history
  <1>2. /\ c \in Threads /\ c \notin Producers /\ ConsumerOK(c, s) /\ LackedOK(c) /\ AloneOK(c) /\ ~destroyed
        /\ TypeOK /\ local[c] \in Locals /\ local' = [local EXCEPT ![c] = local[c]] /\ ItemInv
        /\ Consumers \subseteq Threads
    BY <1>1, Parts, Types
  <1>3. Goes(c, "loadHead", local[c]) /\ "loadHead" \in Places
    BY <1>1, <1>2 DEF Goes, history, Places
  <1>4. /\ pc' \in [Threads -> Places] /\ local' \in [Threads -> Locals] /\ pc'[c] = "loadHead"
        /\ \A u \in Threads : u # c => pc'[u] = pc[u] /\ local'[u] = local[u]
    BY <1>2, <1>3, GoesRule
  <1>5. TypeOK'
    BY <1>1, <1>2, <1>4 DEF TypeOK, shared, history
  <1>6. ConsumerOK(c, s)' /\ LackedOK(c)' /\ AloneOK(c)'
    BY <1>1, <1>2, <1>4 DEF ConsumerOK, LackedOK, AloneOK, Reading, Asking, shared, history
  <1>7. ListInv(s, w)'
    <2>1. TailGoes(s)
      BY <1>1 DEF TailGoes, shared
    <2>2. QED
      BY <1>1, <1>2, <1>3, <1>6, <2>1, StillRule DEF shared
  <1>8. ASSUME Plain
        PROVE  ItemInv'
    <2>1. ~Moves
      <3>1. SUFFICES ASSUME Moves PROVE FALSE
        OBVIOUS
      <3>2. Consumers = {c}
        BY <1>8, <3>1 DEF Plain
      <3>3. QED
        BY <1>1, <1>2, <3>2 DEF AloneOK, Reading
    <2>2. \A d \in Consumers : /\ pc'[d] = "swap" => pc[d] = "swap" /\ local'[d] = local[d]
                               /\ (pc'[d] = "free" <=> pc[d] = "free") /\ local'[d] = local[d]
      BY <1>1, <1>2, <1>4
    <2>3. Live' = Live /\ Sent' = Sent /\ Out' = Out
      BY <1>1, <2>2 DEF Live, Sent, Out, shared, history
    <2>4. QED
      BY <1>1, <1>2, <1>8, <2>1, <2>2, <2>3 DEF ItemInv, shared, history
  <1>9. ItemInv'
    BY <1>8 DEF ItemInv, Plain
  <1>10. QED
    BY <1>5, <1>7, <1>9 DEF QueueInv

LEMMA MoveValueStep ==
  ASSUME NEW s, NEW w, QueueInv(s, w), NEW c \in Consumers, MoveValue(c)
  PROVE  QueueInv(s, w)'
  <1> DEFINE n == local[c].next.ptr
             l == [local[c] EXCEPT !.value = data[n]]
  <1>1. /\ pc[c] = "move" /\ pc' = [pc EXCEPT ![c] = "swap"] /\ local' = [local EXCEPT ![c] = l]
        /\ data' = (IF Moves THEN [data EXCEPT ![n] = NoItem] ELSE data)
        /\ UNCHANGED <<head, tail, next, free, destroyed, history>>
    BY DEF MoveValue, Goto
  <1>2. /\ c \in Threads /\ c \notin Producers /\ ConsumerOK(c, s) /\ LackedOK(c) /\ AloneOK(c) /\ ~destroyed
        /\ TypeOK /\ local[c] \in Locals /\ ItemInv /\ IsList(s)
        /\ Consumers \subseteq Threads /\ data \in [Nodes -> Items \cup {NoItem}]
    BY <1>1, Parts, Types
  <1>3. n \in Nodes
    BY <1>1, <1>2 DEF ConsumerOK
  <1>4. l \in Locals /\ l.head = local[c].head /\ l.tail = local[c].tail /\ l.next = local[c].next
        /\ l.value = data[n]
    BY <1>2, <1>3, LocalTypes DEF Locals
  <1>5. data' \in [Nodes -> Items \cup {NoItem}] /\ \A m \in Nodes : m # n \/ ~Moves => data'[m] = data[m]
    BY <1>1, <1>2, <1>3
  <1>6. Goes(c, "swap", l) /\ "swap" \in Places
    BY <1>1 DEF Goes, history, Places
  <1> HIDE DEF l
  <1>7. /\ pc' \in [Threads -> Places] /\ local' \in [Threads -> Locals] /\ pc'[c] = "swap" /\ local'[c] = l
        /\ \A u \in Threads : u # c => pc'[u] = pc[u] /\ local'[u] = local[u]
    BY <1>2, <1>4, <1>6, GoesRule
  <1>8. TypeOK'
    BY <1>1, <1>2, <1>5, <1>7 DEF TypeOK, history
  <1>9. ConsumerOK(c, s)' /\ LackedOK(c)' /\ AloneOK(c)'
    BY <1>1, <1>2, <1>4, <1>7 DEF ConsumerOK, LackedOK, AloneOK, Reading, Asking, Follows, history
  <1>10. ListInv(s, w)'
    <2>1. TailGoes(s)
      BY <1>1 DEF TailGoes
    <2>2. QED
      BY <1>1, <1>2, <1>4, <1>6, <1>9, <2>1, StillRule
  <1>11. ASSUME Plain
         PROVE  ItemInv'
    <2>1. Moves => Consumers = {c}
      BY <1>11 DEF Plain
    <2>2. head = local[c].head => Len(s) > 1 /\ n = s[2]
      BY <1>1, <1>2 DEF ConsumerOK
    <2>3. Moves => head = local[c].head
      BY <1>1, <1>2, <2>1 DEF AloneOK, Reading
    <2>4. head = local[c].head => n = next[head.ptr].ptr /\ n \in Live
      <3>1. SUFFICES ASSUME head = local[c].head PROVE n = next[head.ptr].ptr /\ n \in Live
        OBVIOUS
      <3>2. Len(s) > 1 /\ n = s[2]
        BY <2>2, <3>1
      <3>3. /\ Len(s) \in Nat /\ s[1] = head.ptr /\ \A i \in 1..(Len(s) - 1) : next[s[i]].ptr = s[i + 1]
            /\ \A i \in 1..Len(s) : s[i] \in Linked(s)
            /\ \A i, j \in 1..Len(s) : s[i] = s[j] => i = j
        BY <1>2, ListRule
      <3>4. 1 \in 1..(Len(s) - 1) /\ 2 \in 1..Len(s) /\ 1 \in 1..Len(s)
        BY <3>2, <3>3
      <3>5. n = next[head.ptr].ptr /\ n \in Linked(s) /\ n # head.ptr
        BY <3>2, <3>3, <3>4
      <3>6. QED
        BY <1>2, <3>5, LiveRule
    <2>5. \A d \in Consumers : /\ (pc'[d] = "free" <=> pc[d] = "free") /\ (pc[d] = "free" => local'[d] = local[d])
                               /\ d # c => pc'[d] = pc[d] /\ local'[d] = local[d]
      BY <1>1, <1>2, <1>7
    <2>6. Live' = Live /\ Sent' = Sent /\ Out' = Out
      BY <1>1, <2>5 DEF Live, Sent, Out, history
    <2>7. ASSUME NEW m \in Live
          PROVE  data'[m] = made[m] \/ (Moves /\ m = next[head.ptr].ptr /\ \E d \in Consumers : pc'[d] = "swap")
      <3>1. m \in Nodes
        BY DEF Live
      <3>2. CASE Moves /\ m = n
        BY <1>7, <2>3, <2>4, <3>2
      <3>3. CASE ~(Moves /\ m = n)
        <4>1. data'[m] = data[m]
          BY <1>5, <3>1, <3>3
        <4>2. Moves => \A d \in Consumers : pc[d] # "swap"
          BY <1>1, <2>1
        <4>3. QED
          BY <1>2, <1>11, <2>7, <4>1, <4>2 DEF ItemInv
      <3>4. QED
        BY <3>2, <3>3
    <2>8. ASSUME NEW d \in Consumers, pc'[d] = "swap", head = local'[d].head
          PROVE  local'[d].value = made[next[head.ptr].ptr]
      <3>1. CASE d = c
        <4>1. head = local[c].head /\ n = next[head.ptr].ptr /\ n \in Live
          BY <1>4, <1>7, <2>4, <2>8, <3>1
        <4>2. Moves => \A e \in Consumers : pc[e] # "swap"
          BY <1>1, <2>1
        <4>3. data[n] = made[n]
          BY <1>2, <1>11, <4>1, <4>2 DEF ItemInv
        <4>4. QED
          BY <1>4, <1>7, <3>1, <4>1, <4>3
      <3>2. CASE d # c
        BY <1>2, <1>11, <2>5, <2>8, <3>2 DEF ItemInv
      <3>3. QED
        BY <3>1, <3>2
    <2>9. QED
      BY <1>1, <1>2, <1>11, <2>6, <2>7, <2>8 DEF ItemInv, history
  <1>12. ItemInv'
    BY <1>11 DEF ItemInv, Plain
  <1>13. QED
    BY <1>8, <1>10, <1>12 DEF QueueInv

-----------------------------------------------------------------------------
(* Nodes from the pool, and back *)

\* What a producer has to link.
LEMMA SideRule ==
  ASSUME NEW s, NEW w, QueueInv(s, w), NEW p \in Producers
  PROVE  /\ w \in [Producers -> Seq(Nodes)]
         /\ pc[p] \in Making => Run(next, w[p], local[p].node)
         /\ pc[p] \notin Making => w[p] = <<>> /\ Linked(w[p]) = {}
  BY Parts, LinkedNone DEF SidesInv

LEMMA AllocateStep ==
  ASSUME NEW s, NEW w, QueueInv(s, w), NEW p \in Producers, Allocate(p)
  PROVE  \E n \in Nodes : QueueInv(s, [w EXCEPT ![p] = <<n>>])'
  <1> DEFINE item == <<p, sent[p] + 1>>
  <1>1. PICK n \in free :
          /\ free' = free \ {n}
          /\ next' = [next EXCEPT ![n] = Nil]
          /\ data' = [data EXCEPT ![n] = item]
          /\ made' = [made EXCEPT ![n] = item]
          /\ local' = [local EXCEPT ![p].node = n]
    BY DEF Allocate
  <1> DEFINE l == [local[p] EXCEPT !.node = n]
             v == [w EXCEPT ![p] = <<n>>]
  <1>2. /\ ~destroyed /\ sent[p] < MaxItems /\ pc[p] = "idle" /\ pc' = [pc EXCEPT ![p] = "loadTail"]
        /\ sent' = [sent EXCEPT ![p] = @ + 1] /\ UNCHANGED <<head, tail, destroyed, delivered, lacked>>
        /\ local' = [local EXCEPT ![p] = l]
    BY <1>1 DEF Allocate, Goto
  <1>3. /\ TypeOK /\ p \in Threads /\ p \notin Consumers /\ local[p] \in Locals /\ n \in Nodes
        /\ next \in [Nodes -> Handles] /\ data \in [Nodes -> Items \cup {NoItem}]
        /\ made \in [Nodes -> Items \cup {NoItem}] /\ sent \in [Producers -> 0..MaxItems] /\ MaxItems \in Nat
        /\ head \in Handles /\ tail \in Handles /\ Nil \in Handles
        /\ Consumers \subseteq Threads /\ Producers \subseteq Threads
    BY <1>1, Parts, Types, HandleTypes
  <1>4. l \in Locals /\ l.node = n
    BY <1>3, LocalTypes DEF Locals
  <1>5. sent[p] \in Nat /\ sent[p] + 1 \in 1..MaxItems /\ item \in Items
    BY <1>2, <1>3 DEF Items
  <1>6. Goes(p, "loadTail", l) /\ "loadTail" \in Places
    BY <1>2 DEF Goes, Places
  <1> HIDE DEF l, item
  <1>7. /\ pc' \in [Threads -> Places] /\ local' \in [Threads -> Locals] /\ pc'[p] = "loadTail" /\ local'[p] = l
        /\ \A u \in Threads : u # p => pc'[u] = pc[u] /\ local'[u] = local[u]
    BY <1>3, <1>4, <1>6, GoesRule
  <1>8. TypeOK'
    BY <1>1, <1>2, <1>3, <1>5, <1>7 DEF TypeOK
  <1>9. next'[n] = Nil /\ made'[n] = item /\ data'[n] = item
        /\ \A m \in Nodes : m # n => next'[m] = next[m] /\ made'[m] = made[m] /\ data'[m] = data[m]
    BY <1>1, <1>3
  <1>10. /\ v \in [Producers -> Seq(Nodes)] /\ v[p] = <<n>> /\ Linked(v[p]) = {n} /\ Run(next', v[p], n)
         /\ \A q \in Producers : q # p => v[q] = w[q]
    <2>1. w \in [Producers -> Seq(Nodes)] /\ <<n>> \in Seq(Nodes)
      BY <1>3, SideRule
    <2>2. Linked(<<n>>) = {n} /\ Run(next', <<n>>, n)
      BY <1>3, <1>9, RunOne
    <2>3. QED
      BY <2>1, <2>2
  <1> HIDE DEF v
  <1>11. n \notin Linked(s) /\ \A t \in Threads : n \notin Held(t, w)
    BY <1>1, <1>2, PlaceRule
  <1>12. IsList(s)'
    <2>1. \A m \in Linked(s) : next'[m] = next[m]
      BY <1>2, <1>9, <1>11, PlaceRule
    <2>2. QED
      BY <1>2, <2>1, Parts, RunFrame DEF IsList
  <1>13. SidesInv(v)'
    <2>1. ASSUME NEW q \in Producers, q # p
          PROVE  IF pc'[q] \in Making THEN Run(next', v[q], local'[q].node) ELSE v[q] = <<>>
      <3>1. v[q] = w[q] /\ pc'[q] = pc[q] /\ local'[q] = local[q] /\ q \in Threads
        BY <1>3, <1>7, <1>10, <2>1
      <3>2. \A m \in Linked(w[q]) : next'[m] = next[m]
        BY <1>2, <1>9, <1>11, <3>1, PlaceRule
      <3>3. pc[q] \in Making => Run(next', w[q], local[q].node)
        BY <3>2, SideRule, RunFrame
      <3>4. QED
        BY <3>1, <3>3, SideRule
    <2>2. QED
      BY <1>4, <1>7, <1>10, <2>1 DEF SidesInv, Making
  <1>14. /\ Held(p, v)' = {n} /\ Held(p, w) = {}
         /\ \A t \in Threads : t # p => Held(t, v)' = Held(t, w)
    <2>1. Held(p, v)' = {n}
      BY <1>10 DEF Held
    <2>2. Held(p, w) = {}
      BY <1>2, SideRule DEF Held, Making
    <2>3. \A t \in Threads : t # p => Held(t, v)' = Held(t, w)
      BY <1>7, <1>10 DEF Held
    <2>4. QED
      BY <2>1, <2>2, <2>3
  <1>15. PlaceInv(s, v)'
    <2>1. \A t, u \in Threads : t # u => Held(t, v)' \cap Held(u, v)' = {}
      BY <1>2, <1>11, <1>14, PlaceRule
    <2>2. \A t \in Threads : Held(t, v)' \cap (Linked(s) \cup free') = {}
      BY <1>1, <1>2, <1>11, <1>14, PlaceRule
    <2>3. Linked(s) \cap free' = {}
      BY <1>1, <1>2, PlaceRule
    <2>4. \A m \in Nodes : m \in Linked(s) \cup free' \/ \E t \in Threads : m \in Held(t, v)'
      BY <1>1, <1>2, <1>3, <1>14, PlaceRule
    <2>5. \A m \in free' : next'[m].ptr = Junk
      BY <1>1, <1>2, <1>9, PlaceRule
    <2>6. QED
      BY <1>2, <2>1, <2>2, <2>3, <2>4, <2>5 DEF PlaceInv, Linked
  <1>16. WaitInv(v)'
    <2>1. ASSUME NEW a \in Producers, NEW b \in Producers, pc'[a] \in Waiting, local'[a].tail.ptr \in Linked(v[b])
          PROVE  local'[a].tail.tag < Stamp(b)'
      <3>1. a # p /\ pc'[a] = pc[a] /\ local'[a] = local[a]
        BY <1>3, <1>7, <2>1 DEF Waiting
      <3>2. CASE b = p
        <4>1. Stamp(b)' = tail.tag /\ local[a].tail.ptr = n
          BY <1>2, <1>7, <1>10, <2>1, <3>1, <3>2 DEF Stamp, Waiting
        <4>2. Follows(local[a].tail, tail)
          BY <2>1, <3>1, Parts DEF ProducerOK
        <4>3. tail.ptr # n
          BY <1>11, Parts
        <4>4. local[a].tail.tag \in Nat /\ tail.tag \in Nat
          BY <1>3, Parts, LocalTypes, HandleTypes
        <4>5. QED
          BY <3>1, <4>1, <4>2, <4>3, <4>4 DEF Follows
      <3>3. CASE b # p
        <4>1. Stamp(b)' = Stamp(b) /\ v[b] = w[b]
          BY <1>2, <1>3, <1>7, <1>10, <3>3 DEF Stamp
        <4>2. QED
          BY <2>1, <3>1, <4>1, Parts DEF WaitInv
      <3>4. QED
        BY <3>2, <3>3
    <2>2. QED
      BY <2>1 DEF WaitInv
  <1>17. Keeps(p, s, s)
    <2>1. next'[tail.ptr] = next[tail.ptr]
      BY <1>2, <1>9, <1>11, PlaceRule
    <2>2. ASSUME NEW c \in Consumers, pc[c] = "free"
          PROVE  next'[local[c].head.ptr].ptr # Null
      <3>1. local[c].head.ptr \in Nodes /\ next[local[c].head.ptr].ptr # Null
        BY <2>2, Parts DEF ConsumerOK
      <3>2. local[c].head.ptr # n
        BY <1>2, <1>3, <1>11, <2>2, PlaceRule
      <3>3. QED
        BY <1>9, <3>1, <3>2
    <2>3. QED
      BY <1>2, <1>3, <2>1, <2>2 DEF Keeps
  <1>18. ProducerOK(p)'
    BY <1>7 DEF ProducerOK, Making, Waiting
  <1>19. /\ \A q \in Producers : ProducerOK(q)'
         /\ \A c \in Consumers : ConsumerOK(c, s)' /\ LackedOK(c)' /\ AloneOK(c)'
    BY <1>3, <1>4, <1>6, <1>17, <1>18, OthersRule
  <1>20. ListInv(s, v)'
    BY <1>2, <1>12, <1>13, <1>15, <1>16, <1>19, Parts DEF ListInv, Linked
  <1>21. ASSUME Plain
         PROVE  ItemInv'
    <2>1. /\ \A c \in Consumers : pc'[c] = pc[c] /\ local'[c] = local[c]
          /\ \A c \in Consumers : pc[c] = "free" => n # local[c].head.ptr
          /\ n # head.ptr /\ next'[head.ptr] = next[head.ptr] /\ head.ptr \in Nodes
      <3>1. \A c \in Consumers : pc'[c] = pc[c] /\ local'[c] = local[c]
        BY <1>3, <1>7
      <3>2. \A c \in Consumers : pc[c] = "free" => n # local[c].head.ptr
        BY <1>2, <1>3, <1>11, PlaceRule
      <3>3. n # head.ptr /\ head.ptr \in Nodes
        BY <1>2, <1>11, PlaceRule
      <3>4. QED
        BY <1>9, <3>1, <3>2, <3>3
    <2>2. n \notin Live /\ Live' = Live \cup {n} /\ Live \subseteq Nodes
      BY <1>1, <1>2, <1>3, <2>1 DEF Live
    <2>3. item \notin Sent /\ Sent' = Sent \cup {item}
      <3>1. \A i \in Items : i[1] \in Producers /\ i[2] \in 1..MaxItems /\ i = <<i[1], i[2]>>
        BY DEF Items
      <3>2. \A q \in Producers : q # p => sent'[q] = sent[q]
        BY <1>2, <1>3
      <3>3. sent'[p] = sent[p] + 1 /\ item[1] = p /\ item[2] = sent[p] + 1
        BY <1>2, <1>3 DEF item
      <3>4. \A i \in Items : i[2] <= sent'[i[1]] <=> i[2] <= sent[i[1]] \/ i = item
        <4>1. ASSUME NEW i \in Items
              PROVE  i[2] <= sent'[i[1]] <=> i[2] <= sent[i[1]] \/ i = item
          <5>1. i[1] \in Producers /\ i[2] \in Nat /\ i = <<i[1], i[2]>>
            BY <1>3, <3>1
          <5>2. CASE i[1] = p
            <6>1. i = item <=> i[2] = sent[p] + 1
              BY <5>1, <5>2 DEF item
            <6>2. i[2] <= sent[p] + 1 <=> i[2] <= sent[p] \/ i[2] = sent[p] + 1
              BY <1>5, <5>1
            <6>3. QED
              BY <3>3, <5>2, <6>1, <6>2
          <5>3. CASE i[1] # p
            BY <3>2, <3>3, <5>1, <5>3
          <5>4. QED
            BY <5>2, <5>3
        <4>2. QED
          BY <4>1
      <3>5. ~ (item[2] <= sent[item[1]])
        BY <1>5, <3>3
      <3>6. QED
        BY <1>5, <3>4, <3>5 DEF Sent
    <2>4. Out' = Out /\ Out \subseteq Sent /\ item \notin Out
      BY <1>2, <1>21, <2>3, Parts DEF ItemInv, Out
    <2>5. /\ \A m \in Live : made[m] \in Sent \ Out
          /\ \A m, k \in Live : made[m] = made[k] => m = k
          /\ \A i \in Sent \ Out : \E m \in Live : made[m] = i
          /\ \A m \in Live : \/ data[m] = made[m]
                             \/ Moves /\ m = next[head.ptr].ptr /\ \E c \in Consumers : pc[c] = "swap"
          /\ \A c \in Consumers : pc[c] = "swap" /\ head = local[c].head => local[c].value = made[next[head.ptr].ptr]
          /\ \A i, j \in DOMAIN delivered : delivered[i] = delivered[j] => i = j
      BY <1>2, <1>21, Parts DEF ItemInv
    <2>6. \A m \in Live : m # n /\ made'[m] = made[m] /\ data'[m] = data[m]
      BY <1>9, <2>2
    <2>7. \A m \in Live' : made'[m] \in Sent' \ Out'
      BY <1>9, <2>2, <2>3, <2>4, <2>5, <2>6
    <2>8. \A m, k \in Live' : made'[m] = made'[k] => m = k
      BY <1>9, <2>2, <2>3, <2>5, <2>6
    <2>9. \A i \in Sent' \ Out' : \E m \in Live' : made'[m] = i
      BY <1>9, <2>2, <2>3, <2>4, <2>5, <2>6
    <2>10. \A m \in Live' : \/ data'[m] = made'[m]
                            \/ Moves /\ m = next'[head'.ptr].ptr /\ \E c \in Consumers : pc'[c] = "swap"
      BY <1>2, <1>9, <2>1, <2>2, <2>5, <2>6
    <2>11. ASSUME NEW c \in Consumers, pc'[c] = "swap", head' = local'[c].head
           PROVE  local'[c].value = made'[next'[head'.ptr].ptr]
      <3>1. pc[c] = "swap" /\ head = local[c].head /\ local'[c] = local[c]
        BY <1>2, <2>1, <2>11
      <3>2. Len(s) > 1 /\ local[c].next.ptr = s[2]
        BY <3>1, Parts DEF ConsumerOK
      <3>3. next[head.ptr].ptr \in Nodes /\ next[head.ptr].ptr # n
        <4>1. /\ Len(s) \in Nat /\ s[1] = head.ptr /\ \A i \in 1..(Len(s) - 1) : next[s[i]].ptr = s[i + 1]
              /\ \A i \in 1..Len(s) : s[i] \in Nodes /\ s[i] \in Linked(s)
          BY Parts, ListRule
        <4>2. 1 \in 1..(Len(s) - 1) /\ 2 \in 1..Len(s)
          BY <3>2, <4>1
        <4>3. QED
          BY <1>11, <4>1, <4>2
      <3>4. QED
        BY <1>2, <1>9, <2>1, <2>5, <3>1, <3>3
    <2>12. QED
      BY <1>2, <2>3, <2>4, <2>5, <2>7, <2>8, <2>9, <2>10, <2>11 DEF ItemInv
  <1>22. ItemInv'
    BY <1>21 DEF ItemInv, Plain
  <1>23. QueueInv(s, v)'
    BY <1>8, <1>20, <1>22 DEF QueueInv
  <1>24. QED
    BY <1>3, <1>23 DEF v

LEMMA FreeStep ==
  ASSUME NEW s, NEW w, QueueInv(s, w), NEW c \in Consumers, Free(c)
  PROVE  QueueInv(s, w)'
  <1> DEFINE n == local[c].head.ptr
  <1>1. /\ pc[c] = "free" /\ pc' = [pc EXCEPT ![c] = "idle"] /\ local' = [local EXCEPT ![c] = NoLocals]
        /\ free' = free \cup {n} /\ next' = [next EXCEPT ![n].ptr = Junk] /\ data' = [data EXCEPT ![n] = NoItem]
        /\ lacked' = lacked \ {c} /\ UNCHANGED <<head, tail, destroyed, made, sent, delivered>>
    BY DEF Free, Return, Goto
  <1>2. /\ TypeOK /\ c \in Threads /\ c \notin Producers /\ NoLocals \in Locals /\ ConsumerOK(c, s)
        /\ next \in [Nodes -> Handles] /\ data \in [Nodes -> Items \cup {NoItem}] /\ free \subseteq Nodes
        /\ head \in Handles /\ tail \in Handles /\ Null # Junk /\ lacked \subseteq Consumers /\ ~destroyed
        /\ Consumers \subseteq Threads /\ Producers \subseteq Threads
    BY <1>1, Parts, Types, HandleTypes
  <1>3. n \in Nodes
    BY <1>1, <1>2 DEF ConsumerOK
  <1>4. Goes(c, "idle", NoLocals) /\ "idle" \in Places
    BY <1>1 DEF Goes, Places
  <1>5. /\ pc' \in [Threads -> Places] /\ local' \in [Threads -> Locals] /\ pc'[c] = "idle"
        /\ \A u \in Threads : u # c => pc'[u] = pc[u] /\ local'[u] = local[u]
    BY <1>2, <1>4, GoesRule
  <1>6. /\ next' \in [Nodes -> Handles] /\ next'[n].ptr = Junk
        /\ \A m \in Nodes : m # n => next'[m] = next[m] /\ data'[m] = data[m]
    BY <1>1, <1>2, <1>3 DEF Handles, Pointers
  <1> HIDE DEF n
  <1>7. TypeOK'
    BY <1>1, <1>2, <1>3, <1>5, <1>6 DEF TypeOK
  <1>8. Held(c, w) = {n} /\ Held(c, w)' = {} /\ \A t \in Threads : t # c => Held(t, w)' = Held(t, w)
    BY <1>1, <1>2, <1>5 DEF Held, n
  <1>9. n \notin Linked(s) /\ \A t \in Threads : t # c => n \notin Held(t, w)
    BY <1>2, <1>8, PlaceRule
  <1>10. IsList(s)'
    <2>1. \A m \in Linked(s) : next'[m] = next[m]
      BY <1>2, <1>6, <1>9, PlaceRule
    <2>2. QED
      BY <1>1, <2>1, Parts, RunFrame DEF IsList
  <1>11. SidesInv(w)'
    <2>1. ASSUME NEW q \in Producers
          PROVE  IF pc'[q] \in Making THEN Run(next', w[q], local'[q].node) ELSE w[q] = <<>>
      <3>1. pc'[q] = pc[q] /\ local'[q] = local[q] /\ q \in Threads /\ q # c
        BY <1>2, <1>5
      <3>2. \A m \in Linked(w[q]) : next'[m] = next[m]
        BY <1>2, <1>6, <1>9, <3>1, PlaceRule
      <3>3. pc[q] \in Making => Run(next', w[q], local[q].node)
        BY <3>2, SideRule, RunFrame
      <3>4. QED
        BY <3>1, <3>3, SideRule
    <2>2. QED
      BY <2>1, Parts DEF SidesInv
  <1>12. PlaceInv(s, w)'
    <2>1. \A t, u \in Threads : t # u => Held(t, w)' \cap Held(u, w)' = {}
      BY <1>2, <1>8, PlaceRule
    <2>2. \A t \in Threads : Held(t, w)' \cap (Linked(s) \cup free') = {}
      BY <1>1, <1>2, <1>8, <1>9, PlaceRule
    <2>3. Linked(s) \cap free' = {}
      BY <1>1, <1>2, <1>9, PlaceRule
    <2>4. \A m \in Nodes : m \in Linked(s) \cup free' \/ \E t \in Threads : m \in Held(t, w)'
      BY <1>1, <1>2, <1>8, PlaceRule
    <2>5. \A m \in free' : next'[m].ptr = Junk
      BY <1>1, <1>2, <1>6, PlaceRule
    <2>6. QED
      BY <1>1, <1>2, <2>1, <2>2, <2>3, <2>4, <2>5 DEF PlaceInv, Linked
  <1>13. WaitInv(w)'
    <2>1. \A q \in Producers : pc'[q] = pc[q] /\ local'[q] = local[q]
      BY <1>2, <1>5
    <2>2. \A q \in Producers : Stamp(q)' = Stamp(q)
      BY <1>1, <2>1 DEF Stamp
    <2>3. QED
      BY <2>1, <2>2, Parts DEF WaitInv
  <1>14. Keeps(c, s, s)
    <2>1. next'[tail.ptr] = next[tail.ptr]
      BY <1>2, <1>6, <1>9, PlaceRule
    <2>2. ASSUME NEW d \in Consumers, d # c, pc[d] = "free"
          PROVE  next'[local[d].head.ptr].ptr # Null
      <3>1. local[d].head.ptr \in Nodes /\ next[local[d].head.ptr].ptr # Null
        BY <2>2, Parts DEF ConsumerOK
      <3>2. local[d].head.ptr # n
        BY <1>2, <1>9, <2>2, PlaceRule
      <3>3. QED
        BY <1>6, <3>1, <3>2
    <2>3. QED
      BY <1>1, <1>2, <2>1, <2>2 DEF Keeps
  <1>15. ConsumerOK(c, s)' /\ LackedOK(c)' /\ AloneOK(c)'
    BY <1>5 DEF ConsumerOK, LackedOK, AloneOK, Reading, Asking
  <1>16. /\ \A q \in Producers : ProducerOK(q)'
         /\ \A d \in Consumers : ConsumerOK(d, s)' /\ LackedOK(d)' /\ AloneOK(d)'
    BY <1>2, <1>4, <1>14, <1>15, OthersRule
  <1>17. ListInv(s, w)'
    BY <1>1, <1>10, <1>11, <1>12, <1>13, <1>16, Parts DEF ListInv, Linked
  <1>18. ASSUME Plain
         PROVE  ItemInv'
    <2>1. \A d \in Consumers : /\ d # c => pc'[d] = pc[d] /\ local'[d] = local[d]
                               /\ pc'[d] = "swap" <=> pc[d] = "swap"
                               /\ pc'[d] = "free" <=> pc[d] = "free" /\ d # c
      BY <1>1, <1>2, <1>5
    <2>2. Live' = Live
      <3>1. \A m \in Nodes : (\A d \in Consumers : pc'[d] = "free" => m # local'[d].head.ptr) /\ m # n
                                <=> \A d \in Consumers : pc[d] = "free" => m # local[d].head.ptr
        BY <1>1, <2>1 DEF n
      <3>2. QED
        BY <1>1, <3>1 DEF Live
    <2>3. n \notin Live /\ Live \subseteq Nodes
      BY <1>1 DEF Live, n
    <2>4. Sent' = Sent /\ Out' = Out /\ next'[head.ptr] = next[head.ptr]
      BY <1>1, <1>2, <1>6, <1>9, PlaceRule DEF Sent, Out
    <2>5. \A m \in Live : data'[m] = data[m]
      BY <1>6, <2>3
    <2>6. /\ \A m \in Live : made[m] \in Sent \ Out
          /\ \A m, k \in Live : made[m] = made[k] => m = k
          /\ \A i \in Sent \ Out : \E m \in Live : made[m] = i
          /\ \A m \in Live : \/ data[m] = made[m]
                             \/ Moves /\ m = next[head.ptr].ptr /\ \E d \in Consumers : pc[d] = "swap"
          /\ Out \subseteq Sent
          /\ \A i, j \in DOMAIN delivered : delivered[i] = delivered[j] => i = j
          /\ \A d \in Consumers : pc[d] = "swap" /\ head = local[d].head => local[d].value = made[next[head.ptr].ptr]
      BY <1>2, <1>18, Parts DEF ItemInv
    <2>7. \A m \in Live' : \/ data'[m] = made'[m]
                           \/ Moves /\ m = next'[head'.ptr].ptr /\ \E d \in Consumers : pc'[d] = "swap"
      <3>1. head' = head /\ made' = made /\ next'[head'.ptr] = next[head.ptr]
        BY <1>1, <2>4
      <3>2. (\E d \in Consumers : pc[d] = "swap") => \E d \in Consumers : pc'[d] = "swap"
        BY <2>1
      <3>3. QED
        BY <2>2, <2>5, <2>6, <3>1, <3>2
    <2>8. \A d \in Consumers :
            pc'[d] = "swap" /\ head' = local'[d].head => local'[d].value = made'[next'[head'.ptr].ptr]
      <3>1. \A d \in Consumers : pc'[d] = "swap" => local'[d] = local[d] /\ pc[d] = "swap"
        BY <1>1, <2>1
      <3>2. head' = head /\ made' = made /\ next'[head'.ptr] = next[head.ptr]
        BY <1>1, <2>4
      <3>3. QED
        BY <2>6, <3>1, <3>2
    <2>9. QED
      BY <1>1, <2>2, <2>4, <2>6, <2>7, <2>8 DEF ItemInv
  <1>19. ItemInv'
    BY <1>18 DEF ItemInv, Plain
  <1>20. QED
    BY <1>7, <1>17, <1>19 DEF QueueInv

LEMMA SwapSucceedsStep ==
  ASSUME NEW s, NEW w, QueueInv(s, w), NEW c \in Consumers, SwapHead(c), HeadHeld(c)
  PROVE  QueueInv(Tail(s), w)'
  <1> DEFINE l == local[c]
             u == Tail(s)
  <1>1. /\ pc[c] = "swap" /\ pc' = [pc EXCEPT ![c] = "free"] /\ head = l.head
        /\ head' = Handle(l.next.ptr, l.head.tag + 1) /\ delivered' = Append(delivered, l.value)
        /\ lacked' = (IF Len(Queued) <= 1 THEN {d \in Consumers : pc[d] # "idle"} ELSE lacked)
        /\ UNCHANGED <<tail, next, data, free, destroyed, local, made, sent>>
    BY DEF SwapHead, HeadHeld, Goto
  <1>2. /\ TypeOK /\ c \in Threads /\ c \notin Producers /\ l \in Locals /\ ConsumerOK(c, s) /\ ~destroyed
        /\ head \in Handles /\ tail \in Handles /\ head.tag \in Nat /\ lacked \subseteq Consumers
        /\ Consumers \subseteq Threads /\ Producers \subseteq Threads /\ head.ptr \in Nodes /\ Null \notin Nodes
        /\ delivered \in Seq(Items \cup {NoItem}) /\ local' = [local EXCEPT ![c] = l] /\ IsList(s)
    BY <1>1, Parts, Types, HandleTypes
  <1>3. Len(s) > 1 /\ l.next.ptr = s[2] /\ tail.ptr # head.ptr /\ l.value \in Items \cup {NoItem}
    BY <1>1, <1>2, LocalTypes DEF ConsumerOK, Reading
  <1>4. /\ Len(s) \in Nat /\ s[1] = head.ptr /\ next[s[1]].ptr = s[2] /\ s[1] \in Nodes /\ s[2] \in Nodes /\ s[1] # s[2]
        /\ s[2] \in Linked(s) /\ s[1] \in Linked(s) /\ 2 \in 1..Len(s) /\ 1 \in 1..Len(s)
    <2>1. /\ Len(s) \in Nat /\ s[1] = head.ptr /\ \A i \in 1..(Len(s) - 1) : next[s[i]].ptr = s[i + 1]
          /\ \A i \in 1..Len(s) : s[i] \in Nodes /\ s[i] \in Linked(s)
          /\ \A i, j \in 1..Len(s) : s[i] = s[j] => i = j
      BY <1>2, ListRule
    <2>2. 1 \in 1..(Len(s) - 1) /\ 2 \in 1..Len(s) /\ 1 \in 1..Len(s)
      BY <1>3, <2>1
    <2>3. QED
      BY <2>1, <2>2
  <1>5. head' \in Handles /\ head'.ptr = s[2] /\ head'.tag = head.tag + 1
    <2>1. head' = Handle(s[2], head.tag + 1) /\ head.tag + 1 \in Nat /\ s[2] \in Pointers
      BY <1>1, <1>2, <1>3, <1>4 DEF Pointers
    <2>2. QED
      BY <2>1, HandleTypes
  <1>6. Goes(c, "free", l) /\ "free" \in Places
    <2>1. \A d \in Consumers : d \in lacked /\ pc[d] # "idle" => d \in lacked'
      BY <1>1
    <2>2. QED
      BY <1>1, <1>2, <2>1 DEF Goes, Places
  <1> HIDE DEF l, u
  <1>7. /\ pc' \in [Threads -> Places] /\ local' \in [Threads -> Locals] /\ pc'[c] = "free" /\ local' = local
        /\ \A t \in Threads : t # c => pc'[t] = pc[t]
    BY <1>1, <1>2, <1>6, GoesRule
  <1>8. TypeOK'
    <2>1. delivered' \in Seq(Items \cup {NoItem}) /\ lacked' \subseteq Consumers
      BY <1>1, <1>2, <1>3
    <2>2. QED
      BY <1>1, <1>2, <1>4, <1>5, <1>7, <2>1 DEF TypeOK
  <1>9. /\ IsList(u)' /\ Linked(s) = Linked(u) \cup {s[1]} /\ s[1] \notin Linked(u)
    BY <1>1, <1>2, <1>3, <1>5, RunRest DEF IsList, u
  <1>10. SidesInv(w)'
    <2>1. \A q \in Producers : pc'[q] = pc[q]
      BY <1>2, <1>7
    <2>2. QED
      BY <1>1, <1>7, <2>1, Parts DEF SidesInv
  <1>11. Held(c, w) = {} /\ Held(c, w)' = {s[1]} /\ \A t \in Threads : t # c => Held(t, w)' = Held(t, w)
    BY <1>1, <1>2, <1>4, <1>7 DEF Held, l
  <1>12. PlaceInv(u, w)'
    <2>1. \A t, v \in Threads : t # v => Held(t, w)' \cap Held(v, w)' = {}
      BY <1>2, <1>4, <1>11, PlaceRule
    <2>2. \A t \in Threads : Held(t, w)' \cap (Linked(u) \cup free') = {}
      BY <1>1, <1>2, <1>4, <1>9, <1>11, PlaceRule
    <2>3. Linked(u) \cap free' = {}
      BY <1>1, <1>2, <1>9, PlaceRule
    <2>4. \A m \in Nodes : m \in Linked(u) \cup free' \/ \E t \in Threads : m \in Held(t, w)'
      BY <1>1, <1>2, <1>9, <1>11, PlaceRule
    <2>5. \A m \in free' : next'[m].ptr = Junk
      BY <1>1, <1>2, PlaceRule
    <2>6. QED
      BY <1>1, <1>2, <2>1, <2>2, <2>3, <2>4, <2>5 DEF PlaceInv, Linked
  <1>13. tail'.ptr \in Linked(u)
    BY <1>1, <1>3, <1>4, <1>9, Parts
  <1>14. WaitInv(w)'
    <2>1. \A q \in Producers : pc'[q] = pc[q]
      BY <1>2, <1>7
    <2>2. \A q \in Producers : Stamp(q)' = Stamp(q)
      BY <1>1, <2>1 DEF Stamp
    <2>3. QED
      BY <1>1, <2>1, <2>2, Parts DEF WaitInv
  <1>15. s[2] = tail.ptr => lacked' = {d \in Consumers : pc[d] # "idle"}
    <2>1. SUFFICES ASSUME s[2] = tail.ptr PROVE Len(Queued) <= 1
      BY <1>1
    <2>2. Len(Queued) = 2 - 1
      BY <1>2, <1>4, <2>1, QueuedRule
    <2>3. QED
      BY <2>2
  <1>16. Keeps(c, s, u)
    <2>1. ASSUME NEW d \in Consumers, pc[d] = "free"
          PROVE  next'[local[d].head.ptr].ptr # Null
      BY <1>1, <2>1, Parts DEF ConsumerOK
    <2>2. head.tag < head'.tag
      BY <1>2, <1>5
    <2>3. head'.ptr = tail'.ptr => \A d \in Consumers : d # c /\ pc[d] # "idle" => d \in lacked'
      BY <1>1, <1>5, <1>15
    <2>4. QED
      BY <1>1, <1>2, <1>5, <2>1, <2>2, <2>3 DEF Keeps
  <1>17. ConsumerOK(c, u)' /\ LackedOK(c)' /\ AloneOK(c)'
    <2>1. ConsumerOK(c, u)'
      BY <1>1, <1>2, <1>4, <1>7 DEF ConsumerOK, Reading, Asking, l
    <2>2. LackedOK(c)'
      BY <1>1, <1>5, <1>15 DEF LackedOK
    <2>3. AloneOK(c)'
      BY <1>7 DEF AloneOK, Reading
    <2>4. QED
      BY <2>1, <2>2, <2>3
  <1>18. /\ \A q \in Producers : ProducerOK(q)'
         /\ \A d \in Consumers : ConsumerOK(d, u)' /\ LackedOK(d)' /\ AloneOK(d)'
    <2>1. l \in Locals
      BY <1>2
    <2>2. QED
      BY <1>2, <1>6, <1>16, <1>17, <2>1, OthersRule
  <1>19. ListInv(u, w)'
    BY <1>9, <1>10, <1>12, <1>13, <1>14, <1>18 DEF ListInv, Linked
  <1>20. ASSUME Plain
         PROVE  ItemInv'
    <2>1. s[2] \in Live /\ l.value = made[s[2]]
      <3>1. s[2] \in Live
        BY <1>2, <1>4, LiveRule
      <3>2. l.value = made[next[head.ptr].ptr]
        BY <1>1, <1>2, <1>20, Parts DEF ItemInv, l
      <3>3. QED
        BY <1>4, <3>1, <3>2
    <2>2. Live' = Live \ {s[2]}
      <3>1. \A d \in Consumers : pc'[d] = "free" <=> pc[d] = "free" \/ d = c
        BY <1>2, <1>7
      <3>2. \A m \in Nodes : (\A d \in Consumers : pc'[d] = "free" => m # local'[d].head.ptr)
                                <=> m # s[1] /\ \A d \in Consumers : pc[d] = "free" => m # local[d].head.ptr
        BY <1>1, <1>4, <1>7, <3>1 DEF l
      <3>3. QED
        BY <1>1, <1>4, <1>5, <3>2 DEF Live
    <2>3. /\ Sent' = Sent /\ Out' = Out \cup {made[s[2]]}
          /\ \A i \in DOMAIN delivered' : \/ i \in DOMAIN delivered /\ delivered'[i] = delivered[i]
                                          \/ i = Len(delivered) + 1 /\ delivered'[i] = made[s[2]]
      <3>1. Sent' = Sent
        BY <1>1 DEF Sent
      <3>2. /\ DOMAIN delivered = 1..Len(delivered) /\ Len(delivered) \in Nat
            /\ DOMAIN delivered' = 1..(Len(delivered) + 1)
            /\ \A i \in 1..Len(delivered) : delivered'[i] = delivered[i]
            /\ delivered'[Len(delivered) + 1] = made[s[2]]
        BY <1>1, <1>2, <2>1
      <3>3. \A i \in 1..(Len(delivered) + 1) : i \in 1..Len(delivered) \/ i = Len(delivered) + 1
        BY <3>2
      <3>4. Len(delivered) + 1 \in 1..(Len(delivered) + 1) /\ \A i \in 1..Len(delivered) : i \in 1..(Len(delivered) + 1)
        BY <3>2
      <3>5. Out' = Out \cup {made[s[2]]}
        BY <3>2, <3>3, <3>4 DEF Out
      <3>6. ASSUME NEW i \in DOMAIN delivered'
            PROVE  \/ i \in DOMAIN delivered /\ delivered'[i] = delivered[i]
                   \/ i = Len(delivered) + 1 /\ delivered'[i] = made[s[2]]
        <4>1. i \in 1..Len(delivered) \/ i = Len(delivered) + 1
          BY <3>2, <3>3
        <4>2. QED
          BY <3>2, <4>1
      <3>7. QED
        BY <3>1, <3>5, <3>6
    <2>4. /\ \A m \in Live : made[m] \in Sent \ Out
          /\ \A m, k \in Live : made[m] = made[k] => m = k
          /\ \A i \in Sent \ Out : \E m \in Live : made[m] = i
          /\ \A m \in Live : \/ data[m] = made[m]
                             \/ Moves /\ m = next[head.ptr].ptr /\ \E d \in Consumers : pc[d] = "swap"
          /\ Out \subseteq Sent
          /\ \A i, j \in DOMAIN delivered : delivered[i] = delivered[j] => i = j
      BY <1>2, <1>20, Parts DEF ItemInv
    <2>5. \A i \in DOMAIN delivered : delivered[i] \in Out
      BY DEF Out
    <2>6. \A i, j \in DOMAIN delivered' : delivered'[i] = delivered'[j] => i = j
      BY <2>1, <2>3, <2>4, <2>5
    <2>7. Out' \subseteq Sent' /\ \A m \in Live' : made'[m] \in Sent' \ Out'
      BY <1>1, <2>1, <2>2, <2>3, <2>4
    <2>8. \A i \in Sent' \ Out' : \E m \in Live' : made'[m] = i
      BY <1>1, <2>1, <2>2, <2>3, <2>4
    <2>9. \A m \in Live' : data'[m] = made'[m]
      BY <1>1, <1>4, <2>2, <2>4
    <2>10. ASSUME NEW d \in Consumers
           PROVE  ~(pc'[d] = "swap" /\ head' = local'[d].head)
      <3>1. CASE d = c
        BY <1>7, <3>1
      <3>2. CASE d # c /\ pc[d] = "swap"
        <4>1. Follows(local[d].head, head) /\ local[d].head.tag \in Nat
          BY <2>10, <3>2, Parts, LocalTypes, HandleTypes DEF ConsumerOK, Reading
        <4>2. QED
          BY <1>2, <1>5, <1>7, <4>1 DEF Follows
      <3>3. CASE d # c /\ pc[d] # "swap"
        BY <1>2, <1>7, <3>3
      <3>4. QED
        BY <3>1, <3>2, <3>3
    <2>11. \A m, k \in Live' : made'[m] = made'[k] => m = k
      BY <1>1, <2>2, <2>4
    <2>12. QED
      BY <2>6, <2>7, <2>8, <2>9, <2>10, <2>11 DEF ItemInv
  <1>21. ItemInv'
    BY <1>20 DEF ItemInv, Plain
  <1>22. QED
    BY <1>8, <1>19, <1>21 DEF QueueInv, u

-----------------------------------------------------------------------------
(* A link that succeeds *)

\* It has found the end of the list, or of what another producer is to link.
LEMMA LinkRule ==
  ASSUME NEW s, NEW w, QueueInv(s, w), NEW p \in Producers, Link(p), next[local[p].tail.ptr] = local[p].next,
         NEW last, last = local[p].tail.ptr
  PROVE  /\ pc[p] = "link" /\ ~destroyed /\ Goes(p, "swing", local[p]) /\ "swing" \in Places /\ local[p] \in Locals
         /\ pc' \in [Threads -> Places] /\ local' = local /\ pc'[p] = "swing"
         /\ \A t \in Threads : t # p => pc'[t] = pc[t]
         /\ UNCHANGED <<head, tail, data, free, destroyed, history>>
         /\ last \in Nodes /\ next[last] = Nil /\ next' \in [Nodes -> Handles]
         /\ next'[last].ptr = local[p].node /\ \A m \in Nodes : m # last => next'[m] = next[m]
         /\ Run(next, w[p], local[p].node) /\ local[p].node \in Nodes
         /\ last \notin free /\ \A c \in Consumers : pc[c] = "free" => last # local[c].head.ptr
         /\ last \notin Linked(w[p])
         /\ last \in Linked(s) \/ \E q \in Producers : q # p /\ last \in Linked(w[q])
  <1>1. pc[p] = "link"
    BY DEF Link, Goto
  <1>2. pc' = [pc EXCEPT ![p] = "swing"] /\ next' = [next EXCEPT ![last] = Handle(local[p].node, local[p].next.tag + 1)]
        /\ UNCHANGED <<head, tail, data, free, destroyed, local, history>>
    BY DEF Link, Goto
  <1>3. /\ TypeOK /\ p \in Threads /\ p \notin Consumers /\ local[p] \in Locals /\ ProducerOK(p) /\ ~destroyed
        /\ local' = [local EXCEPT ![p] = local[p]] /\ next \in [Nodes -> Handles]
        /\ Null \notin Nodes /\ Null # Junk /\ Nil.ptr = Null
    BY <1>1, <1>2, Parts, Types, HandleTypes
  <1>4. last \in Nodes /\ next[last] = Nil /\ local[p].next = Nil
    BY <1>1, <1>3 DEF ProducerOK, Waiting
  <1>5. Run(next, w[p], local[p].node) /\ local[p].node \in Nodes
    <2>1. Run(next, w[p], local[p].node)
      BY <1>1, SideRule DEF Making
    <2>2. QED
      BY <2>1, RunRule
  <1>6. Handle(local[p].node, local[p].next.tag + 1) \in Handles
        /\ Handle(local[p].node, local[p].next.tag + 1).ptr = local[p].node
    <2>1. local[p].next.tag + 1 \in Nat /\ local[p].node \in Pointers
      BY <1>3, <1>5, LocalTypes, HandleTypes DEF Pointers
    <2>2. QED
      BY <2>1, HandleTypes
  <1>7. /\ next' \in [Nodes -> Handles] /\ next'[last].ptr = local[p].node
        /\ \A m \in Nodes : m # last => next'[m] = next[m]
    BY <1>2, <1>3, <1>4, <1>6
  <1>8. Goes(p, "swing", local[p]) /\ "swing" \in Places
    BY <1>2, <1>3 DEF Goes, Places, history
  <1>9. /\ pc' \in [Threads -> Places] /\ pc'[p] = "swing"
        /\ \A t \in Threads : t # p => pc'[t] = pc[t]
    BY <1>3, <1>8, GoesRule
  <1>10. last \notin free
    BY <1>3, <1>4, PlaceRule
  <1>11. \A c \in Consumers : pc[c] = "free" => last # local[c].head.ptr
    BY <1>3, <1>4, Parts DEF ConsumerOK
  <1>12. last \notin Linked(w[p])
    <2>1. SUFFICES ASSUME last \in Linked(w[p]) PROVE FALSE
      OBVIOUS
    <2>2. local[p].tail.tag < Stamp(p) /\ Stamp(p) = local[p].tail.tag
      BY <1>1, <2>1, Parts DEF WaitInv, Waiting, Stamp
    <2>3. local[p].tail.tag \in Nat
      BY <1>3, LocalTypes, HandleTypes
    <2>4. QED
      BY <2>2, <2>3
  <1>13. last \in Linked(s) \/ \E q \in Producers : q # p /\ last \in Linked(w[q])
    <2>1. last \in Linked(s) \/ \E t \in Threads : last \in Held(t, w)
      BY <1>3, <1>4, <1>10, PlaceRule
    <2>2. \A c \in Consumers : last \notin Held(c, w)
      BY <1>3, <1>11, PlaceRule
    <2>3. QED
      BY <1>3, <1>12, <2>1, <2>2, PlaceRule
  <1>14. QED
    BY <1>1, <1>2, <1>3, <1>4, <1>5, <1>7, <1>8, <1>9, <1>10, <1>11, <1>12, <1>13

\* What is left to show when the lists after it are u and v.
LEMMA LinkKeeps ==
  ASSUME NEW s, NEW w, QueueInv(s, w), NEW p \in Producers, Link(p), next[local[p].tail.ptr] = local[p].next,
         NEW u, NEW v, IsList(u)', SidesInv(v)', PlaceInv(u, v)', tail.ptr \in Linked(u), WaitInv(v)',
         Len(s) > 1 => Len(u) > 1 /\ u[2] = s[2]
  PROVE  QueueInv(u, v)'
  <1> DEFINE last == local[p].tail.ptr
  <1>1. /\ pc[p] = "link" /\ ~destroyed /\ Goes(p, "swing", local[p]) /\ "swing" \in Places /\ local[p] \in Locals
        /\ pc' \in [Threads -> Places] /\ local' = local /\ pc'[p] = "swing"
        /\ \A t \in Threads : t # p => pc'[t] = pc[t]
        /\ UNCHANGED <<head, tail, data, free, destroyed, history>>
        /\ last \in Nodes /\ next[last] = Nil /\ next' \in [Nodes -> Handles]
        /\ next'[last].ptr = local[p].node /\ \A m \in Nodes : m # last => next'[m] = next[m]
        /\ local[p].node \in Nodes
        /\ \A c \in Consumers : pc[c] = "free" => last # local[c].head.ptr
    BY LinkRule
  <1> HIDE DEF last
  <1>2. /\ TypeOK /\ p \in Threads /\ p \notin Consumers /\ ProducerOK(p) /\ Nil.ptr = Null /\ Null \notin Nodes
        /\ head \in Handles /\ tail \in Handles /\ head.ptr \in Nodes /\ tail.ptr \in Nodes
        /\ Consumers \subseteq Threads
    BY Parts, Types, HandleTypes
  <1>3. TypeOK'
    BY <1>1, <1>2 DEF TypeOK, history
  <1>4. \A m \in Nodes : next[m].ptr # Null => next'[m] = next[m]
    BY <1>1, <1>2
  <1>5. Keeps(p, s, u)
    <2>1. next[tail.ptr].ptr \in Nodes => next'[tail.ptr].ptr = next[tail.ptr].ptr
      BY <1>2, <1>4
    <2>2. ASSUME NEW c \in Consumers, pc[c] = "free"
          PROVE  next'[local[c].head.ptr].ptr # Null
      <3>1. local[c].head.ptr \in Nodes /\ next[local[c].head.ptr].ptr # Null
        BY <2>2, Parts DEF ConsumerOK
      <3>2. QED
        BY <1>4, <3>1
    <2>3. QED
      BY <1>1, <1>2, <2>1, <2>2 DEF Keeps
  <1>6. ProducerOK(p)'
    <2>1. local[p].tail.ptr \in Nodes /\ Follows(local[p].tail, tail)
      BY <1>1, <1>2 DEF ProducerOK, Waiting
    <2>2. tail = local[p].tail => next'[tail.ptr].ptr = local[p].node
      BY <1>1 DEF last
    <2>3. QED
      BY <1>1, <2>1, <2>2 DEF ProducerOK, Making, Waiting
  <1>7. /\ \A q \in Producers : ProducerOK(q)'
        /\ \A c \in Consumers : ConsumerOK(c, u)' /\ LackedOK(c)' /\ AloneOK(c)'
    <2>1. /\ \A q \in Producers : q # p => ProducerOK(q)'
          /\ \A c \in Consumers : c # p => ConsumerOK(c, u)' /\ LackedOK(c)' /\ AloneOK(c)'
      BY <1>1, <1>2, <1>5, OthersRule
    <2>2. QED
      BY <1>2, <1>6, <2>1
  <1>8. ListInv(u, v)'
    BY <1>1, <1>7 DEF ListInv, Linked
  <1>9. ASSUME Plain
        PROVE  ItemInv'
    <2>1. \A c \in Consumers : pc'[c] = pc[c] /\ local'[c] = local[c]
      BY <1>1, <1>2
    <2>2. Live' = Live /\ Sent' = Sent /\ Out' = Out
      BY <1>1, <2>1 DEF Live, Sent, Out, history
    <2>3. /\ \A m \in Live : made[m] \in Sent \ Out
          /\ \A m, k \in Live : made[m] = made[k] => m = k
          /\ \A i \in Sent \ Out : \E m \in Live : made[m] = i
          /\ \A m \in Live : \/ data[m] = made[m]
                             \/ Moves /\ m = next[head.ptr].ptr /\ \E c \in Consumers : pc[c] = "swap"
          /\ Out \subseteq Sent
          /\ \A i, j \in DOMAIN delivered : delivered[i] = delivered[j] => i = j
          /\ \A c \in Consumers : pc[c] = "swap" /\ head = local[c].head => local[c].value = made[next[head.ptr].ptr]
      BY <1>1, <1>9, Parts DEF ItemInv
    <2>4. \A m \in Live : m \in Nodes
      BY DEF Live
    <2>5. /\ head' = head /\ data' = data /\ made' = made /\ delivered' = delivered
          /\ next[head.ptr].ptr \in Nodes => next'[head'.ptr].ptr = next[head.ptr].ptr
      BY <1>1, <1>2, <1>4 DEF history
    <2>6. \A m \in Live' : \/ data'[m] = made'[m]
                           \/ Moves /\ m = next'[head'.ptr].ptr /\ \E c \in Consumers : pc'[c] = "swap"
      BY <2>1, <2>2, <2>3, <2>4, <2>5
    <2>7. ASSUME NEW c \in Consumers, pc'[c] = "swap", head' = local'[c].head
          PROVE  local'[c].value = made'[next'[head'.ptr].ptr]
      <3>1. pc[c] = "swap" /\ head = local[c].head
        BY <2>1, <2>5, <2>7
      <3>2. Len(s) > 1
        BY <3>1, Parts DEF ConsumerOK
      <3>3. next[head.ptr].ptr \in Nodes
        <4>1. /\ Len(s) \in Nat /\ s[1] = head.ptr /\ \A i \in 1..(Len(s) - 1) : next[s[i]].ptr = s[i + 1]
              /\ \A i \in 1..Len(s) : s[i] \in Nodes
          BY Parts, ListRule
        <4>2. 1 \in 1..(Len(s) - 1) /\ 2 \in 1..Len(s)
          BY <3>2, <4>1
        <4>3. QED
          BY <4>1, <4>2
      <3>4. QED
        BY <2>1, <2>3, <2>5, <3>1, <3>3
    <2>8. QED
      BY <2>2, <2>3, <2>5, <2>6, <2>7 DEF ItemInv
  <1>10. ItemInv'
    BY <1>9 DEF ItemInv, Plain
  <1>11. QED
    BY <1>3, <1>8, <1>10 DEF QueueInv

\* At the end of the list the nodes join the queue.
LEMMA LinkToList ==
  ASSUME NEW s, NEW w, QueueInv(s, w), NEW p \in Producers, Link(p), next[local[p].tail.ptr] = local[p].next,
         local[p].tail.ptr \in Linked(s)
  PROVE  QueueInv(s \o w[p], [w EXCEPT ![p] = <<>>])'
  <1> DEFINE last == local[p].tail.ptr
             u == s \o w[p]
             v == [w EXCEPT ![p] = <<>>]
  <1>1. /\ pc[p] = "link" /\ ~destroyed
        /\ local' = local /\ pc'[p] = "swing"
        /\ \A t \in Threads : t # p => pc'[t] = pc[t]
        /\ UNCHANGED <<head, tail, data, free, destroyed, history>>
        /\ last \in Nodes /\ next[last] = Nil
        /\ next'[last].ptr = local[p].node /\ \A m \in Nodes : m # last => next'[m] = next[m]
        /\ Run(next, w[p], local[p].node) /\ last \notin free /\ last \notin Linked(w[p])
    BY LinkRule
  <1>2. /\ p \in Threads /\ p \notin Consumers /\ Nil.ptr = Null /\ Null \notin Nodes
        /\ Producers \subseteq Threads /\ Run(next, s, head.ptr) /\ last \in Linked(s)
        /\ w \in [Producers -> Seq(Nodes)] /\ <<>> \in Seq(Nodes)
    BY Parts, Types, HandleTypes, SideRule DEF IsList
  <1> HIDE DEF last
  <1>3. last = s[Len(s)]
    BY <1>1, <1>2, EndRule
  <1>4. Linked(s) \cap Linked(w[p]) = {}
    BY <1>1, <1>2, PlaceRule
  <1>5. /\ Run(next', u, head.ptr) /\ Linked(u) = Linked(s) \cup Linked(w[p]) /\ Len(u) = Len(s) + Len(w[p])
        /\ \A i \in 1..Len(s) : u[i] = s[i]
    <2>1. /\ next'[s[Len(s)]].ptr = local[p].node /\ \A m \in Nodes : m # s[Len(s)] => next'[m] = next[m]
          /\ Run(next, s, head.ptr) /\ Run(next, w[p], local[p].node) /\ Linked(s) \cap Linked(w[p]) = {}
      BY <1>1, <1>2, <1>3, <1>4
    <2> HIDE DEF u
    <2>2. Joined(u, s, w[p])
      BY <1>1, <1>2, JoinedRule, RunRule DEF u
    <2>3. QED
      BY <2>1, <2>2, RunJoin
  <1>6. v \in [Producers -> Seq(Nodes)] /\ v[p] = <<>> /\ Linked(v[p]) = {} /\ \A q \in Producers : q # p => v[q] = w[q]
    BY <1>2, LinkedNone
  <1> HIDE DEF u, v
  <1>7. IsList(u)'
    BY <1>1, <1>5 DEF IsList
  <1>8. SidesInv(v)'
    <2>1. ASSUME NEW q \in Producers, q # p
          PROVE  IF pc'[q] \in Making THEN Run(next', v[q], local'[q].node) ELSE v[q] = <<>>
      <3>1. v[q] = w[q] /\ pc'[q] = pc[q] /\ local'[q] = local[q] /\ q \in Threads
        BY <1>1, <1>2, <1>6, <2>1
      <3>2. \A m \in Linked(w[q]) : next'[m] = next[m]
        BY <1>1, <1>2, <3>1, PlaceRule
      <3>3. pc[q] \in Making => Run(next', w[q], local[q].node)
        BY <3>2, SideRule, RunFrame
      <3>4. QED
        BY <3>1, <3>3, SideRule
    <2>2. QED
      BY <1>1, <1>6, <2>1 DEF SidesInv, Making
  <1>9. Held(p, v)' = {} /\ Held(p, w) = Linked(w[p]) /\ \A t \in Threads : t # p => Held(t, v)' = Held(t, w)
    BY <1>1, <1>2, <1>6 DEF Held
  <1>10. PlaceInv(u, v)'
    <2>1. \A t, x \in Threads : t # x => Held(t, v)' \cap Held(x, v)' = {}
      BY <1>1, <1>9, PlaceRule
    <2>2. \A t \in Threads : Held(t, v)' \cap (Linked(u) \cup free') = {}
      BY <1>1, <1>2, <1>5, <1>9, PlaceRule
    <2>3. Linked(u) \cap free' = {}
      BY <1>1, <1>2, <1>5, <1>9, PlaceRule
    <2>4. \A m \in Nodes : m \in Linked(u) \cup free' \/ \E t \in Threads : m \in Held(t, v)'
      <3>1. ASSUME NEW m \in Nodes
            PROVE  m \in Linked(s) \cup free \/ \E t \in Threads : m \in Held(t, w)
        BY <1>1, PlaceRule
      <3>2. QED
        BY <1>1, <1>5, <1>9, <3>1
    <2>5. \A m \in free' : next'[m].ptr = Junk
      BY <1>1, PlaceRule
    <2>6. QED
      BY <1>1, <2>1, <2>2, <2>3, <2>4, <2>5 DEF PlaceInv, Linked
  <1>11. WaitInv(v)'
    <2>1. ASSUME NEW a \in Producers, NEW b \in Producers, pc'[a] \in Waiting, local'[a].tail.ptr \in Linked(v[b])
          PROVE  local'[a].tail.tag < Stamp(b)'
      <3>1. a # p /\ pc'[a] = pc[a] /\ local'[a] = local[a] /\ b # p
        BY <1>1, <1>2, <1>6, <2>1 DEF Waiting
      <3>2. Stamp(b)' = Stamp(b) /\ v[b] = w[b]
        BY <1>1, <1>2, <1>6, <3>1 DEF Stamp
      <3>3. QED
        BY <2>1, <3>1, <3>2, Parts DEF WaitInv
    <2>2. QED
      BY <2>1 DEF WaitInv
  <1>12. tail.ptr \in Linked(u)
    BY <1>5, Parts
  <1>13. Len(s) > 1 => Len(u) > 1 /\ u[2] = s[2]
    <2>1. Len(s) \in Nat /\ Len(w[p]) \in Nat
      BY <1>1, <1>2, RunRule
    <2>2. QED
      BY <1>5, <2>1
  <1>14. QED
    BY <1>7, <1>8, <1>10, <1>11, <1>12, <1>13, LinkKeeps DEF u, v

\* A delayed link that finds a recycled node puts its own behind that one, for the
\* producer that has it.
LEMMA LinkToSide ==
  ASSUME NEW s, NEW w, QueueInv(s, w), NEW p \in Producers, Link(p), next[local[p].tail.ptr] = local[p].next,
         NEW q \in Producers, q # p, local[p].tail.ptr \in Linked(w[q])
  PROVE  QueueInv(s, [w EXCEPT ![p] = <<>>, ![q] = w[q] \o w[p]])'
  <1> DEFINE last == local[p].tail.ptr
             x == w[q] \o w[p]
             v == [w EXCEPT ![p] = <<>>, ![q] = x]
  <1>1. /\ pc[p] = "link" /\ ~destroyed
        /\ local' = local /\ pc'[p] = "swing"
        /\ \A t \in Threads : t # p => pc'[t] = pc[t]
        /\ UNCHANGED <<head, tail, data, free, destroyed, history>>
        /\ last \in Nodes /\ next[last] = Nil
        /\ next'[last].ptr = local[p].node /\ \A m \in Nodes : m # last => next'[m] = next[m]
        /\ Run(next, w[p], local[p].node) /\ last \notin free /\ last \notin Linked(w[p])
    BY LinkRule
  <1>2. /\ p \in Threads /\ p \notin Consumers /\ Nil.ptr = Null /\ Null \notin Nodes
        /\ Producers \subseteq Threads /\ q \in Threads /\ last \in Linked(w[q])
        /\ w \in [Producers -> Seq(Nodes)] /\ <<>> \in Seq(Nodes)
    BY Parts, Types, HandleTypes, SideRule
  <1> HIDE DEF last
  <1>3. pc[q] \in Making /\ Run(next, w[q], local[q].node)
    BY <1>2, SideRule
  <1>4. last = w[q][Len(w[q])]
    BY <1>1, <1>2, <1>3, EndRule
  <1>5. Linked(w[q]) \cap Linked(w[p]) = {} /\ last \notin Linked(s)
    BY <1>1, <1>2, PlaceRule
  <1>6. Run(next', x, local[q].node) /\ Linked(x) = Linked(w[q]) \cup Linked(w[p])
    <2> DEFINE z == w[q]
    <2>1. /\ next'[z[Len(z)]].ptr = local[p].node /\ \A m \in Nodes : m # z[Len(z)] => next'[m] = next[m]
          /\ Run(next, z, local[q].node) /\ Linked(z) \cap Linked(w[p]) = {}
      BY <1>1, <1>3, <1>4, <1>5
    <2> HIDE DEF z, x
    <2>2. Joined(x, z, w[p])
      BY <1>1, <2>1, JoinedRule, RunRule DEF x, z
    <2>3. Run(next', x, local[q].node) /\ Linked(x) = Linked(z) \cup Linked(w[p])
      BY <1>1, <2>1, <2>2, RunJoin
    <2>4. QED
      BY <2>3 DEF z
  <1>7. /\ v \in [Producers -> Seq(Nodes)] /\ v[p] = <<>> /\ Linked(v[p]) = {} /\ v[q] = x
        /\ \A r \in Producers : r # p /\ r # q => v[r] = w[r]
    <2>1. x \in Seq(Nodes)
      BY <1>6, RunRule
    <2> HIDE DEF x
    <2>2. QED
      BY <1>2, <2>1, LinkedNone
  <1> HIDE DEF x, v
  <1>8. IsList(s)'
    <2>1. \A m \in Linked(s) : next'[m] = next[m]
      BY <1>1, <1>5, PlaceRule
    <2>2. QED
      BY <1>1, <2>1, Parts, RunFrame DEF IsList
  <1>9. SidesInv(v)'
    <2>1. ASSUME NEW r \in Producers, r # p, r # q
          PROVE  IF pc'[r] \in Making THEN Run(next', v[r], local'[r].node) ELSE v[r] = <<>>
      <3>1. v[r] = w[r] /\ pc'[r] = pc[r] /\ local'[r] = local[r] /\ r \in Threads
        BY <1>1, <1>2, <1>7, <2>1
      <3>2. \A m \in Linked(w[r]) : next'[m] = next[m]
        BY <1>1, <1>2, <2>1, <3>1, PlaceRule
      <3>3. pc[r] \in Making => Run(next', w[r], local[r].node)
        BY <3>2, SideRule, RunFrame
      <3>4. QED
        BY <3>1, <3>3, SideRule
    <2>2. pc'[q] \in Making /\ Run(next', v[q], local'[q].node)
      BY <1>1, <1>2, <1>3, <1>6, <1>7
    <2>3. pc'[p] \notin Making
      BY <1>1 DEF Making
    <2>4. QED
      BY <1>7, <2>1, <2>2, <2>3 DEF SidesInv
  <1>10. /\ Held(p, v)' = {} /\ Held(p, w) = Linked(w[p]) /\ Held(q, w) = Linked(w[q])
         /\ Held(q, v)' = Held(q, w) \cup Held(p, w)
         /\ \A t \in Threads : t # p /\ t # q => Held(t, v)' = Held(t, w)
    BY <1>1, <1>2, <1>6, <1>7 DEF Held
  <1>11. PlaceInv(s, v)'
    <2>1. \A t, y \in Threads : t # y => Held(t, v)' \cap Held(y, v)' = {}
      <3>1. \A t \in Threads :
              Held(t, v)' \subseteq
                IF t = q THEN Held(q, w) \cup Held(p, w) ELSE IF t = p THEN {} ELSE Held(t, w)
        BY <1>10
      <3>2. \A t, y \in Threads : t # y => Held(t, w) \cap Held(y, w) = {}
        BY <1>1, PlaceRule
      <3>3. QED
        BY <1>2, <3>1, <3>2
    <2>2. \A t \in Threads : Held(t, v)' \cap (Linked(s) \cup free') = {}
      BY <1>1, <1>2, <1>10, PlaceRule
    <2>3. Linked(s) \cap free' = {}
      BY <1>1, PlaceRule
    <2>4. \A m \in Nodes : m \in Linked(s) \cup free' \/ \E t \in Threads : m \in Held(t, v)'
      BY <1>1, <1>2, <1>10, PlaceRule
    <2>5. \A m \in free' : next'[m].ptr = Junk
      BY <1>1, PlaceRule
    <2>6. QED
      BY <1>1, <2>1, <2>2, <2>3, <2>4, <2>5 DEF PlaceInv, Linked
  <1>12. WaitInv(v)'
    <2>1. ASSUME NEW a \in Producers, NEW b \in Producers, pc'[a] \in Waiting, local'[a].tail.ptr \in Linked(v[b])
          PROVE  local'[a].tail.tag < Stamp(b)'
      <3>1. a # p /\ pc'[a] = pc[a] /\ local'[a] = local[a] /\ b # p
        BY <1>1, <1>2, <1>7, <2>1 DEF Waiting
      <3>2. Stamp(b)' = Stamp(b)
        BY <1>1, <1>2, <3>1 DEF Stamp
      <3>3. CASE local[a].tail.ptr \in Linked(w[b])
        BY <2>1, <3>1, <3>2, <3>3, Parts DEF WaitInv
      <3>4. CASE b = q /\ local[a].tail.ptr \in Linked(w[p])
        <4>1. local[a].tail.tag < Stamp(p) /\ Stamp(p) = local[p].tail.tag
          BY <1>1, <2>1, <3>1, <3>4, Parts DEF WaitInv, Stamp, Waiting
        <4>2. local[p].tail.tag < Stamp(q)
          BY <1>1, <1>2, Parts DEF WaitInv, Waiting, last
        <4>3. local[a].tail.tag \in Nat /\ local[p].tail.tag \in Nat /\ local[q].tail.tag \in Nat /\ tail.tag \in Nat
          BY Parts, Types, LocalTypes, HandleTypes
        <4>4. Stamp(q) \in Nat
          BY <4>3 DEF Stamp
        <4>5. QED
          BY <3>1, <3>2, <3>4, <4>1, <4>2, <4>3, <4>4
      <3>5. QED
        BY <1>6, <1>7, <2>1, <3>1, <3>3, <3>4
    <2>2. QED
      BY <2>1 DEF WaitInv
  <1>13. tail.ptr \in Linked(s)
    BY Parts
  <1>14. QED
    BY <1>8, <1>9, <1>11, <1>12, <1>13, LinkKeeps DEF v, x


-----------------------------------------------------------------------------
(* The inductive invariant *)

\* The destructor walks to the tail, so it stays in the list.
LEMMA DestroyStep ==
  ASSUME NEW s, NEW w, QueueInv(s, w), Destroy
  PROVE  QueueInv(s, w)'
  <1>1. /\ ~destroyed /\ destroyed' /\ destroyed' \in BOOLEAN /\ \A t \in Threads : pc[t] = "idle"
        /\ free' = free \cup {Chain[i] : i \in 0..Len(Queued)}
        /\ UNCHANGED <<head, tail, next, data, pc, local, history>>
    BY DEF Destroy
  <1>2. /\ TypeOK /\ IsList(s) /\ SidesInv(w) /\ tail.ptr \in Linked(s) /\ WaitInv(w) /\ ItemInv
        /\ Producers \subseteq Threads /\ Consumers \subseteq Threads
        /\ free \subseteq Nodes
    BY Parts, Types
  <1>3. free' \subseteq Nodes
    <2>1. PICK k \in 1..Len(s) : tail.ptr = s[k]
      BY <1>2, ListRule
    <2>2. Len(Queued) = k - 1 /\ Len(s) \in Nat /\ \A i \in 1..Len(s) : s[i] \in Nodes
      BY <1>2, <2>1, QueuedRule, ListRule
    <2>3. Cardinality(Nodes) \in Nat /\ Len(s) <= Cardinality(Nodes)
      BY <1>2, ListFits
    <2>4. \A i \in 0..Cardinality(Nodes) : Chain[i] = IF i < Len(s) THEN s[i + 1] ELSE Null
      BY <1>2, ChainRule
    <2>5. \A i \in 0..Len(Queued) : i \in 0..Cardinality(Nodes) /\ i < Len(s) /\ i + 1 \in 1..Len(s)
      BY <2>1, <2>2, <2>3
    <2>6. \A i \in 0..Len(Queued) : Chain[i] \in Nodes
      BY <2>2, <2>4, <2>5
    <2>7. QED
      BY <1>1, <1>2, <2>6
  <1>4. TypeOK' /\ IsList(s)' /\ SidesInv(w)' /\ tail'.ptr \in Linked(s)
    BY <1>1, <1>2, <1>3 DEF TypeOK, IsList, SidesInv, history
  <1>5. PlaceInv(s, w)'
    BY <1>1 DEF PlaceInv
  <1>6. WaitInv(w)' /\ \A p \in Producers : ProducerOK(p)'
    BY <1>1, <1>2 DEF WaitInv, Stamp, ProducerOK, Waiting, Making
  <1>7. \A c \in Consumers : ConsumerOK(c, s)' /\ LackedOK(c)' /\ AloneOK(c)'
    BY <1>1, <1>2 DEF ConsumerOK, LackedOK, AloneOK, Reading, Asking, history
  <1>8. ItemInv'
    BY <1>1, <1>2 DEF ItemInv, Out, Sent, history
  <1>9. (tail.ptr \in Linked(s))'
    BY <1>4 DEF Linked
  <1>10. QED
    BY <1>4, <1>5, <1>6, <1>7, <1>8, <1>9 DEF QueueInv, ListInv

LEMMA StutterStep ==
  ASSUME NEW s, NEW w, QueueInv(s, w), UNCHANGED vars
  PROVE  QueueInv(s, w)'
  <1>1. UNCHANGED <<head, tail, next, data, free, destroyed, pc, local, made, sent, delivered, lacked>>
    BY DEF vars, shared, history
  <1>2. TypeOK' /\ IsList(s)' /\ SidesInv(w)' /\ (tail.ptr \in Linked(s))' /\ WaitInv(w)'
    BY <1>1, Parts DEF TypeOK, IsList, SidesInv, Linked, WaitInv, Stamp
  <1>3. PlaceInv(s, w)'
    <2>1. \A t : Held(t, w)' = Held(t, w)
      BY <1>1 DEF Held
    <2>2. QED
      BY <1>1, <2>1, Parts DEF PlaceInv
  <1>4. /\ \A p \in Producers : ProducerOK(p)'
        /\ \A c \in Consumers : ConsumerOK(c, s)' /\ LackedOK(c)' /\ AloneOK(c)'
    BY <1>1, Parts DEF ProducerOK, ConsumerOK, LackedOK, AloneOK, Follows
  <1>5. ItemInv'
    <2>1. Live' = Live /\ Sent' = Sent /\ Out' = Out
      BY <1>1 DEF Live, Sent, Out
    <2>2. QED
      BY <1>1, <2>1, Parts DEF ItemInv
  <1>6. QED
    BY <1>2, <1>3, <1>4, <1>5 DEF QueueInv, ListInv

InList == \E s, w : QueueInv(s, w)

LEMMA InitInList == Init => InList
  <1> SUFFICES ASSUME Init PROVE InList
    OBVIOUS
  <1>1. PICK n \in Nodes :
          /\ head = Handle(n, 0) /\ tail = Handle(n, 0)
          /\ next = [m \in Nodes |-> IF m = n THEN Nil ELSE Handle(Junk, 0)]
          /\ free = Nodes \ {n}
    BY DEF Init
  <1>2. /\ data = [m \in Nodes |-> NoItem] /\ made = [m \in Nodes |-> NoItem]
        /\ destroyed = FALSE
        /\ pc = [t \in Threads |-> "idle"] /\ local = [t \in Threads |-> NoLocals]
        /\ sent = [p \in Producers |-> 0] /\ delivered = <<>> /\ lacked = {}
    BY DEF Init
  <1> DEFINE s == <<n>>
             w == [p \in Producers |-> <<>>]
  <1>3. Handle(n, 0) \in Handles /\ Handle(Junk, 0) \in Handles /\ Handle(n, 0).ptr = n /\ Nil \in Handles
        /\ Handle(Junk, 0).ptr = Junk /\ NoLocals \in Locals
    BY HandleTypes DEF Pointers
  <1>4. MaxItems \in Nat
    BY ConstantsAssumption DEF ConstantsAssumption
  <1>5. TypeOK
    <2>1. /\ head \in Handles /\ head.ptr \in Nodes /\ tail \in Handles /\ tail.ptr \in Nodes
          /\ next \in [Nodes -> Handles] /\ free \subseteq Nodes
      BY <1>1, <1>3
    <2>2. /\ data \in [Nodes -> Items \cup {NoItem}] /\ made \in [Nodes -> Items \cup {NoItem}]
          /\ destroyed \in BOOLEAN /\ pc \in [Threads -> Places] /\ local \in [Threads -> Locals]
          /\ lacked \subseteq Consumers
      BY <1>2, <1>3 DEF Places
    <2>3. sent \in [Producers -> 0..MaxItems]
      BY <1>2, <1>4
    <2>4. delivered \in Seq(Items \cup {NoItem})
      BY <1>2
    <2>5. QED
      BY <2>1, <2>2, <2>3, <2>4 DEF TypeOK
  <1>6. IsList(s) /\ Linked(s) = {n}
    <2>1. Run(next, s, n) /\ Linked(s) = {n}
      BY <1>1, RunOne
    <2>2. QED
      BY <1>1, <1>3, <2>1 DEF IsList
  <1> HIDE DEF s
  <1>7. Producers \subseteq Threads /\ Consumers \subseteq Threads
    BY DEF Threads
  <1>8. w \in [Producers -> Seq(Nodes)] /\ \A p \in Producers : w[p] = <<>> /\ Linked(w[p]) = {}
    BY LinkedNone
  <1> HIDE DEF w
  <1>9. SidesInv(w) /\ WaitInv(w)
    BY <1>2, <1>7, <1>8 DEF SidesInv, WaitInv, Making, Waiting
  <1>10. PlaceInv(s, w)
    <2>1. \A t \in Threads : Held(t, w) = {}
      BY <1>2, <1>8 DEF Held
    <2>2. QED
      BY <1>1, <1>2, <1>3, <1>6, <2>1 DEF PlaceInv
  <1>11. tail.ptr \in Linked(s)
    BY <1>1, <1>3, <1>6
  <1>12. /\ \A p \in Producers : ProducerOK(p)
         /\ \A c \in Consumers : ConsumerOK(c, s) /\ LackedOK(c) /\ AloneOK(c)
    BY <1>2, <1>7 DEF ProducerOK, ConsumerOK, LackedOK, AloneOK, Making, Waiting, Reading, Asking
  <1>13. ItemInv
    <2>1. DOMAIN delivered = {} /\ Out = {}
      BY <1>2 DEF Out
    <2>2. Sent = {}
      BY <1>2 DEF Sent, Items
    <2>3. Live = {}
      BY <1>1, <1>3 DEF Live
    <2>4. \A c \in Consumers : pc[c] # "swap"
      BY <1>2, <1>7
    <2>5. QED
      BY <2>1, <2>2, <2>3, <2>4 DEF ItemInv
  <1>14. QueueInv(s, w)
    BY <1>5, <1>6, <1>9, <1>10, <1>11, <1>12, <1>13 DEF QueueInv, ListInv
  <1>15. QED
    BY <1>14 DEF InList

\* A link that succeeds adds to the list, or to what another producer is about to link.
LEMMA LinkStep ==
  ASSUME NEW s, NEW w, QueueInv(s, w), NEW p \in Producers, Link(p)
  PROVE  \E u, v : QueueInv(u, v)'
  <1>1. CASE next[local[p].tail.ptr] # local[p].next
    BY <1>1, LinkFailsStep
  <1>2. CASE next[local[p].tail.ptr] = local[p].next
    <2>1. local[p].tail.ptr \in Linked(s) \/ \E q \in Producers : q # p /\ local[p].tail.ptr \in Linked(w[q])
      BY <1>2, LinkRule
    <2>2. CASE local[p].tail.ptr \in Linked(s)
      BY <1>2, <2>2, LinkToList
    <2>3. ASSUME NEW q \in Producers, q # p, local[p].tail.ptr \in Linked(w[q])
          PROVE  \E u, v : QueueInv(u, v)'
      BY <1>2, <2>3, LinkToSide
    <2>4. QED
      BY <2>1, <2>2, <2>3
  <1>3. QED
    BY <1>1, <1>2

\* Steps that make a node, link it or swap the head change the lists, no others do.
LEMMA QueueStep ==
  ASSUME NEW s, NEW w, QueueInv(s, w), [Next]_vars
  PROVE  \E u, v : QueueInv(u, v)'
  <1>1. ASSUME NEW p \in Producers, Allocate(p) \/ Enqueue(p)
        PROVE  \E u, v : QueueInv(u, v)'
    <2>1. CASE Allocate(p)
      BY <2>1, AllocateStep
    <2>2. CASE Link(p)
      BY <2>2, LinkStep
    <2>3. CASE Enqueue(p) /\ ~Link(p)
      BY <2>3, EnqueueLoadTailStep, EnqueueLoadNextStep, EnqueueCheckTailStep, SwingTailStep, EnqueueHelpStep
      DEF Enqueue
    <2>4. QED
      BY <1>1, <2>1, <2>2, <2>3
  <1>2. ASSUME NEW c \in Consumers, DequeueLoadHead(c) \/ Dequeue(c) \/ Empty(c)
        PROVE  \E u, v : QueueInv(u, v)'
    <2>1. CASE SwapHead(c)
      BY <2>1, SwapFailsStep, SwapSucceedsStep
    <2>2. CASE DequeueLoadHead(c) \/ Empty(c)
      BY <2>2, DequeueLoadHeadStep, EmptyStep
    <2>3. CASE Dequeue(c) /\ ~SwapHead(c)
      BY <2>3, DequeueLoadTailStep, DequeueLoadNextStep, DequeueCheckHeadStep, DequeueFailsStep, DequeueHelpStep,
         MoveValueStep, FreeStep DEF Dequeue
    <2>4. QED
      BY <1>2, <2>1, <2>2, <2>3
  <1>3. CASE Destroy
    BY <1>3, DestroyStep
  <1>4. CASE UNCHANGED vars
    BY <1>4, StutterStep
  <1>5. QED
    BY <1>1, <1>2, <1>3, <1>4 DEF Next

\* The list, what is about to be linked, and where the items are, in every state.
LEMMA QueueInvariant == Spec => []InList
  <1>1. InList /\ [Next]_vars => InList'
    BY QueueStep DEF InList
  <1>2. QED
    BY <1>1, InitInList, PTL DEF Spec

-----------------------------------------------------------------------------
(* Safety *)

\* Tags and comparisons protect the nodes: the queue links no node of the pool, and
\* what was read from a node given back is not used.
LEMMA Protected ==
  ASSUME InList
  PROVE  TypeOK /\ LinkedNotFree /\ ReadsValidated
  <1>1. PICK s, w : QueueInv(s, w)
    BY DEF InList
  <1>2. /\ TypeOK /\ IsList(s) /\ PlaceInv(s, w) /\ Null \notin Nodes
        /\ \A p \in Producers : ProducerOK(p)
        /\ \A c \in Consumers : ConsumerOK(c, s)
    BY <1>1, Parts, Types
  <1>3. /\ DOMAIN Chain = 0..Cardinality(Nodes)
        /\ \A i \in 0..Cardinality(Nodes) : Chain[i] = IF i < Len(s) THEN s[i + 1] ELSE Null
        /\ Cardinality(Nodes) \in Nat /\ Len(s) \in Nat \ {0} /\ Len(s) <= Cardinality(Nodes)
        /\ \A i \in 1..Len(s) : s[i] \in Linked(s)
    BY <1>2, ChainRule, ListFits, ListRule
  <1>4. LinkedNotFree
    <2>1. SUFFICES ASSUME ~destroyed, NEW i \in DOMAIN Chain, Chain[i] \in Nodes
                   PROVE  Chain[i] \notin free
      BY DEF LinkedNotFree
    <2>2. i \in 0..Cardinality(Nodes) /\ i < Len(s)
      BY <1>2, <1>3, <2>1
    <2>3. Chain[i] = s[i + 1] /\ i + 1 \in 1..Len(s)
      BY <1>3, <2>2
    <2>4. Chain[i] \in Linked(s)
      BY <1>3, <2>3
    <2>5. QED
      BY <1>2, <2>1, <2>4 DEF PlaceInv
  <1>5. ReadsValidated
    <2>1. \A p \in Producers : /\ pc[p] \notin {"move", "swap"}
                               /\ pc[p] = "help" => local[p].next.ptr \in Nodes
                               /\ pc[p] = "link" => local[p].next = Nil
      BY <1>2 DEF ProducerOK, Making
    <2>2. \A c \in Consumers : /\ pc[c] \in {"move", "swap", "help"} => local[c].next.ptr \in Nodes
                               /\ pc[c] # "link"
      BY <1>2 DEF ConsumerOK, Reading, Asking
    <2>3. QED
      BY <2>1, <2>2 DEF ReadsValidated, Threads
  <1>6. QED
    BY <1>2, <1>4, <1>5

\* However many threads enqueue, the queue links no node of the pool, and no thread
\* uses what it read from a node that was given back.
THEOREM SharedProtection == Spec => [](TypeOK /\ LinkedNotFree /\ ReadsValidated)
  <1>1. InList => TypeOK /\ LinkedNotFree /\ ReadsValidated
    BY Protected
  <1>2. QED
    BY <1>1, QueueInvariant, PTL

LEMMA Conserving ==
  ASSUME Plain, InList
  PROVE  ItemsConserved
  <1>1. PICK s, w : QueueInv(s, w)
    BY DEF InList
  <1>2. /\ TypeOK /\ IsList(s) /\ SidesInv(w) /\ PlaceInv(s, w) /\ ItemInv /\ Producers \subseteq Threads
        /\ Consumers \subseteq Threads /\ MaxItems \in Nat /\ sent \in [Producers -> 0..MaxItems]
    BY <1>1, Parts, Types
  <1>3. \A i, j \in DOMAIN delivered : delivered[i] = delivered[j] => i = j
    BY <1>2 DEF ItemInv
  <1>4. ASSUME \A t \in Threads : pc[t] = "idle", ~destroyed, NEW p \in Producers, NEW k \in 1..sent[p]
        PROVE  \/ <<p, k>> \in {delivered[i] : i \in DOMAIN delivered}
               \/ \E i \in DOMAIN Chain \ {0} : Chain[i] \in Nodes /\ data[Chain[i]] = <<p, k>>
    <2>1. <<p, k>> \in Sent
      BY <1>2, <1>4 DEF Sent, Items
    <2>2. CASE <<p, k>> \in Out
      BY <2>2 DEF Out
    <2>3. CASE <<p, k>> \notin Out
      <3>1. PICK n \in Live : made[n] = <<p, k>>
        BY <1>2, <1>4, <2>1, <2>3 DEF ItemInv
      <3>2. n \in Linked(s) /\ n # head.ptr
        <4>1. n # head.ptr /\ (n \in Linked(s) \/ \E q \in Producers : n \in Linked(w[q]))
          BY <1>1, <1>4, LiveRule
        <4>2. \A q \in Producers : Linked(w[q]) = {}
          BY <1>2, <1>4, LinkedNone DEF SidesInv, Making
        <4>3. QED
          BY <4>1, <4>2
      <3>3. PICK i \in 1..Len(s) : n = s[i]
        BY <1>2, <3>2, ListRule
      <3>4. data[n] = <<p, k>>
        <4>1. \A c \in Consumers : pc[c] # "swap"
          BY <1>2, <1>4
        <4>2. QED
          BY <1>2, <1>4, <3>1, <4>1 DEF ItemInv
      <3>5. i - 1 \in DOMAIN Chain \ {0} /\ Chain[i - 1] = n
        <4>1. /\ DOMAIN Chain = 0..Cardinality(Nodes)
              /\ \A m \in 0..Cardinality(Nodes) : Chain[m] = IF m < Len(s) THEN s[m + 1] ELSE Null
              /\ Cardinality(Nodes) \in Nat /\ Len(s) <= Cardinality(Nodes)
              /\ Len(s) \in Nat /\ s[1] = head.ptr
          BY <1>2, ChainRule, ListFits, ListRule
        <4>2. i # 1
          BY <3>2, <3>3, <4>1
        <4>3. i - 1 \in 0..Cardinality(Nodes) /\ i - 1 # 0 /\ i - 1 < Len(s) /\ (i - 1) + 1 = i
          BY <3>3, <4>1, <4>2
        <4>4. Chain[i - 1] = s[(i - 1) + 1]
          BY <4>1, <4>3
        <4>5. QED
          BY <3>3, <4>1, <4>3, <4>4
      <3>6. n \in Nodes
        BY <3>1 DEF Live
      <3>7. QED
        BY <3>4, <3>5, <3>6
    <2>4. QED
      BY <2>2, <2>3
  <1>5. QED
    BY <1>3, <1>4 DEF ItemsConserved

\* No item is lost or handed out twice, by however many threads: not if a value that
\* is moved from stays what it was, nor if there is one consumer.
THEOREM Conserved ==
  ASSUME Plain
  PROVE  Spec => []ItemsConserved
  <1>1. InList => ItemsConserved
    BY Conserving
  <1>2. QED
    BY <1>1, QueueInvariant, PTL

\* The only consumer gets true answers from empty().
THEOREM EmptyTruthful ==
  ASSUME \A c \in Askers : Consumers = {c}
  PROVE  Spec => []EmptyAnswers
  <1>1. InList => EmptyAnswers
    <2> SUFFICES ASSUME InList, NEW c \in Askers
                 PROVE  /\ pc[c] = "true" => c \in lacked
                        /\ pc[c] = "false" => Queued # <<>>
      BY DEF EmptyAnswers
    <2>1. PICK s, w : QueueInv(s, w)
      BY DEF InList
    <2>2. Consumers = {c} /\ AloneOK(c) /\ TypeOK /\ IsList(s) /\ tail.ptr \in Linked(s)
      BY <2>1, Parts
    <2>3. PICK k \in 1..Len(s) : tail.ptr = s[k]
      BY <2>2, ListRule
    <2>4. Queued = <<>> <=> head.ptr = tail.ptr
      BY <2>2, <2>3, QueuedRule
    <2>5. QED
      BY <2>2, <2>4 DEF AloneOK
  <1>2. QED
    BY <1>1, QueueInvariant, PTL

-----------------------------------------------------------------------------
(* One producer *)

OneProducer == \A p, q \in Producers : p = q

\* The tail is the end of the list, or one behind while its swing is to come.
TailInv(s) ==
  \/ tail.ptr = s[Len(s)]
  \/ /\ Len(s) > 1 /\ tail.ptr = s[Len(s) - 1]
     /\ \E p \in Producers : pc[p] = "swing" /\ tail = local[p].tail

\* The items are delivered in the order in which they were made.
OrderInv(s) ==
  /\ \A i \in 1..(Len(s) - 1) : \E p \in Producers : made[s[i + 1]] = <<p, Len(delivered) + i>>
  /\ \A p \in Producers :
       sent[p] = Len(delivered) + Len(s) - 1 + (IF pc[p] \in Making THEN 1 ELSE 0)
  /\ Plain => \A i \in 1..Len(delivered) : \E p \in Producers : delivered[i] = <<p, i>>

\* The tail stands still while the producer links a node: it never has to help.
LoneOK(p, s, w) ==
  /\ pc[p] # "help" /\ (pc[p] # "idle" => sent[p] # 0)
  /\ pc[p] \in Making => Len(w[p]) = 1 /\ made[local[p].node] = <<p, sent[p]>>
  /\ pc[p] \in Waiting => local[p].tail = tail
  /\ pc[p] = "checkTail" => local[p].next = Nil
  /\ pc[p] = "swing" => local[p].node = s[Len(s)] /\ made[s[Len(s)]] = <<p, sent[p]>>

OneInv(s, w) ==
  /\ QueueInv(s, w) /\ TailInv(s) /\ OrderInv(s) /\ (destroyed => free = Nodes)
  /\ \A p \in Producers : LoneOK(p, s, w)

LEMMA OneParts ==
  ASSUME OneProducer, NEW s, NEW w, OneInv(s, w)
  PROVE  /\ QueueInv(s, w) /\ TailInv(s) /\ OrderInv(s)
         /\ Len(s) \in Nat \ {0} /\ Len(s) \in 1..Len(s)
         /\ \A p \in Producers :
              /\ LoneOK(p, s, w) /\ ProducerOK(p) /\ p \in Threads /\ p \notin Consumers /\ sent[p] \in Nat
              /\ \A q \in Producers : q = p
         /\ \A c \in Consumers : c \in Threads /\ c \notin Producers
         /\ pc \in [Threads -> Places] /\ local \in [Threads -> Locals] /\ sent \in [Producers -> 0..MaxItems]
         /\ tail \in Handles /\ IsList(s) /\ delivered \in Seq(Items \cup {NoItem}) /\ Len(delivered) \in Nat
  <1>1. QueueInv(s, w) /\ TailInv(s) /\ OrderInv(s) /\ \A p \in Producers : LoneOK(p, s, w)
    BY DEF OneInv
  <1>2. /\ TypeOK /\ IsList(s)
        /\ \A p \in Producers : ProducerOK(p) /\ p \in Threads /\ p \notin Consumers
        /\ \A c \in Consumers : c \in Threads /\ c \notin Producers
    BY <1>1, Parts
  <1>3. /\ sent \in [Producers -> 0..MaxItems] /\ MaxItems \in Nat /\ tail \in Handles
        /\ pc \in [Threads -> Places] /\ local \in [Threads -> Locals] /\ delivered \in Seq(Items \cup {NoItem})
    BY <1>2, Types
  <1>4. Len(s) \in Nat \ {0} /\ Len(s) \in 1..Len(s)
    BY <1>2, ListRule
  <1>5. \A p \in Producers : sent[p] \in Nat /\ \A q \in Producers : q = p
    BY <1>3 DEF OneProducer
  <1>6. Len(delivered) \in Nat
    BY <1>3
  <1>7. QED
    BY <1>1, <1>2, <1>3, <1>4, <1>5, <1>6

\* What the consumers do shows only where the tail or the head moves.
LEMMA OneFrame ==
  ASSUME OneProducer, NEW s, NEW w, OneInv(s, w), QueueInv(s, w)',
         UNCHANGED <<tail, destroyed, made, sent, delivered>>, destroyed => free' = free,
         \A p \in Producers : pc'[p] = pc[p] /\ local'[p] = local[p]
  PROVE  OneInv(s, w)'
  <1>1. TailInv(s)'
    BY DEF OneInv, TailInv
  <1>2. OrderInv(s)'
    BY DEF OneInv, OrderInv
  <1>3. \A p \in Producers : LoneOK(p, s, w)'
    BY DEF OneInv, LoneOK
  <1>4. QED
    BY <1>1, <1>2, <1>3 DEF OneInv

\* A step of the producer that changes no list.
LEMMA LoneRule ==
  ASSUME OneProducer, NEW s, NEW w, OneInv(s, w), QueueInv(s, w)', NEW p \in Producers, ~destroyed,
         UNCHANGED <<destroyed, made, sent, delivered>>, TailInv(s)', LoneOK(p, s, w)',
         pc'[p] \in Making <=> pc[p] \in Making
  PROVE  OneInv(s, w)'
  <1>1. \A q \in Producers : q = p
    BY DEF OneProducer
  <1>2. OrderInv(s)'
    BY <1>1 DEF OneInv, OrderInv
  <1>3. QED
    BY <1>1, <1>2 DEF OneInv

\* While the producer is not about to swing the tail, the tail is the end of the list.
LEMMA TailAtEnd ==
  ASSUME OneProducer, NEW s, NEW w, OneInv(s, w), NEW p \in Producers, pc[p] # "swing"
  PROVE  tail.ptr = s[Len(s)] /\ next[tail.ptr] = Nil
  <1>1. tail.ptr = s[Len(s)]
    BY OneParts DEF TailInv
  <1>2. QED
    BY <1>1, OneParts, ListRule

LEMMA LoneReads ==
  ASSUME OneProducer, NEW s, NEW w, OneInv(s, w), NEW p \in Producers,
         EnqueueLoadTail(p) \/ EnqueueLoadNext(p) \/ EnqueueCheckTail(p)
  PROVE  OneInv(s, w)'
  <1>1. QueueInv(s, w)'
    BY OneParts, EnqueueLoadTailStep, EnqueueLoadNextStep, EnqueueCheckTailStep
  <1>2. /\ QueueInv(s, w) /\ p \in Threads /\ LoneOK(p, s, w) /\ pc \in [Threads -> Places]
        /\ local \in [Threads -> Locals] /\ tail \in Handles
    BY OneParts
  <1>3. pc[p] \in {"loadTail", "loadNext", "checkTail"} /\ UNCHANGED <<shared, history>>
    BY DEF EnqueueLoadTail, EnqueueLoadNext, EnqueueCheckTail, Goto
  <1>4. tail.ptr = s[Len(s)] /\ next[tail.ptr] = Nil /\ Nil.ptr = Null
    BY <1>3, TailAtEnd, HandleTypes
  <1>5. ~destroyed
    BY <1>2, <1>3, Parts
  <1>6. /\ pc'[p] \in Waiting /\ sent[p] # 0 /\ Len(w[p]) = 1 /\ made[local'[p].node] = <<p, sent[p]>>
        /\ local'[p].tail = tail
        /\ pc'[p] = "checkTail" => local'[p].next = Nil
    <2>1. CASE EnqueueLoadTail(p)
      <3>1. pc' = [pc EXCEPT ![p] = "loadNext"] /\ local' = [local EXCEPT ![p] = [@ EXCEPT !.tail = tail]]
        BY <2>1 DEF EnqueueLoadTail, Goto
      <3>2. local[p] \in Locals /\ local'[p] = [local[p] EXCEPT !.tail = tail]
        BY <1>2, <3>1
      <3>3. local'[p].tail = tail /\ local'[p].node = local[p].node
        BY <3>2 DEF Locals
      <3>4. QED
        BY <1>2, <1>3, <3>1, <3>3 DEF LoneOK, Making, Waiting
    <2>2. CASE EnqueueLoadNext(p)
      <3>1. pc' = [pc EXCEPT ![p] = "checkTail"] /\ pc[p] = "loadNext"
            /\ local' = [local EXCEPT ![p] = [@ EXCEPT !.next = next[local[p].tail.ptr]]]
        BY <2>2 DEF EnqueueLoadNext, Goto
      <3>2. local[p] \in Locals /\ local[p].tail = tail /\ local'[p] = [local[p] EXCEPT !.next = Nil]
        BY <1>2, <1>4, <3>1 DEF LoneOK, Waiting
      <3>3. local'[p].tail = local[p].tail /\ local'[p].node = local[p].node /\ local'[p].next = Nil
        BY <3>2 DEF Locals
      <3>4. QED
        BY <1>2, <1>3, <3>1, <3>2, <3>3 DEF LoneOK, Making, Waiting
    <2>3. CASE EnqueueCheckTail(p)
      <3>1. /\ pc[p] = "checkTail" /\ local' = local
            /\ pc' = [pc EXCEPT ![p] = IF tail # local[p].tail THEN "loadTail"
                                       ELSE IF local[p].next.ptr = Null THEN "link" ELSE "help"]
        BY <2>3 DEF EnqueueCheckTail, Goto
      <3>2. tail = local[p].tail /\ local[p].next.ptr = Null
        BY <1>2, <1>4, <3>1 DEF LoneOK, Waiting
      <3>3. pc'[p] = "link"
        BY <1>2, <3>1, <3>2
      <3>4. QED
        BY <1>2, <1>3, <3>1, <3>2, <3>3 DEF LoneOK, Making, Waiting
    <2>4. QED
      BY <2>1, <2>2, <2>3
  <1>7. TailInv(s)'
    BY <1>3, <1>4 DEF TailInv, shared
  <1>8. LoneOK(p, s, w)'
    BY <1>3, <1>6 DEF LoneOK, Making, Waiting, shared, history
  <1>9. pc'[p] \in Making <=> pc[p] \in Making
    BY <1>3, <1>6 DEF Making, Waiting
  <1>10. QED
    BY <1>1, <1>3, <1>5, <1>7, <1>8, <1>9, LoneRule DEF shared, history

LEMMA EnqueueHelpNever ==
  ASSUME OneProducer, NEW s, NEW w, OneInv(s, w), NEW p \in Producers
  PROVE  ~EnqueueHelp(p)
  BY OneParts DEF EnqueueHelp, HelpTail, Goto, LoneOK

LEMMA LoneSwings ==
  ASSUME OneProducer, NEW s, NEW w, OneInv(s, w), NEW p \in Producers, SwingTail(p)
  PROVE  OneInv(s, w)' /\ tail'.ptr = s[Len(s)]
  <1>1. QueueInv(s, w)'
    BY OneParts, SwingTailStep
  <1>2. /\ QueueInv(s, w) /\ p \in Threads /\ LoneOK(p, s, w) /\ TailInv(s) /\ pc \in [Threads -> Places]
        /\ \A q \in Producers : q = p
    BY OneParts
  <1>3. /\ pc[p] = "swing" /\ pc' = [pc EXCEPT ![p] = "idle"]
        /\ tail' = (IF tail = local[p].tail THEN Handle(local[p].node, tail.tag + 1) ELSE tail)
        /\ UNCHANGED <<head, next, data, free, destroyed, history>>
    BY DEF SwingTail, Return, Goto
  <1>4. ~destroyed /\ pc'[p] = "idle"
    BY <1>2, <1>3, Parts
  <1>5. tail'.ptr = s[Len(s)]
    <2>1. CASE tail = local[p].tail
      BY <1>2, <1>3, <2>1 DEF LoneOK, Handle
    <2>2. CASE tail # local[p].tail
      BY <1>2, <1>3, <2>2 DEF TailInv
    <2>3. QED
      BY <2>1, <2>2
  <1>6. TailInv(s)' /\ LoneOK(p, s, w)'
    BY <1>4, <1>5 DEF TailInv, LoneOK, Making, Waiting
  <1>7. QED
    BY <1>1, <1>3, <1>4, <1>5, <1>6, LoneRule DEF history, Making

\* A consumer helps when the tail is one behind, and brings it to the end.
LEMMA OneHelps ==
  ASSUME OneProducer, NEW s, NEW w, OneInv(s, w), NEW c \in Consumers, DequeueHelp(c)
  PROVE  /\ OneInv(s, w)'
         /\ tail' # tail =>
              /\ tail.ptr # s[Len(s)] /\ tail'.ptr = s[Len(s)]
              /\ \E p \in Producers : pc[p] = "swing"
  <1>1. QueueInv(s, w)'
    BY OneParts, DequeueHelpStep
  <1>2. /\ QueueInv(s, w) /\ c \in Threads /\ c \notin Producers /\ TailInv(s) /\ pc \in [Threads -> Places]
        /\ ConsumerOK(c, s) /\ IsList(s)
    BY OneParts, Parts
  <1>3. /\ pc[c] = "help" /\ pc' = [pc EXCEPT ![c] = "loadHead"] /\ local' = local
        /\ tail' = (IF tail = local[c].tail THEN Handle(local[c].next.ptr, tail.tag + 1) ELSE tail)
        /\ UNCHANGED <<head, next, data, free, destroyed, history>>
    BY DEF DequeueHelp, HelpTail, Goto
  <1>4. \A p \in Producers : pc'[p] = pc[p] /\ local'[p] = local[p] /\ p \in Threads
    BY <1>2, <1>3, OneParts
  <1>5. CASE tail' = tail
    BY <1>1, <1>3, <1>4, <1>5, OneFrame DEF history
  <1>6. CASE tail' # tail
    <2>1. tail = local[c].tail /\ tail'.ptr = local[c].next.ptr
      BY <1>3, <1>6 DEF Handle
    <2>2. next[tail.ptr].ptr = tail'.ptr /\ tail'.ptr \in Nodes
      BY <1>2, <1>3, <2>1 DEF ConsumerOK
    <2>3. /\ Len(s) \in Nat /\ \A i \in 1..(Len(s) - 1) : next[s[i]].ptr = s[i + 1]
          /\ next[s[Len(s)]].ptr = Null /\ Null \notin Nodes
      <3>1. TypeOK
        BY <1>2, Parts
      <3>2. QED
        BY <1>2, <3>1, ListRule, Types, HandleTypes
    <2>4. tail.ptr # s[Len(s)]
      BY <2>2, <2>3
    <2>5. PICK p \in Producers : pc[p] = "swing" /\ Len(s) > 1 /\ tail.ptr = s[Len(s) - 1]
      BY <1>2, <2>4 DEF TailInv
    <2>6. tail'.ptr = s[Len(s)]
      <3>1. Len(s) - 1 \in 1..(Len(s) - 1) /\ (Len(s) - 1) + 1 = Len(s)
        BY <2>3, <2>5
      <3>2. next[s[Len(s) - 1]].ptr = s[(Len(s) - 1) + 1]
        BY <2>3, <3>1
      <3>3. QED
        BY <2>2, <2>5, <3>1, <3>2
    <2>7. LoneOK(p, s, w)'
      BY <1>3, <1>4, <2>5, OneParts DEF LoneOK, Making, Waiting, history
    <2>8. TailInv(s)'
      BY <2>6 DEF TailInv
    <2>9. ~destroyed
      BY <1>2, <1>3, Parts
    <2>10. OneInv(s, w)'
      BY <1>1, <1>3, <1>4, <2>7, <2>8, <2>9, LoneRule DEF history
    <2>11. QED
      BY <2>4, <2>5, <2>6, <2>10
  <1>7. QED
    BY <1>5, <1>6

\* The other steps of a consumer, but for a swap of the head that succeeds.
LEMMA OneReads ==
  ASSUME OneProducer, NEW s, NEW w, OneInv(s, w), NEW c \in Consumers,
         \/ DequeueLoadHead(c) \/ DequeueLoadTail(c) \/ DequeueLoadNext(c) \/ DequeueCheckHead(c)
         \/ DequeueFails(c) \/ MoveValue(c) \/ (SwapHead(c) /\ ~HeadHeld(c)) \/ Free(c) \/ Empty(c)
  PROVE  OneInv(s, w)'
  <1>1. QueueInv(s, w) /\ c \in Threads /\ c \notin Producers
    BY OneParts
  <1>2. QueueInv(s, w)'
    BY <1>1, DequeueLoadHeadStep, DequeueLoadTailStep, DequeueLoadNextStep, DequeueCheckHeadStep, DequeueFailsStep,
       MoveValueStep, SwapFailsStep, FreeStep, EmptyStep
  <1>3. UNCHANGED <<tail, destroyed, made, sent, delivered>>
    BY DEF DequeueLoadHead, DequeueLoadTail, DequeueLoadNext, DequeueCheckHead, DequeueFails, MoveValue, SwapHead,
           HeadHeld, Free, Empty, EmptyLoadFirst, EmptyLoadSecond, EmptyReturn, shared, history
  <1>4. /\ \A t \in Threads : t # c => pc'[t] = pc[t]
        /\ \A t \in Threads : t # c => local'[t] = local[t]
    <2>1. pc \in [Threads -> Places] /\ local \in [Threads -> Locals]
      BY OneParts
    <2>2. \A t \in Threads : t # c => pc'[t] = pc[t]
      BY <2>1 DEF DequeueLoadHead, DequeueLoadTail, DequeueLoadNext, DequeueCheckHead, DequeueFails, MoveValue,
         SwapHead, Free, Empty, EmptyLoadFirst, EmptyLoadSecond, EmptyReturn, Return, Goto
    <2>3. \A t \in Threads : t # c => local'[t] = local[t]
      BY <2>1 DEF DequeueLoadHead, DequeueLoadTail, DequeueLoadNext, DequeueCheckHead, DequeueFails, MoveValue,
         SwapHead, Free, Empty, EmptyLoadFirst, EmptyLoadSecond, EmptyReturn, Return
    <2>4. QED
      BY <2>2, <2>3
  <1>5. destroyed => free' = free
    <2>1. Free(c) => ~destroyed
      BY <1>1, Parts DEF Free, Return, Goto
    <2>2. ~Free(c) => free' = free
      BY DEF DequeueLoadHead, DequeueLoadTail, DequeueLoadNext, DequeueCheckHead, DequeueFails, MoveValue, SwapHead,
           Empty, EmptyLoadFirst, EmptyLoadSecond, EmptyReturn, shared
    <2>3. QED
      BY <2>1, <2>2
  <1>6. \A p \in Producers : pc'[p] = pc[p] /\ local'[p] = local[p]
    BY <1>1, <1>4, OneParts
  <1>7. QED
    BY <1>2, <1>3, <1>5, <1>6, OneFrame

\* The consumer that swaps the head has the item of the second node.
LEMMA OneTakes ==
  ASSUME OneProducer, NEW s, NEW w, OneInv(s, w), NEW c \in Consumers, SwapHead(c), HeadHeld(c)
  PROVE  /\ OneInv(Tail(s), w)' /\ Len(s) > 1 /\ tail.ptr # head.ptr
         /\ Plain => local[c].value = made[s[2]]
  <1> DEFINE u == Tail(s)
  <1>1. QueueInv(u, w)'
    BY OneParts, SwapSucceedsStep
  <1>2. /\ QueueInv(s, w) /\ c \in Threads /\ c \notin Producers /\ TailInv(s) /\ OrderInv(s)
        /\ pc \in [Threads -> Places] /\ ConsumerOK(c, s) /\ IsList(s) /\ ItemInv /\ local[c] \in Locals
        /\ Len(s) \in Nat \ {0} /\ delivered \in Seq(Items \cup {NoItem}) /\ Len(delivered) \in Nat
    BY OneParts, Parts
  <1>3. /\ pc[c] = "swap" /\ pc' = [pc EXCEPT ![c] = "free"] /\ local' = local /\ head = local[c].head
        /\ delivered' = Append(delivered, local[c].value)
        /\ UNCHANGED <<tail, destroyed, free, made, sent>>
    BY DEF SwapHead, HeadHeld, Goto
  <1>4. Len(s) > 1 /\ tail.ptr # head.ptr /\ ~destroyed
    <2>1. ~destroyed
      BY <1>2, <1>3, Parts
    <2>2. QED
      BY <1>2, <1>3, <2>1 DEF ConsumerOK, Reading
  <1>5. /\ Len(u) = Len(s) - 1 /\ \A i \in 1..Len(u) : u[i] = s[i + 1] /\ i + 1 \in 2..Len(s)
        /\ Len(u) \in 1..Len(u) /\ u[Len(u)] = s[Len(s)] /\ s[1] = head.ptr /\ next[s[1]].ptr = s[2]
    <2>1. Run(next, s, head.ptr) /\ s[1] = head.ptr
      BY <1>2, ListRule DEF IsList
    <2>2. Len(u) = Len(s) - 1 /\ \A i \in 1..Len(u) : u[i] = s[i + 1] /\ i + 1 \in 2..Len(s)
      BY <1>4, <2>1, RunRest
    <2>3. next[s[1]].ptr = s[2]
      <3>1. 1 \in 1..(Len(s) - 1) /\ 1 + 1 = 2
        BY <1>2, <1>4
      <3>2. QED
        BY <1>2, <3>1, ListRule
    <2> HIDE DEF u
    <2>4. Len(u) \in 1..Len(u) /\ Len(u) + 1 = Len(s)
      BY <1>2, <1>4, <2>2
    <2>5. QED
      BY <2>1, <2>2, <2>3, <2>4
  <1> HIDE DEF u
  <1>6. Plain => local[c].value = made[s[2]]
    BY <1>2, <1>3, <1>4, <1>5 DEF ItemInv
  <1>7. \A p \in Producers : pc'[p] = pc[p] /\ local'[p] = local[p]
    BY <1>2, <1>3, OneParts
  <1>8. TailInv(u)'
    <2>1. CASE tail.ptr = s[Len(s)]
      BY <1>3, <1>5, <2>1 DEF TailInv
    <2>2. CASE tail.ptr # s[Len(s)]
      <3>1. tail.ptr = s[Len(s) - 1] /\ \E p \in Producers : pc[p] = "swing" /\ tail = local[p].tail
        BY <1>2, <2>2 DEF TailInv
      <3>2. Len(s) - 1 # 1
        BY <1>4, <1>5, <3>1
      <3>3. Len(u) > 1 /\ Len(u) - 1 \in 1..Len(u) /\ (Len(u) - 1) + 1 = Len(s) - 1
        BY <1>2, <1>4, <1>5, <3>2
      <3>4. u[Len(u) - 1] = s[Len(s) - 1]
        BY <1>5, <3>3
      <3>5. QED
        BY <1>3, <1>7, <3>1, <3>3, <3>4 DEF TailInv
    <2>3. QED
      BY <2>1, <2>2
  <1>9. Len(delivered') = Len(delivered) + 1 /\ delivered'[Len(delivered) + 1] = local[c].value
        /\ \A i \in 1..Len(delivered) : delivered'[i] = delivered[i]
    <2>1. local[c].value \in Items \cup {NoItem}
      BY <1>2, LocalTypes
    <2>2. QED
      BY <1>2, <1>3, <2>1
  <1>10. \A p \in Producers :
           sent[p] = Len(delivered) + Len(s) - 1 + (IF pc[p] \in Making THEN 1 ELSE 0)
    BY <1>2 DEF OrderInv
  <1>11. OrderInv(u)'
    <2>1. ASSUME NEW i \in 1..(Len(u) - 1)
          PROVE  \E p \in Producers : made'[u[i + 1]] = <<p, Len(delivered') + i>>
      <3>1. i + 1 \in 1..(Len(s) - 1) /\ i + 1 \in 1..Len(u) /\ Len(delivered) + (i + 1) = Len(delivered') + i
        BY <1>2, <1>5, <1>9
      <3>2. u[i + 1] = s[(i + 1) + 1]
        BY <1>5, <3>1
      <3>3. PICK p \in Producers : made[s[(i + 1) + 1]] = <<p, Len(delivered) + (i + 1)>>
        BY <1>2, <3>1 DEF OrderInv
      <3>4. QED
        BY <1>3, <3>1, <3>2, <3>3
    <2>2. ASSUME NEW p \in Producers
          PROVE  sent'[p] = Len(delivered') + Len(u) - 1 + (IF pc'[p] \in Making THEN 1 ELSE 0)
      <3>1. Len(delivered') + Len(u) - 1 = Len(delivered) + Len(s) - 1
        BY <1>2, <1>5, <1>9
      <3>2. QED
        BY <1>3, <1>7, <1>10, <3>1
    <2>3. ASSUME Plain, NEW i \in 1..Len(delivered')
          PROVE  \E p \in Producers : delivered'[i] = <<p, i>>
      <3>1. CASE i \in 1..Len(delivered)
        BY <1>2, <1>9, <2>3, <3>1 DEF OrderInv
      <3>2. CASE i = Len(delivered) + 1
        <4>1. 1 \in 1..(Len(s) - 1) /\ 1 + 1 = 2
          BY <1>2, <1>4
        <4>2. PICK p \in Producers : made[s[1 + 1]] = <<p, Len(delivered) + 1>>
          BY <1>2, <4>1 DEF OrderInv
        <4>3. QED
          BY <1>6, <1>9, <2>3, <3>2, <4>1, <4>2
      <3>3. QED
        BY <1>2, <1>9, <2>3, <3>1, <3>2
    <2>4. Plain' => Plain
      BY DEF Plain
    <2>5. QED
      BY <2>1, <2>2, <2>3, <2>4 DEF OrderInv
  <1>12. ASSUME NEW p \in Producers
         PROVE  LoneOK(p, u, w)'
    <2>1. LoneOK(p, s, w)
      BY OneParts
    <2>2. pc'[p] = pc[p] /\ local'[p] = local[p] /\ UNCHANGED <<tail, made, sent>>
      BY <1>3, <1>7
    <2>3. QED
      BY <1>5, <2>1, <2>2 DEF LoneOK
  <1>13. OneInv(u, w)'
    BY <1>1, <1>3, <1>4, <1>8, <1>11, <1>12 DEF OneInv
  <1>14. QED
    BY <1>4, <1>6, <1>13 DEF u

\* A node that is made is not in the list.
LEMMA OneAllocates ==
  ASSUME OneProducer, NEW s, NEW w, OneInv(s, w), NEW p \in Producers, Allocate(p)
  PROVE  /\ \E v : OneInv(s, v)'
         /\ \A i \in 1..Len(s) : made'[s[i]] = made[s[i]]
  <1>1. PICK m \in Nodes : QueueInv(s, [w EXCEPT ![p] = <<m>>])'
    BY OneParts, AllocateStep
  <1> DEFINE v == [w EXCEPT ![p] = <<m>>]
  <1>2. /\ QueueInv(s, w) /\ p \in Threads /\ TailInv(s) /\ OrderInv(s) /\ pc \in [Threads -> Places]
        /\ local \in [Threads -> Locals] /\ sent \in [Producers -> 0..MaxItems] /\ sent[p] \in Nat
        /\ \A q \in Producers : q = p
    BY OneParts
  <1>3. PICK n \in free : made' = [made EXCEPT ![n] = <<p, sent[p] + 1>>] /\ local' = [local EXCEPT ![p].node = n]
    BY DEF Allocate
  <1>4. /\ ~destroyed /\ pc[p] = "idle" /\ pc' = [pc EXCEPT ![p] = "loadTail"] /\ sent' = [sent EXCEPT ![p] = @ + 1]
        /\ UNCHANGED <<head, tail, destroyed, delivered, lacked>>
    BY DEF Allocate, Goto
  <1>5. pc'[p] = "loadTail" /\ sent'[p] = sent[p] + 1 /\ local'[p].node = n
    <2>1. local[p] \in Locals /\ local'[p] = [local[p] EXCEPT !.node = n]
      BY <1>2, <1>3
    <2>2. local'[p].node = n
      BY <2>1 DEF Locals
    <2>3. QED
      BY <1>2, <1>4, <2>2
  <1>6. n \in Nodes /\ n \notin Linked(s) /\ made \in [Nodes -> Items \cup {NoItem}] /\ IsList(s)
    <2>1. Linked(s) \cap free = {} /\ free \subseteq Nodes
      BY <1>2, <1>4, PlaceRule
    <2>2. TypeOK /\ IsList(s)
      BY <1>2, Parts
    <2>3. QED
      BY <2>1, <2>2, Types
  <1>7. made'[n] = <<p, sent'[p]>> /\ \A i \in 1..Len(s) : made'[s[i]] = made[s[i]]
    <2>1. \A i \in 1..Len(s) : s[i] \in Nodes /\ s[i] # n
      BY <1>6, ListRule
    <2>2. QED
      BY <1>3, <1>5, <1>6, <2>1
  <1>8. Len(v[p]) = 1
    <2>1. w \in [Producers -> Seq(Nodes)] /\ Len(<<m>>) = 1
      BY <1>2, SideRule
    <2>2. QED
      BY <2>1
  <1>9. tail.ptr = s[Len(s)]
    BY <1>4, TailAtEnd
  <1>10. TailInv(s)'
    BY <1>4, <1>9 DEF TailInv
  <1>11. Len(s) \in Nat \ {0} /\ Len(delivered) \in Nat
    BY OneParts
  <1>12. OrderInv(s)'
    <2>1. \A i \in 1..(Len(s) - 1) : made'[s[i + 1]] = made[s[i + 1]]
      <3>1. \A i \in 1..(Len(s) - 1) : i + 1 \in 1..Len(s)
        BY <1>11
      <3>2. QED
        BY <1>7, <3>1
    <2>2. \A i \in 1..(Len(s) - 1) : \E q \in Producers : made'[s[i + 1]] = <<q, Len(delivered') + i>>
      BY <1>2, <1>4, <2>1 DEF OrderInv
    <2>3. sent'[p] = Len(delivered') + Len(s) - 1 + 1
      <3>1. pc[p] \notin Making
        BY <1>4 DEF Making
      <3>2. sent[p] = Len(delivered) + Len(s) - 1 + 0
        BY <1>2, <3>1 DEF OrderInv
      <3>3. QED
        BY <1>4, <1>5, <1>11, <3>2
    <2>4. pc'[p] \in Making
      BY <1>5 DEF Making
    <2>5. Plain' => Plain
      BY DEF Plain
    <2>6. \A q \in Producers :
            sent'[q] = Len(delivered') + Len(s) - 1 + (IF pc'[q] \in Making THEN 1 ELSE 0)
      BY <1>2, <2>3, <2>4
    <2>7. QED
      BY <1>2, <1>4, <2>2, <2>5, <2>6 DEF OrderInv
  <1> HIDE DEF v
  <1>13. LoneOK(p, s, v)'
    <2>1. sent'[p] # 0
      BY <1>2, <1>5
    <2>2. QED
      BY <1>5, <1>7, <1>8, <2>1 DEF LoneOK, Waiting
  <1>14. OneInv(s, v)'
    <2>1. QueueInv(s, v)'
      BY <1>1 DEF v
    <2>2. QED
      BY <1>2, <1>4, <1>10, <1>12, <1>13, <2>1 DEF OneInv
  <1>15. QED
    BY <1>7, <1>14

\* The link finds the end of the list: the list is one node longer then.
LEMMA OneLinks ==
  ASSUME OneProducer, NEW s, NEW w, OneInv(s, w), NEW p \in Producers, Link(p)
  PROVE  \E u, v : /\ OneInv(u, v)'
                   /\ \A i \in 1..Len(s) : i \in 1..Len(u) /\ u[i] = s[i]
  <1> DEFINE u == s \o w[p]
             v == [w EXCEPT ![p] = <<>>]
  <1>1. /\ QueueInv(s, w) /\ p \in Threads /\ LoneOK(p, s, w) /\ TailInv(s) /\ OrderInv(s) /\ pc \in [Threads -> Places]
        /\ ProducerOK(p) /\ IsList(s) /\ Len(s) \in Nat \ {0} /\ Len(s) \in 1..Len(s) /\ Len(delivered) \in Nat
        /\ \A q \in Producers : q = p
    BY OneParts
  <1>2. pc[p] = "link"
    BY DEF Link, Goto
  <1>3. tail.ptr = s[Len(s)] /\ next[tail.ptr] = Nil /\ local[p].tail = tail /\ local[p].next = Nil /\ ~destroyed
    <2>1. local[p].tail = tail /\ local[p].next = Nil
      BY <1>1, <1>2 DEF LoneOK, Waiting, ProducerOK
    <2>2. ~destroyed
      BY <1>1, <1>2, Parts
    <2>3. QED
      BY <1>2, <2>1, <2>2, TailAtEnd
  <1>4. local[p].tail.ptr \in Linked(s)
    BY <1>1, <1>3, ListRule
  <1>5. QueueInv(u, v)'
    BY <1>1, <1>3, <1>4, LinkToList
  <1>6. pc'[p] = "swing" /\ UNCHANGED <<head, tail, data, free, destroyed, local, history>>
    BY <1>1, <1>2, <1>3 DEF Link, Goto
  <1>7. /\ Len(w[p]) = 1 /\ w[p][1] = local[p].node /\ made[local[p].node] = <<p, sent[p]>> /\ sent[p] # 0
        /\ s \in Seq(Nodes) /\ w[p] \in Seq(Nodes)
    <2>1. pc[p] \in Making
      BY <1>2 DEF Making
    <2>2. Run(next, w[p], local[p].node)
      BY <1>1, <2>1, SideRule
    <2>3. QED
      BY <1>1, <1>2, <2>1, <2>2, RunRule DEF LoneOK, IsList, Run
  <1>8. /\ Len(u) = Len(s) + 1 /\ u[Len(u)] = local[p].node
        /\ \A i \in 1..Len(s) : i \in 1..Len(u) /\ u[i] = s[i]
    <2>1. Joined(u, s, w[p])
      BY <1>7, JoinedRule
    <2> HIDE DEF u
    <2>2. Len(u) = Len(s) + 1 /\ \A i \in 1..Len(s) : u[i] = s[i]
      BY <1>7, <2>1 DEF Joined
    <2>3. 1 \in 1..Len(w[p])
      BY <1>7
    <2>4. u[Len(s) + 1] = w[p][1]
      BY <2>1, <2>3 DEF Joined
    <2>5. \A i \in 1..Len(s) : i \in 1..Len(u)
      BY <1>1, <2>2
    <2>6. QED
      BY <1>7, <2>2, <2>4, <2>5
  <1> HIDE DEF u, v
  <1>9. TailInv(u)'
    <2>1. Len(u) > 1 /\ Len(u) - 1 = Len(s)
      BY <1>1, <1>8
    <2>2. tail.ptr = u[Len(u) - 1]
      BY <1>1, <1>3, <1>8, <2>1
    <2>3. pc'[p] = "swing" /\ tail' = local'[p].tail
      BY <1>3, <1>6
    <2>4. QED
      BY <1>6, <2>1, <2>2, <2>3 DEF TailInv
  <1>10. sent[p] = Len(delivered) + Len(s)
    <2>1. pc[p] \in Making
      BY <1>2 DEF Making
    <2>2. sent[p] = Len(delivered) + Len(s) - 1 + 1
      BY <1>1, <2>1 DEF OrderInv
    <2>3. QED
      BY <1>1, <2>2
  <1>11. OrderInv(u)'
    <2>1. ASSUME NEW i \in 1..(Len(u) - 1)
          PROVE  \E q \in Producers : made[u[i + 1]] = <<q, Len(delivered) + i>>
      <3>1. CASE i = Len(s)
        BY <1>7, <1>8, <1>10, <3>1
      <3>2. CASE i # Len(s)
        <4>1. i \in 1..(Len(s) - 1) /\ i + 1 \in 1..Len(s)
          BY <1>1, <1>8, <3>2
        <4>2. QED
          BY <1>1, <1>8, <4>1 DEF OrderInv
      <3>3. QED
        BY <3>1, <3>2
    <2>2. sent[p] = Len(delivered) + Len(u) - 1 + 0
      BY <1>1, <1>8, <1>10
    <2>3. pc'[p] \notin Making
      BY <1>6 DEF Making
    <2>4. \A q \in Producers :
            sent[q] = Len(delivered) + Len(u) - 1 + (IF pc'[q] \in Making THEN 1 ELSE 0)
      BY <1>1, <2>2, <2>3
    <2>5. Plain' => Plain
      BY DEF Plain
    <2>6. QED
      BY <1>1, <1>6, <2>1, <2>4, <2>5 DEF OrderInv, history
  <1>12. LoneOK(p, u, v)'
    BY <1>6, <1>7, <1>8 DEF LoneOK, Making, Waiting, history
  <1>13. OneInv(u, v)'
    BY <1>1, <1>3, <1>5, <1>6, <1>9, <1>11, <1>12 DEF OneInv
  <1>14. QED
    BY <1>8, <1>13

\* Nobody is in a call, so the tail is the end of the list.
LEMMA OneDestroys ==
  ASSUME OneProducer, NEW s, NEW w, OneInv(s, w), Destroy
  PROVE  OneInv(s, w)'
  <1>1. /\ ~destroyed /\ \A t \in Threads : pc[t] = "idle"
        /\ free' = free \cup {Chain[i] : i \in 0..Len(Queued)}
        /\ UNCHANGED <<head, tail, next, data, pc, local, history>>
    BY DEF Destroy
  <1>2. QueueInv(s, w) /\ QueueInv(s, w)' /\ IsList(s) /\ TypeOK /\ TailInv(s)
    BY OneParts, DestroyStep, Parts
  <1>3. tail.ptr = s[Len(s)] /\ Len(s) \in Nat \ {0} /\ Len(s) \in 1..Len(s)
        /\ \A i \in 1..Len(s) : s[i] \in Nodes
    <2>1. tail.ptr = s[Len(s)]
      BY <1>1, <1>2, OneParts DEF TailInv
    <2>2. QED
      BY <1>2, <2>1, ListRule
  <1>4. Len(Queued) = Len(s) - 1
    BY <1>2, <1>3, QueuedRule
  <1>5. \A i \in 0..Len(Queued) : Chain[i] = s[i + 1] /\ i + 1 \in 1..Len(s)
    <2>1. Cardinality(Nodes) \in Nat /\ Len(s) <= Cardinality(Nodes)
      BY <1>2, ListFits
    <2>2. \A i \in 0..Cardinality(Nodes) : Chain[i] = IF i < Len(s) THEN s[i + 1] ELSE Null
      BY <1>2, ChainRule
    <2>3. \A i \in 0..Len(Queued) : i \in 0..Cardinality(Nodes) /\ i < Len(s) /\ i + 1 \in 1..Len(s)
      BY <1>3, <1>4, <2>1
    <2>4. QED
      BY <2>2, <2>3
  <1>6. free' = Nodes
    <2>1. \A n \in Nodes : n \in Linked(s) \cup free
      <3>1. \A t \in Threads : Held(t, w) = {}
        <4>1. \A p \in Producers : Linked(w[p]) = {}
          BY <1>1, <1>2, OneParts, SideRule DEF Making
        <4>2. QED
          BY <1>1, <4>1 DEF Held
      <3>2. QED
        BY <1>1, <1>2, <3>1, PlaceRule
    <2>2. \A n \in Linked(s) : \E i \in 0..Len(Queued) : n = Chain[i]
      <3>1. \A i \in 1..Len(s) : i - 1 \in 0..Len(Queued) /\ (i - 1) + 1 = i
        BY <1>3, <1>4
      <3>2. \A n \in Linked(s) : \E i \in 1..Len(s) : n = s[i]
        BY DEF Linked
      <3>3. ASSUME NEW i \in 1..Len(s)
            PROVE  s[i] = Chain[i - 1]
        BY <1>5, <3>1
      <3>4. QED
        BY <3>1, <3>2, <3>3
    <2>3. \A i \in 0..Len(Queued) : Chain[i] \in Nodes
      BY <1>3, <1>5
    <2>4. free \subseteq Nodes
      BY <1>2, Types
    <2>5. QED
      BY <1>1, <2>1, <2>2, <2>3, <2>4
  <1>7. TailInv(s)'
    BY <1>1, <1>3 DEF TailInv
  <1>8. OrderInv(s)'
    BY <1>1, OneParts DEF OrderInv, history
  <1>9. \A p \in Producers : LoneOK(p, s, w)'
    BY <1>1, OneParts DEF LoneOK, history
  <1>10. QED
    BY <1>2, <1>6, <1>7, <1>8, <1>9 DEF OneInv

InOneList == \E s, w : OneInv(s, w)

LEMMA OneStarts ==
  ASSUME OneProducer, Init
  PROVE  InOneList
  <1>1. PICK s, w : QueueInv(s, w)
    BY InitInList DEF InList
  <1>2. PICK n \in Nodes : head = Handle(n, 0) /\ tail = Handle(n, 0)
          /\ next = [m \in Nodes |-> IF m = n THEN Nil ELSE Handle(Junk, 0)]
    BY DEF Init
  <1>3. /\ ~destroyed /\ pc = [t \in Threads |-> "idle"] /\ sent = [p \in Producers |-> 0] /\ delivered = <<>>
    BY DEF Init
  <1>4. /\ Len(s) \in Nat \ {0} /\ s[1] = n
        /\ \A i \in 1..(Len(s) - 1) : next[s[i]].ptr = s[i + 1] /\ i + 1 \in 1..Len(s)
        /\ \A i \in 1..Len(s) : s[i] \in Nodes
        /\ Null \notin Nodes
    <2>1. IsList(s) /\ TypeOK
      BY <1>1, Parts
    <2>2. QED
      BY <1>2, <2>1, ListRule, Types DEF Handle
  <1>5. Len(s) = 1
    <2>1. next[s[1]].ptr = Null
      BY <1>2, <1>4, HandleTypes
    <2>2. 1 \notin 1..(Len(s) - 1)
      BY <1>4, <2>1
    <2>3. \A k \in Nat \ {0} : k # 1 => 1 \in 1..(k - 1)
      OBVIOUS
    <2>4. Len(s) \in Nat \ {0}
      BY <1>4
    <2>5. QED
      BY <2>2, <2>3, <2>4
  <1>6. TailInv(s)
    BY <1>2, <1>4, <1>5 DEF TailInv, Handle
  <1>7. \A p \in Producers : pc[p] = "idle" /\ sent[p] = 0
    BY <1>3 DEF Threads
  <1>8. OrderInv(s)
    <2>1. Len(delivered) = 0 /\ 1..Len(delivered) = {} /\ 1..(Len(s) - 1) = {} /\ Len(delivered) + Len(s) - 1 + 0 = 0
      BY <1>3, <1>5
    <2>2. QED
      BY <1>7, <2>1 DEF OrderInv, Making
  <1>9. \A p \in Producers : LoneOK(p, s, w)
    BY <1>7 DEF LoneOK, Making, Waiting
  <1>10. OneInv(s, w)
    BY <1>1, <1>3, <1>6, <1>8, <1>9 DEF OneInv
  <1>11. QED
    BY <1>10 DEF InOneList

LEMMA OneStep ==
  ASSUME OneProducer, NEW s, NEW w, OneInv(s, w), [Next]_vars
  PROVE  InOneList'
  <1>1. ASSUME NEW p \in Producers, Allocate(p) \/ Enqueue(p)
        PROVE  \E u, v : OneInv(u, v)'
    BY <1>1, OneAllocates, LoneReads, OneLinks, LoneSwings, EnqueueHelpNever DEF Enqueue
  <1>2. ASSUME NEW c \in Consumers, DequeueLoadHead(c) \/ Dequeue(c) \/ Empty(c)
        PROVE  \E u, v : OneInv(u, v)'
    <2>1. CASE SwapHead(c) /\ HeadHeld(c)
      BY <2>1, OneTakes
    <2>2. CASE DequeueHelp(c)
      BY <2>2, OneHelps
    <2>3. CASE \/ DequeueLoadHead(c) \/ DequeueLoadTail(c) \/ DequeueLoadNext(c) \/ DequeueCheckHead(c)
               \/ DequeueFails(c) \/ MoveValue(c) \/ (SwapHead(c) /\ ~HeadHeld(c)) \/ Free(c) \/ Empty(c)
      BY <2>3, OneReads
    <2>4. QED
      BY <1>2, <2>1, <2>2, <2>3 DEF Dequeue
  <1>3. CASE Destroy
    BY <1>3, OneDestroys DEF InOneList
  <1>4. CASE UNCHANGED vars
    <2>1. QueueInv(s, w)'
      BY <1>4, OneParts, StutterStep
    <2>2. QED
      BY <1>4, <2>1, OneFrame DEF vars, shared, history, InOneList
  <1>5. QED
    BY <1>1, <1>2, <1>3, <1>4 DEF Next, InOneList

LEMMA OneInvariant ==
  ASSUME OneProducer
  PROVE  Spec => []InOneList
  <1>1. InOneList /\ [Next]_vars => InOneList'
    BY OneStep DEF InOneList
  <1>2. Init => InOneList
    BY OneStarts
  <1>3. QED
    BY <1>1, <1>2, PTL DEF Spec

\* With one producer the tail is at the end or one behind, besides.
THEOREM Protection ==
  ASSUME OneProducer
  PROVE  Spec => []ProtectionInv
  <1>1. InOneList => ProtectionInv
    <2> SUFFICES ASSUME InOneList PROVE ProtectionInv
      OBVIOUS
    <2>1. PICK s, w : OneInv(s, w)
      BY DEF InOneList
    <2>2. QueueInv(s, w) /\ TailInv(s) /\ IsList(s) /\ Len(s) \in Nat \ {0} /\ Len(s) \in 1..Len(s) /\ TypeOK
      BY <2>1, OneParts, Parts
    <2>3. TypeOK /\ LinkedNotFree /\ ReadsValidated
      BY <2>2, Protected DEF InList
    <2>4. PICK k \in 1..Len(s) : tail.ptr = s[k] /\ k \in {Len(s) - 1, Len(s)}
      <3>1. Len(s) > 1 => Len(s) - 1 \in 1..Len(s)
        BY <2>2
      <3>2. QED
        BY <2>2, <3>1 DEF TailInv
    <2>5. k - 1 \in TailAt
      BY <2>2, <2>4, QueuedRule
    <2>6. Chain[Len(s)] = Null
      <3>1. /\ \A i \in 0..Cardinality(Nodes) : Chain[i] = IF i < Len(s) THEN s[i + 1] ELSE Null
            /\ Cardinality(Nodes) \in Nat /\ Len(s) <= Cardinality(Nodes)
        BY <2>2, ChainRule, ListFits
      <3>2. Len(s) \in 0..Cardinality(Nodes)
        BY <2>2, <3>1
      <3>3. QED
        BY <2>2, <3>1, <3>2
    <2>7. (k - 1) + 1 = Len(s) \/ (k - 1) + 2 = Len(s)
      BY <2>2, <2>4
    <2>8. TailNear
      BY <2>5, <2>6, <2>7 DEF TailNear
    <2>9. QED
      BY <2>3, <2>8 DEF ProtectionInv
  <1>2. QED
    BY <1>1, OneInvariant, PTL

\* ~queue() gives every node back to the pool.
THEOREM NothingLeft ==
  ASSUME OneProducer
  PROVE  Spec => []DestructorFreesAll
  <1>1. InOneList => DestructorFreesAll
    BY DEF InOneList, OneInv, DestructorFreesAll
  <1>2. QED
    BY <1>1, OneInvariant, PTL

-----------------------------------------------------------------------------
(* Refinement: what the callers see of a state *)

Seen(s) ==
  /\ Queued \in Seq(Items \cup {NoItem}) /\ Len(Queued) \in Nat /\ Len(Queued) + 1 \in 1..Len(s)
  /\ tail.ptr = s[Len(Queued) + 1]
  /\ \A i \in 1..Len(Queued) : Queued[i] = made[s[i + 1]]
  /\ Queued = <<>> <=> head.ptr = tail.ptr
  /\ Len(delivered) \in Nat
  /\ \A p \in Producers : Entered(p) <=> sent[p] # 0 /\ sent[p] <= Len(delivered) + Len(Queued)

LEMMA SeenRule ==
  \A s, w : OneProducer /\ Plain /\ OneInv(s, w) => Seen(s)
  <1> SUFFICES ASSUME NEW s, NEW w, OneProducer, Plain, OneInv(s, w)
               PROVE  Seen(s)
    OBVIOUS
  <1>1. /\ QueueInv(s, w) /\ IsList(s) /\ OrderInv(s)
        /\ delivered \in Seq(Items \cup {NoItem}) /\ Len(delivered) \in Nat
        /\ \A p \in Producers : sent[p] \in Nat /\ \A q \in Producers : q = p
        /\ TypeOK /\ tail.ptr \in Linked(s)
    BY OneParts, Parts
  <1>2. PICK k \in 1..Len(s) : tail.ptr = s[k]
    BY <1>1, ListRule
  <1>3. /\ Queued \in Seq(Items \cup {NoItem}) /\ Len(Queued) = k - 1
        /\ \A i \in 1..(k - 1) : Queued[i] = made[s[i + 1]]
        /\ Queued = <<>> <=> head.ptr = tail.ptr
    BY <1>1, <1>2, QueuedRule
  <1>4. Len(s) \in Nat \ {0}
    BY <1>1, ListRule
  <1>5. Len(Queued) \in Nat /\ Len(Queued) + 1 = k /\ Len(delivered) \in Nat
    BY <1>1, <1>3, <1>4
  <1>6. DOMAIN delivered = 1..Len(delivered) /\ DOMAIN Queued = 1..Len(Queued)
    BY <1>1, <1>3
  <1>7. \A i \in 1..Len(delivered) : \E p \in Producers : delivered[i] = <<p, i>>
    BY <1>1 DEF OrderInv
  <1>8. ASSUME NEW i \in 1..Len(Queued)
        PROVE  \E p \in Producers : Queued[i] = <<p, Len(delivered) + i>>
    <2>1. i \in 1..(k - 1) /\ i \in 1..(Len(s) - 1)
      BY <1>4, <1>5, <1>8
    <2>2. QED
      BY <1>1, <1>3, <2>1 DEF OrderInv
  <1>9. ASSUME NEW p \in Producers
        PROVE  Entered(p) <=> sent[p] # 0 /\ sent[p] <= Len(delivered) + Len(Queued)
    <2>1. sent[p] \in Nat /\ \A q \in Producers : q = p
      BY <1>1
    <2>2. <<p, sent[p]>> \in {delivered[i] : i \in DOMAIN delivered} <=> sent[p] \in 1..Len(delivered)
      BY <1>6, <1>7, <2>1
    <2>3. <<p, sent[p]>> \in {Queued[i] : i \in DOMAIN Queued}
            <=> \E i \in 1..Len(Queued) : sent[p] = Len(delivered) + i
      <3>1. \A i \in 1..Len(Queued) : Queued[i] = <<p, Len(delivered) + i>>
        BY <1>8, <2>1
      <3>2. \A i \in 1..Len(Queued) : <<p, sent[p]>> = Queued[i] <=> sent[p] = Len(delivered) + i
        BY <3>1
      <3>3. QED
        BY <1>6, <3>2
    <2>4. (\E i \in 1..Len(Queued) : sent[p] = Len(delivered) + i)
            <=> sent[p] > Len(delivered) /\ sent[p] <= Len(delivered) + Len(Queued)
      <3>1. ASSUME sent[p] > Len(delivered), sent[p] <= Len(delivered) + Len(Queued)
            PROVE  sent[p] - Len(delivered) \in 1..Len(Queued) /\ sent[p] = Len(delivered) + (sent[p] - Len(delivered))
        BY <1>5, <2>1, <3>1
      <3>2. ASSUME NEW i \in 1..Len(Queued), sent[p] = Len(delivered) + i
            PROVE  sent[p] > Len(delivered) /\ sent[p] <= Len(delivered) + Len(Queued)
        BY <1>5, <2>1, <3>2
      <3>3. QED
        BY <3>1, <3>2
    <2>5. (sent[p] \in 1..Len(delivered) \/ (sent[p] > Len(delivered) /\ sent[p] <= Len(delivered) + Len(Queued)))
            <=> sent[p] # 0 /\ sent[p] <= Len(delivered) + Len(Queued)
      BY <1>5, <2>1
    <2>6. QED
      BY <2>2, <2>3, <2>4, <2>5 DEF Entered
  <1>10. QED
    BY <1>2, <1>3, <1>5, <1>9 DEF Seen

LEMMA SeenNext ==
  \A s, w : OneProducer /\ Plain /\ OneInv(s, w)' => Seen(s)'
  <1>1. (\A s, w : OneProducer /\ Plain /\ OneInv(s, w) => Seen(s))'
    BY SeenRule, PTL
  <1>2. QED
    BY <1>1

Calls == [t \in Threads |-> CallOf(t)]

LEMMA MoveRule ==
  ASSUME NEW t \in Threads, NEW x, NEW y, CallOf(t) = x, CallOf(t)' = y,
         \A u \in Threads : u # t => CallOf(u)' = CallOf(u)
  PROVE  Fifo!Move(t, x, y)
  BY DEF Fifo!Move

\* The queue and the history stand still: a thread changes its own call at most.
LEMMA QuietCalls ==
  ASSUME Queued' = Queued, sent' = sent, delivered' = delivered,
         NEW t \in Threads, \A u \in Threads : u # t => pc'[u] = pc[u]
  PROVE  /\ \A u \in Threads : u # t => CallOf(u)' = CallOf(u)
         /\ CallOf(t)' = CallOf(t) /\ lacked' = lacked => UNCHANGED Fifo!vars
  <1>1. \A p : Entered(p)' <=> Entered(p)
    BY DEF Entered
  <1>2. \A u \in Threads : u # t => CallOf(u)' = CallOf(u)
    BY <1>1 DEF CallOf
  <1>3. CallOf(t)' = CallOf(t) /\ lacked' = lacked => UNCHANGED Fifo!vars
    BY <1>2 DEF Fifo!vars
  <1>4. QED
    BY <1>2, <1>3

LEMMA QueuedFrame ==
  ASSUME UNCHANGED <<head, tail, next, made>>
  PROVE  Queued' = Queued
  BY DEF Queued, TailAt, Chain

\* A list that goes on as it was, with the tail where it was.
LEMMA QueuedKept ==
  ASSUME NEW s, NEW u, IsList(s), Seen(s), IsList(u)', Seen(u)', tail'.ptr = tail.ptr,
         \A i \in 1..Len(s) : i \in 1..Len(u) /\ u[i] = s[i] /\ made'[s[i]] = made[s[i]]
  PROVE  Queued' = Queued
  <1>1. Len(s) \in Nat \ {0}
    BY ListRule
  <1>2. \A i, j \in 1..Len(u) : u[i] = u[j] => i = j
    BY DEF IsList, Run
  <1>3. Len(Queued) + 1 \in 1..Len(s) /\ Len(Queued)' + 1 \in 1..Len(u) /\ Len(Queued) \in Nat /\ Len(Queued)' \in Nat
    BY DEF Seen
  <1>4. u[Len(Queued) + 1] = u[Len(Queued)' + 1]
    BY <1>3 DEF Seen
  <1>5. Len(Queued) + 1 = Len(Queued)' + 1
    BY <1>2, <1>3, <1>4
  <1>6. Len(Queued') = Len(Queued)
    BY <1>3, <1>5
  <1>7. \A i \in 1..Len(Queued) : Queued'[i] = Queued[i]
    <2>1. ASSUME NEW i \in 1..Len(Queued)
          PROVE  Queued'[i] = Queued[i]
      <3>1. i + 1 \in 1..Len(s)
        BY <1>1, <1>3, <2>1
      <3>2. Queued'[i] = made'[u[i + 1]] /\ Queued[i] = made[s[i + 1]]
        BY <1>6, <2>1 DEF Seen
      <3>3. QED
        BY <3>1, <3>2
    <2>2. QED
      BY <2>1
  <1>8. Queued \in Seq(Items \cup {NoItem}) /\ Queued' \in Seq(Items \cup {NoItem})
    BY DEF Seen
  <1>9. QED
    BY <1>6, <1>7, <1>8

\* The tail that reaches the end of the list brings the last item in.
LEMMA EnterRule ==
  ASSUME NEW s, IsList(s), Seen(s), TailInv(s), Seen(s)', tail.ptr # s[Len(s)], tail'.ptr = s[Len(s)],
         UNCHANGED <<made, sent, delivered>>, NEW p \in Producers, sent[p] \in Nat,
         sent[p] = Len(delivered) + Len(s) - 1, made[s[Len(s)]] = <<p, sent[p]>>
  PROVE  Queued' = Append(Queued, <<p, sent[p]>>) /\ ~Entered(p)
  <1>1. /\ Len(s) \in Nat \ {0} /\ \A i, j \in 1..Len(s) : s[i] = s[j] => i = j
    BY ListRule
  <1>2. /\ Len(Queued) \in Nat /\ Len(Queued') \in Nat /\ Len(delivered) \in Nat
        /\ Len(Queued) + 1 \in 1..Len(s) /\ Len(Queued') + 1 \in 1..Len(s)
        /\ tail.ptr = s[Len(Queued) + 1] /\ tail'.ptr = s[Len(Queued') + 1]
    BY DEF Seen
  <1>3. Len(Queued') + 1 = Len(s)
    <2>1. Len(s) \in 1..Len(s)
      BY <1>1
    <2>2. QED
      BY <1>1, <1>2, <2>1
  <1>4. Len(Queued) + 1 = Len(s) - 1
    <2>1. Len(s) > 1 /\ tail.ptr = s[Len(s) - 1]
      BY DEF TailInv
    <2>2. Len(s) - 1 \in 1..Len(s)
      BY <1>1, <2>1
    <2>3. QED
      BY <1>1, <1>2, <2>1, <2>2
  <1>5. Len(Queued') = Len(Queued) + 1 /\ Len(Queued') \in 1..Len(Queued') /\ Len(Queued) + 2 = Len(s)
    BY <1>1, <1>2, <1>3, <1>4
  <1>6. \A i \in 1..Len(Queued) : i \in 1..Len(Queued')
    BY <1>2, <1>5
  <1>7. Queued'[Len(Queued) + 1] = <<p, sent[p]>>
    <2>1. Queued'[Len(Queued')] = made'[s[Len(Queued') + 1]]
      BY <1>5 DEF Seen
    <2>2. QED
      BY <1>3, <1>5, <2>1
  <1>8. \A i \in 1..Len(Queued) : Queued'[i] = Queued[i]
    BY <1>6 DEF Seen
  <1>9. Queued \in Seq(Items \cup {NoItem}) /\ Queued' \in Seq(Items \cup {NoItem})
    BY DEF Seen
  <1>10. Queued' = Append(Queued, <<p, sent[p]>>)
    <2> DEFINE q == Queued
               r == Queued'
               x == <<p, sent[p]>>
    <2>1. /\ q \in Seq(Items \cup {NoItem}) /\ r \in Seq(Items \cup {NoItem}) /\ Len(r) = Len(q) + 1
          /\ r[Len(q) + 1] = x /\ \A i \in 1..Len(q) : r[i] = q[i]
      BY <1>5, <1>7, <1>8, <1>9
    <2> HIDE DEF q, r, x
    <2>2. x \in Items \cup {NoItem}
      <3>1. Len(q) + 1 \in 1..Len(r)
        BY <2>1
      <3>2. QED
        BY <2>1, <3>1
    <2>3. Append(q, x) \in Seq(Items \cup {NoItem}) /\ Len(Append(q, x)) = Len(q) + 1
          /\ Append(q, x)[Len(q) + 1] = x /\ \A i \in 1..Len(q) : Append(q, x)[i] = q[i]
      BY <2>1, <2>2
    <2>4. \A i \in 1..Len(r) : i \in 1..Len(q) \/ i = Len(q) + 1
      BY <2>1
    <2>5. \A i \in 1..Len(r) : r[i] = Append(q, x)[i]
      BY <2>1, <2>3, <2>4
    <2>6. r = Append(q, x)
      BY <2>1, <2>3, <2>5
    <2>7. QED
      BY <2>6 DEF q, r, x
  <1>11. ~(sent[p] <= Len(delivered) + Len(Queued))
    BY <1>1, <1>2, <1>4
  <1>12. QED
    BY <1>10, <1>11 DEF Seen

\* What a step of an enqueue is to the callers.
LEMMA ProducerRefines ==
  ASSUME OneProducer, Plain, NEW s, NEW w, OneInv(s, w), NEW p \in Producers, Allocate(p) \/ Enqueue(p)
  PROVE  [Fifo!Next]_(Fifo!vars)
  <1>1. /\ IsList(s) /\ TailInv(s) /\ LoneOK(p, s, w) /\ OrderInv(s)
        /\ p \in Threads /\ p \notin Consumers
        /\ pc \in [Threads -> Places] /\ sent \in [Producers -> 0..MaxItems] /\ sent[p] \in Nat
    BY OneParts
  <1>2. Seen(s) /\ Len(s) \in Nat \ {0} /\ Len(s) \in 1..Len(s)
    <2>1. Len(s) \in Nat \ {0}
      BY <1>1, ListRule
    <2>2. QED
      BY <2>1, SeenRule
  <1>3. \A i, j \in 1..Len(s) : s[i] = s[j] => i = j
    BY <1>1, ListRule
  <1>4. sent[p] \in Nat /\ Len(delivered) \in Nat /\ Len(Queued) \in Nat
        /\ sent[p] = Len(delivered) + Len(s) - 1 + (IF pc[p] \in Making THEN 1 ELSE 0)
    <2>1. sent[p] = Len(delivered) + Len(s) - 1 + (IF pc[p] \in Making THEN 1 ELSE 0)
      BY <1>1 DEF OrderInv
    <2>2. Len(delivered) \in Nat /\ Len(Queued) \in Nat
      BY <1>2 DEF Seen
    <2>3. sent[p] \in Nat
      BY <1>1
    <2>4. QED
      BY <2>1, <2>2, <2>3
  <1>5. \A q \in Producers : q = p
    BY DEF OneProducer
  <1>6. CASE EnqueueLoadTail(p) \/ EnqueueLoadNext(p) \/ EnqueueCheckTail(p)
    <2>1. /\ \A u \in Threads : u # p => pc'[u] = pc[u]
          /\ pc[p] # "idle" /\ pc'[p] # "idle" /\ UNCHANGED <<shared, history>>
      BY <1>1, <1>6 DEF EnqueueLoadTail, EnqueueLoadNext, EnqueueCheckTail, Goto, shared, history
    <2>2. Queued' = Queued
      BY <2>1, QueuedFrame DEF shared, history
    <2>3. CallOf(p)' = CallOf(p)
      BY <1>1, <2>1, <2>2 DEF CallOf, Entered, history
    <2>4. QED
      BY <1>1, <2>1, <2>2, <2>3, QuietCalls DEF history
  <1>7. CASE Link(p)
    <2>1. PICK u, v : OneInv(u, v)' /\ \A i \in 1..Len(s) : i \in 1..Len(u) /\ u[i] = s[i]
      BY <1>7, OneLinks
    <2>2. IsList(u)' /\ Seen(u)'
      BY <2>1, SeenNext DEF OneInv, QueueInv, ListInv
    <2>3. /\ \A t \in Threads : t # p => pc'[t] = pc[t]
          /\ pc[p] # "idle" /\ pc'[p] # "idle" /\ UNCHANGED <<head, tail, history>>
      BY <1>1, <1>7 DEF Link, Goto, history
    <2>4. \A i \in 1..Len(s) : i \in 1..Len(u) /\ u[i] = s[i] /\ made'[s[i]] = made[s[i]]
      BY <2>1, <2>3 DEF history
    <2>5. Queued' = Queued
      BY <1>1, <1>2, <2>2, <2>3, <2>4, QueuedKept
    <2>6. CallOf(p)' = CallOf(p)
      BY <1>1, <2>3, <2>5 DEF CallOf, Entered, history
    <2>7. QED
      BY <1>1, <2>3, <2>5, <2>6, QuietCalls DEF history
  <1>8. CASE Allocate(p)
    <2>1. (\E v : OneInv(s, v)') /\ \A i \in 1..Len(s) : made'[s[i]] = made[s[i]]
      BY <1>8, OneAllocates
    <2>2. IsList(s)' /\ Seen(s)'
      BY <2>1, SeenNext DEF OneInv, QueueInv, ListInv
    <2>3. /\ \A t \in Threads : t # p => pc'[t] = pc[t]
          /\ pc[p] = "idle" /\ pc'[p] # "idle" /\ sent' = [sent EXCEPT ![p] = @ + 1]
          /\ UNCHANGED <<head, tail, delivered, lacked>> /\ ~destroyed
      BY <1>1, <1>8 DEF Allocate, Goto
    <2>4. \A i \in 1..Len(s) : i \in 1..Len(s) /\ s[i] = s[i] /\ made'[s[i]] = made[s[i]]
      BY <2>1
    <2>5. Queued' = Queued
      BY <1>1, <1>2, <2>2, <2>3, <2>4, QueuedKept
    <2>6. sent'[p] = sent[p] + 1
      BY <1>1, <2>3
    <2>7. ~(sent'[p] <= Len(delivered) + Len(Queued))
      <3>1. sent[p] = Len(delivered) + Len(s) - 1
        BY <1>2, <1>4, <2>3 DEF Making
      <3>2. Len(Queued) + 1 <= Len(s)
        BY <1>2, <1>4 DEF Seen
      <3>3. QED
        BY <1>2, <1>4, <2>6, <3>1, <3>2
    <2>8. ~Entered(p)'
      BY <2>2, <2>3, <2>5, <2>7 DEF Seen
    <2>9. CallOf(p) = "idle" /\ CallOf(p)' = "enqueue"
      BY <2>3, <2>8 DEF CallOf
    <2>10. \A t \in Threads : t # p => CallOf(t)' = CallOf(t)
      BY <1>5, <2>3 DEF CallOf
    <2>11. Fifo!Move(p, "idle", "enqueue")
      BY <1>1, <2>9, <2>10, MoveRule
    <2>12. Fifo!Enqueue(p)
      BY <2>3, <2>5, <2>11 DEF Fifo!Enqueue
    <2>13. QED
      BY <2>12 DEF Fifo!Next
  <1>9. CASE SwingTail(p)
    <2>1. OneInv(s, w)' /\ tail'.ptr = s[Len(s)]
      BY <1>9, LoneSwings
    <2>2. IsList(s)' /\ Seen(s)'
      BY <2>1, SeenNext DEF OneInv, QueueInv, ListInv
    <2>3. /\ \A t \in Threads : t # p => pc'[t] = pc[t]
          /\ pc[p] = "swing" /\ pc'[p] = "idle"
          /\ UNCHANGED <<head, history>>
      BY <1>1, <1>9 DEF SwingTail, Return, Goto
    <2>4. tail'.ptr = s[Len(s)]
      BY <2>1
    <2>5. sent[p] = Len(delivered) + Len(s) - 1 /\ sent[p] # 0 /\ made[s[Len(s)]] = <<p, sent[p]>>
      <3>1. pc[p] \notin Making
        BY <2>3 DEF Making
      <3>2. QED
        BY <1>1, <1>2, <1>4, <2>3, <3>1 DEF LoneOK
    <2>6. \A t \in Threads : t # p => CallOf(t)' = CallOf(t)
      BY <1>5, <2>3 DEF CallOf
    <2>7. CallOf(p)' = "idle"
      BY <2>3 DEF CallOf
    <2>8. CASE tail.ptr = s[Len(s)]
      <3>1. Queued' = Queued
        BY <1>1, <1>2, <2>2, <2>3, <2>4, <2>8, QueuedKept DEF history
      <3>2. Len(Queued) + 1 = Len(s)
        BY <1>2, <1>3, <2>8 DEF Seen
      <3>3. sent[p] <= Len(delivered) + Len(Queued)
        BY <1>2, <1>4, <2>5, <3>2
      <3>4. CallOf(p) = "entered"
        BY <1>2, <2>3, <2>5, <3>3 DEF CallOf, Seen
      <3>5. Fifo!Move(p, "entered", "idle")
        BY <1>1, <2>6, <2>7, <3>4, MoveRule
      <3>6. Fifo!Entered(p)
        BY <2>3, <3>1, <3>5 DEF Fifo!Entered, history
      <3>7. QED
        BY <3>6 DEF Fifo!Next
    <2>9. CASE tail.ptr # s[Len(s)]
      <3>1. Queued' = Append(Queued, <<p, sent[p]>>) /\ ~Entered(p)
        BY <1>1, <1>2, <1>3, <1>4, <2>2, <2>3, <2>4, <2>5, <2>9, EnterRule DEF history
      <3>2. CallOf(p) = "enqueue"
        BY <2>3, <3>1 DEF CallOf
      <3>3. Fifo!Move(p, "enqueue", "idle")
        BY <1>1, <2>6, <2>7, <3>2, MoveRule
      <3>4. Fifo!Enter(p)
        BY <2>3, <3>1, <3>3 DEF Fifo!Enter, history
      <3>5. QED
        BY <3>4 DEF Fifo!Next
    <2>10. QED
      BY <2>8, <2>9
  <1>10. QED
    BY <1>6, <1>7, <1>8, <1>9, EnqueueHelpNever DEF Enqueue

\* Reading on does not show; a call that starts or ends does.
LEMMA ReadRefines ==
  ASSUME OneProducer, Plain, NEW s, NEW w, OneInv(s, w), NEW c \in Consumers,
         \/ DequeueLoadHead(c) \/ DequeueLoadTail(c) \/ DequeueLoadNext(c) \/ DequeueCheckHead(c)
         \/ DequeueFails(c) \/ MoveValue(c) \/ (SwapHead(c) /\ ~HeadHeld(c))
  PROVE  [Fifo!Next]_(Fifo!vars)
  <1>1. /\ c \in Threads /\ c \notin Producers /\ ConsumerOK(c, s) /\ pc \in [Threads -> Places] /\ Seen(s)
    BY OneParts, Parts, SeenRule
  <1>2. UNCHANGED <<head, tail, next, made, sent, delivered>> /\ \A t \in Threads : t # c => pc'[t] = pc[t]
    BY <1>1 DEF DequeueLoadHead, DequeueLoadTail, DequeueLoadNext, DequeueCheckHead, DequeueFails, MoveValue,
                SwapHead, HeadHeld, Return, Goto, shared, history
  <1>3. Queued' = Queued
    BY <1>2, QueuedFrame
  <1>4. /\ \A t \in Threads : t # c => CallOf(t)' = CallOf(t)
        /\ CallOf(c)' = CallOf(c) /\ lacked' = lacked => UNCHANGED Fifo!vars
    BY <1>1, <1>2, <1>3, QuietCalls
  <1>5. CASE DequeueLoadHead(c) /\ pc[c] = "idle"
    <2>1. CallOf(c) = "idle" /\ CallOf(c)' = "try_dequeue"
      BY <1>1, <1>5 DEF DequeueLoadHead, Goto, CallOf
    <2>2. Fifo!Move(c, "idle", "try_dequeue")
      BY <1>1, <1>4, <2>1, MoveRule
    <2>3. Fifo!Ask(c)
      BY <1>2, <1>3, <1>5, <2>2 DEF DequeueLoadHead, Call, Fifo!Ask
    <2>4. QED
      BY <2>3 DEF Fifo!Next
  <1>6. CASE DequeueFails(c)
    <2>1. c \in lacked
      BY <1>1, <1>6 DEF DequeueFails, HeadHeld, Return, Goto, ConsumerOK
    <2>2. CallOf(c) = "try_dequeue" /\ CallOf(c)' = "idle"
      BY <1>1, <1>6 DEF DequeueFails, Return, Goto, CallOf
    <2>3. Fifo!Move(c, "try_dequeue", "idle")
      BY <1>1, <1>4, <2>2, MoveRule
    <2>4. Fifo!Answer(c)
      BY <1>2, <1>3, <1>6, <2>1, <2>3 DEF DequeueFails, Fifo!Answer
    <2>5. QED
      BY <2>4 DEF Fifo!Next
  <1>7. CASE \/ DequeueLoadHead(c) /\ pc[c] # "idle"
             \/ DequeueLoadTail(c) \/ DequeueLoadNext(c) \/ DequeueCheckHead(c)
             \/ MoveValue(c) \/ (SwapHead(c) /\ ~HeadHeld(c))
    <2>1. /\ pc[c] \in {"loadHead"} \cup Reading /\ pc'[c] \in {"loadHead", "help"} \cup Reading
          /\ lacked' = lacked
      BY <1>1, <1>7 DEF DequeueLoadHead, DequeueLoadTail, DequeueLoadNext, DequeueCheckHead, MoveValue,
                  SwapHead, HeadHeld, Goto, Call, Reading, history
    <2>2. CallOf(c) = "try_dequeue" /\ CallOf(c)' = "try_dequeue"
      BY <1>1, <2>1 DEF CallOf, Reading
    <2>3. QED
      BY <1>4, <2>1, <2>2
  <1>8. QED
    BY <1>5, <1>6, <1>7

\* A consumer that helps lets the item of the producer in.
LEMMA HelpRefines ==
  ASSUME OneProducer, Plain, NEW s, NEW w, OneInv(s, w), NEW c \in Consumers, DequeueHelp(c)
  PROVE  [Fifo!Next]_(Fifo!vars)
  <1>1. OneInv(s, w)' /\ (tail' # tail => /\ tail.ptr # s[Len(s)] /\ tail'.ptr = s[Len(s)]
                                         /\ \E p \in Producers : pc[p] = "swing")
    BY OneHelps
  <1>2. /\ c \in Threads /\ c \notin Producers /\ pc \in [Threads -> Places] /\ Seen(s) /\ Seen(s)'
        /\ IsList(s) /\ TailInv(s) /\ OrderInv(s) /\ IsList(s)'
    BY <1>1, OneParts, SeenRule, SeenNext DEF OneInv, QueueInv, ListInv
  <1>3. /\ UNCHANGED <<head, next, history>> /\ \A t \in Threads : t # c => pc'[t] = pc[t]
        /\ pc[c] = "help" /\ pc'[c] = "loadHead"
    BY <1>2 DEF DequeueHelp, HelpTail, Goto
  <1>4. CallOf(c) = "try_dequeue" /\ CallOf(c)' = "try_dequeue"
    BY <1>2, <1>3 DEF CallOf
  <1>5. CASE tail'.ptr = tail.ptr
    <2>1. Queued' = Queued
      <3>1. Len(s) \in Nat
        BY <1>2, ListRule
      <3>2. QED
        BY <1>2, <1>3, <1>5, <3>1, QueuedKept DEF history
    <2>2. QED
      BY <1>2, <1>3, <1>4, <2>1, QuietCalls DEF history
  <1>6. CASE tail'.ptr # tail.ptr
    <2>1. tail' # tail
      BY <1>6
    <2>2. tail.ptr # s[Len(s)] /\ tail'.ptr = s[Len(s)]
      BY <1>1, <2>1
    <2>3. PICK q \in Producers : pc[q] = "swing"
      BY <1>1, <2>1
    <2>4. /\ q \in Threads /\ q # c /\ pc'[q] = "swing" /\ LoneOK(q, s, w) /\ sent[q] \in Nat
          /\ \A p \in Producers : p = q
      BY <1>2, <1>3, <2>3, OneParts
    <2>5. sent[q] = Len(delivered) + Len(s) - 1 /\ sent[q] # 0 /\ made[s[Len(s)]] = <<q, sent[q]>>
      <3>1. pc[q] \notin Making
        BY <2>3 DEF Making
      <3>2. sent[q] = Len(delivered) + Len(s) - 1 + 0
        BY <1>2, <3>1 DEF OrderInv
      <3>3. Len(s) \in Nat /\ Len(delivered) \in Nat
        BY <1>2, ListRule DEF Seen
      <3>4. sent[q] = Len(delivered) + Len(s) - 1
        BY <3>2, <3>3
      <3>5. QED
        BY <2>3, <2>4, <3>4 DEF LoneOK
    <2>6. Queued' = Append(Queued, <<q, sent[q]>>) /\ ~Entered(q)
      BY <1>2, <1>3, <2>2, <2>4, <2>5, EnterRule DEF history
    <2>7. Entered(q)'
      <3>1. Len(Queued') + 1 = Len(s) /\ Len(Queued') \in Nat
        <4>1. Len(Queued') + 1 \in 1..Len(s) /\ s[Len(Queued') + 1] = s[Len(s)] /\ Len(Queued') \in Nat
          BY <1>2, <2>2 DEF Seen
        <4>2. Len(s) \in Nat \ {0} /\ \A i, j \in 1..Len(s) : s[i] = s[j] => i = j
          BY <1>2, ListRule
        <4>3. Len(s) \in 1..Len(s)
          BY <4>2
        <4>4. QED
          BY <4>1, <4>2, <4>3
      <3>2. Len(delivered) \in Nat
        BY <1>2 DEF Seen
      <3>3. sent[q] <= Len(delivered) + Len(Queued')
        BY <2>4, <2>5, <3>1, <3>2
      <3>4. QED
        BY <1>2, <1>3, <2>5, <3>3 DEF Seen, history
    <2>8. CallOf(q) = "enqueue" /\ CallOf(q)' = "entered"
      BY <2>3, <2>4, <2>6, <2>7 DEF CallOf
    <2>9. \A t \in Threads : t # q => CallOf(t)' = CallOf(t)
      BY <1>3, <1>4, <2>4 DEF CallOf
    <2>10. Fifo!Move(q, "enqueue", "entered")
      BY <2>4, <2>8, <2>9, MoveRule
    <2>11. Fifo!Enter(q)
      BY <1>3, <2>6, <2>10 DEF Fifo!Enter, history
    <2>12. QED
      BY <2>11 DEF Fifo!Next
  <1>7. QED
    BY <1>5, <1>6

\* The consumer that swaps the head takes the first item.
LEMMA SwapRefines ==
  ASSUME OneProducer, Plain, NEW s, NEW w, OneInv(s, w), NEW c \in Consumers, SwapHead(c), HeadHeld(c)
  PROVE  [Fifo!Next]_(Fifo!vars)
  <1> DEFINE u == Tail(s)
  <1>1. OneInv(u, w)' /\ Len(s) > 1 /\ tail.ptr # head.ptr /\ local[c].value = made[s[2]]
    BY OneTakes
  <1>2. /\ c \in Threads /\ c \notin Producers /\ pc \in [Threads -> Places] /\ Seen(s) /\ Seen(u)'
        /\ IsList(s) /\ IsList(u)' /\ Producers \subseteq Threads
        /\ Consumers \subseteq Threads
        /\ delivered \in Seq(Items \cup {NoItem}) /\ local[c] \in Locals
    BY <1>1, OneParts, Parts, SeenRule, SeenNext DEF OneInv, QueueInv, ListInv, Threads
  <1>3. /\ pc[c] = "swap" /\ pc'[c] = "free" /\ \A t \in Threads : t # c => pc'[t] = pc[t]
        /\ head = local[c].head /\ delivered' = Append(delivered, local[c].value)
        /\ lacked' = (IF Len(Queued) <= 1 THEN {d \in Consumers : pc[d] # "idle"} ELSE lacked)
        /\ UNCHANGED <<tail, next, made, sent>>
    BY <1>2 DEF SwapHead, HeadHeld, Goto
  <1>4. /\ Len(s) > 1 /\ tail.ptr # head.ptr /\ local[c].value = made[s[2]]
    BY <1>1
  <1>5. /\ Len(u) = Len(s) - 1 /\ \A i \in 1..Len(u) : u[i] = s[i + 1] /\ i + 1 \in 2..Len(s)
        /\ Len(s) \in Nat \ {0} /\ \A i, j \in 1..Len(s) : s[i] = s[j] => i = j
    BY <1>2, <1>4, RunRest, ListRule DEF IsList
  <1> HIDE DEF u
  <1> DEFINE q == Queued
             r == Queued'
  <1>6. /\ q \in Seq(Items \cup {NoItem}) /\ r \in Seq(Items \cup {NoItem})
        /\ Len(q) \in Nat /\ Len(r) \in Nat /\ Len(q) + 1 \in 1..Len(s) /\ Len(r) + 1 \in 1..Len(u)
        /\ s[Len(q) + 1] = u[Len(r) + 1]
        /\ \A i \in 1..Len(q) : q[i] = made[s[i + 1]]
        /\ \A i \in 1..Len(r) : r[i] = made[u[i + 1]]
        /\ q # <<>>
    BY <1>2, <1>3, <1>4 DEF Seen
  <1> HIDE DEF q, r
  <1>7. Len(q) = Len(r) + 1
    <2>1. (Len(r) + 1) + 1 \in 1..Len(s) /\ u[Len(r) + 1] = s[(Len(r) + 1) + 1]
      BY <1>5, <1>6
    <2>2. Len(q) + 1 = (Len(r) + 1) + 1
      BY <1>5, <1>6, <2>1
    <2>3. QED
      BY <1>6, <2>2
  <1>8. q[1] = made[s[2]]
    <2>1. 1 \in 1..Len(q) /\ 1 + 1 = 2
      BY <1>6, <1>7
    <2>2. QED
      BY <1>6, <2>1
  <1>9. r = Tail(q) /\ Head(q) = q[1]
    <2>1. Tail(q) \in Seq(Items \cup {NoItem}) /\ Len(Tail(q)) = Len(r) /\ \A i \in 1..Len(r) : Tail(q)[i] = q[i + 1]
      BY <1>6, <1>7
    <2>2. ASSUME NEW i \in 1..Len(r)
          PROVE  r[i] = q[i + 1]
      <3>1. i + 1 \in 1..Len(q) /\ i + 1 \in 1..Len(u)
        BY <1>5, <1>6, <1>7, <2>2
      <3>2. r[i] = made[u[i + 1]] /\ u[i + 1] = s[(i + 1) + 1] /\ q[i + 1] = made[s[(i + 1) + 1]]
        BY <1>5, <1>6, <2>2, <3>1
      <3>3. QED
        BY <3>2
    <2>3. r = Tail(q)
      BY <1>6, <2>1, <2>2
    <2>4. QED
      BY <2>3
  <1>10. ASSUME NEW p \in Producers
         PROVE  Entered(p)' <=> Entered(p)
    <2>1. Len(delivered') = Len(delivered) + 1 /\ Len(delivered) \in Nat
      <3>1. local[c].value \in Items \cup {NoItem}
        BY <1>2, LocalTypes
      <3>2. QED
        BY <1>2, <1>3, <3>1
    <2>2. Len(delivered') + Len(r) = Len(delivered) + Len(q)
      BY <1>6, <1>7, <2>1
    <2>3. QED
      BY <1>2, <1>3, <2>2 DEF Seen, q, r
  <1>11. \A t \in Threads : t # c => CallOf(t)' = CallOf(t)
    BY <1>3, <1>10 DEF CallOf
  <1>12. CallOf(c) = "try_dequeue" /\ CallOf(c)' = "delivered"
    BY <1>2, <1>3 DEF CallOf
  <1>13. Fifo!Move(c, "try_dequeue", "delivered")
    BY <1>2, <1>11, <1>12, MoveRule
  <1>14. \A d \in Consumers : d \in Threads /\ (CallOf(d) # "idle" <=> pc[d] # "idle")
    BY <1>2 DEF CallOf
  <1>15. r = <<>> <=> Len(q) <= 1
    <2>1. r = <<>> <=> Len(r) = 0
      BY <1>6
    <2>2. QED
      BY <1>6, <1>7, <2>1
  <1>16. lacked' = IF r = <<>> THEN {d \in Consumers : CallOf(d) # "idle"} ELSE lacked
    BY <1>3, <1>14, <1>15 DEF q
  <1>17. lacked' = IF r = <<>> THEN {d \in Consumers : [t \in Threads |-> CallOf(t)][d] # "idle"} ELSE lacked
    BY <1>14, <1>16
  <1>18. Queued # <<>> /\ Queued' = Tail(Queued) /\ delivered' = Append(delivered, Head(Queued))
    BY <1>3, <1>4, <1>6, <1>8, <1>9 DEF q, r
  <1>19. Fifo!Deliver(c)
    BY <1>3, <1>13, <1>17, <1>18 DEF Fifo!Deliver, r
  <1>20. QED
    BY <1>19 DEF Fifo!Next

LEMMA FreeRefines ==
  ASSUME OneProducer, Plain, NEW s, NEW w, OneInv(s, w), NEW c \in Consumers, Free(c)
  PROVE  [Fifo!Next]_(Fifo!vars)
  <1>1. OneInv(s, w)'
    BY OneReads
  <1>2. /\ c \in Threads /\ c \notin Producers /\ pc \in [Threads -> Places] /\ Seen(s) /\ Seen(s)'
        /\ IsList(s) /\ IsList(s)' /\ Len(s) \in Nat
    BY <1>1, OneParts, SeenRule, SeenNext DEF OneInv, QueueInv, ListInv
  <1>3. /\ pc[c] = "free" /\ pc'[c] = "idle" /\ \A t \in Threads : t # c => pc'[t] = pc[t]
        /\ lacked' = lacked \ {c} /\ UNCHANGED <<head, tail, made, sent, delivered>>
    BY <1>2 DEF Free, Return, Goto
  <1>4. Queued' = Queued
    BY <1>2, <1>3, QueuedKept
  <1>5. \A t \in Threads : t # c => CallOf(t)' = CallOf(t)
    BY <1>2, <1>3, <1>4, QuietCalls
  <1>6. CallOf(c) = "delivered" /\ CallOf(c)' = "idle"
    BY <1>2, <1>3 DEF CallOf
  <1>7. Fifo!Move(c, "delivered", "idle")
    BY <1>2, <1>5, <1>6, MoveRule
  <1>8. Fifo!Answer(c)
    BY <1>3, <1>4, <1>7 DEF Fifo!Answer
  <1>9. QED
    BY <1>8 DEF Fifo!Next

\* empty() knows at its second load what to answer, if it is called by the only consumer.
LEMMA EmptyRefines ==
  ASSUME OneProducer, Plain, \A a \in Askers : Consumers = {a}, NEW s, NEW w, OneInv(s, w),
         NEW c \in Consumers, Empty(c)
  PROVE  [Fifo!Next]_(Fifo!vars)
  <1>1. /\ c \in Threads /\ c \notin Producers /\ ConsumerOK(c, s) /\ AloneOK(c) /\ LackedOK(c)
        /\ pc \in [Threads -> Places] /\ Seen(s)
    BY OneParts, Parts, SeenRule
  <1>2. UNCHANGED <<head, tail, next, made, sent, delivered>> /\ \A t \in Threads : t # c => pc'[t] = pc[t]
    BY <1>1 DEF Empty, EmptyLoadFirst, EmptyLoadSecond, EmptyReturn, Return, Goto, shared, history
  <1>3. Queued' = Queued
    BY <1>2, QueuedFrame
  <1>4. \A t \in Threads : t # c => CallOf(t)' = CallOf(t)
    BY <1>1, <1>2, <1>3, QuietCalls
  <1>5. CASE EmptyLoadFirst(c)
    <2>1. CallOf(c) = "idle" /\ CallOf(c)' = "empty"
      BY <1>1, <1>5 DEF EmptyLoadFirst, Goto, CallOf
    <2>2. Fifo!Move(c, "idle", "empty") /\ pc[c] = "idle"
      BY <1>1, <1>4, <1>5, <2>1, MoveRule DEF EmptyLoadFirst, Goto
    <2>3. Fifo!Ask(c)
      BY <1>2, <1>3, <1>5, <2>2 DEF EmptyLoadFirst, Call, Fifo!Ask
    <2>4. QED
      BY <2>3 DEF Fifo!Next
  <1>6. CASE EmptyLoadSecond(c)
    <2>1. PICK x \in {"true", "false"} :
            /\ pc' = [pc EXCEPT ![c] = x]
            /\ \/ pc[c] = "askHead" /\ (x = "true" <=> local[c].tail.ptr = head.ptr)
               \/ pc[c] = "askTail" /\ (x = "true" <=> tail.ptr = local[c].head.ptr)
      BY <1>6 DEF EmptyLoadSecond, Goto
    <2>2. Consumers = {c}
      BY <1>1, <2>1 DEF ConsumerOK, Asking
    <2>3. Queued = <<>> <=> head.ptr = tail.ptr
      BY <1>1 DEF Seen
    <2>4. IF x = "true" THEN c \in lacked ELSE Queued # <<>>
      BY <1>1, <2>1, <2>2, <2>3 DEF AloneOK, LackedOK
    <2>5. CallOf(c) = "empty" /\ CallOf(c)' = x
      BY <1>1, <2>1 DEF CallOf
    <2>6. Fifo!Move(c, "empty", x)
      BY <1>1, <1>4, <2>5, MoveRule
    <2>7. Fifo!Look(c)
      BY <1>2, <1>3, <1>6, <2>1, <2>4, <2>6 DEF EmptyLoadSecond, Fifo!Look, history
    <2>8. QED
      BY <2>7 DEF Fifo!Next
  <1>7. CASE EmptyReturn(c)
    <2>1. PICK x \in {"true", "false"} : pc[c] = x /\ pc'[c] = "idle"
      BY <1>1, <1>7 DEF EmptyReturn, Return, Goto
    <2>2. CallOf(c) = x /\ CallOf(c)' = "idle"
      BY <1>1, <2>1 DEF CallOf
    <2>3. Fifo!Move(c, x, "idle")
      BY <1>1, <1>4, <2>2, MoveRule
    <2>4. Fifo!Answer(c)
      BY <1>2, <1>3, <1>7, <2>1, <2>3 DEF EmptyReturn, Fifo!Answer
    <2>5. QED
      BY <2>4 DEF Fifo!Next
  <1>8. QED
    BY <1>5, <1>6, <1>7 DEF Empty

\* The queue is linearizable: its callers cannot tell it from a sequence.  A value
\* that is moved from leaves its node empty, and empty() answers for the moment of
\* its second load only: so where values move, or where it is asked, there is one
\* consumer.
THEOREM Refinement ==
  ASSUME OneProducer, Plain, \A c \in Askers : Consumers = {c}
  PROVE  Spec => ImplementsFifoQueue
  <1>1. Init => Fifo!Init
    <2> SUFFICES ASSUME Init PROVE Fifo!Init
      OBVIOUS
    <2>1. InOneList
      BY OneStarts
    <2>2. PICK s, w : OneInv(s, w)
      BY <2>1 DEF InOneList
    <2>3. Seen(s)
      BY <2>2, SeenRule
    <2>4. head = tail /\ delivered = <<>> /\ lacked = {} /\ sent = [p \in Producers |-> 0]
          /\ pc = [t \in Threads |-> "idle"]
      BY DEF Init
    <2>5. Queued = <<>>
      BY <2>3, <2>4 DEF Seen
    <2>6. [t \in Threads |-> CallOf(t)] = [t \in Threads |-> "idle"]
      BY <2>4 DEF CallOf
    <2>7. QED
      BY <2>4, <2>5, <2>6 DEF Fifo!Init, Threads
  <1>2. InOneList /\ [Next]_vars => [Fifo!Next]_(Fifo!vars)
    <2> SUFFICES ASSUME InOneList, [Next]_vars PROVE [Fifo!Next]_(Fifo!vars)
      OBVIOUS
    <2>1. PICK s, w : OneInv(s, w)
      BY DEF InOneList
    <2>2. ASSUME NEW p \in Producers, Allocate(p) \/ Enqueue(p)
          PROVE  [Fifo!Next]_(Fifo!vars)
      BY <2>1, <2>2, ProducerRefines
    <2>3. ASSUME NEW c \in Consumers, DequeueLoadHead(c) \/ Dequeue(c) \/ Empty(c)
          PROVE  [Fifo!Next]_(Fifo!vars)
      <3>1. CASE SwapHead(c) /\ HeadHeld(c)
        BY <2>1, <3>1, SwapRefines
      <3>2. CASE DequeueHelp(c)
        BY <2>1, <3>2, HelpRefines
      <3>3. CASE Free(c)
        BY <2>1, <3>3, FreeRefines
      <3>4. CASE Empty(c)
        BY <2>1, <3>4, EmptyRefines
      <3>5. CASE \/ DequeueLoadHead(c) \/ DequeueLoadTail(c) \/ DequeueLoadNext(c) \/ DequeueCheckHead(c)
                 \/ DequeueFails(c) \/ MoveValue(c) \/ (SwapHead(c) /\ ~HeadHeld(c))
        BY <2>1, <3>5, ReadRefines
      <3>6. QED
        BY <2>3, <3>1, <3>2, <3>3, <3>4, <3>5 DEF Dequeue
    <2>4. CASE Destroy \/ UNCHANGED vars
      <3>1. UNCHANGED <<head, tail, next, pc, history>>
        BY <2>4 DEF Destroy, vars, shared
      <3>2. Queued' = Queued
        BY <3>1, QueuedFrame DEF history
      <3>3. \A t \in Threads : CallOf(t)' = CallOf(t)
        BY <3>1, <3>2 DEF CallOf, Entered, history
      <3>4. QED
        BY <3>1, <3>2, <3>3 DEF Fifo!vars, history
    <2>5. QED
      BY <2>2, <2>3, <2>4 DEF Next
  <1>3. QED
    BY <1>1, <1>2, OneInvariant, PTL DEF Spec, ImplementsFifoQueue, Fifo!Spec
=============================================================================
