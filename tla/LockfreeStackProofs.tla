------------------------ MODULE LockfreeStackProofs ------------------------
(***************************************************************************)
(* Proofs about LockfreeStack, for any number of pushers, nodes and items, *)
(* and one thread that pops and clears.                                    *)
(***************************************************************************)
EXTENDS LockfreeStack, FiniteSetTheorems, WellFoundedInduction, TLAPS

\* A node is in one place, and in one only.
PlaceInv ==
  /\ \A t, u \in Threads : t # u => Owned(t) \cap Owned(u) = {}
  /\ \A t \in Threads : Owned(t) \cap (Linked(head) \cup free) = {}
  /\ Linked(head) \cap free = {}
  /\ \A n \in Nodes : n \in Linked(head) \cup free \/ \E t \in Threads : n \in Owned(t)

\* The stack, and the list that a clear has taken, come to an end.
ListInv ==
  /\ Proper(head, next, Junk)
  /\ \A t \in Threads : pc[t] = "walk" => Proper(node[t], next, Junk)

\* What a call has in hand: a pop a node of the stack, and what follows it.
HandInv ==
  \A t \in Threads :
    /\ pc[t] \in {"link", "push"} => t \in Pushers
    /\ pc[t] \in {"read", "pop", "take", "give", "clear", "walk"} => t \in Poppers
    /\ pc[t] \in {"link", "push", "take", "give"} => node[t] \in Nodes
    /\ pc[t] \in {"read", "pop"} => node[t] \in Linked(head)
    /\ pc[t] = "pop" => after[t] = next[node[t]]

\* A node that was handed out has an item in it until it is given back.
DataInv == \A m \in Nodes \ free : data[m] # NoItem

StackInv == TypeOK /\ PlaceInv /\ ListInv /\ HandInv /\ DataInv

-----------------------------------------------------------------------------
(* Lists *)

LEMMA ReachLeast ==
  ASSUME NEW nx, NEW n, NEW S, S \subseteq DOMAIN nx, n \in DOMAIN nx => n \in S, Closed(S, nx)
  PROVE  Reach(n, nx) \subseteq S
  BY DEF Reach

LEMMA ReachClosed ==
  ASSUME NEW nx, NEW n
  PROVE  /\ Reach(n, nx) \subseteq DOMAIN nx
         /\ n \in DOMAIN nx => n \in Reach(n, nx)
         /\ Closed(Reach(n, nx), nx)
  <1>1. ASSUME NEW m \in Reach(n, nx), nx[m] \in DOMAIN nx
        PROVE  nx[m] \in Reach(n, nx)
    <2>1. ASSUME NEW S \in SUBSET DOMAIN nx, n \in DOMAIN nx => n \in S, Closed(S, nx)
          PROVE  nx[m] \in S
      <3>1. m \in S
        BY <2>1 DEF Reach
      <3>2. QED
        BY <1>1, <2>1, <3>1 DEF Closed
    <2>2. QED
      BY <1>1, <2>1 DEF Reach
  <1>2. QED
    BY <1>1 DEF Reach, Closed

LEMMA ReachNull ==
  ASSUME NEW nx, NEW n, n \notin DOMAIN nx
  PROVE  Reach(n, nx) = {}
  <1>1. Closed({}, nx)
    BY DEF Closed
  <1>2. QED
    BY <1>1, ReachLeast

\* What follows a node of the list is in the list.
LEMMA ReachWithin ==
  ASSUME NEW nx, NEW n, NEW m \in Reach(n, nx)
  PROVE  Reach(m, nx) \subseteq Reach(n, nx) /\ Reach(nx[m], nx) \subseteq Reach(n, nx)
  <1>1. Reach(n, nx) \subseteq DOMAIN nx /\ Closed(Reach(n, nx), nx)
    BY ReachClosed
  <1>2. nx[m] \in DOMAIN nx => nx[m] \in Reach(n, nx)
    BY <1>1 DEF Closed
  <1>3. QED
    BY <1>1, <1>2, ReachLeast

\* A list is its first node and the list behind it.
LEMMA ReachUnfold ==
  ASSUME NEW nx, NEW n \in DOMAIN nx
  PROVE  Reach(n, nx) = {n} \cup Reach(nx[n], nx)
  <1> DEFINE S == {n} \cup Reach(nx[n], nx)
  <1>1. /\ Reach(nx[n], nx) \subseteq DOMAIN nx /\ Closed(Reach(nx[n], nx), nx)
        /\ nx[n] \in DOMAIN nx => nx[n] \in Reach(nx[n], nx)
    BY ReachClosed
  <1>2. Closed(S, nx) /\ S \subseteq DOMAIN nx
    BY <1>1 DEF Closed
  <1>3. Reach(n, nx) \subseteq S
    BY <1>2, ReachLeast
  <1>4. n \in Reach(n, nx)
    BY ReachClosed
  <1>5. Reach(nx[n], nx) \subseteq Reach(n, nx)
    BY <1>4, ReachWithin
  <1>6. QED
    BY <1>3, <1>4, <1>5

\* A change outside of the list does not change it.
LEMMA ReachSame ==
  ASSUME NEW nx, NEW ny, NEW n, DOMAIN ny = DOMAIN nx, \A m \in Reach(n, nx) : ny[m] = nx[m]
  PROVE  Reach(n, ny) = Reach(n, nx)
  <1>1. /\ Reach(n, nx) \subseteq DOMAIN nx /\ Closed(Reach(n, nx), nx)
        /\ n \in DOMAIN nx => n \in Reach(n, nx)
    BY ReachClosed
  <1>2. Closed(Reach(n, nx), ny)
    BY <1>1 DEF Closed
  <1>3. Reach(n, ny) \subseteq Reach(n, nx)
    BY <1>1, <1>2, ReachLeast
  <1>4. /\ Reach(n, ny) \subseteq DOMAIN ny /\ Closed(Reach(n, ny), ny)
        /\ n \in DOMAIN ny => n \in Reach(n, ny)
    BY ReachClosed
  <1>5. Closed(Reach(n, ny), nx)
    BY <1>3, <1>4 DEF Closed
  <1>6. Reach(n, nx) \subseteq Reach(n, ny)
    BY <1>4, <1>5, ReachLeast
  <1>7. QED
    BY <1>3, <1>6

LEMMA ProperSame ==
  ASSUME NEW nx, NEW ny, NEW n, NEW junk, DOMAIN ny = DOMAIN nx,
         \A m \in Reach(n, nx) : ny[m] = nx[m], Proper(n, nx, junk)
  PROVE  Proper(n, ny, junk)
  <1>1. Reach(n, ny) = Reach(n, nx)
    BY ReachSame
  <1>2. ASSUME NEW m \in Reach(n, nx)
        PROVE  m \notin Reach(ny[m], ny) /\ ny[m] # junk
    <2>1. Reach(nx[m], nx) \subseteq Reach(n, nx)
      BY ReachWithin
    <2>2. \A k \in Reach(nx[m], nx) : ny[k] = nx[k]
      BY <2>1
    <2>3. Reach(nx[m], ny) = Reach(nx[m], nx)
      BY <2>2, ReachSame
    <2>4. ny[m] = nx[m]
      OBVIOUS
    <2>5. QED
      BY <2>3, <2>4 DEF Proper
  <1>3. QED
    BY <1>1, <1>2 DEF Proper

\* A node of its own before a list that comes to an end.
LEMMA ProperPush ==
  ASSUME NEW nx, NEW n \in DOMAIN nx, NEW junk,
         Proper(nx[n], nx, junk), n \notin Reach(nx[n], nx), nx[n] # junk
  PROVE  Proper(n, nx, junk)
  BY ReachUnfold DEF Proper

\* What is left of a list behind its first node.
LEMMA ProperPop ==
  ASSUME NEW nx, NEW n \in DOMAIN nx, NEW junk, Proper(n, nx, junk)
  PROVE  /\ Proper(nx[n], nx, junk) /\ nx[n] # junk /\ n \notin Reach(nx[n], nx)
         /\ Reach(nx[n], nx) = Reach(n, nx) \ {n}
  <1>1. Reach(n, nx) = {n} \cup Reach(nx[n], nx)
    BY ReachUnfold
  <1>2. QED
    BY <1>1 DEF Proper

-----------------------------------------------------------------------------
(* The order of a list *)

LEMMA LengthType ==
  ASSUME NEW nx, IsFiniteSet(DOMAIN nx), NEW n
  PROVE  IsFiniteSet(Reach(n, nx)) /\ Length(n, nx) \in Nat
  <1>1. Reach(n, nx) \subseteq DOMAIN nx
    BY ReachClosed
  <1>2. IsFiniteSet(Reach(n, nx))
    BY <1>1, FS_Subset
  <1>3. QED
    BY <1>2, FS_CardinalityType DEF Length

\* The first node of a list is the only one that has as many behind it.
LEMMA LengthUnfold ==
  ASSUME NEW nx, IsFiniteSet(DOMAIN nx), NEW n \in DOMAIN nx, n \notin Reach(nx[n], nx)
  PROVE  /\ Length(n, nx) = Length(nx[n], nx) + 1
         /\ \A m \in Reach(nx[n], nx) : Length(m, nx) \in Nat /\ Length(m, nx) <= Length(nx[n], nx)
  <1>1. IsFiniteSet(Reach(nx[n], nx))
    BY LengthType
  <1>2. Reach(n, nx) = Reach(nx[n], nx) \cup {n}
    BY ReachUnfold
  <1>3. Cardinality(Reach(nx[n], nx) \cup {n}) = Cardinality(Reach(nx[n], nx)) + 1
    BY <1>1, FS_AddElement
  <1>4. ASSUME NEW m \in Reach(nx[n], nx)
        PROVE  Length(m, nx) \in Nat /\ Length(m, nx) <= Length(nx[n], nx)
    <2>1. Reach(m, nx) \subseteq Reach(nx[n], nx)
      BY ReachWithin
    <2>2. QED
      BY <1>1, <2>1, FS_Subset, LengthType DEF Length
  <1>5. QED
    BY <1>2, <1>3, <1>4 DEF Length

LEMMA LengthNull ==
  ASSUME NEW nx, NEW n, n \notin DOMAIN nx
  PROVE  Length(n, nx) = 0
  BY ReachNull, FS_EmptySet DEF Length

\* A list in order is its first node, and then the list behind it in order.
LEMMA ChainUnfold ==
  ASSUME NEW nx, IsFiniteSet(DOMAIN nx), NEW n \in DOMAIN nx, n \notin Reach(nx[n], nx)
  PROVE  /\ Length(n, nx) = Length(nx[n], nx) + 1 /\ Length(nx[n], nx) \in Nat
         /\ Chain(n, nx)[1] = n
         /\ \A i \in 1..Length(nx[n], nx) : Chain(n, nx)[i + 1] = Chain(nx[n], nx)[i]
  <1> DEFINE k == Length(nx[n], nx)
             Ranked(S, j) == {m \in S : Length(m, nx) = j}
  <1>1. /\ Length(n, nx) = k + 1 /\ k \in Nat
        /\ \A m \in Reach(nx[n], nx) : Length(m, nx) \in Nat /\ Length(m, nx) <= k
    BY LengthUnfold, LengthType
  <1>2. Reach(n, nx) = {n} \cup Reach(nx[n], nx)
    BY ReachUnfold
  <1>3. \A i \in 1..k + 1 : Chain(n, nx)[i] = The(Ranked(Reach(n, nx), (k + 1) + 1 - i))
    BY <1>1 DEF Chain
  <1>4. \A i \in 1..k : Chain(nx[n], nx)[i] = The(Ranked(Reach(nx[n], nx), k + 1 - i))
    BY DEF Chain
  <1> HIDE DEF k
  <1>5. Chain(n, nx)[1] = n
    <2>1. Ranked(Reach(n, nx), k + 1) = {n}
      BY <1>1, <1>2
    <2>2. (k + 1) + 1 - 1 = k + 1 /\ 1 \in 1..k + 1
      BY <1>1
    <2> HIDE DEF Ranked
    <2>3. Chain(n, nx)[1] = The({n})
      BY <1>3, <2>1, <2>2
    <2>4. QED
      BY <2>3 DEF The
  <1>6. ASSUME NEW i \in 1..k
        PROVE  Chain(n, nx)[i + 1] = Chain(nx[n], nx)[i]
    <2>1. (k + 1) + 1 - (i + 1) = k + 1 - i /\ i + 1 \in 1..k + 1 /\ k + 1 - i # k + 1
      BY <1>1
    <2>2. Ranked(Reach(n, nx), k + 1 - i) = Ranked(Reach(nx[n], nx), k + 1 - i)
      BY <1>1, <1>2, <2>1
    <2> HIDE DEF Ranked
    <2>3. Chain(n, nx)[i + 1] = The(Ranked(Reach(n, nx), k + 1 - i))
      BY <1>3, <2>1
    <2>4. QED
      BY <1>4, <2>2, <2>3
  <1>7. QED
    BY <1>1, <1>5, <1>6 DEF k

\* A change outside of the list does not change its order.
LEMMA ChainSame ==
  ASSUME NEW nx, NEW ny, NEW n, DOMAIN ny = DOMAIN nx, \A m \in Reach(n, nx) : ny[m] = nx[m]
  PROVE  Length(n, ny) = Length(n, nx) /\ Chain(n, ny) = Chain(n, nx)
  <1>1. Reach(n, ny) = Reach(n, nx)
    BY ReachSame
  <1>2. ASSUME NEW m \in Reach(n, nx)
        PROVE  Length(m, ny) = Length(m, nx)
    <2>1. \A l \in Reach(m, nx) : ny[l] = nx[l]
      BY ReachWithin
    <2>2. QED
      BY <2>1, ReachSame DEF Length
  <1>3. Length(n, ny) = Length(n, nx)
    BY <1>1 DEF Length
  <1>4. \A j : {m \in Reach(n, ny) : Length(m, ny) = j} = {m \in Reach(n, nx) : Length(m, nx) = j}
    BY <1>1, <1>2
  <1>5. QED
    BY <1>3, <1>4 DEF Chain

LEMMA LeastNatural ==
  ASSUME NEW T, T \subseteq Nat, T # {}
  PROVE  \E n \in T : \A m \in T : n <= m
  <1> DEFINE R == OpToRel(<, Nat)
  <1>1. IsWellFoundedOn(R, Nat)
    BY NatLessThanWellFounded
  <1>2. \A x, y \in Nat : x < y => <<x, y>> \in R
    BY DEF OpToRel
  <1> HIDE DEF R
  <1>3. PICK x \in T : \A y \in T : ~ (<<y, x>> \in R)
    BY <1>1, WFMin
  <1>4. ASSUME NEW m \in T
        PROVE  x <= m
    <2>1. x \in Nat /\ m \in Nat
      OBVIOUS
    <2>2. ~ (m < x)
      BY <1>2, <1>3, <2>1
    <2>3. QED
      BY <2>1, <2>2
  <1>5. QED
    BY <1>4

\* The order of a list has nodes of the list only.
LEMMA ChainWithin ==
  ASSUME NEW nx, IsFiniteSet(DOMAIN nx), NEW n, NEW junk, Proper(n, nx, junk)
  PROVE  \A i \in 1..Length(n, nx) : Chain(n, nx)[i] \in Reach(n, nx)
  <1> DEFINE k == Length(n, nx)
             Ranked(j) == {m \in Reach(n, nx) : Length(m, nx) = j}
             T == {j \in Nat : j < k /\ Ranked(k - j) = {}}
  <1>1. k \in Nat
    BY LengthType
  <1>2. CASE k = 0
    BY <1>2
  <1>3. CASE k # 0
    <2>1. n \in DOMAIN nx /\ n \in Reach(n, nx)
      BY <1>3, LengthNull, ReachClosed
    <2>2. T = {}
      <3> SUFFICES ASSUME T # {} PROVE FALSE
        OBVIOUS
      <3>1. PICK j \in T : \A l \in T : j <= l
        BY LeastNatural
      <3>2. j \in Nat /\ j < k /\ Ranked(k - j) = {}
        BY <3>1
      <3>3. j # 0
        <4>1. Ranked(k) # {}
          BY <2>1
        <4>2. k - 0 = k
          BY <1>1
        <4> HIDE DEF Ranked, k
        <4>3. QED
          BY <3>2, <4>1, <4>2
      <3>4. j - 1 \in Nat /\ j - 1 < k /\ ~(j <= j - 1)
        BY <1>1, <3>2, <3>3
      <3>5. Ranked(k - (j - 1)) # {}
        BY <3>1, <3>4
      <3>6. PICK m \in Reach(n, nx) : Length(m, nx) = k - (j - 1)
        BY <3>5
      <3>7. m \in DOMAIN nx /\ m \notin Reach(nx[m], nx)
        BY ReachClosed DEF Proper
      <3>8. Length(m, nx) = Length(nx[m], nx) + 1 /\ Length(nx[m], nx) \in Nat
        BY <3>7, LengthUnfold, LengthType
      <3>9. Length(nx[m], nx) = k - j /\ Length(nx[m], nx) # 0
        BY <1>1, <3>2, <3>6, <3>8
      <3>10. nx[m] \in Reach(n, nx)
        <4>1. nx[m] \in DOMAIN nx
          BY <3>9, LengthNull
        <4>2. QED
          BY <4>1, ReachClosed DEF Closed
      <3>11. QED
        BY <3>2, <3>9, <3>10
    <2>3. ASSUME NEW i \in 1..k
          PROVE  Chain(n, nx)[i] \in Reach(n, nx)
      <3>1. i - 1 \in Nat /\ i - 1 < k /\ k - (i - 1) = k + 1 - i
        BY <1>1
      <3>2. Ranked(k - (i - 1)) # {}
        BY <2>2, <3>1
      <3>3. Chain(n, nx)[i] = The(Ranked(k + 1 - i))
        BY DEF Chain
      <3>4. The(Ranked(k + 1 - i)) \in Ranked(k + 1 - i)
        BY <3>1, <3>2 DEF The
      <3>5. QED
        BY <3>3, <3>4
    <2>4. QED
      BY <2>3
  <1>4. QED
    BY <1>2, <1>3

-----------------------------------------------------------------------------
(* Steps of one thread *)

\* The node that a thread changes is its own, or comes from the pool.
Frame(t) ==
  /\ DOMAIN next' = Nodes
  /\ \A m \in Nodes : next'[m] # next[m] => m \in Owned(t) \cup free
  /\ \A u \in Threads : u # t => pc'[u] = pc[u] /\ node'[u] = node[u] /\ after'[u] = after[u]

LEMMA FrameRule ==
  ASSUME StackInv, NEW t \in Threads, Frame(t)
  PROVE  /\ Reach(head, next') = Linked(head) /\ Proper(head, next', Junk)
         /\ \A m \in Linked(head) : next'[m] = next[m]
         /\ \A u \in Threads : u # t =>
              Owned(u)' = Owned(u) /\ (pc[u] = "walk" => Proper(node'[u], next', Junk))
  <1>1. DOMAIN next = Nodes /\ DOMAIN next' = Nodes
    BY DEF StackInv, TypeOK, Frame
  <1>2. \A m \in Linked(head) : next'[m] = next[m]
    <2>1. Linked(head) \subseteq Nodes
      BY <1>1, ReachClosed DEF Linked
    <2>2. QED
      BY <2>1 DEF Frame, StackInv, PlaceInv
  <1>3. Reach(head, next') = Linked(head) /\ Proper(head, next', Junk)
    BY <1>1, <1>2, ReachSame, ProperSame DEF Linked, StackInv, ListInv
  <1>4. ASSUME NEW u \in Threads, u # t
        PROVE  Owned(u)' = Owned(u) /\ (pc[u] = "walk" => Proper(node'[u], next', Junk))
    <2>1. pc'[u] = pc[u] /\ node'[u] = node[u]
      BY <1>4 DEF Frame
    <2>2. CASE pc[u] = "walk"
      <3>1. Owned(u) = Reach(node[u], next)
        BY <2>2 DEF Owned, Linked
      <3>2. \A m \in Reach(node[u], next) : next'[m] = next[m]
        <4>1. Reach(node[u], next) \subseteq Nodes
          BY <1>1, ReachClosed
        <4>2. QED
          BY <1>4, <3>1, <4>1 DEF Frame, StackInv, PlaceInv
      <3>3. Proper(node[u], next, Junk)
        BY <2>2 DEF StackInv, ListInv
      <3>4. Reach(node[u], next') = Reach(node[u], next) /\ Proper(node[u], next', Junk)
        BY <1>1, <3>2, <3>3, ReachSame, ProperSame
      <3>5. QED
        BY <2>1, <2>2, <3>1, <3>4 DEF Owned, Linked
    <2>3. CASE pc[u] # "walk"
      BY <2>1, <2>3 DEF Owned
    <2>4. QED
      BY <2>2, <2>3
  <1>5. QED
    BY <1>2, <1>3, <1>4

\* A thread may only move nodes between itself, the stack and the pool.
LEMMA PlaceRule ==
  ASSUME StackInv, NEW t \in Threads, Frame(t),
         NEW O, NEW L, NEW F, Owned(t)' = O, Linked(head)' = L, free' = F,
         O \cap L = {}, O \cap F = {}, L \cap F = {},
         O \cup L \cup F = Owned(t) \cup Linked(head) \cup free
  PROVE  PlaceInv'
  <1>1. \A u \in Threads : u # t => Owned(u)' = Owned(u)
    BY FrameRule
  <1>2. /\ \A u, v \in Threads : u # v => Owned(u) \cap Owned(v) = {}
        /\ \A u \in Threads : Owned(u) \cap (Linked(head) \cup free) = {}
        /\ \A n \in Nodes : n \in Linked(head) \cup free \/ \E u \in Threads : n \in Owned(u)
    BY DEF StackInv, PlaceInv
  <1>3. \A u \in Threads : u # t => Owned(u) \cap (O \cup L \cup F) = {}
    BY <1>2
  <1>4. \A u, v \in Threads : u # v => Owned(u)' \cap Owned(v)' = {}
    BY <1>1, <1>2, <1>3
  <1>5. \A u \in Threads : Owned(u)' \cap (Linked(head)' \cup free') = {}
    BY <1>1, <1>3
  <1>6. \A n \in Nodes : n \in Linked(head)' \cup free' \/ \E u \in Threads : n \in Owned(u)'
    BY <1>1, <1>2
  <1>7. QED
    BY <1>4, <1>5, <1>6 DEF PlaceInv

\* The node in the hand of a pop stays where it is as long as nobody else pops.
LEMMA HandRule ==
  ASSUME StackInv, \A a, b \in Poppers : a = b, NEW t \in Threads, Frame(t),
         \/ t \in Poppers
         \/ Linked(head) \subseteq Linked(head)',
         /\ pc'[t] \in {"link", "push"} => t \in Pushers
         /\ pc'[t] \in {"read", "pop", "take", "give", "clear", "walk"} => t \in Poppers
         /\ pc'[t] \in {"link", "push", "take", "give"} => node'[t] \in Nodes
         /\ pc'[t] \in {"read", "pop"} => node'[t] \in Linked(head)'
         /\ pc'[t] = "pop" => after'[t] = next'[node'[t]]
  PROVE  HandInv'
  <1> SUFFICES ASSUME NEW u \in Threads, u # t
               PROVE  /\ pc'[u] \in {"link", "push"} => u \in Pushers
                      /\ pc'[u] \in {"read", "pop", "take", "give", "clear", "walk"} => u \in Poppers
                      /\ pc'[u] \in {"link", "push", "take", "give"} => node'[u] \in Nodes
                      /\ pc'[u] \in {"read", "pop"} => node'[u] \in Linked(head)'
                      /\ pc'[u] = "pop" => after'[u] = next'[node'[u]]
    BY DEF HandInv
  <1>1. pc'[u] = pc[u] /\ node'[u] = node[u] /\ after'[u] = after[u]
    BY DEF Frame
  <1>2. /\ pc[u] \in {"link", "push"} => u \in Pushers
        /\ pc[u] \in {"read", "pop", "take", "give", "clear", "walk"} => u \in Poppers
        /\ pc[u] \in {"link", "push", "take", "give"} => node[u] \in Nodes
        /\ pc[u] \in {"read", "pop"} => node[u] \in Linked(head)
        /\ pc[u] = "pop" => after[u] = next[node[u]]
    BY DEF StackInv, HandInv
  <1>3. \A m \in Linked(head) : next'[m] = next[m]
    BY FrameRule
  <1>4. pc[u] \in {"read", "pop"} => Linked(head) \subseteq Linked(head)'
    BY <1>2
  <1>5. QED
    BY <1>1, <1>2, <1>3, <1>4

LEMMA ListRule ==
  ASSUME StackInv, NEW t \in Threads, Frame(t), Proper(head', next', Junk),
         pc'[t] = "walk" => Proper(node'[t], next', Junk)
  PROVE  ListInv'
  <1>1. \A u \in Threads : u # t => pc'[u] = pc[u] /\ (pc[u] = "walk" => Proper(node'[u], next', Junk))
    BY FrameRule DEF Frame
  <1>2. QED
    BY <1>1 DEF ListInv

-----------------------------------------------------------------------------
(* Every step preserves each part of the invariant *)

\* A thread that goes on changes its own place only.
LEMMA GotoRule ==
  ASSUME TypeOK, NEW t \in Threads, NEW a, NEW b, Goto(t, a, b)
  PROVE  pc[t] = a /\ pc'[t] = b /\ \A u \in Threads : u # t => pc'[u] = pc[u]
  BY DEF TypeOK, Goto

LEMMA LocalRule ==
  ASSUME TypeOK, NEW t \in Threads, NEW n, Local(t, n)
  PROVE  node'[t] = n /\ \A u \in Threads : u # t => node'[u] = node[u]
  BY DEF TypeOK, Local

LEMMA TypeStep ==
  ASSUME StackInv, Next
  PROVE  TypeOK'
  <1> USE ConstantsAssumption DEF ConstantsAssumption
  <1>1. PICK t \in Threads : Begin(t) \/ Continue(t)
    BY DEF Next
  <1>2. /\ head \in Nodes \cup {Null} /\ next \in [Nodes -> Nodes \cup {Null, Junk}]
        /\ data \in [Nodes -> Items \cup {NoItem}] /\ free \subseteq Nodes
        /\ node \in [Threads -> Nodes \cup {Null}] /\ after \in [Threads -> Nodes \cup {Null, Junk}]
        /\ sent \in [Pushers -> 0..MaxItems] /\ delivered \subseteq Items /\ destroyed \in BOOLEAN
    BY DEF StackInv, TypeOK
  <1>3. pc \in [Threads -> {"idle", "link", "push", "read", "pop", "take", "give", "clear", "walk"}]
    BY DEF StackInv, TypeOK
  <1>4. pc' \in [Threads -> {"idle", "link", "push", "read", "pop", "take", "give", "clear", "walk"}]
    BY <1>1, <1>3 DEF Begin, Continue, Allocate, Link, Push, PopLoad, LoadHead, PopRead, Pop, Take, Give,
           ClearLoad, Clear, Walk, Goto
  <1>5. /\ pc[t] \in {"link", "push", "take", "give"} => node[t] \in Nodes
        /\ pc[t] \in {"read", "pop"} => node[t] \in Linked(head) /\ node[t] \in Nodes
        /\ pc[t] = "pop" => after[t] = next[node[t]]
    <2>1. Linked(head) \subseteq Nodes
      BY <1>2, ReachClosed DEF Linked
    <2>2. QED
      BY <2>1 DEF StackInv, HandInv
  <1>6. \A m \in Linked(head) : next[m] # Junk
    BY DEF StackInv, ListInv, Proper, Linked
  <1>7. ASSUME NEW n \in Nodes, GiveBack(n)
        PROVE  /\ next' \in [Nodes -> Nodes \cup {Null, Junk}] /\ free' \subseteq Nodes
               /\ data' \in [Nodes -> Items \cup {NoItem}]
    BY <1>2, <1>7 DEF GiveBack
  <1>8. CASE Allocate(t)
    <2>1. t \in Pushers /\ sent[t] < MaxItems /\ sent' = [sent EXCEPT ![t] = @ + 1]
      BY <1>8 DEF Allocate
    <2>2. sent[t] + 1 \in 1..MaxItems /\ sent' \in [Pushers -> 0..MaxItems]
      BY <1>2, <2>1
    <2>3. <<t, sent[t] + 1>> \in Items
      BY <2>1, <2>2 DEF Items
    <2>4. PICK n \in free : /\ free' = free \ {n} /\ next' = [next EXCEPT ![n] = Null]
                            /\ data' = [data EXCEPT ![n] = <<t, sent[t] + 1>>] /\ Local(t, n)
      BY <1>8 DEF Allocate
    <2>5. /\ next' \in [Nodes -> Nodes \cup {Null, Junk}] /\ free' \subseteq Nodes
          /\ data' \in [Nodes -> Items \cup {NoItem}] /\ node' \in [Threads -> Nodes \cup {Null}]
      BY <1>2, <2>3, <2>4 DEF Local
    <2>6. UNCHANGED <<head, after, delivered, destroyed>>
      BY <1>8 DEF Allocate
    <2>7. QED
      BY <1>2, <1>4, <2>2, <2>5, <2>6 DEF TypeOK
  <1>9. CASE Link(t) \/ Push(t)
    <2>1. node[t] \in Nodes
      BY <1>5, <1>9 DEF Link, Push, Goto
    <2>2. /\ UNCHANGED <<data, free, after, sent, delivered, destroyed>>
          /\ next' \in [Nodes -> Nodes \cup {Null, Junk}] /\ head' \in Nodes \cup {Null}
          /\ node' \in [Threads -> Nodes \cup {Null}]
      BY <1>2, <1>9, <2>1 DEF Link, Push, Local
    <2>3. QED
      BY <1>2, <1>4, <2>2 DEF TypeOK
  <1>10. CASE PopLoad(t) \/ ClearLoad(t)
    <2>1. LoadHead(t, "read") \/ LoadHead(t, "clear")
      BY <1>10 DEF PopLoad, ClearLoad
    <2>2. UNCHANGED <<head, next, data, free, after, sent, delivered>> /\ Local(t, head)
      BY <2>1 DEF LoadHead, memory
    <2>3. node' \in [Threads -> Nodes \cup {Null}] /\ destroyed' \in BOOLEAN
      BY <1>2, <1>10, <2>2 DEF Local, PopLoad, ClearLoad
    <2>4. QED
      BY <1>2, <1>4, <2>2, <2>3 DEF TypeOK
  <1>11. CASE PopRead(t)
    <2>1. /\ UNCHANGED <<head, next, data, free, node, sent, delivered, destroyed>>
          /\ after' = [after EXCEPT ![t] = next[node[t]]] /\ node[t] \in Nodes
      BY <1>5, <1>11 DEF PopRead, memory, Goto
    <2>2. after' \in [Threads -> Nodes \cup {Null, Junk}]
      BY <1>2, <2>1
    <2>3. QED
      BY <1>2, <1>4, <2>1, <2>2 DEF TypeOK
  <1>12. CASE Pop(t)
    <2>1. UNCHANGED <<next, data, free, after, sent, delivered, destroyed>>
      BY <1>12 DEF Pop, memory
    <2>2. after[t] \in Nodes \cup {Null}
      BY <1>2, <1>5, <1>6, <1>12 DEF Pop
    <2>3. head' \in Nodes \cup {Null} /\ node' \in [Threads -> Nodes \cup {Null}]
      BY <1>2, <1>12, <2>2 DEF Pop, Local
    <2>4. QED
      BY <1>2, <1>4, <2>1, <2>3 DEF TypeOK
  <1>13. CASE Take(t)
    <2>1. /\ UNCHANGED <<head, next, data, free, node, after, sent, destroyed>>
          /\ delivered' = delivered \cup {data[node[t]]} /\ node[t] \in Nodes /\ pc[t] = "take"
      BY <1>5, <1>13 DEF Take, memory, Goto
    <2>2. data[node[t]] # NoItem
      <3>1. node[t] \notin free
        BY <2>1 DEF StackInv, PlaceInv, Owned
      <3>2. QED
        BY <2>1, <3>1 DEF StackInv, DataInv
    <2>3. delivered' \subseteq Items
      BY <1>2, <2>1, <2>2
    <2>4. QED
      BY <1>2, <1>4, <2>1, <2>3 DEF TypeOK
  <1>14. CASE Give(t)
    <2>1. GiveBack(node[t]) /\ Local(t, Null) /\ UNCHANGED <<head, after, sent, delivered, destroyed>>
          /\ node[t] \in Nodes
      BY <1>5, <1>14 DEF Give, Goto
    <2>2. node' \in [Threads -> Nodes \cup {Null}]
      BY <1>2, <2>1 DEF Local
    <2>3. QED
      BY <1>2, <1>4, <1>7, <2>1, <2>2 DEF TypeOK
  <1>15. CASE Clear(t)
    <2>1. UNCHANGED <<next, data, free, after, sent, delivered, destroyed>>
      BY <1>15 DEF Clear, memory
    <2>2. head' \in Nodes \cup {Null} /\ node' \in [Threads -> Nodes \cup {Null}]
      BY <1>2, <1>15 DEF Clear, Local
    <2>3. QED
      BY <1>2, <1>4, <2>1, <2>2 DEF TypeOK
  <1>16. CASE Walk(t)
    <2>1. UNCHANGED <<head, after, sent, delivered, destroyed>>
      BY <1>16 DEF Walk
    <2>2. CASE node[t] = Null
      BY <1>2, <1>4, <1>16, <2>1, <2>2 DEF Walk, memory, TypeOK
    <2>3. CASE node[t] # Null
      <3>1. node[t] \in Nodes /\ GiveBack(node[t]) /\ Local(t, next[node[t]]) /\ pc[t] = "walk"
        BY <1>2, <1>16, <2>3 DEF Walk
      <3>2. next[node[t]] # Junk
        BY <1>2, <3>1, ReachClosed DEF StackInv, ListInv, Proper
      <3>3. node' \in [Threads -> Nodes \cup {Null}]
        BY <1>2, <3>1, <3>2 DEF Local
      <3>4. QED
        BY <1>2, <1>4, <1>7, <2>1, <3>1, <3>3 DEF TypeOK
    <2>4. QED
      BY <2>2, <2>3
  <1>17. QED
    BY <1>1, <1>8, <1>9, <1>10, <1>11, <1>12, <1>13, <1>14, <1>15, <1>16 DEF Begin, Continue

\* The parts of the invariant about nodes.
NodeInv == PlaceInv /\ ListInv /\ HandInv

\* A thread that only goes on, or changes a node of its own that is in no list.
LEMMA QuietRule ==
  ASSUME StackInv, \A a, b \in Poppers : a = b, NEW t \in Threads, Frame(t),
         head' = head, free' = free, Owned(t)' = Owned(t), pc'[t] # "walk",
         /\ pc'[t] \in {"link", "push"} => t \in Pushers
         /\ pc'[t] \in {"read", "pop", "take", "give", "clear", "walk"} => t \in Poppers
         /\ pc'[t] \in {"link", "push", "take", "give"} => node'[t] \in Nodes
         /\ pc'[t] \in {"read", "pop"} => node'[t] \in Linked(head)
         /\ pc'[t] = "pop" => after'[t] = next'[node'[t]]
  PROVE  NodeInv'
  <1>1. Linked(head)' = Linked(head) /\ Proper(head', next', Junk)
    BY FrameRule DEF Linked
  <1>2. /\ Owned(t) \cap Linked(head) = {} /\ Owned(t) \cap free = {} /\ Linked(head) \cap free = {}
    BY DEF StackInv, PlaceInv
  <1>3. PlaceInv'
    BY <1>1, <1>2, PlaceRule
  <1>4. ListInv'
    BY <1>1, ListRule
  <1>5. HandInv'
    BY <1>1, HandRule
  <1>6. QED
    BY <1>3, <1>4, <1>5 DEF NodeInv

LEMMA NodeStep ==
  ASSUME StackInv, \A a, b \in Poppers : a = b, Next
  PROVE  NodeInv'
  <1> USE ConstantsAssumption DEF ConstantsAssumption
  <1>1. PICK t \in Threads : Begin(t) \/ Continue(t)
    BY DEF Next
  <1>2. /\ head \in Nodes \cup {Null} /\ next \in [Nodes -> Nodes \cup {Null, Junk}]
        /\ free \subseteq Nodes /\ DOMAIN next = Nodes /\ TypeOK
        /\ node \in [Threads -> Nodes \cup {Null}] /\ after \in [Threads -> Nodes \cup {Null, Junk}]
    BY DEF StackInv, TypeOK
  <1>3. /\ pc[t] \in {"link", "push"} => t \in Pushers
        /\ pc[t] \in {"read", "pop", "take", "give", "clear", "walk"} => t \in Poppers
        /\ pc[t] \in {"link", "push", "take", "give"} => node[t] \in Nodes
        /\ pc[t] \in {"read", "pop"} => node[t] \in Linked(head)
        /\ pc[t] = "pop" => after[t] = next[node[t]]
    BY DEF StackInv, HandInv
  <1>4. /\ Owned(t) \cap Linked(head) = {} /\ Owned(t) \cap free = {} /\ Linked(head) \cap free = {}
        /\ Linked(head) \subseteq Nodes
    BY <1>2, ReachClosed DEF StackInv, PlaceInv, Linked
  <1>5. Proper(head, next, Junk) /\ (pc[t] = "walk" => Proper(node[t], next, Junk))
    BY DEF StackInv, ListInv
  <1>6. CASE Allocate(t)
    <2>1. /\ t \in Pushers /\ Goto(t, "idle", "link") /\ head' = head /\ after' = after
      BY <1>6 DEF Allocate
    <2>2. PICK n \in free : free' = free \ {n} /\ next' = [next EXCEPT ![n] = Null] /\ Local(t, n)
      BY <1>6 DEF Allocate
    <2>3. pc[t] = "idle" /\ pc'[t] = "link" /\ node'[t] = n /\ n \in Nodes
      BY <1>2, <2>1, <2>2, GotoRule, LocalRule
    <2>4. Frame(t)
      BY <1>2, <2>1, <2>2, GotoRule, LocalRule DEF Frame
    <2>5. Linked(head)' = Linked(head) /\ Proper(head', next', Junk)
      BY <2>1, <2>4, FrameRule DEF Linked
    <2>6. Owned(t) = {} /\ Owned(t)' = {n}
      BY <2>3 DEF Owned
    <2>7. /\ {n} \cap Linked(head) = {} /\ {n} \cap (free \ {n}) = {}
          /\ Linked(head) \cap (free \ {n}) = {}
          /\ {n} \cup Linked(head) \cup (free \ {n}) = Owned(t) \cup Linked(head) \cup free
      BY <1>4, <2>2, <2>6
    <2>8. PlaceInv'
      BY <2>2, <2>4, <2>5, <2>6, <2>7, PlaceRule
    <2>9. ListInv'
      BY <2>3, <2>4, <2>5, ListRule
    <2>10. HandInv'
      BY <2>1, <2>3, <2>4, <2>5, HandRule
    <2>11. QED
      BY <2>8, <2>9, <2>10 DEF NodeInv
  <1>7. CASE Link(t)
    <2>1. /\ Goto(t, "link", "push") /\ next' = [next EXCEPT ![node[t]] = head]
          /\ UNCHANGED <<head, free, node, after>>
      BY <1>7 DEF Link
    <2>2. pc[t] = "link" /\ pc'[t] = "push"
      BY <1>2, <2>1, GotoRule
    <2>3. Owned(t) = {node[t]} /\ Owned(t)' = Owned(t)
      BY <2>1, <2>2 DEF Owned
    <2>4. Frame(t)
      BY <1>2, <2>1, <2>3, GotoRule DEF Frame
    <2>5. QED
      BY <1>3, <2>1, <2>2, <2>3, <2>4, QuietRule
  <1>8. CASE Push(t) /\ head # next[node[t]]
    <2>1. /\ pc[t] = "push" /\ next' = [next EXCEPT ![node[t]] = head]
          /\ UNCHANGED <<head, pc, node, free, after>>
      BY <1>8 DEF Push
    <2>2. Owned(t) = {node[t]} /\ Owned(t)' = Owned(t)
      BY <2>1 DEF Owned
    <2>3. Frame(t)
      BY <1>2, <2>1, <2>2 DEF Frame
    <2>4. QED
      BY <1>3, <2>1, <2>2, <2>3, QuietRule
  <1>9. CASE Push(t) /\ head = next[node[t]]
    <2> DEFINE n == node[t]
    <2>1. /\ Goto(t, "push", "idle") /\ Local(t, Null) /\ head' = n
          /\ UNCHANGED <<next, free, after>>
      BY <1>9 DEF Push
    <2>2. pc[t] = "push" /\ pc'[t] = "idle" /\ n \in Nodes
      BY <1>2, <1>3, <2>1, GotoRule
    <2>3. Owned(t) = {n} /\ Owned(t)' = {}
      BY <2>2 DEF Owned
    <2>4. Frame(t)
      BY <1>2, <2>1, GotoRule, LocalRule DEF Frame
    <2>5. Linked(head)' = {n} \cup Linked(head)
      BY <1>2, <1>9, <2>1, <2>2, ReachUnfold DEF Linked
    <2>6. Proper(head', next', Junk)
      <3>1. head # Junk /\ n \notin Reach(next[n], next) /\ Proper(next[n], next, Junk)
        BY <1>2, <1>4, <1>5, <1>9, <2>3 DEF Linked
      <3>2. QED
        BY <1>2, <1>9, <2>1, <2>2, <3>1, ProperPush
    <2>7. PlaceInv'
      BY <1>4, <2>1, <2>3, <2>4, <2>5, PlaceRule
    <2>8. ListInv'
      BY <2>2, <2>4, <2>6, ListRule
    <2>9. HandInv'
      BY <2>2, <2>4, <2>5, HandRule
    <2>10. QED
      BY <2>7, <2>8, <2>9 DEF NodeInv
  <1>10. CASE PopLoad(t) \/ ClearLoad(t)
    <2>1. PICK found \in {"read", "clear"} : LoadHead(t, found)
      BY <1>10 DEF PopLoad, ClearLoad
    <2>2. /\ Goto(t, "idle", IF head = Null THEN "idle" ELSE found) /\ t \in Poppers
          /\ Local(t, head) /\ UNCHANGED <<head, next, free, after>>
      BY <2>1 DEF LoadHead, memory
    <2>3. /\ pc[t] = "idle" /\ pc'[t] \in {"idle", "read", "clear"} /\ node'[t] = head
          /\ pc'[t] = "read" => head # Null
      BY <1>2, <2>2, GotoRule, LocalRule
    <2>4. Owned(t) = {} /\ Owned(t)' = {}
      BY <2>3 DEF Owned
    <2>5. Frame(t)
      BY <1>2, <2>2, GotoRule, LocalRule DEF Frame
    <2>6. head # Null => head \in Linked(head)
      BY <1>2, ReachClosed DEF Linked
    <2>7. QED
      BY <2>2, <2>3, <2>4, <2>5, <2>6, QuietRule
  <1>11. CASE PopRead(t)
    <2>1. /\ Goto(t, "read", "pop") /\ after' = [after EXCEPT ![t] = next[node[t]]]
          /\ UNCHANGED <<head, next, free, node>>
      BY <1>11 DEF PopRead, memory
    <2>2. pc[t] = "read" /\ pc'[t] = "pop" /\ after'[t] = next[node[t]]
      BY <1>2, <2>1, GotoRule
    <2>3. Owned(t) = {} /\ Owned(t)' = {}
      BY <2>2 DEF Owned
    <2>4. Frame(t)
      BY <1>2, <2>1, GotoRule DEF Frame
    <2>5. QED
      BY <1>3, <2>1, <2>2, <2>3, <2>4, QuietRule
  <1>12. CASE Pop(t) /\ head # node[t]
    <2>1. /\ Goto(t, "pop", IF head = Null THEN "idle" ELSE "read") /\ Local(t, head)
          /\ UNCHANGED <<head, next, free, after>>
      BY <1>12 DEF Pop, memory
    <2>2. /\ pc[t] = "pop" /\ pc'[t] \in {"idle", "read"} /\ node'[t] = head
          /\ pc'[t] = "read" => head # Null
      BY <1>2, <2>1, GotoRule, LocalRule
    <2>3. Owned(t) = {} /\ Owned(t)' = {}
      BY <2>2 DEF Owned
    <2>4. Frame(t)
      BY <1>2, <2>1, GotoRule, LocalRule DEF Frame
    <2>5. head # Null => head \in Linked(head)
      BY <1>2, ReachClosed DEF Linked
    <2>6. QED
      BY <1>3, <2>1, <2>2, <2>3, <2>4, <2>5, QuietRule
  <1>13. CASE Pop(t) /\ head = node[t]
    <2>1. /\ Goto(t, "pop", "take") /\ head' = after[t] /\ UNCHANGED <<next, free, node, after>>
      BY <1>13 DEF Pop, memory
    <2>2. pc[t] = "pop" /\ pc'[t] = "take" /\ t \in Poppers /\ node[t] = head
      BY <1>2, <1>3, <1>13, <2>1, GotoRule
    <2>3. head \in Nodes /\ head \in Linked(head) /\ head' = next[head]
      BY <1>3, <1>4, <2>1, <2>2
    <2>4. Owned(t) = {} /\ Owned(t)' = {head}
      BY <2>1, <2>2 DEF Owned
    <2>5. Frame(t)
      BY <1>2, <2>1, GotoRule DEF Frame
    <2>6. Linked(head)' = Linked(head) \ {head} /\ Proper(head', next', Junk)
      BY <1>2, <1>5, <2>1, <2>3, ProperPop DEF Linked
    <2>7. PlaceInv'
      BY <1>4, <2>1, <2>3, <2>4, <2>5, <2>6, PlaceRule
    <2>8. ListInv'
      BY <2>2, <2>5, <2>6, ListRule
    <2>9. HandInv'
      BY <2>1, <2>2, <2>3, <2>5, HandRule
    <2>10. QED
      BY <2>7, <2>8, <2>9 DEF NodeInv
  <1>14. CASE Take(t)
    <2>1. Goto(t, "take", "give") /\ UNCHANGED <<head, next, free, node, after>>
      BY <1>14 DEF Take, memory
    <2>2. pc[t] = "take" /\ pc'[t] = "give"
      BY <1>2, <2>1, GotoRule
    <2>3. Owned(t)' = Owned(t)
      BY <2>1, <2>2 DEF Owned
    <2>4. Frame(t)
      BY <1>2, <2>1, GotoRule DEF Frame
    <2>5. QED
      BY <1>3, <2>1, <2>2, <2>3, <2>4, QuietRule
  <1>15. CASE Give(t)
    <2> DEFINE n == node[t]
    <2>1. /\ Goto(t, "give", "idle") /\ free' = free \cup {n} /\ next' = [next EXCEPT ![n] = Junk]
          /\ Local(t, Null) /\ UNCHANGED <<head, after>>
      BY <1>15 DEF Give, GiveBack
    <2>2. pc[t] = "give" /\ pc'[t] = "idle"
      BY <1>2, <2>1, GotoRule
    <2>3. Owned(t) = {n} /\ Owned(t)' = {}
      BY <2>2 DEF Owned
    <2>4. Frame(t)
      BY <1>2, <2>1, <2>3, GotoRule, LocalRule DEF Frame
    <2>5. Linked(head)' = Linked(head) /\ Proper(head', next', Junk)
      BY <2>1, <2>4, FrameRule DEF Linked
    <2>6. PlaceInv'
      BY <1>4, <2>1, <2>3, <2>4, <2>5, PlaceRule
    <2>7. ListInv'
      BY <2>2, <2>4, <2>5, ListRule
    <2>8. HandInv'
      BY <2>2, <2>4, <2>5, HandRule
    <2>9. QED
      BY <2>6, <2>7, <2>8 DEF NodeInv
  <1>16. CASE Clear(t) /\ head # node[t]
    <2>1. pc[t] = "clear" /\ Local(t, head) /\ UNCHANGED <<head, pc, next, free, after>>
      BY <1>16 DEF Clear, memory
    <2>2. Owned(t) = {} /\ Owned(t)' = {}
      BY <2>1 DEF Owned
    <2>3. Frame(t)
      BY <1>2, <2>1, LocalRule DEF Frame
    <2>4. QED
      BY <1>3, <2>1, <2>2, <2>3, QuietRule
  <1>17. CASE Clear(t) /\ head = node[t]
    <2>1. /\ Goto(t, "clear", "walk") /\ head' = Null /\ UNCHANGED <<next, free, node, after>>
      BY <1>17 DEF Clear, memory
    <2>2. pc[t] = "clear" /\ pc'[t] = "walk" /\ node[t] = head /\ t \in Poppers
      BY <1>2, <1>3, <1>17, <2>1, GotoRule
    <2>3. Owned(t) = {} /\ Owned(t)' = Linked(head)
      BY <2>1, <2>2 DEF Owned, Linked
    <2>4. Frame(t)
      BY <1>2, <2>1, GotoRule DEF Frame
    <2>5. Linked(head)' = {}
      BY <1>2, <2>1, ReachNull DEF Linked
    <2>6. Proper(head', next', Junk)
      BY <2>5 DEF Proper, Linked
    <2>7. PlaceInv'
      BY <1>4, <2>1, <2>3, <2>4, <2>5, PlaceRule
    <2>8. ListInv'
      BY <1>5, <2>1, <2>2, <2>4, <2>6, ListRule
    <2>9. HandInv'
      BY <2>2, <2>4, HandRule
    <2>10. QED
      BY <2>7, <2>8, <2>9 DEF NodeInv
  <1>18. CASE Walk(t) /\ node[t] = Null
    <2>1. Goto(t, "walk", "idle") /\ UNCHANGED <<head, next, free, node, after>>
      BY <1>18 DEF Walk, memory
    <2>2. pc[t] = "walk" /\ pc'[t] = "idle"
      BY <1>2, <2>1, GotoRule
    <2>3. Owned(t) = {} /\ Owned(t)' = {}
      BY <1>2, <1>18, <2>2, ReachNull DEF Owned, Linked
    <2>4. Frame(t)
      BY <1>2, <2>1, GotoRule DEF Frame
    <2>5. QED
      BY <2>1, <2>2, <2>3, <2>4, QuietRule
  <1>19. CASE Walk(t) /\ node[t] # Null
    <2> DEFINE n == node[t]
    <2>1. /\ pc[t] = "walk" /\ free' = free \cup {n} /\ next' = [next EXCEPT ![n] = Junk]
          /\ Local(t, next[n]) /\ UNCHANGED <<head, pc, after>>
      BY <1>19 DEF Walk, GiveBack
    <2>2. n \in Nodes /\ node'[t] = next[n] /\ t \in Poppers
      BY <1>2, <1>3, <1>19, <2>1, LocalRule
    <2>3. Owned(t) = Reach(n, next) /\ n \in Owned(t)
      BY <1>2, <2>1, <2>2, ReachClosed DEF Owned, Linked
    <2>4. Frame(t)
      BY <1>2, <2>1, <2>3, LocalRule DEF Frame
    <2>5. Linked(head)' = Linked(head) /\ Proper(head', next', Junk)
      BY <2>1, <2>4, FrameRule DEF Linked
    <2>6. /\ Proper(next[n], next, Junk) /\ n \notin Reach(next[n], next)
          /\ Reach(next[n], next) = Reach(n, next) \ {n}
      BY <1>2, <1>5, <2>1, <2>2, ProperPop
    <2>7. DOMAIN next' = DOMAIN next /\ \A m \in Reach(next[n], next) : next'[m] = next[m]
      BY <1>2, <2>1, <2>6
    <2>8. Reach(next[n], next') = Reach(n, next) \ {n} /\ Proper(next[n], next', Junk)
      BY <2>6, <2>7, ReachSame, ProperSame
    <2>9. Owned(t)' = Owned(t) \ {n}
      BY <2>1, <2>2, <2>3, <2>8 DEF Owned, Linked
    <2>10. PlaceInv'
      BY <1>4, <2>1, <2>3, <2>4, <2>5, <2>9, PlaceRule
    <2>11. ListInv'
      BY <2>2, <2>4, <2>5, <2>8, ListRule
    <2>12. HandInv'
      BY <2>1, <2>2, <2>4, <2>5, HandRule
    <2>13. QED
      BY <2>10, <2>11, <2>12 DEF NodeInv
  <1>20. QED
    BY <1>1, <1>6, <1>7, <1>8, <1>9, <1>10, <1>11, <1>12, <1>13, <1>14, <1>15, <1>16, <1>17,
       <1>18, <1>19 DEF Begin, Continue

LEMMA DataStep ==
  ASSUME StackInv, Next
  PROVE  DataInv'
  <1> USE ConstantsAssumption DEF ConstantsAssumption
  <1>1. PICK t \in Threads : Begin(t) \/ Continue(t)
    BY DEF Next
  <1>2. /\ data \in [Nodes -> Items \cup {NoItem}] /\ free \subseteq Nodes
        /\ \A m \in Nodes \ free : data[m] # NoItem
    BY DEF StackInv, TypeOK, DataInv
  <1>3. CASE Allocate(t)
    <2>1. t \in Pushers /\ sent[t] + 1 \in 1..MaxItems
      BY <1>3 DEF Allocate, StackInv, TypeOK
    <2>2. PICK n \in free : free' = free \ {n} /\ data' = [data EXCEPT ![n] = <<t, sent[t] + 1>>]
      BY <1>3 DEF Allocate
    <2>3. <<t, sent[t] + 1>> # NoItem
      BY <2>1 DEF Items
    <2>4. QED
      BY <1>2, <2>2, <2>3 DEF DataInv
  <1>4. ASSUME NEW n, GiveBack(n)
        PROVE  DataInv'
    BY <1>2, <1>4 DEF GiveBack, DataInv
  <1>5. CASE UNCHANGED <<data, free>>
    BY <1>2, <1>5 DEF DataInv
  <1>6. QED
    BY <1>1, <1>3, <1>4, <1>5 DEF Begin, Continue, Link, Push, PopLoad, LoadHead, PopRead, Pop, Take,
           Give, ClearLoad, Clear, Walk, memory

LEMMA InitStackInv == Init => StackInv
  <1> SUFFICES ASSUME Init PROVE StackInv
    OBVIOUS
  <1> USE ConstantsAssumption DEF ConstantsAssumption
  <1>1. /\ head = Null /\ next = [n \in Nodes |-> Junk] /\ data = [n \in Nodes |-> NoItem]
        /\ free = Nodes /\ pc = [t \in Threads |-> "idle"] /\ node = [t \in Threads |-> Null]
        /\ after = [t \in Threads |-> Null] /\ sent = [t \in Pushers |-> 0]
        /\ delivered = {} /\ destroyed = FALSE
    BY DEF Init
  <1>2. TypeOK
    <2>1. /\ next \in [Nodes -> Nodes \cup {Null, Junk}] /\ data \in [Nodes -> Items \cup {NoItem}]
          /\ node \in [Threads -> Nodes \cup {Null}] /\ after \in [Threads -> Nodes \cup {Null, Junk}]
      BY <1>1
    <2>2. pc \in [Threads -> {"idle", "link", "push", "read", "pop", "take", "give", "clear", "walk"}]
      BY <1>1
    <2>3. sent \in [Pushers -> 0..MaxItems]
      BY <1>1
    <2>4. QED
      BY <1>1, <2>1, <2>2, <2>3 DEF TypeOK
  <1>3. Linked(head) = {} /\ \A t \in Threads : Owned(t) = {} /\ pc[t] = "idle"
    BY <1>1, ReachNull DEF Linked, Owned
  <1>4. PlaceInv
    BY <1>1, <1>3 DEF PlaceInv
  <1>5. ListInv
    BY <1>3 DEF ListInv, Proper, Linked
  <1>6. HandInv /\ DataInv
    BY <1>1, <1>3 DEF HandInv, DataInv
  <1>7. QED
    BY <1>2, <1>4, <1>5, <1>6 DEF StackInv

LEMMA StackInvariant ==
  ASSUME \A a, b \in Poppers : a = b
  PROVE  Spec => []StackInv
  <1>1. StackInv /\ [Next]_vars => StackInv'
    <2> SUFFICES ASSUME StackInv, [Next]_vars PROVE StackInv'
      OBVIOUS
    <2>1. CASE Next
      BY <2>1, TypeStep, NodeStep, DataStep DEF StackInv, NodeInv
    <2>2. CASE UNCHANGED vars
      <3>1. UNCHANGED <<head, next, data, free, pc, node, after, sent, delivered, destroyed>>
        BY <2>2 DEF vars, memory
      <3>2. Linked(head)' = Linked(head) /\ \A t \in Threads : Owned(t)' = Owned(t)
        BY <3>1 DEF Linked, Owned
      <3>3. TypeOK' /\ PlaceInv'
        BY <3>1, <3>2 DEF StackInv, TypeOK, PlaceInv
      <3>4. ListInv' /\ HandInv' /\ DataInv'
        BY <3>1, <3>2 DEF StackInv, ListInv, HandInv, DataInv
      <3>5. QED
        BY <3>3, <3>4 DEF StackInv
    <2>3. QED
      BY <2>1, <2>2
  <1>2. QED
    BY <1>1, InitStackInv, PTL DEF Spec

-----------------------------------------------------------------------------
(* Theorems *)

\* The types of lockfree::stack hold in every reachable state when one thread
\* pops: a pop returns an item that was pushed, and the head is never junk.
THEOREM TypeCorrect ==
  ASSUME \A a, b \in Poppers : a = b
  PROVE  Spec => []TypeOK
  BY StackInvariant, PTL DEF StackInv

\* When one thread pops and clears, and any number push, every node of
\* lockfree::stack is always in one place: in the pool, in the stack, or with
\* one call; and a pop never reads a node that was given back.
THEOREM OneOwnerAlways ==
  ASSUME \A a, b \in Poppers : a = b
  PROVE  Spec => []OneOwner
  <1>1. StackInv => OneOwner
    <2> SUFFICES ASSUME StackInv PROVE OneOwner
      OBVIOUS
    <2>1. ASSUME NEW n \in Nodes
          PROVE  Cardinality({t \in Threads : n \in Owned(t)})
                   + (IF n \in Linked(head) THEN 1 ELSE 0) + (IF n \in free THEN 1 ELSE 0) = 1
      <3>1. CASE \E t \in Threads : n \in Owned(t)
        <4>1. PICK t \in Threads : n \in Owned(t)
          BY <3>1
        <4>2. {u \in Threads : n \in Owned(u)} = {t} /\ n \notin Linked(head) /\ n \notin free
          BY <4>1 DEF StackInv, PlaceInv
        <4>3. Cardinality({t}) = 1
          BY FS_Singleton
        <4>4. QED
          BY <4>2, <4>3
      <3>2. CASE ~ \E t \in Threads : n \in Owned(t)
        <4>1. {u \in Threads : n \in Owned(u)} = {}
          BY <3>2
        <4>2. n \in Linked(head) <=> n \notin free
          BY <3>2 DEF StackInv, PlaceInv
        <4>3. QED
          BY <4>1, <4>2, FS_EmptySet
      <3>3. QED
        BY <3>1, <3>2
    <2>2. \A t \in Threads : pc[t] \in {"read", "pop"} => node[t] \notin free
      BY DEF StackInv, HandInv, PlaceInv
    <2>3. QED
      BY <2>1, <2>2 DEF OneOwner
  <1>2. QED
    BY <1>1, StackInvariant, PTL

-----------------------------------------------------------------------------
(* Refinement *)

\* A step changes the items of nodes of its thread and of the pool only.
DataFrame(t) == \A m \in Nodes : data'[m] # data[m] => m \in Owned(t) \cup free

LEMMA FrameStep ==
  ASSUME StackInv, NEW t \in Threads, Begin(t) \/ Continue(t)
  PROVE  Frame(t) /\ DataFrame(t)
  <1>1. /\ next \in [Nodes -> Nodes \cup {Null, Junk}] /\ data \in [Nodes -> Items \cup {NoItem}]
        /\ TypeOK
    BY DEF StackInv, TypeOK
  <1>2. \A u \in Threads : u # t => pc'[u] = pc[u]
    BY <1>1, GotoRule DEF Begin, Continue, Allocate, Link, Push, PopLoad, LoadHead, PopRead, Pop, Take,
           Give, ClearLoad, Clear, Walk
  <1>3. \A u \in Threads : u # t => node'[u] = node[u]
    BY <1>1, LocalRule DEF Begin, Continue, Allocate, Link, Push, PopLoad, LoadHead, PopRead, Pop, Take,
           Give, ClearLoad, Clear, Walk
  <1>4. \A u \in Threads : u # t => after'[u] = after[u]
    BY DEF Begin, Continue, Allocate, Link, Push, PopLoad, LoadHead, PopRead, Pop, Take,
           Give, ClearLoad, Clear, Walk, StackInv, TypeOK
  <1>5. \/ UNCHANGED <<next, data>>
        \/ \E n \in free : \E x, y :
             next' = [next EXCEPT ![n] = x] /\ data' = [data EXCEPT ![n] = y]
        \/ /\ node[t] \in Owned(t)
           /\ \E x : next' = [next EXCEPT ![node[t]] = x]
           /\ data' = data \/ \E y : data' = [data EXCEPT ![node[t]] = y]
    <2>1. CASE Allocate(t)
      BY <2>1 DEF Allocate
    <2>2. CASE Link(t) \/ Push(t)
      BY <2>2 DEF Link, Push, Goto, Owned
    <2>3. CASE Give(t)
      BY <2>3 DEF Give, GiveBack, Goto, Owned
    <2>4. CASE Walk(t)
      <3>1. CASE node[t] = Null
        BY <2>4, <3>1 DEF Walk, memory
      <3>2. CASE node[t] # Null
        <4>1. node[t] \in DOMAIN next /\ pc[t] = "walk" /\ GiveBack(node[t])
          BY <2>4, <3>2 DEF Walk, StackInv, TypeOK
        <4>2. node[t] \in Owned(t)
          BY <4>1, ReachClosed DEF Owned, Linked
        <4>3. QED
          BY <4>1, <4>2 DEF GiveBack
      <3>3. QED
        BY <3>1, <3>2
    <2>5. CASE PopLoad(t) \/ ClearLoad(t) \/ PopRead(t) \/ Pop(t) \/ Take(t) \/ Clear(t)
      BY <2>5 DEF PopLoad, ClearLoad, LoadHead, PopRead, Pop, Take, Clear, memory
    <2>6. QED
      BY <2>1, <2>2, <2>3, <2>4, <2>5 DEF Begin, Continue
  <1>6. DOMAIN next' = Nodes /\ \A m \in Nodes : next'[m] # next[m] => m \in Owned(t) \cup free
    BY <1>1, <1>5
  <1>7. DataFrame(t)
    BY <1>1, <1>5 DEF DataFrame
  <1>8. QED
    BY <1>2, <1>3, <1>4, <1>6, <1>7 DEF Frame

LEMMA ContentType ==
  ASSUME StackInv
  PROVE  /\ IsFiniteSet(DOMAIN next) /\ Length(head, next) \in Nat
         /\ \A i \in 1..Length(head, next) : Chain(head, next)[i] \in Linked(head)
         /\ \A m \in Linked(head) : data[m] \in Items
         /\ Content \in Seq(Items) /\ Len(Content) = Length(head, next)
  <1>1. DOMAIN next = Nodes /\ IsFiniteSet(DOMAIN next)
    BY ConstantsAssumption DEF ConstantsAssumption, StackInv, TypeOK
  <1>2. Length(head, next) \in Nat
    BY <1>1, LengthType
  <1>3. \A i \in 1..Length(head, next) : Chain(head, next)[i] \in Linked(head)
    BY <1>1, ChainWithin DEF Linked, StackInv, ListInv
  <1>4. ASSUME NEW m \in Linked(head)
        PROVE  data[m] \in Items
    <2>1. m \in Nodes \ free
      BY <1>1, ReachClosed DEF Linked, StackInv, PlaceInv
    <2>2. QED
      BY <2>1 DEF StackInv, DataInv, TypeOK
  <1>5. \A i \in 1..Length(head, next) : data[Chain(head, next)[i]] \in Items
    BY <1>3, <1>4
  <1>6. Content \in Seq(Items) /\ Len(Content) = Length(head, next)
    BY <1>2, <1>5 DEF Content
  <1>7. QED
    BY <1>1, <1>2, <1>3, <1>4, <1>6

\* A step that leaves the head alone leaves the items of the stack alone.
LEMMA ContentSame ==
  ASSUME StackInv, NEW t \in Threads, Frame(t), DataFrame(t), head' = head
  PROVE  Content' = Content
  <1>1. \A m \in Linked(head) : next'[m] = next[m]
    BY FrameRule
  <1>2. DOMAIN next' = DOMAIN next
    BY DEF Frame, StackInv, TypeOK
  <1>3. Length(head, next)' = Length(head, next) /\ Chain(head, next)' = Chain(head, next)
    BY <1>1, <1>2, ChainSame DEF Linked
  <1>4. \A m \in Linked(head) : data'[m] = data[m]
    <2>1. Linked(head) \subseteq Nodes
      BY ReachClosed DEF Linked, StackInv, TypeOK
    <2>2. QED
      BY <2>1 DEF DataFrame, StackInv, PlaceInv
  <1>5. \A i \in 1..Length(head, next) : data'[Chain(head, next)[i]] = data[Chain(head, next)[i]]
    BY <1>4, ContentType
  <1>6. QED
    BY <1>3, <1>5 DEF Content

LEMMA TakenSame ==
  ASSUME StackInv, NEW t \in Threads, Frame(t), DataFrame(t), delivered' = delivered,
         pc[t] # "take", pc'[t] # "take"
  PROVE  Taken' = Taken
  <1>1. \A u \in Threads : pc'[u] = "take" <=> pc[u] = "take"
    BY DEF Frame
  <1>2. ASSUME NEW u \in Threads, pc[u] = "take"
        PROVE  data'[node'[u]] = data[node[u]]
    <2>1. u # t /\ node'[u] = node[u] /\ node[u] \in Nodes
      BY <1>2 DEF Frame, StackInv, HandInv
    <2>2. node[u] \in Owned(u)
      BY <1>2 DEF Owned
    <2>3. node[u] \notin Owned(t) \cup free
      BY <2>1, <2>2 DEF StackInv, PlaceInv
    <2>4. QED
      BY <2>1, <2>3 DEF DataFrame
  <1>3. {u \in Threads : pc'[u] = "take"} = {u \in Threads : pc[u] = "take"}
    BY <1>1
  <1>4. {data'[node'[u]] : u \in {v \in Threads : pc'[v] = "take"}}
          = {data[node[u]] : u \in {v \in Threads : pc[v] = "take"}}
    BY <1>2, <1>3
  <1>5. QED
    BY <1>4 DEF Taken

\* Every step of the stack is a step of LifoStack, or none: a push and a pop at
\* their swaps, a clear where it takes the list.
LEMMA LifoStep ==
  ASSUME StackInv, \A a, b \in Poppers : a = b, Next
  PROVE  Lifo!Next \/ UNCHANGED Lifo!vars
  <1>1. PICK t \in Threads : Begin(t) \/ Continue(t)
    BY DEF Next
  <1>2. Frame(t) /\ DataFrame(t)
    BY <1>1, FrameStep
  <1>3. /\ head \in Nodes \cup {Null} /\ DOMAIN next = Nodes /\ TypeOK /\ Null \notin Nodes
        /\ Proper(head, next, Junk) /\ IsFiniteSet(DOMAIN next)
    BY ContentType, ConstantsAssumption DEF ConstantsAssumption, StackInv, TypeOK, ListInv
  <1>4. CASE /\ head' = head /\ delivered' = delivered /\ pc[t] # "take" /\ pc'[t] # "take"
    <2>1. Content' = Content /\ Taken' = Taken
      BY <1>2, <1>4, ContentSame, TakenSame
    <2>2. QED
      BY <2>1 DEF Lifo!vars
  <1>5. CASE Push(t) /\ head = next[node[t]]
    <2> DEFINE n == node[t]
    <2>1. /\ pc[t] = "push" /\ pc'[t] = "idle" /\ head' = n
          /\ UNCHANGED <<next, data, delivered>>
      BY <1>3, <1>5, GotoRule DEF Push
    <2>2. n \in Nodes /\ n \in Owned(t) /\ n \notin free /\ n \notin Linked(head)
      BY <2>1 DEF StackInv, HandInv, Owned, PlaceInv
    <2>3. data[n] \in Items
      BY <2>2 DEF StackInv, TypeOK, DataInv
    <2>4. Taken' = Taken
      BY <1>2, <2>1, TakenSame
    <2>5. /\ Length(n, next) = Length(head, next) + 1 /\ Length(head, next) \in Nat
          /\ Chain(n, next)[1] = n
          /\ \A i \in 1..Length(head, next) : Chain(n, next)[i + 1] = Chain(head, next)[i]
      BY <1>3, <1>5, <2>2, ChainUnfold DEF Linked
    <2>6. Content' = [i \in 1..Length(head, next) + 1 |-> data[Chain(n, next)[i]]]
      BY <2>1, <2>5 DEF Content
    <2>7. Content' = <<data[n]>> \o Content
      <3> DEFINE k == Length(head, next)
                 f(i) == data[Chain(n, next)[i]]
                 g(i) == data[Chain(head, next)[i]]
      <3>1. k \in Nat /\ f(1) = data[n] /\ \A i \in 1..k : f(i + 1) = g(i)
        BY <2>5
      <3>2. Content \in Seq(Items) /\ Len(Content) = k /\ \A i \in 1..k : Content[i] = g(i)
        BY ContentType DEF Content
      <3>3. Content' = [i \in 1..k + 1 |-> f(i)]
        BY <2>6
      <3> HIDE DEF k, f, g
      <3> DEFINE new == <<data[n]>> \o Content
      <3>4. /\ new \in Seq(Items) /\ Len(new) = k + 1 /\ new[1] = data[n]
            /\ \A i \in 1..k : new[i + 1] = Content[i]
        BY <2>3, <3>1, <3>2
      <3>5. new = [i \in 1..k + 1 |-> new[i]]
        BY <3>4
      <3> HIDE DEF new
      <3>6. ASSUME NEW i \in 1..k + 1
            PROVE  new[i] = f(i)
        <4>1. CASE i = 1
          BY <3>1, <3>4, <4>1
        <4>2. CASE i # 1
          <5>1. i - 1 \in 1..k /\ (i - 1) + 1 = i
            BY <3>1, <4>2
          <5>2. QED
            BY <3>1, <3>2, <3>4, <5>1
        <4>3. QED
          BY <4>1, <4>2
      <3>7. new = [i \in 1..k + 1 |-> f(i)]
        BY <3>5, <3>6
      <3>8. QED
        BY <3>3, <3>7 DEF new
    <2>8. QED
      BY <2>3, <2>4, <2>7 DEF Lifo!Next, Lifo!Push
  <1>6. CASE Pop(t) /\ head = node[t]
    <2>1. /\ pc[t] = "pop" /\ pc'[t] = "take" /\ head' = after[t] /\ t \in Poppers
          /\ UNCHANGED <<next, data, node, delivered>>
      BY <1>3, <1>6, GotoRule DEF Pop, memory, StackInv, HandInv
    <2>2. head \in Linked(head) /\ head \in Nodes /\ head' = next[head]
      BY <1>3, <1>6, <2>1, ReachClosed DEF StackInv, HandInv, Linked
    <2>3. head \notin Reach(next[head], next)
      BY <1>3, <2>2, ProperPop
    <2>4. /\ Length(head, next) = Length(next[head], next) + 1 /\ Length(next[head], next) \in Nat
          /\ Chain(head, next)[1] = head
          /\ \A i \in 1..Length(next[head], next) :
               Chain(head, next)[i + 1] = Chain(next[head], next)[i]
      BY <1>3, <2>2, <2>3, ChainUnfold
    <2>5. Content' = [i \in 1..Length(next[head], next) |-> data[Chain(next[head], next)[i]]]
      BY <2>1, <2>2 DEF Content
    <2>6. Content # <<>> /\ Head(Content) = data[head] /\ Content' = Tail(Content)
      <3> DEFINE k == Length(next[head], next)
                 g(i) == data[Chain(next[head], next)[i]]
      <3>1. Content \in Seq(Items) /\ Len(Content) = k + 1 /\ k \in Nat
        BY <2>4, ContentType
      <3>2. Content[1] = data[head] /\ \A i \in 1..k : Content[i + 1] = g(i)
        <4>1. 1 \in 1..k + 1 /\ \A i \in 1..k : i + 1 \in 1..k + 1
          BY <3>1
        <4>2. \A i \in 1..k + 1 : Content[i] = data[Chain(head, next)[i]]
          BY <2>4 DEF Content
        <4>3. QED
          BY <2>4, <4>1, <4>2
      <3>3. Content' = [i \in 1..k |-> g(i)]
        BY <2>5
      <3> HIDE DEF k, g
      <3>4. /\ Content # <<>> /\ Head(Content) = Content[1]
            /\ Tail(Content) = [i \in 1..k |-> Content[i + 1]]
        <4>1. Content # <<>>
          BY <3>1
        <4>2. Head(Content) = Content[1]
          BY <3>1
        <4>3. Tail(Content) \in Seq(Items) /\ Len(Tail(Content)) = k
          BY <3>1, <4>1
        <4>4. \A i \in 1..k : Tail(Content)[i] = Content[i + 1]
          BY <3>1, <4>1
        <4>5. Tail(Content) = [i \in 1..k |-> Tail(Content)[i]]
          <5> DEFINE rest == Tail(Content)
          <5>1. rest \in Seq(Items) /\ Len(rest) = k
            BY <4>3
          <5> HIDE DEF rest
          <5>2. rest = [i \in 1..k |-> rest[i]]
            BY <5>1
          <5>3. QED
            BY <5>2 DEF rest
        <4>6. QED
          BY <4>1, <4>2, <4>4, <4>5
      <3>5. [i \in 1..k |-> Content[i + 1]] = [i \in 1..k |-> g(i)]
        BY <3>2
      <3>6. QED
        BY <3>2, <3>3, <3>4, <3>5
    <2>7. Taken' = Taken \cup {data[head]}
      <3>1. {u \in Threads : pc[u] = "take"} = {}
        BY <2>1 DEF StackInv, HandInv
      <3>2. \A u \in Threads : u # t => pc'[u] # "take"
        BY <1>2, <3>1 DEF Frame
      <3>3. {u \in Threads : pc'[u] = "take"} = {t}
        BY <2>1, <3>2
      <3>4. {data'[node'[u]] : u \in {v \in Threads : pc'[v] = "take"}} = {data[head]}
        BY <1>6, <2>1, <3>3
      <3>5. {data[node[u]] : u \in {v \in Threads : pc[v] = "take"}} = {}
        BY <3>1
      <3>6. QED
        BY <2>1, <3>4, <3>5 DEF Taken
    <2>8. QED
      BY <2>6, <2>7 DEF Lifo!Next, Lifo!Pop
  <1>7. CASE Take(t)
    <2>1. /\ pc[t] = "take" /\ pc'[t] = "give" /\ UNCHANGED <<head, data, node>> /\ t \in Poppers
          /\ delivered' = delivered \cup {data[node[t]]}
      BY <1>3, <1>7, GotoRule DEF Take, memory, StackInv, HandInv
    <2>2. Content' = Content
      BY <1>2, <2>1, ContentSame
    <2>3. \A u \in Threads : u # t => pc[u] # "take" /\ pc'[u] # "take"
      BY <1>2, <2>1 DEF Frame, StackInv, HandInv
    <2>4. {u \in Threads : pc[u] = "take"} = {t} /\ {u \in Threads : pc'[u] = "take"} = {}
      BY <2>1, <2>3
    <2>5. Taken' = Taken
      <3>1. {data[node[u]] : u \in {v \in Threads : pc[v] = "take"}} = {data[node[t]]}
        BY <2>4
      <3>2. {data'[node'[u]] : u \in {v \in Threads : pc'[v] = "take"}} = {}
        BY <2>4
      <3>3. QED
        BY <2>1, <3>1, <3>2 DEF Taken
    <2>6. QED
      BY <2>2, <2>5 DEF Lifo!vars
  <1>8. CASE Clear(t) /\ head = node[t]
    <2>1. pc[t] = "clear" /\ pc'[t] = "walk" /\ head' = Null /\ UNCHANGED <<next, delivered>>
      BY <1>3, <1>8, GotoRule DEF Clear, memory
    <2>2. Taken' = Taken
      BY <1>2, <2>1, TakenSame
    <2>3. Length(head, next)' = 0
      BY <1>3, <2>1, LengthNull
    <2>4. Content' = <<>>
      BY <2>3 DEF Content
    <2>5. QED
      BY <2>2, <2>4 DEF Lifo!Next, Lifo!Clear
  <1>9. CASE Push(t) /\ head # next[node[t]]
    BY <1>4, <1>9 DEF Push
  <1>10. CASE Pop(t) /\ head # node[t]
    <2>1. pc[t] = "pop" /\ pc'[t] # "take" /\ UNCHANGED <<head, delivered>>
      BY <1>3, <1>10, GotoRule DEF Pop
    <2>2. QED
      BY <1>4, <2>1
  <1>11. CASE Clear(t) /\ head # node[t]
    BY <1>4, <1>11 DEF Clear
  <1>12. CASE Allocate(t) \/ Link(t) \/ PopRead(t) \/ Give(t)
    <2>1. pc[t] # "take" /\ pc'[t] # "take" /\ UNCHANGED <<head, delivered>>
      BY <1>3, <1>12, GotoRule DEF Allocate, Link, PopRead, Give
    <2>2. QED
      BY <1>4, <2>1
  <1>13. CASE PopLoad(t) \/ ClearLoad(t)
    <2>1. PICK found \in {"read", "clear"} : LoadHead(t, found)
      BY <1>13 DEF PopLoad, ClearLoad
    <2>2. pc[t] # "take" /\ pc'[t] # "take" /\ UNCHANGED <<head, delivered>>
      BY <1>3, <2>1, GotoRule DEF LoadHead
    <2>3. QED
      BY <1>4, <2>2
  <1>14. CASE Walk(t)
    <2>1. pc[t] # "take" /\ pc'[t] # "take" /\ UNCHANGED <<head, delivered>>
      BY <1>3, <1>14, GotoRule DEF Walk
    <2>2. QED
      BY <1>4, <2>1
  <1>15. QED
    BY <1>1, <1>5, <1>6, <1>7, <1>8, <1>9, <1>10, <1>11, <1>12, <1>13, <1>14 DEF Begin, Continue

\* When one thread pops and clears, lockfree::stack is linearizable: it does
\* what a stack does whose operations are one step each.
THEOREM Refinement ==
  ASSUME \A a, b \in Poppers : a = b
  PROVE  Spec => ImplementsLifoStack
  <1>1. Init => Lifo!Init
    <2> SUFFICES ASSUME Init PROVE Content = <<>> /\ Taken = {}
      BY DEF Lifo!Init
    <2>1. /\ Length(head, next) = 0 /\ delivered = {}
          /\ \A t \in Threads : pc[t] = "idle"
      BY LengthNull, ConstantsAssumption DEF Init, ConstantsAssumption
    <2>2. QED
      BY <2>1 DEF Content, Taken
  <1>2. StackInv /\ [Next]_vars => [Lifo!Next]_(Lifo!vars)
    <2> SUFFICES ASSUME StackInv, [Next]_vars PROVE Lifo!Next \/ UNCHANGED Lifo!vars
      OBVIOUS
    <2>1. CASE Next
      BY <2>1, LifoStep
    <2>2. CASE UNCHANGED vars
      <3>1. Content' = Content /\ Taken' = Taken
        BY <2>2 DEF vars, memory, Content, Taken
      <3>2. QED
        BY <3>1 DEF Lifo!vars
    <2>3. QED
      BY <2>1, <2>2
  <1>3. QED
    BY <1>1, <1>2, StackInvariant, PTL DEF Spec, ImplementsLifoStack, Lifo!Spec

=============================================================================
