--------------------------- MODULE FreelistProofs ---------------------------
(***************************************************************************)
(* Proofs about Freelist, for any memory and any pool, any number of       *)
(* threads that give nodes back, and one that allocates.                   *)
(***************************************************************************)
EXTENDS Freelist, FiniteSetTheorems, WellFoundedInduction, TLAPS

\* The calls that have a node which nobody else may touch.
Holding(t) == pc[t] \in {"subtract", "free", "link", "push"}

\* A node is in one place: in the heap, in the list, or with one user.
PlaceInv ==
  /\ heap \cap Listed = {}
  /\ \A n \in Nodes : uses[n] = IF n \in heap \cup Listed THEN 0 ELSE 1

\* What a call has in hand: an allocate() a node that stays in the list, and
\* what follows it; later a node that is its own.
HandInv ==
  /\ \A t \in Threads :
       /\ pc[t] \in {"heap", "next", "swap", "subtract"} => t \in Allocators
       /\ pc[t] \in {"free", "link", "push", "add"} => t \in Deallocators
       /\ pc[t] \in {"next", "swap"} => node[t] \in Listed
       /\ pc[t] = "swap" => expected[t] = next[node[t]]
       /\ Holding(t) => node[t] \in Nodes \ (heap \cup Listed)
  /\ \A t, u \in Threads : t # u /\ Holding(t) /\ Holding(u) => node[t] # node[u]

\* The inductive invariant; the list comes to an end.
PoolInv == TypeOK /\ PlaceInv /\ HandInv /\ SizeCounts /\ Proper(head, next, Junk)

-----------------------------------------------------------------------------
(* Lists *)

LEMMA ReachLeast ==
  ASSUME NEW nx, NEW n, NEW S, S \subseteq DOMAIN nx, n \in DOMAIN nx => n \in S, Closed(S, nx)
  PROVE  Reach(n, nx) \subseteq S
  BY DEF Reach

LEMMA ReachClosed ==
  ASSUME NEW nx, NEW n
  PROVE  /\ Reach(n, nx) \subseteq DOMAIN nx
         /\ n \in DOMAIN nx => n \in Reach(n, nx)
         /\ Closed(Reach(n, nx), nx)
  <1>1. ASSUME NEW m \in Reach(n, nx), nx[m] \in DOMAIN nx
        PROVE  nx[m] \in Reach(n, nx)
    <2>1. ASSUME NEW S \in SUBSET DOMAIN nx, n \in DOMAIN nx => n \in S, Closed(S, nx)
          PROVE  nx[m] \in S
      <3>1. m \in S
        BY <2>1 DEF Reach
      <3>2. QED
        BY <1>1, <2>1, <3>1 DEF Closed
    <2>2. QED
      BY <1>1, <2>1 DEF Reach
  <1>2. QED
    BY <1>1 DEF Reach, Closed

LEMMA ReachNull ==
  ASSUME NEW nx, NEW n, n \notin DOMAIN nx
  PROVE  Reach(n, nx) = {}
  <1>1. Closed({}, nx)
    BY DEF Closed
  <1>2. QED
    BY <1>1, ReachLeast

\* What follows a node of the list is in the list.
LEMMA ReachWithin ==
  ASSUME NEW nx, NEW n, NEW m \in Reach(n, nx)
  PROVE  Reach(m, nx) \subseteq Reach(n, nx) /\ Reach(nx[m], nx) \subseteq Reach(n, nx)
  <1>1. Reach(n, nx) \subseteq DOMAIN nx /\ Closed(Reach(n, nx), nx)
    BY ReachClosed
  <1>2. nx[m] \in DOMAIN nx => nx[m] \in Reach(n, nx)
    BY <1>1 DEF Closed
  <1>3. QED
    BY <1>1, <1>2, ReachLeast

\* A list is its first node and the list behind it.
LEMMA ReachUnfold ==
  ASSUME NEW nx, NEW n \in DOMAIN nx
  PROVE  Reach(n, nx) = {n} \cup Reach(nx[n], nx)
  <1> DEFINE S == {n} \cup Reach(nx[n], nx)
  <1>1. /\ Reach(nx[n], nx) \subseteq DOMAIN nx /\ Closed(Reach(nx[n], nx), nx)
        /\ nx[n] \in DOMAIN nx => nx[n] \in Reach(nx[n], nx)
    BY ReachClosed
  <1>2. Closed(S, nx) /\ S \subseteq DOMAIN nx
    BY <1>1 DEF Closed
  <1>3. Reach(n, nx) \subseteq S
    BY <1>2, ReachLeast
  <1>4. n \in Reach(n, nx)
    BY ReachClosed
  <1>5. Reach(nx[n], nx) \subseteq Reach(n, nx)
    BY <1>4, ReachWithin
  <1>6. QED
    BY <1>3, <1>4, <1>5

\* A change outside of the list does not change it.
LEMMA ReachSame ==
  ASSUME NEW nx, NEW ny, NEW n, DOMAIN ny = DOMAIN nx, \A m \in Reach(n, nx) : ny[m] = nx[m]
  PROVE  Reach(n, ny) = Reach(n, nx)
  <1>1. /\ Reach(n, nx) \subseteq DOMAIN nx /\ Closed(Reach(n, nx), nx)
        /\ n \in DOMAIN nx => n \in Reach(n, nx)
    BY ReachClosed
  <1>2. Closed(Reach(n, nx), ny)
    BY <1>1 DEF Closed
  <1>3. Reach(n, ny) \subseteq Reach(n, nx)
    BY <1>1, <1>2, ReachLeast
  <1>4. /\ Reach(n, ny) \subseteq DOMAIN ny /\ Closed(Reach(n, ny), ny)
        /\ n \in DOMAIN ny => n \in Reach(n, ny)
    BY ReachClosed
  <1>5. Closed(Reach(n, ny), nx)
    BY <1>3, <1>4 DEF Closed
  <1>6. Reach(n, nx) \subseteq Reach(n, ny)
    BY <1>4, <1>5, ReachLeast
  <1>7. QED
    BY <1>3, <1>6

LEMMA ProperSame ==
  ASSUME NEW nx, NEW ny, NEW n, NEW junk, DOMAIN ny = DOMAIN nx,
         \A m \in Reach(n, nx) : ny[m] = nx[m], Proper(n, nx, junk)
  PROVE  Proper(n, ny, junk)
  <1>1. Reach(n, ny) = Reach(n, nx)
    BY ReachSame
  <1>2. ASSUME NEW m \in Reach(n, nx)
        PROVE  m \notin Reach(ny[m], ny) /\ ny[m] # junk
    <2>1. Reach(nx[m], nx) \subseteq Reach(n, nx)
      BY ReachWithin
    <2>2. \A k \in Reach(nx[m], nx) : ny[k] = nx[k]
      BY <2>1
    <2>3. Reach(nx[m], ny) = Reach(nx[m], nx)
      BY <2>2, ReachSame
    <2>4. ny[m] = nx[m]
      OBVIOUS
    <2>5. QED
      BY <2>3, <2>4 DEF Proper
  <1>3. QED
    BY <1>1, <1>2 DEF Proper

\* A node of its own before a list that comes to an end.
LEMMA ProperPush ==
  ASSUME NEW nx, NEW n \in DOMAIN nx, NEW junk,
         Proper(nx[n], nx, junk), n \notin Reach(nx[n], nx), nx[n] # junk
  PROVE  Proper(n, nx, junk)
  BY ReachUnfold DEF Proper

\* What is left of a list behind its first node.
LEMMA ProperPop ==
  ASSUME NEW nx, NEW n \in DOMAIN nx, NEW junk, Proper(n, nx, junk)
  PROVE  /\ Proper(nx[n], nx, junk) /\ nx[n] # junk /\ n \notin Reach(nx[n], nx)
         /\ Reach(nx[n], nx) = Reach(n, nx) \ {n}
  <1>1. Reach(n, nx) = {n} \cup Reach(nx[n], nx)
    BY ReachUnfold
  <1>2. QED
    BY <1>1 DEF Proper

LEMMA LeastNatural ==
  ASSUME NEW T, T \subseteq Nat, T # {}
  PROVE  \E n \in T : \A m \in T : n <= m
  <1> DEFINE R == OpToRel(<, Nat)
  <1>1. IsWellFoundedOn(R, Nat)
    BY NatLessThanWellFounded
  <1>2. \A x, y \in Nat : x < y => <<x, y>> \in R
    BY DEF OpToRel
  <1> HIDE DEF R
  <1>3. PICK x \in T : \A y \in T : ~ (<<y, x>> \in R)
    BY <1>1, WFMin
  <1>4. ASSUME NEW m \in T
        PROVE  x <= m
    <2>1. x \in Nat /\ m \in Nat
      OBVIOUS
    <2>2. ~ (m < x)
      BY <1>2, <1>3, <2>1
    <2>3. QED
      BY <2>1, <2>2
  <1>5. QED
    BY <1>4

-----------------------------------------------------------------------------
(* The list of the constructor *)

\* order is a list of k nodes, each linked to the one before; the list of its
\* first i begins at start[i].
Ordered(order, start, k, nx) ==
  /\ start[0] \notin DOMAIN nx
  /\ \A i \in 1..k : order[i] \in DOMAIN nx /\ start[i] = order[i] /\ nx[order[i]] = start[i - 1]

FirstOf(order, i) == {order[j] : j \in 1..i}

\* Nodes that are linked one after the other are a list of just these nodes.
LEMMA ReachOrder ==
  ASSUME NEW nx, NEW k \in Nat, NEW order, NEW start, Ordered(order, start, k, nx)
  PROVE  \A i \in 0..k : Reach(start[i], nx) = FirstOf(order, i)
  <1> DEFINE Wrong == {i \in 0..k : Reach(start[i], nx) # FirstOf(order, i)}
  <1>1. SUFFICES ASSUME Wrong # {} PROVE FALSE
    OBVIOUS
  <1>2. PICK i \in Wrong : \A j \in Wrong : i <= j
    <2>1. Wrong \subseteq Nat
      OBVIOUS
    <2> HIDE DEF Wrong
    <2>2. QED
      BY <1>1, <2>1, LeastNatural
  <1>3. i \in 0..k /\ Reach(start[i], nx) # FirstOf(order, i)
    BY <1>2
  <1>4. CASE i = 0
    <2>1. FirstOf(order, 0) = {}
      BY DEF FirstOf
    <2>2. QED
      BY <1>3, <1>4, <2>1, ReachNull DEF Ordered
  <1>5. CASE i # 0
    <2>1. i - 1 \in 0..k /\ i \in 1..k /\ ~(i <= i - 1)
      BY <1>3, <1>5
    <2>2. Reach(start[i - 1], nx) = FirstOf(order, i - 1)
      BY <1>2, <2>1
    <2>3. Reach(start[i], nx) = {order[i]} \cup Reach(start[i - 1], nx)
      BY <2>1, ReachUnfold DEF Ordered
    <2>4. FirstOf(order, i) = {order[i]} \cup FirstOf(order, i - 1)
      <3>1. 1..i = {i} \cup 1..i - 1
        BY <2>1
      <3>2. QED
        BY <3>1 DEF FirstOf
    <2>5. QED
      BY <1>3, <2>2, <2>3, <2>4
  <1>6. QED
    BY <1>4, <1>5

LEMMA InitPoolInv == Init => PoolInv
  <1> SUFFICES ASSUME Init PROVE PoolInv
    OBVIOUS
  <1> USE ConstantsAssumption DEF ConstantsAssumption
  <1>1. IsFiniteSet(Pooled) /\ MaxSize \in Nat /\ MaxSize # 0
    BY FS_Subset, FS_CardinalityType, FS_EmptySet DEF MaxSize
  <1>2. PICK order \in [1..MaxSize -> Pooled] :
          /\ \A i, j \in 1..MaxSize : order[i] = order[j] => i = j
          /\ head = order[MaxSize]
          /\ next = [n \in Nodes |->
               IF n \notin Pooled THEN Junk
               ELSE LET i == CHOOSE j \in 1..MaxSize : order[j] = n
                    IN  IF i = 1 THEN Null ELSE order[i - 1]]
    BY DEF Init
  <1>3. /\ size = MaxSize /\ heap = Nodes \ Pooled /\ uses = [n \in Nodes |-> 0]
        /\ pc = [t \in Threads |-> "idle"] /\ node = [t \in Threads |-> Null]
        /\ expected = [t \in Threads |-> Null]
    BY DEF Init
  <1>4. \A n \in Pooled : \E i \in 1..MaxSize : order[i] = n
    <2>1. order \in Injection(1..MaxSize, Pooled)
      BY <1>2 DEF Injection, IsInjective
    <2>2. Cardinality(1..MaxSize) = MaxSize
      BY <1>1, FS_Interval
    <2>3. order \in Surjection(1..MaxSize, Pooled)
      BY <1>1, <2>1, <2>2, FS_Injection DEF MaxSize
    <2>4. QED
      BY <2>3 DEF Surjection
  <1> DEFINE start == [i \in 0..MaxSize |-> IF i = 0 THEN Null ELSE order[i]]
  <1>5. DOMAIN next = Nodes /\ \A n \in Nodes \ Pooled : next[n] = Junk
    BY <1>2
  <1>6. ASSUME NEW i \in 1..MaxSize
        PROVE  next[order[i]] = start[i - 1] /\ order[i] \in Pooled
    <2>1. (CHOOSE j \in 1..MaxSize : order[j] = order[i]) = i
      BY <1>2
    <2>2. order[i] \in Pooled /\ order[i] \in Nodes
      BY <1>2
    <2>3. next[order[i]] = IF i = 1 THEN Null ELSE order[i - 1]
      BY <1>2, <2>1, <2>2
    <2>4. QED
      BY <1>1, <2>2, <2>3
  <1>7. \A i \in 0..MaxSize : Reach(start[i], next) = FirstOf(order, i)
    <2>1. start[0] = Null /\ \A i \in 1..MaxSize : start[i] = order[i]
      BY <1>1
    <2> HIDE DEF start
    <2>2. start[0] \notin DOMAIN next
      BY <1>5, <2>1
    <2>3. \A i \in 1..MaxSize :
            order[i] \in DOMAIN next /\ start[i] = order[i] /\ next[order[i]] = start[i - 1]
      BY <1>5, <1>6, <2>1
    <2>4. Ordered(order, start, MaxSize, next)
      BY <2>2, <2>3 DEF Ordered
    <2>5. QED
      BY <1>1, <2>4, ReachOrder
  <1>8. Listed = Pooled
    <2>1. start[MaxSize] = head
      BY <1>1, <1>2
    <2>2. FirstOf(order, MaxSize) = Pooled
      BY <1>2, <1>4 DEF FirstOf
    <2> HIDE DEF start
    <2>3. Reach(start[MaxSize], next) = FirstOf(order, MaxSize)
      BY <1>1, <1>7
    <2>4. QED
      BY <2>1, <2>2, <2>3 DEF Listed
  <1>9. Proper(head, next, Junk)
    <2>1. ASSUME NEW m \in Listed
          PROVE  m \notin Reach(next[m], next) /\ next[m] # Junk
      <3>1. PICK i \in 1..MaxSize : order[i] = m
        BY <1>4, <1>8, <2>1
      <3>2. i - 1 \in 0..MaxSize /\ start[i - 1] \in Pooled \cup {Null}
        BY <1>1, <1>2
      <3>3. Reach(next[m], next) = FirstOf(order, i - 1)
        BY <1>6, <1>7, <3>1, <3>2
      <3>4. \A j \in 1..i - 1 : order[j] # order[i]
        BY <1>1, <1>2
      <3>5. next[m] # Junk
        BY <1>6, <3>1, <3>2
      <3>6. QED
        BY <3>1, <3>3, <3>4, <3>5 DEF FirstOf
    <2>2. QED
      BY <2>1 DEF Proper, Listed
  <1>10. TypeOK
    <2>1. head \in Nodes \cup {Null} /\ heap \subseteq Nodes /\ size \in Int
      BY <1>1, <1>2, <1>3
    <2>2. next \in [Nodes -> Nodes \cup {Null, Junk}]
      <3>1. ASSUME NEW n \in Pooled
            PROVE  next[n] \in Nodes \cup {Null}
        <4>1. PICK i \in 1..MaxSize : order[i] = n
          BY <1>4
        <4>2. start[i - 1] \in Pooled \cup {Null}
          BY <1>1, <1>2
        <4>3. QED
          BY <1>6, <4>1, <4>2
      <3>2. \A n \in Nodes : next[n] \in Nodes \cup {Null, Junk}
        BY <1>5, <3>1
      <3>3. next = [n \in Nodes |-> next[n]]
        BY <1>2
      <3>4. QED
        BY <3>2, <3>3
    <2>3. uses \in [Nodes -> Nat] /\ pc \in [Threads -> Places]
      BY <1>3 DEF Places
    <2>4. node \in [Threads -> Nodes \cup {Null}] /\ expected \in [Threads -> Nodes \cup {Null, Junk}]
      BY <1>3
    <2>5. QED
      BY <2>1, <2>2, <2>3, <2>4 DEF TypeOK
  <1>11. PlaceInv
    BY <1>3, <1>8 DEF PlaceInv
  <1>12. HandInv
    BY <1>3 DEF HandInv, Holding
  <1>13. SizeCounts
    <2>1. At("add") = {} /\ At("subtract") = {}
      BY <1>3 DEF At
    <2>2. QED
      BY <1>1, <1>3, <1>8, <2>1, FS_EmptySet DEF SizeCounts, MaxSize
  <1>14. QED
    BY <1>9, <1>10, <1>11, <1>12, <1>13 DEF PoolInv

-----------------------------------------------------------------------------
(* Steps of one thread *)

LEMMA GotoRule ==
  ASSUME TypeOK, NEW t \in Threads, NEW here, NEW there \in Places, Goto(t, here, there)
  PROVE  /\ pc[t] = here /\ pc'[t] = there /\ \A u \in Threads : u # t => pc'[u] = pc[u]
         /\ pc' \in [Threads -> Places]
  BY DEF Goto, TypeOK

\* A step from here to there moves one thread.
LEMMA AtRule ==
  ASSUME TypeOK, NEW t \in Threads, NEW here, NEW there \in Places, Goto(t, here, there), NEW p
  PROVE  /\ IsFiniteSet(At(p)) /\ IsFiniteSet(At(p)')
         /\ p \notin {here, there} \/ here = there => At(p)' = At(p)
         /\ p = there /\ here # there => Cardinality(At(p)') = Cardinality(At(p)) + 1
         /\ p = here /\ here # there => Cardinality(At(p)') = Cardinality(At(p)) - 1
  <1>1. pc[t] = here /\ pc'[t] = there /\ \A u \in Threads : u # t => pc'[u] = pc[u]
    BY GotoRule
  <1>2. IsFiniteSet(Threads)
    BY ConstantsAssumption, FS_Union DEF ConstantsAssumption, Threads
  <1>3. At(p) \subseteq Threads /\ At(p)' \subseteq Threads
    BY DEF At
  <1>4. IsFiniteSet(At(p)) /\ IsFiniteSet(At(p)')
    BY <1>2, <1>3, FS_Subset
  <1>5. p \notin {here, there} \/ here = there => At(p)' = At(p)
    BY <1>1 DEF At
  <1>6. p = there /\ here # there => At(p)' = At(p) \cup {t} /\ t \notin At(p)
    BY <1>1 DEF At
  <1>7. p = here /\ here # there => At(p)' = At(p) \ {t} /\ t \in At(p)
    BY <1>1 DEF At
  <1>8. QED
    BY <1>4, <1>5, <1>6, <1>7, FS_AddElement, FS_RemoveElement

LEMMA ListedFinite ==
  ASSUME TypeOK
  PROVE  IsFiniteSet(Listed) /\ Cardinality(Listed) \in Nat /\ Listed \subseteq Nodes
  <1>1. Listed \subseteq Nodes
    BY ReachClosed DEF Listed, TypeOK
  <1>2. QED
    BY <1>1, ConstantsAssumption, FS_Subset, FS_CardinalityType DEF ConstantsAssumption

\* The list stays what it is when only other nodes are written.
LEMMA ListedSame ==
  ASSUME TypeOK, Proper(head, next, Junk), UNCHANGED head, DOMAIN next' = Nodes,
         \A m \in Listed : next'[m] = next[m]
  PROVE  Listed' = Listed /\ Proper(head, next, Junk)'
  <1>1. DOMAIN next = Nodes
    BY DEF TypeOK
  <1>2. Reach(head, next') = Reach(head, next)
    BY <1>1, ReachSame DEF Listed
  <1>3. Proper(head, next', Junk)
    BY <1>1, ProperSame DEF Listed
  <1>4. QED
    BY <1>2, <1>3 DEF Listed

\* A node that is given back has a user, and no call has it in hand.
LEMMA GivenBackRule ==
  ASSUME PoolInv, NEW n \in Nodes, GivenBack(n)
  PROVE  n \notin heap \cup Listed /\ \A t \in Threads : Holding(t) => node[t] # n
  <1> DEFINE H == {t \in Threads :
                     node[t] = n /\ pc[t] \in {"subtract", "link", "push", "free"}}
  <1>1. uses[n] > Cardinality(H)
    BY DEF GivenBack
  <1>2. ASSUME NEW t \in H
        PROVE  FALSE
    <2>1. \A u \in H : u = t
      BY <1>2 DEF PoolInv, HandInv, Holding
    <2>2. H = {t}
      BY <1>2, <2>1
    <2>3. Cardinality(H) = 1
      BY <2>2, FS_Singleton
    <2>4. uses[n] \in {0, 1}
      BY DEF PoolInv, PlaceInv
    <2>5. QED
      BY <1>1, <2>3, <2>4
  <1>3. \A t \in Threads : Holding(t) => node[t] # n
    BY <1>2 DEF Holding
  <1>4. Cardinality(H) = 0
    <2>1. H = {}
      BY <1>2
    <2>2. QED
      BY <2>1, FS_EmptySet
  <1>5. n \notin heap \cup Listed
    BY <1>1, <1>4 DEF PoolInv, PlaceInv
  <1>6. QED
    BY <1>3, <1>5

\* What holds after a step that leaves the list, the heap and the counter alone.
LEMMA QuietRule ==
  ASSUME PoolInv, UNCHANGED <<head, size, heap, uses>>,
         next' \in [Nodes -> Nodes \cup {Null, Junk}], \A m \in Listed : next'[m] = next[m],
         node' \in [Threads -> Nodes \cup {Null}],
         expected' \in [Threads -> Nodes \cup {Null, Junk}],
         NEW t \in Threads, NEW here, NEW there \in Places, Goto(t, here, there),
         here \notin {"add", "subtract"}, there \notin {"add", "subtract"}
  PROVE  /\ TypeOK' /\ PlaceInv' /\ SizeCounts' /\ Proper(head, next, Junk)'
         /\ Listed' = Listed
  <1> USE DEF PoolInv
  <1>1. Listed' = Listed /\ Proper(head, next, Junk)'
    BY ListedSame DEF TypeOK
  <1>2. TypeOK'
    BY GotoRule DEF TypeOK
  <1>3. PlaceInv'
    BY <1>1 DEF PlaceInv
  <1>4. At("add")' = At("add") /\ At("subtract")' = At("subtract")
    BY AtRule
  <1>5. SizeCounts'
    BY <1>1, <1>4 DEF SizeCounts
  <1>6. QED
    BY <1>1, <1>2, <1>3, <1>5

\* What a step of t has to show about the hands of the threads.
LEMMA HandRule ==
  ASSUME HandInv, NEW t \in Threads,
         \A u \in Threads : u # t =>
           pc'[u] = pc[u] /\ node'[u] = node[u] /\ expected'[u] = expected[u],
         \A u \in Threads : u # t /\ pc[u] \in {"next", "swap"} =>
           node[u] \in Listed' /\ next'[node[u]] = next[node[u]],
         \A u \in Threads : u # t /\ Holding(u) => node[u] \notin (heap \cup Listed)',
         pc'[t] \in {"heap", "next", "swap", "subtract"} => t \in Allocators,
         pc'[t] \in {"free", "link", "push", "add"} => t \in Deallocators,
         pc'[t] \in {"next", "swap"} => node'[t] \in Listed',
         pc'[t] = "swap" => expected'[t] = next'[node'[t]],
         Holding(t)' => node'[t] \in Nodes \ (heap \cup Listed)',
         \A u \in Threads : u # t /\ Holding(t)' /\ Holding(u) => node'[t] # node[u]
  PROVE  HandInv'
  <1>1. \A u \in Threads : u # t => (Holding(u)' <=> Holding(u))
    BY DEF Holding
  <1>2. ASSUME NEW u \in Threads
        PROVE  /\ pc'[u] \in {"heap", "next", "swap", "subtract"} => u \in Allocators
               /\ pc'[u] \in {"free", "link", "push", "add"} => u \in Deallocators
               /\ pc'[u] \in {"next", "swap"} => node'[u] \in Listed'
               /\ pc'[u] = "swap" => expected'[u] = next'[node'[u]]
               /\ Holding(u)' => node'[u] \in Nodes \ (heap \cup Listed)'
    BY <1>1 DEF HandInv
  <1>3. ASSUME NEW u \in Threads, NEW v \in Threads, u # v, Holding(u)', Holding(v)'
        PROVE  node'[u] # node'[v]
    BY <1>1, <1>3 DEF HandInv
  <1>4. QED
    BY <1>2, <1>3 DEF HandInv

LEMMA AllocateStep ==
  ASSUME \A a, b \in Allocators : a = b, PoolInv, NEW t \in Threads, Allocate(t)
  PROVE  PoolInv'
  <1> USE DEF PoolInv, Places
  <1>1. DOMAIN next = Nodes /\ Listed \subseteq Nodes
    BY ListedFinite DEF TypeOK
  <1>2. CASE AllocateLoad(t)
    <2>1. /\ t \in Allocators /\ pc[t] = "idle" /\ pc'[t] = (IF head = Null THEN "heap" ELSE "next")
          /\ \A u \in Threads : u # t => pc'[u] = pc[u] /\ node'[u] = node[u]
          /\ UNCHANGED <<head, next, size, heap, uses, expected>>
          /\ node'[t] = head /\ node' \in [Threads -> Nodes \cup {Null}]
      BY <1>2, GotoRule DEF AllocateLoad, TypeOK
    <2>2. TypeOK' /\ PlaceInv' /\ SizeCounts' /\ Proper(head, next, Junk)' /\ Listed' = Listed
      BY <1>2, <2>1, QuietRule DEF AllocateLoad, TypeOK
    <2>3. pc'[t] = "next" => head \in Listed
      BY <1>1, <2>1, ReachClosed DEF Listed, TypeOK
    <2>4. HandInv'
      BY <2>1, <2>2, <2>3, HandRule DEF HandInv, Holding
    <2>5. QED
      BY <2>2, <2>4
  <1>3. CASE AllocateNext(t)
    <2>1. /\ t \in Allocators /\ pc[t] = "next" /\ pc'[t] = "swap"
          /\ \A u \in Threads : u # t => pc'[u] = pc[u] /\ expected'[u] = expected[u]
          /\ UNCHANGED <<head, next, size, heap, uses, node>>
          /\ expected'[t] = next[node[t]] /\ expected' \in [Threads -> Nodes \cup {Null, Junk}]
      BY <1>3, GotoRule DEF AllocateNext, TypeOK, HandInv
    <2>2. TypeOK' /\ PlaceInv' /\ SizeCounts' /\ Proper(head, next, Junk)' /\ Listed' = Listed
      BY <1>3, <2>1, QuietRule DEF AllocateNext, TypeOK
    <2>3. HandInv'
      BY <2>1, <2>2, HandRule DEF HandInv, Holding
    <2>4. QED
      BY <2>2, <2>3
  <1>4. CASE AllocateSwap(t) /\ pc'[t] = "next"
    <2>1. /\ t \in Allocators /\ pc[t] = "swap" /\ Goto(t, "swap", "next")
          /\ \A u \in Threads : u # t => pc'[u] = pc[u] /\ node'[u] = node[u]
          /\ UNCHANGED <<head, next, size, heap, uses, expected>>
          /\ node'[t] = head /\ node' \in [Threads -> Nodes \cup {Null}]
      BY <1>4, GotoRule DEF AllocateSwap, TypeOK, HandInv
    <2>2. TypeOK' /\ PlaceInv' /\ SizeCounts' /\ Proper(head, next, Junk)' /\ Listed' = Listed
      BY <1>4, <2>1, QuietRule DEF TypeOK
    <2>3. head \in Listed
      <3>1. Listed # {}
        BY <2>1 DEF HandInv
      <3>2. QED
        BY <3>1, ReachClosed, ReachNull DEF Listed
    <2>4. HandInv'
      BY <1>4, <2>1, <2>2, <2>3, HandRule DEF HandInv, Holding
    <2>5. QED
      BY <2>2, <2>4
  <1>5. CASE AllocateHeap(t)
    <2>1. PICK n \in heap : /\ heap' = heap \ {n}
                            /\ uses' = [uses EXCEPT ![n] = @ + 1]
                            /\ next' = [next EXCEPT ![n] = Junk]
      BY <1>5 DEF AllocateHeap
    <2>2. /\ pc[t] = "heap" /\ pc'[t] = "idle" /\ pc' \in [Threads -> Places]
          /\ \A u \in Threads : u # t => pc'[u] = pc[u]
          /\ UNCHANGED <<head, size, node, expected>> /\ Goto(t, "heap", "idle")
      BY <1>5, GotoRule DEF AllocateHeap
    <2>3. n \in Nodes /\ n \notin Listed /\ uses[n] = 0
      BY <1>1 DEF PlaceInv, TypeOK
    <2>4. TypeOK'
      BY <2>1, <2>2, <2>3 DEF TypeOK
    <2>5. Listed' = Listed /\ Proper(head, next, Junk)'
      BY <2>1, <2>2, <2>3, ListedSame DEF TypeOK
    <2>6. PlaceInv'
      BY <2>1, <2>3, <2>5 DEF PlaceInv, TypeOK
    <2>7. At("add")' = At("add") /\ At("subtract")' = At("subtract")
      BY <2>2, AtRule
    <2>8. SizeCounts'
      BY <2>2, <2>5, <2>7 DEF SizeCounts
    <2>9. HandInv'
      BY <1>1, <2>1, <2>2, <2>3, <2>5, HandRule DEF HandInv, Holding, TypeOK
    <2>10. QED
      BY <2>4, <2>5, <2>6, <2>8, <2>9
  <1>6. CASE AllocateSwap(t) /\ pc'[t] # "next"
    <2>1. /\ t \in Allocators /\ pc[t] = "swap" /\ Goto(t, "swap", "subtract") /\ pc'[t] = "subtract"
          /\ \A u \in Threads : u # t => pc'[u] = pc[u]
          /\ head = node[t] /\ head' = next[head] /\ uses' = [uses EXCEPT ![head] = @ + 1]
          /\ UNCHANGED <<next, size, heap, node, expected>> /\ pc' \in [Threads -> Places]
      BY <1>6, GotoRule DEF AllocateSwap, HandInv
    <2>2. head \in Listed /\ head \in Nodes /\ head \notin heap /\ uses[head] = 0
      BY <1>1, <2>1 DEF HandInv, PlaceInv
    <2>3. /\ Listed' = Listed \ {head} /\ Proper(head, next, Junk)' /\ next[head] # Junk
      BY <1>1, <2>1, <2>2, ProperPop DEF Listed
    <2>4. TypeOK'
      BY <2>1, <2>2, <2>3 DEF TypeOK
    <2>5. PlaceInv'
      BY <2>1, <2>2, <2>3 DEF PlaceInv, TypeOK
    <2>6. SizeCounts'
      <3>1. At("add")' = At("add") /\ Cardinality(At("subtract")') = Cardinality(At("subtract")) + 1
        BY <2>1, AtRule
      <3>2. Cardinality(Listed') = Cardinality(Listed) - 1 /\ Cardinality(Listed) \in Nat
        BY <2>2, <2>3, ListedFinite, FS_RemoveElement
      <3>3. Cardinality(At("subtract")) \in Nat
        BY <2>1, AtRule, FS_CardinalityType
      <3>4. QED
        BY <2>1, <3>1, <3>2, <3>3 DEF SizeCounts
    <2>7. HandInv'
      <3>1. \A u \in Threads : u # t => pc[u] \notin {"next", "swap"}
        BY <2>1 DEF HandInv
      <3>2. \A u \in Threads : u # t /\ Holding(u) => node[u] # head
        BY <2>2 DEF HandInv
      <3>3. QED
        BY <2>1, <2>2, <2>3, <3>1, <3>2, HandRule DEF HandInv, Holding
    <2>8. QED
      BY <2>3, <2>4, <2>5, <2>6, <2>7
  <1>7. CASE AllocateSubtract(t)
    <2>1. /\ t \in Allocators /\ pc[t] = "subtract" /\ Goto(t, "subtract", "idle") /\ pc'[t] = "idle"
          /\ \A u \in Threads : u # t => pc'[u] = pc[u]
          /\ size' = size - 1 /\ next' = [next EXCEPT ![node[t]] = Junk]
          /\ UNCHANGED <<head, heap, uses, node, expected>> /\ pc' \in [Threads -> Places]
      BY <1>7, GotoRule DEF AllocateSubtract, HandInv
    <2>2. node[t] \in Nodes /\ node[t] \notin heap \cup Listed
      BY <2>1 DEF HandInv, Holding
    <2>3. TypeOK'
      BY <2>1, <2>2 DEF TypeOK
    <2>4. Listed' = Listed /\ Proper(head, next, Junk)'
      BY <2>1, <2>2, ListedSame DEF TypeOK
    <2>5. PlaceInv'
      BY <2>1, <2>4 DEF PlaceInv
    <2>6. SizeCounts'
      <3>1. At("add")' = At("add") /\ Cardinality(At("subtract")') = Cardinality(At("subtract")) - 1
        BY <2>1, AtRule
      <3>2. Cardinality(Listed) \in Nat /\ Cardinality(At("subtract")) \in Nat /\ Cardinality(At("add")) \in Nat
        BY <2>1, AtRule, ListedFinite, FS_CardinalityType
      <3>3. QED
        BY <2>1, <2>4, <3>1, <3>2 DEF SizeCounts, TypeOK
    <2>7. HandInv'
      BY <2>1, <2>2, <2>4, HandRule DEF HandInv, Holding, TypeOK
    <2>8. QED
      BY <2>3, <2>4, <2>5, <2>6, <2>7
  <1>8. QED
    BY <1>2, <1>3, <1>4, <1>5, <1>6, <1>7 DEF Allocate

LEMMA DeallocateStep ==
  ASSUME PoolInv, NEW t \in Threads, Deallocate(t)
  PROVE  PoolInv'
  <1> USE DEF PoolInv, Places
  <1>1. DOMAIN next = Nodes /\ Listed \subseteq Nodes
    BY ListedFinite DEF TypeOK
  <1>2. CASE DeallocateCheck(t)
    <2>1. PICK n \in Nodes : GivenBack(n) /\ node' = [node EXCEPT ![t] = n]
      BY <1>2 DEF DeallocateCheck
    <2>2. /\ t \in Deallocators /\ pc[t] = "idle"
          /\ pc'[t] = (IF size = MaxSize THEN "free" ELSE "link")
          /\ \A u \in Threads : u # t => pc'[u] = pc[u] /\ node'[u] = node[u]
          /\ UNCHANGED <<head, next, size, heap, uses, expected>>
          /\ node'[t] = n /\ node' \in [Threads -> Nodes \cup {Null}]
      BY <1>2, <2>1, GotoRule DEF DeallocateCheck, TypeOK
    <2>3. TypeOK' /\ PlaceInv' /\ SizeCounts' /\ Proper(head, next, Junk)' /\ Listed' = Listed
      BY <1>2, <2>2, QuietRule DEF DeallocateCheck, TypeOK
    <2>4. n \notin heap \cup Listed /\ \A u \in Threads : Holding(u) => node[u] # n
      BY <2>1, GivenBackRule
    <2>5. HandInv'
      BY <2>2, <2>3, <2>4, HandRule DEF HandInv, Holding
    <2>6. QED
      BY <2>3, <2>5
  <1>3. CASE DeallocateLink(t) \/ (DeallocateSwap(t) /\ pc'[t] = "push")
    <2>1. PICK here \in {"link", "push"} :
            /\ t \in Deallocators /\ pc[t] = here /\ Goto(t, here, "push") /\ pc'[t] = "push"
            /\ \A u \in Threads : u # t => pc'[u] = pc[u]
            /\ UNCHANGED <<head, size, heap, uses, node, expected>>
            /\ next' = [next EXCEPT ![node[t]] = head]
      BY <1>3, GotoRule DEF DeallocateLink, DeallocateSwap, HandInv
    <2>2. node[t] \in Nodes /\ node[t] \notin heap \cup Listed
      BY <2>1 DEF HandInv, Holding
    <2>3. TypeOK' /\ PlaceInv' /\ SizeCounts' /\ Proper(head, next, Junk)' /\ Listed' = Listed
      <3>1. next' \in [Nodes -> Nodes \cup {Null, Junk}] /\ \A m \in Listed : next'[m] = next[m]
        BY <1>1, <2>1, <2>2 DEF TypeOK
      <3>2. /\ node' \in [Threads -> Nodes \cup {Null}]
            /\ expected' \in [Threads -> Nodes \cup {Null, Junk}]
        BY <2>1 DEF TypeOK
      <3>3. here \notin {"add", "subtract"} /\ "push" \in Places
        OBVIOUS
      <3>4. QED
        BY <2>1, <3>1, <3>2, <3>3, QuietRule
    <2>4. HandInv'
      BY <1>1, <2>1, <2>2, <2>3, HandRule DEF HandInv, Holding
    <2>5. QED
      BY <2>3, <2>4
  <1>4. CASE DeallocateHeap(t)
    <2>1. /\ t \in Deallocators /\ pc[t] = "free" /\ Goto(t, "free", "idle") /\ pc'[t] = "idle"
          /\ \A u \in Threads : u # t => pc'[u] = pc[u]
          /\ heap' = heap \cup {node[t]} /\ uses' = [uses EXCEPT ![node[t]] = @ - 1]
          /\ UNCHANGED <<head, next, size, node, expected>> /\ pc' \in [Threads -> Places]
      BY <1>4, GotoRule DEF DeallocateHeap, HandInv
    <2>2. /\ node[t] \in Nodes /\ node[t] \notin heap \cup Listed /\ uses[node[t]] = 1
          /\ \A u \in Threads : u # t /\ Holding(u) => node[u] # node[t]
      BY <2>1 DEF HandInv, Holding, PlaceInv
    <2>3. TypeOK'
      BY <2>1, <2>2 DEF TypeOK
    <2>4. Listed' = Listed /\ Proper(head, next, Junk)'
      BY <1>1, <2>1, ListedSame
    <2>5. PlaceInv'
      BY <2>1, <2>2, <2>4 DEF PlaceInv, TypeOK
    <2>6. At("add")' = At("add") /\ At("subtract")' = At("subtract")
      BY <2>1, AtRule
    <2>7. SizeCounts'
      BY <2>1, <2>4, <2>6 DEF SizeCounts
    <2>8. HandInv'
      BY <2>1, <2>2, <2>4, HandRule DEF HandInv, Holding
    <2>9. QED
      BY <2>3, <2>4, <2>5, <2>7, <2>8
  <1>5. CASE DeallocateSwap(t) /\ pc'[t] # "push"
    <2> DEFINE n == node[t]
    <2>1. /\ t \in Deallocators /\ pc[t] = "push" /\ Goto(t, "push", "add") /\ pc'[t] = "add"
          /\ \A u \in Threads : u # t => pc'[u] = pc[u]
          /\ head = next[n] /\ head' = n /\ uses' = [uses EXCEPT ![n] = @ - 1]
          /\ UNCHANGED <<next, size, heap, node, expected>> /\ pc' \in [Threads -> Places]
      BY <1>5, GotoRule DEF DeallocateSwap, HandInv
    <2>2. /\ n \in Nodes /\ n \notin heap \cup Listed /\ uses[n] = 1
          /\ \A u \in Threads : u # t /\ Holding(u) => node[u] # n
      BY <2>1 DEF HandInv, Holding, PlaceInv
    <2>3. TypeOK'
      BY <2>1, <2>2 DEF TypeOK
    <2>4. Reach(n, next) = {n} \cup Reach(next[n], next)
      BY <1>1, <2>2, ReachUnfold
    <2>5. Listed' = Listed \cup {n}
      BY <2>1, <2>4 DEF Listed
    <2>6. Proper(n, next, Junk)
      <3>1. next[n] # Junk
        BY <2>1, ConstantsAssumption DEF ConstantsAssumption, TypeOK
      <3>2. QED
        BY <1>1, <2>1, <2>2, <3>1, ProperPush DEF Listed
    <2>7. Proper(head, next, Junk)'
      BY <2>1, <2>6
    <2>8. PlaceInv'
      BY <2>1, <2>2, <2>5 DEF PlaceInv, TypeOK
    <2>9. SizeCounts'
      <3>1. At("subtract")' = At("subtract") /\ Cardinality(At("add")') = Cardinality(At("add")) + 1
        BY <2>1, AtRule
      <3>2. Cardinality(Listed') = Cardinality(Listed) + 1 /\ Cardinality(Listed) \in Nat
        BY <2>2, <2>5, ListedFinite, FS_AddElement
      <3>3. Cardinality(At("add")) \in Nat /\ Cardinality(At("subtract")) \in Nat
        BY <2>1, AtRule, FS_CardinalityType
      <3>4. QED
        BY <2>1, <3>1, <3>2, <3>3 DEF SizeCounts, TypeOK
    <2>10. HandInv'
      BY <2>1, <2>2, <2>5, HandRule DEF HandInv, Holding
    <2>11. QED
      BY <2>3, <2>7, <2>8, <2>9, <2>10
  <1>6. CASE DeallocateAdd(t)
    <2>1. /\ pc[t] = "add" /\ Goto(t, "add", "idle") /\ pc'[t] = "idle"
          /\ \A u \in Threads : u # t => pc'[u] = pc[u]
          /\ size' = size + 1
          /\ UNCHANGED <<head, next, heap, uses, node, expected>> /\ pc' \in [Threads -> Places]
      BY <1>6, GotoRule DEF DeallocateAdd
    <2>2. TypeOK'
      BY <2>1 DEF TypeOK
    <2>3. Listed' = Listed /\ Proper(head, next, Junk)'
      BY <1>1, <2>1, ListedSame
    <2>4. PlaceInv'
      BY <2>1, <2>3 DEF PlaceInv
    <2>5. SizeCounts'
      <3>1. At("subtract")' = At("subtract") /\ Cardinality(At("add")') = Cardinality(At("add")) - 1
        BY <2>1, AtRule
      <3>2. Cardinality(Listed) \in Nat /\ Cardinality(At("subtract")) \in Nat /\ Cardinality(At("add")) \in Nat
        BY <2>1, AtRule, ListedFinite, FS_CardinalityType
      <3>3. QED
        BY <2>1, <2>3, <3>1, <3>2 DEF SizeCounts, TypeOK
    <2>6. HandInv'
      BY <2>1, <2>3, HandRule DEF HandInv, Holding
    <2>7. QED
      BY <2>2, <2>3, <2>4, <2>5, <2>6
  <1>7. QED
    BY <1>2, <1>3, <1>4, <1>5, <1>6 DEF Deallocate

LEMMA PoolInvariant ==
  ASSUME \A a, b \in Allocators : a = b
  PROVE  Spec => []PoolInv
  <1>1. PoolInv /\ [Next]_vars => PoolInv'
    <2> SUFFICES ASSUME PoolInv, [Next]_vars PROVE PoolInv'
      OBVIOUS
    <2>1. CASE Next
      BY <2>1, AllocateStep, DeallocateStep DEF Next
    <2>2. CASE UNCHANGED vars
      <3>1. Listed' = Listed
        BY <2>2 DEF vars, Listed
      <3>2. At("add")' = At("add") /\ At("subtract")' = At("subtract")
        BY <2>2 DEF vars, locals, At
      <3>3. TypeOK' /\ Proper(head, next, Junk)'
        BY <2>2 DEF vars, locals, TypeOK, PoolInv
      <3>4. PlaceInv' /\ SizeCounts'
        BY <2>2, <3>1, <3>2 DEF vars, PlaceInv, SizeCounts, PoolInv
      <3>5. HandInv'
        BY <2>2, <3>1 DEF vars, locals, HandInv, Holding, PoolInv
      <3>6. QED
        BY <3>3, <3>4, <3>5 DEF PoolInv
    <2>3. QED
      BY <2>1, <2>2
  <1>2. QED
    BY <1>1, InitPoolInv, PTL DEF Spec

-----------------------------------------------------------------------------
(* What the pool promises, with one thread that allocates *)

LEMMA PoolSafe == PoolInv => FreelistInv /\ NoLeak
  <1> SUFFICES ASSUME PoolInv PROVE FreelistInv /\ NoLeak
    OBVIOUS
  <1>1. NoDoubleAllocation
    BY DEF PoolInv, PlaceInv, NoDoubleAllocation
  <1>2. NoLeak
    BY DEF PoolInv, PlaceInv, NoLeak
  <1>3. NoNullHead
    BY ListedFinite, ConstantsAssumption DEF PoolInv, HandInv, NoNullHead, ConstantsAssumption
  <1>4. QED
    BY <1>1, <1>2, <1>3 DEF FreelistInv, PoolInv

\* A node has one user at a time, and none while it is in the list or in the
\* heap; size_ counts the list but for the calls that are between their swap and
\* the counter, and allocate() never follows a null head.
THEOREM OneUser ==
  ASSUME \A a, b \in Allocators : a = b
  PROVE  Spec => []FreelistInv
  BY PoolInvariant, PoolSafe, PTL

\* Whatever allocate() and deallocate() do, memory is in the heap, in the list or
\* with a user.
THEOREM NothingLeaks ==
  ASSUME \A a, b \in Allocators : a = b
  PROVE  Spec => []NoLeak
  BY PoolInvariant, PoolSafe, PTL

-----------------------------------------------------------------------------
(* The destructor *)

\* The memory that is in use; the decision to free a node is taken when more
\* than max_size_ nodes are, and the decision to keep one when the list has room.
InUse == Nodes \ heap

RoomInv ==
  /\ size <= MaxSize /\ MaxSize <= Cardinality(InUse)
  /\ \A t \in Threads :
       /\ pc[t] \in {"link", "push", "add"} => size < MaxSize
       /\ pc[t] = "free" => MaxSize < Cardinality(InUse)

LEMMA InUseRule ==
  /\ MaxSize \in Nat
  /\ TypeOK => IsFiniteSet(InUse) /\ Cardinality(InUse) \in Nat
  /\ TypeOK' => IsFiniteSet(InUse') /\ Cardinality(InUse') \in Nat
  BY ConstantsAssumption, FS_Subset, FS_CardinalityType DEF ConstantsAssumption, MaxSize, InUse

\* A full list, a node that was taken off it and not yet counted off, and the
\* node that is given back are more than max_size_ nodes.
LEMMA FullRule ==
  ASSUME PoolInv, NEW n \in Nodes, GivenBack(n), size = MaxSize, At("add") = {},
         \A t, u \in At("subtract") : t = u
  PROVE  MaxSize < Cardinality(InUse)
  <1> USE DEF PoolInv
  <1>1. n \notin heap \cup Listed /\ \A t \in Threads : Holding(t) => node[t] # n
    BY GivenBackRule
  <1>2. IsFiniteSet(Listed) /\ Cardinality(Listed) \in Nat /\ Listed \subseteq InUse
    BY ListedFinite DEF InUse, PlaceInv
  <1>3. MaxSize = Cardinality(Listed) + Cardinality(At("subtract"))
    <2>1. Cardinality(At("add")) = 0
      BY FS_EmptySet
    <2>2. At("subtract") = {} \/ \E t \in At("subtract") : At("subtract") = {t}
      OBVIOUS
    <2>3. Cardinality(At("subtract")) \in Nat
      <3>1. CASE At("subtract") = {}
        BY <3>1, FS_EmptySet
      <3>2. CASE \E t \in At("subtract") : At("subtract") = {t}
        <4>1. PICK t : At("subtract") = {t}
          BY <3>2
        <4>2. Cardinality({t}) = 1
          BY FS_Singleton
        <4>3. QED
          BY <4>1, <4>2
      <3>3. QED
        BY <2>2, <3>1, <3>2
    <2>4. QED
      BY <1>2, <2>1, <2>3 DEF SizeCounts, TypeOK
  <1>4. CASE At("subtract") = {}
    <2>1. Listed \cup {n} \subseteq InUse
      BY <1>1, <1>2 DEF InUse
    <2>2. Cardinality(Listed \cup {n}) = Cardinality(Listed) + 1
      BY <1>1, <1>2, FS_AddElement
    <2>3. Cardinality(Listed \cup {n}) <= Cardinality(InUse)
      BY <2>1, InUseRule, FS_Subset
    <2>4. MaxSize = Cardinality(Listed)
      BY <1>2, <1>3, <1>4, FS_EmptySet
    <2>5. QED
      BY <1>2, <2>2, <2>3, <2>4, InUseRule
  <1>5. CASE At("subtract") # {}
    <2>1. PICK t \in Threads : pc[t] = "subtract" /\ At("subtract") = {t}
      BY <1>5 DEF At
    <2>2. Holding(t) /\ node[t] \in Nodes \ (heap \cup Listed) /\ node[t] # n
      BY <1>1, <2>1 DEF HandInv, Holding
    <2> DEFINE S == Listed \cup {n}
    <2>3. IsFiniteSet(S) /\ Cardinality(S) = Cardinality(Listed) + 1 /\ node[t] \notin S
      BY <1>1, <1>2, <2>2, FS_AddElement
    <2>4. S \cup {node[t]} \subseteq InUse
      BY <1>1, <1>2, <2>2 DEF InUse
    <2> HIDE DEF S
    <2>5. Cardinality(S \cup {node[t]}) = Cardinality(Listed) + 2
      <3>1. Cardinality(S \cup {node[t]}) = Cardinality(S) + 1
        BY <2>3, FS_AddElement
      <3>2. QED
        BY <1>2, <2>3, <3>1
    <2>6. Cardinality(S \cup {node[t]}) <= Cardinality(InUse)
      BY <2>4, InUseRule, FS_Subset
    <2>7. MaxSize = Cardinality(Listed) + 1
      BY <1>3, <2>1, FS_Singleton
    <2>8. QED
      BY <1>2, <2>5, <2>6, <2>7, InUseRule
  <1>6. QED
    BY <1>4, <1>5

LEMMA RoomStep ==
  ASSUME \A a, b \in Allocators : a = b, \A c, d \in Deallocators : c = d,
         PoolInv, PoolInv', RoomInv, NEW t \in Threads, Allocate(t) \/ Deallocate(t)
  PROVE  RoomInv'
  <1> USE DEF PoolInv, Places
  <1>1. MaxSize \in Nat /\ size \in Int /\ size' \in Int
    BY InUseRule DEF TypeOK
  <1>2. CASE AllocateLoad(t) \/ AllocateNext(t) \/ AllocateSwap(t) \/ AllocateSubtract(t)
    <2>1. /\ size' = size \/ size' = size - 1
          /\ UNCHANGED heap /\ pc'[t] \notin {"link", "push", "add", "free"}
          /\ \A u \in Threads : u # t => pc'[u] = pc[u]
      BY <1>2, GotoRule DEF AllocateLoad, AllocateNext, AllocateSwap, AllocateSubtract
    <2>2. InUse' = InUse
      BY <2>1 DEF InUse
    <2>3. QED
      BY <1>1, <2>1, <2>2 DEF RoomInv
  <1>3. CASE AllocateHeap(t)
    <2>1. PICK n \in heap : heap' = heap \ {n}
      BY <1>3 DEF AllocateHeap
    <2>2. UNCHANGED size /\ pc'[t] = "idle" /\ \A u \in Threads : u # t => pc'[u] = pc[u]
      BY <1>3, GotoRule DEF AllocateHeap
    <2>3. InUse \subseteq InUse'
      BY <2>1 DEF InUse
    <2>4. Cardinality(InUse) <= Cardinality(InUse')
      BY <2>3, InUseRule, FS_Subset
    <2>5. QED
      BY <1>1, <2>2, <2>4, InUseRule DEF RoomInv
  <1>4. CASE DeallocateCheck(t)
    <2>1. PICK n \in Nodes : GivenBack(n)
      BY <1>4 DEF DeallocateCheck
    <2>2. /\ t \in Deallocators /\ pc[t] = "idle" /\ UNCHANGED <<size, heap>>
          /\ pc'[t] = (IF size = MaxSize THEN "free" ELSE "link")
          /\ \A u \in Threads : u # t => pc'[u] = pc[u]
      BY <1>4, GotoRule DEF DeallocateCheck
    <2>3. At("add") = {} /\ \A u, v \in At("subtract") : u = v
      BY <2>2 DEF At, HandInv
    <2>4. size = MaxSize => MaxSize < Cardinality(InUse)
      BY <2>1, <2>3, FullRule
    <2>5. InUse' = InUse
      BY <2>2 DEF InUse
    <2>6. QED
      BY <1>1, <2>2, <2>4, <2>5 DEF RoomInv
  <1>5. CASE DeallocateHeap(t)
    <2>1. /\ t \in Deallocators /\ pc[t] = "free" /\ pc'[t] = "idle" /\ heap' = heap \cup {node[t]}
          /\ UNCHANGED size /\ \A u \in Threads : u # t => pc'[u] = pc[u]
      BY <1>5, GotoRule DEF DeallocateHeap, HandInv
    <2>2. InUse' = InUse \ {node[t]}
      BY <2>1 DEF InUse
    <2>3. Cardinality(InUse') >= Cardinality(InUse) - 1
      BY <2>2, InUseRule, FS_RemoveElement
    <2>4. MaxSize < Cardinality(InUse)
      BY <2>1 DEF RoomInv
    <2>5. \A u \in Threads : pc'[u] # "free"
      BY <2>1 DEF HandInv
    <2>6. QED
      BY <1>1, <2>1, <2>3, <2>4, <2>5, InUseRule DEF RoomInv
  <1>6. CASE DeallocateLink(t) \/ DeallocateSwap(t)
    <2>1. /\ pc[t] \in {"link", "push"} /\ pc'[t] \in {"push", "add"} /\ UNCHANGED <<size, heap>>
          /\ \A u \in Threads : u # t => pc'[u] = pc[u]
      BY <1>6, GotoRule DEF DeallocateLink, DeallocateSwap
    <2>2. InUse' = InUse
      BY <2>1 DEF InUse
    <2>3. QED
      BY <1>1, <2>1, <2>2 DEF RoomInv
  <1>7. CASE DeallocateAdd(t)
    <2>1. /\ t \in Deallocators /\ pc[t] = "add" /\ pc'[t] = "idle" /\ size' = size + 1
          /\ UNCHANGED heap /\ \A u \in Threads : u # t => pc'[u] = pc[u]
      BY <1>7, GotoRule DEF DeallocateAdd, HandInv
    <2>2. \A u \in Threads : pc'[u] \notin {"link", "push", "add"}
      BY <2>1 DEF HandInv
    <2>3. InUse' = InUse
      BY <2>1 DEF InUse
    <2>4. size < MaxSize
      BY <2>1 DEF RoomInv
    <2>5. QED
      BY <1>1, <2>1, <2>2, <2>3, <2>4 DEF RoomInv
  <1>8. QED
    BY <1>2, <1>3, <1>4, <1>5, <1>6, <1>7 DEF Allocate, Deallocate

LEMMA InitRoomInv == Init => RoomInv
  <1> SUFFICES ASSUME Init PROVE RoomInv
    OBVIOUS
  <1>1. size = MaxSize /\ heap = Nodes \ Pooled /\ \A t \in Threads : pc[t] = "idle"
    BY DEF Init
  <1>2. InUse = Pooled
    BY <1>1, ConstantsAssumption DEF InUse, ConstantsAssumption
  <1>3. QED
    BY <1>1, <1>2, InUseRule DEF RoomInv, MaxSize

\* With one thread that gives nodes back, as one that consumes, size_ is
\* max_size_ again and the list not empty once every node was given back: what
\* the destructor asserts.
THEOREM DestructorFindsAll ==
  ASSUME \A a, b \in Allocators : a = b, \A c, d \in Deallocators : c = d
  PROVE  Spec => []DestructorAssertions
  <1>1. PoolInv /\ PoolInv' /\ RoomInv /\ [Next]_vars => RoomInv'
    <2> SUFFICES ASSUME PoolInv, PoolInv', RoomInv, [Next]_vars PROVE RoomInv'
      OBVIOUS
    <2>1. CASE Next
      BY <2>1, RoomStep DEF Next
    <2>2. CASE UNCHANGED vars
      BY <2>2 DEF vars, locals, RoomInv, InUse
    <2>3. QED
      BY <2>1, <2>2
  <1>2. PoolInv /\ RoomInv => DestructorAssertions
    <2> SUFFICES ASSUME PoolInv, RoomInv, Quiescent PROVE size = MaxSize /\ head # Null
      BY DEF DestructorAssertions
    <2>1. At("add") = {} /\ At("subtract") = {}
      BY DEF Quiescent, At
    <2>2. Listed = InUse
      BY ListedFinite DEF Quiescent, PoolInv, PlaceInv, InUse
    <2>3. size = Cardinality(Listed)
      <3>1. Cardinality(At("add")) = 0 /\ Cardinality(At("subtract")) = 0
        BY <2>1, FS_EmptySet
      <3>2. Cardinality(Listed) \in Nat /\ size \in Int
        BY ListedFinite DEF PoolInv, TypeOK
      <3>3. size + Cardinality(At("add")) = Cardinality(Listed) + Cardinality(At("subtract"))
        BY DEF PoolInv, SizeCounts
      <3>4. QED
        BY <3>1, <3>2, <3>3
    <2>4. size = MaxSize
      BY <2>2, <2>3, InUseRule DEF RoomInv, PoolInv
    <2>5. MaxSize # 0
      BY ConstantsAssumption, FS_Subset, FS_EmptySet DEF ConstantsAssumption, MaxSize
    <2>6. head # Null
      <3>1. Listed # {}
        BY <2>3, <2>4, <2>5, FS_EmptySet
      <3>2. head \in DOMAIN next
        BY <3>1, ReachNull DEF Listed
      <3>3. QED
        BY <3>2, ConstantsAssumption DEF PoolInv, TypeOK, ConstantsAssumption
    <2>7. QED
      BY <2>4, <2>6
  <1>3. QED
    BY <1>1, <1>2, InitRoomInv, PoolInvariant, PTL DEF Spec

-----------------------------------------------------------------------------
(* The abstract pool *)

Used == {n \in Nodes : uses[n] > 0}

\* The list is the memory that neither the heap nor a user has.
LEMMA PoolStep ==
  ASSUME PoolInv, PoolInv', NEW t \in Threads, Allocate(t) \/ Deallocate(t)
  PROVE  Pool!Next \/ UNCHANGED Pool!vars
  <1> USE DEF PoolInv
  <1>1. /\ Listed = Nodes \ (heap \cup Used) /\ heap \cap Used = {} /\ Used \subseteq Nodes
        /\ Listed' = Nodes \ (heap \cup Used)' /\ (heap \cap Used)' = {} /\ heap' \subseteq Nodes
    BY ListedFinite, ReachClosed DEF PlaceInv, Used, TypeOK, Listed
  <1>2. CASE UNCHANGED <<heap, uses>>
    BY <1>1, <1>2 DEF Pool!vars, Used
  <1>3. ASSUME NEW n \in Nodes, uses[n] = 0, uses' = [uses EXCEPT ![n] = @ + 1],
               heap' = heap \ {n}
        PROVE  Pool!Next
    <2>1. n \notin Used /\ Used' = Used \cup {n}
      BY <1>3 DEF Used, TypeOK
    <2>2. Listed' = Listed \ {n}
      BY <1>1, <1>3, <2>1
    <2>3. QED
      BY <2>1, <2>2 DEF Pool!Next, Pool!Allocate, Used
  <1>4. ASSUME NEW n \in Nodes, uses[n] = 1, uses' = [uses EXCEPT ![n] = @ - 1],
               heap' \in {heap, heap \cup {n}}
        PROVE  Pool!Next
    <2>1. n \in Used /\ Used' = Used \ {n}
      BY <1>4 DEF Used, TypeOK
    <2>2. Listed' \in {Listed, Listed \cup {n}}
      BY <1>1, <1>4, <2>1
    <2>3. QED
      BY <2>1, <2>2 DEF Pool!Next, Pool!Deallocate, Used
  <1>5. CASE AllocateHeap(t)
    <2>1. PICK n \in heap : heap' = heap \ {n} /\ uses' = [uses EXCEPT ![n] = @ + 1]
      BY <1>5 DEF AllocateHeap
    <2>2. n \in Nodes /\ uses[n] = 0
      BY DEF PlaceInv, TypeOK
    <2>3. QED
      BY <1>3, <2>1, <2>2
  <1>6. CASE AllocateSwap(t) /\ ~UNCHANGED uses
    <2>1. /\ uses' = [uses EXCEPT ![node[t]] = @ + 1] /\ heap' = heap /\ pc[t] = "swap"
      BY <1>6 DEF AllocateSwap, Goto
    <2>2. node[t] \in Nodes /\ uses[node[t]] = 0 /\ node[t] \notin heap
      BY <2>1, ListedFinite DEF PlaceInv, HandInv
    <2>3. heap' = heap \ {node[t]}
      BY <2>1, <2>2
    <2>4. QED
      BY <1>3, <2>1, <2>2, <2>3
  <1>7. CASE DeallocateHeap(t) \/ (DeallocateSwap(t) /\ ~UNCHANGED uses)
    <2>1. /\ uses' = [uses EXCEPT ![node[t]] = @ - 1] /\ heap' \in {heap, heap \cup {node[t]}}
          /\ Holding(t)
      BY <1>7 DEF DeallocateHeap, DeallocateSwap, Goto, Holding
    <2>2. node[t] \in Nodes /\ uses[node[t]] = 1
      BY <2>1 DEF PlaceInv, HandInv
    <2>3. QED
      BY <1>4, <2>1, <2>2
  <1>8. CASE \/ AllocateLoad(t) \/ AllocateNext(t) \/ AllocateSubtract(t) \/ DeallocateCheck(t)
             \/ DeallocateLink(t) \/ DeallocateAdd(t)
    BY <1>2, <1>8 DEF AllocateLoad, AllocateNext, AllocateSubtract, DeallocateCheck,
       DeallocateLink, DeallocateAdd
  <1>9. UNCHANGED uses /\ AllocateSwap(t) => UNCHANGED heap
    BY DEF AllocateSwap
  <1>10. UNCHANGED uses /\ DeallocateSwap(t) => UNCHANGED heap
    BY DEF DeallocateSwap
  <1>11. QED
    BY <1>2, <1>5, <1>6, <1>7, <1>8, <1>9, <1>10 DEF Allocate, Deallocate

\* The lock-free list is a pool of nodes as its users see it: a node that is
\* handed out is handed out to nobody else until it was given back.
THEOREM Refinement ==
  ASSUME \A a, b \in Allocators : a = b
  PROVE  Spec => ImplementsNodePool
  <1>1. PoolInv /\ Init => Pool!Init
    <2> SUFFICES ASSUME PoolInv, Init PROVE Pool!Init
      OBVIOUS
    <2>1. Used = {}
      BY DEF Init, Used
    <2>2. QED
      BY <2>1, ListedFinite DEF Pool!Init, PoolInv, Used
  <1>2. PoolInv /\ PoolInv' /\ [Next]_vars => [Pool!Next]_Pool!vars
    <2> SUFFICES ASSUME PoolInv, PoolInv', [Next]_vars PROVE Pool!Next \/ UNCHANGED Pool!vars
      OBVIOUS
    <2>1. CASE Next
      BY <2>1, PoolStep DEF Next
    <2>2. CASE UNCHANGED vars
      BY <2>2 DEF vars, Pool!vars, Listed
    <2>3. QED
      BY <2>1, <2>2
  <1>3. QED
    BY <1>1, <1>2, InitPoolInv, PoolInvariant, PTL DEF Spec, ImplementsNodePool, Pool!Spec

=============================================================================
