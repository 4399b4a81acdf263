-------------------------- MODULE TimerWheelProofs --------------------------
(***************************************************************************)
(* Proofs about TimerWheel, for any number of requests, any timeouts and   *)
(* any number of objects that a wheel is moved between: the two maps       *)
(* agree, the timer runs while it is needed, and a request is processed    *)
(* once, not early, and not after cancel().                                *)
(***************************************************************************)
EXTENDS TimerWheel, WellFoundedInduction, TLAPS

Entry == Nat \X Ids

\* The entries of a hierarchy, and their order.
Entered(es) == {es[i] : i \in 1..Len(es)}
Sorted(es) ==
  \A i, j \in 1..Len(es) : i < j => es[i][1] <= es[j][1] /\ IdOf(es[i]) # IdOf(es[j])

\* The bookkeeper stands at a request that waits.
CursorInv == cursor \in Waiting \cup {None}

\* A request is not postponed beyond its timeout from now, so a reset() never
\* brings it forward.
TimeInv ==
  /\ walkTime <= clock
  /\ \A id \in Waiting : requests[id].expiry <= clock + requests[id].timeout

\* A request that was processed is in the maps only until its callback returns.
FiredInv ==
  /\ place = "callback" => cursor # None
  /\ \A id \in Ids : fired[id] # 0 =>
       id < nextId /\ (id \notin Waiting \/ (id = cursor /\ place \in {"callback", "terminated"}))

ArmedInv == ArmedWhileNeeded /\ (holder # None => target = holder)

WheelInv == TypeOK /\ MapsAgree /\ CursorInv /\ TimeInv /\ FiredInv /\ ArmedInv

-----------------------------------------------------------------------------
(* The hierarchy *)

LEMMA LeastNatural ==
  ASSUME NEW T, T \subseteq Nat, T # {}
  PROVE  \E n \in T : \A m \in T : n <= m
  <1> DEFINE R == OpToRel(<, Nat)
  <1>1. IsWellFoundedOn(R, Nat)
    BY NatLessThanWellFounded
  <1>2. \A x, y \in Nat : x < y => <<x, y>> \in R
    BY DEF OpToRel
  <1> HIDE DEF R
  <1>3. PICK x \in T : \A y \in T : ~ (<<y, x>> \in R)
    BY <1>1, WFMin
  <1>4. ASSUME NEW m \in T
        PROVE  x <= m
    <2>1. x \in Nat /\ m \in Nat
      OBVIOUS
    <2>2. ~ (m < x)
      BY <1>2, <1>3, <2>1
    <2>3. QED
      BY <2>1, <2>2
  <1>5. QED
    BY <1>4

LEMMA EntryParts ==
  ASSUME NEW e \in Entry
  PROVE  e = <<e[1], IdOf(e)>> /\ e[1] \in Nat /\ IdOf(e) \in Ids
  BY DEF Entry, IdOf

LEMMA EntryAt ==
  ASSUME NEW es \in Seq(Entry), NEW i \in 1..Len(es)
  PROVE  es[i] \in Entry /\ es[i][1] \in Nat /\ IdOf(es[i]) \in Ids
  <1>1. es[i] \in Entry
    OBVIOUS
  <1>2. QED
    BY <1>1, EntryParts

\* There is a first entry of a later key, or the end.
LEMMA UpperBoundRule ==
  ASSUME NEW es \in Seq(Entry), NEW key \in Nat
  PROVE  /\ UpperBound(es, key) \in 1..Len(es) + 1
         /\ UpperBound(es, key) <= Len(es) => es[UpperBound(es, key)][1] > key
         /\ \A j \in 1..UpperBound(es, key) - 1 : es[j][1] <= key
  <1> DEFINE T == {i \in 1..Len(es) + 1 : i <= Len(es) => es[i][1] > key}
  <1>1. Len(es) \in Nat
    OBVIOUS
  <1>2. Len(es) + 1 \in T /\ T \subseteq Nat
    BY <1>1
  <1>3. PICK n \in T : \A m \in T : n <= m
    BY <1>2, LeastNatural
  <1>4. n \in 1..Len(es) + 1 /\ (n <= Len(es) => es[n][1] > key)
    OBVIOUS
  <1>5. ASSUME NEW j \in 1..n - 1
        PROVE  es[j][1] <= key
    <2>1. j \in 1..Len(es) /\ j \in 1..Len(es) + 1 /\ j <= Len(es) /\ ~ (n <= j)
      BY <1>1, <1>4
    <2>2. j \notin T
      BY <1>3, <2>1
    <2>3. ~ (es[j][1] > key)
      BY <2>1, <2>2
    <2>4. es[j][1] \in Nat
      BY <2>1, EntryAt
    <2>5. QED
      BY <2>3, <2>4
  <1>6. \E i \in 1..Len(es) + 1 :
          /\ i <= Len(es) => es[i][1] > key
          /\ \A j \in 1..i - 1 : es[j][1] <= key
    BY <1>4, <1>5
  <1>7. QED
    BY <1>6 DEF UpperBound

\* emplace() adds the entry and keeps the order.
LEMMA EmplaceKeeps ==
  ASSUME NEW es \in Seq(Entry), Sorted(es), NEW key \in Nat, NEW id \in Ids,
         \A e \in Entered(es) : IdOf(e) # id
  PROVE  /\ Emplace(es, key, id) \in Seq(Entry) /\ Sorted(Emplace(es, key, id))
         /\ Entered(Emplace(es, key, id)) = Entered(es) \cup {<<key, id>>}
         /\ Emplace(es, key, id) # <<>>
  <1> DEFINE at == UpperBound(es, key)
             n == Len(es)
             new == Emplace(es, key, id)
  <1>1. n \in Nat /\ at \in 1..n + 1
    BY UpperBoundRule
  <1>2. /\ at <= n => es[at][1] > key
        /\ \A j \in 1..at - 1 : es[j][1] <= key
    BY UpperBoundRule
  <1>3. new = [i \in 1..n + 1 |->
                 IF i < at THEN es[i] ELSE IF i = at THEN <<key, id>> ELSE es[i - 1]]
    BY DEF Emplace
  <1>4. \A i \in 1..n : es[i] \in Entry /\ es[i][1] \in Nat /\ es[i] \in Entered(es)
    BY EntryAt DEF Entered
  <1>5. <<key, id>> \in Entry /\ <<key, id>>[1] = key /\ IdOf(<<key, id>>) = id
    BY DEF Entry, IdOf
  <1> HIDE DEF at, n, new
  <1>6. ASSUME NEW i \in 1..n + 1
        PROVE  /\ i < at => i \in 1..n /\ new[i] = es[i]
               /\ i = at => new[i] = <<key, id>>
               /\ i > at => i - 1 \in 1..n /\ new[i] = es[i - 1]
    BY <1>1, <1>3
  <1>7. ASSUME NEW i \in 1..n + 1
        PROVE  new[i] \in Entry
    <2>1. i < at \/ i = at \/ i > at
      BY <1>1
    <2>2. QED
      BY <1>4, <1>5, <1>6, <2>1
  <1>8. new \in Seq(Entry) /\ Len(new) = n + 1
    <2>1. new = [i \in 1..n + 1 |-> new[i]]
      BY <1>3
    <2>2. new \in [1..n + 1 -> Entry] /\ n + 1 \in Nat
      BY <1>1, <1>7, <2>1
    <2>3. QED
      BY <2>2
  <1>9. Entered(new) = Entered(es) \cup {<<key, id>>}
    <2>1. ASSUME NEW e \in Entered(new)
          PROVE  e \in Entered(es) \/ e = <<key, id>>
      <3>1. PICK i \in 1..n + 1 : e = new[i]
        BY <1>8 DEF Entered
      <3>2. i < at \/ i = at \/ i > at
        BY <1>1
      <3>3. QED
        BY <1>4, <1>6, <3>1, <3>2
    <2>2. ASSUME NEW e \in Entered(es)
          PROVE  e \in Entered(new)
      <3>1. PICK i \in 1..n : e = es[i]
        BY DEF Entered, n
      <3>2. CASE i < at
        <4>1. i \in 1..n + 1
          BY <1>1
        <4>2. new[i] = e
          BY <1>6, <3>1, <3>2, <4>1
        <4>3. QED
          BY <1>8, <4>1, <4>2 DEF Entered
      <3>3. CASE ~(i < at)
        <4>1. i + 1 \in 1..n + 1 /\ i + 1 > at /\ (i + 1) - 1 = i
          BY <1>1, <3>3
        <4>2. new[i + 1] = e
          BY <1>6, <3>1, <4>1
        <4>3. QED
          BY <1>8, <4>1, <4>2 DEF Entered
      <3>4. QED
        BY <3>2, <3>3
    <2>3. <<key, id>> \in Entered(new)
      BY <1>1, <1>6, <1>8 DEF Entered
    <2>4. QED
      BY <2>1, <2>2, <2>3
  <1>10. ASSUME NEW i \in 1..n, NEW j \in 1..n, i < j
         PROVE  es[i][1] <= es[j][1] /\ IdOf(es[i]) # IdOf(es[j])
    BY <1>10 DEF Sorted, n
  <1>11. ASSUME NEW j \in 1..n, at <= j
         PROVE  key <= es[j][1]
    <2>1. es[at][1] > key /\ at \in 1..n
      BY <1>1, <1>2, <1>11
    <2>2. at = j \/ es[at][1] <= es[j][1]
      BY <1>1, <1>10, <1>11, <2>1
    <2>3. es[at][1] \in Nat /\ es[j][1] \in Nat
      BY <1>4, <2>1
    <2>4. QED
      BY <2>1, <2>2, <2>3
  <1>12. ASSUME NEW i \in 1..n + 1, NEW j \in 1..n + 1, i < j
         PROVE  new[i][1] <= new[j][1] /\ IdOf(new[i]) # IdOf(new[j])
    <2>1. CASE j < at
      <3>1. i \in 1..n /\ new[i] = es[i] /\ j \in 1..n /\ new[j] = es[j]
        BY <1>1, <1>6, <1>12, <2>1
      <3>2. QED
        BY <1>10, <1>12, <3>1
    <2>2. CASE j = at
      <3>1. i \in 1..n /\ new[i] = es[i] /\ new[j] = <<key, id>> /\ i \in 1..at - 1
        BY <1>1, <1>6, <1>12, <2>2
      <3>2. QED
        BY <1>2, <1>4, <1>5, <3>1
    <2>3. CASE i < at /\ j > at
      <3>1. i \in 1..n /\ new[i] = es[i] /\ j - 1 \in 1..n /\ new[j] = es[j - 1] /\ i < j - 1
        BY <1>1, <1>6, <2>3
      <3>2. QED
        BY <1>10, <3>1
    <2>4. CASE i = at
      <3>1. new[i] = <<key, id>> /\ j - 1 \in 1..n /\ new[j] = es[j - 1] /\ at <= j - 1
        BY <1>1, <1>6, <1>12, <2>4
      <3>2. QED
        BY <1>4, <1>5, <1>11, <3>1
    <2>5. CASE i > at
      <3>1. /\ i - 1 \in 1..n /\ new[i] = es[i - 1] /\ j - 1 \in 1..n /\ new[j] = es[j - 1]
            /\ i - 1 < j - 1
        BY <1>1, <1>6, <1>12, <2>5
      <3>2. QED
        BY <1>10, <3>1
    <2>6. QED
      BY <1>1, <1>12, <2>1, <2>2, <2>3, <2>4, <2>5
  <1>13. Sorted(new)
    BY <1>8, <1>12 DEF Sorted
  <1>14. new # <<>>
    BY <1>1, <1>8
  <1>15. QED
    BY <1>8, <1>9, <1>13, <1>14 DEF new

\* The entry of an id is found.
LEMMA PositionRule ==
  ASSUME NEW es \in Seq(Entry), Sorted(es), NEW id, \E e \in Entered(es) : IdOf(e) = id
  PROVE  /\ Position(es, id) \in 1..Len(es) /\ IdOf(es[Position(es, id)]) = id
         /\ \A i \in 1..Len(es) : IdOf(es[i]) = id => i = Position(es, id)
  <1>1. \E i \in DOMAIN es : IdOf(es[i]) = id
    BY DEF Entered
  <1>2. Position(es, id) \in DOMAIN es /\ IdOf(es[Position(es, id)]) = id
    BY <1>1 DEF Position
  <1>3. \A i, j \in 1..Len(es) : IdOf(es[i]) = IdOf(es[j]) => i = j
    <2>1. \A i, j \in 1..Len(es) : i < j \/ i = j \/ j < i
      OBVIOUS
    <2>2. QED
      BY <2>1 DEF Sorted
  <1>4. QED
    BY <1>2, <1>3

\* erase() takes the entry of the id away and keeps the order; the iterator it
\* returns is the end, or at another entry.
LEMMA EraseKeeps ==
  ASSUME NEW es \in Seq(Entry), Sorted(es), NEW id, \E e \in Entered(es) : IdOf(e) = id
  PROVE  /\ Erase(es, id) \in Seq(Entry) /\ Sorted(Erase(es, id))
         /\ Entered(Erase(es, id)) = {e \in Entered(es) : IdOf(e) # id}
         /\ \/ Following(es, id) = None
            \/ \E e \in Entered(es) : IdOf(e) # id /\ Following(es, id) = IdOf(e)
  <1> DEFINE at == Position(es, id)
             n == Len(es)
             new == Erase(es, id)
             old(i) == IF i < at THEN i ELSE i + 1
  <1>1. /\ n \in Nat /\ at \in 1..n /\ IdOf(es[at]) = id
        /\ \A i \in 1..n : IdOf(es[i]) = id => i = at
    BY PositionRule
  <1>2. new = [i \in 1..n - 1 |-> es[old(i)]]
    BY DEF Erase
  <1>3. \A i \in 1..n - 1 : old(i) \in 1..n /\ old(i) # at
    BY <1>1
  <1>4. \A i, j \in 1..n - 1 : i < j => old(i) < old(j)
    BY <1>1
  <1>5. \A i \in 1..n : i # at => \E j \in 1..n - 1 : old(j) = i
    <2>1. ASSUME NEW i \in 1..n, i < at
          PROVE  i \in 1..n - 1 /\ old(i) = i
      BY <1>1, <2>1
    <2>2. ASSUME NEW i \in 1..n, i > at
          PROVE  i - 1 \in 1..n - 1 /\ old(i - 1) = i
      BY <1>1, <2>2
    <2>3. \A i \in 1..n : i # at => i < at \/ i > at
      BY <1>1
    <2>4. QED
      BY <2>1, <2>2, <2>3
  <1>6. \A i \in 1..n : es[i] \in Entry /\ es[i] \in Entered(es)
    BY EntryAt DEF Entered
  <1> HIDE DEF at, n, new, old
  <1>7. new \in Seq(Entry) /\ Len(new) = n - 1
    <2>1. new \in [1..n - 1 -> Entry] /\ n - 1 \in Nat
      BY <1>1, <1>2, <1>3, <1>6
    <2>2. QED
      BY <2>1
  <1>8. Sorted(new)
    <2>1. \A i, j \in 1..n : i < j => es[i][1] <= es[j][1] /\ IdOf(es[i]) # IdOf(es[j])
      BY DEF Sorted, n
    <2>2. QED
      BY <1>2, <1>3, <1>4, <1>7, <2>1 DEF Sorted
  <1>9. Entered(new) = {e \in Entered(es) : IdOf(e) # id}
    <2>1. ASSUME NEW e \in Entered(new)
          PROVE  e \in Entered(es) /\ IdOf(e) # id
      <3>1. PICK i \in 1..n - 1 : e = new[i]
        BY <1>7 DEF Entered
      <3>2. e = es[old(i)] /\ old(i) \in 1..n /\ old(i) # at
        BY <1>2, <1>3, <3>1
      <3>3. QED
        BY <1>1, <1>6, <3>2
    <2>2. ASSUME NEW e \in Entered(es), IdOf(e) # id
          PROVE  e \in Entered(new)
      <3>1. PICK i \in 1..n : e = es[i]
        BY DEF Entered, n
      <3>2. PICK j \in 1..n - 1 : old(j) = i
        BY <1>1, <1>5, <2>2, <3>1
      <3>3. new[j] = e
        BY <1>2, <3>1, <3>2
      <3>4. QED
        BY <1>7, <3>3 DEF Entered
    <2>3. QED
      BY <2>1, <2>2
  <1>10. \/ Following(es, id) = None
         \/ \E e \in Entered(es) : IdOf(e) # id /\ Following(es, id) = IdOf(e)
    <2>1. CASE at = n
      BY <2>1 DEF Following, at, n
    <2>2. CASE at # n
      <3>1. at + 1 \in 1..n /\ at + 1 # at
        BY <1>1, <2>2
      <3>2. Following(es, id) = IdOf(es[at + 1])
        BY <2>2 DEF Following, at, n
      <3>3. QED
        BY <1>1, <1>6, <3>1, <3>2
    <2>3. QED
      BY <2>1, <2>2
  <1>11. QED
    BY <1>7, <1>8, <1>9, <1>10 DEF new

-----------------------------------------------------------------------------
(* Every step preserves each part of the invariant *)

\* What MapsAgree says of the entries, each taken by itself.
Agree(es, rs) ==
  /\ Sorted(es) /\ {IdOf(e) : e \in Entered(es)} = DOMAIN rs
  /\ \A e \in Entered(es) : e[1] <= rs[IdOf(e)].expiry

LEMMA AgreeRule ==
  ASSUME NEW es \in Seq(Entry), NEW rs
  PROVE  Agree(es, rs) <=>
           /\ {IdOf(es[i]) : i \in DOMAIN es} = DOMAIN rs
           /\ \A i, j \in DOMAIN es : i < j =>
                es[i][1] <= es[j][1] /\ IdOf(es[i]) # IdOf(es[j])
           /\ \A i \in DOMAIN es : es[i][1] <= rs[IdOf(es[i])].expiry
  <1>1. {IdOf(e) : e \in Entered(es)} = {IdOf(es[i]) : i \in DOMAIN es}
    BY DEF Entered
  <1>2. (\A e \in Entered(es) : e[1] <= rs[IdOf(e)].expiry)
          <=> \A i \in DOMAIN es : es[i][1] <= rs[IdOf(es[i])].expiry
    BY DEF Entered
  <1>3. Sorted(es) <=> \A i, j \in DOMAIN es : i < j =>
          es[i][1] <= es[j][1] /\ IdOf(es[i]) # IdOf(es[j])
    BY DEF Sorted
  <1>4. QED
    BY <1>1, <1>2, <1>3 DEF Agree

LEMMA WheelTypes ==
  ASSUME WheelInv
  PROVE  /\ entries \in Seq(Entry) /\ Agree(entries, requests)
         /\ Waiting \subseteq 0..(nextId - 1) /\ nextId \in 0..MaxRequests /\ Waiting \subseteq Ids
         /\ requests \in [Waiting -> Request]
         /\ clock \in Nat /\ walkTime \in Nat /\ walkTime <= clock
         /\ None \notin Ids /\ cursor \in Waiting \cup {None}
         /\ \A id \in Waiting : /\ \E e \in Entered(entries) : IdOf(e) = id
                                /\ requests[id] \in Request
  <1> USE ConstantsAssumption DEF ConstantsAssumption
  <1>1. /\ entries \in Seq(Entry) /\ nextId \in 0..MaxRequests /\ Waiting \subseteq 0..(nextId - 1)
        /\ requests \in [Waiting -> Request] /\ clock \in Nat /\ walkTime \in Nat
    BY DEF WheelInv, TypeOK, Entry
  <1>2. Waiting \subseteq Ids /\ None \notin Ids
    BY <1>1 DEF Ids
  <1>3. Agree(entries, requests)
    BY <1>1, AgreeRule DEF WheelInv, MapsAgree, Waiting
  <1>4. walkTime <= clock /\ cursor \in Waiting \cup {None}
    BY DEF WheelInv, TimeInv, CursorInv
  <1>5. \A id \in Waiting : \E e \in Entered(entries) : IdOf(e) = id
    BY <1>3 DEF Agree, Waiting
  <1>6. QED
    BY <1>1, <1>2, <1>3, <1>4, <1>5

\* The key under which a request is entered is not later than its expiry.
LEMMA KeyRule ==
  ASSUME WheelInv, NEW id \in Waiting
  PROVE  KeyAt(id) \in Nat /\ KeyAt(id) <= requests[id].expiry /\ requests[id].expiry \in Nat
  <1>1. /\ entries \in Seq(Entry) /\ Agree(entries, requests) /\ requests[id] \in Request
        /\ \E e \in Entered(entries) : IdOf(e) = id
    BY WheelTypes
  <1>2. /\ Position(entries, id) \in 1..Len(entries)
        /\ IdOf(entries[Position(entries, id)]) = id
    BY <1>1, PositionRule DEF Agree
  <1>3. entries[Position(entries, id)] \in Entered(entries) /\ KeyAt(id) \in Nat
    BY <1>1, <1>2, EntryAt DEF Entered, KeyAt
  <1>4. KeyAt(id) <= requests[id].expiry
    BY <1>1, <1>2, <1>3 DEF Agree, KeyAt
  <1>5. QED
    BY <1>1, <1>3, <1>4 DEF Request

\* What is left when a request leaves both maps.
LEMMA RemoveRule ==
  ASSUME WheelInv, NEW id \in Waiting, Remove(id)
  PROVE  /\ entries' \in Seq(Entry) /\ Agree(entries', requests')
         /\ Waiting' = Waiting \ {id} /\ requests' \in [Waiting' -> Request]
         /\ \A i \in Waiting' : requests'[i] = requests[i]
         /\ cursor' \in Waiting' \cup {None} /\ nextId' = nextId
  <1>1. /\ entries \in Seq(Entry) /\ Agree(entries, requests) /\ requests \in [Waiting -> Request]
        /\ \E e \in Entered(entries) : IdOf(e) = id
    BY WheelTypes
  <1>2. /\ requests' = [i \in Waiting \ {id} |-> requests[i]]
        /\ entries' = Erase(entries, id) /\ cursor' = Following(entries, id) /\ nextId' = nextId
    BY DEF Remove
  <1>3. /\ Waiting' = Waiting \ {id} /\ DOMAIN requests' = Waiting \ {id}
        /\ \A i \in Waiting \ {id} : requests'[i] = requests[i]
    BY <1>2 DEF Waiting
  <1>4. /\ entries' \in Seq(Entry) /\ Sorted(entries')
        /\ Entered(entries') = {e \in Entered(entries) : IdOf(e) # id}
        /\ \/ Following(entries, id) = None
           \/ \E e \in Entered(entries) : IdOf(e) # id /\ Following(entries, id) = IdOf(e)
    BY <1>1, <1>2, EraseKeeps DEF Agree
  <1>5. {IdOf(e) : e \in Entered(entries)} = Waiting
    BY <1>1 DEF Agree, Waiting
  <1>6. {IdOf(e) : e \in Entered(entries')} = Waiting \ {id}
    BY <1>4, <1>5
  <1>7. \A e \in Entered(entries') : e[1] <= requests'[IdOf(e)].expiry
    BY <1>1, <1>3, <1>4, <1>6 DEF Agree
  <1>8. cursor' \in Waiting' \cup {None}
    BY <1>2, <1>3, <1>4, <1>5
  <1>9. requests' \in [Waiting' -> Request]
    BY <1>1, <1>2, <1>3
  <1>10. QED
    BY <1>2, <1>3, <1>4, <1>6, <1>7, <1>8, <1>9 DEF Agree

\* The maps after post().
LEMMA PostRule ==
  ASSUME WheelInv, NEW timeout \in Timeouts, Post(timeout)
  PROVE  /\ entries' \in Seq(Entry) /\ Agree(entries', requests') /\ entries' # <<>>
         /\ Waiting' = Waiting \cup {nextId} /\ requests' \in [Waiting' -> Request]
         /\ \A i \in Waiting : requests'[i] = requests[i]
         /\ requests'[nextId] = NewRequest(timeout) /\ nextId \notin Waiting
         /\ nextId' = nextId + 1 /\ nextId \in Ids
  <1> USE ConstantsAssumption DEF ConstantsAssumption
  <1> DEFINE r == NewRequest(timeout)
  <1>1. /\ entries \in Seq(Entry) /\ Agree(entries, requests) /\ requests \in [Waiting -> Request]
        /\ Waiting \subseteq 0..(nextId - 1) /\ nextId \in 0..MaxRequests /\ clock \in Nat
    BY WheelTypes
  <1>2. /\ requests' = [id \in Waiting \cup {nextId} |-> IF id = nextId THEN r ELSE requests[id]]
        /\ entries' = Emplace(entries, r.expiry, nextId) /\ nextId' = nextId + 1
        /\ nextId < MaxRequests
    BY DEF Post
  <1>3. nextId \in Ids /\ nextId \notin Waiting
    BY <1>1, <1>2 DEF Ids
  <1>4. r \in Request /\ r.expiry \in Nat
    BY <1>1 DEF NewRequest, AbsoluteExpiry, Request
  <1>5. {IdOf(e) : e \in Entered(entries)} = Waiting
    BY <1>1 DEF Agree, Waiting
  <1>6. /\ entries' \in Seq(Entry) /\ Sorted(entries') /\ entries' # <<>>
        /\ Entered(entries') = Entered(entries) \cup {<<r.expiry, nextId>>}
    <2>1. \A e \in Entered(entries) : IdOf(e) # nextId
      BY <1>3, <1>5
    <2>2. Sorted(entries)
      BY <1>1 DEF Agree
    <2> HIDE DEF r
    <2>3. QED
      BY <1>1, <1>2, <1>3, <1>4, <2>1, <2>2, EmplaceKeeps
  <1> HIDE DEF r
  <1>7. /\ Waiting' = Waiting \cup {nextId} /\ DOMAIN requests' = Waiting \cup {nextId}
        /\ \A i \in Waiting : requests'[i] = requests[i]
        /\ requests'[nextId] = r
    BY <1>2, <1>3 DEF Waiting
  <1>8. IdOf(<<r.expiry, nextId>>) = nextId /\ <<r.expiry, nextId>>[1] = r.expiry
    BY DEF IdOf
  <1>9. {IdOf(e) : e \in Entered(entries')} = Waiting \cup {nextId}
    BY <1>5, <1>6, <1>8
  <1>10. ASSUME NEW e \in Entered(entries')
         PROVE  e[1] <= requests'[IdOf(e)].expiry
    <2>1. CASE e \in Entered(entries)
      <3>1. IdOf(e) \in Waiting /\ e[1] <= requests[IdOf(e)].expiry
        BY <1>1, <1>5, <2>1 DEF Agree
      <3>2. QED
        BY <1>7, <3>1
    <2>2. CASE e = <<r.expiry, nextId>>
      BY <1>4, <1>7, <1>8, <2>2
    <2>3. QED
      BY <1>6, <2>1, <2>2
  <1>11. requests' \in [Waiting' -> Request]
    <2>1. \A i \in Waiting \cup {nextId} : requests'[i] \in Request
      BY <1>1, <1>4, <1>7
    <2>2. QED
      BY <1>2, <1>7, <2>1
  <1>12. QED
    BY <1>2, <1>3, <1>6, <1>7, <1>9, <1>10, <1>11 DEF Agree, r

\* The maps after an entry was entered again.
LEMMA AgainRule ==
  ASSUME WheelInv, NEW id \in Waiting, WalkStale(id)
  PROVE  entries' \in Seq(Entry) /\ Agree(entries', requests)
  <1> DEFINE es == Erase(entries, id)
             key == requests[id].expiry
  <1>1. /\ entries \in Seq(Entry) /\ Agree(entries, requests) /\ id \in Ids
        /\ \E e \in Entered(entries) : IdOf(e) = id
    BY WheelTypes
  <1>2. entries' = Emplace(es, key, id) /\ key \in Nat
    BY KeyRule DEF WalkStale
  <1>3. es \in Seq(Entry) /\ Sorted(es) /\ Entered(es) = {e \in Entered(entries) : IdOf(e) # id}
    BY <1>1, EraseKeeps DEF Agree
  <1> HIDE DEF es, key
  <1>4. /\ entries' \in Seq(Entry) /\ Sorted(entries')
        /\ Entered(entries') = Entered(es) \cup {<<key, id>>}
    BY <1>1, <1>2, <1>3, EmplaceKeeps
  <1>5. IdOf(<<key, id>>) = id /\ <<key, id>>[1] = key
    BY DEF IdOf
  <1>6. {IdOf(e) : e \in Entered(entries)} = DOMAIN requests /\ id \in DOMAIN requests
    BY <1>1 DEF Agree, Waiting
  <1>7. {IdOf(e) : e \in Entered(entries')} = DOMAIN requests
    <2>1. \A e \in Entered(entries') : IdOf(e) \in DOMAIN requests
      BY <1>3, <1>4, <1>5, <1>6
    <2>2. \A i \in DOMAIN requests : \E e \in Entered(entries') : IdOf(e) = i
      BY <1>3, <1>4, <1>5, <1>6
    <2>3. QED
      BY <2>1, <2>2
  <1>8. \A e \in Entered(entries') : e[1] <= requests[IdOf(e)].expiry
    <2>1. \A e \in Entered(es) : e[1] <= requests[IdOf(e)].expiry
      BY <1>1, <1>3 DEF Agree
    <2>2. key <= requests[id].expiry
      BY <1>2 DEF key
    <2>3. QED
      BY <1>4, <1>5, <2>1, <2>2
  <1>9. QED
    BY <1>4, <1>7, <1>8 DEF Agree

\* cancel() and reset() change one request and leave its key; reset() does not
\* bring the expiry forward.
LEMMA ChangeRule ==
  ASSUME WheelInv, NEW id \in Waiting,
         \/ requests' = [requests EXCEPT ![id].cancelled = TRUE]
         \/ requests' = [requests EXCEPT ![id].expiry = AbsoluteExpiry(requests[id].timeout)]
  PROVE  /\ Agree(entries, requests') /\ Waiting' = Waiting /\ requests' \in [Waiting' -> Request]
         /\ \A i \in Waiting : requests'[i].expiry <= clock + requests'[i].timeout
         /\ \A i \in Waiting : i # id => requests'[i] = requests[i]
  <1> USE ConstantsAssumption DEF ConstantsAssumption
  <1> DEFINE new == requests'[id]
  <1>1. /\ Agree(entries, requests) /\ requests \in [Waiting -> Request] /\ clock \in Nat
        /\ requests[id] \in Request /\ entries \in Seq(Entry)
    BY WheelTypes
  <1>2. requests[id].expiry <= clock + requests[id].timeout
    BY DEF WheelInv, TimeInv
  <1>3. /\ requests[id].timeout \in Nat /\ requests[id].expiry \in Nat
        /\ requests[id].timeout \in Timeouts /\ requests[id].cancelled \in BOOLEAN
    BY <1>1 DEF Request
  <1>4. id \in DOMAIN requests
    BY DEF Waiting
  <1>5. /\ DOMAIN requests' = DOMAIN requests
        /\ \A i \in DOMAIN requests : i # id => requests'[i] = requests[i]
    BY <1>4
  <1>6. \/ new = [requests[id] EXCEPT !.cancelled = TRUE]
        \/ new = [requests[id] EXCEPT !.expiry = clock + requests[id].timeout]
    BY <1>4 DEF AbsoluteExpiry
  <1>7. \/ new = [timeout |-> requests[id].timeout, expiry |-> requests[id].expiry, cancelled |-> TRUE]
        \/ new = [timeout |-> requests[id].timeout, expiry |-> clock + requests[id].timeout,
                  cancelled |-> requests[id].cancelled]
    BY <1>1, <1>6 DEF Request
  <1> HIDE DEF new
  <1>8. /\ new.timeout = requests[id].timeout
        /\ \/ new.expiry = requests[id].expiry
           \/ new.expiry = clock + requests[id].timeout
    BY <1>7
  <1>9. new \in Request
    <2>1. clock + requests[id].timeout \in Nat
      BY <1>1, <1>3
    <2>2. /\ [timeout |-> requests[id].timeout, expiry |-> requests[id].expiry,
              cancelled |-> TRUE] \in Request
          /\ [timeout |-> requests[id].timeout, expiry |-> clock + requests[id].timeout,
              cancelled |-> requests[id].cancelled] \in Request
      BY <1>3, <2>1 DEF Request
    <2>3. QED
      BY <1>7, <2>2
  <1>10. /\ new.expiry \in Nat /\ requests[id].expiry <= new.expiry
         /\ new.expiry <= clock + new.timeout
    BY <1>1, <1>2, <1>3, <1>8
  <1>11. \A e \in Entered(entries) : e[1] <= requests'[IdOf(e)].expiry
    <2>1. ASSUME NEW e \in Entered(entries)
          PROVE  e[1] <= requests'[IdOf(e)].expiry
      <3>1. /\ IdOf(e) \in DOMAIN requests /\ e[1] <= requests[IdOf(e)].expiry
        BY <1>1 DEF Agree
      <3>2. e[1] \in Nat
        BY <1>1, EntryAt DEF Entered
      <3>3. CASE IdOf(e) = id
        <4>1. e[1] <= requests[id].expiry
          BY <3>1, <3>3
        <4>2. e[1] <= new.expiry
          BY <1>3, <1>10, <3>2, <4>1
        <4>3. QED
          BY <3>3, <4>2 DEF new
      <3>4. CASE IdOf(e) # id
        BY <1>5, <3>1, <3>4
      <3>5. QED
        BY <3>3, <3>4
    <2>2. QED
      BY <2>1
  <1>12. Agree(entries, requests')
    BY <1>1, <1>5, <1>11 DEF Agree
  <1>13. requests' \in [Waiting' -> Request] /\ Waiting' = Waiting
    <2>1. \A i \in DOMAIN requests : requests'[i] \in Request
      BY <1>1, <1>5, <1>9 DEF new, Waiting
    <2>2. requests' = [i \in DOMAIN requests |-> requests'[i]]
      OBVIOUS
    <2>3. QED
      BY <1>5, <2>1, <2>2 DEF Waiting
  <1>14. \A i \in Waiting : requests'[i].expiry <= clock + requests'[i].timeout
    BY <1>5, <1>10 DEF new, Waiting, WheelInv, TimeInv
  <1>15. QED
    BY <1>5, <1>12, <1>13, <1>14 DEF Waiting

\* The maps and the cursor after any step.
MapsRight ==
  /\ entries' \in Seq(Entry) /\ Agree(entries', requests')
  /\ requests' \in [Waiting' -> Request]
  /\ Waiting' \subseteq 0..(nextId' - 1) /\ nextId' \in 0..MaxRequests
  /\ cursor' \in Waiting' \cup {None}
  /\ \A i \in Waiting' : requests'[i].expiry <= clock + requests'[i].timeout

LEMMA MapsStep ==
  ASSUME WheelInv, Next
  PROVE  MapsRight
  <1> USE ConstantsAssumption DEF ConstantsAssumption
  <1>1. /\ entries \in Seq(Entry) /\ Agree(entries, requests)
        /\ Waiting \subseteq 0..(nextId - 1) /\ nextId \in 0..MaxRequests /\ Waiting \subseteq Ids
        /\ requests \in [Waiting -> Request] /\ clock \in Nat
        /\ None \notin Ids /\ cursor \in Waiting \cup {None}
    BY WheelTypes
  <1>2. \A i \in Waiting : requests[i].expiry <= clock + requests[i].timeout
    BY DEF WheelInv, TimeInv
  <1>3. CASE UNCHANGED wheel /\ cursor' = cursor
    BY <1>1, <1>2, <1>3 DEF MapsRight, wheel, Waiting
  <1>4. ASSUME NEW timeout \in Timeouts, Post(timeout)
        PROVE  MapsRight
    <2>1. /\ entries' \in Seq(Entry) /\ Agree(entries', requests')
          /\ Waiting' = Waiting \cup {nextId} /\ requests' \in [Waiting' -> Request]
          /\ \A i \in Waiting : requests'[i] = requests[i]
          /\ requests'[nextId] = NewRequest(timeout)
          /\ nextId' = nextId + 1 /\ nextId \in Ids
      BY <1>4, PostRule
    <2>2. cursor' = cursor /\ nextId' \in 0..MaxRequests
      BY <1>1, <1>4 DEF Post, walk
    <2>3. Waiting' \subseteq 0..(nextId' - 1)
      BY <1>1, <2>1
    <2>4. NewRequest(timeout).expiry <= clock + NewRequest(timeout).timeout
      BY <1>1 DEF NewRequest, AbsoluteExpiry
    <2>5. \A i \in Waiting' : requests'[i].expiry <= clock + requests'[i].timeout
      BY <1>2, <2>1, <2>4
    <2>6. QED
      BY <1>1, <2>1, <2>2, <2>3, <2>5 DEF MapsRight
  <1>5. ASSUME NEW id \in Ids, Cancel(id) \/ Reset(id)
        PROVE  MapsRight
    <2>1. cursor' = cursor
      BY <1>5 DEF Cancel, Reset, walk
    <2>2. CASE id \in Waiting
      <3>1. /\ nextId' = nextId /\ entries' = entries
            /\ \/ requests' = [requests EXCEPT ![id].cancelled = TRUE]
               \/ requests' = [requests EXCEPT ![id].expiry = AbsoluteExpiry(requests[id].timeout)]
        BY <1>5, <2>2 DEF Cancel, Reset
      <3>2. /\ Agree(entries, requests') /\ Waiting' = Waiting
            /\ requests' \in [Waiting' -> Request]
            /\ \A i \in Waiting : requests'[i].expiry <= clock + requests'[i].timeout
        BY <2>2, <3>1, ChangeRule
      <3>3. QED
        BY <1>1, <2>1, <3>1, <3>2 DEF MapsRight
    <2>3. CASE id \notin Waiting
      BY <1>3, <1>5, <2>1, <2>3 DEF Cancel, Reset, Throw
    <2>4. QED
      BY <2>2, <2>3
  <1>6. CASE WalkBegin
    <2>1. UNCHANGED wheel /\ cursor' = IF entries = <<>> THEN None ELSE IdOf(Head(entries))
      BY <1>6 DEF WalkBegin
    <2>2. cursor' \in Waiting \cup {None}
      <3>1. CASE entries # <<>>
        <4>1. 1 \in 1..Len(entries) /\ Head(entries) = entries[1]
          BY <1>1, <3>1
        <4>2. Head(entries) \in Entered(entries)
          BY <4>1 DEF Entered
        <4>3. QED
          BY <1>1, <2>1, <3>1, <4>2 DEF Agree, Waiting
      <3>2. QED
        BY <2>1, <3>1
    <2>3. QED
      BY <1>1, <1>2, <2>1, <2>2 DEF MapsRight, wheel, Waiting
  <1>7. CASE WalkEnd
    BY <1>1, <1>2, <1>7 DEF WalkEnd, MapsRight, wheel, Waiting
  <1>8. ASSUME NEW id \in Waiting, Remove(id)
        PROVE  MapsRight
    <2>1. /\ entries' \in Seq(Entry) /\ Agree(entries', requests')
          /\ Waiting' = Waiting \ {id} /\ requests' \in [Waiting' -> Request]
          /\ \A i \in Waiting' : requests'[i] = requests[i]
          /\ cursor' \in Waiting' \cup {None} /\ nextId' = nextId
      BY <1>8, RemoveRule
    <2>2. QED
      BY <1>1, <1>2, <2>1 DEF MapsRight
  <1>9. CASE CallbackReturns
    <2>1. Remove(cursor) /\ cursor # None
      BY <1>9 DEF CallbackReturns, WheelInv, FiredInv
    <2>2. QED
      BY <1>1, <1>8, <2>1
  <1>10. ASSUME NEW id \in Ids, WalkStale(id) \/ WalkDue(id) \/ WalkCancelled(id)
         PROVE  MapsRight
    <2>1. id \in Waiting
      BY <1>1, <1>10 DEF WalkStale, WalkDue, WalkCancelled, At
    <2>2. CASE WalkStale(id)
      <3>1. entries' \in Seq(Entry) /\ Agree(entries', requests)
        BY <2>1, <2>2, AgainRule
      <3>2. nextId' = nextId /\ requests' = requests /\ cursor' = cursor
        BY <2>2 DEF WalkStale, walk
      <3>3. QED
        BY <1>1, <1>2, <3>1, <3>2 DEF MapsRight, Waiting
    <2>3. CASE WalkDue(id)
      BY <1>3, <2>3 DEF WalkDue, walk
    <2>4. CASE WalkCancelled(id)
      BY <1>8, <2>1, <2>4 DEF WalkCancelled
    <2>5. QED
      BY <1>10, <2>2, <2>3, <2>4
  <1>11. CASE Tick \/ Start \/ Stop \/ Destroy \/ \E w \in Wheels : Move(w)
    BY <1>3, <1>11 DEF Tick, Start, Stop, Destroy, Move, walk
  <1>12. QED
    BY <1>4, <1>5, <1>6, <1>7, <1>9, <1>10, <1>11 DEF Next, Bookkeeper, User

LEMMA TypeStep ==
  ASSUME WheelInv, Next
  PROVE  TypeOK' /\ walkTime' <= clock' /\ clock <= clock'
  <1> USE ConstantsAssumption DEF ConstantsAssumption
  <1>1. MapsRight
    BY MapsStep
  <1>2. /\ clock \in 0..MaxTime /\ walkTime \in 0..MaxTime /\ walkTime <= clock
        /\ active \in BOOLEAN /\ halted \in BOOLEAN
        /\ target \in Wheels /\ holder \in Wheels \cup {None}
        /\ place \in {"out", "walk", "callback", "terminated"}
        /\ fired \in [Ids -> Nat]
    BY DEF WheelInv, TypeOK, TimeInv
  <1>3. clock' \in 0..MaxTime /\ walkTime' \in 0..MaxTime /\ walkTime' <= clock' /\ clock <= clock'
    <2>1. \/ clock < MaxTime /\ clock' = clock + 1 /\ walkTime' = walkTime
          \/ clock' = clock /\ walkTime' \in {0, clock, walkTime}
      BY DEF Next, Bookkeeper, User, Tick, WalkBegin, CallbackReturns, WalkEnd, WalkStale, WalkDue,
             WalkCancelled, Start, Stop, Destroy, Post, Cancel, Reset, Move, walk
    <2>2. QED
      BY <1>2, <2>1
  <1>4. active' \in BOOLEAN /\ halted' \in BOOLEAN
    BY <1>2 DEF Next, Bookkeeper, User, Tick, WalkBegin, CallbackReturns, WalkEnd, WalkStale, WalkDue,
           WalkCancelled, Start, Stop, Destroy, Post, Cancel, Reset, Move, ArmIf, timer
  <1>5. target' \in Wheels /\ holder' \in Wheels \cup {None}
    BY <1>2 DEF Next, Bookkeeper, User, Tick, WalkBegin, CallbackReturns, WalkEnd, WalkStale, WalkDue,
           WalkCancelled, Start, Stop, Destroy, Post, Cancel, Reset, Move, timer
  <1>6. place' \in {"out", "walk", "callback", "terminated"}
    BY <1>2 DEF Next, Bookkeeper, User, Tick, WalkBegin, CallbackReturns, WalkEnd, WalkStale, WalkDue,
           WalkCancelled, Start, Stop, Destroy, Post, Cancel, Reset, Move, Throw
  <1>7. fired' \in [Ids -> Nat]
    <2>1. \/ fired' = fired
          \/ \E id \in Ids : fired' = [fired EXCEPT ![id] = @ + 1]
      BY DEF Next, Bookkeeper, User, Tick, WalkBegin, CallbackReturns, WalkEnd, WalkStale, WalkDue,
             WalkCancelled, Start, Stop, Destroy, Post, Cancel, Reset, Move
    <2>2. QED
      BY <1>2, <2>1
  <1>8. cursor' \in Ids \cup {None}
    <2>1. nextId' \in 0..MaxRequests
      BY <1>1 DEF MapsRight
    <2>2. ASSUME NEW n \in 0..MaxRequests, NEW x \in 0..(n - 1)
          PROVE  x \in Ids
      BY DEF Ids
    <2>3. \A x \in Waiting' : x \in Ids
      BY <1>1, <2>1, <2>2 DEF MapsRight
    <2>4. QED
      BY <1>1, <2>3 DEF MapsRight
  <1>9. entries' \in Seq(Nat \X Ids)
    BY <1>1 DEF MapsRight, Entry
  <1>10. QED
    BY <1>1, <1>3, <1>4, <1>5, <1>6, <1>7, <1>8, <1>9 DEF TypeOK, MapsRight

LEMMA FiredStep ==
  ASSUME WheelInv, Next
  PROVE  FiredInv'
  <1> USE ConstantsAssumption DEF ConstantsAssumption
  <1>1. /\ nextId \in 0..MaxRequests /\ Waiting \subseteq 0..(nextId - 1) /\ Waiting \subseteq Ids
        /\ None \notin Ids /\ cursor \in Waiting \cup {None}
    BY WheelTypes
  <1>2. /\ place = "callback" => cursor # None
        /\ \A id \in Ids : fired[id] # 0 =>
             id < nextId /\ (id \notin Waiting \/ (id = cursor /\ place \in {"callback", "terminated"}))
    BY DEF WheelInv, FiredInv
  <1>3. /\ fired \in [Ids -> Nat] /\ place \in {"out", "walk", "callback", "terminated"}
    BY DEF WheelInv, TypeOK
  <1>4. CASE /\ UNCHANGED <<fired, nextId>> /\ Waiting' = Waiting
             /\ \/ UNCHANGED <<place, cursor>>
                \/ place = "callback" /\ place' = "terminated" /\ cursor' = cursor
                \/ place \in {"out", "walk"} /\ place' \in {"out", "walk"}
    BY <1>2, <1>3, <1>4 DEF FiredInv
  <1>5. ASSUME NEW timeout \in Timeouts, Post(timeout)
        PROVE  FiredInv'
    <2>1. Waiting' = Waiting \cup {nextId} /\ nextId' = nextId + 1
      BY <1>5, PostRule
    <2>2. UNCHANGED <<place, cursor, fired>>
      BY <1>5 DEF Post, walk
    <2>3. ASSUME NEW id \in Ids, fired[id] # 0
          PROVE  id < nextId' /\ id # nextId
      <3>1. id < nextId /\ id \in Int
        BY <1>2, <2>3 DEF Ids
      <3>2. QED
        BY <1>1, <2>1, <3>1
    <2>4. QED
      BY <1>2, <2>1, <2>2, <2>3 DEF FiredInv
  <1>6. ASSUME NEW id \in Ids, Cancel(id) \/ Reset(id)
        PROVE  FiredInv'
    <2>1. UNCHANGED <<fired, cursor>> /\ place \in {"out", "callback"}
      BY <1>6 DEF Cancel, Reset, Calling, walk
    <2>2. CASE id \in Waiting
      <3>1. /\ UNCHANGED <<nextId, place>>
            /\ \/ requests' = [requests EXCEPT ![id].cancelled = TRUE]
               \/ requests' = [requests EXCEPT ![id].expiry = AbsoluteExpiry(requests[id].timeout)]
        BY <1>6, <2>2 DEF Cancel, Reset
      <3>2. Waiting' = Waiting
        BY <2>2, <3>1, ChangeRule
      <3>3. QED
        BY <1>4, <2>1, <3>1, <3>2
    <2>3. CASE id \notin Waiting
      <3>1. UNCHANGED wheel /\ place' = IF place = "callback" THEN "terminated" ELSE place
        BY <1>6, <2>3 DEF Cancel, Reset, Throw
      <3>2. QED
        BY <1>4, <2>1, <3>1 DEF wheel, Waiting
    <2>4. QED
      BY <2>2, <2>3
  <1>7. CASE WalkBegin \/ WalkEnd
    <2>1. /\ UNCHANGED <<fired, wheel>>
          /\ place \in {"out", "walk"} /\ place' \in {"out", "walk"}
      BY <1>7 DEF WalkBegin, WalkEnd
    <2>2. QED
      BY <1>4, <2>1 DEF wheel, Waiting
  <1>8. ASSUME NEW id \in Waiting, Remove(id), place' = "walk", fired' = fired,
               place = "callback" => cursor = id, place # "terminated"
        PROVE  FiredInv'
    <2>1. Waiting' = Waiting \ {id} /\ nextId' = nextId
      BY <1>8, RemoveRule
    <2>2. QED
      BY <1>2, <1>3, <1>8, <2>1 DEF FiredInv
  <1>9. CASE CallbackReturns
    <2>1. Remove(cursor) /\ cursor # None /\ place = "callback" /\ place' = "walk" /\ fired' = fired
      BY <1>2, <1>9 DEF CallbackReturns
    <2>2. QED
      BY <1>1, <1>8, <2>1
  <1>10. ASSUME NEW id \in Ids, WalkCancelled(id)
         PROVE  FiredInv'
    <2>1. Remove(id) /\ cursor = id /\ place = "walk" /\ place' = "walk" /\ fired' = fired
      BY <1>10 DEF WalkCancelled, At
    <2>2. QED
      BY <1>1, <1>8, <2>1
  <1>11. ASSUME NEW id \in Ids, WalkStale(id)
         PROVE  FiredInv'
    BY <1>4, <1>11 DEF WalkStale, walk, Waiting
  <1>12. ASSUME NEW id \in Ids, WalkDue(id)
         PROVE  FiredInv'
    <2>1. /\ cursor = id /\ id # None /\ cursor' = cursor /\ place = "walk" /\ place' = "callback"
          /\ UNCHANGED wheel /\ fired' = [fired EXCEPT ![id] = @ + 1]
      BY <1>12 DEF WalkDue, At, walk
    <2>2. id < nextId /\ Waiting' = Waiting /\ nextId' = nextId
      BY <1>1, <2>1 DEF wheel, Waiting, Ids
    <2>3. \A i \in Ids : i # id => fired'[i] = fired[i]
      BY <1>3, <2>1
    <2>4. QED
      BY <1>2, <1>12, <2>1, <2>2, <2>3 DEF FiredInv
  <1>13. CASE Tick \/ Start \/ Stop \/ Destroy \/ \E w \in Wheels : Move(w)
    BY <1>4, <1>13 DEF Tick, Start, Stop, Destroy, Move, walk, wheel, Waiting
  <1>14. QED
    BY <1>5, <1>6, <1>7, <1>9, <1>10, <1>11, <1>12, <1>13 DEF Next, Bookkeeper, User

LEMMA ArmedStep ==
  ASSUME WheelInv, Next
  PROVE  ArmedInv'
  <1> USE ConstantsAssumption DEF ConstantsAssumption
  <1>1. /\ entries \in Seq(Entry) /\ Agree(entries, requests) /\ cursor \in Waiting \cup {None}
    BY WheelTypes
  <1>2. /\ Waiting # {} /\ ~halted => active
        /\ active => target = holder
        /\ holder # None => target = holder
    BY DEF WheelInv, ArmedInv, ArmedWhileNeeded
  <1>3. active \in BOOLEAN /\ halted \in BOOLEAN
    BY DEF WheelInv, TypeOK
  <1>4. CASE UNCHANGED <<timer, halted>> /\ Waiting' \subseteq Waiting
    BY <1>2, <1>4 DEF ArmedInv, ArmedWhileNeeded, timer
  <1>5. CASE Start
    <2>1. /\ Waiting' = Waiting /\ UNCHANGED <<target, holder>> /\ holder # None
          /\ active' = (active \/ Waiting # {}) /\ halted' = (halted /\ Waiting = {})
      BY <1>5 DEF Start, Calling, ArmIf, wheel, Waiting
    <2>2. QED
      BY <1>2, <2>1 DEF ArmedInv, ArmedWhileNeeded
  <1>6. CASE Stop
    BY <1>2, <1>6 DEF Stop, ArmedInv, ArmedWhileNeeded
  <1>7. ASSUME NEW timeout \in Timeouts, Post(timeout)
        PROVE  ArmedInv'
    <2>1. UNCHANGED <<target, holder>> /\ holder # None /\ active' = (active \/ TRUE)
      BY <1>7 DEF Post, Calling, ArmIf
    <2>2. QED
      BY <1>2, <2>1 DEF ArmedInv, ArmedWhileNeeded
  <1>8. ASSUME NEW id \in Ids, Cancel(id) \/ Reset(id)
        PROVE  ArmedInv'
    <2>1. UNCHANGED <<timer, halted>>
      BY <1>8 DEF Cancel, Reset
    <2>2. Waiting' = Waiting
      <3>1. CASE id \in Waiting
        <4>1. \/ requests' = [requests EXCEPT ![id].cancelled = TRUE]
              \/ requests' = [requests EXCEPT ![id].expiry = AbsoluteExpiry(requests[id].timeout)]
          BY <1>8, <3>1 DEF Cancel, Reset
        <4>2. QED
          BY <3>1, <4>1, ChangeRule
      <3>2. CASE id \notin Waiting
        BY <1>8, <3>2 DEF Cancel, Reset, Throw, wheel, Waiting
      <3>3. QED
        BY <3>1, <3>2
    <2>3. QED
      BY <1>4, <2>1, <2>2
  <1>9. ASSUME NEW w \in Wheels, Move(w)
        PROVE  ArmedInv'
    BY <1>2, <1>9 DEF Move, ArmedInv, ArmedWhileNeeded, wheel, Waiting
  <1>10. CASE Destroy
    BY <1>2, <1>10 DEF Destroy, ArmedInv, ArmedWhileNeeded
  <1>11. CASE WalkEnd
    <2>1. /\ active' = (active /\ entries # <<>>) /\ UNCHANGED <<wheel, target, holder, halted>>
      BY <1>11 DEF WalkEnd
    <2>2. entries = <<>> => Waiting = {}
      <3>1. entries = <<>> => Entered(entries) = {}
        BY DEF Entered
      <3>2. QED
        BY <1>1, <3>1 DEF Agree, Waiting
    <2>3. Waiting' = Waiting
      BY <2>1 DEF wheel, Waiting
    <2>4. QED
      BY <1>2, <2>1, <2>2, <2>3 DEF ArmedInv, ArmedWhileNeeded
  <1>12. ASSUME NEW id \in Waiting, Remove(id), UNCHANGED <<timer, halted>>
         PROVE  ArmedInv'
    <2>1. Waiting' = Waiting \ {id}
      BY <1>12, RemoveRule
    <2>2. QED
      BY <1>4, <1>12, <2>1
  <1>13. CASE CallbackReturns
    <2>1. Remove(cursor) /\ cursor # None /\ UNCHANGED <<timer, halted>>
      BY <1>13 DEF CallbackReturns, WheelInv, FiredInv
    <2>2. QED
      BY <1>1, <1>12, <2>1
  <1>14. ASSUME NEW id \in Ids, WalkCancelled(id)
         PROVE  ArmedInv'
    <2>1. Remove(id) /\ cursor = id /\ id # None /\ UNCHANGED <<timer, halted>>
      BY <1>14 DEF WalkCancelled, At
    <2>2. QED
      BY <1>1, <1>12, <2>1
  <1>15. CASE Tick \/ WalkBegin \/ \E id \in Ids : WalkStale(id) \/ WalkDue(id)
    BY <1>4, <1>15 DEF Tick, WalkBegin, WalkStale, WalkDue, wheel, Waiting
  <1>16. QED
    BY <1>5, <1>6, <1>7, <1>8, <1>9, <1>10, <1>11, <1>13, <1>14, <1>15 DEF Next, Bookkeeper, User

LEMMA InitWheelInv == Init => WheelInv
  <1> SUFFICES ASSUME Init PROVE WheelInv
    OBVIOUS
  <1> USE ConstantsAssumption DEF ConstantsAssumption
  <1>1. /\ clock = 0 /\ nextId = 0 /\ entries = <<>> /\ active = FALSE /\ halted = TRUE
        /\ holder \in Wheels /\ target = holder /\ place = "out" /\ cursor = None /\ walkTime = 0
        /\ fired = [id \in Ids |-> 0] /\ requests = [id \in {} |-> {}]
    BY DEF Init
  <1>2. Waiting = {} /\ requests \in [Waiting -> Request]
    BY <1>1 DEF Waiting
  <1>3. TypeOK
    <2>1. entries \in Seq(Nat \X Ids) /\ fired \in [Ids -> Nat]
      BY <1>1
    <2>2. clock \in 0..MaxTime /\ walkTime \in 0..MaxTime /\ nextId \in 0..MaxRequests
      BY <1>1
    <2>3. QED
      BY <1>1, <1>2, <2>1, <2>2 DEF TypeOK
  <1>4. MapsAgree
    BY <1>1, <1>2 DEF MapsAgree
  <1>5. CursorInv /\ TimeInv /\ FiredInv /\ ArmedInv
    BY <1>1, <1>2 DEF CursorInv, TimeInv, FiredInv, ArmedInv, ArmedWhileNeeded
  <1>6. QED
    BY <1>3, <1>4, <1>5 DEF WheelInv

LEMMA StepWheelInv == WheelInv /\ [Next]_vars => WheelInv'
  <1> SUFFICES ASSUME WheelInv, [Next]_vars PROVE WheelInv'
    OBVIOUS
  <1>1. CASE Next
    <2>1. MapsRight /\ TypeOK' /\ walkTime' <= clock' /\ clock <= clock'
      BY <1>1, MapsStep, TypeStep
    <2>2. MapsAgree'
      BY <2>1, AgreeRule DEF MapsRight, MapsAgree, Waiting
    <2>3. CursorInv'
      BY <2>1 DEF MapsRight, CursorInv
    <2>4. TimeInv'
      <3>1. clock \in Nat /\ clock' \in Nat
        BY <2>1 DEF WheelInv, TypeOK
      <3>2. ASSUME NEW i \in Waiting'
            PROVE  requests'[i].expiry <= clock' + requests'[i].timeout
        <4>1. requests'[i] \in Request /\ requests'[i].expiry <= clock + requests'[i].timeout
          BY <2>1 DEF MapsRight
        <4>2. requests'[i].expiry \in Nat /\ requests'[i].timeout \in Nat
          BY <4>1, ConstantsAssumption DEF Request, ConstantsAssumption
        <4>3. QED
          BY <2>1, <3>1, <4>1, <4>2
      <3>3. QED
        BY <2>1, <3>2 DEF TimeInv
    <2>5. FiredInv' /\ ArmedInv'
      BY <1>1, FiredStep, ArmedStep
    <2>6. QED
      BY <2>1, <2>2, <2>3, <2>4, <2>5 DEF WheelInv
  <1>2. CASE UNCHANGED vars
    <2>1. /\ UNCHANGED <<clock, nextId, requests, entries, active, target, holder, place, cursor,
                         walkTime, fired, halted>>
          /\ Waiting' = Waiting
      BY <1>2 DEF vars, wheel, timer, walk, Waiting
    <2>2. TypeOK' /\ MapsAgree'
      BY <2>1 DEF WheelInv, TypeOK, MapsAgree
    <2>3. CursorInv' /\ TimeInv' /\ FiredInv' /\ ArmedInv'
      BY <2>1 DEF WheelInv, CursorInv, TimeInv, FiredInv, ArmedInv, ArmedWhileNeeded
    <2>4. QED
      BY <2>2, <2>3 DEF WheelInv
  <1>3. QED
    BY <1>1, <1>2

LEMMA WheelInvariant == Spec => []WheelInv
  BY InitWheelInv, StepWheelInv, PTL DEF Spec

-----------------------------------------------------------------------------
(* Theorems *)

\* The types of basic_timer_wheel hold in every reachable state: the ids in the
\* maps were given out, and none is used again.
THEOREM TypeCorrect == Spec => []TypeOK
  BY WheelInvariant, PTL DEF WheelInv

\* The two maps of basic_timer_wheel hold the same requests, each once, in the
\* order of keys that no reset() ever makes too late.
THEOREM MapsStayEqual == Spec => []MapsAgree
  BY WheelInvariant, PTL DEF WheelInv

\* The timer runs whenever a request waits and the wheel was not stopped, and
\* its callback calls the object that has the requests, also after a move.
THEOREM ArmedThroughout == Spec => []ArmedWhileNeeded
  BY WheelInvariant, PTL DEF WheelInv, ArmedInv

\* bookkeeper() processes a request at most once, not before the expiry its last
\* reset() gave it, and not after cancel().
THEOREM NeverEarly == Spec => FiresInTime
  <1>1. WheelInv /\ [Next]_vars =>
          [\A id \in Ids : fired'[id] # fired[id] =>
             /\ fired[id] = 0 /\ fired'[id] = 1
             /\ id \in Waiting /\ ~requests[id].cancelled
             /\ clock >= requests[id].expiry]_vars
    <2> SUFFICES ASSUME WheelInv, Next, NEW id \in Ids, fired'[id] # fired[id]
                 PROVE  /\ fired[id] = 0 /\ fired'[id] = 1
                        /\ id \in Waiting /\ ~requests[id].cancelled
                        /\ clock >= requests[id].expiry
      BY DEF vars
    <2>1. fired' # fired
      OBVIOUS
    <2>2. PICK i \in Ids : WalkDue(i)
      BY <2>1 DEF Next, Bookkeeper, User, Tick, WalkBegin, CallbackReturns, WalkEnd, WalkStale,
                  WalkCancelled, Start, Stop, Destroy, Post, Cancel, Reset, Move
    <2>3. fired \in [Ids -> Nat]
      BY DEF WheelInv, TypeOK
    <2>4. i = id /\ fired'[id] = fired[id] + 1
      BY <2>2, <2>3 DEF WalkDue
    <2>5. cursor = id /\ id # None /\ place = "walk" /\ Due(id) /\ ~requests[id].cancelled
      BY <2>2, <2>4 DEF WalkDue, At
    <2>6. id \in Waiting /\ clock \in Nat /\ walkTime \in Nat /\ walkTime <= clock
      BY <2>5, WheelTypes
    <2>7. fired[id] = 0
      BY <2>5, <2>6 DEF WheelInv, FiredInv
    <2>8. requests[id].expiry = KeyAt(id) /\ KeyAt(id) <= walkTime /\ KeyAt(id) \in Nat
      BY <2>5, <2>6, KeyRule DEF Due, Stale
    <2>9. QED
      BY <2>4, <2>5, <2>6, <2>7, <2>8
  <1>2. QED
    BY <1>1, WheelInvariant, PTL DEF Spec, FiresInTime

=============================================================================
