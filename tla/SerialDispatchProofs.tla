------------------------ MODULE SerialDispatchProofs ------------------------
(***************************************************************************)
(* Proofs about SerialDispatch, for any number of threads, clients, tasks  *)
(* and tokens, with and without stops: the dispatch invariant is           *)
(* inductive, and mutual exclusion per token, the serial order, the        *)
(* uniqueness of a message's place, the wake-ups and the backlog of a stop *)
(* follow from it; and the dispatch implements SerialExecutor.             *)
(***************************************************************************)
EXTENDS SerialDispatch, TLAPS

-----------------------------------------------------------------------------
(* Sequences as queues *)

\* Appending to a queue adds one index and moves nothing.
LEMMA AppendIndex ==
  ASSUME NEW S, NEW s \in Seq(S), NEW x \in S
  PROVE  /\ Append(s, x) \in Seq(S)
         /\ DOMAIN Append(s, x) = 1..(Len(s) + 1)
         /\ DOMAIN s = 1..Len(s) /\ Len(s) \in Nat
         /\ \A i \in 1..Len(s) : Append(s, x)[i] = s[i]
         /\ Append(s, x)[Len(s) + 1] = x
  OBVIOUS

\* Dequeuing shifts every index down by one.
LEMMA TailIndex ==
  ASSUME NEW S, NEW s \in Seq(S), s # <<>>
  PROVE  /\ Tail(s) \in Seq(S)
         /\ Head(s) \in S /\ Head(s) = s[1]
         /\ DOMAIN Tail(s) = 1..(Len(s) - 1)
         /\ DOMAIN s = 1..Len(s) /\ Len(s) \in Nat \ {0}
         /\ \A i \in 1..(Len(s) - 1) : Tail(s)[i] = s[i + 1]
  OBVIOUS

-----------------------------------------------------------------------------
(* The invariant holds initially *)

LEMMA InitDispatchInv == Init => DispatchInv
  <1> SUFFICES ASSUME Init PROVE DispatchInv
    OBVIOUS
  <1> USE ConstantsAssumption DEF ConstantsAssumption
  <1>1. TypeOK
    BY DEF Init, TypeOK
  <1>2. QueueInv
    BY DEF Init, QueueInv
  <1>3. HandInv
    BY DEF Init, HandInv
  <1>4. NumberInv
    BY DEF Init, NumberInv, Serial
  <1>5. WakeupInv /\ StopInv /\ BacklogInv
    BY DEF Init, WakeupInv, StopInv, BacklogInv
  <1>6. QED
    BY <1>1, <1>2, <1>3, <1>4, <1>5 DEF DispatchInv

-----------------------------------------------------------------------------
(* Every step preserves each part of the invariant *)

\* A sequence number is a number.
LEMMA TokenTypes ==
  ASSUME seq \in [Tasks -> Nat], current \in [Tokens -> Nat], NEW m \in Tasks, SetSerialToken(m)
  PROVE  seq' \in [Tasks -> Nat] /\ current' \in [Tokens -> Nat]
  BY DEF SetSerialToken, Serial

LEMMA TypeStep ==
  ASSUME DispatchInv, Next
  PROVE  TypeOK'
  <1> USE ConstantsAssumption DEF ConstantsAssumption, DispatchInv, TypeOK, taskVars, tokenVars, threadVars,
          clientVars, stopVars
  <1>1. ASSUME NEW c \in Clients, NEW m \in Tasks, NEW t \in Threads, Post(c, m, t)
        PROVE  TypeOK'
    <2>1. seq' \in [Tasks -> Nat] /\ current' \in [Tokens -> Nat]
      BY <1>1, TokenTypes DEF Post
    <2>2. /\ status' = [status EXCEPT ![m] = "posting"] /\ home' = [home EXCEPT ![m] = t]
          /\ cpc' = [cpc EXCEPT ![c] = "posting"] /\ hand' = [hand EXCEPT ![c] = m]
          /\ UNCHANGED <<executing, queue, signalled, threadVars, stopVars>>
      BY <1>1 DEF Post
    <2>3. QED
      BY <2>1, <2>2
  <1>2. ASSUME NEW c \in Clients, Enqueue(c)
        PROVE  TypeOK'
    <2>1. CASE EnqueueRefused(c)
      BY <2>1 DEF EnqueueRefused
    <2>2. CASE EnqueueAccepted(c)
      BY <2>2 DEF EnqueueAccepted
    <2>3. CASE EnqueuePush(c)
      <3>1. hand[c] \in Tasks
        BY <2>3 DEF EnqueuePush, HandInv
      <3>2. queue' \in [Threads -> Seq(Tasks \cup {StopMsg})]
        BY <2>3, <3>1, AppendIndex DEF EnqueuePush
      <3>3. QED
        BY <2>3, <3>2 DEF EnqueuePush
    <2>4. CASE EnqueueSend(c)
      BY <2>4 DEF EnqueueSend
    <2>5. QED
      BY <1>2, <2>1, <2>2, <2>3, <2>4 DEF Enqueue
  <1>3. ASSUME NEW t \in Threads, NEW safe \in StopModes, Stop(t, safe)
        PROVE  TypeOK'
    BY <1>3 DEF Stop
  <1>4. ASSUME NEW t \in Threads, StopStep(t)
        PROVE  TypeOK'
    <2>1. CASE StopCheck(t)
      BY <2>1 DEF StopCheck
    <2>2. CASE StopPush(t)
      BY <2>2, AppendIndex DEF StopPush
    <2>3. CASE StopSend(t)
      BY <2>3 DEF StopSend
    <2>4. QED
      BY <1>4, <2>1, <2>2, <2>3 DEF StopStep
  <1>5. ASSUME NEW t \in Threads, ThreadStep(t)
        PROVE  TypeOK'
    <2>1. CASE Wake(t)
      BY <2>1 DEF Wake
    <2>2. CASE Dequeue(t)
      <3>1. /\ queue' \in [Threads -> Seq(Tasks \cup {StopMsg})]
            /\ Head(queue[t]) \in Tasks \cup {StopMsg}
        BY <2>2, TailIndex DEF Dequeue
      <3>2. QED
        BY <2>2, <3>1 DEF Dequeue
    <2>3. CASE PostTimer(t)
      BY <2>3 DEF PostTimer
    <2>4. CASE TryAcquire(t)
      BY <2>4 DEF TryAcquire
    <2>5. CASE RequeueRefused(t)
      BY <2>5 DEF RequeueRefused
    <2>6. CASE RequeueAccepted(t)
      BY <2>6 DEF RequeueAccepted
    <2>7. CASE RequeuePush(t)
      <3>1. held[t] \in Tasks
        BY <2>7 DEF RequeuePush, HandInv
      <3>2. queue' \in [Threads -> Seq(Tasks \cup {StopMsg})]
        BY <2>7, <3>1, AppendIndex DEF RequeuePush
      <3>3. QED
        BY <2>7, <3>2 DEF RequeuePush
    <2>8. CASE Finish(t)
      <3>1. executing' \in [Tokens -> Nat]
        BY <2>8 DEF Finish, Serial
      <3>2. tpc' = [tpc EXCEPT ![t] = "draining"] \/ tpc' = [tpc EXCEPT ![t] = "waiting"]
        BY <2>8 DEF Finish
      <3>3. QED
        BY <2>8, <3>1, <3>2 DEF Finish
    <2>9. CASE HandleStop(t)
      BY <2>9 DEF HandleStop
    <2>10. CASE QueueEmpty(t)
      BY <2>10 DEF QueueEmpty
    <2>11. CASE Return(t)
      BY <2>11 DEF Return
    <2>12. CASE Exit(t)
      BY <2>12 DEF Exit
    <2>13. QED
      BY <1>5, <2>1, <2>2, <2>3, <2>4, <2>5, <2>6, <2>7, <2>8, <2>9, <2>10, <2>11, <2>12
         DEF ThreadStep
  <1>6. ASSUME NEW t \in Threads, NEW m \in Tasks, FireTimer(t, m)
        PROVE  TypeOK'
    BY <1>6 DEF FireTimer
  <1>7. QED
    BY <1>1, <1>2, <1>3, <1>4, <1>5, <1>6 DEF Next

\* A step that leaves the queues alone and queues or unqueues no task.
LEMMA QueueFrame ==
  ASSUME QueueInv, queue' = queue,
         \A m \in Tasks : status'[m] = "queued" <=> status[m] = "queued",
         \A m \in Tasks : status[m] = "queued" => home'[m] = home[m]
  PROVE  QueueInv'
  BY DEF QueueInv

\* A task that is not queued anywhere goes to the end of its thread's queue.
LEMMA QueuePush ==
  ASSUME TypeOK, QueueInv, NEW m \in Tasks, status[m] # "queued",
         queue' = [queue EXCEPT ![home[m]] = Append(@, m)],
         status' = [status EXCEPT ![m] = "queued"],
         home' = home
  PROVE  QueueInv'
  <1> DEFINE q == queue[home[m]]
             r == Append(q, m)
  <1>1. /\ home[m] \in Threads
        /\ q \in Seq(Tasks \cup {StopMsg})
        /\ \A t \in Threads : queue'[t] = IF t = home[m] THEN r ELSE queue[t]
    BY DEF TypeOK
  <1>2. /\ DOMAIN r = 1..(Len(q) + 1)
        /\ DOMAIN q = 1..Len(q) /\ Len(q) \in Nat
        /\ \A i \in 1..Len(q) : r[i] = q[i]
        /\ r[Len(q) + 1] = m
    BY <1>1, AppendIndex
  <1>3. \A i \in 1..Len(q) : q[i] # m
    BY <1>1, <1>2 DEF QueueInv
  <1> HIDE DEF q, r
  <1>4. ASSUME NEW t \in Threads, NEW i \in DOMAIN queue'[t], queue'[t][i] \in Tasks
        PROVE  status'[queue'[t][i]] = "queued" /\ home'[queue'[t][i]] = t
    BY <1>1, <1>2, <1>4 DEF QueueInv, TypeOK, q
  <1>5. ASSUME NEW t \in Threads, NEW i \in DOMAIN queue'[t], NEW j \in DOMAIN queue'[t],
               queue'[t][i] = queue'[t][j], queue'[t][i] \in Tasks
        PROVE  i = j
    <2>1. CASE t = home[m]
      <3>1. \A a, b \in 1..Len(q) : q[a] = q[b] /\ q[a] \in Tasks => a = b
        BY <1>1, <1>2 DEF QueueInv, q
      <3>2. queue'[t] = r
        BY <1>1, <2>1
      <3>3. i \in 1..(Len(q) + 1) /\ j \in 1..(Len(q) + 1) /\ r[i] = r[j] /\ r[i] \in Tasks
        BY <1>2, <1>5, <3>2
      <3>4. QED
        BY <1>2, <1>3, <3>1, <3>3
    <2>2. CASE t # home[m]
      BY <1>1, <1>5, <2>2 DEF QueueInv
    <2>3. QED
      BY <2>1, <2>2
  <1>6. ASSUME NEW n \in Tasks, status'[n] = "queued"
        PROVE  \E i \in DOMAIN queue'[home'[n]] : queue'[home'[n]][i] = n
    <2>1. CASE n = m
      <3>1. queue'[home'[n]] = r
        BY <1>1, <2>1
      <3>2. Len(q) + 1 \in DOMAIN r /\ r[Len(q) + 1] = n
        BY <1>2, <2>1
      <3>3. QED
        BY <3>1, <3>2
    <2>2. CASE n # m
      <3>1. PICK i \in DOMAIN queue[home[n]] : queue[home[n]][i] = n
        BY <1>6, <2>2 DEF QueueInv, TypeOK
      <3>2. i \in DOMAIN queue'[home[n]] /\ queue'[home[n]][i] = n
        BY <1>1, <1>2, <3>1 DEF TypeOK, q
      <3>3. QED
        BY <3>2
    <2>3. QED
      BY <2>1, <2>2
  <1>7. QED
    BY <1>4, <1>5, <1>6 DEF QueueInv

\* A stop message goes to the end of a queue.
LEMMA QueueStop ==
  ASSUME TypeOK, QueueInv, NEW t \in Threads,
         queue' = [queue EXCEPT ![t] = Append(@, StopMsg)],
         UNCHANGED <<status, home>>
  PROVE  QueueInv'
  <1> USE ConstantsAssumption DEF ConstantsAssumption
  <1> DEFINE q == queue[t]
             r == Append(q, StopMsg)
  <1>1. /\ q \in Seq(Tasks \cup {StopMsg})
        /\ \A u \in Threads : queue'[u] = IF u = t THEN r ELSE queue[u]
    BY DEF TypeOK
  <1>2. /\ DOMAIN r = 1..(Len(q) + 1)
        /\ DOMAIN q = 1..Len(q) /\ Len(q) \in Nat
        /\ \A i \in 1..Len(q) : r[i] = q[i]
        /\ r[Len(q) + 1] = StopMsg
    BY <1>1, AppendIndex
  <1> HIDE DEF q, r
  <1>3. \A u \in Threads, i \in Nat :
          /\ i \in DOMAIN queue[u] => i \in DOMAIN queue'[u] /\ queue'[u][i] = queue[u][i]
          /\ i \in DOMAIN queue'[u] /\ queue'[u][i] \in Tasks =>
               i \in DOMAIN queue[u] /\ queue'[u][i] = queue[u][i]
    BY <1>1, <1>2 DEF q
  <1>4. \A u \in Threads : DOMAIN queue[u] \subseteq Nat /\ DOMAIN queue'[u] \subseteq Nat
    BY <1>1, <1>2 DEF TypeOK, q
  <1>5. ASSUME NEW u \in Threads, NEW i \in DOMAIN queue'[u], queue'[u][i] \in Tasks
        PROVE  status'[queue'[u][i]] = "queued" /\ home'[queue'[u][i]] = u
    BY <1>3, <1>4, <1>5 DEF QueueInv
  <1>6. ASSUME NEW u \in Threads, NEW i \in DOMAIN queue'[u], NEW j \in DOMAIN queue'[u],
               queue'[u][i] = queue'[u][j], queue'[u][i] \in Tasks
        PROVE  i = j
    <2>1. /\ i \in DOMAIN queue[u] /\ queue[u][i] = queue'[u][i]
          /\ j \in DOMAIN queue[u] /\ queue[u][j] = queue'[u][j]
      BY <1>3, <1>4, <1>6
    <2>2. QED
      BY <1>6, <2>1 DEF QueueInv
  <1>7. ASSUME NEW n \in Tasks, status'[n] = "queued"
        PROVE  \E i \in DOMAIN queue'[home'[n]] : queue'[home'[n]][i] = n
    <2>1. home[n] \in Threads /\ status[n] = "queued" /\ home'[n] = home[n]
      BY <1>7 DEF TypeOK
    <2>2. PICK i \in DOMAIN queue[home[n]] : queue[home[n]][i] = n
      BY <2>1 DEF QueueInv
    <2>3. i \in DOMAIN queue'[home[n]] /\ queue'[home[n]][i] = n
      BY <1>3, <1>4, <2>1, <2>2
    <2>4. QED
      BY <2>1, <2>3
  <1>8. QED
    BY <1>5, <1>6, <1>7 DEF QueueInv

\* The first message of a queue is taken out and held.
LEMMA QueuePop ==
  ASSUME TypeOK, QueueInv, NEW t \in Threads, queue[t] # <<>>,
         queue' = [queue EXCEPT ![t] = Tail(@)],
         status' = [m \in Tasks |-> IF m = Head(queue[t]) THEN "held" ELSE status[m]],
         home' = home
  PROVE  QueueInv'
  <1> DEFINE q == queue[t]
             r == Tail(q)
  <1>1. /\ q \in Seq(Tasks \cup {StopMsg})
        /\ \A u \in Threads : queue'[u] = IF u = t THEN r ELSE queue[u]
    BY DEF TypeOK
  <1>2. /\ Head(q) = q[1]
        /\ DOMAIN r = 1..(Len(q) - 1)
        /\ DOMAIN q = 1..Len(q) /\ Len(q) \in Nat \ {0}
        /\ \A i \in 1..(Len(q) - 1) : r[i] = q[i + 1]
    BY <1>1, TailIndex
  <1>3. \A u \in Threads : \A i, j \in DOMAIN queue[u] :
           queue[u][i] = queue[u][j] /\ queue[u][i] \in Tasks => i = j
    BY DEF QueueInv
  <1>4. \A m \in Tasks : status'[m] = IF m = q[1] THEN "held" ELSE status[m]
    BY <1>2
  <1> HIDE DEF q, r
  <1>5. ASSUME NEW u \in Threads, NEW i \in DOMAIN queue'[u], queue'[u][i] \in Tasks
        PROVE  status'[queue'[u][i]] = "queued" /\ home'[queue'[u][i]] = u
    <2>1. CASE u = t
      <3>. queue'[u] = r
        BY <1>1, <2>1
      <3>. i \in 1..(Len(q) - 1)
        BY <1>2
      <3>1. /\ i + 1 \in 1..Len(q) /\ 1 \in 1..Len(q) /\ i + 1 # 1
            /\ queue'[u][i] = q[i + 1]
        BY <1>2
      <3>2. q[i + 1] # q[1]
        BY <1>2, <1>3, <1>5, <3>1 DEF q
      <3>3. QED
        BY <1>2, <1>4, <1>5, <2>1, <3>1, <3>2 DEF QueueInv, q
    <2>2. CASE u # t
      <3>1. queue'[u][i] # q[1]
        BY <1>1, <1>2, <1>5, <2>2 DEF QueueInv, q
      <3>2. QED
        BY <1>1, <1>4, <1>5, <2>2, <3>1 DEF QueueInv
    <2>3. QED
      BY <2>1, <2>2
  <1>6. ASSUME NEW u \in Threads, NEW i \in DOMAIN queue'[u], NEW j \in DOMAIN queue'[u],
               queue'[u][i] = queue'[u][j], queue'[u][i] \in Tasks
        PROVE  i = j
    <2>1. CASE u = t
      <3>. queue'[u] = r
        BY <1>1, <2>1
      <3>. i \in 1..(Len(q) - 1) /\ j \in 1..(Len(q) - 1)
        BY <1>2
      <3>1. i + 1 \in 1..Len(q) /\ j + 1 \in 1..Len(q) /\ i \in Nat /\ j \in Nat
        BY <1>2
      <3>2. q[i + 1] = q[j + 1] /\ q[i + 1] \in Tasks
        BY <1>1, <1>2, <1>6, <2>1
      <3>3. i + 1 = j + 1
        BY <1>2, <1>3, <3>1, <3>2 DEF q
      <3>4. QED
        BY <3>1, <3>3
    <2>2. CASE u # t
      BY <1>1, <1>3, <1>6, <2>2
    <2>3. QED
      BY <2>1, <2>2
  <1>7. ASSUME NEW n \in Tasks, status'[n] = "queued"
        PROVE  \E i \in DOMAIN queue'[home'[n]] : queue'[home'[n]][i] = n
    <2>1. n # q[1] /\ status[n] = "queued" /\ home[n] \in Threads
      BY <1>4, <1>7 DEF TypeOK
    <2>2. PICK i \in DOMAIN queue[home[n]] : queue[home[n]][i] = n
      BY <2>1 DEF QueueInv
    <2>3. CASE home[n] = t
      <3>1. i \in 1..Len(q) /\ i # 1 /\ q[i] = n
        BY <1>2, <2>1, <2>2, <2>3 DEF q
      <3>2. i - 1 \in 1..(Len(q) - 1) /\ r[i - 1] = n
        BY <1>2, <3>1
      <3>3. QED
        BY <1>1, <1>2, <2>3, <3>2
    <2>4. CASE home[n] # t
      BY <1>1, <2>1, <2>2, <2>4
    <2>5. QED
      BY <2>3, <2>4
  <1>8. QED
    BY <1>5, <1>6, <1>7 DEF QueueInv

LEMMA QueueStep ==
  ASSUME DispatchInv, Next
  PROVE  QueueInv'
  <1> USE ConstantsAssumption DEF ConstantsAssumption, DispatchInv, taskVars, tokenVars, threadVars,
          clientVars, stopVars
  <1>1. ASSUME NEW c \in Clients, NEW m \in Tasks, NEW t \in Threads, Post(c, m, t)
        PROVE  QueueInv'
    BY <1>1, QueueFrame DEF Post, TypeOK, HandInv
  <1>2. ASSUME NEW c \in Clients, Enqueue(c)
        PROVE  QueueInv'
    <2>1. CASE EnqueueRefused(c)
      BY <2>1, QueueFrame DEF EnqueueRefused, TypeOK, HandInv
    <2>2. CASE EnqueueAccepted(c)
      BY <2>2 DEF EnqueueAccepted, QueueInv
    <2>3. CASE EnqueuePush(c)
      <3>1. /\ hand[c] \in Tasks /\ status[hand[c]] # "queued" /\ home' = home
            /\ queue' = [queue EXCEPT ![home[hand[c]]] = Append(@, hand[c])]
            /\ status' = [status EXCEPT ![hand[c]] = "queued"]
        BY <2>3 DEF EnqueuePush, HandInv
      <3>2. QED
        BY <3>1, QueuePush
    <2>4. CASE EnqueueSend(c)
      BY <2>4 DEF EnqueueSend, QueueInv
    <2>5. QED
      BY <1>2, <2>1, <2>2, <2>3, <2>4 DEF Enqueue
  <1>3. ASSUME NEW t \in Threads, NEW safe \in StopModes, Stop(t, safe)
        PROVE  QueueInv'
    BY <1>3 DEF Stop, QueueInv
  <1>4. ASSUME NEW t \in Threads, StopStep(t)
        PROVE  QueueInv'
    <2>1. CASE StopCheck(t)
      BY <2>1 DEF StopCheck, QueueInv
    <2>2. CASE StopPush(t)
      BY <2>2, QueueStop DEF StopPush
    <2>3. CASE StopSend(t)
      BY <2>3 DEF StopSend, QueueInv
    <2>4. QED
      BY <1>4, <2>1, <2>2, <2>3 DEF StopStep
  <1>5. ASSUME NEW t \in Threads, ThreadStep(t)
        PROVE  QueueInv'
    <2>1. CASE Wake(t)
      BY <2>1 DEF Wake, QueueInv
    <2>2. CASE Dequeue(t)
      BY <2>2, QueuePop DEF Dequeue
    <2>3. CASE PostTimer(t)
      BY <2>3, QueueFrame DEF PostTimer, TypeOK, HandInv
    <2>4. CASE TryAcquire(t)
      BY <2>4 DEF TryAcquire, QueueInv
    <2>5. CASE RequeueRefused(t)
      BY <2>5, QueueFrame DEF RequeueRefused, TypeOK, HandInv
    <2>6. CASE RequeueAccepted(t)
      BY <2>6 DEF RequeueAccepted, QueueInv
    <2>7. CASE RequeuePush(t)
      <3>1. /\ held[t] \in Tasks /\ status[held[t]] # "queued" /\ home' = home
            /\ home[held[t]] = t
            /\ queue' = [queue EXCEPT ![t] = Append(@, held[t])]
            /\ status' = [status EXCEPT ![held[t]] = "queued"]
        BY <2>7 DEF RequeuePush, HandInv
      <3>2. QED
        BY <3>1, QueuePush
    <2>8. CASE Finish(t)
      BY <2>8, QueueFrame DEF Finish, TypeOK, HandInv
    <2>9. CASE HandleStop(t)
      BY <2>9 DEF HandleStop, QueueInv
    <2>10. CASE QueueEmpty(t)
      BY <2>10 DEF QueueEmpty, QueueInv
    <2>11. CASE Return(t)
      BY <2>11 DEF Return, QueueInv
    <2>12. CASE Exit(t)
      BY <2>12 DEF Exit, QueueInv
    <2>13. QED
      BY <1>5, <2>1, <2>2, <2>3, <2>4, <2>5, <2>6, <2>7, <2>8, <2>9, <2>10, <2>11, <2>12
         DEF ThreadStep
  <1>6. ASSUME NEW t \in Threads, NEW m \in Tasks, FireTimer(t, m)
        PROVE  QueueInv'
    BY <1>6, QueueFrame DEF FireTimer, TypeOK, HandInv
  <1>7. QED
    BY <1>1, <1>2, <1>3, <1>4, <1>5, <1>6 DEF Next

LEMMA HandStep ==
  ASSUME DispatchInv, Next
  PROVE  HandInv'
  <1> USE ConstantsAssumption DEF ConstantsAssumption, DispatchInv, taskVars, tokenVars, threadVars,
          clientVars, stopVars
  <1>1. ASSUME NEW c \in Clients, NEW m \in Tasks, NEW t \in Threads, Post(c, m, t)
        PROVE  HandInv'
    BY <1>1 DEF Post, TypeOK, HandInv
  <1>2. ASSUME NEW c \in Clients, Enqueue(c)
        PROVE  HandInv'
    <2>1. CASE EnqueueRefused(c)
      BY <2>1 DEF EnqueueRefused, TypeOK, HandInv
    <2>2. CASE EnqueueAccepted(c)
      BY <2>2 DEF EnqueueAccepted, TypeOK, HandInv
    <2>3. CASE EnqueuePush(c)
      BY <2>3 DEF EnqueuePush, TypeOK, HandInv
    <2>4. CASE EnqueueSend(c)
      BY <2>4 DEF EnqueueSend, TypeOK, HandInv
    <2>5. QED
      BY <1>2, <2>1, <2>2, <2>3, <2>4 DEF Enqueue
  <1>3. ASSUME NEW t \in Threads, NEW safe \in StopModes, Stop(t, safe)
        PROVE  HandInv'
    BY <1>3 DEF Stop, TypeOK, HandInv
  <1>4. ASSUME NEW t \in Threads, StopStep(t)
        PROVE  HandInv'
    <2>1. CASE StopCheck(t)
      BY <2>1 DEF StopCheck, TypeOK, HandInv
    <2>2. CASE StopPush(t)
      BY <2>2 DEF StopPush, TypeOK, HandInv
    <2>3. CASE StopSend(t)
      BY <2>3 DEF StopSend, TypeOK, HandInv
    <2>4. QED
      BY <1>4, <2>1, <2>2, <2>3 DEF StopStep
  <1>5. ASSUME NEW t \in Threads, ThreadStep(t)
        PROVE  HandInv'
    <2>1. CASE Wake(t)
      BY <2>1 DEF Wake, TypeOK, HandInv
    <2>2. CASE Dequeue(t)
      <3>1. /\ Head(queue[t]) \in Tasks \cup {StopMsg}
            /\ Head(queue[t]) \in Tasks =>
                 status[Head(queue[t])] = "queued" /\ home[Head(queue[t])] = t
        BY <2>2, TailIndex DEF Dequeue, TypeOK, QueueInv
      <3>2. QED
        BY <2>2, <3>1 DEF Dequeue, TypeOK, HandInv
    <2>3. CASE PostTimer(t)
      BY <2>3 DEF PostTimer, TypeOK, HandInv
    <2>4. CASE TryAcquire(t)
      BY <2>4 DEF TryAcquire, TypeOK, HandInv
    <2>5. CASE RequeueRefused(t)
      BY <2>5 DEF RequeueRefused, TypeOK, HandInv
    <2>6. CASE RequeueAccepted(t)
      BY <2>6 DEF RequeueAccepted, TypeOK, HandInv
    <2>7. CASE RequeuePush(t)
      BY <2>7 DEF RequeuePush, TypeOK, HandInv
    <2>8. CASE Finish(t)
      BY <2>8 DEF Finish, TypeOK, HandInv
    <2>9. CASE HandleStop(t)
      BY <2>9 DEF HandleStop, TypeOK, HandInv
    <2>10. CASE QueueEmpty(t)
      BY <2>10 DEF QueueEmpty, TypeOK, HandInv
    <2>11. CASE Return(t)
      BY <2>11 DEF Return, TypeOK, HandInv
    <2>12. CASE Exit(t)
      BY <2>12 DEF Exit, TypeOK, HandInv
    <2>13. QED
      BY <1>5, <2>1, <2>2, <2>3, <2>4, <2>5, <2>6, <2>7, <2>8, <2>9, <2>10, <2>11, <2>12
         DEF ThreadStep
  <1>6. ASSUME NEW t \in Threads, NEW m \in Tasks, FireTimer(t, m)
        PROVE  HandInv'
    BY <1>6 DEF FireTimer, TypeOK, HandInv
  <1>7. QED
    BY <1>1, <1>2, <1>3, <1>4, <1>5, <1>6 DEF Next

LEMMA NumberStep ==
  ASSUME DispatchInv, Next
  PROVE  NumberInv'
  <1> USE ConstantsAssumption DEF ConstantsAssumption, DispatchInv, taskVars, tokenVars, threadVars,
          clientVars, stopVars, Serial
  <1>1. ASSUME NEW c \in Clients, NEW m \in Tasks, NEW t \in Threads, Post(c, m, t)
        PROVE  NumberInv'
    <2>1. /\ executing' = executing /\ tpc' = tpc /\ held' = held
          /\ status[m] = "new" /\ status' = [status EXCEPT ![m] = "posting"]
          /\ SetSerialToken(m)
      BY <1>1 DEF Post
    <2>2. \A u \in Threads : held[u] # m
      BY <2>1 DEF HandInv
    <2>3. CASE m \in Serial
      <3>1. /\ TokenOf[m] \in Tokens
            /\ seq' = [seq EXCEPT ![m] = current[TokenOf[m]]]
            /\ current' = [current EXCEPT ![TokenOf[m]] = @ + 1]
        BY <2>1, <2>3 DEF SetSerialToken
      <3>2. /\ \A n \in Tasks : seq'[n] = IF n = m THEN current[TokenOf[m]] ELSE seq[n]
            /\ \A n \in Tasks : status'[n] # "new" => n = m \/ status[n] # "new"
            /\ \A k \in Tokens : /\ current[k] \in Nat /\ current'[k] \in Nat
                                 /\ current[k] <= current'[k]
                                 /\ k = TokenOf[m] => current'[k] = current[k] + 1
        BY <2>1, <3>1 DEF TypeOK
      <3>3. \A k \in Tokens : executing'[k] <= current'[k]
        BY <2>1, <3>2 DEF TypeOK, NumberInv
      <3>4. \A n \in Serial : status'[n] # "new" => seq'[n] < current'[TokenOf[n]]
        BY <3>1, <3>2 DEF TypeOK, NumberInv
      <3>5. ASSUME NEW n \in Serial, NEW o \in Serial, status'[n] # "new", status'[o] # "new",
                   TokenOf[n] = TokenOf[o], seq'[n] = seq'[o]
            PROVE  n = o
        <4>1. \A x \in Serial : x # m /\ status'[x] # "new" /\ TokenOf[x] = TokenOf[m]
                                => seq'[x] # seq'[m]
          <5> SUFFICES ASSUME NEW x \in Serial, x # m, status'[x] # "new", TokenOf[x] = TokenOf[m]
                       PROVE  seq'[x] # seq'[m]
            OBVIOUS
          <5>1. seq'[x] = seq[x] /\ seq'[m] = current[TokenOf[m]] /\ status[x] # "new"
            BY <3>2
          <5>2. seq[x] < current[TokenOf[m]] /\ seq[x] \in Nat /\ current[TokenOf[m]] \in Nat
            BY <3>1, <3>2, <5>1 DEF TypeOK, NumberInv
          <5>3. QED
            BY <5>1, <5>2
        <4>2. CASE n # m /\ o # m
          BY <3>2, <3>5, <4>2 DEF NumberInv
        <4>3. QED
          BY <3>5, <4>1, <4>2
      <3>6. \A n \in Serial : status'[n] # "new" /\ seq'[n] < executing'[TokenOf[n]]
                             => status'[n] = "done"
        BY <2>1, <3>1, <3>2 DEF TypeOK, NumberInv
      <3>7. \A u \in Threads : tpc'[u] = "running" /\ held'[u] \in Serial =>
              seq'[held'[u]] = executing'[TokenOf[held'[u]]]
        BY <2>1, <2>2, <3>2 DEF NumberInv
      <3>8. QED
        BY <3>3, <3>4, <3>5, <3>6, <3>7 DEF NumberInv
    <2>4. CASE m \notin Serial
      <3>1. UNCHANGED <<seq, current>>
        BY <2>1, <2>4 DEF SetSerialToken
      <3>2. QED
        BY <2>1, <2>2, <2>4, <3>1 DEF TypeOK, NumberInv
    <2>5. QED
      BY <2>3, <2>4
  <1>2. ASSUME NEW c \in Clients, Enqueue(c)
        PROVE  NumberInv'
    <2>1. CASE EnqueueRefused(c)
      BY <2>1 DEF EnqueueRefused, TypeOK, HandInv, NumberInv
    <2>2. CASE EnqueueAccepted(c)
      BY <2>2 DEF EnqueueAccepted, TypeOK, HandInv, NumberInv
    <2>3. CASE EnqueuePush(c)
      BY <2>3 DEF EnqueuePush, TypeOK, HandInv, NumberInv
    <2>4. CASE EnqueueSend(c)
      BY <2>4 DEF EnqueueSend, TypeOK, HandInv, NumberInv
    <2>5. QED
      BY <1>2, <2>1, <2>2, <2>3, <2>4 DEF Enqueue
  <1>3. ASSUME NEW t \in Threads, NEW safe \in StopModes, Stop(t, safe)
        PROVE  NumberInv'
    BY <1>3 DEF Stop, TypeOK, HandInv, NumberInv
  <1>4. ASSUME NEW t \in Threads, StopStep(t)
        PROVE  NumberInv'
    <2>1. CASE StopCheck(t)
      BY <2>1 DEF StopCheck, TypeOK, HandInv, NumberInv
    <2>2. CASE StopPush(t)
      BY <2>2 DEF StopPush, TypeOK, HandInv, NumberInv
    <2>3. CASE StopSend(t)
      BY <2>3 DEF StopSend, TypeOK, HandInv, NumberInv
    <2>4. QED
      BY <1>4, <2>1, <2>2, <2>3 DEF StopStep
  <1>5. ASSUME NEW t \in Threads, ThreadStep(t)
        PROVE  NumberInv'
    <2>1. CASE Wake(t)
      BY <2>1 DEF Wake, TypeOK, HandInv, NumberInv
    <2>2. CASE Dequeue(t)
      <3>1. Head(queue[t]) \in Tasks => status[Head(queue[t])] = "queued"
        BY <2>2, TailIndex DEF Dequeue, TypeOK, QueueInv
      <3>2. QED
        BY <2>2, <3>1 DEF Dequeue, TypeOK, HandInv, NumberInv
    <2>3. CASE PostTimer(t)
      BY <2>3 DEF PostTimer, TypeOK, HandInv, NumberInv
    <2>4. CASE TryAcquire(t)
      BY <2>4 DEF TryAcquire, CanRun, TypeOK, HandInv, NumberInv
    <2>5. CASE RequeueRefused(t)
      BY <2>5 DEF RequeueRefused, TypeOK, HandInv, NumberInv
    <2>6. CASE RequeueAccepted(t)
      BY <2>6 DEF RequeueAccepted, TypeOK, HandInv, NumberInv
    <2>7. CASE RequeuePush(t)
      BY <2>7 DEF RequeuePush, TypeOK, HandInv, NumberInv
    <2>8. CASE Finish(t)
      BY <2>8 DEF Finish, TypeOK, HandInv, NumberInv
    <2>9. CASE HandleStop(t)
      BY <2>9 DEF HandleStop, TypeOK, HandInv, NumberInv
    <2>10. CASE QueueEmpty(t)
      BY <2>10 DEF QueueEmpty, TypeOK, HandInv, NumberInv
    <2>11. CASE Return(t)
      BY <2>11 DEF Return, TypeOK, HandInv, NumberInv
    <2>12. CASE Exit(t)
      BY <2>12 DEF Exit, TypeOK, HandInv, NumberInv
    <2>13. QED
      BY <1>5, <2>1, <2>2, <2>3, <2>4, <2>5, <2>6, <2>7, <2>8, <2>9, <2>10, <2>11, <2>12
         DEF ThreadStep
  <1>6. ASSUME NEW t \in Threads, NEW m \in Tasks, FireTimer(t, m)
        PROVE  NumberInv'
    BY <1>6 DEF FireTimer, TypeOK, HandInv, NumberInv
  <1>7. QED
    BY <1>1, <1>2, <1>3, <1>4, <1>5, <1>6 DEF Next

LEMMA WakeupStep ==
  ASSUME DispatchInv, Next
  PROVE  WakeupInv'
  <1> USE ConstantsAssumption DEF ConstantsAssumption, DispatchInv, taskVars, tokenVars, threadVars,
          clientVars, stopVars
  <1>1. ASSUME NEW c \in Clients, NEW m \in Tasks, NEW t \in Threads, Post(c, m, t)
        PROVE  WakeupInv'
    <2>1. /\ status[m] = "new" /\ status' = [status EXCEPT ![m] = "posting"]
          /\ home' = [home EXCEPT ![m] = t] /\ cpc[c] = "idle"
          /\ cpc' = [cpc EXCEPT ![c] = "posting"] /\ hand' = [hand EXCEPT ![c] = m]
          /\ UNCHANGED <<tpc, queue, signalled, loopDone, spc>>
      BY <1>1 DEF Post
    <2>2. \A d \in Clients : cpc'[d] = "pushed" => cpc[d] = "pushed" /\ hand'[d] = hand[d]
      BY <2>1 DEF TypeOK
    <2>3. \A d \in Clients : cpc[d] = "pushed" =>
            /\ cpc'[d] = "pushed" /\ hand'[d] = hand[d] /\ hand[d] \in Tasks /\ hand[d] # m
      BY <2>1 DEF TypeOK, HandInv, WakeupInv
    <2>4. \A d \in Clients : cpc[d] = "pushed" =>
            status'[hand[d]] = status[hand[d]] /\ home'[hand[d]] = home[hand[d]]
      BY <2>1, <2>3 DEF TypeOK
    <2>5. \A d \in Clients : cpc'[d] = "pushed" => status'[hand'[d]] # "new"
      BY <2>2, <2>4 DEF WakeupInv
    <2>6. QED
      BY <2>1, <2>3, <2>4, <2>5 DEF WakeupInv
  <1>2. ASSUME NEW c \in Clients, Enqueue(c)
        PROVE  WakeupInv'
    <2>1. CASE EnqueueRefused(c)
      <3>1. /\ cpc[c] = "posting" /\ cpc' = [cpc EXCEPT ![c] = "idle"]
            /\ hand' = [hand EXCEPT ![c] = NoMsg] /\ status' = [status EXCEPT ![hand[c]] = "dropped"]
            /\ UNCHANGED <<home, tpc, queue, signalled, loopDone, spc>>
        BY <2>1 DEF EnqueueRefused
      <3>2. \A d \in Clients : (cpc'[d] = "pushed" <=> cpc[d] = "pushed")
                              /\ (cpc[d] = "pushed" => hand'[d] = hand[d])
        BY <3>1 DEF TypeOK
      <3>3. \A n \in Tasks : status'[n] = "new" => status[n] = "new"
        BY <3>1 DEF TypeOK
      <3>4. QED
        BY <3>1, <3>2, <3>3 DEF HandInv, WakeupInv
    <2>2. CASE EnqueueAccepted(c)
      BY <2>2 DEF EnqueueAccepted, TypeOK, HandInv, WakeupInv
    <2>3. CASE EnqueuePush(c)
      BY <2>3 DEF EnqueuePush, TypeOK, HandInv, WakeupInv
    <2>4. CASE EnqueueSend(c)
      <3>1. /\ cpc[c] = "pushed" /\ cpc' = [cpc EXCEPT ![c] = "idle"]
            /\ hand' = [hand EXCEPT ![c] = NoMsg]
            /\ signalled' = [signalled EXCEPT ![home[hand[c]]] = TRUE]
            /\ UNCHANGED <<status, home, tpc, queue, loopDone, spc>>
        BY <2>4 DEF EnqueueSend
      <3>2. \A d \in Clients \ {c} : cpc'[d] = cpc[d] /\ hand'[d] = hand[d]
        BY <3>1 DEF TypeOK
      <3>3. cpc'[c] # "pushed"
        BY <3>1 DEF TypeOK
      <3>4. \A u \in Threads : signalled[u] \/ u = home[hand[c]] => signalled'[u]
        BY <3>1 DEF TypeOK
      <3>5. QED
        BY <3>1, <3>2, <3>3, <3>4 DEF WakeupInv
    <2>5. QED
      BY <1>2, <2>1, <2>2, <2>3, <2>4 DEF Enqueue
  <1>3. ASSUME NEW t \in Threads, NEW safe \in StopModes, Stop(t, safe)
        PROVE  WakeupInv'
    BY <1>3 DEF Stop, TypeOK, WakeupInv
  <1>4. ASSUME NEW t \in Threads, StopStep(t)
        PROVE  WakeupInv'
    <2>1. CASE StopCheck(t)
      BY <2>1 DEF StopCheck, TypeOK, WakeupInv
    <2>2. CASE StopPush(t)
      BY <2>2 DEF StopPush, TypeOK, WakeupInv
    <2>3. CASE StopSend(t)
      BY <2>3 DEF StopSend, TypeOK, WakeupInv
    <2>4. QED
      BY <1>4, <2>1, <2>2, <2>3 DEF StopStep
  <1>5. ASSUME NEW t \in Threads, ThreadStep(t)
        PROVE  WakeupInv'
    <2>1. CASE Wake(t)
      BY <2>1 DEF Wake, TypeOK, WakeupInv
    <2>2. CASE Dequeue(t)
      BY <2>2 DEF Dequeue, TypeOK, HandInv, WakeupInv
    <2>3. CASE PostTimer(t)
      BY <2>3 DEF PostTimer, TypeOK, WakeupInv
    <2>4. CASE TryAcquire(t)
      BY <2>4 DEF TryAcquire, TypeOK, WakeupInv
    <2>5. CASE RequeueRefused(t)
      BY <2>5 DEF RequeueRefused, TypeOK, WakeupInv
    <2>6. CASE RequeueAccepted(t)
      BY <2>6 DEF RequeueAccepted, TypeOK, WakeupInv
    <2>7. CASE RequeuePush(t)
      BY <2>7 DEF RequeuePush, TypeOK, WakeupInv
    <2>8. CASE Finish(t)
      BY <2>8 DEF Finish, TypeOK, WakeupInv
    <2>9. CASE HandleStop(t)
      BY <2>9 DEF HandleStop, TypeOK, WakeupInv
    <2>10. CASE QueueEmpty(t)
      BY <2>10 DEF QueueEmpty, TypeOK, WakeupInv
    <2>11. CASE Return(t)
      BY <2>11 DEF Return, TypeOK, WakeupInv
    <2>12. CASE Exit(t)
      BY <2>12 DEF Exit, TypeOK, WakeupInv
    <2>13. QED
      BY <1>5, <2>1, <2>2, <2>3, <2>4, <2>5, <2>6, <2>7, <2>8, <2>9, <2>10, <2>11, <2>12
         DEF ThreadStep
  <1>6. ASSUME NEW t \in Threads, NEW m \in Tasks, FireTimer(t, m)
        PROVE  WakeupInv'
    BY <1>6 DEF FireTimer, TypeOK, WakeupInv
  <1>7. QED
    BY <1>1, <1>2, <1>3, <1>4, <1>5, <1>6 DEF Next

LEMMA StopInvStep ==
  ASSUME DispatchInv, Next
  PROVE  StopInv'
  <1> USE ConstantsAssumption DEF ConstantsAssumption, DispatchInv, taskVars, tokenVars, threadVars,
          clientVars, stopVars
  <1>1. ASSUME NEW c \in Clients, NEW m \in Tasks, NEW t \in Threads, Post(c, m, t)
        PROVE  StopInv'
    BY <1>1 DEF Post, TypeOK, HandInv, StopInv
  <1>2. ASSUME NEW c \in Clients, Enqueue(c)
        PROVE  StopInv'
    <2>1. CASE EnqueueRefused(c)
      BY <2>1 DEF EnqueueRefused, TypeOK, HandInv, StopInv
    <2>2. CASE EnqueueAccepted(c)
      BY <2>2 DEF EnqueueAccepted, TypeOK, HandInv, StopInv
    <2>3. CASE EnqueuePush(c)
      BY <2>3 DEF EnqueuePush, TypeOK, HandInv, StopInv
    <2>4. CASE EnqueueSend(c)
      BY <2>4 DEF EnqueueSend, TypeOK, HandInv, StopInv
    <2>5. QED
      BY <1>2, <2>1, <2>2, <2>3, <2>4 DEF Enqueue
  <1>3. ASSUME NEW t \in Threads, NEW safe \in StopModes, Stop(t, safe)
        PROVE  StopInv'
    BY <1>3 DEF Stop, TypeOK, StopInv
  <1>4. ASSUME NEW t \in Threads, StopStep(t)
        PROVE  StopInv'
    <2>1. CASE StopCheck(t)
      BY <2>1 DEF StopCheck, TypeOK, StopInv
    <2>2. CASE StopPush(t)
      BY <2>2 DEF StopPush, TypeOK, StopInv
    <2>3. CASE StopSend(t)
      BY <2>3 DEF StopSend, TypeOK, StopInv
    <2>4. QED
      BY <1>4, <2>1, <2>2, <2>3 DEF StopStep
  <1>5. ASSUME NEW t \in Threads, ThreadStep(t)
        PROVE  StopInv'
    <2>1. CASE Wake(t)
      BY <2>1 DEF Wake, TypeOK, StopInv
    <2>2. CASE Dequeue(t)
      BY <2>2 DEF Dequeue, TypeOK, HandInv, StopInv
    <2>3. CASE PostTimer(t)
      BY <2>3 DEF PostTimer, TypeOK, StopInv
    <2>4. CASE TryAcquire(t)
      BY <2>4 DEF TryAcquire, TypeOK, StopInv
    <2>5. CASE RequeueRefused(t)
      BY <2>5 DEF RequeueRefused, TypeOK, StopInv
    <2>6. CASE RequeueAccepted(t)
      BY <2>6 DEF RequeueAccepted, TypeOK, StopInv
    <2>7. CASE RequeuePush(t)
      BY <2>7 DEF RequeuePush, TypeOK, StopInv
    <2>8. CASE Finish(t)
      BY <2>8 DEF Finish, TypeOK, StopInv
    <2>9. CASE HandleStop(t)
      BY <2>9 DEF HandleStop, TypeOK, StopInv
    <2>10. CASE QueueEmpty(t)
      BY <2>10 DEF QueueEmpty, TypeOK, StopInv
    <2>11. CASE Return(t)
      BY <2>11 DEF Return, TypeOK, StopInv
    <2>12. CASE Exit(t)
      BY <2>12 DEF Exit, TypeOK, StopInv
    <2>13. QED
      BY <1>5, <2>1, <2>2, <2>3, <2>4, <2>5, <2>6, <2>7, <2>8, <2>9, <2>10, <2>11, <2>12
         DEF ThreadStep
  <1>6. ASSUME NEW t \in Threads, NEW m \in Tasks, FireTimer(t, m)
        PROVE  StopInv'
    BY <1>6 DEF FireTimer, TypeOK, StopInv
  <1>7. QED
    BY <1>1, <1>2, <1>3, <1>4, <1>5, <1>6 DEF Next

\* A plain task that its thread has taken on stays there until it has run.
LEMMA PlainStays ==
  ASSUME DispatchInv, Next, NEW m \in Plain, status[m] \in {"queued", "held", "done"}
  PROVE  /\ home'[m] = home[m]
         /\ status'[m] \in {"queued", "held", "done"}
         /\ status[m] = "done" => status'[m] = "done"
  <1> USE ConstantsAssumption DEF ConstantsAssumption, taskVars, tokenVars
  <1>1. /\ m \in Tasks /\ m \notin Serial /\ m \notin Delayed
        /\ status \in [Tasks -> {"new", "posting", "queued", "held", "delayed", "done", "dropped"}]
        /\ home \in [Tasks -> Threads]
    BY DEF Plain, DispatchInv, TypeOK
  <1>2. ASSUME NEW c \in Clients, NEW n \in Tasks, NEW t \in Threads, Post(c, n, t)
        PROVE  home'[m] = home[m] /\ status'[m] = status[m]
    BY <1>1, <1>2 DEF Post
  <1>3. ASSUME NEW c \in Clients, Enqueue(c)
        PROVE  home'[m] = home[m] /\ status'[m] = status[m]
    <2>1. cpc[c] \in {"posting", "accepted"} => status[hand[c]] = "posting"
      BY DEF DispatchInv, HandInv
    <2>2. QED
      BY <1>1, <1>3, <2>1 DEF Enqueue, EnqueueRefused, EnqueueAccepted, EnqueuePush, EnqueueSend
  <1>4. ASSUME NEW t \in Threads, (\E safe \in StopModes : Stop(t, safe)) \/ StopStep(t)
        PROVE  home'[m] = home[m] /\ status'[m] = status[m]
    BY <1>4 DEF Stop, StopStep, StopCheck, StopPush, StopSend
  <1>5. ASSUME NEW t \in Threads, ThreadStep(t)
        PROVE  /\ home'[m] = home[m]
               /\ status'[m] \in {"queued", "held", "done"}
               /\ status[m] = "done" => status'[m] = "done"
    <2>1. CASE Dequeue(t)
      <3>1. Head(queue[t]) \in Tasks => status[Head(queue[t])] = "queued"
        BY <2>1, TailIndex DEF Dequeue, DispatchInv, TypeOK, QueueInv
      <3>2. QED
        BY <1>1, <2>1, <3>1 DEF Dequeue
    <2>2. CASE PostTimer(t) \/ RequeueRefused(t) \/ RequeuePush(t)
      <3>1. held[t] \in Delayed \/ held[t] \in Serial
        BY <2>2 DEF PostTimer, RequeueRefused, RequeuePush, DispatchInv, BacklogInv
      <3>2. QED
        BY <1>1, <2>2, <3>1 DEF PostTimer, RequeueRefused, RequeuePush
    <2>3. CASE Finish(t)
      BY <1>1, <2>3 DEF Finish
    <2>4. CASE Wake(t) \/ TryAcquire(t) \/ RequeueAccepted(t) \/ HandleStop(t) \/ QueueEmpty(t)
               \/ Return(t) \/ Exit(t)
      BY <2>4 DEF Wake, TryAcquire, RequeueAccepted, HandleStop, QueueEmpty, Return, Exit
    <2>5. QED
      BY <1>5, <2>1, <2>2, <2>3, <2>4 DEF ThreadStep
  <1>6. ASSUME NEW t \in Threads, NEW n \in Tasks, FireTimer(t, n)
        PROVE  home'[m] = home[m] /\ status'[m] = status[m]
    BY <1>1, <1>6 DEF FireTimer, DispatchInv, HandInv
  <1>7. QED
    BY <1>2, <1>3, <1>4, <1>5, <1>6 DEF Next

\* What is left to show of a step that is not a first stop().
LEMMA BacklogFrame ==
  ASSUME DispatchInv, Next, backlog' = backlog,
         \A t \in Threads : tpc'[t] \in {"requeue", "requeueing"} => held'[t] \in Serial,
         \A t \in Threads :
           /\ loopDone'[t] /\ tpc'[t] \in {"returning", "waiting", "firing", "exited"}
           => \/ loopDone[t] /\ tpc[t] \in {"returning", "waiting", "firing", "exited"}
              \/ queue[t] = <<>> /\ held[t] = NoMsg
  PROVE  BacklogInv'
  <1> USE ConstantsAssumption DEF ConstantsAssumption
  <1>1. ASSUME NEW t \in Threads, NEW m \in backlog[t] \cap Plain
        PROVE  home'[m] = t /\ status'[m] \in {"queued", "held", "done"}
    BY PlainStays DEF DispatchInv, BacklogInv
  <1>2. ASSUME NEW t \in Threads, NEW m \in backlog[t] \cap Plain,
               loopDone'[t] /\ tpc'[t] \in {"returning", "waiting", "firing", "exited"}
        PROVE  status'[m] = "done"
    <2>1. m \in Tasks /\ home[m] = t /\ status[m] \in {"queued", "held", "done"}
      BY DEF DispatchInv, BacklogInv, Plain
    <2>2. status[m] = "done"
      <3>1. CASE loopDone[t] /\ tpc[t] \in {"returning", "waiting", "firing", "exited"}
        BY <3>1 DEF DispatchInv, BacklogInv
      <3>2. CASE queue[t] = <<>> /\ held[t] = NoMsg
        <4>1. DOMAIN queue[t] = {}
          BY <3>2
        <4>2. status[m] # "queued"
          BY <2>1, <4>1 DEF DispatchInv, QueueInv
        <4>3. status[m] # "held"
          BY <2>1, <3>2 DEF DispatchInv, HandInv
        <4>4. QED
          BY <2>1, <4>2, <4>3
      <3>3. QED
        BY <1>2, <3>1, <3>2
    <2>3. QED
      BY <2>1, <2>2, PlainStays
  <1>3. QED
    BY <1>1, <1>2 DEF BacklogInv

LEMMA BacklogStep ==
  ASSUME DispatchInv, Next
  PROVE  BacklogInv'
  <1> USE ConstantsAssumption DEF ConstantsAssumption, taskVars, tokenVars, threadVars, stopVars
  <1> DEFINE Over == {"returning", "waiting", "firing", "exited"}
  <1>1. /\ tpc \in [Threads -> {"waiting", "draining", "dispatch", "requeue", "requeueing",
                                "running", "firing", "returning", "exited"}]
        /\ loopDone \in [Threads -> BOOLEAN]
        /\ \A t \in Threads : tpc[t] \in {"requeue", "requeueing"} => held[t] \in Serial
        /\ \A t \in Threads : tpc[t] \in {"draining", "returning"} => held[t] = NoMsg
    BY DEF DispatchInv, TypeOK, BacklogInv, HandInv
  <1>2. held \in [Threads -> Tasks \cup {StopMsg, NoMsg}]
    BY DEF DispatchInv, TypeOK
  <1>3. ASSUME UNCHANGED <<backlog, tpc, loopDone, held>>
        PROVE  BacklogInv'
    BY <1>1, <1>3, BacklogFrame
  <1>4. ASSUME NEW t \in Threads, NEW safe \in StopModes, Stop(t, safe)
        PROVE  BacklogInv'
    <2>1. CASE stopping[t]
      BY <1>3, <1>4, <2>1 DEF Stop
    <2>2. CASE ~stopping[t]
      <3>1. /\ UNCHANGED <<status, home, tpc, held, loopDone>> /\ ~loopDone[t]
            /\ backlog' = [backlog EXCEPT ![t] =
                 {m \in Tasks : home[m] = t /\ status[m] \in {"queued", "held"}}]
        BY <1>4, <2>2 DEF Stop, DispatchInv, StopInv
      <3>2. \A u \in Threads : u # t => backlog'[u] = backlog[u]
        BY <3>1 DEF DispatchInv, TypeOK
      <3>3. backlog'[t] = {m \in Tasks : home[m] = t /\ status[m] \in {"queued", "held"}}
        BY <3>1 DEF DispatchInv, TypeOK
      <3>4. QED
        BY <3>1, <3>2, <3>3 DEF DispatchInv, BacklogInv
    <2>3. QED
      BY <2>1, <2>2
  <1>5. ASSUME NEW t \in Threads, ThreadStep(t)
        PROVE  BacklogInv'
    <2>1. CASE TryAcquire(t)
      <3>1. /\ UNCHANGED <<backlog, held, loopDone>>
            /\ tpc' = [tpc EXCEPT ![t] = IF CanRun(held[t]) THEN "running" ELSE "requeue"]
            /\ ~CanRun(held[t]) => held[t] \in Serial
        BY <2>1 DEF TryAcquire, CanRun
      <3>2. \A u \in Threads : tpc'[u] \in Over => tpc[u] \in Over
        BY <1>1, <3>1
      <3>3. \A u \in Threads : tpc'[u] \in {"requeue", "requeueing"} => held'[u] \in Serial
        BY <1>1, <3>1
      <3>4. QED
        BY <3>1, <3>2, <3>3, BacklogFrame
    <2>2. CASE Wake(t) \/ RequeueAccepted(t) \/ QueueEmpty(t) \/ Exit(t)
      <3>1. UNCHANGED <<backlog, loopDone, held>>
        BY <2>2 DEF Wake, RequeueAccepted, QueueEmpty, Exit
      <3>2. \A u \in Threads : tpc'[u] \in {"requeue", "requeueing"} =>
              tpc[u] \in {"requeue", "requeueing"}
        BY <1>1, <2>2 DEF Wake, RequeueAccepted, QueueEmpty, Exit
      <3>3. \A u \in Threads : tpc'[u] \in Over =>
              tpc[u] \in Over \/ (queue[u] = <<>> /\ held[u] = NoMsg)
        BY <1>1, <2>2 DEF Wake, RequeueAccepted, QueueEmpty, Exit
      <3>4. QED
        BY <1>1, <3>1, <3>2, <3>3, BacklogFrame
    <2>3. CASE Dequeue(t) \/ PostTimer(t) \/ RequeueRefused(t) \/ RequeuePush(t)
      <3>1. UNCHANGED <<backlog, loopDone>>
        BY <2>3 DEF Dequeue, PostTimer, RequeueRefused, RequeuePush
      <3>2. /\ tpc'[t] \in {"draining", "dispatch"}
            /\ \A u \in Threads : u # t => tpc'[u] = tpc[u] /\ held'[u] = held[u]
        BY <1>1, <1>2, <2>3 DEF Dequeue, PostTimer, RequeueRefused, RequeuePush
      <3>3. QED
        BY <1>1, <3>1, <3>2, BacklogFrame
    <2>4. CASE Finish(t)
      <3>1. UNCHANGED <<backlog, loopDone>>
        BY <2>4 DEF Finish
      <3>2. /\ tpc'[t] = "draining" \/ (tpc[t] = "firing" /\ tpc'[t] = "waiting")
            /\ \A u \in Threads : u # t => tpc'[u] = tpc[u] /\ held'[u] = held[u]
        BY <1>1, <1>2, <2>4 DEF Finish
      <3>3. QED
        BY <1>1, <3>1, <3>2, BacklogFrame
    <2>5. CASE HandleStop(t)
      <3>1. /\ backlog' = backlog /\ tpc'[t] = "draining"
            /\ \A u \in Threads : u # t =>
                 tpc'[u] = tpc[u] /\ held'[u] = held[u] /\ loopDone'[u] = loopDone[u]
        BY <1>1, <1>2, <2>5 DEF HandleStop
      <3>2. QED
        BY <1>1, <3>1, BacklogFrame
    <2>6. CASE Return(t)
      <3>1. /\ backlog' = backlog /\ held' = held /\ tpc[t] = "returning" /\ tpc'[t] = "waiting"
            /\ loopDone'[t] => loopDone[t] \/ queue[t] = <<>>
            /\ \A u \in Threads : u # t => tpc'[u] = tpc[u] /\ loopDone'[u] = loopDone[u]
        BY <1>1, <2>6 DEF Return
      <3>2. QED
        BY <1>1, <3>1, BacklogFrame
    <2>7. QED
      BY <1>5, <2>1, <2>2, <2>3, <2>4, <2>5, <2>6 DEF ThreadStep
  <1>6. ASSUME NEW t \in Threads, NEW m \in Tasks, FireTimer(t, m)
        PROVE  BacklogInv'
    <2>1. /\ UNCHANGED <<backlog, loopDone>> /\ tpc[t] = "waiting" /\ tpc'[t] = "firing"
          /\ \A u \in Threads : u # t => tpc'[u] = tpc[u] /\ held'[u] = held[u]
      BY <1>1, <1>2, <1>6 DEF FireTimer
    <2>2. QED
      BY <1>1, <2>1, BacklogFrame
  <1>7. ASSUME NEW c \in Clients, (\E m \in Tasks, t \in Threads : Post(c, m, t)) \/ Enqueue(c)
        PROVE  BacklogInv'
    BY <1>3, <1>7 DEF Post, Enqueue, EnqueueRefused, EnqueueAccepted, EnqueuePush, EnqueueSend
  <1>8. ASSUME NEW t \in Threads, StopStep(t)
        PROVE  BacklogInv'
    BY <1>3, <1>8 DEF StopStep, StopCheck, StopPush, StopSend
  <1>9. QED
    BY <1>4, <1>5, <1>6, <1>7, <1>8 DEF Next

-----------------------------------------------------------------------------

\* The dispatch invariant: queues, hands and sequence numbers of the dispatch
\* are in order in every reachable state, however clients, threads and the
\* callers of stop() interleave.
THEOREM DispatchInvariant == Spec => []DispatchInv
  <1>1. DispatchInv /\ [Next]_vars => DispatchInv'
    <2> SUFFICES ASSUME DispatchInv, [Next]_vars
                 PROVE  DispatchInv'
      OBVIOUS
    <2>1. CASE Next
      BY <2>1, TypeStep, QueueStep, HandStep, NumberStep, WakeupStep, StopInvStep, BacklogStep
         DEF DispatchInv
    <2>2. CASE UNCHANGED vars
      BY <2>2 DEF vars, taskVars, tokenVars, threadVars, clientVars, stopVars,
         DispatchInv, TypeOK, QueueInv, HandInv, NumberInv, WakeupInv, StopInv, BacklogInv
    <2>3. QED
      BY <2>1, <2>2
  <1>2. QED
    BY InitDispatchInv, <1>1, PTL DEF Spec

\* Type correctness of the dispatch.
THEOREM TypeCorrect == Spec => []TypeOK
  <1>1. DispatchInv => TypeOK
    BY DEF DispatchInv
  <1>2. QED
    BY <1>1, DispatchInvariant, PTL

\* serial_token gives mutual exclusion: no two threads execute tasks of one
\* token at the same time, although try_acquire only compares numbers.
THEOREM MutualExclusion == Spec => []TokenMutex
  <1>1. DispatchInv => TokenMutex
    <2> SUFFICES ASSUME DispatchInv,
                        NEW t \in Threads, NEW u \in Threads,
                        Executing(t), Executing(u), t # u,
                        held[t] \in Serial, held[u] \in Serial,
                        TokenOf[held[t]] = TokenOf[held[u]]
                 PROVE  FALSE
      BY DEF TokenMutex
    <2>1. tpc[t] = "running" /\ tpc[u] = "running"
      BY ConstantsAssumption DEF ConstantsAssumption, DispatchInv, HandInv, Executing
    <2>2. seq[held[t]] = seq[held[u]]
      BY <2>1 DEF DispatchInv, NumberInv
    <2>3. /\ status[held[t]] = "held" /\ home[held[t]] = t
          /\ status[held[u]] = "held" /\ home[held[u]] = u
      BY DEF DispatchInv, HandInv, Serial
    <2>4. held[t] = held[u]
      BY <2>2, <2>3 DEF DispatchInv, NumberInv
    <2>5. QED
      BY <2>3, <2>4
  <1>2. QED
    BY <1>1, DispatchInvariant, PTL

\* The tasks of a token are executed in the order of their numbers: when one
\* executes, every task with an earlier number has finished.
THEOREM ExecutionOrder == Spec => []SerialOrder
  <1>1. DispatchInv => SerialOrder
    <2> SUFFICES ASSUME DispatchInv, NEW t \in Threads, Executing(t), held[t] \in Serial,
                        NEW m \in Serial, TokenOf[m] = TokenOf[held[t]],
                        status[m] # "new", seq[m] < seq[held[t]]
                 PROVE  status[m] = "done"
      BY DEF SerialOrder
    <2>1. tpc[t] = "running"
      BY ConstantsAssumption DEF ConstantsAssumption, DispatchInv, HandInv, Executing
    <2>2. seq[m] < executing[TokenOf[m]]
      BY <2>1 DEF DispatchInv, NumberInv
    <2>3. QED
      BY <2>2 DEF DispatchInv, NumberInv
  <1>2. QED
    BY <1>1, DispatchInvariant, PTL

\* No message is lost or duplicated on its way through queues and hands.
THEOREM Conservation == Spec => []OnePlace
  <1>1. DispatchInv => OnePlace
    BY DEF DispatchInv, TypeOK, QueueInv, HandInv, OnePlace
  <1>2. QED
    BY <1>1, DispatchInvariant, PTL

\* A waiting thread with messages in its queue has a wake-up pending, or one is
\* about to be sent, or its loop was stopped: enqueue() pushes first and sends
\* afterwards, and process_queue looks at the queue after it took the wake-up.
THEOREM WakeupKept == Spec => []NoLostWakeup
  <1>1. DispatchInv => NoLostWakeup
    BY DEF DispatchInv, WakeupInv, NoLostWakeup
  <1>2. QED
    BY <1>1, DispatchInvariant, PTL

\* A stopped thread leaves its loop only after it has run every plain task that
\* it had taken on when stop() was first called.
THEOREM BacklogKept == Spec => []PlainBacklogRuns
  <1>1. DispatchInv => PlainBacklogRuns
    <2> SUFFICES ASSUME DispatchInv, NEW t \in Threads, tpc[t] = "exited",
                        NEW m \in backlog[t] \cap Plain
                 PROVE  status[m] = "done"
      BY DEF PlainBacklogRuns
    <2>1. loopDone[t]
      BY DEF DispatchInv, StopInv
    <2>2. QED
      BY <2>1 DEF DispatchInv, BacklogInv
  <1>2. QED
    BY <1>1, DispatchInvariant, PTL


-----------------------------------------------------------------------------
(* SerialDispatch implements SerialExecutor *)

\* Every number that a token gave out belongs to a task.
NumbersUsed ==
  \A k \in Tokens : \A n \in 0..(current[k] - 1) :
    \E m \in Serial : TokenOf[m] = k /\ status[m] # "new" /\ seq[m] = n

\* What a step does to the numbers of the tasks that have one.
LEMMA NumbersStay ==
  ASSUME DispatchInv, Next
  PROVE  \A m \in Tasks : status[m] # "new" =>
           status'[m] # "new" /\ seq'[m] = seq[m]
  <1> USE ConstantsAssumption DEF ConstantsAssumption, DispatchInv, TypeOK, taskVars, tokenVars
  <1>1. ASSUME NEW c \in Clients, NEW m \in Tasks, NEW t \in Threads, Post(c, m, t)
        PROVE  \A n \in Tasks : status[n] # "new" => status'[n] # "new" /\ seq'[n] = seq[n]
    BY <1>1 DEF Post, SetSerialToken
  <1>2. ASSUME NEW c \in Clients, Enqueue(c)
        PROVE  seq' = seq /\ \A n \in Tasks : status[n] # "new" => status'[n] # "new"
    BY <1>2 DEF Enqueue, EnqueueRefused, EnqueueAccepted, EnqueuePush, EnqueueSend
  <1>3. ASSUME NEW t \in Threads, (\E safe \in StopModes : Stop(t, safe)) \/ StopStep(t)
        PROVE  seq' = seq /\ status' = status
    BY <1>3 DEF Stop, StopStep, StopCheck, StopPush, StopSend
  <1>4. ASSUME NEW t \in Threads, ThreadStep(t)
        PROVE  seq' = seq /\ \A n \in Tasks : status[n] # "new" => status'[n] # "new"
    BY <1>4 DEF ThreadStep, Wake, Dequeue, PostTimer, TryAcquire, RequeueRefused, RequeueAccepted,
       RequeuePush, Finish, HandleStop, QueueEmpty, Return, Exit
  <1>5. ASSUME NEW t \in Threads, NEW m \in Tasks, FireTimer(t, m)
        PROVE  seq' = seq /\ \A n \in Tasks : status[n] # "new" => status'[n] # "new"
    BY <1>5 DEF FireTimer
  <1>6. QED
    BY <1>1, <1>2, <1>3, <1>4, <1>5 DEF Next


\* A number is given out only to a task, and all are given out in turn.
LEMMA NumbersUsedStep ==
  ASSUME DispatchInv, NumbersUsed, Next
  PROVE  NumbersUsed'
  <1> SUFFICES ASSUME NEW k \in Tokens, NEW n \in 0..(current'[k] - 1)
               PROVE  \E m \in Serial : TokenOf[m] = k /\ status'[m] # "new" /\ seq'[m] = n
    BY DEF NumbersUsed
  <1>1. CASE n \in 0..(current[k] - 1)
    <2>1. PICK m \in Serial : TokenOf[m] = k /\ status[m] # "new" /\ seq[m] = n
      BY <1>1 DEF NumbersUsed
    <2>2. status'[m] # "new" /\ seq'[m] = n
      BY <2>1, NumbersStay DEF Serial
    <2>3. QED
      BY <2>1, <2>2
  <1>2. CASE n \notin 0..(current[k] - 1)
    <2>1. current' # current
      BY <1>2
    <2>2. PICK c \in Clients, m \in Tasks, t \in Threads : Post(c, m, t)
      BY <2>1 DEF Next, Enqueue, EnqueueRefused, EnqueueAccepted, EnqueuePush, EnqueueSend,
         Stop, StopStep, StopCheck, StopPush, StopSend, ThreadStep, Wake, Dequeue, PostTimer,
         TryAcquire, RequeueRefused, RequeueAccepted, RequeuePush, Finish, HandleStop,
         QueueEmpty, Return, Exit, FireTimer, tokenVars
    <2>3. SetSerialToken(m) /\ status' = [status EXCEPT ![m] = "posting"]
      BY <2>2 DEF Post
    <2>4. /\ m \in Serial
          /\ seq' = [seq EXCEPT ![m] = current[TokenOf[m]]]
          /\ current' = [current EXCEPT ![TokenOf[m]] = @ + 1]
      BY <2>1, <2>3 DEF SetSerialToken
    <2>5. TokenOf[m] = k /\ n = current[k]
      BY <1>2, <2>4 DEF Serial, DispatchInv, TypeOK
    <2>6. status'[m] # "new" /\ seq'[m] = n
      BY <2>3, <2>4, <2>5 DEF DispatchInv, TypeOK, Serial
    <2>7. QED
      BY <2>4, <2>5, <2>6
  <1>3. QED
    BY <1>1, <1>2

\* The task that has a number is the only one that has it.
LEMMA TaskAtNumber ==
  ASSUME DispatchInv, NEW m \in Serial, NEW n, status[m] # "new", seq[m] = n
  PROVE  TaskAt(TokenOf[m], n) = m
  <1> DEFINE P(x) == x \in Tasks /\ TokenOf[x] = TokenOf[m] /\ status[x] # "new" /\ seq[x] = n
  <1>1. P(m)
    BY DEF Serial
  <1>2. \A x : P(x) => x = m
    BY DEF DispatchInv, NumberInv, Serial
  <1>3. TaskAt(TokenOf[m], n) = CHOOSE x : P(x)
    BY DEF TaskAt
  <1> HIDE DEF P
  <1>4. QED
    BY <1>1, <1>2, <1>3

\* The same in the state that a step leads to.
LEMMA TaskAtNumberNext ==
  ASSUME DispatchInv', NEW m \in Serial, NEW n, status'[m] # "new", seq'[m] = n
  PROVE  TaskAt(TokenOf[m], n)' = m
  <1> DEFINE P(x) == x \in Tasks /\ TokenOf[x] = TokenOf[m] /\ status'[x] # "new" /\ seq'[x] = n
  <1>1. P(m)
    BY DEF Serial
  <1>2. \A x : P(x) => x = m
    BY DEF DispatchInv, NumberInv, Serial
  <1>3. TaskAt(TokenOf[m], n)' = CHOOSE x : P(x)
    BY DEF TaskAt
  <1> HIDE DEF P
  <1>4. QED
    BY <1>1, <1>2, <1>3

\* A line only grows: who has a number keeps it.
LEMMA TaskAtStays ==
  ASSUME DispatchInv, DispatchInv', NumbersUsed, Next,
         NEW k \in Tokens, NEW n \in 0..(current[k] - 1)
  PROVE  TaskAt(k, n)' = TaskAt(k, n)
  <1>1. PICK m \in Serial : TokenOf[m] = k /\ status[m] # "new" /\ seq[m] = n
    BY DEF NumbersUsed
  <1>2. status'[m] # "new" /\ seq'[m] = n
    BY <1>1, NumbersStay DEF Serial
  <1>3. TaskAt(k, n) = m
    BY <1>1, TaskAtNumber
  <1>4. TaskAt(k, n)' = m
    BY <1>1, <1>2, TaskAtNumberNext
  <1>5. QED
    BY <1>3, <1>4


\* A step that gives out no number leaves the lines alone.
LEMMA LineStays ==
  ASSUME DispatchInv, DispatchInv', NumbersUsed, Next, current' = current
  PROVE  Line' = Line
  <1>1. \A k \in Tokens : \A i \in 1..current[k] : TaskAt(k, i - 1)' = TaskAt(k, i - 1)
    <2> SUFFICES ASSUME NEW k \in Tokens, NEW i \in 1..current[k]
                 PROVE  TaskAt(k, i - 1)' = TaskAt(k, i - 1)
      OBVIOUS
    <2>1. i - 1 \in 0..(current[k] - 1)
      BY DEF DispatchInv, TypeOK
    <2>2. QED
      BY <2>1, TaskAtStays
  <1>2. QED
    BY <1>1 DEF Line

\* post() submits the task, at the end of the line of its token.
LEMMA PostSubmits ==
  ASSUME DispatchInv, DispatchInv', NumbersUsed, Next,
         NEW c \in Clients, NEW m \in Tasks, NEW t \in Threads, Post(c, m, t)
  PROVE  Abstract!Submit(m)
  <1> USE ConstantsAssumption DEF ConstantsAssumption
  <1>1. /\ status[m] = "new" /\ status' = [status EXCEPT ![m] = "posting"]
        /\ SetSerialToken(m) /\ tpc' = tpc /\ held' = held
    BY DEF Post, threadVars
  <1>2. m \notin Submitted /\ Submitted' = Submitted \cup {m}
    BY <1>1 DEF Submitted, DispatchInv, TypeOK
  <1>3. Running' = Running
    BY <1>1 DEF Running, Executing
  <1>4. Finished' = Finished
    BY <1>1 DEF Finished, DispatchInv, TypeOK
  <1>5. Line' = [k \in Tokens |-> IF k = TokenOf[m] THEN Append(Line[k], m) ELSE Line[k]]
    <2>1. CASE m \in Serial
      <3>1. /\ TokenOf[m] \in Tokens
            /\ seq' = [seq EXCEPT ![m] = current[TokenOf[m]]]
            /\ current' = [current EXCEPT ![TokenOf[m]] = @ + 1]
        BY <1>1, <2>1 DEF SetSerialToken, Serial
      <3> SUFFICES ASSUME NEW k \in Tokens
                   PROVE  Line'[k] = IF k = TokenOf[m] THEN Append(Line[k], m) ELSE Line[k]
        BY DEF Line
      <3>2. \A i \in 1..current[k] : TaskAt(k, i - 1)' = TaskAt(k, i - 1)
        <4> SUFFICES ASSUME NEW i \in 1..current[k]
                     PROVE  TaskAt(k, i - 1)' = TaskAt(k, i - 1)
          OBVIOUS
        <4>1. i - 1 \in 0..(current[k] - 1)
          BY DEF DispatchInv, TypeOK
        <4>2. QED
          BY <4>1, TaskAtStays
      <3>3. Line[k] = [i \in 1..current[k] |-> TaskAt(k, i - 1)]
        BY DEF Line
      <3>4. Line'[k] = [i \in 1..current'[k] |-> TaskAt(k, i - 1)']
        BY DEF Line
      <3>5. CASE k = TokenOf[m]
        <4> PICK n \in Nat : n = current[k]
          BY DEF DispatchInv, TypeOK
        <4>1. current'[k] = n + 1
          BY <3>1, <3>5 DEF DispatchInv, TypeOK
        <4>2. seq'[m] = n /\ status'[m] # "new"
          BY <1>1, <3>1, <3>5 DEF DispatchInv, TypeOK
        <4>3. TaskAt(k, n)' = m
          BY <2>1, <3>5, <4>2, TaskAtNumberNext
        <4>4. \A i \in 1..(n + 1) : TaskAt(k, i - 1)' = IF i = n + 1 THEN m ELSE TaskAt(k, i - 1)
          <5> SUFFICES ASSUME NEW i \in 1..(n + 1)
                       PROVE  TaskAt(k, i - 1)' = IF i = n + 1 THEN m ELSE TaskAt(k, i - 1)
            OBVIOUS
          <5>1. CASE i = n + 1
            <6>1. i - 1 = n
              BY <5>1
            <6>2. QED
              BY <4>3, <5>1, <6>1
          <5>2. CASE i # n + 1
            BY <3>2, <5>2
          <5>3. QED
            BY <5>1, <5>2
        <4>5. Len(Line[k]) = n /\ DOMAIN Line[k] = 1..n
          BY <3>3
        <4>6. Append(Line[k], m) = [i \in 1..(n + 1) |-> IF i = n + 1 THEN m ELSE Line[k][i]]
          BY <4>5
        <4>7. QED
          BY <3>3, <3>4, <3>5, <4>1, <4>4, <4>6
      <3>6. CASE k # TokenOf[m]
        <4>1. current'[k] = current[k]
          BY <3>1, <3>6 DEF DispatchInv, TypeOK
        <4>2. QED
          BY <3>2, <3>3, <3>4, <3>6, <4>1
      <3>7. QED
        BY <3>5, <3>6
    <2>2. CASE m \notin Serial
      <3>1. current' = current
        BY <1>1, <2>2 DEF SetSerialToken
      <3>2. Line' = Line
        BY <3>1, LineStays
      <3>3. TokenOf[m] \notin Tokens
        BY <2>2 DEF Serial
      <3>4. QED
        BY <3>2, <3>3 DEF Line
    <2>3. QED
      BY <2>1, <2>2
  <1>6. QED
    BY <1>2, <1>3, <1>4, <1>5 DEF Abstract!Submit


\* A step that executes nothing, and finishes nothing, is a stutter.
LEMMA DispatchStutters ==
  ASSUME DispatchInv, DispatchInv', NumbersUsed, Next, current' = current,
         \A m \in Tasks : status'[m] # "new" => status[m] # "new",
         \A m \in Tasks : status'[m] = "done" <=> status[m] = "done",
         \A t \in Threads : Executing(t)' <=> Executing(t),
         \A t \in Threads : Executing(t) => held'[t] = held[t]
  PROVE  UNCHANGED Abstract!vars
  <1>1. Line' = Line
    BY LineStays
  <1>2. Submitted' = Submitted
    BY NumbersStay DEF Submitted
  <1>3. Running' = Running
    BY DEF Running
  <1>4. Finished' = Finished
    BY DEF Finished
  <1>5. QED
    BY <1>1, <1>2, <1>3, <1>4 DEF Abstract!vars

\* A thread that begins to execute a task starts it, when it is its turn.
LEMMA DispatchStarts ==
  ASSUME DispatchInv, DispatchInv', NumbersUsed, Next, current' = current,
         \A m \in Tasks : status'[m] # "new" => status[m] # "new",
         \A m \in Tasks : status'[m] = "done" <=> status[m] = "done",
         NEW t \in Threads, ~Executing(t), Executing(t)', NEW m \in Tasks, held'[t] = m,
         \A u \in Threads : u # t => (Executing(u)' <=> Executing(u)) /\ held'[u] = held[u],
         status[m] \in {"held", "delayed"},
         m \in Serial => seq[m] = executing[TokenOf[m]],
         \A u \in Threads : Executing(u) => held[u] # m
  PROVE  Abstract!Start(m)
  <1>1. Line' = Line
    BY LineStays
  <1>2. Submitted' = Submitted
    BY NumbersStay DEF Submitted
  <1>3. Finished' = Finished
    BY DEF Finished
  <1>4. Running' = Running \cup {m}
    BY DEF Running
  <1>5. m \in Submitted \ (Running \cup Finished)
    BY DEF Submitted, Running, Finished
  <1>6. Abstract!Turn(m)
    <2> SUFFICES ASSUME TokenOf[m] \in Tokens
                 PROVE  \E i \in DOMAIN Line[TokenOf[m]] :
                          /\ Line[TokenOf[m]][i] = m
                          /\ \A j \in 1..(i - 1) : Line[TokenOf[m]][j] \in Finished
      BY DEF Abstract!Turn
    <2> DEFINE k == TokenOf[m]
               i == seq[m] + 1
    <2>1. /\ m \in Serial /\ status[m] # "new" /\ seq[m] \in Nat /\ current[k] \in Nat
          /\ seq[m] < current[k] /\ seq[m] = executing[k]
      BY DEF Serial, DispatchInv, TypeOK, NumberInv
    <2>2. /\ DOMAIN Line[k] = 1..current[k]
          /\ \A j \in 1..current[k] : Line[k][j] = TaskAt(k, j - 1)
      BY DEF Line
    <2>3. i \in 1..current[k] /\ i - 1 = seq[m]
      BY <2>1
    <2>4. Line[k][i] = m
      BY <2>1, <2>2, <2>3, TaskAtNumber
    <2>5. ASSUME NEW j \in 1..(i - 1)
          PROVE  Line[k][j] \in Finished
      <3>1. j - 1 \in 0..(current[k] - 1) /\ j \in 1..current[k] /\ j - 1 < seq[m]
        BY <2>1, <2>3
      <3>2. PICK n \in Serial : TokenOf[n] = k /\ status[n] # "new" /\ seq[n] = j - 1
        BY <3>1 DEF NumbersUsed
      <3>3. Line[k][j] = n
        BY <2>2, <3>1, <3>2, TaskAtNumber
      <3>4. status[n] = "done"
        BY <2>1, <3>1, <3>2 DEF DispatchInv, NumberInv
      <3>5. QED
        BY <3>3, <3>4 DEF Finished, Serial
    <2>6. QED
      BY <2>2, <2>3, <2>4, <2>5
  <1>7. QED
    BY <1>1, <1>2, <1>3, <1>4, <1>5, <1>6 DEF Abstract!Start

\* The end of a task is the end of its execution.
LEMMA FinishFinishes ==
  ASSUME DispatchInv, DispatchInv', NumbersUsed, Next, NEW t \in Threads, Finish(t)
  PROVE  held[t] \in Tasks /\ Abstract!Finish(held[t])
  <1> USE ConstantsAssumption DEF ConstantsAssumption
  <1>1. /\ tpc[t] \in {"running", "firing"}
        /\ status' = [status EXCEPT ![held[t]] = "done"]
        /\ held' = [held EXCEPT ![t] = NoMsg] /\ current' = current
        /\ tpc' = [tpc EXCEPT ![t] = IF @ = "running" THEN "draining" ELSE "waiting"]
    BY DEF Finish
  <1>2. held[t] \in Tasks /\ status[held[t]] = "held"
    BY <1>1 DEF DispatchInv, HandInv
  <1>3. \A u \in Threads : held[u] = held[t] => u = t
    BY <1>2 DEF DispatchInv, HandInv
  <1>4. Line' = Line
    BY <1>1, LineStays
  <1>5. Submitted' = Submitted
    BY <1>1, <1>2 DEF Submitted, DispatchInv, TypeOK
  <1>6. Finished' = Finished \cup {held[t]}
    BY <1>1, <1>2 DEF Finished, DispatchInv, TypeOK
  <1>7. held[t] \in Running
    BY <1>1, <1>2 DEF Running, Executing
  <1>8. \A u \in Threads : Executing(u)' <=> Executing(u) /\ u # t
    BY <1>1 DEF Executing, DispatchInv, TypeOK
  <1>9. Running' = Running \ {held[t]}
    BY <1>1, <1>3, <1>8 DEF Running, DispatchInv, TypeOK
  <1>10. QED
    BY <1>2, <1>4, <1>5, <1>6, <1>7, <1>9 DEF Abstract!Finish


LEMMA DispatchRefines ==
  ASSUME DispatchInv, DispatchInv', NumbersUsed, Next
  PROVE  [Abstract!Next]_(Abstract!vars)
  <1> USE ConstantsAssumption DEF ConstantsAssumption
  <1> DEFINE Quiet == /\ current' = current
                      /\ \A m \in Tasks : status'[m] # "new" => status[m] # "new"
                      /\ \A m \in Tasks : status'[m] = "done" <=> status[m] = "done"
                      /\ \A t \in Threads : Executing(t)' <=> Executing(t)
                      /\ \A t \in Threads : Executing(t) => held'[t] = held[t]
  <1>1. Quiet => UNCHANGED Abstract!vars
    BY DispatchStutters
  <1>2. ASSUME NEW c \in Clients, NEW m \in Tasks, NEW t \in Threads, Post(c, m, t)
        PROVE  Abstract!Next
    BY <1>2, PostSubmits DEF Abstract!Next
  <1>3. ASSUME NEW c \in Clients, Enqueue(c)
        PROVE  Quiet
    <2>1. current' = current /\ tpc' = tpc /\ held' = held
      BY <1>3 DEF Enqueue, EnqueueRefused, EnqueueAccepted, EnqueuePush, EnqueueSend,
         tokenVars, threadVars
    <2>2. \/ status' = status
          \/ /\ cpc[c] \in {"posting", "accepted"}
             /\ \E x \in {"dropped", "queued"} : status' = [status EXCEPT ![hand[c]] = x]
      BY <1>3 DEF Enqueue, EnqueueRefused, EnqueueAccepted, EnqueuePush, EnqueueSend, taskVars
    <2>3. cpc[c] \in {"posting", "accepted"} => status[hand[c]] = "posting"
      BY DEF DispatchInv, HandInv
    <2>4. status \in [Tasks -> {"new", "posting", "queued", "held", "delayed", "done", "dropped"}]
      BY DEF DispatchInv, TypeOK
    <2>5. \A m \in Tasks : status'[m] = status[m]
                           \/ (status[m] = "posting" /\ status'[m] \in {"dropped", "queued"})
      BY <2>2, <2>3, <2>4
    <2>6. QED
      BY <2>1, <2>5 DEF Executing
  <1>4. ASSUME NEW t \in Threads, (\E safe \in StopModes : Stop(t, safe)) \/ StopStep(t)
        PROVE  Quiet
    BY <1>4 DEF Stop, StopStep, StopCheck, StopPush, StopSend, Executing, taskVars, tokenVars,
       threadVars
  <1>5. ASSUME NEW t \in Threads, ThreadStep(t)
        PROVE  [Abstract!Next]_(Abstract!vars)
    <2>1. CASE Wake(t) \/ HandleStop(t) \/ QueueEmpty(t) \/ Return(t) \/ Exit(t)
      <3>1. /\ UNCHANGED <<status, current>>
            /\ ~Executing(t) /\ ~Executing(t)'
            /\ \A u \in Threads : u # t => tpc'[u] = tpc[u] /\ held'[u] = held[u]
        BY <2>1 DEF Wake, HandleStop, QueueEmpty, Return, Exit, Executing, taskVars, tokenVars,
           DispatchInv, TypeOK
      <3>2. QED
        BY <1>1, <3>1 DEF Executing
    <2>2. CASE Dequeue(t)
      <3>1. /\ current' = current
            /\ ~Executing(t) /\ ~Executing(t)'
            /\ \A u \in Threads : u # t => tpc'[u] = tpc[u] /\ held'[u] = held[u]
        BY <2>2 DEF Dequeue, Executing, tokenVars, DispatchInv, TypeOK
      <3>2. Head(queue[t]) \in Tasks => status[Head(queue[t])] = "queued"
        BY <2>2, TailIndex DEF Dequeue, DispatchInv, TypeOK, QueueInv
      <3>3. \A m \in Tasks : status'[m] = status[m] \/ (status[m] = "queued" /\ status'[m] = "held")
        BY <2>2, <3>2 DEF Dequeue
      <3>4. QED
        BY <1>1, <3>1, <3>3 DEF Executing
    <2>3. CASE PostTimer(t) \/ RequeueRefused(t) \/ RequeuePush(t)
      <3>1. /\ current' = current
            /\ ~Executing(t) /\ ~Executing(t)'
            /\ \A u \in Threads : u # t => tpc'[u] = tpc[u] /\ held'[u] = held[u]
        BY <2>3 DEF PostTimer, RequeueRefused, RequeuePush, Executing, tokenVars, DispatchInv, TypeOK
      <3>2. held[t] \in Tasks /\ status[held[t]] = "held"
        BY <2>3 DEF PostTimer, RequeueRefused, RequeuePush, DispatchInv, HandInv
      <3>3. \E x \in {"delayed", "dropped", "queued"} : status' = [status EXCEPT ![held[t]] = x]
        BY <2>3 DEF PostTimer, RequeueRefused, RequeuePush
      <3>4. \A m \in Tasks : status'[m] = status[m]
              \/ (status[m] = "held" /\ status'[m] \in {"delayed", "dropped", "queued"})
        BY <3>2, <3>3 DEF DispatchInv, TypeOK
      <3>5. QED
        BY <1>1, <3>1, <3>4 DEF Executing
    <2>4. CASE RequeueAccepted(t)
      <3>1. /\ UNCHANGED <<status, current, held>>
            /\ ~Executing(t) /\ ~Executing(t)'
            /\ \A u \in Threads : u # t => tpc'[u] = tpc[u]
        BY <2>4 DEF RequeueAccepted, Executing, taskVars, tokenVars, DispatchInv, TypeOK
      <3>2. QED
        BY <1>1, <3>1 DEF Executing
    <2>5. CASE TryAcquire(t)
      <3>1. /\ UNCHANGED <<status, current, held>> /\ ~Executing(t)
            /\ tpc' = [tpc EXCEPT ![t] = IF CanRun(held[t]) THEN "running" ELSE "requeue"]
            /\ held[t] \in Tasks /\ status[held[t]] = "held"
            /\ \A u \in Threads : held[u] = held[t] => u = t
        BY <2>5 DEF TryAcquire, Executing, taskVars, tokenVars, DispatchInv, HandInv
      <3>2. CASE CanRun(held[t])
        <4>1. held[t] \in Serial => seq[held[t]] = executing[TokenOf[held[t]]]
          BY <3>2 DEF CanRun
        <4>2. Executing(t)' /\ \A u \in Threads : u # t => (Executing(u)' <=> Executing(u))
          BY <3>1, <3>2 DEF Executing, DispatchInv, TypeOK
        <4>3. Abstract!Start(held[t])
          BY <3>1, <4>1, <4>2, DispatchStarts
        <4>4. QED
          BY <3>1, <4>3 DEF Abstract!Next
      <3>3. CASE ~CanRun(held[t])
        BY <1>1, <3>1, <3>3 DEF Executing, DispatchInv, TypeOK
      <3>4. QED
        BY <3>2, <3>3
    <2>6. CASE Finish(t)
      BY <2>6, FinishFinishes DEF Abstract!Next
    <2>7. QED
      BY <1>5, <2>1, <2>2, <2>3, <2>4, <2>5, <2>6 DEF ThreadStep
  <1>6. ASSUME NEW t \in Threads, NEW m \in Tasks, FireTimer(t, m)
        PROVE  Abstract!Next
    <2>1. /\ current' = current /\ ~Executing(t) /\ Executing(t)' /\ held'[t] = m
          /\ \A u \in Threads : u # t => (Executing(u)' <=> Executing(u)) /\ held'[u] = held[u]
          /\ status[m] = "delayed" /\ status' = [status EXCEPT ![m] = "held"]
      BY <1>6 DEF FireTimer, Executing, tokenVars, DispatchInv, TypeOK
    <2>2. m \notin Serial
      BY <2>1 DEF DispatchInv, HandInv
    <2>3. \A n \in Tasks : (status'[n] # "new" => status[n] # "new")
                           /\ (status'[n] = "done" <=> status[n] = "done")
      BY <2>1 DEF DispatchInv, TypeOK
    <2>4. \A u \in Threads : Executing(u) => held[u] # m
      BY <2>1 DEF DispatchInv, HandInv
    <2>5. Abstract!Start(m)
      BY <2>1, <2>2, <2>3, <2>4, DispatchStarts
    <2>6. QED
      BY <2>5 DEF Abstract!Next
  <1>7. QED
    BY <1>1, <1>2, <1>3, <1>4, <1>5, <1>6 DEF Next

LEMMA AbstractInit == Init => Abstract!Init
  BY DEF Init, Abstract!Init, Line, Submitted, Running, Finished, Executing

\* SerialDispatch implements SerialExecutor: a task is executed at most once, and
\* those of a token one after the other, in the order of their submission,
\* however threads, trips back to the queue, timers and stops interleave.
THEOREM Refinement == Spec => ImplementsSerialExecutor
  <1>1. Init => NumbersUsed
    BY DEF Init, NumbersUsed
  <1>2. DispatchInv /\ NumbersUsed /\ [Next]_vars => NumbersUsed'
    <2>1. DispatchInv /\ NumbersUsed /\ Next => NumbersUsed'
      BY NumbersUsedStep
    <2>2. NumbersUsed /\ UNCHANGED vars => NumbersUsed'
      BY DEF vars, taskVars, tokenVars, NumbersUsed
    <2>3. QED
      BY <2>1, <2>2
  <1>3. DispatchInv /\ DispatchInv' /\ NumbersUsed /\ [Next]_vars => [Abstract!Next]_(Abstract!vars)
    <2>1. DispatchInv /\ DispatchInv' /\ NumbersUsed /\ Next => [Abstract!Next]_(Abstract!vars)
      BY DispatchRefines
    <2>2. UNCHANGED vars => UNCHANGED Abstract!vars
      BY DEF vars, taskVars, tokenVars, threadVars, Abstract!vars, Line, TaskAt, Submitted,
         Running, Finished, Executing
    <2>3. QED
      BY <2>1, <2>2
  <1>4. QED
    BY <1>1, <1>2, <1>3, AbstractInit, DispatchInvariant, PTL
       DEF Spec, ImplementsSerialExecutor, Abstract!Spec

=============================================================================
