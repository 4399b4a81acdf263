---------------------------- MODULE ThreadProofs ----------------------------
(***************************************************************************)
(* Proofs about the threads of dispatch/.                                  *)
(*                                                                         *)
(* HandlerThread, for any number of clients, messages and calls of stop(): *)
(* the count of queued_event_ never goes below zero, whenever the thread   *)
(* is stopped; and with an owner that waits for the loop, no wake-up is    *)
(* lost in the start, stop() finds the event, and the backlog is handled.  *)
(*                                                                         *)
(* ThreadPool: type correctness and what stop() waits for, for any number  *)
(* of clients, threads, tasks and stops; and the balance of the posts of   *)
(* one client, whose compare-and-swap does not fail without a reason, for  *)
(* any number of threads.                                                  *)
(***************************************************************************)
EXTENDS HandlerThread, ThreadPool, FiniteSetTheorems, TLAPS

-----------------------------------------------------------------------------
(* Sequences as queues, in both modules *)

\* Appending to a queue adds one index and moves nothing.
LEMMA AppendIndex ==
  ASSUME NEW S, NEW s \in Seq(S), NEW x \in S
  PROVE  /\ Append(s, x) \in Seq(S) /\ Append(s, x) # <<>>
         /\ DOMAIN Append(s, x) = 1..(Len(s) + 1) /\ Len(Append(s, x)) = Len(s) + 1
         /\ DOMAIN s = 1..Len(s) /\ Len(s) \in Nat
         /\ \A i \in 1..Len(s) : Append(s, x)[i] = s[i]
         /\ Append(s, x)[Len(s) + 1] = x
  OBVIOUS

\* Dequeuing shifts every index down by one.
LEMMA TailIndex ==
  ASSUME NEW S, NEW s \in Seq(S), s # <<>>
  PROVE  /\ Tail(s) \in Seq(S)
         /\ Head(s) \in S /\ Head(s) = s[1]
         /\ DOMAIN Tail(s) = 1..(Len(s) - 1) /\ Len(Tail(s)) = Len(s) - 1
         /\ DOMAIN s = 1..Len(s) /\ Len(s) \in Nat \ {0}
         /\ \A i \in 1..(Len(s) - 1) : Tail(s)[i] = s[i + 1]
  OBVIOUS

-----------------------------------------------------------------------------
(* handler_thread: the invariant of every thread *)

\* What exists at each place the thread passes through; a thread that was
\* stopped before it started skips them all.
PlaceInv ==
  /\ tpc \in {"created", "starting", "constructing"} => event = "null"
  /\ tpc = "activating" => event = "constructed"
  /\ tpc \in {"draining", "processing", "returning", "entering", "polling", "finalized"} =>
       event = "started"
  /\ tpc \in {"created", "starting", "constructing", "activating", "entering"} => ~inLoop
  /\ tpc \in {"polling", "finalized"} => inLoop

\* count_ counts the sends since the callback began: a send that is not yet
\* delivered has been counted, and the callback in progress once more.
CountInv ==
  /\ tpc \in {"draining", "processing", "returning", "entering", "polling"} /\ sent => count >= 1
  /\ tpc \in {"draining", "processing", "returning"} /\ inLoop =>
       count >= 1 /\ (sent => count >= 2)

ThreadInv == TypeOK /\ PlaceInv /\ CountInv

\* What a client has in hand; the thread holds one message, in "processing".
HandInv ==
  /\ \A c \in Clients : cpc[c] # "idle" => hand[c] \in Tasks
  /\ \A c \in Clients : cpc[c] = "accepted" => status[hand[c]] = "posting"
  /\ \A c, d \in Clients :
       cpc[c] = "accepted" /\ cpc[d] = "accepted" /\ hand[c] = hand[d] => c = d
  /\ tpc # "processing" => held = NoMsg
  /\ \A m \in Tasks : status[m] = "held" <=> held = m
  /\ \A i \in DOMAIN queue : queue[i] \in Tasks => status[queue[i]] \in {"queued", "held", "done"}
  /\ \A m \in Tasks : status[m] = "queued" => \E i \in DOMAIN queue : queue[i] = m

-----------------------------------------------------------------------------
(* The invariant of a thread whose owner waits for the loop *)

\* Nobody stops the thread before its loop has started, so no request to stop
\* is there for ev_run to forget.
LateInv ==
  /\ stopping => inLoop
  /\ opc # "idle" \/ loopDone \/ held = StopMsg => stopping
  /\ \A i \in DOMAIN queue : queue[i] = StopMsg => stopping
  /\ inLoop => event = "started"
  /\ tpc \in {"finalized", "finished"} => loopDone
  /\ ~crashed

\* From the end of a drain to the next, a message in the queue has a wake-up.
WakeInv ==
  tpc \in {"returning", "entering", "polling"} /\ queue # <<>> =>
    \/ sent \/ loopDone \/ opc = "sending"
    \/ \E c \in Clients : cpc[c] = "pushed"

\* A loop that was told to stop is left with nothing of the backlog unhandled.
BacklogInv ==
  /\ \A m \in backlog : status[m] \in {"queued", "held", "done"}
  /\ loopDone /\ tpc \in {"returning", "polling", "finalized", "finished"} =>
       \A m \in backlog : status[m] = "done"

LifeInv == ThreadInv /\ HandInv /\ LateInv /\ WakeInv /\ BacklogInv

-----------------------------------------------------------------------------
(* Every step preserves each part of the invariants *)

LEMMA SendTypes ==
  ASSUME TypeOK, Send \/ UNCHANGED eventVars
  PROVE  sent' \in BOOLEAN /\ count' \in Nat /\ event' = event
  <1>1. sent \in BOOLEAN /\ count \in Nat
    BY DEF TypeOK
  <1>2. CASE Send
    BY <1>1, <1>2 DEF Send
  <1>3. CASE UNCHANGED eventVars
    BY <1>1, <1>3 DEF eventVars
  <1>4. QED
    BY <1>2, <1>3

LEMMA TypeStep ==
  ASSUME ThreadInv, HandInv, Next
  PROVE  TypeOK'
  <1> USE ConstantsAssumption DEF ConstantsAssumption, eventVars, loopVars, threadVars, clientVars,
          ownerVars, Goto
  <1>1. ASSUME NEW c \in Clients, NEW m \in Tasks, Post(c, m)
        PROVE  TypeOK'
    BY <1>1 DEF Post, ThreadInv, CountInv, TypeOK, TaskStatus, Places
  <1>2. ASSUME NEW c \in Clients, Enqueue(c)
        PROVE  TypeOK'
    <2>1. CASE EnqueuePush(c)
      <3>1. hand[c] \in Tasks
        BY <2>1 DEF EnqueuePush, HandInv
      <3>2. queue' \in Seq(Tasks \cup {StopMsg})
        BY <2>1, <3>1, AppendIndex DEF EnqueuePush, ThreadInv, TypeOK
      <3>3. QED
        BY <2>1, <3>2 DEF EnqueuePush, ThreadInv, TypeOK, TaskStatus
    <2>2. CASE EnqueueSend(c)
      <3>1. sent' \in BOOLEAN /\ count' \in Nat /\ event' = event
        BY <2>2, SendTypes DEF EnqueueSend, ThreadInv
      <3>2. QED
        BY <2>2, <3>1 DEF EnqueueSend, ThreadInv, TypeOK
    <2>3. QED
      BY <1>2, <2>1, <2>2 DEF Enqueue
  <1>3. ASSUME NEW safe \in BOOLEAN, Stop(safe)
        PROVE  TypeOK'
    BY <1>3 DEF Stop, SetStopping, ThreadInv, CountInv, TypeOK, TaskStatus, Places
  <1>4. ASSUME Destroy
        PROVE  TypeOK'
    BY <1>4 DEF Destroy, SetStopping, ThreadInv, CountInv, TypeOK, TaskStatus, Places
  <1>5. ASSUME OwnerStep
        PROVE  TypeOK'
    <2>1. CASE StopCheckRunning
      BY <2>1 DEF StopCheckRunning, StopReturns, ThreadInv, CountInv, TypeOK, TaskStatus, Places
    <2>2. CASE StopCheckEmpty
      BY <2>2 DEF StopCheckEmpty, StopReturns, ThreadInv, CountInv, TypeOK, TaskStatus, Places
    <2>3. CASE StopPush
      <3>1. queue' \in Seq(Tasks \cup {StopMsg})
        BY <2>3, AppendIndex DEF StopPush, ThreadInv, TypeOK
      <3>2. QED
        BY <2>3, <3>1 DEF StopPush, ThreadInv, TypeOK
    <2>4. CASE StopSend
      <3>1. sent' \in BOOLEAN /\ count' \in Nat /\ event' = event
        BY <2>4, SendTypes DEF StopSend, ThreadInv
      <3>2. QED
        BY <2>4, <3>1 DEF StopSend, StopReturns, ThreadInv, TypeOK
    <2>5. CASE Join
      BY <2>5 DEF Join, ThreadInv, CountInv, TypeOK, TaskStatus, Places
    <2>6. QED
      BY <1>5, <2>1, <2>2, <2>3, <2>4, <2>5 DEF OwnerStep
  <1>6. ASSUME ThreadStep
        PROVE  TypeOK'
    <2>1. /\ tpc' \in Places
          /\ UNCHANGED <<stopping, cpc, hand, opc, call, stops, backlog, crashed>>
      BY <1>6 DEF ThreadStep, Start, SetRunning, MakeEvent, StartEvent, Dequeue, Process, QueueEmpty,
         Return, EnterLoop, Wake, LeaveLoop, Finish, Places
    <2>2. CASE Dequeue
      <3>1. queue' \in Seq(Tasks \cup {StopMsg}) /\ held' \in Tasks \cup {StopMsg}
        BY <2>2, TailIndex DEF Dequeue, ThreadInv, TypeOK
      <3>2. status' \in [Tasks -> TaskStatus]
        BY <2>2 DEF Dequeue, ThreadInv, TypeOK, TaskStatus
      <3>3. QED
        BY <2>1, <2>2, <3>1, <3>2 DEF Dequeue, ThreadInv, TypeOK
    <2>3. CASE Process
      <3>1. status' \in [Tasks -> TaskStatus]
        BY <2>3 DEF Process, ThreadInv, TypeOK, TaskStatus
      <3>2. QED
        BY <2>1, <2>3, <3>1 DEF Process, ThreadInv, TypeOK
    <2>4. CASE Return
      <3>1. count' \in Nat /\ sent' \in BOOLEAN
        BY <2>4 DEF Return, ThreadInv, TypeOK, CountInv
      <3>2. QED
        BY <2>1, <2>4, <3>1 DEF Return, ThreadInv, TypeOK
    <2>5. CASE Start \/ SetRunning \/ MakeEvent \/ StartEvent \/ QueueEmpty \/ EnterLoop \/ Wake
               \/ LeaveLoop \/ Finish
      <3>1. UNCHANGED <<status, queue, held, count>>
        BY <2>5 DEF Start, SetRunning, MakeEvent, StartEvent, QueueEmpty, EnterLoop, Wake, LeaveLoop,
           Finish
      <3>2. event' \in {event, "constructed", "started"} /\ sent' \in {sent, TRUE, FALSE}
        BY <2>5 DEF Start, SetRunning, MakeEvent, StartEvent, QueueEmpty, EnterLoop, Wake, LeaveLoop,
           Finish
      <3>3. /\ running' \in {running, TRUE, FALSE} /\ loopDone' \in {loopDone, FALSE}
            /\ inLoop' \in {inLoop, TRUE}
        BY <2>5 DEF Start, SetRunning, MakeEvent, StartEvent, QueueEmpty, EnterLoop, Wake, LeaveLoop,
           Finish
      <3>4. /\ event' \in {"null", "constructed", "started"} /\ sent' \in BOOLEAN
            /\ running' \in BOOLEAN /\ loopDone' \in BOOLEAN /\ inLoop' \in BOOLEAN
        BY <3>2, <3>3 DEF ThreadInv, TypeOK
      <3>5. QED
        BY <2>1, <3>1, <3>4 DEF ThreadInv, TypeOK
    <2>6. QED
      BY <1>6, <2>2, <2>3, <2>4, <2>5 DEF ThreadStep
  <1>7. QED
    BY <1>1, <1>2, <1>3, <1>4, <1>5, <1>6 DEF Next

LEMMA PlaceStep ==
  ASSUME ThreadInv, Next
  PROVE  PlaceInv'
  <1> USE ConstantsAssumption DEF ConstantsAssumption, eventVars, loopVars, threadVars, clientVars,
          ownerVars, Goto
  <1>1. ASSUME NEW c \in Clients, NEW m \in Tasks, Post(c, m)
        PROVE  PlaceInv'
    BY <1>1 DEF Post, ThreadInv, PlaceInv, TypeOK
  <1>2. ASSUME NEW c \in Clients, Enqueue(c)
        PROVE  PlaceInv'
    <2>1. CASE EnqueuePush(c)
      BY <2>1 DEF EnqueuePush, ThreadInv, PlaceInv, TypeOK
    <2>2. CASE EnqueueSend(c)
      BY <2>2 DEF EnqueueSend, Send, ThreadInv, PlaceInv, TypeOK
    <2>3. QED
      BY <1>2, <2>1, <2>2 DEF Enqueue
  <1>3. ASSUME NEW safe \in BOOLEAN, Stop(safe)
        PROVE  PlaceInv'
    BY <1>3 DEF Stop, SetStopping, ThreadInv, PlaceInv, TypeOK
  <1>4. ASSUME Destroy
        PROVE  PlaceInv'
    BY <1>4 DEF Destroy, SetStopping, ThreadInv, PlaceInv, TypeOK
  <1>5. ASSUME OwnerStep
        PROVE  PlaceInv'
    <2>1. CASE StopCheckRunning
      BY <2>1 DEF StopCheckRunning, StopReturns, ThreadInv, PlaceInv, TypeOK
    <2>2. CASE StopCheckEmpty
      BY <2>2 DEF StopCheckEmpty, StopReturns, ThreadInv, PlaceInv, TypeOK
    <2>3. CASE StopPush
      BY <2>3 DEF StopPush, ThreadInv, PlaceInv, TypeOK
    <2>4. CASE StopSend
      BY <2>4 DEF StopSend, Send, StopReturns, ThreadInv, PlaceInv, TypeOK
    <2>5. CASE Join
      BY <2>5 DEF Join, ThreadInv, PlaceInv, TypeOK
    <2>6. QED
      BY <1>5, <2>1, <2>2, <2>3, <2>4, <2>5 DEF OwnerStep
  <1>6. ASSUME ThreadStep
        PROVE  PlaceInv'
    <2>1. CASE Start
      BY <2>1 DEF Start, ThreadInv, PlaceInv, TypeOK
    <2>2. CASE SetRunning
      BY <2>2 DEF SetRunning, ThreadInv, PlaceInv, TypeOK
    <2>3. CASE MakeEvent
      BY <2>3 DEF MakeEvent, ThreadInv, PlaceInv, TypeOK
    <2>4. CASE StartEvent
      BY <2>4 DEF StartEvent, ThreadInv, PlaceInv, TypeOK
    <2>5. CASE Dequeue
      BY <2>5 DEF Dequeue, ThreadInv, PlaceInv, TypeOK
    <2>6. CASE Process
      BY <2>6 DEF Process, ThreadInv, PlaceInv, TypeOK
    <2>7. CASE QueueEmpty
      BY <2>7 DEF QueueEmpty, ThreadInv, PlaceInv, TypeOK
    <2>8. CASE Return
      BY <2>8 DEF Return, ThreadInv, PlaceInv, TypeOK
    <2>9. CASE EnterLoop
      BY <2>9 DEF EnterLoop, ThreadInv, PlaceInv, TypeOK
    <2>10. CASE Wake
      BY <2>10 DEF Wake, ThreadInv, PlaceInv, TypeOK
    <2>11. CASE LeaveLoop
      BY <2>11 DEF LeaveLoop, ThreadInv, PlaceInv, TypeOK
    <2>12. CASE Finish
      BY <2>12 DEF Finish, ThreadInv, PlaceInv, TypeOK
    <2>13. QED
      BY <1>6, <2>1, <2>2, <2>3, <2>4, <2>5, <2>6, <2>7, <2>8, <2>9, <2>10, <2>11, <2>12
         DEF ThreadStep
  <1>7. QED
    BY <1>1, <1>2, <1>3, <1>4, <1>5, <1>6 DEF Next

LEMMA CountStep ==
  ASSUME ThreadInv, Next
  PROVE  CountInv'
  <1> USE ConstantsAssumption DEF ConstantsAssumption, eventVars, loopVars, threadVars, clientVars,
          ownerVars, Goto
  <1>1. ASSUME NEW c \in Clients, NEW m \in Tasks, Post(c, m)
        PROVE  CountInv'
    BY <1>1 DEF Post, ThreadInv, PlaceInv, CountInv, TypeOK
  <1>2. ASSUME NEW c \in Clients, Enqueue(c)
        PROVE  CountInv'
    <2>1. CASE EnqueuePush(c)
      BY <2>1 DEF EnqueuePush, ThreadInv, PlaceInv, CountInv, TypeOK
    <2>2. CASE EnqueueSend(c)
      BY <2>2 DEF EnqueueSend, Send, ThreadInv, PlaceInv, CountInv, TypeOK
    <2>3. QED
      BY <1>2, <2>1, <2>2 DEF Enqueue
  <1>3. ASSUME NEW safe \in BOOLEAN, Stop(safe)
        PROVE  CountInv'
    BY <1>3 DEF Stop, SetStopping, ThreadInv, PlaceInv, CountInv, TypeOK
  <1>4. ASSUME Destroy
        PROVE  CountInv'
    BY <1>4 DEF Destroy, SetStopping, ThreadInv, PlaceInv, CountInv, TypeOK
  <1>5. ASSUME OwnerStep
        PROVE  CountInv'
    <2>1. CASE StopCheckRunning
      BY <2>1 DEF StopCheckRunning, StopReturns, ThreadInv, PlaceInv, CountInv, TypeOK
    <2>2. CASE StopCheckEmpty
      BY <2>2 DEF StopCheckEmpty, StopReturns, ThreadInv, PlaceInv, CountInv, TypeOK
    <2>3. CASE StopPush
      BY <2>3 DEF StopPush, ThreadInv, PlaceInv, CountInv, TypeOK
    <2>4. CASE StopSend
      BY <2>4 DEF StopSend, Send, StopReturns, ThreadInv, PlaceInv, CountInv, TypeOK
    <2>5. CASE Join
      BY <2>5 DEF Join, ThreadInv, PlaceInv, CountInv, TypeOK
    <2>6. QED
      BY <1>5, <2>1, <2>2, <2>3, <2>4, <2>5 DEF OwnerStep
  <1>6. ASSUME ThreadStep
        PROVE  CountInv'
    <2>1. CASE Start
      BY <2>1 DEF Start, ThreadInv, PlaceInv, CountInv, TypeOK
    <2>2. CASE SetRunning
      BY <2>2 DEF SetRunning, ThreadInv, PlaceInv, CountInv, TypeOK
    <2>3. CASE MakeEvent
      BY <2>3 DEF MakeEvent, ThreadInv, PlaceInv, CountInv, TypeOK
    <2>4. CASE StartEvent
      BY <2>4 DEF StartEvent, ThreadInv, PlaceInv, CountInv, TypeOK
    <2>5. CASE Dequeue
      BY <2>5 DEF Dequeue, ThreadInv, PlaceInv, CountInv, TypeOK
    <2>6. CASE Process
      BY <2>6 DEF Process, ThreadInv, PlaceInv, CountInv, TypeOK
    <2>7. CASE QueueEmpty
      BY <2>7 DEF QueueEmpty, ThreadInv, PlaceInv, CountInv, TypeOK
    <2>8. CASE Return
      BY <2>8 DEF Return, ThreadInv, PlaceInv, CountInv, TypeOK
    <2>9. CASE EnterLoop
      BY <2>9 DEF EnterLoop, ThreadInv, PlaceInv, CountInv, TypeOK
    <2>10. CASE Wake
      BY <2>10 DEF Wake, ThreadInv, PlaceInv, CountInv, TypeOK
    <2>11. CASE LeaveLoop
      BY <2>11 DEF LeaveLoop, ThreadInv, PlaceInv, CountInv, TypeOK
    <2>12. CASE Finish
      BY <2>12 DEF Finish, ThreadInv, PlaceInv, CountInv, TypeOK
    <2>13. QED
      BY <1>6, <2>1, <2>2, <2>3, <2>4, <2>5, <2>6, <2>7, <2>8, <2>9, <2>10, <2>11, <2>12
         DEF ThreadStep
  <1>7. QED
    BY <1>1, <1>2, <1>3, <1>4, <1>5, <1>6 DEF Next

LEMMA HandStep ==
  ASSUME ThreadInv, HandInv, Next
  PROVE  HandInv'
  <1> USE ConstantsAssumption DEF ConstantsAssumption, eventVars, loopVars, threadVars, clientVars,
          ownerVars, Goto
  <1>1. ASSUME NEW c \in Clients, NEW m \in Tasks, Post(c, m)
        PROVE  HandInv'
    <2>1. CASE stopping
      BY <1>1, <2>1 DEF Post, ThreadInv, HandInv, TypeOK
    <2>2. CASE ~stopping
      <3>1. /\ status[m] = "new" /\ status' = [status EXCEPT ![m] = "posting"]
            /\ cpc' = [cpc EXCEPT ![c] = "accepted"] /\ hand' = [hand EXCEPT ![c] = m]
            /\ UNCHANGED <<queue, tpc, held>>
        BY <1>1, <2>2 DEF Post
      <3>2. \A d \in Clients : d # c => cpc'[d] = cpc[d] /\ hand'[d] = hand[d]
        BY <3>1 DEF ThreadInv, TypeOK
      <3>3. cpc'[c] = "accepted" /\ hand'[c] = m /\ status'[m] = "posting"
        BY <3>1 DEF ThreadInv, TypeOK
      <3>4. \A n \in Tasks : n # m => status'[n] = status[n]
        BY <3>1 DEF ThreadInv, TypeOK
      <3>5. \A d \in Clients : cpc[d] = "accepted" => hand[d] # m
        BY <3>1 DEF HandInv
      <3>6. /\ \A d \in Clients : cpc'[d] # "idle" => hand'[d] \in Tasks
            /\ \A d \in Clients : cpc'[d] = "accepted" => status'[hand'[d]] = "posting"
            /\ \A d, e \in Clients :
                 cpc'[d] = "accepted" /\ cpc'[e] = "accepted" /\ hand'[d] = hand'[e] => d = e
        BY <3>2, <3>3, <3>4, <3>5 DEF HandInv
      <3>7. /\ \A n \in Tasks : status'[n] = "held" <=> held = n
            /\ \A i \in DOMAIN queue : queue[i] \in Tasks =>
                 status'[queue[i]] \in {"queued", "held", "done"}
            /\ \A n \in Tasks : status'[n] = "queued" => \E i \in DOMAIN queue : queue[i] = n
        BY <3>1, <3>3, <3>4 DEF HandInv
      <3>8. QED
        BY <3>1, <3>6, <3>7 DEF HandInv
    <2>3. QED
      BY <2>1, <2>2
  <1>2. ASSUME NEW c \in Clients, Enqueue(c)
        PROVE  HandInv'
    <2>1. CASE EnqueuePush(c)
      <3>1. hand[c] \in Tasks /\ queue \in Seq(Tasks \cup {StopMsg})
        BY <2>1 DEF EnqueuePush, HandInv, ThreadInv, TypeOK
      <3>2. PICK x \in Tasks : x = hand[c]
        BY <3>1
      <3>3. /\ DOMAIN queue' = 1..(Len(queue) + 1) /\ queue'[Len(queue) + 1] = x
            /\ DOMAIN queue = 1..Len(queue) /\ Len(queue) \in Nat
            /\ \A i \in 1..Len(queue) : queue'[i] = queue[i]
        BY <2>1, <3>1, <3>2, AppendIndex DEF EnqueuePush
      <3>4. ASSUME NEW m \in Tasks, status'[m] = "queued"
            PROVE  \E i \in DOMAIN queue' : queue'[i] = m
        <4>1. CASE m = x
          BY <3>3, <4>1
        <4>2. CASE m # x
          <5>1. status[m] = "queued"
            BY <2>1, <3>2, <3>4, <4>2 DEF EnqueuePush
          <5>2. PICK i \in DOMAIN queue : queue[i] = m
            BY <5>1 DEF HandInv
          <5>3. QED
            BY <3>3, <5>2
        <4>3. QED
          BY <4>1, <4>2
      <3>5. /\ status' = [status EXCEPT ![x] = "queued"] /\ cpc' = [cpc EXCEPT ![c] = "pushed"]
            /\ UNCHANGED <<hand, tpc, held>>
        BY <2>1, <3>2 DEF EnqueuePush
      <3>6. \A d \in Clients : cpc'[d] = "accepted" => cpc[d] = "accepted" /\ hand[d] # x
        BY <2>1, <3>2, <3>5 DEF EnqueuePush, HandInv, ThreadInv, TypeOK
      <3>7. \A i \in DOMAIN queue' : queue'[i] \in Tasks =>
              status'[queue'[i]] \in {"queued", "held", "done"}
        <4>1. \A n \in Tasks : status'[n] = IF n = x THEN "queued" ELSE status[n]
          BY <3>5 DEF ThreadInv, TypeOK
        <4>2. \A i \in DOMAIN queue' : queue'[i] = x \/ (i \in DOMAIN queue /\ queue'[i] = queue[i])
          BY <3>3
        <4>3. QED
          BY <4>1, <4>2 DEF HandInv
      <3>8. \A n \in Tasks : status'[n] = "held" <=> held = n
        BY <2>1, <3>2, <3>5 DEF EnqueuePush, HandInv, ThreadInv, TypeOK
      <3>9. /\ \A d \in Clients : cpc'[d] # "idle" => hand[d] \in Tasks
            /\ \A d \in Clients : cpc'[d] = "accepted" => status'[hand[d]] = "posting"
        BY <3>1, <3>2, <3>5, <3>6 DEF HandInv, ThreadInv, TypeOK
      <3>10. QED
        BY <3>4, <3>5, <3>6, <3>7, <3>8, <3>9 DEF HandInv
    <2>2. CASE EnqueueSend(c)
      BY <2>2 DEF EnqueueSend, Send, ThreadInv, HandInv, TypeOK
    <2>3. QED
      BY <1>2, <2>1, <2>2 DEF Enqueue
  <1>3. ASSUME NEW safe \in BOOLEAN, Stop(safe)
        PROVE  HandInv'
    BY <1>3 DEF Stop, SetStopping, ThreadInv, HandInv, TypeOK
  <1>4. ASSUME Destroy
        PROVE  HandInv'
    BY <1>4 DEF Destroy, SetStopping, ThreadInv, HandInv, TypeOK
  <1>5. ASSUME OwnerStep
        PROVE  HandInv'
    <2>1. CASE StopCheckRunning
      BY <2>1 DEF StopCheckRunning, StopReturns, ThreadInv, HandInv, TypeOK
    <2>2. CASE StopCheckEmpty
      BY <2>2 DEF StopCheckEmpty, StopReturns, ThreadInv, HandInv, TypeOK
    <2>3. CASE StopPush
      <3>1. /\ \A i \in DOMAIN queue : i \in DOMAIN queue' /\ queue'[i] = queue[i]
            /\ \A i \in DOMAIN queue' : i \in DOMAIN queue \/ queue'[i] = StopMsg
        BY <2>3, AppendIndex DEF StopPush, ThreadInv, TypeOK
      <3>2. QED
        BY <2>3, <3>1 DEF StopPush, HandInv
    <2>4. CASE StopSend
      BY <2>4 DEF StopSend, Send, StopReturns, ThreadInv, HandInv, TypeOK
    <2>5. CASE Join
      BY <2>5 DEF Join, ThreadInv, HandInv, TypeOK
    <2>6. QED
      BY <1>5, <2>1, <2>2, <2>3, <2>4, <2>5 DEF OwnerStep
  <1>6. ASSUME ThreadStep
        PROVE  HandInv'
    <2>1. CASE Start
      BY <2>1 DEF Start, ThreadInv, HandInv, TypeOK
    <2>2. CASE SetRunning
      BY <2>2 DEF SetRunning, ThreadInv, HandInv, TypeOK
    <2>3. CASE MakeEvent
      BY <2>3 DEF MakeEvent, ThreadInv, HandInv, TypeOK
    <2>4. CASE StartEvent
      BY <2>4 DEF StartEvent, ThreadInv, HandInv, TypeOK
    <2>5. CASE Dequeue
      <3>1. ASSUME NEW m \in Tasks, status'[m] = "queued"
            PROVE  \E i \in DOMAIN queue' : queue'[i] = m
        <4>1. status[m] = "queued" /\ m # Head(queue)
          BY <2>5, <3>1 DEF Dequeue
        <4>2. PICK i \in DOMAIN queue : queue[i] = m
          BY <4>1 DEF HandInv
        <4>3. i - 1 \in DOMAIN queue' /\ queue'[i - 1] = m
          BY <2>5, <4>1, <4>2, TailIndex DEF Dequeue, ThreadInv, TypeOK
        <4>4. QED
          BY <4>3
      <3>2. \A m \in Tasks : status[m] # "held"
        BY <2>5 DEF Dequeue, HandInv
      <3>3. /\ \A i \in DOMAIN queue' : i + 1 \in DOMAIN queue /\ queue'[i] = queue[i + 1]
            /\ 1 \in DOMAIN queue /\ Head(queue) = queue[1]
        BY <2>5, TailIndex DEF Dequeue, ThreadInv, TypeOK
      <3>4. /\ held' = Head(queue) /\ tpc' = "processing" /\ UNCHANGED <<cpc, hand>>
            /\ \A m \in Tasks : status'[m] = IF m = Head(queue) THEN "held" ELSE status[m]
        BY <2>5 DEF Dequeue
      <3>5. \A m \in Tasks : status'[m] = "held" <=> held' = m
        BY <3>2, <3>4
      <3>6. \A i \in DOMAIN queue' : queue'[i] \in Tasks =>
              status'[queue'[i]] \in {"queued", "held", "done"}
        BY <3>3, <3>4 DEF HandInv
      <3>7. \A c \in Clients : cpc[c] = "accepted" => hand[c] # Head(queue)
        BY <3>3 DEF HandInv
      <3>8. \A c \in Clients : cpc'[c] = "accepted" => status'[hand'[c]] = "posting"
        BY <3>4, <3>7 DEF HandInv
      <3>9. QED
        BY <3>1, <3>4, <3>5, <3>6, <3>8 DEF HandInv
    <2>6. CASE Process
      BY <2>6 DEF Process, ThreadInv, HandInv, TypeOK
    <2>7. CASE QueueEmpty
      BY <2>7 DEF QueueEmpty, ThreadInv, HandInv, TypeOK
    <2>8. CASE Return
      BY <2>8 DEF Return, ThreadInv, HandInv, TypeOK
    <2>9. CASE EnterLoop
      BY <2>9 DEF EnterLoop, ThreadInv, HandInv, TypeOK
    <2>10. CASE Wake
      BY <2>10 DEF Wake, ThreadInv, HandInv, TypeOK
    <2>11. CASE LeaveLoop
      BY <2>11 DEF LeaveLoop, ThreadInv, HandInv, TypeOK
    <2>12. CASE Finish
      BY <2>12 DEF Finish, ThreadInv, HandInv, TypeOK
    <2>13. QED
      BY <1>6, <2>1, <2>2, <2>3, <2>4, <2>5, <2>6, <2>7, <2>8, <2>9, <2>10, <2>11, <2>12
         DEF ThreadStep
  <1>7. QED
    BY <1>1, <1>2, <1>3, <1>4, <1>5, <1>6 DEF Next

LEMMA LateStep ==
  ASSUME StopWhen = "looping", LifeInv, Next
  PROVE  LateInv'
  <1> USE ConstantsAssumption DEF ConstantsAssumption, eventVars, loopVars, threadVars, clientVars,
          ownerVars, Goto
  <1>1. ASSUME NEW c \in Clients, NEW m \in Tasks, Post(c, m)
        PROVE  LateInv'
    BY <1>1 DEF Post, LifeInv, ThreadInv, PlaceInv, LateInv, HandInv, TypeOK
  <1>2. ASSUME NEW c \in Clients, Enqueue(c)
        PROVE  LateInv'
    <2>1. CASE EnqueuePush(c)
      <3>1. hand[c] \in Tasks
        BY <2>1 DEF EnqueuePush, LifeInv, HandInv
      <3>2. \A i \in DOMAIN queue' : queue'[i] = StopMsg => i \in DOMAIN queue /\ queue[i] = StopMsg
        BY <2>1, <3>1, AppendIndex DEF EnqueuePush, LifeInv, ThreadInv, TypeOK
      <3>3. QED
        BY <2>1, <3>2 DEF EnqueuePush, LifeInv, LateInv
    <2>2. CASE EnqueueSend(c)
      BY <2>2 DEF EnqueueSend, Send, LifeInv, ThreadInv, PlaceInv, LateInv, HandInv, TypeOK
    <2>3. QED
      BY <1>2, <2>1, <2>2 DEF Enqueue
  <1>3. ASSUME NEW safe \in BOOLEAN, Stop(safe)
        PROVE  LateInv'
    BY <1>3 DEF Stop, SetStopping, MayStop, LifeInv, ThreadInv, PlaceInv, LateInv, HandInv, TypeOK
  <1>4. ASSUME Destroy
        PROVE  LateInv'
    BY <1>4 DEF Destroy, SetStopping, MayStop, LifeInv, ThreadInv, PlaceInv, LateInv, HandInv, TypeOK
  <1>5. ASSUME OwnerStep
        PROVE  LateInv'
    <2>1. CASE StopCheckRunning
      BY <2>1 DEF StopCheckRunning, StopReturns, LifeInv, ThreadInv, PlaceInv, LateInv, HandInv, TypeOK
    <2>2. CASE StopCheckEmpty
      BY <2>2 DEF StopCheckEmpty, StopReturns, LifeInv, ThreadInv, PlaceInv, LateInv, HandInv, TypeOK
    <2>3. CASE StopPush
      BY <2>3 DEF StopPush, LifeInv, LateInv
    <2>4. CASE StopSend
      BY <2>4 DEF StopSend, Send, StopReturns, LifeInv, ThreadInv, PlaceInv, LateInv, HandInv, TypeOK
    <2>5. CASE Join
      BY <2>5 DEF Join, LifeInv, ThreadInv, PlaceInv, LateInv, HandInv, TypeOK
    <2>6. QED
      BY <1>5, <2>1, <2>2, <2>3, <2>4, <2>5 DEF OwnerStep
  <1>6. ASSUME ThreadStep
        PROVE  LateInv'
    <2>1. CASE Start
      BY <2>1 DEF Start, LifeInv, ThreadInv, PlaceInv, LateInv, HandInv, TypeOK
    <2>2. CASE SetRunning
      BY <2>2 DEF SetRunning, LifeInv, ThreadInv, PlaceInv, LateInv, HandInv, TypeOK
    <2>3. CASE MakeEvent
      BY <2>3 DEF MakeEvent, LifeInv, ThreadInv, PlaceInv, LateInv, HandInv, TypeOK
    <2>4. CASE StartEvent
      BY <2>4 DEF StartEvent, LifeInv, ThreadInv, PlaceInv, LateInv, HandInv, TypeOK
    <2>5. CASE Dequeue
      <3>1. \A i \in DOMAIN queue' : i + 1 \in DOMAIN queue /\ queue'[i] = queue[i + 1]
        BY <2>5, TailIndex DEF Dequeue, LifeInv, ThreadInv, TypeOK
      <3>2. 1 \in DOMAIN queue /\ held' = queue[1]
        BY <2>5, TailIndex DEF Dequeue, LifeInv, ThreadInv, TypeOK
      <3>3. QED
        BY <2>5, <3>1, <3>2 DEF Dequeue, LifeInv, LateInv
    <2>6. CASE Process
      BY <2>6 DEF Process, LifeInv, ThreadInv, PlaceInv, LateInv, HandInv, TypeOK
    <2>7. CASE QueueEmpty
      BY <2>7 DEF QueueEmpty, LifeInv, ThreadInv, PlaceInv, LateInv, HandInv, TypeOK
    <2>8. CASE Return
      BY <2>8 DEF Return, LifeInv, ThreadInv, PlaceInv, LateInv, HandInv, TypeOK
    <2>9. CASE EnterLoop
      BY <2>9 DEF EnterLoop, LifeInv, ThreadInv, PlaceInv, LateInv, HandInv, TypeOK
    <2>10. CASE Wake
      BY <2>10 DEF Wake, LifeInv, ThreadInv, PlaceInv, LateInv, HandInv, TypeOK
    <2>11. CASE LeaveLoop
      BY <2>11 DEF LeaveLoop, LifeInv, ThreadInv, PlaceInv, LateInv, HandInv, TypeOK
    <2>12. CASE Finish
      BY <2>12 DEF Finish, LifeInv, ThreadInv, PlaceInv, LateInv, HandInv, TypeOK
    <2>13. QED
      BY <1>6, <2>1, <2>2, <2>3, <2>4, <2>5, <2>6, <2>7, <2>8, <2>9, <2>10, <2>11, <2>12
         DEF ThreadStep
  <1>7. QED
    BY <1>1, <1>2, <1>3, <1>4, <1>5, <1>6 DEF Next

LEMMA WakeStep ==
  ASSUME LifeInv, Next
  PROVE  WakeInv'
  <1> USE ConstantsAssumption DEF ConstantsAssumption, eventVars, loopVars, threadVars, clientVars,
          ownerVars, Goto
  <1>1. ASSUME NEW c \in Clients, NEW m \in Tasks, Post(c, m)
        PROVE  WakeInv'
    BY <1>1 DEF Post, LifeInv, ThreadInv, PlaceInv, LateInv, HandInv, WakeInv, TypeOK
  <1>2. ASSUME NEW c \in Clients, Enqueue(c)
        PROVE  WakeInv'
    <2>1. CASE EnqueuePush(c)
      BY <2>1 DEF EnqueuePush, LifeInv, ThreadInv, PlaceInv, LateInv, HandInv, WakeInv, TypeOK
    <2>2. CASE EnqueueSend(c)
      BY <2>2 DEF EnqueueSend, Send, LifeInv, ThreadInv, PlaceInv, LateInv, HandInv, WakeInv, TypeOK
    <2>3. QED
      BY <1>2, <2>1, <2>2 DEF Enqueue
  <1>3. ASSUME NEW safe \in BOOLEAN, Stop(safe)
        PROVE  WakeInv'
    BY <1>3 DEF Stop, SetStopping, MayStop, LifeInv, ThreadInv, PlaceInv, LateInv, HandInv, WakeInv, TypeOK
  <1>4. ASSUME Destroy
        PROVE  WakeInv'
    BY <1>4 DEF Destroy, SetStopping, MayStop, LifeInv, ThreadInv, PlaceInv, LateInv, HandInv, WakeInv, TypeOK
  <1>5. ASSUME OwnerStep
        PROVE  WakeInv'
    <2>1. CASE StopCheckRunning
      BY <2>1 DEF StopCheckRunning, StopReturns, LifeInv, ThreadInv, PlaceInv, LateInv, HandInv, WakeInv, TypeOK
    <2>2. CASE StopCheckEmpty
      BY <2>2 DEF StopCheckEmpty, StopReturns, LifeInv, ThreadInv, PlaceInv, LateInv, HandInv, WakeInv, TypeOK
    <2>3. CASE StopPush
      BY <2>3 DEF StopPush, LifeInv, ThreadInv, PlaceInv, LateInv, HandInv, WakeInv, TypeOK
    <2>4. CASE StopSend
      BY <2>4 DEF StopSend, Send, StopReturns, LifeInv, ThreadInv, PlaceInv, LateInv, HandInv, WakeInv, TypeOK
    <2>5. CASE Join
      BY <2>5 DEF Join, LifeInv, ThreadInv, PlaceInv, LateInv, HandInv, WakeInv, TypeOK
    <2>6. QED
      BY <1>5, <2>1, <2>2, <2>3, <2>4, <2>5 DEF OwnerStep
  <1>6. ASSUME ThreadStep
        PROVE  WakeInv'
    <2>1. CASE Start
      BY <2>1 DEF Start, LifeInv, ThreadInv, PlaceInv, LateInv, HandInv, WakeInv, TypeOK
    <2>2. CASE SetRunning
      BY <2>2 DEF SetRunning, LifeInv, ThreadInv, PlaceInv, LateInv, HandInv, WakeInv, TypeOK
    <2>3. CASE MakeEvent
      BY <2>3 DEF MakeEvent, LifeInv, ThreadInv, PlaceInv, LateInv, HandInv, WakeInv, TypeOK
    <2>4. CASE StartEvent
      BY <2>4 DEF StartEvent, LifeInv, ThreadInv, PlaceInv, LateInv, HandInv, WakeInv, TypeOK
    <2>5. CASE Dequeue
      BY <2>5 DEF Dequeue, LifeInv, ThreadInv, PlaceInv, LateInv, HandInv, WakeInv, TypeOK
    <2>6. CASE Process
      BY <2>6 DEF Process, LifeInv, ThreadInv, PlaceInv, LateInv, HandInv, WakeInv, TypeOK
    <2>7. CASE QueueEmpty
      BY <2>7 DEF QueueEmpty, LifeInv, ThreadInv, PlaceInv, LateInv, HandInv, WakeInv, TypeOK
    <2>8. CASE Return
      BY <2>8 DEF Return, LifeInv, ThreadInv, PlaceInv, LateInv, HandInv, WakeInv, TypeOK
    <2>9. CASE EnterLoop
      BY <2>9 DEF EnterLoop, LifeInv, ThreadInv, PlaceInv, LateInv, HandInv, WakeInv, TypeOK
    <2>10. CASE Wake
      BY <2>10 DEF Wake, LifeInv, ThreadInv, PlaceInv, LateInv, HandInv, WakeInv, TypeOK
    <2>11. CASE LeaveLoop
      BY <2>11 DEF LeaveLoop, LifeInv, ThreadInv, PlaceInv, LateInv, HandInv, WakeInv, TypeOK
    <2>12. CASE Finish
      BY <2>12 DEF Finish, LifeInv, ThreadInv, PlaceInv, LateInv, HandInv, WakeInv, TypeOK
    <2>13. QED
      BY <1>6, <2>1, <2>2, <2>3, <2>4, <2>5, <2>6, <2>7, <2>8, <2>9, <2>10, <2>11, <2>12
         DEF ThreadStep
  <1>7. QED
    BY <1>1, <1>2, <1>3, <1>4, <1>5, <1>6 DEF Next

\* A message that the thread has taken on stays there until it is done.
LEMMA TakenStays ==
  ASSUME LifeInv, Next, NEW m \in Tasks, status[m] \in {"queued", "held", "done"}
  PROVE  /\ status'[m] \in {"queued", "held", "done"}
         /\ status[m] = "done" /\ (tpc # "draining" \/ queue = <<>>) => status'[m] = "done"
  <1>1. ASSUME NEW c \in Clients, NEW n \in Tasks, Post(c, n)
        PROVE  status'[m] = status[m]
    BY <1>1 DEF Post, LifeInv, ThreadInv, TypeOK
  <1>2. ASSUME NEW c \in Clients, Enqueue(c)
        PROVE  status'[m] = status[m]
    BY <1>2 DEF Enqueue, EnqueuePush, EnqueueSend, LifeInv, HandInv, ThreadInv, TypeOK
  <1>3. ASSUME (\E safe \in BOOLEAN : Stop(safe)) \/ Destroy \/ OwnerStep
        PROVE  status'[m] = status[m]
    BY <1>3 DEF Stop, Destroy, OwnerStep, StopCheckRunning, StopCheckEmpty, StopPush, StopSend, Join
  <1>4. ASSUME ThreadStep
        PROVE  /\ status'[m] \in {status[m], "held", "done"}
               /\ tpc # "draining" \/ queue = <<>> => status'[m] \in {status[m], "done"}
    BY <1>4 DEF ThreadStep, Start, SetRunning, MakeEvent, StartEvent, Dequeue, Process, QueueEmpty,
       Return, EnterLoop, Wake, LeaveLoop, Finish, Goto
  <1>5. QED
    BY <1>1, <1>2, <1>3, <1>4 DEF Next

LEMMA BacklogFrame ==
  ASSUME LifeInv, Next, backlog' = backlog,
         loopDone' /\ tpc' \in {"returning", "polling", "finalized", "finished"} =>
           \/ loopDone /\ tpc \in {"returning", "polling", "finalized", "finished"}
           \/ queue = <<>> /\ held = NoMsg
  PROVE  BacklogInv'
  <1> USE ConstantsAssumption DEF ConstantsAssumption
  <1>1. \A m \in backlog : m \in Tasks /\ status[m] \in {"queued", "held", "done"}
    BY DEF LifeInv, ThreadInv, TypeOK, BacklogInv
  <1>2. \A m \in backlog : status'[m] \in {"queued", "held", "done"}
    BY <1>1, TakenStays
  <1>3. ASSUME loopDone', tpc' \in {"returning", "polling", "finalized", "finished"},
               NEW m \in backlog
        PROVE  status'[m] = "done"
    <2>1. CASE loopDone /\ tpc \in {"returning", "polling", "finalized", "finished"}
      <3>1. status[m] = "done" /\ tpc # "draining"
        BY <2>1 DEF LifeInv, BacklogInv
      <3>2. QED
        BY <1>1, <3>1, TakenStays
    <2>2. CASE queue = <<>> /\ held = NoMsg
      <3>1. DOMAIN queue = {}
        BY <2>2
      <3>2. status[m] # "queued" /\ status[m] # "held"
        BY <1>1, <2>2, <3>1 DEF LifeInv, HandInv
      <3>3. QED
        BY <1>1, <2>2, <3>2, TakenStays
    <2>3. QED
      BY <1>3, <2>1, <2>2
  <1>4. QED
    BY <1>2, <1>3 DEF BacklogInv

\* The first stop() finds a loop that nobody has told to stop.
LEMMA BacklogBegins ==
  ASSUME LifeInv, SetStopping, UNCHANGED <<status, loopDone, tpc>>
  PROVE  BacklogInv'
  <1>1. CASE stopping
    BY <1>1 DEF SetStopping, LifeInv, BacklogInv
  <1>2. CASE ~stopping
    BY <1>2 DEF SetStopping, LifeInv, LateInv, BacklogInv
  <1>3. QED
    BY <1>1, <1>2

LEMMA BacklogStep ==
  ASSUME LifeInv, Next
  PROVE  BacklogInv'
  <1> USE ConstantsAssumption DEF ConstantsAssumption, Goto, threadVars, loopVars, ownerVars
  <1>1. CASE UNCHANGED <<backlog, loopDone, tpc>>
    BY <1>1, BacklogFrame
  <1>2. ASSUME NEW c \in Clients, (\E m \in Tasks : Post(c, m)) \/ Enqueue(c)
        PROVE  BacklogInv'
    BY <1>1, <1>2 DEF Post, Enqueue, EnqueuePush, EnqueueSend
  <1>3. ASSUME (\E safe \in BOOLEAN : Stop(safe)) \/ Destroy
        PROVE  BacklogInv'
    BY <1>3, BacklogBegins DEF Stop, Destroy
  <1>4. ASSUME OwnerStep
        PROVE  BacklogInv'
    BY <1>1, <1>4 DEF OwnerStep, StopCheckRunning, StopCheckEmpty, StopPush, StopSend, Join
  <1>5. ASSUME ThreadStep
        PROVE  BacklogInv'
    <2>1. CASE QueueEmpty \/ Return
      <3>1. queue' = queue /\ held = NoMsg /\ backlog' = backlog /\ tpc \in {"draining", "returning"}
        BY <2>1 DEF QueueEmpty, Return, LifeInv, HandInv
      <3>2. tpc = "draining" => queue = <<>>
        BY <2>1 DEF QueueEmpty, Return
      <3>3. loopDone' => loopDone \/ queue = <<>>
        BY <2>1 DEF QueueEmpty, Return
      <3>4. QED
        BY <3>1, <3>2, <3>3, BacklogFrame
    <2>2. CASE Start
      BY <2>2, BacklogFrame DEF Start, LifeInv, LateInv, ThreadInv, PlaceInv
    <2>3. CASE EnterLoop
      BY <2>3, BacklogFrame DEF EnterLoop
    <2>4. CASE SetRunning \/ MakeEvent \/ StartEvent \/ Dequeue \/ Process \/ Wake
      <3>1. backlog' = backlog /\ tpc' \notin {"returning", "polling", "finalized", "finished"}
        BY <2>4 DEF SetRunning, MakeEvent, StartEvent, Dequeue, Process, Wake
      <3>2. QED
        BY <3>1, BacklogFrame
    <2>5. CASE LeaveLoop \/ Finish
      BY <2>5, BacklogFrame DEF LeaveLoop, Finish
    <2>6. QED
      BY <1>5, <2>1, <2>2, <2>3, <2>4, <2>5 DEF ThreadStep
  <1>6. QED
    BY <1>2, <1>3, <1>4, <1>5 DEF Next

-----------------------------------------------------------------------------

LEMMA InitLifeInv == Init => LifeInv
  <1> SUFFICES ASSUME Init PROVE LifeInv
    OBVIOUS
  <1> USE ConstantsAssumption DEF ConstantsAssumption, Init
  <1>1. TypeOK
    <2>1. status \in [Tasks -> TaskStatus] /\ tpc \in Places
      BY DEF TaskStatus, Places
    <2>2. queue \in Seq(Tasks \cup {StopMsg}) /\ count \in Nat /\ stops \in 0..MaxStops
      OBVIOUS
    <2>3. QED
      BY <2>1, <2>2 DEF TypeOK
  <1>2. PlaceInv /\ CountInv
    BY DEF PlaceInv, CountInv
  <1>3. HandInv
    BY DEF HandInv
  <1>4. LateInv /\ WakeInv /\ BacklogInv
    BY DEF LateInv, WakeInv, BacklogInv
  <1>5. QED
    BY <1>1, <1>2, <1>3, <1>4 DEF LifeInv, ThreadInv

\* Type correctness of the life of a thread, whenever it is stopped; with it the
\* count of queued_event_, which the callback decrements, stays a natural number.
THEOREM TypeCorrect == Spec => []TypeOK
  <1>1. Init => ThreadInv /\ HandInv
    BY InitLifeInv DEF LifeInv
  <1>2. ThreadInv /\ HandInv /\ [Next]_vars => (ThreadInv /\ HandInv)'
    <2>1. CASE Next
      BY <2>1, TypeStep, PlaceStep, CountStep, HandStep DEF ThreadInv
    <2>2. CASE UNCHANGED vars
      BY <2>2 DEF vars, eventVars, loopVars, threadVars, clientVars, ownerVars, ThreadInv, TypeOK,
         PlaceInv, CountInv, HandInv
    <2>3. QED
      BY <2>1, <2>2
  <1>3. ThreadInv => TypeOK
    BY DEF ThreadInv
  <1>4. QED
    BY <1>1, <1>2, <1>3, PTL DEF Spec

\* With an owner that waits for the loop before it stops the thread, no wake-up is
\* lost while the thread starts, stop() finds the event of the thread, and every
\* message accepted before stop() has been handled when the thread ends.
THEOREM LateStop ==
  ASSUME StopWhen = "looping"
  PROVE  Spec => []LateStopInv
  <1>1. LifeInv /\ [Next]_vars => LifeInv'
    <2> SUFFICES ASSUME LifeInv, [Next]_vars
                 PROVE  LifeInv'
      OBVIOUS
    <2>1. CASE Next
      <3>1. ThreadInv'
        BY <2>1, TypeStep, PlaceStep, CountStep DEF LifeInv, ThreadInv
      <3>2. HandInv'
        BY <2>1, HandStep DEF LifeInv
      <3>3. QED
        BY <2>1, <3>1, <3>2, LateStep, WakeStep, BacklogStep DEF LifeInv
    <2>2. CASE UNCHANGED vars
      BY <2>2 DEF vars, eventVars, loopVars, threadVars, clientVars, ownerVars, LifeInv, ThreadInv,
         TypeOK, PlaceInv, CountInv, HandInv, LateInv, WakeInv, BacklogInv
    <2>3. QED
      BY <2>1, <2>2
  <1>2. LifeInv => LateStopInv
    BY DEF LifeInv, ThreadInv, LateInv, WakeInv, BacklogInv, LateStopInv, NoLostWakeup,
       EventExists, BacklogHandled
  <1>3. QED
    BY InitLifeInv, <1>1, <1>2, PTL DEF Spec


-----------------------------------------------------------------------------
(* thread_pool *)

Busy == {c \in Posters : pc[c] # "idle"}

\* A task is counted when its post begins.
PostedInv == posted = Len(given) + Cardinality(Busy)

\* What the owner is about decides what threads and clients do.
OwnerInv ==
  /\ owner = "down" <=> threads = <<>>
  /\ owner # "up" => Busy = {}
  /\ owner = "up" => \A i \in 1..Len(threads) : threads[i].state \in {"starting", "running"}
  /\ owner = "clearing" => \A i \in 1..Len(threads) : i < next => threads[i].state = "ended"

\* A task that nobody keeps back has run or is in a queue; a thread that has ended
\* has nothing in its queue.
TaskInv ==
  /\ \A k \in Immediate :
       \/ k \in ran
       \/ \E i \in 1..Len(threads) : \E j \in 1..Len(threads[i].queue) : threads[i].queue[j] = k
  /\ \A i \in 1..Len(threads) : \A j \in 1..Len(threads[i].queue) :
       threads[i].queue[j] \in 1..Len(given)
  /\ \A i \in 1..Len(threads) : threads[i].state = "ended" => threads[i].queue = <<>>

PoolInv == PoolTypeOK /\ PostedInv /\ OwnerInv /\ TaskInv

\* The index of the thread that took the last post, 0 before the first.
Last(c) == IF pc[c] = "idle" THEN curIdx
           ELSE IF pc[c] = "swap" THEN idx[c]
           ELSE IF idx[c] = 0 THEN size - 1 ELSE idx[c] - 1

\* The index is one ahead of the last post from the swap to the end of the post.
\* The threads 2, 3, ... up to the last one have one post more than the others.
RoundInv(c) ==
  /\ pc[c] = "swap" => curIdx \in {idx[c], (idx[c] + 1) % size}
  /\ pc[c] = "post" => curIdx = idx[c]
  /\ \A i \in 2..size : Count(i) = IF i <= Last(c) + 1 THEN Count(1) + 1 ELSE Count(1)

-----------------------------------------------------------------------------
(* Threads *)

\* A step of one thread leaves the others alone.
LEMMA ReplaceAt ==
  ASSUME NEW S, NEW s \in Seq(S), NEW i \in 1..Len(s), NEW x \in S
  PROVE  /\ [s EXCEPT ![i] = x] \in Seq(S)
         /\ Len([s EXCEPT ![i] = x]) = Len(s)
         /\ [s EXCEPT ![i] = x][i] = x
         /\ \A j \in 1..Len(s) : j # i => [s EXCEPT ![i] = x][j] = s[j]
  OBVIOUS

-----------------------------------------------------------------------------
(* The steps that change threads_ *)

ThreadRecord == [state : {"starting", "running", "stopping", "ended"}, queue : Seq(1..MaxTasks)]

\* What a step does to threads_ when it is about thread i.
Becomes(i, r) ==
  /\ i \in 1..Len(threads) /\ r \in ThreadRecord
  /\ threads' \in Seq(ThreadRecord) /\ Len(threads') = Len(threads)
  /\ threads'[i] = r
  /\ \A j \in 1..Len(threads) : j # i => threads'[j] = threads[j]

LEMMA ThreadsLength ==
  ASSUME PoolInv
  PROVE  /\ threads \in Seq(ThreadRecord) /\ size \in Nat \ {0}
         /\ Len(threads) = IF owner = "down" THEN 0 ELSE size
  <1>1. threads \in Seq(ThreadRecord) /\ Len(threads) \in {0, size} /\ size \in Nat \ {0}
    BY DEF PoolInv, PoolTypeOK, ThreadRecord
  <1>2. Len(threads) = 0 <=> threads = <<>>
    BY <1>1
  <1>3. QED
    BY <1>1, <1>2 DEF PoolInv, OwnerInv

LEMMA NewThreadsType ==
  ASSUME NEW n \in Nat \ {0}
  PROVE  /\ NewThreads(n) \in Seq(ThreadRecord) /\ Len(NewThreads(n)) = n
         /\ \A i \in 1..n : NewThreads(n)[i] = [state |-> "starting", queue |-> <<>>]
  <1>1. NewThread \in ThreadRecord
    BY DEF NewThread, ThreadRecord
  <1>2. QED
    BY <1>1 DEF NewThreads, NewThread

LEMMA BecomesRule ==
  ASSUME threads \in Seq(ThreadRecord), NEW i \in 1..Len(threads), NEW r \in ThreadRecord,
         threads' = [threads EXCEPT ![i] = r]
  PROVE  Becomes(i, r)
  BY ReplaceAt DEF Becomes

LEMMA QueueRecord ==
  ASSUME NEW t \in ThreadRecord, NEW q, NEW x
  PROVE  /\ [t EXCEPT !.queue = q] = [state |-> t.state, queue |-> q]
         /\ [t EXCEPT !.state = x] = [state |-> x, queue |-> t.queue]
  BY DEF ThreadRecord

\* A client that posts finds the pool up, and its task gets a number in range.
LEMMA PostBecomes ==
  ASSUME PoolInv, NEW c \in Posters, PostTask(c)
  PROVE  /\ owner = "up" /\ Len(given) + 1 \in 1..MaxTasks
         /\ Becomes(idx[c] + 1, [state |-> threads[idx[c] + 1].state,
              queue |-> Append(threads[idx[c] + 1].queue, Len(given) + 1)])
  <1> USE PoolAssumption DEF PoolAssumption
  <1> DEFINE i == idx[c] + 1
             r == [state |-> threads[i].state, queue |-> Append(threads[i].queue, Len(given) + 1)]
  <1>1. c \in Busy
    BY DEF PostTask, Busy
  <1>2. owner = "up"
    BY <1>1 DEF PoolInv, OwnerInv
  <1>3. IsFiniteSet(Busy)
    BY FS_Subset DEF Busy
  <1>4. Cardinality(Busy) \in Nat /\ Cardinality(Busy) # 0
    BY <1>1, <1>3, FS_CardinalityType, FS_EmptySet
  <1>5. Len(given) + 1 \in 1..MaxTasks
    <2>1. Len(given) \in Nat /\ posted \in 0..MaxTasks
      BY DEF PoolInv, PoolTypeOK
    <2>2. QED
      BY <1>4, <2>1 DEF PoolInv, PostedInv
  <1>6. threads \in Seq(ThreadRecord) /\ i \in 1..Len(threads)
    <2>1. idx[c] \in 0..size - 1
      BY DEF PoolInv, PoolTypeOK
    <2>2. QED
      BY <1>2, <2>1, ThreadsLength
  <1>7. threads[i] \in ThreadRecord
    BY <1>6
  <1>8. r \in ThreadRecord
    BY <1>5, <1>7, AppendIndex DEF ThreadRecord
  <1>9. threads' = [threads EXCEPT ![i] = r]
    <2>1. [threads[i] EXCEPT !.queue = Append(@, Len(given) + 1)] = r
      BY <1>7, QueueRecord
    <2>2. threads' = [threads EXCEPT ![i].queue = Append(@, Len(given) + 1)]
      BY DEF PostTask
    <2>3. QED
      BY <2>1, <2>2
  <1>10. QED
    BY <1>2, <1>5, <1>6, <1>8, <1>9, BecomesRule

\* There are no more tasks than the bound allows.
LEMMA TaskRange ==
  ASSUME PoolInv
  PROVE  Len(given) \in Nat /\ 1..Len(given) \subseteq 1..MaxTasks
  <1> USE PoolAssumption DEF PoolAssumption
  <1>1. Len(given) \in Nat /\ posted \in 0..MaxTasks
    BY DEF PoolInv, PoolTypeOK
  <1>2. IsFiniteSet(Busy)
    BY FS_Subset DEF Busy
  <1>3. Cardinality(Busy) \in Nat
    BY <1>2, FS_CardinalityType
  <1>4. Len(given) <= MaxTasks
    BY <1>1, <1>3 DEF PoolInv, PostedInv
  <1>5. QED
    BY <1>1, <1>4

\* A thread starts, takes the head of its queue, puts a task back, leaves its
\* queue alone, or ends with an empty queue.
LEMMA WorkBecomes ==
  ASSUME PoolInv, NEW i \in 1..size, Work(i)
  PROVE  \/ /\ threads[i].state = "starting" /\ ran' = ran
            /\ Becomes(i, [state |-> "running", queue |-> threads[i].queue])
         \/ /\ InLoop(i) /\ threads[i].queue # <<>> /\ Take(i)
            /\ Becomes(i, [state |-> threads[i].state, queue |-> Tail(threads[i].queue)])
         \/ /\ InLoop(i) /\ ran' = ran
            /\ \E k \in 1..Len(given) :
                 Becomes(i, [state |-> threads[i].state, queue |-> Append(threads[i].queue, k)])
         \/ /\ i \in 1..Len(threads) /\ threads' = threads /\ ran \subseteq ran'
         \/ /\ threads[i].state = "stopping" /\ threads[i].queue = <<>> /\ ran' = ran
            /\ Becomes(i, [state |-> "ended", queue |-> threads[i].queue])
  <1>1. threads \in Seq(ThreadRecord) /\ i \in 1..Len(threads)
    BY ThreadsLength DEF Work
  <1>2. threads[i] \in ThreadRecord
    BY <1>1
  <1>3. threads[i].queue \in Seq(1..MaxTasks)
    BY <1>2 DEF ThreadRecord
  <1>4. ASSUME NEW x \in {"running", "ended"}, threads' = [threads EXCEPT ![i].state = x]
        PROVE  Becomes(i, [state |-> x, queue |-> threads[i].queue])
    <2>1. [threads[i] EXCEPT !.state = x] = [state |-> x, queue |-> threads[i].queue]
      BY <1>2, QueueRecord
    <2>2. [state |-> x, queue |-> threads[i].queue] \in ThreadRecord
      BY <1>3 DEF ThreadRecord
    <2>3. threads' = [threads EXCEPT ![i] = [state |-> x, queue |-> threads[i].queue]]
      BY <1>4, <2>1
    <2>4. QED
      BY <1>1, <2>2, <2>3, BecomesRule
  <1>5. CASE /\ threads[i].state = "starting"
             /\ threads' = [threads EXCEPT ![i].state = "running"]
             /\ ran' = ran
    BY <1>4, <1>5
  <1>6. CASE Take(i)
    <2> DEFINE r == [state |-> threads[i].state, queue |-> Tail(threads[i].queue)]
    <2>1. [threads[i] EXCEPT !.queue = Tail(@)] = r
      BY <1>2, QueueRecord
    <2>2. InLoop(i) /\ threads[i].queue # <<>> /\ threads' = [threads EXCEPT ![i].queue = Tail(@)]
      BY <1>6 DEF Take
    <2>3. r \in ThreadRecord
      BY <1>2, <1>3, <2>2, TailIndex DEF ThreadRecord
    <2>4. threads' = [threads EXCEPT ![i] = r]
      BY <2>1, <2>2
    <2>5. QED
      BY <1>1, <1>6, <2>2, <2>3, <2>4, BecomesRule
  <1>7. CASE /\ threads[i].queue = <<>> /\ threads[i].state = "stopping"
             /\ threads' = [threads EXCEPT ![i].state = "ended"]
             /\ ran' = ran
    BY <1>4, <1>7
  <1>8. CASE PutBack(i)
    <2>1. PICK k \in refused :
            IF threads[i].state = "running"
            THEN threads' = [threads EXCEPT ![i].queue = Append(@, k)]
            ELSE UNCHANGED threads
      BY <1>8 DEF PutBack, Held
    <2>2. k \in 1..Len(given) /\ k \in 1..MaxTasks
      BY TaskRange DEF PoolInv, PoolTypeOK
    <2>3. InLoop(i) /\ ran' = ran
      BY <1>8 DEF PutBack
    <2>4. CASE threads[i].state = "running"
      <3> DEFINE r == [state |-> threads[i].state, queue |-> Append(threads[i].queue, k)]
      <3>1. [threads[i] EXCEPT !.queue = Append(@, k)] = r
        BY <1>2, QueueRecord
      <3>2. r \in ThreadRecord
        BY <1>2, <1>3, <2>2, AppendIndex DEF ThreadRecord
      <3>3. threads' = [threads EXCEPT ![i] = r]
        BY <2>1, <2>4, <3>1
      <3>4. Becomes(i, r)
        BY <1>1, <3>2, <3>3, BecomesRule
      <3>5. QED
        BY <2>2, <2>3, <3>4
    <2>5. CASE threads[i].state # "running"
      BY <1>1, <2>1, <2>3, <2>5
    <2>6. QED
      BY <2>4, <2>5
  <1>9. CASE Fire(i)
    BY <1>1, <1>9 DEF Fire
  <1>10. QED
    BY <1>5, <1>6, <1>7, <1>8, <1>9 DEF Work, BeginThread, EndThread, tasks

LEMMA StopBecomes ==
  ASSUME PoolInv, StopThread, next <= Len(threads)
  PROVE  Becomes(next, [state |-> "stopping", queue |-> threads[next].queue])
  <1>1. threads \in Seq(ThreadRecord) /\ next \in 1..Len(threads)
    BY ThreadsLength DEF PoolInv, PoolTypeOK
  <1>2. threads[next] \in ThreadRecord
    BY <1>1
  <1>3. /\ [threads[next] EXCEPT !.state = "stopping"]
             = [state |-> "stopping", queue |-> threads[next].queue]
        /\ [state |-> "stopping", queue |-> threads[next].queue] \in ThreadRecord
    BY <1>2, QueueRecord DEF ThreadRecord
  <1>4. threads' = [threads EXCEPT ![next].state = "stopping"]
    BY DEF StopThread
  <1>5. threads' = [threads EXCEPT ![next] = [state |-> "stopping", queue |-> threads[next].queue]]
    BY <1>3, <1>4
  <1>6. QED
    BY <1>1, <1>3, <1>5, BecomesRule

-----------------------------------------------------------------------------
(* Every step preserves each part of the invariant *)

LEMMA PoolTypeStep ==
  ASSUME PoolInv, PoolNext
  PROVE  PoolTypeOK'
  <1> USE PoolAssumption DEF PoolAssumption
  <1>1. /\ size \in Nat \ {0} /\ curIdx \in 0..size - 1
        /\ threads \in Seq(ThreadRecord) /\ Len(threads) \in {0, size}
        /\ owner \in {"up", "stopping", "clearing", "down"} /\ next \in 1..size + 1
    BY DEF PoolInv, PoolTypeOK, ThreadRecord
  <1>2. /\ pc \in [Posters -> {"idle", "swap", "post"}] /\ idx \in [Posters -> 0..size - 1]
        /\ posted \in 0..MaxTasks /\ poolStops \in 0..MaxPoolStops
        /\ given \in Seq(1..size) /\ kinds \in Seq({"plain", "timed"} \cup Tokens)
        /\ Len(kinds) = Len(given) /\ wheel \subseteq 1..Len(given) /\ refused \subseteq 1..Len(given)
        /\ ran \subseteq 1..Len(given)
    BY DEF PoolInv, PoolTypeOK
  <1>3. ASSUME NEW i \in 1..Len(threads), NEW r \in ThreadRecord, Becomes(i, r)
        PROVE  threads' \in Seq(ThreadRecord) /\ Len(threads') \in {0, size}
    BY <1>1, <1>3 DEF Becomes
  <1>4. ASSUME NEW c \in Posters, Load(c)
        PROVE  PoolTypeOK'
    <2>1. posted' \in 0..MaxTasks
      BY <1>2, <1>4 DEF Load
    <2>2. /\ pc' \in [Posters -> {"idle", "swap", "post"}] /\ idx' \in [Posters -> 0..size - 1]
          /\ UNCHANGED <<pool, curIdx, given, kinds, tasks>>
      BY <1>1, <1>2, <1>4 DEF Load
    <2>3. QED
      BY <1>1, <1>2, <2>1, <2>2 DEF PoolTypeOK, pool, tasks, ThreadRecord
  <1>5. ASSUME NEW c \in Posters, Swap(c)
        PROVE  PoolTypeOK'
    <2>1. (idx[c] + 1) % size \in 0..size - 1
      BY <1>1, <1>2
    <2>2. /\ curIdx' \in 0..size - 1 /\ UNCHANGED <<pool, posted, given, kinds, tasks>>
          /\ pc' \in [Posters -> {"idle", "swap", "post"}] /\ idx' \in [Posters -> 0..size - 1]
      BY <1>1, <1>2, <1>5, <2>1 DEF Swap
    <2>3. QED
      BY <1>1, <1>2, <2>2 DEF PoolTypeOK, pool, tasks, ThreadRecord
  <1>6. ASSUME NEW c \in Posters, PostTask(c)
        PROVE  PoolTypeOK'
    <2>1. threads' \in Seq(ThreadRecord) /\ Len(threads') \in {0, size}
      BY <1>1, <1>6, PostBecomes DEF Becomes
    <2>2. idx[c] + 1 \in 1..size
      BY <1>1, <1>2
    <2>3. given' \in Seq(1..size) /\ Len(given') = Len(given) + 1 /\ Len(given) \in Nat
      BY <1>2, <1>6, <2>2, AppendIndex DEF PostTask
    <2>4. wheel' \subseteq 1..Len(given') /\ refused' \subseteq 1..Len(given') /\ ran' \subseteq 1..Len(given')
      BY <1>2, <1>6, <2>3 DEF PostTask, tasks
    <2>5. kinds' \in Seq({"plain", "timed"} \cup Tokens) /\ Len(kinds') = Len(given')
      <3>1. PICK kind \in {"plain", "timed"} \cup Tokens : kinds' = Append(kinds, kind)
        BY <1>6 DEF PostTask
      <3>2. QED
        BY <1>2, <2>3, <3>1, AppendIndex
    <2>6. /\ pc' \in [Posters -> {"idle", "swap", "post"}]
          /\ UNCHANGED <<size, owner, next, poolStops, curIdx, idx, posted>>
      BY <1>2, <1>6 DEF PostTask
    <2>7. QED
      BY <1>1, <1>2, <2>1, <2>3, <2>4, <2>5, <2>6 DEF PoolTypeOK, ThreadRecord
  <1>7. ASSUME StartPool
        PROVE  PoolTypeOK'
    <2>1. threads' \in Seq(ThreadRecord) /\ Len(threads') = size
      BY <1>1, <1>7, NewThreadsType DEF StartPool
    <2>2. owner' = "up" /\ UNCHANGED <<size, next, poolStops, curIdx, posts, tasks>>
      BY <1>7 DEF StartPool
    <2>3. QED
      BY <1>1, <1>2, <2>1, <2>2 DEF PoolTypeOK, posts, tasks, ThreadRecord
  <1>8. ASSUME StopPool
        PROVE  PoolTypeOK'
    <2>1. /\ owner' = "stopping" /\ next' = 1 /\ poolStops' \in 0..MaxPoolStops
          /\ UNCHANGED <<size, threads, curIdx, posts, tasks>>
      BY <1>2, <1>8 DEF StopPool
    <2>2. next' \in 1..size + 1
      BY <1>1, <2>1
    <2>3. QED
      BY <1>1, <1>2, <2>1, <2>2 DEF PoolTypeOK, posts, tasks, ThreadRecord
  <1>9. ASSUME StopThread
        PROVE  PoolTypeOK'
    <2>1. threads' \in Seq(ThreadRecord) /\ Len(threads') \in {0, size}
      BY <1>1, <1>9, StopBecomes DEF StopThread, Becomes
    <2>2. /\ next' \in 1..size + 1 /\ owner' \in {"stopping", "clearing"}
          /\ UNCHANGED <<size, poolStops, curIdx, posts, tasks>>
      BY <1>1, <1>9 DEF StopThread
    <2>3. QED
      BY <1>1, <1>2, <2>1, <2>2 DEF PoolTypeOK, posts, tasks, ThreadRecord
  <1>10. ASSUME ClearThread
         PROVE  PoolTypeOK'
    <2>1. threads' \in Seq(ThreadRecord) /\ Len(threads') \in {0, size}
      <3>1. <<>> \in Seq(ThreadRecord) /\ Len(<<>>) = 0
        OBVIOUS
      <3>2. threads' = threads \/ threads' = <<>>
        BY <1>10 DEF ClearThread
      <3>3. QED
        BY <1>1, <3>1, <3>2
    <2>2. /\ next' \in 1..size + 1 /\ owner' \in {"clearing", "down"}
          /\ UNCHANGED <<size, poolStops, curIdx, posts, tasks>>
      BY <1>1, <1>10 DEF ClearThread
    <2>3. QED
      BY <1>1, <1>2, <2>1, <2>2 DEF PoolTypeOK, posts, tasks, ThreadRecord
  <1>11. ASSUME NEW i \in 1..size, Work(i)
         PROVE  PoolTypeOK'
    <2>1. threads' \in Seq(ThreadRecord) /\ Len(threads') \in {0, size}
      BY <1>1, <1>11, WorkBecomes DEF Becomes
    <2>2. wheel' \subseteq 1..Len(given) /\ refused' \subseteq 1..Len(given) /\ ran' \subseteq 1..Len(given)
      <3>1. CASE BeginThread(i) \/ PutBack(i) \/ Fire(i) \/ EndThread(i)
        BY <1>2, <3>1 DEF BeginThread, PutBack, Fire, EndThread, tasks
      <3>2. CASE Take(i)
        <4>1. i \in 1..Len(threads)
          BY <1>1, <1>11 DEF Work
        <4>2. threads[i].queue \in Seq(1..MaxTasks)
          <5>1. threads[i] \in ThreadRecord
            BY <1>1, <4>1
          <5>2. QED
            BY <5>1 DEF ThreadRecord
        <4>3. 1 \in 1..Len(threads[i].queue) /\ Head(threads[i].queue) = threads[i].queue[1]
          BY <3>2, <4>2, TailIndex DEF Take
        <4>4. Head(threads[i].queue) \in 1..Len(given)
          BY <4>1, <4>3 DEF PoolInv, TaskInv
        <4>5. QED
          BY <1>2, <3>2, <4>4 DEF Take
      <3>3. QED
        BY <1>11, <3>1, <3>2 DEF Work
    <2>3. UNCHANGED <<size, owner, next, poolStops, curIdx, posts>>
      BY <1>11 DEF Work
    <2>4. QED
      BY <1>1, <1>2, <2>1, <2>2, <2>3 DEF PoolTypeOK, posts, tasks, ThreadRecord
  <1>12. QED
    BY <1>4, <1>5, <1>6, <1>7, <1>8, <1>9, <1>10, <1>11 DEF PoolNext, Stopping, Call

LEMMA PostedStep ==
  ASSUME PoolInv, PoolNext
  PROVE  PostedInv'
  <1> USE PoolAssumption DEF PoolAssumption
  <1>1. /\ pc \in [Posters -> {"idle", "swap", "post"}]
        /\ posted \in Nat /\ given \in Seq(1..size) /\ Len(given) \in Nat
    BY DEF PoolInv, PoolTypeOK
  <1>2. IsFiniteSet(Busy) /\ Cardinality(Busy) \in Nat
    BY FS_Subset, FS_CardinalityType DEF Busy
  <1>3. posted = Len(given) + Cardinality(Busy)
    BY DEF PoolInv, PostedInv
  <1>4. ASSUME NEW c \in Posters, Load(c)
        PROVE  PostedInv'
    <2>1. c \notin Busy /\ Busy' = Busy \cup {c}
      BY <1>1, <1>4 DEF Load, Busy
    <2>2. Cardinality(Busy') = Cardinality(Busy) + 1
      BY <1>2, <2>1, FS_AddElement
    <2>3. posted' = posted + 1 /\ given' = given
      BY <1>4 DEF Load
    <2>4. QED
      BY <1>1, <1>2, <1>3, <2>2, <2>3 DEF PostedInv
  <1>5. ASSUME NEW c \in Posters, PostTask(c)
        PROVE  PostedInv'
    <2>1. c \in Busy /\ Busy' = Busy \ {c}
      BY <1>1, <1>5 DEF PostTask, Busy
    <2>2. Cardinality(Busy') = Cardinality(Busy) - 1
      BY <1>2, <2>1, FS_RemoveElement
    <2>3. posted' = posted
      BY <1>5 DEF PostTask
    <2>4. idx[c] + 1 \in 1..size
      BY DEF PoolInv, PoolTypeOK
    <2>5. Len(given') = Len(given) + 1
      BY <1>1, <1>5, <2>4, AppendIndex DEF PostTask
    <2>6. QED
      BY <1>1, <1>2, <1>3, <2>2, <2>3, <2>5 DEF PostedInv
  <1>6. ASSUME NEW c \in Posters, Swap(c)
        PROVE  PostedInv'
    <2>1. Busy' = Busy /\ UNCHANGED <<posted, given>>
      BY <1>1, <1>6 DEF Swap, Busy
    <2>2. QED
      BY <1>3, <2>1 DEF PostedInv
  <1>7. ASSUME StartPool \/ StopPool \/ Stopping \/ (\E i \in 1..size : Work(i))
        PROVE  PostedInv'
    <2>1. Busy' = Busy /\ UNCHANGED <<posted, given>>
      BY <1>7 DEF StartPool, StopPool, Stopping, StopThread, ClearThread, Work, Busy, posts
    <2>2. QED
      BY <1>3, <2>1 DEF PostedInv
  <1>8. QED
    BY <1>4, <1>5, <1>6, <1>7 DEF PoolNext, Call

LEMMA PoolOwnerStep ==
  ASSUME PoolInv, PoolNext
  PROVE  OwnerInv'
  <1>1. /\ owner = "down" <=> threads = <<>>
        /\ owner # "up" => Busy = {}
        /\ owner = "up" => \A i \in 1..Len(threads) : threads[i].state \in {"starting", "running"}
        /\ owner = "clearing" =>
             \A i \in 1..Len(threads) : i < next => threads[i].state = "ended"
    BY DEF PoolInv, OwnerInv
  <1>2. /\ owner \in {"up", "stopping", "clearing", "down"}
        /\ size \in Nat \ {0} /\ threads \in Seq(ThreadRecord)
        /\ Len(threads) = IF owner = "down" THEN 0 ELSE size
        /\ next \in 1..size + 1
    BY ThreadsLength DEF PoolInv, PoolTypeOK
  <1>3. ASSUME NEW s \in Seq(ThreadRecord), Len(s) = size
        PROVE  s # <<>>
    BY <1>2, <1>3
  <1>4. ASSUME NEW c \in Posters, Load(c) \/ Swap(c)
        PROVE  OwnerInv'
    <2>1. owner = "up" /\ UNCHANGED <<owner, threads>>
      BY <1>1, <1>4 DEF Load, Swap, Busy, pool
    <2>2. QED
      BY <1>1, <2>1 DEF OwnerInv
  <1>5. ASSUME NEW c \in Posters, PostTask(c)
        PROVE  OwnerInv'
    <2>1. owner = "up" /\ owner' = "up"
      BY <1>5, PostBecomes DEF PostTask
    <2>2. /\ threads' \in Seq(ThreadRecord) /\ Len(threads') = Len(threads)
          /\ \A i \in 1..Len(threads) : threads'[i].state = threads[i].state
      <3>1. PICK i \in 1..Len(threads) :
                \E q : Becomes(i, [state |-> threads[i].state, queue |-> q])
        BY <1>5, PostBecomes DEF Becomes
      <3>2. threads'[i].state = threads[i].state
        BY <3>1 DEF Becomes
      <3>3. QED
        BY <3>1, <3>2 DEF Becomes
    <2>3. threads' # <<>>
      BY <1>2, <1>3, <2>1, <2>2
    <2>4. QED
      BY <1>1, <2>1, <2>2, <2>3 DEF OwnerInv
  <1>6. ASSUME StartPool
        PROVE  OwnerInv'
    <2>1. owner' = "up" /\ threads' = NewThreads(size)
      BY <1>6 DEF StartPool
    <2>2. /\ threads' \in Seq(ThreadRecord) /\ Len(threads') = size
          /\ \A i \in 1..size : threads'[i].state = "starting"
      <3>1. size \in Nat \ {0}
        BY <1>2
      <3>2. /\ threads' \in Seq(ThreadRecord) /\ Len(threads') = size
            /\ \A i \in 1..size : threads'[i] = [state |-> "starting", queue |-> <<>>]
        BY <2>1, <3>1, NewThreadsType
      <3>3. \A i \in 1..size : threads'[i].state = "starting"
        BY <3>2
      <3>4. QED
        BY <3>2, <3>3
    <2>3. threads' # <<>>
      BY <1>3, <2>2
    <2>4. QED
      BY <2>1, <2>2, <2>3 DEF OwnerInv
  <1>7. ASSUME StopPool
        PROVE  OwnerInv'
    <2>1. owner = "up" /\ owner' = "stopping" /\ threads' = threads /\ Busy = {} /\ Busy' = Busy
      BY <1>7 DEF StopPool, Busy, posts
    <2>2. QED
      BY <1>1, <2>1 DEF OwnerInv
  <1>8. ASSUME StopThread
        PROVE  OwnerInv'
    <2>1. owner = "stopping" /\ Busy = {} /\ Busy' = Busy
      BY <1>1, <1>8 DEF StopThread, Busy, posts
    <2>2. CASE next <= Len(threads)
      <3>1. owner' = "stopping" /\ threads' \in Seq(ThreadRecord) /\ Len(threads') = size
        BY <1>2, <1>8, <2>1, <2>2, StopBecomes DEF StopThread, Becomes
      <3>2. threads' # <<>>
        BY <1>3, <3>1
      <3>3. QED
        BY <2>1, <3>1, <3>2 DEF OwnerInv
    <2>3. CASE ~(next <= Len(threads))
      <3>1. owner' = "clearing" /\ next' = 1 /\ threads' = threads
        BY <1>8, <2>3 DEF StopThread
      <3>2. \A i \in 1..Len(threads) : ~(i < 1)
        BY <1>2
      <3>3. QED
        BY <1>1, <2>1, <3>1, <3>2 DEF OwnerInv
    <2>4. QED
      BY <2>2, <2>3
  <1>9. ASSUME ClearThread
        PROVE  OwnerInv'
    <2>1. owner = "clearing" /\ Busy = {} /\ Busy' = Busy
      BY <1>1, <1>9 DEF ClearThread, Busy, posts
    <2>2. CASE next <= Len(threads)
      <3>1. owner' = owner /\ threads' = threads /\ next' = next + 1 /\ threads[next].state = "ended"
        BY <1>9, <2>2 DEF ClearThread
      <3>2. \A i \in 1..Len(threads) : i < next' => i < next \/ i = next
        BY <1>2, <3>1
      <3>3. QED
        BY <1>1, <2>1, <3>1, <3>2 DEF OwnerInv
    <2>3. CASE ~(next <= Len(threads))
      <3>1. owner' = "down" /\ threads' = <<>>
        BY <1>9, <2>3 DEF ClearThread
      <3>2. QED
        BY <2>1, <3>1 DEF OwnerInv
    <2>4. QED
      BY <2>2, <2>3
  <1>10. ASSUME NEW i \in 1..size, Work(i)
         PROVE  OwnerInv'
    <2>1. owner' = owner /\ next' = next /\ Busy' = Busy
      BY <1>10 DEF Work, posts, Busy
    <2>2. threads' \in Seq(ThreadRecord) /\ Len(threads') = Len(threads) /\ i \in 1..Len(threads)
      BY <1>2, <1>10, WorkBecomes DEF Becomes
    <2>3. threads' = <<>> <=> threads = <<>>
      BY <1>2, <2>2
    <2>4. \A j \in 1..Len(threads) : j # i => threads'[j] = threads[j]
      BY <1>10, WorkBecomes DEF Becomes
    <2>5. \/ /\ threads[i].state = "starting" /\ threads'[i].state = "running"
          \/ threads'[i].state = threads[i].state
          \/ /\ threads[i].state = "stopping" /\ threads'[i].state = "ended"
      <3>1. \/ /\ threads[i].state = "starting"
               /\ threads'[i] = [state |-> "running", queue |-> threads[i].queue]
            \/ \E q : threads'[i] = [state |-> threads[i].state, queue |-> q]
            \/ threads'[i] = threads[i]
            \/ /\ threads[i].state = "stopping"
               /\ threads'[i] = [state |-> "ended", queue |-> threads[i].queue]
        BY <1>10, WorkBecomes DEF Becomes
      <3>2. (\E q : threads'[i] = [state |-> threads[i].state, queue |-> q])
              => threads'[i].state = threads[i].state
        OBVIOUS
      <3>3. \A x \in {"running", "ended"} :
              threads'[i] = [state |-> x, queue |-> threads[i].queue] => threads'[i].state = x
        OBVIOUS
      <3>4. QED
        BY <3>1, <3>2, <3>3
    <2>6. owner = "up" => \A j \in 1..Len(threads) : threads'[j].state \in {"starting", "running"}
      BY <1>1, <2>4, <2>5
    <2>7. owner = "clearing" => \A j \in 1..Len(threads) : j < next => threads'[j].state = "ended"
      BY <1>1, <2>2, <2>4, <2>5
    <2>8. QED
      BY <1>1, <2>1, <2>2, <2>3, <2>6, <2>7 DEF OwnerInv
  <1>11. QED
    BY <1>4, <1>5, <1>6, <1>7, <1>8, <1>9, <1>10 DEF PoolNext, Stopping, Call

\* When every thread was joined, every task that nobody kept back has run.
LEMMA ClearedHaveRun ==
  ASSUME PoolInv, owner = "clearing", ~(next <= Len(threads))
  PROVE  Immediate \subseteq ran
  <1>1. Len(threads) \in Nat /\ next \in Nat
    BY ThreadsLength DEF PoolInv, PoolTypeOK
  <1>2. \A i \in 1..Len(threads) : i < next
    BY <1>1
  <1>3. \A i \in 1..Len(threads) : threads[i].queue = <<>>
    BY <1>2 DEF PoolInv, OwnerInv, TaskInv
  <1>4. \A i \in 1..Len(threads) : Len(threads[i].queue) = 0
    BY <1>3
  <1>5. QED
    BY <1>4 DEF PoolInv, TaskInv

\* A thread whose queue gets one task more, a new one or one of those posted.
LEMMA AppendStep ==
  ASSUME PoolInv, NEW i \in 1..Len(threads), NEW n \in 1..MaxTasks, threads[i].state # "ended",
         Becomes(i, [state |-> threads[i].state, queue |-> Append(threads[i].queue, n)]),
         Len(given') \in Nat, Len(given) <= Len(given'), n <= Len(given'), ran' = ran,
         \A k \in Immediate' : k = n \/ k \in Immediate
  PROVE  TaskInv'
  <1> DEFINE Queued(k) == \E u \in 1..Len(threads) :
                            \E j \in 1..Len(threads[u].queue) : threads[u].queue[j] = k
             q == threads[i].queue
  <1>1. /\ \A k \in Immediate : k \in ran \/ Queued(k)
        /\ \A u \in 1..Len(threads) : \A j \in 1..Len(threads[u].queue) :
             threads[u].queue[j] \in 1..Len(given)
        /\ \A u \in 1..Len(threads) : threads[u].state = "ended" => threads[u].queue = <<>>
    BY DEF PoolInv, TaskInv
  <1>2. threads \in Seq(ThreadRecord) /\ Len(given) \in Nat
    BY ThreadsLength, TaskRange
  <1>3. q \in Seq(1..MaxTasks)
    <2>1. threads[i] \in ThreadRecord
      BY <1>2
    <2>2. QED
      BY <2>1 DEF ThreadRecord
  <1>4. /\ Len(threads') = Len(threads)
        /\ threads'[i] = [state |-> threads[i].state, queue |-> Append(q, n)]
        /\ \A j \in 1..Len(threads) : j # i => threads'[j] = threads[j]
    BY DEF Becomes
  <1>5. /\ threads'[i].queue = Append(q, n) /\ Len(Append(q, n)) = Len(q) + 1 /\ Len(q) \in Nat
        /\ \A j \in 1..Len(q) : Append(q, n)[j] = q[j]
        /\ Append(q, n)[Len(q) + 1] = n
    BY <1>3, <1>4, AppendIndex
  <1>6. \A x \in 1..Len(q) : q[x] \in 1..Len(given)
    BY <1>1
  <1>7. threads'[i].state = threads[i].state
    BY <1>4
  <1>8. ASSUME NEW u \in 1..Len(threads), u = i
        PROVE  threads[u].queue = q /\ threads'[u].queue = Append(q, n)
    BY <1>5, <1>8
  <1> HIDE DEF q
  <1>9. ASSUME NEW k \in Immediate'
        PROVE  k \in ran \/ Queued(k)'
    <2>1. CASE k = n
      <3>1. Len(q) + 1 \in 1..Len(threads'[i].queue) /\ threads'[i].queue[Len(q) + 1] = k
        BY <1>5, <2>1
      <3>2. QED
        BY <1>4, <3>1
    <2>2. CASE k # n
      <3>1. k \in ran \/ Queued(k)
        BY <1>1, <1>9, <2>2
      <3>2. ASSUME NEW u \in 1..Len(threads), NEW j \in 1..Len(threads[u].queue),
                   threads[u].queue[j] = k
            PROVE  Queued(k)'
        <4>1. j \in 1..Len(threads'[u].queue) /\ threads'[u].queue[j] = k
          <5>1. CASE u = i
            <6>1. threads[u].queue = q /\ threads'[u].queue = Append(q, n)
              BY <1>8, <5>1
            <6>2. j \in 1..Len(q) /\ q[j] = k
              BY <3>2, <6>1
            <6>3. j \in 1..(Len(q) + 1) /\ Append(q, n)[j] = q[j]
              BY <1>5, <6>2
            <6>4. QED
              BY <1>5, <6>1, <6>2, <6>3
          <5>2. CASE u # i
            BY <1>4, <3>2, <5>2
          <5>3. QED
            BY <5>1, <5>2
        <4>2. QED
          BY <1>4, <4>1
      <3>3. QED
        BY <3>1, <3>2
    <2>3. QED
      BY <2>1, <2>2
  <1>10. ASSUME NEW u \in 1..Len(threads), NEW j \in 1..Len(threads'[u].queue)
         PROVE  threads'[u].queue[j] \in 1..Len(given')
    <2>1. CASE u = i
      <3>1. j \in 1..Len(q) \/ j = Len(q) + 1
        BY <1>5, <1>10, <2>1
      <3>2. CASE j \in 1..Len(q)
        <4>1. threads'[u].queue[j] \in 1..Len(given)
          BY <1>5, <1>6, <2>1, <3>2
        <4>2. QED
          BY <1>2, <4>1
      <3>3. CASE j = Len(q) + 1
        BY <1>5, <2>1, <3>3
      <3>4. QED
        BY <3>1, <3>2, <3>3
    <2>2. CASE u # i
      <3>1. threads'[u].queue[j] \in 1..Len(given)
        BY <1>1, <1>4, <2>2
      <3>2. QED
        BY <1>2, <3>1
    <2>3. QED
      BY <2>1, <2>2
  <1>11. ASSUME NEW u \in 1..Len(threads), threads'[u].state = "ended"
         PROVE  threads'[u].queue = <<>>
    BY <1>1, <1>4, <1>7, <1>11
  <1>12. QED
    BY <1>4, <1>9, <1>10, <1>11 DEF TaskInv

LEMMA TaskStep ==
  ASSUME PoolInv, PoolNext
  PROVE  TaskInv'
  <1> DEFINE Queued(k) == \E i \in 1..Len(threads) :
                            \E j \in 1..Len(threads[i].queue) : threads[i].queue[j] = k
  <1>1. /\ \A k \in Immediate : k \in ran \/ Queued(k)
        /\ \A i \in 1..Len(threads) : \A j \in 1..Len(threads[i].queue) :
             threads[i].queue[j] \in 1..Len(given)
        /\ \A i \in 1..Len(threads) : threads[i].state = "ended" => threads[i].queue = <<>>
    BY DEF PoolInv, TaskInv
  <1>2. /\ threads \in Seq(ThreadRecord) /\ size \in Nat \ {0}
        /\ given \in Seq(1..size) /\ Len(given) \in Nat
    BY ThreadsLength DEF PoolInv, PoolTypeOK
  <1>3. \A i \in 1..Len(threads) : threads[i].queue \in Seq(1..MaxTasks)
    <2>1. \A i \in 1..Len(threads) : threads[i] \in ThreadRecord
      BY <1>2
    <2>2. QED
      BY <2>1 DEF ThreadRecord
  <1> DEFINE SameTasks == given' = given /\ kinds' = kinds
  <1>0. SameTasks => Immediate' = Immediate
    BY DEF Immediate, Before
  <1>4. ASSUME threads' = threads, SameTasks, ran \subseteq ran'
        PROVE  TaskInv'
    BY <1>0, <1>1, <1>4 DEF TaskInv
  <1>5. ASSUME NEW i \in 1..Len(threads), NEW r, Becomes(i, r), r.queue = threads[i].queue,
               r.state = "ended" => threads[i].queue = <<>>, SameTasks, ran' = ran
        PROVE  TaskInv'
    <2>1. Len(threads') = Len(threads) /\ \A j \in 1..Len(threads) : threads'[j].queue = threads[j].queue
      BY <1>5 DEF Becomes
    <2>2. \A j \in 1..Len(threads) : threads'[j].state = "ended" => threads[j].queue = <<>>
      BY <1>1, <1>5 DEF Becomes
    <2>3. \A k \in Immediate : k \in ran \/ Queued(k)'
      BY <1>1, <2>1
    <2>4. QED
      BY <1>0, <1>1, <1>5, <2>1, <2>2, <2>3 DEF TaskInv
  <1>6. ASSUME NEW c \in Posters, PostTask(c)
        PROVE  TaskInv'
    <2> DEFINE i == idx[c] + 1
               n == Len(given) + 1
    <2>1. /\ owner = "up" /\ n \in 1..MaxTasks
          /\ Becomes(i, [state |-> threads[i].state, queue |-> Append(threads[i].queue, n)])
      BY <1>6, PostBecomes
    <2>2. i \in 1..Len(threads) /\ threads[i].state # "ended"
      BY <2>1 DEF Becomes, PoolInv, OwnerInv
    <2>3. Len(given') = n /\ ran' = ran
      <3>1. idx[c] + 1 \in 1..size
        BY DEF PoolInv, PoolTypeOK
      <3>2. QED
        BY <1>2, <1>6, <3>1, AppendIndex DEF PostTask, tasks
    <2>4. \A k \in 1..Len(given) : kinds'[k] = kinds[k]
      <3>1. kinds \in Seq({"plain", "timed"} \cup Tokens) /\ Len(kinds) = Len(given)
        BY DEF PoolInv, PoolTypeOK
      <3>2. PICK kind \in {"plain", "timed"} \cup Tokens : kinds' = Append(kinds, kind)
        BY <1>6 DEF PostTask
      <3>3. QED
        BY <3>1, <3>2, AppendIndex
    <2>5. ASSUME NEW k \in Immediate', k # n
          PROVE  k \in Immediate
      <3>1. k \in 1..Len(given) /\ \A j \in 1..k - 1 : j \in 1..Len(given)
        BY <1>2, <2>3, <2>5 DEF Immediate
      <3>2. Before(k)' = Before(k)
        BY <2>4, <3>1 DEF Before
      <3>3. QED
        BY <2>4, <2>5, <3>1, <3>2 DEF Immediate
    <2>6. Len(given') \in Nat /\ Len(given) <= Len(given') /\ n <= Len(given')
      BY <1>2, <2>3
    <2>7. \A k \in Immediate' : k = n \/ k \in Immediate
      BY <2>5
    <2> HIDE DEF i, n
    <2>8. QED
      BY <2>1, <2>2, <2>3, <2>6, <2>7, AppendStep
  <1>7. ASSUME NEW i \in 1..size, Work(i)
        PROVE  TaskInv'
    <2>1. SameTasks /\ i \in 1..Len(threads)
      BY <1>2, <1>7 DEF Work, posts
    <2>2. CASE /\ threads[i].state = "starting" /\ ran' = ran
               /\ Becomes(i, [state |-> "running", queue |-> threads[i].queue])
      BY <1>5, <2>1, <2>2
    <2>3. CASE /\ threads[i].state = "stopping" /\ threads[i].queue = <<>> /\ ran' = ran
               /\ Becomes(i, [state |-> "ended", queue |-> threads[i].queue])
      BY <1>5, <2>1, <2>3
    <2>4. CASE /\ InLoop(i) /\ threads[i].queue # <<>> /\ Take(i)
               /\ Becomes(i, [state |-> threads[i].state, queue |-> Tail(threads[i].queue)])
      <3> DEFINE q == threads[i].queue
      <3>1. /\ Len(threads') = Len(threads)
            /\ threads'[i] = [state |-> threads[i].state, queue |-> Tail(q)]
            /\ \A j \in 1..Len(threads) : j # i => threads'[j] = threads[j]
        BY <2>4 DEF Becomes
      <3>2. q \in Seq(1..MaxTasks) /\ q # <<>>
        BY <1>3, <2>1, <2>4
      <3>3. /\ Head(q) = q[1] /\ Len(Tail(q)) = Len(q) - 1 /\ Len(q) \in Nat \ {0}
            /\ \A j \in 1..(Len(q) - 1) : Tail(q)[j] = q[j + 1]
        BY <3>2, TailIndex
      <3>4. threads'[i].queue = Tail(q) /\ threads'[i].state = threads[i].state
        BY <3>1
      <3>5. ran \subseteq ran' /\ (q[1] \in Immediate => q[1] \in ran')
        <4>1. q[1] \in Immediate => kinds[q[1]] # "timed" /\ Admitted(q[1])
          BY DEF Immediate, Admitted
        <4>2. QED
          BY <2>4, <3>3, <4>1 DEF Take
      <3>6. threads[i].state # "ended"
        BY <2>4 DEF InLoop
      <3>7. \A x \in 1..Len(q) : q[x] \in 1..Len(given)
        BY <1>1, <2>1
      <3> HIDE DEF q
      <3>8. ASSUME NEW k \in Immediate
            PROVE  k \in ran' \/ Queued(k)'
        <4>1. ASSUME NEW u \in 1..Len(threads), NEW j \in 1..Len(threads[u].queue),
                     threads[u].queue[j] = k, k # q[1]
              PROVE  Queued(k)'
          <5>1. CASE u = i
            <6>1. threads[u].queue = q /\ threads'[u].queue = Tail(q)
              BY <3>4, <5>1 DEF q
            <6>2. j \in 1..Len(q) /\ q[j] = k
              BY <4>1, <6>1
            <6>3. j # 1
              BY <4>1, <6>2
            <6>4. j - 1 \in 1..(Len(q) - 1) /\ (j - 1) + 1 = j
              BY <3>3, <6>2, <6>3
            <6>5. Tail(q)[j - 1] = k /\ j - 1 \in 1..Len(Tail(q))
              BY <3>3, <6>2, <6>4
            <6>6. QED
              BY <3>1, <6>1, <6>5
          <5>2. CASE u # i
            BY <3>1, <4>1, <5>2
          <5>3. QED
            BY <5>1, <5>2
        <4>2. QED
          BY <1>1, <3>5, <4>1
      <3>9. ASSUME NEW u \in 1..Len(threads), NEW j \in 1..Len(threads'[u].queue)
            PROVE  threads'[u].queue[j] \in 1..Len(given)
        <4>1. CASE u = i
          <5>1. j + 1 \in 1..Len(q) /\ threads'[u].queue[j] = q[j + 1]
            BY <3>3, <3>4, <3>9, <4>1
          <5>2. QED
            BY <3>7, <5>1
        <4>2. CASE u # i
          BY <1>1, <3>1, <4>2
        <4>3. QED
          BY <4>1, <4>2
      <3>10. \A u \in 1..Len(threads) : threads'[u].state = "ended" => threads'[u].queue = <<>>
        BY <1>1, <3>1, <3>4, <3>6
      <3>11. QED
        BY <1>0, <2>1, <3>1, <3>8, <3>9, <3>10 DEF TaskInv
    <2>5. ASSUME NEW k \in 1..Len(given), InLoop(i), ran' = ran,
                 Becomes(i, [state |-> threads[i].state, queue |-> Append(threads[i].queue, k)])
          PROVE  TaskInv'
      <3>1. k \in 1..MaxTasks /\ Len(given') = Len(given) /\ k <= Len(given')
        BY <1>2, <2>1, TaskRange
      <3>2. threads[i].state # "ended"
        BY <2>5 DEF InLoop
      <3>3. QED
        BY <1>0, <1>2, <2>1, <2>5, <3>1, <3>2, AppendStep
    <2>6. CASE threads' = threads /\ ran \subseteq ran'
      BY <1>4, <2>1, <2>6
    <2>7. QED
      BY <1>7, <2>2, <2>3, <2>4, <2>5, <2>6, WorkBecomes
  <1>8. ASSUME StartPool
        PROVE  TaskInv'
    <2>1. threads = <<>> /\ threads' = NewThreads(size) /\ SameTasks /\ ran' = ran
      BY <1>8 DEF StartPool, posts, tasks
    <2>2. Len(threads) = 0
      BY <2>1
    <2>3. \A k \in Immediate : k \in ran
      BY <1>1, <2>2
    <2>4. /\ Len(threads') = size
          /\ \A i \in 1..size : threads'[i] = [state |-> "starting", queue |-> <<>>]
      BY <1>2, <2>1, NewThreadsType
    <2>5. \A i \in 1..size : threads'[i].queue = <<>>
      BY <2>4
    <2>6. QED
      BY <1>0, <2>1, <2>3, <2>4, <2>5 DEF TaskInv
  <1>9. ASSUME StopThread
        PROVE  TaskInv'
    <2>1. SameTasks /\ ran' = ran
      BY <1>9 DEF StopThread, posts, tasks
    <2>2. CASE next <= Len(threads)
      <3>1. Becomes(next, [state |-> "stopping", queue |-> threads[next].queue])
        BY <1>9, <2>2, StopBecomes
      <3>2. next \in 1..Len(threads)
        BY <3>1 DEF Becomes
      <3>3. QED
        BY <1>5, <2>1, <3>1, <3>2
    <2>3. CASE ~(next <= Len(threads))
      BY <1>4, <1>9, <2>1, <2>3 DEF StopThread
    <2>4. QED
      BY <2>2, <2>3
  <1>10. ASSUME ClearThread
         PROVE  TaskInv'
    <2>1. SameTasks /\ ran' = ran
      BY <1>10 DEF ClearThread, posts, tasks
    <2>2. CASE next <= Len(threads)
      BY <1>4, <1>10, <2>1, <2>2 DEF ClearThread
    <2>3. CASE ~(next <= Len(threads))
      <3>1. threads' = <<>> /\ Immediate \subseteq ran
        BY <1>10, <2>3, ClearedHaveRun DEF ClearThread
      <3>2. Len(threads') = 0
        BY <3>1
      <3>3. QED
        BY <1>0, <2>1, <3>1, <3>2 DEF TaskInv
    <2>4. QED
      BY <2>2, <2>3
  <1>11. ASSUME StopPool \/ \E c \in Posters : Load(c) \/ Swap(c)
         PROVE  TaskInv'
    BY <1>4, <1>11 DEF StopPool, Load, Swap, pool, posts, tasks
  <1>12. QED
    BY <1>6, <1>7, <1>8, <1>9, <1>10, <1>11 DEF PoolNext, Stopping, Call

LEMMA InitPoolInv == PoolInit => PoolInv
  <1> SUFFICES ASSUME PoolInit PROVE PoolInv
    OBVIOUS
  <1> USE PoolAssumption DEF PoolAssumption
  <1>1. size \in Nat \ {0} /\ threads = NewThreads(size)
    BY DEF PoolInit, Larger
  <1>2. /\ threads \in Seq(ThreadRecord) /\ Len(threads) = size
        /\ \A i \in 1..size : threads[i] = [state |-> "starting", queue |-> <<>>]
    BY <1>1, NewThreadsType
  <1>3. curIdx = 0 /\ owner = "up" /\ next = 1 /\ poolStops = 0 /\ posted = 0 /\ given = <<>>
        /\ kinds = <<>> /\ wheel = {} /\ refused = {} /\ ran = {}
    BY DEF PoolInit
  <1>4. pc = [c \in Posters |-> "idle"] /\ idx = [c \in Posters |-> 0]
    BY DEF PoolInit
  <1>5. PoolTypeOK
    BY <1>1, <1>2, <1>3, <1>4 DEF PoolTypeOK, ThreadRecord
  <1>6. PostedInv
    <2>1. Busy = {}
      BY <1>4 DEF Busy
    <2>2. Cardinality(Busy) = 0 /\ Len(given) = 0
      BY <1>3, <2>1, FS_EmptySet
    <2>3. QED
      BY <1>3, <2>2 DEF PostedInv
  <1>7. \A i \in 1..size : threads[i].state = "starting" /\ threads[i].queue = <<>>
    BY <1>2
  <1>8. OwnerInv
    <2>1. threads # <<>>
      BY <1>1, <1>2
    <2>2. QED
      BY <1>2, <1>3, <1>7, <2>1 DEF OwnerInv
  <1>9. TaskInv
    <2>1. Len(given) = 0 /\ \A i \in 1..Len(threads) : Len(threads[i].queue) = 0
      BY <1>2, <1>3, <1>7
    <2>2. QED
      BY <1>2, <1>7, <2>1 DEF TaskInv, Immediate
  <1>10. QED
    BY <1>5, <1>6, <1>8, <1>9 DEF PoolInv

LEMMA StepPoolInv == PoolInv /\ [PoolNext]_poolVars => PoolInv'
  <1> SUFFICES ASSUME PoolInv, [PoolNext]_poolVars PROVE PoolInv'
    OBVIOUS
  <1>1. CASE PoolNext
    BY <1>1, PoolTypeStep, PostedStep, PoolOwnerStep, TaskStep DEF PoolInv
  <1>2. CASE UNCHANGED poolVars
    <2>1. UNCHANGED <<size, threads, owner, next, poolStops, pc, idx, posted, given, kinds, curIdx,
                      wheel, refused, ran>>
      BY <1>2 DEF poolVars, pool, posts, tasks
    <2>2. PoolTypeOK'
      BY <2>1 DEF PoolInv, PoolTypeOK
    <2>3. PostedInv' /\ OwnerInv'
      BY <2>1 DEF PoolInv, PostedInv, OwnerInv, Busy
    <2>4. TaskInv'
      BY <2>1 DEF PoolInv, TaskInv, Immediate, Before
    <2>5. QED
      BY <2>2, <2>3, <2>4 DEF PoolInv
  <1>3. QED
    BY <1>1, <1>2

LEMMA PoolInvariant == PoolSpec => []PoolInv
  BY InitPoolInv, StepPoolInv, PTL DEF PoolSpec

-----------------------------------------------------------------------------
(* Theorems *)

\* The types of thread_pool hold in every reachable state: an index is below
\* the number of threads, whose vector is whole or empty, and only tasks that
\* were posted have run.
THEOREM PoolTypeCorrect == PoolSpec => []PoolTypeOK
  BY PoolInvariant, PTL DEF PoolInv

\* stop(), and with it the destructor, comes back only when every task that has
\* neither a timeout nor a token, and the first task of every token, has run.
THEOREM StopHasWaited == PoolSpec => StopWaits
  <1>1. PoolInv /\ [PoolNext]_poolVars => [owner # "down" /\ owner' = "down" => Immediate \subseteq ran]_poolVars
    <2> SUFFICES ASSUME PoolInv, PoolNext, owner # "down", owner' = "down"
                 PROVE  Immediate \subseteq ran
      BY DEF poolVars, pool
    <2>1. ClearThread /\ owner = "clearing" /\ ~(next <= Len(threads))
      BY DEF PoolNext, Stopping, Call, Load, Swap, PostTask, StartPool, StopPool, StopThread, ClearThread, Work, pool
    <2>2. QED
      BY <2>1, ClearedHaveRun
  <1>2. QED
    BY <1>1, PoolInvariant, PTL DEF PoolSpec, StopWaits

-----------------------------------------------------------------------------
(* One client *)

\* The index goes round.
LEMMA NextIndex ==
  ASSUME NEW n \in Nat \ {0}, NEW k \in 0..n - 1
  PROVE  (k + 1) % n = IF k = n - 1 THEN 0 ELSE k + 1
  <1>1. CASE k = n - 1
    BY <1>1
  <1>2. CASE k # n - 1
    BY <1>2
  <1>3. QED
    BY <1>1, <1>2

\* A post counts for its thread and for no other.
LEMMA CountPost ==
  ASSUME NEW n \in Nat, given \in Seq(1..n), NEW i \in 1..n, given' = Append(given, i), NEW j
  PROVE  Count(j) \in Nat /\ Count(j)' = IF j = i THEN Count(j) + 1 ELSE Count(j)
  <1> DEFINE S == {k \in 1..Len(given) : given[k] = j}
             T == {k \in 1..Len(given') : given'[k] = j}
  <1>1. /\ Len(given') = Len(given) + 1 /\ Len(given) \in Nat
        /\ \A k \in 1..Len(given) : given'[k] = given[k]
        /\ given'[Len(given) + 1] = i
    BY AppendIndex
  <1>2. IsFiniteSet(S)
    <2>1. IsFiniteSet(1..Len(given))
      BY <1>1, FS_Interval
    <2>2. QED
      BY <2>1, FS_Subset
  <1>3. Count(j) = Cardinality(S) /\ Count(j)' = Cardinality(T)
    BY DEF Count
  <1>4. Len(given) + 1 \notin S
    BY <1>1
  <1>5. CASE j = i
    <2>1. T = S \cup {Len(given) + 1}
      BY <1>1, <1>5
    <2>2. Cardinality(S \cup {Len(given) + 1}) = Cardinality(S) + 1
      BY <1>2, <1>4, FS_AddElement
    <2>3. Cardinality(S) \in Nat
      BY <1>2, FS_CardinalityType
    <2> HIDE DEF S, T
    <2>4. QED
      BY <1>3, <1>5, <2>1, <2>2, <2>3
  <1>6. CASE j # i
    <2>1. T = S
      BY <1>1, <1>6
    <2>2. QED
      BY <1>2, <1>3, <1>6, <2>1, FS_CardinalityType
  <1>7. QED
    BY <1>5, <1>6

LEMMA CountType ==
  ASSUME given \in Seq(1..size), NEW j
  PROVE  Count(j) \in Nat
  <1>1. IsFiniteSet(1..Len(given))
    BY FS_Interval
  <1>2. IsFiniteSet({k \in 1..Len(given) : given[k] = j})
    BY <1>1, FS_Subset
  <1>3. QED
    BY <1>2, FS_CardinalityType DEF Count

LEMMA RoundStep ==
  ASSUME NEW c, Posters = {c}, Weak = FALSE, PoolInv, RoundInv(c), PoolNext
  PROVE  RoundInv(c)'
  <1>1. /\ size \in Nat \ {0} /\ curIdx \in 0..size - 1 /\ idx[c] \in 0..size - 1
        /\ given \in Seq(1..size) /\ pc[c] \in {"idle", "swap", "post"}
        /\ pc = [pc EXCEPT ![c] = pc[c]] /\ idx = [idx EXCEPT ![c] = idx[c]]
        /\ c \in DOMAIN pc /\ c \in DOMAIN idx
    BY DEF PoolInv, PoolTypeOK
  <1>2. /\ pc[c] = "swap" => curIdx \in {idx[c], (idx[c] + 1) % size}
        /\ pc[c] = "post" => curIdx = idx[c]
        /\ \A i \in 2..size : Count(i) = IF i <= Last(c) + 1 THEN Count(1) + 1 ELSE Count(1)
    BY DEF RoundInv
  <1>3. (idx[c] + 1) % size = IF idx[c] = size - 1 THEN 0 ELSE idx[c] + 1
    BY <1>1, NextIndex
  <1>4. ASSUME given' = given, size' = size, Last(c)' = Last(c),
               pc'[c] = "swap" => curIdx' \in {idx'[c], (idx'[c] + 1) % size},
               pc'[c] = "post" => curIdx' = idx'[c]
        PROVE  RoundInv(c)'
    <2>1. \A i : Count(i)' = Count(i)
      BY <1>4 DEF Count
    <2>2. QED
      BY <1>2, <1>4, <2>1 DEF RoundInv
  <1>5. CASE Load(c)
    <2>1. /\ pc[c] = "idle" /\ pc'[c] = "swap" /\ idx'[c] = curIdx
          /\ given' = given /\ size' = size /\ curIdx' = curIdx
      BY <1>1, <1>5 DEF Load, pool
    <2>2. Last(c)' = Last(c)
      BY <2>1 DEF Last
    <2>3. QED
      BY <1>4, <2>1, <2>2
  <1>6. CASE Swap(c)
    <2>1. given' = given /\ size' = size /\ pc[c] = "swap"
      BY <1>6 DEF Swap, pool
    <2>2. CASE curIdx = idx[c] /\ curIdx' = (idx[c] + 1) % size /\ UNCHANGED <<pc, idx>>
      <3>1. Last(c)' = Last(c)
        BY <2>1, <2>2 DEF Last
      <3>2. QED
        BY <1>4, <2>1, <2>2, <3>1
    <2>3. CASE /\ curIdx # idx[c] /\ curIdx' = curIdx
               /\ idx' = [idx EXCEPT ![c] = curIdx] /\ pc' = [pc EXCEPT ![c] = "post"]
      <3>1. idx'[c] = curIdx /\ pc'[c] = "post"
        BY <1>1, <2>3
      <3>2. curIdx = IF idx[c] = size - 1 THEN 0 ELSE idx[c] + 1
        BY <1>2, <1>3, <2>1, <2>3
      <3>3. Last(c) = idx[c]
        BY <2>1 DEF Last
      <3>4. Last(c)' = IF curIdx = 0 THEN size - 1 ELSE curIdx - 1
        BY <2>1, <3>1 DEF Last
      <3>5. Last(c)' = Last(c)
        BY <1>1, <3>2, <3>3, <3>4
      <3>6. QED
        BY <1>4, <2>1, <2>3, <3>1, <3>5
    <2>4. QED
      BY <1>6, <2>2, <2>3 DEF Swap
  <1>7. CASE PostTask(c)
    <2> DEFINE m == idx[c] + 1
    <2>1. /\ pc[c] = "post" /\ pc'[c] = "idle" /\ curIdx' = curIdx /\ size' = size
          /\ given' = Append(given, m)
      BY <1>1, <1>7 DEF PostTask
    <2>2. m \in 1..size /\ curIdx = m - 1
      <3>1. curIdx = idx[c]
        BY <1>2, <2>1
      <3>2. idx[c] + 1 \in 1..size /\ idx[c] = (idx[c] + 1) - 1
        BY <1>1
      <3>3. QED
        BY <3>1, <3>2
    <2>3. \A j : Count(j) \in Nat /\ Count(j)' = IF j = m THEN Count(j) + 1 ELSE Count(j)
      BY <1>1, <2>1, <2>2, CountPost
    <2>4. Last(c)' = m - 1
      BY <2>1, <2>2 DEF Last
    <2>5. Last(c) = IF m = 1 THEN size - 1 ELSE m - 2
      BY <1>1, <2>1, <2>2 DEF Last
    <2> HIDE DEF m
    <2>6. ASSUME NEW i \in 2..size
          PROVE  Count(i)' = IF i <= Last(c)' + 1 THEN Count(1)' + 1 ELSE Count(1)'
      <3>1. Count(i) = IF i <= Last(c) + 1 THEN Count(1) + 1 ELSE Count(1)
        BY <1>2
      <3>2. Count(i) \in Nat /\ Count(1) \in Nat
        BY <2>3
      <3>3. CASE m = 1
        <4>1. Count(1)' = Count(1) + 1 /\ Count(i)' = Count(i)
          BY <2>3, <3>3
        <4>2. Count(i) = Count(1) + 1
          BY <1>1, <2>5, <3>1, <3>3
        <4>3. ~(i <= Last(c)' + 1)
          BY <2>4, <3>3
        <4>4. QED
          BY <4>1, <4>2, <4>3
      <3>4. CASE m # 1
        <4>1. Count(1)' = Count(1) /\ Count(i)' = IF i = m THEN Count(i) + 1 ELSE Count(i)
          BY <2>3, <3>4
        <4>2. Count(i) = IF i <= m - 1 THEN Count(1) + 1 ELSE Count(1)
          BY <2>2, <2>5, <3>1, <3>4
        <4>3. i <= Last(c)' + 1 <=> i <= m
          BY <2>2, <2>4
        <4>4. QED
          BY <2>2, <3>2, <4>1, <4>2, <4>3
      <3>5. QED
        BY <3>3, <3>4
    <2>7. QED
      BY <2>1, <2>6 DEF RoundInv
  <1>8. CASE StartPool \/ StopPool \/ Stopping \/ \E i \in 1..size : Work(i)
    <2>1. given' = given /\ size' = size /\ pc' = pc /\ idx' = idx /\ curIdx' = curIdx
      BY <1>8 DEF StartPool, StopPool, Stopping, StopThread, ClearThread, Work, posts
    <2>2. Last(c)' = Last(c)
      BY <2>1 DEF Last
    <2>3. QED
      BY <1>2, <1>4, <2>1, <2>2
  <1>9. QED
    BY <1>5, <1>6, <1>7, <1>8 DEF PoolNext, Call

\* The posts of a client that is alone, on a machine whose compare-and-swap
\* fails only when the value differs, go round the threads: thread_pool gives no
\* thread two tasks more than another, over any number of stops and starts.
THEOREM PostsBalanced ==
  ASSUME NEW c, Posters = {c}, Weak = FALSE
  PROVE  PoolSpec => []Balanced
  <1>1. PoolInit => RoundInv(c)
    <2> SUFFICES ASSUME PoolInit PROVE RoundInv(c)
      OBVIOUS
    <2>1. given = <<>> /\ curIdx = 0 /\ pc[c] = "idle" /\ size \in Nat \ {0}
      BY PoolAssumption DEF PoolInit, PoolAssumption, Larger
    <2>2. \A i : Count(i) = 0
      <3>1. ASSUME NEW i PROVE {k \in 1..Len(given) : given[k] = i} = {}
        BY <2>1
      <3>2. QED
        BY <3>1, FS_EmptySet DEF Count
    <2>3. Last(c) = 0
      BY <2>1 DEF Last
    <2>4. QED
      BY <2>1, <2>2, <2>3 DEF RoundInv
  <1>2. PoolInv /\ RoundInv(c) /\ [PoolNext]_poolVars => RoundInv(c)'
    <2> SUFFICES ASSUME PoolInv, RoundInv(c), [PoolNext]_poolVars PROVE RoundInv(c)'
      OBVIOUS
    <2>1. CASE PoolNext
      BY <2>1, RoundStep
    <2>2. CASE UNCHANGED poolVars
      <3>1. given' = given /\ size' = size /\ pc' = pc /\ idx' = idx /\ curIdx' = curIdx
        BY <2>2 DEF poolVars, pool, posts
      <3>2. (\A i : Count(i)' = Count(i)) /\ Last(c)' = Last(c)
        BY <3>1 DEF Count, Last
      <3>3. QED
        BY <3>1, <3>2 DEF RoundInv
    <2>3. QED
      BY <2>1, <2>2
  <1>3. PoolInv /\ RoundInv(c) => Balanced
    <2> SUFFICES ASSUME PoolInv, RoundInv(c), NEW i \in 1..size, NEW j \in 1..size
                 PROVE  Count(i) <= Count(j) + 1
      BY DEF Balanced
    <2>1. size \in Nat \ {0} /\ given \in Seq(1..size)
      BY DEF PoolInv, PoolTypeOK
    <2>2. \A k : Count(k) \in Nat
      BY <2>1, CountType
    <2>3. \A k \in 1..size : Count(k) \in {Count(1), Count(1) + 1}
      <3>1. \A k \in 1..size : k = 1 \/ k \in 2..size
        BY <2>1
      <3>2. QED
        BY <3>1 DEF RoundInv
    <2>4. Count(i) \in {Count(1), Count(1) + 1} /\ Count(j) \in {Count(1), Count(1) + 1}
      BY <2>3
    <2>5. Count(i) \in Nat /\ Count(j) \in Nat /\ Count(1) \in Nat
      BY <2>2
    <2>6. QED
      BY <2>4, <2>5
  <1>4. QED
    BY <1>1, <1>2, <1>3, PoolInvariant, PTL DEF PoolSpec

=============================================================================
