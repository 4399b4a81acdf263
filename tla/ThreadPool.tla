----------------------------- MODULE ThreadPool -----------------------------
(***************************************************************************)
(* dispatch::thread_pool: the choice of a thread for a post, start, stop,  *)
(* and the destruction of the threads one after the other.                 *)
(*                                                                         *)
(* A thread of the pool is a handler_thread, here by what HandlerThread.tla*)
(* shows of it: it takes what was enqueued, in order, and its destructor   *)
(* waits until its queue is empty and it has ended.  A task with a timeout *)
(* it leaves to its timer wheel, one whose token does not admit it goes    *)
(* back to the queue.  No name is one of HandlerThread, so a module can    *)
(* extend both.                                                            *)
(***************************************************************************)
EXTENDS Naturals, Sequences, FiniteSets

CONSTANTS
  Posters,       \* the clients, which post
  Sizes,         \* what the constructor is called with
  Tokens,        \* the serial tokens
  Weak,          \* whether a compare-and-swap may fail without a reason
  MaxTasks,      \* bound: the tasks of all clients
  MaxPoolStops   \* bound: the calls of stop()

ASSUME PoolAssumption ==
  /\ IsFiniteSet(Posters) /\ {"plain", "timed"} \cap Tokens = {}
  /\ Sizes \subseteq Nat /\ Weak \in BOOLEAN
  /\ MaxTasks \in Nat /\ MaxPoolStops \in Nat

VARIABLES
  size,     \* size_
  threads,  \* threads_: of each its state and its queue
  curIdx,   \* cur_idx_
  owner,    \* "up", "stopping", "clearing", "down"
  next,     \* the thread that stop() comes to next
  pc, idx,  \* a client: its place in a post, and the index it has
  posted,   \* counts the tasks, and names them
  given,    \* history: the threads of the posts, in the order they returned
  kinds,    \* of each task posted: "plain", "timed", or its token
  wheel,    \* the tasks in the timer wheels of the threads they were given to
  refused,  \* the tasks that a thread has taken, and that had to wait
  ran,      \* history: the tasks that have run
  poolStops \* counts the calls of stop()

pool == <<size, threads, owner, next, poolStops>>
posts == <<pc, idx, posted, given, kinds>>
tasks == <<wheel, refused, ran>>
poolVars == <<pool, curIdx, posts, tasks>>

Larger(a, b) == IF a < b THEN b ELSE a

NewThread == [state |-> "starting", queue |-> <<>>]
NewThreads(n) == [i \in 1..n |-> NewThread]

PoolInit ==
  /\ \E n \in Sizes : size = Larger(n, 1)
  /\ threads = NewThreads(size)
  /\ curIdx = 0
  /\ owner = "up" /\ next = 1 /\ poolStops = 0
  /\ pc = [c \in Posters |-> "idle"] /\ idx = [c \in Posters |-> 0]
  /\ posted = 0 /\ given = <<>> /\ kinds = <<>>
  /\ wheel = {} /\ refused = {} /\ ran = {}

-----------------------------------------------------------------------------
(* post() and post_awaitable(), of each kind, and async() *)

\* get_next_thread_idx().  Obligation of the caller: the pool is started, and
\* not stopped before the call is over, for it works on threads_.
Load(c) ==
  /\ owner = "up" /\ posted < MaxTasks
  /\ pc[c] = "idle"
  /\ pc' = [pc EXCEPT ![c] = "swap"]
  /\ idx' = [idx EXCEPT ![c] = curIdx]
  /\ posted' = posted + 1
  /\ UNCHANGED <<pool, curIdx, given, kinds, tasks>>

\* Faulty: forgets to count.
SwapSame(c) ==
  /\ pc[c] = "swap"
  /\ IF curIdx = idx[c]
     THEN curIdx' = idx[c] /\ UNCHANGED <<pc, idx>>
     ELSE /\ idx' = [idx EXCEPT ![c] = curIdx]
          /\ pc' = [pc EXCEPT ![c] = "post"]
          /\ UNCHANGED curIdx
  /\ UNCHANGED <<pool, posted, given, kinds, tasks>>

\* The loop goes on when the swap succeeds: the client that has moved the index
\* on finds it there the next time, and leaves with what it has found.
Swap(c) ==
  /\ pc[c] = "swap"
  /\ \/ /\ curIdx = idx[c]
        /\ curIdx' = (idx[c] + 1) % size
        /\ UNCHANGED <<pc, idx>>
     \/ /\ curIdx # idx[c] \/ Weak
        /\ idx' = [idx EXCEPT ![c] = curIdx]
        /\ pc' = [pc EXCEPT ![c] = "post"]
        /\ UNCHANGED curIdx
  /\ UNCHANGED <<pool, posted, given, kinds, tasks>>

\* threads_[idx]->post(task): without more, with a timeout above 0, or with a
\* token, whose number is taken here too.
PostTask(c) ==
  /\ pc[c] = "post"
  /\ pc' = [pc EXCEPT ![c] = "idle"]
  /\ LET i == idx[c] + 1 IN
       /\ given' = Append(given, i)
       /\ threads' = [threads EXCEPT ![i].queue = Append(@, Len(given) + 1)]
  /\ \E kind \in {"plain", "timed"} \cup Tokens : kinds' = Append(kinds, kind)
  /\ UNCHANGED <<size, owner, next, poolStops, curIdx, idx, posted, tasks>>

-----------------------------------------------------------------------------
(* start(), stop() and the destructor, which only calls stop() *)

\* Faulty: begins with the first thread again.
StartPoolAfresh ==
  /\ owner = "down" /\ threads = <<>>
  /\ owner' = "up"
  /\ threads' = NewThreads(size)
  /\ curIdx' = 0
  /\ UNCHANGED <<size, next, poolStops, posts, tasks>>

\* A second start has no effect.
StartPool ==
  /\ owner = "down" /\ threads = <<>>
  /\ owner' = "up"
  /\ threads' = NewThreads(size)
  /\ UNCHANGED <<size, next, poolStops, curIdx, posts, tasks>>

\* Obligation of the caller: the threads have come to run their loops, for
\* until then a handler_thread may lose its stop().
StopPool ==
  /\ owner = "up" /\ poolStops < MaxPoolStops
  /\ \A c \in Posters : pc[c] = "idle"
  /\ \A i \in 1..Len(threads) : threads[i].state = "running"
  /\ owner' = "stopping" /\ next' = 1
  /\ poolStops' = poolStops + 1
  /\ UNCHANGED <<size, threads, curIdx, posts, tasks>>

\* thd->stop(true)
StopThread ==
  /\ owner = "stopping"
  /\ IF next <= Len(threads)
     THEN /\ threads' = [threads EXCEPT ![next].state = "stopping"]
          /\ next' = next + 1 /\ UNCHANGED owner
     ELSE owner' = "clearing" /\ next' = 1 /\ UNCHANGED threads
  /\ UNCHANGED <<size, poolStops, curIdx, posts, tasks>>

\* Faulty: a thread is not waited for.
ClearThreadDetached ==
  /\ owner = "clearing"
  /\ IF next <= Len(threads)
     THEN next' = next + 1 /\ UNCHANGED <<threads, owner>>
     ELSE owner' = "down" /\ threads' = <<>> /\ UNCHANGED next
  /\ UNCHANGED <<size, poolStops, curIdx, posts, tasks>>

\* threads_.clear(): each destructor joins its thread.
ClearThread ==
  /\ owner = "clearing"
  /\ IF next <= Len(threads)
     THEN threads[next].state = "ended" /\ next' = next + 1 /\ UNCHANGED <<threads, owner>>
     ELSE owner' = "down" /\ threads' = <<>> /\ UNCHANGED next
  /\ UNCHANGED <<size, poolStops, curIdx, posts, tasks>>

-----------------------------------------------------------------------------
(* The threads *)

\* The tasks of the same token that come before task k; try_acquire() admits k
\* when they have run, and a task without a token always.
Before(k) == {j \in 1..k - 1 : kinds[k] \in Tokens /\ kinds[j] = kinds[k]}
Admitted(k) == Before(k) \subseteq ran

InLoop(i) == threads[i].state \in {"running", "stopping"}
Held(i) == {k \in refused : given[k] = i}

BeginThread(i) ==
  /\ threads[i].state = "starting"
  /\ threads' = [threads EXCEPT ![i].state = "running"]
  /\ UNCHANGED tasks

\* process_queue takes the next task, for the timer wheel, to run it, or to put
\* it back.  (SerialDispatch has the steps of a token.)
Take(i) ==
  /\ InLoop(i) /\ Held(i) = {} /\ threads[i].queue # <<>>
  /\ threads' = [threads EXCEPT ![i].queue = Tail(@)]
  /\ LET k == Head(threads[i].queue) IN
       \/ kinds[k] = "timed" /\ wheel' = wheel \cup {k} /\ UNCHANGED <<refused, ran>>
       \/ kinds[k] # "timed" /\ Admitted(k) /\ ran' = ran \cup {k} /\ UNCHANGED <<wheel, refused>>
       \/ ~Admitted(k) /\ refused' = refused \cup {k} /\ UNCHANGED <<wheel, ran>>

\* By enqueue(), which drops the task when the thread has been stopped.
PutBack(i) ==
  /\ InLoop(i)
  /\ \E k \in Held(i) :
       /\ refused' = refused \ {k}
       /\ IF threads[i].state = "running"
          THEN threads' = [threads EXCEPT ![i].queue = Append(@, k)]
          ELSE UNCHANGED threads
  /\ UNCHANGED <<wheel, ran>>

\* A timeout is over, and the loop has time for it.
Fire(i) ==
  /\ InLoop(i) /\ Held(i) = {}
  /\ \E k \in wheel : given[k] = i /\ wheel' = wheel \ {k} /\ ran' = ran \cup {k}
  /\ UNCHANGED <<threads, refused>>

\* The timer wheel goes with its thread, and what is in it.
EndThread(i) ==
  /\ threads[i].state = "stopping" /\ threads[i].queue = <<>> /\ Held(i) = {}
  /\ threads' = [threads EXCEPT ![i].state = "ended"]
  /\ wheel' = {k \in wheel : given[k] # i}
  /\ UNCHANGED <<refused, ran>>

Work(i) ==
  /\ i <= Len(threads)
  /\ BeginThread(i) \/ Take(i) \/ PutBack(i) \/ Fire(i) \/ EndThread(i)
  /\ UNCHANGED <<size, owner, next, poolStops, curIdx, posts>>

Call(c) == Swap(c) \/ PostTask(c)
Stopping == StopThread \/ ClearThread
MaxSize == CHOOSE n \in Sizes \cup {1} : \A m \in Sizes \cup {1} : m <= n

PoolNext ==
  \/ StartPool \/ StopPool \/ Stopping
  \/ \E c \in Posters : Load(c) \/ Call(c)
  \/ \E i \in 1..size : Work(i)

PoolSpec == PoolInit /\ [][PoolNext]_poolVars

\* Clients, threads and a call of stop() go on with what they have begun.
FairPoolSpec ==
  /\ PoolSpec /\ WF_poolVars(Stopping)
  /\ \A c \in Posters : WF_poolVars(Call(c))
  /\ \A i \in 1..MaxSize : WF_poolVars(Work(i))

-----------------------------------------------------------------------------
(* Properties *)

\* Type invariant.
PoolTypeOK ==
  /\ size \in Nat \ {0} /\ curIdx \in 0..size - 1
  /\ threads \in Seq([state : {"starting", "running", "stopping", "ended"}, queue : Seq(1..MaxTasks)])
  /\ Len(threads) \in {0, size}
  /\ owner \in {"up", "stopping", "clearing", "down"} /\ next \in 1..size + 1
  /\ pc \in [Posters -> {"idle", "swap", "post"}] /\ idx \in [Posters -> 0..size - 1]
  /\ posted \in 0..MaxTasks /\ poolStops \in 0..MaxPoolStops
  /\ given \in Seq(1..size)
  /\ kinds \in Seq({"plain", "timed"} \cup Tokens) /\ Len(kinds) = Len(given)
  /\ wheel \subseteq 1..Len(given) /\ refused \subseteq 1..Len(given) /\ ran \subseteq 1..Len(given)

\* A post returns: with two threads or more, and one client.
PostReturns == \A c \in Posters : pc[c] # "idle" ~> pc[c] = "idle"

Count(i) == Cardinality({k \in 1..Len(given) : given[k] = i})

\* The posts of a client that is alone go round: no thread has two more than
\* another, also over a stop() and a start().
Balanced == \A i, j \in 1..size : Count(i) <= Count(j) + 1

\* Tasks that no thread keeps back, for a time or for their turn.
Immediate == {k \in 1..Len(given) : kinds[k] # "timed" /\ Before(k) = {}}

\* stop(), and with it the destructor, returns only when every task without a
\* timeout and without a token, and the first of every token, has run: so a
\* started pool accepts every post.  What is still in a timer wheel then, or was
\* put back to wait for its turn, may be lost.
StopWaits == [][owner # "down" /\ owner' = "down" => Immediate \subseteq ran]_poolVars
AllRun == [][owner # "down" /\ owner' = "down" => ran = 1..Len(given)]_poolVars
PoolStopReturns == owner = "stopping" ~> owner = "down"

=============================================================================
