--------------------------- MODULE SerialDispatch ---------------------------
(***************************************************************************)
(* The dispatch of tasks to handler threads, with serial tokens.           *)
(*                                                                         *)
(* Clients post tasks to started handler threads (handler_thread::post,    *)
(* thread_pool::post, dispatch::async).  Each thread drains its own FIFO   *)
(* queue in process_queue.  A task that carries a serial token took a      *)
(* sequence number from the token when it was posted and runs only when    *)
(* the token's executing sequence reaches that number; until then its      *)
(* thread puts it back at the end of the queue.  Threads may be stopped    *)
(* while clients post and while tasks wait for their turn.                 *)
(*                                                                         *)
(* The queue is the linearizable FIFO that LockfreeQueue.tla is about, the *)
(* wake-up of the event loop is one flag, and the way a thread comes up is *)
(* the business of HandlerThread.tla.                                      *)
(***************************************************************************)
EXTENDS Naturals, Sequences, FiniteSets

CONSTANTS
  Threads,    \* the handler threads, all of them inside their event loop
  Clients,    \* the threads that post
  Tasks,      \* the messages, each posted once (a message is a unique_ptr)
  Tokens,     \* the serial tokens
  TokenOf,    \* the token a task carries, NoToken for none
  Delayed,    \* the tasks posted with a timeout
  StopModes,  \* the arguments of stop(bool safe): {} when nobody stops
  MaxStops,   \* bound on the calls of stop() per thread
  NoToken, StopMsg, NoMsg

Serial == {m \in Tasks : TokenOf[m] \in Tokens}
Plain  == Tasks \ (Serial \cup Delayed)

(***************************************************************************)
(* handler_thread::post has no overload with both a token and a timeout.   *)
(***************************************************************************)
ASSUME ConstantsAssumption ==
  /\ TokenOf \in [Tasks -> Tokens \cup {NoToken}]
  /\ NoToken \notin Tokens
  /\ Delayed \subseteq Tasks \ Serial
  /\ StopModes \subseteq BOOLEAN
  /\ MaxStops \in Nat
  /\ StopMsg \notin Tasks /\ NoMsg \notin Tasks /\ StopMsg # NoMsg

VARIABLES
  status,     \* where the unique_ptr of a task is
  home,       \* the handler thread a task was posted to
  seq,        \* message::sequence_
  current,    \* serial_token_impl::current_sequence
  executing,  \* serial_token_impl::executing_sequence
  queue,      \* handler_thread_impl::queue_
  signalled,  \* a wake-up of queued_event_ is pending
  stopping,   \* handler_thread_impl::stopping_
  loopDone,   \* the event loop was told to stop
  tpc, held,  \* the handler thread: its place in process_queue, its msg
  cpc, hand,  \* a client: its place in post(), the message it moves
  spc, stops, \* the caller of stop(): its place, the calls made so far
  backlog     \* history: the tasks a thread had taken on when first stopped

taskVars   == <<status, home, seq>>
tokenVars  == <<current, executing>>
threadVars == <<loopDone, tpc, held>>
clientVars == <<cpc, hand>>
stopVars   == <<stopping, spc, stops, backlog>>
vars == <<taskVars, tokenVars, queue, signalled, threadVars, clientVars, stopVars>>

Init ==
  /\ status = [m \in Tasks |-> "new"]
  /\ home \in [Tasks -> Threads] /\ \A m, n \in Tasks : home[m] = home[n]
  /\ seq = [m \in Tasks |-> 0]
  /\ current = [k \in Tokens |-> 0]
  /\ executing = [k \in Tokens |-> 0]
  /\ queue = [t \in Threads |-> <<>>]
  /\ signalled = [t \in Threads |-> FALSE]
  /\ stopping = [t \in Threads |-> FALSE]
  /\ loopDone = [t \in Threads |-> FALSE]
  /\ tpc = [t \in Threads |-> "waiting"]
  /\ held = [t \in Threads |-> NoMsg]
  /\ cpc = [c \in Clients |-> "idle"]
  /\ hand = [c \in Clients |-> NoMsg]
  /\ spc = [t \in Threads |-> "idle"]
  /\ stops = [t \in Threads |-> 0]
  /\ backlog = [t \in Threads |-> {}]

-----------------------------------------------------------------------------
(* post(): make the message, take a sequence number, enqueue, wake the loop *)

\* Faulty: the counter of the token is read and not advanced.
SetSerialTokenStale(m) ==
  /\ seq' = IF m \in Serial THEN [seq EXCEPT ![m] = current[TokenOf[m]]] ELSE seq
  /\ UNCHANGED current

\* message::set_serial_token: the token hands out its next sequence number.
SetSerialToken(m) ==
  IF m \in Serial
  THEN /\ seq' = [seq EXCEPT ![m] = current[TokenOf[m]]]
       /\ current' = [current EXCEPT ![TokenOf[m]] = @ + 1]
  ELSE UNCHANGED <<seq, current>>

Post(c, m, t) ==
  /\ cpc[c] = "idle"
  /\ status[m] = "new"
  /\ status' = [status EXCEPT ![m] = "posting"]
  /\ home' = [home EXCEPT ![m] = t]
  /\ SetSerialToken(m)
  /\ cpc' = [cpc EXCEPT ![c] = "posting"]
  /\ hand' = [hand EXCEPT ![c] = m]
  /\ UNCHANGED <<executing, queue, signalled, threadVars, stopVars>>

\* enqueue() returns at once when the thread is stopping: the message dies.
EnqueueRefused(c) ==
  /\ cpc[c] = "posting"
  /\ stopping[home[hand[c]]]
  /\ status' = [status EXCEPT ![hand[c]] = "dropped"]
  /\ cpc' = [cpc EXCEPT ![c] = "idle"]
  /\ hand' = [hand EXCEPT ![c] = NoMsg]
  /\ UNCHANGED <<home, seq, tokenVars, queue, signalled, threadVars, stopVars>>

EnqueueAccepted(c) ==
  /\ cpc[c] = "posting"
  /\ ~stopping[home[hand[c]]]
  /\ cpc' = [cpc EXCEPT ![c] = "accepted"]
  /\ UNCHANGED <<taskVars, tokenVars, queue, signalled, threadVars, hand, stopVars>>

EnqueuePush(c) ==
  LET m == hand[c] IN
  /\ cpc[c] = "accepted"
  /\ queue' = [queue EXCEPT ![home[m]] = Append(@, m)]
  /\ status' = [status EXCEPT ![m] = "queued"]
  /\ cpc' = [cpc EXCEPT ![c] = "pushed"]
  /\ UNCHANGED <<home, seq, tokenVars, signalled, threadVars, hand, stopVars>>

EnqueueSend(c) ==
  /\ cpc[c] = "pushed"
  /\ signalled' = [signalled EXCEPT ![home[hand[c]]] = TRUE]
  /\ cpc' = [cpc EXCEPT ![c] = "idle"]
  /\ hand' = [hand EXCEPT ![c] = NoMsg]
  /\ UNCHANGED <<taskVars, tokenVars, queue, threadVars, stopVars>>

-----------------------------------------------------------------------------
(* stop(safe), called by the owner of the thread *)

Stop(t, safe) ==
  /\ spc[t] = "idle"
  /\ stops[t] < MaxStops
  /\ stops' = [stops EXCEPT ![t] = @ + 1]
  /\ stopping' = [stopping EXCEPT ![t] = TRUE]
  /\ backlog' = IF stopping[t] THEN backlog
                ELSE [backlog EXCEPT ![t] =
                        {m \in Tasks : home[m] = t /\ status[m] \in {"queued", "held"}}]
  /\ spc' = [spc EXCEPT ![t] = IF safe THEN "checking" ELSE "forcing"]
  /\ UNCHANGED <<taskVars, tokenVars, queue, signalled, threadVars, clientVars>>

\* Faulty: a safe stop leaves it to process_queue to notice.
StopCheckSilent(t) ==
  /\ spc[t] \in {"checking", "forcing"}
  /\ spc' = [spc EXCEPT ![t] = "idle"]
  /\ UNCHANGED <<taskVars, tokenVars, queue, signalled, threadVars, clientVars,
                 stopping, stops, backlog>>

\* Only a running thread is sent a stop message, and when the stop is safe
\* only if its queue is empty: otherwise process_queue stops the loop.
StopCheck(t) ==
  /\ spc[t] \in {"checking", "forcing"}
  /\ spc' = [spc EXCEPT ![t] =
       IF tpc[t] = "exited" \/ (spc[t] = "checking" /\ queue[t] # <<>>)
       THEN "idle" ELSE "pushing"]
  /\ UNCHANGED <<taskVars, tokenVars, queue, signalled, threadVars, clientVars,
                 stopping, stops, backlog>>

StopPush(t) ==
  /\ spc[t] = "pushing"
  /\ queue' = [queue EXCEPT ![t] = Append(@, StopMsg)]
  /\ spc' = [spc EXCEPT ![t] = "sending"]
  /\ UNCHANGED <<taskVars, tokenVars, signalled, threadVars, clientVars,
                 stopping, stops, backlog>>

StopSend(t) ==
  /\ spc[t] = "sending"
  /\ signalled' = [signalled EXCEPT ![t] = TRUE]
  /\ spc' = [spc EXCEPT ![t] = "idle"]
  /\ UNCHANGED <<taskVars, tokenVars, queue, threadVars, clientVars,
                 stopping, stops, backlog>>

-----------------------------------------------------------------------------
(* The handler thread: its event loop runs process_queue and timers *)

Wake(t) ==
  /\ tpc[t] = "waiting"
  /\ signalled[t]
  /\ ~loopDone[t]
  /\ signalled' = [signalled EXCEPT ![t] = FALSE]
  /\ tpc' = [tpc EXCEPT ![t] = "draining"]
  /\ UNCHANGED <<taskVars, tokenVars, queue, loopDone, held, clientVars, stopVars>>

Dequeue(t) ==
  /\ tpc[t] = "draining"
  /\ queue[t] # <<>>
  /\ held' = [held EXCEPT ![t] = Head(queue[t])]
  /\ queue' = [queue EXCEPT ![t] = Tail(@)]
  /\ status' = [m \in Tasks |-> IF m = Head(queue[t]) THEN "held" ELSE status[m]]
  /\ tpc' = [tpc EXCEPT ![t] = "dispatch"]
  /\ UNCHANGED <<home, seq, tokenVars, signalled, loopDone, clientVars, stopVars>>

\* A message with a timeout goes to the timer wheel of the thread.
PostTimer(t) ==
  /\ tpc[t] = "dispatch"
  /\ held[t] \in Delayed
  /\ status' = [status EXCEPT ![held[t]] = "delayed"]
  /\ held' = [held EXCEPT ![t] = NoMsg]
  /\ tpc' = [tpc EXCEPT ![t] = "draining"]
  /\ UNCHANGED <<home, seq, tokenVars, queue, signalled, loopDone, clientVars, stopVars>>

\* Faulty: a message acquires the token one turn too early.
CanRunEarly(m) == m \in Serial => executing[TokenOf[m]] + 1 >= seq[m]

\* message::try_acquire
CanRun(m) == m \in Serial => executing[TokenOf[m]] = seq[m]

TryAcquire(t) ==
  /\ tpc[t] = "dispatch"
  /\ held[t] \in Tasks \ Delayed
  /\ tpc' = [tpc EXCEPT ![t] = IF CanRun(held[t]) THEN "running" ELSE "requeue"]
  /\ UNCHANGED <<taskVars, tokenVars, queue, signalled, loopDone, held, clientVars, stopVars>>

\* Faulty: a refused message releases a turn that was not its own.
RequeueRefusedReleasing(t) ==
  /\ tpc[t] = "requeue"
  /\ stopping[t]
  /\ status' = [status EXCEPT ![held[t]] = "dropped"]
  /\ executing' = [k \in Tokens |-> IF k = TokenOf[held[t]] THEN executing[k] + 1 ELSE executing[k]]
  /\ held' = [held EXCEPT ![t] = NoMsg]
  /\ tpc' = [tpc EXCEPT ![t] = "draining"]
  /\ UNCHANGED <<home, seq, current, queue, signalled, loopDone, clientVars, stopVars>>

\* Putting the message back goes through enqueue(), which refuses it when the
\* thread is stopping; its sequence number is then never released.
RequeueRefused(t) ==
  /\ tpc[t] = "requeue"
  /\ stopping[t]
  /\ status' = [status EXCEPT ![held[t]] = "dropped"]
  /\ held' = [held EXCEPT ![t] = NoMsg]
  /\ tpc' = [tpc EXCEPT ![t] = "draining"]
  /\ UNCHANGED <<home, seq, tokenVars, queue, signalled, loopDone, clientVars, stopVars>>

RequeueAccepted(t) ==
  /\ tpc[t] = "requeue"
  /\ ~stopping[t]
  /\ tpc' = [tpc EXCEPT ![t] = "requeueing"]
  /\ UNCHANGED <<taskVars, tokenVars, queue, signalled, loopDone, held, clientVars, stopVars>>

\* Faulty: the message goes back to the front of the queue.
RequeueFront(t) ==
  /\ tpc[t] = "requeueing"
  /\ queue' = [queue EXCEPT ![t] = <<held[t]>> \o @]
  /\ status' = [status EXCEPT ![held[t]] = "queued"]
  /\ signalled' = [signalled EXCEPT ![t] = TRUE]
  /\ held' = [held EXCEPT ![t] = NoMsg]
  /\ tpc' = [tpc EXCEPT ![t] = "draining"]
  /\ UNCHANGED <<home, seq, tokenVars, loopDone, clientVars, stopVars>>

\* Only this thread consumes the wake-up, so push and send are one step.
RequeuePush(t) ==
  /\ tpc[t] = "requeueing"
  /\ queue' = [queue EXCEPT ![t] = Append(@, held[t])]
  /\ status' = [status EXCEPT ![held[t]] = "queued"]
  /\ signalled' = [signalled EXCEPT ![t] = TRUE]
  /\ held' = [held EXCEPT ![t] = NoMsg]
  /\ tpc' = [tpc EXCEPT ![t] = "draining"]
  /\ UNCHANGED <<home, seq, tokenVars, loopDone, clientVars, stopVars>>

\* callable_message::process: the callable has returned or thrown, the token
\* of the message is released.
Finish(t) ==
  LET m == held[t] IN
  /\ tpc[t] \in {"running", "firing"}
  /\ status' = [status EXCEPT ![m] = "done"]
  /\ executing' = IF m \in Serial THEN [executing EXCEPT ![TokenOf[m]] = @ + 1]
                  ELSE executing
  /\ held' = [held EXCEPT ![t] = NoMsg]
  /\ tpc' = [tpc EXCEPT ![t] = IF @ = "running" THEN "draining" ELSE "waiting"]
  /\ UNCHANGED <<home, seq, current, queue, signalled, loopDone, clientVars, stopVars>>

\* stop_message::process; the drain goes on after it.
HandleStop(t) ==
  /\ tpc[t] = "dispatch"
  /\ held[t] = StopMsg
  /\ loopDone' = [loopDone EXCEPT ![t] = TRUE]
  /\ held' = [held EXCEPT ![t] = NoMsg]
  /\ tpc' = [tpc EXCEPT ![t] = "draining"]
  /\ UNCHANGED <<taskVars, tokenVars, queue, signalled, clientVars, stopVars>>

QueueEmpty(t) ==
  /\ tpc[t] = "draining"
  /\ queue[t] = <<>>
  /\ tpc' = [tpc EXCEPT ![t] = "returning"]
  /\ UNCHANGED <<taskVars, tokenVars, queue, signalled, loopDone, held, clientVars, stopVars>>

\* Faulty: the wake-up is cleared after the drain and not before it.
ReturnClearing(t) ==
  /\ tpc[t] = "returning"
  /\ loopDone' = [loopDone EXCEPT ![t] = @ \/ (stopping[t] /\ queue[t] = <<>>)]
  /\ signalled' = [signalled EXCEPT ![t] = FALSE]
  /\ tpc' = [tpc EXCEPT ![t] = "waiting"]
  /\ UNCHANGED <<taskVars, tokenVars, queue, held, clientVars, stopVars>>

\* Faulty: the queue is not looked at again before the loop is stopped.
ReturnBlind(t) ==
  /\ tpc[t] = "returning"
  /\ loopDone' = [loopDone EXCEPT ![t] = @ \/ stopping[t]]
  /\ \E again \in BOOLEAN : signalled' = [signalled EXCEPT ![t] = @ \/ again]
  /\ tpc' = [tpc EXCEPT ![t] = "waiting"]
  /\ UNCHANGED <<taskVars, tokenVars, queue, held, clientVars, stopVars>>

\* process_queue stops the loop of a stopping thread once the queue is empty.
\* basic_async sends to itself again when it counted more than one send, so a
\* return may leave a wake-up behind that nobody asked for.
Return(t) ==
  /\ tpc[t] = "returning"
  /\ loopDone' = [loopDone EXCEPT ![t] = @ \/ (stopping[t] /\ queue[t] = <<>>)]
  /\ \E again \in BOOLEAN : signalled' = [signalled EXCEPT ![t] = @ \/ again]
  /\ tpc' = [tpc EXCEPT ![t] = "waiting"]
  /\ UNCHANGED <<taskVars, tokenVars, queue, held, clientVars, stopVars>>

\* The timer wheel runs an expired message; no token is consulted.
FireTimer(t, m) ==
  /\ tpc[t] = "waiting"
  /\ status[m] = "delayed"
  /\ home[m] = t
  /\ status' = [status EXCEPT ![m] = "held"]
  /\ held' = [held EXCEPT ![t] = m]
  /\ tpc' = [tpc EXCEPT ![t] = "firing"]
  /\ UNCHANGED <<home, seq, tokenVars, queue, signalled, loopDone, clientVars, stopVars>>

\* The loop returns; what is still queued or delayed is never run.
Exit(t) ==
  /\ tpc[t] = "waiting"
  /\ loopDone[t]
  /\ tpc' = [tpc EXCEPT ![t] = "exited"]
  /\ UNCHANGED <<taskVars, tokenVars, queue, signalled, loopDone, held, clientVars, stopVars>>

-----------------------------------------------------------------------------

Enqueue(c) ==
  EnqueueRefused(c) \/ EnqueueAccepted(c) \/ EnqueuePush(c) \/ EnqueueSend(c)

StopStep(t) == StopCheck(t) \/ StopPush(t) \/ StopSend(t)

ThreadStep(t) ==
  \/ Wake(t) \/ Dequeue(t) \/ PostTimer(t) \/ TryAcquire(t)
  \/ RequeueRefused(t) \/ RequeueAccepted(t) \/ RequeuePush(t)
  \/ Finish(t) \/ HandleStop(t) \/ QueueEmpty(t) \/ Return(t) \/ Exit(t)

Next ==
  \/ \E c \in Clients, m \in Tasks, t \in Threads : Post(c, m, t)
  \/ \E c \in Clients : Enqueue(c)
  \/ \E t \in Threads, safe \in StopModes : Stop(t, safe)
  \/ \E t \in Threads : StopStep(t)
  \/ \E t \in Threads : ThreadStep(t)
  \/ \E t \in Threads, m \in Tasks : FireTimer(t, m)

(***************************************************************************)
(* A client in the middle of post() and a caller in the middle of stop()   *)
(* go on, a handler thread is scheduled, and a callable returns.  The      *)
(* event loop looks at its timers in every iteration, so an expired timer  *)
(* is not passed over for ever by wake-ups.                                *)
(***************************************************************************)
Fairness ==
  /\ \A c \in Clients : WF_vars(Enqueue(c))
  /\ \A t \in Threads : WF_vars(StopStep(t)) /\ WF_vars(ThreadStep(t))
  /\ \A t \in Threads, m \in Tasks : SF_vars(FireTimer(t, m))

Spec == Init /\ [][Next]_vars

FairSpec == Spec /\ Fairness

-----------------------------------------------------------------------------
(* Properties *)

\* Type invariant: what every variable of a started pool may hold.
TypeOK ==
  /\ status \in [Tasks -> {"new", "posting", "queued", "held", "delayed", "done", "dropped"}]
  /\ home \in [Tasks -> Threads]
  /\ seq \in [Tasks -> Nat]
  /\ current \in [Tokens -> Nat]
  /\ executing \in [Tokens -> Nat]
  /\ queue \in [Threads -> Seq(Tasks \cup {StopMsg})]
  /\ signalled \in [Threads -> BOOLEAN]
  /\ stopping \in [Threads -> BOOLEAN]
  /\ loopDone \in [Threads -> BOOLEAN]
  /\ tpc \in [Threads -> {"waiting", "draining", "dispatch", "requeue", "requeueing",
                          "running", "firing", "returning", "exited"}]
  /\ held \in [Threads -> Tasks \cup {StopMsg, NoMsg}]
  /\ cpc \in [Clients -> {"idle", "posting", "accepted", "pushed"}]
  /\ hand \in [Clients -> Tasks \cup {NoMsg}]
  /\ spc \in [Threads -> {"idle", "checking", "forcing", "pushing", "sending"}]
  /\ stops \in [Threads -> 0..MaxStops]
  /\ backlog \in [Threads -> SUBSET Tasks]

Executing(t) == tpc[t] \in {"running", "firing"}

\* Two threads never execute tasks of one token at the same time, although
\* try_acquire takes no lock: it only compares two numbers.
TokenMutex ==
  \A t, u \in Threads :
    /\ Executing(t) /\ Executing(u) /\ t # u
    /\ held[t] \in Serial /\ held[u] \in Serial
    => TokenOf[held[t]] # TokenOf[held[u]]

\* A task of a token executes only when every task that took an earlier
\* number from the token has finished, on whatever thread: what lets a test
\* wait for all tasks of a token by waiting for the last one.
SerialOrder ==
  \A t \in Threads : Executing(t) /\ held[t] \in Serial =>
    \A m \in Serial :
      /\ TokenOf[m] = TokenOf[held[t]]
      /\ status[m] # "new"
      /\ seq[m] < seq[held[t]]
      => status[m] = "done"

\* A message is in one place, through any number of trips back to the queue:
\* it is queued, once and in one queue, or held by one thread, exactly when its
\* status says so, so none is lost and none is run twice.
OnePlace ==
  /\ \A m \in Tasks : status[m] = "queued" <=>
       \E t \in Threads : \E i \in DOMAIN queue[t] : queue[t][i] = m
  /\ \A t, u \in Threads : \A i \in DOMAIN queue[t], j \in DOMAIN queue[u] :
       queue[t][i] = queue[u][j] /\ queue[t][i] \in Tasks => t = u /\ i = j
  /\ \A m \in Tasks : status[m] = "held" <=> \E t \in Threads : held[t] = m
  /\ \A t, u \in Threads : held[t] = held[u] /\ held[t] \in Tasks => t = u

\* No lost wake-up: a thread that waits in its loop with messages in its queue
\* has a wake-up pending, or somebody is about to send one, or the loop was
\* stopped.  The push and the send of enqueue() are two steps.
NoLostWakeup ==
  \A t \in Threads : tpc[t] = "waiting" /\ queue[t] # <<>> =>
    \/ signalled[t] \/ loopDone[t] \/ spc[t] = "sending"
    \/ \E c \in Clients : cpc[c] = "pushed" /\ home[hand[c]] = t

\* A stopping thread leaves its loop only after it has run every task without
\* a token and without a timeout that it had taken on when it was stopped,
\* whether the stop was safe or not and wherever the stop message landed.
PlainBacklogRuns ==
  \A t \in Threads : tpc[t] = "exited" =>
    \A m \in backlog[t] \cap Plain : status[m] = "done"

\* The same promise for tasks with a token, which stop() does not keep.
SerialBacklogRuns ==
  \A t \in Threads : tpc[t] = "exited" =>
    \A m \in backlog[t] \cap Serial : status[m] = "done"

\* Every posted task is executed when nobody stops a thread: no thread waits
\* for its turn in a way that keeps the task whose turn it is from running.
AllTasksRun == \A m \in Tasks : status[m] = "posting" ~> status[m] = "done"

\* A stopped thread leaves its event loop: stop() either finds a message in the
\* queue, whose delivery ends the loop, or sends a stop message.
StopEndsLoop == \A t \in Threads : stopping[t] ~> tpc[t] = "exited"

\* A task accepted by a thread that nobody stops is executed, or its loop ends.
OthersUnaffected ==
  \A m \in Tasks : status[m] = "queued" ~> (status[m] = "done" \/ stopping[home[m]])

(***************************************************************************)
(* The inductive invariant behind the safety properties above.             *)
(***************************************************************************)

\* A queue holds each task once, and only tasks of its own thread.
QueueInv ==
  /\ \A t \in Threads : \A i \in DOMAIN queue[t] : queue[t][i] \in Tasks =>
       status[queue[t][i]] = "queued" /\ home[queue[t][i]] = t
  /\ \A t \in Threads : \A i, j \in DOMAIN queue[t] :
       queue[t][i] = queue[t][j] /\ queue[t][i] \in Tasks => i = j
  /\ \A m \in Tasks : status[m] = "queued" =>
       \E i \in DOMAIN queue[home[m]] : queue[home[m]][i] = m

\* What a thread and a client have in hand at each place of their code.
HandInv ==
  /\ \A t \in Threads :
       /\ held[t] \in Tasks => status[held[t]] = "held" /\ home[held[t]] = t
       /\ tpc[t] = "dispatch" => held[t] # NoMsg
       /\ tpc[t] \in {"requeue", "requeueing", "running"} => held[t] \in Tasks \ Delayed
       /\ tpc[t] = "firing" => held[t] \in Delayed
       /\ tpc[t] \in {"waiting", "draining", "returning", "exited"} => held[t] = NoMsg
  /\ \A m \in Tasks : status[m] = "held" => held[home[m]] = m
  /\ \A m \in Tasks : status[m] = "delayed" => m \in Delayed
  /\ \A c \in Clients :
       /\ cpc[c] # "idle" => hand[c] \in Tasks
       /\ cpc[c] \in {"posting", "accepted"} => status[hand[c]] = "posting"
  /\ \A c, d \in Clients :
       /\ cpc[c] \in {"posting", "accepted"} /\ cpc[d] \in {"posting", "accepted"}
       /\ hand[c] = hand[d]
       => c = d

\* Sequence numbers are unique, and the executing sequence is the number of
\* the first task that has not finished.
NumberInv ==
  /\ \A k \in Tokens : executing[k] <= current[k]
  /\ \A m \in Serial : status[m] # "new" => seq[m] < current[TokenOf[m]]
  /\ \A m, n \in Serial :
       /\ status[m] # "new" /\ status[n] # "new"
       /\ TokenOf[m] = TokenOf[n] /\ seq[m] = seq[n]
       => m = n
  /\ \A m \in Serial : status[m] # "new" /\ seq[m] < executing[TokenOf[m]] => status[m] = "done"
  /\ \A t \in Threads : tpc[t] = "running" /\ held[t] \in Serial =>
       seq[held[t]] = executing[TokenOf[held[t]]]

\* Until it drains its queue again, a thread with messages in it has a wake-up
\* pending or on its way; a message that a client has pushed is no longer new,
\* so nobody can post it to another thread before the wake-up is sent.
WakeupInv ==
  /\ \A c \in Clients : cpc[c] = "pushed" => status[hand[c]] # "new"
  /\ \A t \in Threads : tpc[t] \in {"waiting", "firing", "returning"} /\ queue[t] # <<>> =>
       \/ signalled[t] \/ loopDone[t] \/ spc[t] = "sending"
       \/ \E c \in Clients : cpc[c] = "pushed" /\ home[hand[c]] = t

\* Only a stopping thread meets a stop message or ends its loop.
StopInv ==
  \A t \in Threads :
    /\ loopDone[t] \/ held[t] = StopMsg \/ spc[t] # "idle" => stopping[t]
    /\ \A i \in DOMAIN queue[t] : queue[t][i] = StopMsg => stopping[t]
    /\ tpc[t] = "exited" => loopDone[t]

\* Only a task with a token is put back, so a plain task of the backlog stays
\* with its thread until it has run; and a loop that was told to stop is left
\* when neither the queue nor the hand of the thread holds one.
BacklogInv ==
  \A t \in Threads :
    /\ tpc[t] \in {"requeue", "requeueing"} => held[t] \in Serial
    /\ \A m \in backlog[t] \cap Plain : home[m] = t /\ status[m] \in {"queued", "held", "done"}
    /\ loopDone[t] /\ tpc[t] \in {"returning", "waiting", "firing", "exited"} =>
         \A m \in backlog[t] \cap Plain : status[m] = "done"

DispatchInv ==
  /\ TypeOK /\ QueueInv /\ HandInv /\ NumberInv
  /\ WakeupInv /\ StopInv /\ BacklogInv

(***************************************************************************)
(* The abstract executor: the tasks of a token in the order in which they  *)
(* took their numbers, executed one after the other.                       *)
(***************************************************************************)
TaskAt(k, n) ==
  CHOOSE m \in Tasks : TokenOf[m] = k /\ status[m] # "new" /\ seq[m] = n

Line == [k \in Tokens |-> [i \in 1..current[k] |-> TaskAt(k, i - 1)]]
Submitted == {m \in Tasks : status[m] # "new"}
Running == {m \in Tasks : \E t \in Threads : Executing(t) /\ held[t] = m}
Finished == {m \in Tasks : status[m] = "done"}

Abstract == INSTANCE SerialExecutor WITH
  line <- Line, submitted <- Submitted, running <- Running, finished <- Finished

\* What the dispatch promises, see SerialExecutor.tla: each task is executed
\* at most once, and the tasks of a token one at a time in submission order.
ImplementsSerialExecutor == Abstract!Spec

=============================================================================
