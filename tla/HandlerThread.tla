---------------------------- MODULE HandlerThread ----------------------------
(***************************************************************************)
(* The life of one handler_thread, from its constructor, which starts the  *)
(* thread, to its destructor, which stops and joins it.                    *)
(*                                                                         *)
(* The thread publishes running_ and then queued_event_ while clients      *)
(* already post and the owner may already stop it; it drains the queue     *)
(* once by itself before it enters the event loop, and from then on in     *)
(* the callback of queued_event_.  ev_run forgets a request to stop that   *)
(* was made before it was entered.                                         *)
(*                                                                         *)
(* Messages are plain ones: tokens are the subject of SerialDispatch.tla.  *)
(* queued_event_ is a plain pointer that clients read while the thread     *)
(* writes it; a read returns the value at that moment.                     *)
(***************************************************************************)
EXTENDS Naturals, Sequences, FiniteSets

CONSTANTS
  Clients,   \* the threads that post, the owner among them
  Tasks,     \* the messages, each posted once
  StopWhen,  \* what the owner waits for before it calls stop()
  MaxStops,  \* bound on the calls of stop() before the destructor
  Destroys,  \* whether the owner destroys the object in the end
  StopMsg, NoMsg

ASSUME ConstantsAssumption ==
  /\ StopWhen \in {"any", "answered", "looping"}
  /\ MaxStops \in Nat
  /\ Destroys \in BOOLEAN
  /\ StopMsg \notin Tasks /\ NoMsg \notin Tasks /\ StopMsg # NoMsg

VARIABLES
  status,           \* where a message is
  queue,            \* queue_
  stopping,         \* stopping_
  running,          \* running_
  event,            \* queued_event_: null, constructed, or started in the loop
  sent, count,      \* its ev_async::sent and basic_async::count_
  loopDone,         \* loop_done of the event loop
  inLoop,           \* ev_run was entered
  tpc, held,        \* the thread: its place, the message it processes
  cpc, hand,        \* a client: its place in post(), its message
  opc, call, stops, \* the owner: its place in stop(), who called it, the count
  crashed,          \* a null queued_event_ was dereferenced
  backlog           \* history: the messages taken on when stop() was called

eventVars  == <<event, sent, count>>
loopVars   == <<loopDone, inLoop>>
threadVars == <<tpc, held>>
clientVars == <<cpc, hand>>
ownerVars  == <<opc, call, stops, backlog, crashed>>
vars == <<status, queue, stopping, running, eventVars, loopVars, threadVars,
          clientVars, ownerVars>>

Init ==
  /\ status = [m \in Tasks |-> "new"]
  /\ queue = <<>>
  /\ stopping = FALSE /\ running = FALSE
  /\ event = "null" /\ sent = FALSE /\ count = 0
  /\ loopDone = FALSE /\ inLoop = FALSE
  /\ tpc = "created" /\ held = NoMsg
  /\ cpc = [c \in Clients |-> "idle"] /\ hand = [c \in Clients |-> NoMsg]
  /\ opc = "idle" /\ call = "stop" /\ stops = 0
  /\ crashed = FALSE
  /\ backlog = {}

\* basic_async::send
Send ==
  /\ count' = count + 1
  /\ sent' = TRUE
  /\ UNCHANGED event

-----------------------------------------------------------------------------
(* post() by a client *)

Post(c, m) ==
  /\ cpc[c] = "idle" /\ status[m] = "new" /\ call = "stop"
  /\ IF stopping
     THEN /\ status' = [status EXCEPT ![m] = "dropped"]
          /\ UNCHANGED clientVars
     ELSE /\ status' = [status EXCEPT ![m] = "posting"]
          /\ cpc' = [cpc EXCEPT ![c] = "accepted"]
          /\ hand' = [hand EXCEPT ![c] = m]
  /\ UNCHANGED <<queue, stopping, running, eventVars, loopVars, threadVars, ownerVars>>

EnqueuePush(c) ==
  /\ cpc[c] = "accepted"
  /\ queue' = Append(queue, hand[c])
  /\ status' = [status EXCEPT ![hand[c]] = "queued"]
  /\ cpc' = [cpc EXCEPT ![c] = "pushed"]
  /\ UNCHANGED <<hand, stopping, running, eventVars, loopVars, threadVars, ownerVars>>

\* No event yet: the thread will find the message before it enters its loop.
EnqueueSend(c) ==
  /\ cpc[c] = "pushed"
  /\ IF event = "null" THEN UNCHANGED eventVars ELSE Send
  /\ cpc' = [cpc EXCEPT ![c] = "idle"]
  /\ hand' = [hand EXCEPT ![c] = NoMsg]
  /\ UNCHANGED <<status, queue, stopping, running, loopVars, threadVars, ownerVars>>

-----------------------------------------------------------------------------
(* stop() and the destructor, called by the owner *)

MayStop ==
  CASE StopWhen = "any"      -> TRUE
    [] StopWhen = "answered" -> \E m \in Tasks : status[m] = "done"
    [] StopWhen = "looping"  -> inLoop

SetStopping ==
  /\ stopping' = TRUE
  /\ backlog' = IF stopping THEN backlog
                ELSE {m \in Tasks : status[m] \in {"queued", "held"}}

Stop(safe) ==
  /\ opc = "idle" /\ call = "stop"
  /\ MayStop
  /\ stops < MaxStops
  /\ stops' = stops + 1
  /\ SetStopping
  /\ opc' = IF safe THEN "safe" ELSE "unsafe"
  /\ UNCHANGED <<status, queue, running, eventVars, loopVars, threadVars, clientVars,
                 call, crashed>>

\* Nobody may use the object any more when its destructor runs.
Destroy ==
  /\ Destroys
  /\ opc = "idle" /\ call = "stop"
  /\ MayStop
  /\ \A c \in Clients : cpc[c] = "idle"
  /\ call' = "destroy"
  /\ SetStopping
  /\ opc' = "safe"
  /\ UNCHANGED <<status, queue, running, eventVars, loopVars, threadVars, clientVars,
                 stops, crashed>>

StopReturns == IF call = "stop" THEN "idle" ELSE "joining"

StopCheckRunning ==
  /\ opc \in {"safe", "unsafe"}
  /\ opc' = IF ~running THEN StopReturns
            ELSE IF opc = "safe" THEN "checking" ELSE "pushing"
  /\ UNCHANGED <<status, queue, stopping, running, eventVars, loopVars, threadVars,
                 clientVars, call, stops, backlog, crashed>>

StopCheckEmpty ==
  /\ opc = "checking"
  /\ opc' = IF queue = <<>> THEN "pushing" ELSE StopReturns
  /\ UNCHANGED <<status, queue, stopping, running, eventVars, loopVars, threadVars,
                 clientVars, call, stops, backlog, crashed>>

StopPush ==
  /\ opc = "pushing"
  /\ queue' = Append(queue, StopMsg)
  /\ opc' = "sending"
  /\ UNCHANGED <<status, stopping, running, eventVars, loopVars, threadVars,
                 clientVars, call, stops, backlog, crashed>>

\* enqueue_unsafe does not look whether there is an event.
StopSend ==
  /\ opc = "sending"
  /\ IF event = "null"
     THEN crashed' = TRUE /\ UNCHANGED eventVars
     ELSE Send /\ UNCHANGED crashed
  /\ opc' = StopReturns
  /\ UNCHANGED <<status, queue, stopping, running, loopVars, threadVars,
                 clientVars, call, stops, backlog>>

Join ==
  /\ opc = "joining"
  /\ tpc = "finished"
  /\ opc' = "joined"
  /\ UNCHANGED <<status, queue, stopping, running, eventVars, loopVars, threadVars,
                 clientVars, call, stops, backlog, crashed>>

-----------------------------------------------------------------------------
(* execute(), in the thread *)

\* The places the thread passes through one after the other.
Goto(here, there) == tpc = here /\ tpc' = there

Start ==
  /\ Goto("created", IF stopping THEN "finished" ELSE "starting")
  /\ UNCHANGED <<status, queue, stopping, running, eventVars, loopVars, held,
                 clientVars, ownerVars>>

SetRunning ==
  /\ Goto("starting", "constructing")
  /\ running' = TRUE
  /\ UNCHANGED <<status, queue, stopping, eventVars, loopVars, held, clientVars, ownerVars>>

\* ev_async_init leaves the sent flag of the new watcher uninitialized.
MakeEvent ==
  /\ Goto("constructing", "activating")
  /\ event' = "constructed"
  /\ sent' \in BOOLEAN
  /\ UNCHANGED <<status, queue, stopping, running, count, loopVars, held, clientVars, ownerVars>>

\* Faulty: the thread enters its loop without draining the queue once.
StartEventOnly ==
  /\ Goto("activating", "entering")
  /\ event' = "started"
  /\ sent' = FALSE
  /\ UNCHANGED <<status, queue, stopping, running, count, loopVars, held, clientVars, ownerVars>>

\* ev_async_start clears the flag, a send that came too early with it.
StartEvent ==
  /\ Goto("activating", "draining")
  /\ event' = "started"
  /\ sent' = FALSE
  /\ UNCHANGED <<status, queue, stopping, running, count, loopVars, held, clientVars, ownerVars>>

Dequeue ==
  /\ queue # <<>>
  /\ Goto("draining", "processing")
  /\ held' = Head(queue)
  /\ queue' = Tail(queue)
  /\ status' = [m \in Tasks |-> IF m = Head(queue) THEN "held" ELSE status[m]]
  /\ UNCHANGED <<stopping, running, eventVars, loopVars, clientVars, ownerVars>>

\* A stop message asks the loop to stop; the drain goes on.
Process ==
  /\ Goto("processing", "draining")
  /\ loopDone' = (loopDone \/ held = StopMsg)
  /\ status' = [m \in Tasks |-> IF m = held THEN "done" ELSE status[m]]
  /\ held' = NoMsg
  /\ UNCHANGED <<queue, stopping, running, eventVars, inLoop, clientVars, ownerVars>>

QueueEmpty ==
  /\ queue = <<>>
  /\ Goto("draining", "returning")
  /\ UNCHANGED <<status, queue, stopping, running, eventVars, loopVars, held,
                 clientVars, ownerVars>>

\* Faulty: only a stop message stops the loop.
ReturnDeaf ==
  /\ Goto("returning", IF inLoop THEN "polling" ELSE "entering")
  /\ UNCHANGED <<status, queue, stopping, running, eventVars, loopVars, held, clientVars, ownerVars>>

\* Faulty: a stopping thread stops its loop whatever is in its queue.
ReturnBlind ==
  /\ Goto("returning", IF inLoop THEN "polling" ELSE "entering")
  /\ loopDone' = (loopDone \/ stopping)
  /\ UNCHANGED <<status, queue, stopping, running, eventVars, inLoop, held, clientVars, ownerVars>>

\* The end of process_queue, and of the callback of basic_async around it,
\* which sends again when more than one send was counted.
Return ==
  /\ Goto("returning", IF inLoop THEN "polling" ELSE "entering")
  /\ loopDone' = (loopDone \/ (stopping /\ queue = <<>>))
  /\ IF inLoop
     THEN /\ count' = IF count > 1 THEN count ELSE count - 1
          /\ sent' = (sent \/ count > 1)
     ELSE UNCHANGED <<count, sent>>
  /\ UNCHANGED <<status, queue, stopping, running, event, inLoop, held, clientVars, ownerVars>>

\* ev_run begins with loop_done = EVBREAK_CANCEL.
EnterLoop ==
  /\ Goto("entering", "polling")
  /\ loopDone' = FALSE
  /\ inLoop' = TRUE
  /\ UNCHANGED <<status, queue, stopping, running, eventVars, held, clientVars, ownerVars>>

Wake ==
  /\ sent /\ ~loopDone
  /\ Goto("polling", "draining")
  /\ sent' = FALSE
  /\ UNCHANGED <<status, queue, stopping, running, event, count, loopVars, held,
                 clientVars, ownerVars>>

\* The loop returns, on_finalize runs.
LeaveLoop ==
  /\ loopDone
  /\ Goto("polling", "finalized")
  /\ UNCHANGED <<status, queue, stopping, running, eventVars, loopVars, held,
                 clientVars, ownerVars>>

Finish ==
  /\ Goto("finalized", "finished")
  /\ running' = FALSE
  /\ UNCHANGED <<status, queue, stopping, eventVars, loopVars, held, clientVars, ownerVars>>

-----------------------------------------------------------------------------

Enqueue(c) == EnqueuePush(c) \/ EnqueueSend(c)

OwnerStep == StopCheckRunning \/ StopCheckEmpty \/ StopPush \/ StopSend \/ Join

ThreadStep ==
  \/ Start \/ SetRunning \/ MakeEvent \/ StartEvent \/ Dequeue \/ Process
  \/ QueueEmpty \/ Return \/ EnterLoop \/ Wake \/ LeaveLoop \/ Finish

\* A crashed process takes no step.
Next ==
  /\ ~crashed
  /\ \/ \E c \in Clients, m \in Tasks : Post(c, m)
     \/ \E c \in Clients : Enqueue(c)
     \/ \E safe \in BOOLEAN : Stop(safe)
     \/ Destroy
     \/ OwnerStep
     \/ ThreadStep

\* Started calls go on and the thread is scheduled; nobody has to post or stop.
Fairness ==
  /\ \A c \in Clients : WF_vars(~crashed /\ Enqueue(c))
  /\ WF_vars(~crashed /\ OwnerStep)
  /\ WF_vars(~crashed /\ ThreadStep)

Spec == Init /\ [][Next]_vars

FairSpec == Spec /\ Fairness

-----------------------------------------------------------------------------
(* Properties *)

TaskStatus == {"new", "posting", "queued", "held", "done", "dropped"}

Places == {"created", "starting", "constructing", "activating", "draining", "processing",
           "returning", "entering", "polling", "finalized", "finished"}

\* Type invariant: what the members of handler_thread_impl may hold.
TypeOK ==
  /\ status \in [Tasks -> TaskStatus]
  /\ queue \in Seq(Tasks \cup {StopMsg})
  /\ stopping \in BOOLEAN /\ running \in BOOLEAN
  /\ event \in {"null", "constructed", "started"}
  /\ sent \in BOOLEAN /\ count \in Nat
  /\ loopDone \in BOOLEAN /\ inLoop \in BOOLEAN
  /\ tpc \in Places /\ held \in Tasks \cup {StopMsg, NoMsg}
  /\ cpc \in [Clients -> {"idle", "accepted", "pushed"}]
  /\ hand \in [Clients -> Tasks \cup {NoMsg}]
  /\ opc \in {"idle", "safe", "unsafe", "checking", "pushing", "sending", "joining", "joined"}
  /\ call \in {"stop", "destroy"} /\ stops \in 0..MaxStops
  /\ crashed \in BOOLEAN
  /\ backlog \subseteq Tasks

\* No lost wake-up, from the first message on: when the loop polls and a message
\* is queued, a wake-up is pending or about to be sent, although clients that
\* found no event sent none and a send before ev_async_start was cleared.
NoLostWakeup ==
  tpc = "polling" /\ queue # <<>> =>
    \/ sent \/ loopDone \/ opc = "sending"
    \/ \E c \in Clients : cpc[c] = "pushed"

\* Every message that was accepted before stop() was called has been handled
\* when the thread ends, in particular one that came before the thread started.
BacklogHandled ==
  tpc = "finished" => \A m \in backlog : status[m] = "done"

\* stop() never dereferences an event that does not exist yet.
EventExists == ~crashed

\* With an owner that waits for the loop before it stops the thread: no wake-up is
\* lost in the start, stop() finds the event, and the backlog is handled.
LateStopInv == TypeOK /\ NoLostWakeup /\ EventExists /\ BacklogHandled

\* Every accepted message is handled unless somebody stops the thread, whenever in
\* the start of the thread it was posted.
MessagesHandled ==
  \A m \in Tasks : status[m] = "posting" ~> (status[m] = "done" \/ stopping)

\* The destructor returns: the thread leaves its loop and is joined.
DestructorReturns == opc = "joining" ~> opc = "joined"

=============================================================================
