------------------------------ MODULE EventLoop ------------------------------
(***************************************************************************)
(* The events and loops of cyan::event: event_base with its five classes,  *)
(* basic_loop, and the one call that other threads make, basic_async::send.*)
(* The owner of the loops calls the events from outside of ev_run and from *)
(* the callbacks, in any order that respects the obligations named below.  *)
(*                                                                         *)
(* An event is named by its watcher: a move takes the watcher along and    *)
(* leaves an object without one, so only the assignment to an object that  *)
(* has a watcher is an action.  (Obligation of the caller: an async is     *)
(* moved before it has a callback, which keeps the address of its object.) *)
(***************************************************************************)
EXTENDS LibevBackend

CONSTANTS
  Systems,      \* the kinds of events, and the loops, that there are together,
                \* and the time at which they begin
  MainLoop,     \* the loop of the owner; others only hold events
  MaxSends      \* bound: calls of send() by users

ASSUME SystemsAssumption ==
  /\ MainLoop \in Loops /\ MaxSends \in Nat
  /\ Systems \subseteq [kind : [Events -> Kinds \cup {None}], loops : SUBSET Loops, time : 0..MaxTime]

VARIABLES
  home,    \* loop_ref_ of an event
  count,   \* count_ of an async
  rest,    \* what is left of a call of the owner's: an event, and functions
  at,      \* of a sending thread: "idle", "count", "test", "lock", "mark", "wake"
  target,  \* the async it sends
  held,    \* the loop that it has locked for this
  sends,   \* counts the sends of users
  silent,  \* history: the events whose user stopped them, or never started them
  strayed  \* history: the events that changed loops in the middle of a send

sending == <<count, at, target, held, sends>>
history == <<silent, strayed>>
vars == <<kind, clock, watchers, loops, place, home, rest, sending, history>>

Senders == {"owner", "other"}

Init ==
  /\ \E s \in Systems :
       /\ kind = s.kind /\ clock = s.time
       /\ life = [l \in Loops |-> IF l \in s.loops THEN "unmade" ELSE "dead"]
  /\ made = {} /\ pending = {} /\ callback = {}
  /\ listed = [e \in Events |-> None] /\ setting = [e \in Events |-> None]
  /\ flags = [e \in Events |-> {}]
  /\ due = [e \in Events |-> 0] /\ sent = [e \in Events |-> FALSE]
  /\ loopTime = [l \in Loops |-> 0]
  /\ wake = [l \in Loops |-> FALSE] /\ done = [l \in Loops |-> FALSE]
  /\ raised = {}
  /\ running = None /\ phase = "out" /\ current = None
  /\ home = [e \in Events |-> None] /\ rest = <<>>
  /\ count = [e \in Events |-> 0]
  /\ at = [t \in Senders |-> "idle"] /\ target = [t \in Senders |-> None]
  /\ held = [t \in Senders |-> None]
  /\ sends = 0
  /\ silent = Events /\ strayed = {}

Alive(e) == home[e] # None /\ life[home[e]] = "alive"

\* The owner is between two of its own steps, and free to make a call.
Free == at["owner"] = "idle" /\ rest = <<>>
Calling == Free /\ phase \in {"out", "callback"}

\* Obligation of the caller: an event is not destroyed or overwritten, nor its
\* callback replaced, while the callback runs or another thread sends it.
Unused(e) == e # current /\ \A t \in Senders : target[t] # e

-----------------------------------------------------------------------------
(* Loops *)

\* get_main_loop(), get_event_loop(): made when first asked for.
GetLoop(l) ==
  /\ Calling /\ life[l] = "unmade"
  /\ life' = [life EXCEPT ![l] = "alive"]
  /\ loopTime' = [loopTime EXCEPT ![l] = clock]
  /\ UNCHANGED <<kind, clock, watchers, wake, done, raised, place, home, rest, sending, history>>

StartLoop(l) ==
  /\ l = MainLoop
  /\ Calling /\ Run(l)
  /\ UNCHANGED <<kind, clock, home, rest, sending, history>>

\* A stop of a loop that does not run has no effect: ev_run will forget it.
StopLoop(l) ==
  /\ Calling /\ running = l
  /\ Break(l)
  /\ UNCHANGED <<kind, clock, home, rest, sending, history>>

\* A loop goes with its last reference; a send() that has locked it holds one,
\* and a static variable that of the main loop.
DestroyLoop(l) ==
  /\ Calling /\ life[l] = "alive" /\ l # MainLoop
  /\ \A t \in Senders : held[t] # l
  /\ life' = [life EXCEPT ![l] = "dead"]
  /\ UNCHANGED <<kind, clock, watchers, loopTime, wake, done, raised, place,
                 home, rest, sending, history>>

-----------------------------------------------------------------------------
(* event_base: what all events have in common.  Call(op, e) is a call that *)
(* is over in one step, and does not touch the loop or the counter.        *)

Call(op, e) ==
  /\ Calling /\ e \in made
  /\ Backend(op, e, home[e])
  /\ UNCHANGED <<kind, clock, loops, place, home, rest, sending, strayed>>

\* A watcher starts once it has a descriptor; a signal has one loop only.
Startable(e) ==
  /\ kind[e] = "io" => setting[e] # None
  /\ kind[e] = "signal" => \A f \in Events :
       kind[f] = "signal" /\ setting[f] = setting[e] => listed[f] \in {None, home[e]}

\* start() throws, and does nothing, when the loop is dead.
Start(e) ==
  /\ Alive(e) /\ Startable(e)
  /\ Call("start", e)
  /\ silent' = silent \ {e}

Stop(e) ==
  /\ Alive(e)
  /\ Call("stop", e)
  /\ silent' = silent \cup {e}

\* stop(), or nothing when the loop is dead, as the first half of a call.
StopFirst(e) ==
  /\ Calling /\ e \in made
  /\ IF Alive(e) THEN Backend("stop", e, home[e]) ELSE UNCHANGED watchers
  /\ UNCHANGED <<kind, clock, loops, place, sending>>

\* A send() that has locked the old loop goes on with that.
Stray(e) ==
  strayed' = IF \E t \in Senders : target[t] = e /\ held[t] # None
             THEN strayed \cup {e} ELSE strayed \ {e}

\* set_loop(), for an event that is active: of a live loop, and to one.  Another
\* thread may be sending the event; that its lock() and the assignment to
\* loop_ref_ do not coincide is an obligation of the caller.
SetLoop(e, l) ==
  /\ l # home[e] /\ listed[e] # None
  /\ Alive(e) /\ life[l] = "alive"
  /\ StopFirst(e)
  /\ home' = [home EXCEPT ![e] = l]
  /\ rest' = <<e, "start">>
  /\ Stray(e) /\ UNCHANGED silent

\* set_loop(), for an event that is not: nor pending, as a timer may be whose
\* timeout was set to 0 while it ran, for it would stay pending in the old loop.
SetLoopInactive(e, l) ==
  /\ Calling /\ e \in made /\ l # home[e] /\ listed[e] = None /\ e \notin pending
  /\ life[l] # "unmade"
  /\ home' = [home EXCEPT ![e] = l]
  /\ Stray(e)
  /\ UNCHANGED <<kind, clock, watchers, loops, place, rest, sending, silent>>

Forget(e) ==
  /\ home' = [home EXCEPT ![e] = None]
  /\ count' = [count EXCEPT ![e] = 0]

\* set_number(), for a signal that is active and stays in its loop.
SetNumber(e) ==
  /\ Alive(e) /\ listed[e] # None
  /\ \A f \in Events : kind[f] = "signal" => listed[f] \in {None, home[e]}
  /\ StopFirst(e)
  /\ rest' = <<e, "set_number", "start">>
  /\ UNCHANGED <<home, history>>

\* The rest of a call: set_loop() starts the event again, in the new loop, and
\* set_number() with the new number; the destructor deallocates the watcher.
Finish ==
  /\ rest # <<>>
  /\ LET e == rest[1]
         op == rest[2]
     IN  /\ Backend(op, e, home[e])
         /\ IF op = "deallocate" THEN Forget(e) ELSE UNCHANGED <<home, count>>
         /\ rest' = IF op = "set_number" THEN <<e, "start">> ELSE <<>>
  /\ UNCHANGED <<kind, clock, loops, place, at, target, held, sends, history>>

\* The constructor of an event, for a loop that exists.
Construct(e, l) ==
  /\ Calling /\ home[e] = None /\ life[l] = "alive"
  /\ Backend("allocate", e, l)
  /\ home' = [home EXCEPT ![e] = l]
  /\ count' = [count EXCEPT ![e] = 0]
  /\ silent' = silent \cup {e}
  /\ UNCHANGED <<kind, clock, loops, place, rest, at, target, held, sends, strayed>>

\* Faulty: the destructor does not stop the event.
DestroyListed(e) ==
  /\ Unused(e) /\ e \in made /\ Calling
  /\ rest' = <<e, "deallocate">>
  /\ silent' = silent \cup {e}
  /\ UNCHANGED <<kind, clock, watchers, loops, place, sending, home, strayed>>

\* The destructor stops the event; then the watcher is deallocated.
Destroy(e) ==
  /\ Unused(e)
  /\ StopFirst(e)
  /\ rest' = <<e, "deallocate">>
  /\ silent' = silent \cup {e}
  /\ UNCHANGED <<home, strayed>>

\* operator=(&&) deallocates the watcher it replaces and does not stop it:
\* obligation of the caller, the event is not active.
Overwrite(e) ==
  /\ Unused(e) /\ listed[e] = None /\ e \notin pending
  /\ Calling /\ e \in made
  /\ Backend("deallocate", e, home[e])
  /\ Forget(e)
  /\ silent' = silent \cup {e}
  /\ UNCHANGED <<kind, clock, loops, place, rest, at, target, held, sends, strayed>>

-----------------------------------------------------------------------------
(* The classes.  Obligation of the caller: a descriptor is not changed     *)
(* under an active watcher, which libev would lose.                        *)

Common(e) ==
  \/ Start(e) \/ Stop(e) \/ Destroy(e) \/ Overwrite(e)
  \/ Unused(e) /\ Call("set_callback", e) /\ UNCHANGED silent
  \/ \E l \in Loops : Construct(e, l) \/ SetLoop(e, l) \/ SetLoopInactive(e, l)

\* reset() throws when the loop is dead.
TimerCalls(e) ==
  /\ kind[e] = "timer"
  /\ \/ Common(e)
     \/ Alive(e) /\ Call("reset", e) /\ silent' = silent \ {e}
     \/ Call("set_timeout", e) /\ UNCHANGED silent

SignalCalls(e) ==
  /\ kind[e] = "signal"
  /\ \/ Common(e)
     \/ SetNumber(e)
     \/ listed[e] = None /\ Call("set_number", e) /\ UNCHANGED silent

IdleCalls(e) == kind[e] = "idle" /\ Common(e)

IoCalls(e) ==
  /\ kind[e] = "io"
  /\ \/ Common(e)
     \/ listed[e] = None /\ Call("set_file_descriptor", e) /\ UNCHANGED silent
     \/ Call("set_event_flags", e) /\ UNCHANGED silent

AsyncCalls(e) == kind[e] = "async" /\ Common(e)

-----------------------------------------------------------------------------
(* basic_async::send, by the owner or by the other thread *)

Moves(t, here, there) == at[t] = here /\ at' = [at EXCEPT ![t] = there]

Send(t, e) ==
  /\ sends < MaxSends
  /\ e \in made /\ kind[e] = "async"
  /\ IF t = "owner" THEN Calling ELSE rest # <<e, "deallocate">>
  /\ Moves(t, "idle", "count")
  /\ target' = [target EXCEPT ![t] = e]
  /\ sends' = sends + 1
  /\ UNCHANGED <<kind, clock, watchers, loops, place, home, rest, count, held, history>>

SendCount(t) ==
  /\ Moves(t, "count", "test")
  /\ count' = [count EXCEPT ![target[t]] = @ + 1]
  /\ UNCHANGED <<kind, clock, watchers, loops, place, home, rest, target, held, sends, history>>

SendReturns(t) ==
  /\ at' = [at EXCEPT ![t] = "idle"]
  /\ target' = [target EXCEPT ![t] = None]
  /\ held' = [held EXCEPT ![t] = None]

\* Nothing is sent when the event is pending.
SendTest(t) ==
  /\ at[t] = "test"
  /\ IF sent[target[t]] THEN SendReturns(t) ELSE Moves(t, "test", "lock") /\ UNCHANGED <<target, held>>
  /\ UNCHANGED <<kind, clock, watchers, loops, place, home, rest, count, sends, history>>

\* Nor when the loop is dead.  The loop that is found here is the one that is
\* woken, whatever becomes of the event.
SendLock(t) ==
  /\ at[t] = "lock"
  /\ IF Alive(target[t])
     THEN /\ Moves(t, "lock", "mark")
          /\ held' = [held EXCEPT ![t] = home[target[t]]]
          /\ UNCHANGED target
     ELSE SendReturns(t)
  /\ UNCHANGED <<kind, clock, watchers, loops, place, home, rest, count, sends, history>>

\* ev_async_send marks the watcher, then wakes the loop.
SendMark(t) ==
  /\ Moves(t, "mark", "wake")
  /\ sent' = [sent EXCEPT ![target[t]] = TRUE]
  /\ UNCHANGED <<kind, clock, made, listed, pending, callback, setting, flags, due,
                 loops, place, home, rest, count, target, held, sends, history>>

\* Faulty: a loop that is busy is left to find the watcher by itself.
SendWakeBlocked(t) ==
  /\ at[t] = "wake"
  /\ wake' = [wake EXCEPT ![held[t]] = @ \/ phase = "poll"]
  /\ SendReturns(t)
  /\ UNCHANGED <<kind, clock, watchers, life, loopTime, done, raised, place,
                 home, rest, count, sends, history>>

SendWake(t) ==
  /\ at[t] = "wake"
  /\ wake' = [wake EXCEPT ![held[t]] = TRUE]
  /\ SendReturns(t)
  /\ UNCHANGED <<kind, clock, watchers, life, loopTime, done, raised, place,
                 home, rest, count, sends, history>>

Sending(t) == SendCount(t) \/ SendTest(t) \/ SendLock(t) \/ SendMark(t) \/ SendWake(t)

-----------------------------------------------------------------------------
(* The loop *)

LoopStep ==
  /\ Free
  /\ Top \/ Poll \/ PipeClear \/ PipeScan \/ Again \/ \E e \in Events : Invoke(e)
  /\ UNCHANGED <<kind, clock, home, rest, sending, history>>

\* Faulty: sends again when one send was counted, not when there were more.
CallbackReturnsEager ==
  /\ Calling /\ Return
  /\ IF kind[current] = "async"
     THEN /\ count' = [count EXCEPT ![current] = @ - 1]
          /\ IF count[current] > 0
             THEN Moves("owner", "idle", "count") /\ target' = [target EXCEPT !["owner"] = current]
             ELSE UNCHANGED <<at, target>>
     ELSE UNCHANGED <<count, at, target>>
  /\ UNCHANGED <<kind, clock, home, rest, held, sends, history>>

\* The callback of an async counts itself off, and sends again for the sends it
\* stood for: which are counted a second time.
CallbackReturns ==
  /\ Calling /\ Return
  /\ IF kind[current] = "async"
     THEN /\ count' = [count EXCEPT ![current] = @ - 1]
          /\ IF count[current] > 1
             THEN Moves("owner", "idle", "count") /\ target' = [target EXCEPT !["owner"] = current]
             ELSE UNCHANGED <<at, target>>
     ELSE UNCHANGED <<count, at, target>>
  /\ UNCHANGED <<kind, clock, home, rest, held, sends, history>>

Environment ==
  \/ /\ clock < MaxTime /\ clock' = clock + 1
     /\ UNCHANGED <<kind, watchers, loops, place, home, rest, sending, history>>
  \/ /\ \E n \in Numbers : Raise(n)
     /\ UNCHANGED <<kind, clock, home, rest, sending, history>>

User ==
  \/ \E l \in Loops : GetLoop(l) \/ StartLoop(l) \/ StopLoop(l) \/ DestroyLoop(l)
  \/ \E e \in Events :
       \/ TimerCalls(e) \/ SignalCalls(e) \/ IdleCalls(e) \/ IoCalls(e) \/ AsyncCalls(e)
       \/ \E t \in Senders : Send(t, e)

Next ==
  \/ User \/ Environment \/ LoopStep \/ CallbackReturns \/ Finish
  \/ \E t \in Senders : Sending(t)

Spec == Init /\ [][Next]_vars

\* The owner and the sender go on with what they have begun, and a callback
\* returns after finitely many calls.
FairSpec ==
  /\ Spec
  /\ WF_vars(LoopStep) /\ WF_vars(Finish) /\ SF_vars(CallbackReturns)
  /\ \A t \in Senders : WF_vars(Sending(t))

-----------------------------------------------------------------------------
(* Properties *)

WatcherTypes ==
  /\ kind \in [Events -> Kinds \cup {None}]
  /\ made \subseteq Events /\ pending \subseteq Events /\ callback \subseteq Events
  /\ listed \in [Events -> Loops \cup {None}]
  /\ setting \in [Events -> Timeouts \cup Numbers \cup Files \cup {0, None}]
  /\ flags \in [Events -> SUBSET Flags]
  /\ due \in [Events -> Nat] /\ sent \in [Events -> BOOLEAN]

LoopTypes ==
  /\ life \in [Loops -> {"unmade", "alive", "dead"}]
  /\ loopTime \in [Loops -> 0..MaxTime] /\ clock \in 0..MaxTime
  /\ wake \in [Loops -> BOOLEAN] /\ done \in [Loops -> BOOLEAN]
  /\ raised \subseteq Numbers
  /\ running \in Loops \cup {None} /\ current \in Events \cup {None}
  /\ phase \in {"out", "top", "poll", "pipe", "scan", "invoke", "callback"}

CallTypes ==
  /\ home \in [Events -> Loops \cup {None}]
  /\ rest \in {<<>>} \cup (Events \X {"start", "deallocate"})
              \cup (Events \X {"set_number"} \X {"start"})
  /\ at \in [Senders -> {"idle", "count", "test", "lock", "mark", "wake"}]
  /\ target \in [Senders -> Events \cup {None}] /\ held \in [Senders -> Loops \cup {None}]
  /\ sends \in 0..MaxSends /\ silent \subseteq Events /\ strayed \subseteq Events

\* Type invariant: among it, that no async is counted off more often than on.
TypeOK == WatcherTypes /\ LoopTypes /\ CallTypes /\ count \in [Events -> Nat]

\* A loop that lives never holds a watcher that was deallocated, in its lists
\* or among the pending ones, nor one of an event that belongs to another loop,
\* in whatever order events and loops are made, moved and destroyed.
NoDangling ==
  /\ \A e \in Events : listed[e] # None /\ life[listed[e]] = "alive" =>
       e \in made /\ (listed[e] = home[e] \/ rest # <<>>)
  /\ pending \subseteq made
  /\ current # None => current \in made

\* Once a user has stopped an event its callback is not entered, not even if
\* the event was found before, until the event is started again.
StoppedIsSilent ==
  [][\A e \in Events : current # e /\ current' = e => e \notin silent]_vars

\* An idle event is called only when nothing else waits: README, "execute when
\* event loop is idle".
IdleWhenIdle ==
  [][\A e \in Events : kind[e] = "idle" /\ current # e /\ current' = e =>
       \A f \in pending : kind[f] = "idle"]_vars

\* No wake-up is lost: an async that was sent is queued, also when the send
\* was left to another thread that has marked it and not yet woken the loop;
\* unless it was moved to this loop by set_loop() while a send was under way,
\* which wakes the loop that it had found before.
WakeUp ==
  \A e \in Events, l \in Loops :
    running = l /\ listed[e] = l /\ kind[e] = "async" /\ sent[e]
      ~> e \in pending \/ listed[e] # l \/ running # l \/ e \in strayed

\* The same without the exception, which does not hold: the mark stays, and
\* every later send() finds it and returns.
WakeUpMoved ==
  \A e \in Events, l \in Loops :
    running = l /\ listed[e] = l /\ kind[e] = "async" /\ sent[e]
      ~> e \in pending \/ listed[e] # l \/ running # l

Busy == \E e \in Events : kind[e] \in {"io", "signal"}
Coalesced == \E e \in Events : count[e] > 1

\* Idle events are called in the end when only timers and asyncs compete with
\* them, unless two sends were coalesced: then the async never falls silent.
IdleRuns ==
  \A e \in Events, l \in Loops :
    running = l /\ listed[e] = l /\ kind[e] = "idle" /\ ~Busy
      ~> e \in pending \/ listed[e] # l \/ running # l \/ Coalesced

\* The same without the exception, which does not hold.
IdleAlwaysRuns ==
  \A e \in Events, l \in Loops :
    running = l /\ listed[e] = l /\ kind[e] = "idle" /\ ~Busy
      ~> e \in pending \/ listed[e] # l \/ running # l

=============================================================================
