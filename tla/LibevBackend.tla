---------------------------- MODULE LibevBackend ----------------------------
(***************************************************************************)
(* backend_traits<backend::libev> and what it uses of libev: watchers of   *)
(* five kinds, loops, and ev_run.  There is one operator for each traits   *)
(* structure: its first argument is the function that is called.  The      *)
(* classes of cyan::event that call them are in EventLoop.tla.             *)
(*                                                                         *)
(* A watcher is listed by the loop in which it is active, and pending from *)
(* the time its event is found to the time its callback is entered.  Two   *)
(* threads matter: the owner, which runs the loops and makes all calls but *)
(* one, and another thread that may send an async event.                   *)
(***************************************************************************)
EXTENDS Integers, FiniteSets

CONSTANTS
  Events, Loops, None,
  Timeouts,  \* what set_timeout() is called with; 0 is a new timer's
  Numbers,   \* signal numbers
  Files,     \* file descriptors
  Flags,     \* event_read, event_write
  MaxTime    \* bound: the clock

ASSUME BackendAssumption ==
  /\ None \notin Events \cup Loops \cup Numbers \cup Files
  /\ Timeouts \subseteq Nat /\ Numbers # {} /\ MaxTime \in Nat

Kinds == {"async", "timer", "signal", "idle", "io"}

VARIABLES
  kind,      \* of an event: fixed from the start
  made,      \* the watchers that are allocated
  listed,    \* the loop whose list the watcher is in (w->active), or None
  pending,   \* the watchers in a loop's pending list
  callback,  \* the watchers with a callback (w->data)
  setting,   \* repeat of a timer, signum of a signal, fd of an io watcher
  flags,     \* events of an io watcher
  due,       \* at of a timer
  sent,      \* of an async
  life,      \* of a loop: "unmade", "alive", "dead"
  loopTime,  \* mn_now: the time as the loop remembers it
  wake,      \* async_pending and sig_pending: the loop will not block
  done,      \* loop_done
  raised,    \* signals: those that arrived
  clock,     \* the real time
  running,   \* the loop that ev_run was called for, or None
  phase,     \* of ev_run: "out", "top", "poll", "pipe", "scan", "invoke", "callback"
  current    \* the watcher whose callback runs, or None

watchers == <<made, listed, pending, callback, setting, flags, due, sent>>
place == <<running, phase, current>>
loops == <<life, loopTime, wake, done, raised>>

Larger(a, b) == IF a < b THEN b ELSE a

-----------------------------------------------------------------------------
(* The functions common to all kinds. *)

\* new, and the initialisation of the watcher.
Allocate(e, value) ==
  /\ made' = made \cup {e}
  /\ pending' = pending \ {e}
  /\ callback' = callback \ {e}
  /\ listed' = [listed EXCEPT ![e] = None]
  /\ setting' = [setting EXCEPT ![e] = value]
  /\ flags' = [flags EXCEPT ![e] = {}]
  /\ due' = [due EXCEPT ![e] = 0]

\* deallocate() deletes the callback and the watcher, listed or not.  What its
\* memory holds afterwards is of no interest.
Deallocate(e) ==
  /\ made' = made \ {e}
  /\ callback' = callback \ {e}
  /\ setting' = [setting EXCEPT ![e] = None]
  /\ flags' = [flags EXCEPT ![e] = {}]
  /\ due' = [due EXCEPT ![e] = 0]
  /\ sent' = [sent EXCEPT ![e] = FALSE]
  /\ UNCHANGED <<listed, pending>>

\* ev_..._start: a second start has no effect.
List(e, l) ==
  /\ listed' = [listed EXCEPT ![e] = IF @ = None THEN l ELSE @]
  /\ UNCHANGED <<made, pending, callback, setting, flags>>

\* Faulty: the watcher leaves the list and stays in the pending list.
UnlistOnly(e) ==
  /\ listed' = [listed EXCEPT ![e] = None]
  /\ UNCHANGED <<made, pending, callback, setting, flags, due, sent>>

\* ev_..._stop
Unlist(e) ==
  /\ listed' = [listed EXCEPT ![e] = None]
  /\ pending' = pending \ {e}
  /\ UNCHANGED <<made, callback, setting, flags, due, sent>>

SetCallback(e, given) ==
  /\ callback' = IF given THEN callback \cup {e} ELSE callback \ {e}
  /\ UNCHANGED <<made, listed, pending, setting, flags, due, sent>>

Set(e, value) ==
  /\ setting' = [setting EXCEPT ![e] = value]
  /\ UNCHANGED <<made, listed, callback, flags, due, sent>>

-----------------------------------------------------------------------------
(* The traits structures. *)

\* allocate() leaves sent as it finds it in memory; start() clears it.
Async(op, e, l) ==
  \/ op = "allocate" /\ Allocate(e, None) /\ \E s \in BOOLEAN : sent' = [sent EXCEPT ![e] = s]
  \/ op = "deallocate" /\ Deallocate(e)
  \/ /\ op = "start" /\ List(e, l)
     /\ sent' = [sent EXCEPT ![e] = @ /\ listed[e] # None]
     /\ UNCHANGED due
  \/ op = "stop" /\ Unlist(e)
  \/ op = "set_callback" /\ \E given \in BOOLEAN : SetCallback(e, given)

\* start() and reset() are ev_timer_again: from the loop's time on, and a stop
\* if the timeout is 0.
Timer(op, e, l) ==
  \/ op = "allocate" /\ Allocate(e, 0) /\ UNCHANGED sent
  \/ op = "deallocate" /\ Deallocate(e)
  \/ /\ op \in {"start", "reset"} /\ setting[e] # 0
     /\ listed' = [listed EXCEPT ![e] = l]
     /\ pending' = pending \ {e}
     /\ due' = [due EXCEPT ![e] = loopTime[l] + setting[e]]
     /\ UNCHANGED <<made, callback, setting, flags, sent>>
  \/ op \in {"start", "reset"} /\ setting[e] = 0 /\ Unlist(e)
  \/ op = "stop" /\ Unlist(e)
  \/ op = "set_timeout" /\ (\E t \in Timeouts : Set(e, t)) /\ UNCHANGED pending
  \/ op = "set_callback" /\ \E given \in BOOLEAN : SetCallback(e, given)

\* set_number() initialises the watcher a second time.
Signal(op, e, l) ==
  \/ op = "allocate" /\ (\E n \in Numbers : Allocate(e, n)) /\ UNCHANGED sent
  \/ op = "deallocate" /\ Deallocate(e)
  \/ op = "start" /\ List(e, l) /\ UNCHANGED <<due, sent>>
  \/ op = "stop" /\ Unlist(e)
  \/ op = "set_number" /\ (\E n \in Numbers : Set(e, n)) /\ pending' = pending \ {e}
  \/ op = "set_callback" /\ \E given \in BOOLEAN : SetCallback(e, given)

Idle(op, e, l) ==
  \/ op = "allocate" /\ Allocate(e, None) /\ UNCHANGED sent
  \/ op = "deallocate" /\ Deallocate(e)
  \/ op = "start" /\ List(e, l) /\ UNCHANGED <<due, sent>>
  \/ op = "stop" /\ Unlist(e)
  \/ op = "set_callback" /\ \E given \in BOOLEAN : SetCallback(e, given)

\* A new io watcher has no descriptor and no flags.
Io(op, e, l) ==
  \/ op = "allocate" /\ Allocate(e, None) /\ UNCHANGED sent
  \/ op = "deallocate" /\ Deallocate(e)
  \/ op = "start" /\ List(e, l) /\ UNCHANGED <<due, sent>>
  \/ op = "stop" /\ Unlist(e)
  \/ op = "set_file_descriptor" /\ (\E f \in Files : Set(e, f)) /\ UNCHANGED pending
  \/ /\ op = "set_event_flags"
     /\ \E fs \in SUBSET Flags : flags' = [flags EXCEPT ![e] = fs]
     /\ UNCHANGED <<made, listed, pending, callback, setting, due, sent>>
  \/ op = "set_callback" /\ \E given \in BOOLEAN : SetCallback(e, given)

Backend(op, e, l) ==
  \/ kind[e] = "async" /\ Async(op, e, l)
  \/ kind[e] = "timer" /\ Timer(op, e, l)
  \/ kind[e] = "signal" /\ Signal(op, e, l)
  \/ kind[e] = "idle" /\ Idle(op, e, l)
  \/ kind[e] = "io" /\ Io(op, e, l)

-----------------------------------------------------------------------------
(* ev_run *)

In(l, k) == {e \in Events : listed[e] = l /\ kind[e] = k}

\* loop::start: an earlier stop is forgotten.
Run(l) ==
  /\ phase = "out" /\ life[l] = "alive"
  /\ running' = l /\ phase' = "top"
  /\ done' = [done EXCEPT ![l] = FALSE]
  /\ UNCHANGED <<watchers, life, loopTime, wake, raised, current>>

\* The loop was referenced when it was made: it ends by loop::stop only.
Top ==
  /\ phase = "top"
  /\ IF done[running]
     THEN phase' = "out" /\ running' = None /\ UNCHANGED loopTime
     ELSE /\ phase' = "poll"
          /\ loopTime' = [loopTime EXCEPT ![running] = clock]
          /\ UNCHANGED running
  /\ UNCHANGED <<watchers, life, wake, done, raised, current>>

Ready(e) == setting[e] # None /\ flags[e] # {}
Expired(l) == {e \in In(l, "timer") : due[e] < clock}

\* Faulty: idle events are queued although the loop was woken.
PollEagerly ==
  LET l == running
      found == Expired(l)
  IN
  /\ phase = "poll"
  /\ found # {} \/ wake[l] \/ In(l, "idle") # {}
  /\ pending' = pending \cup (IF found = {} THEN In(l, "idle") ELSE found)
  /\ loopTime' = [loopTime EXCEPT ![l] = clock]
  /\ phase' = IF wake[l] THEN "pipe" ELSE "invoke"
  /\ UNCHANGED <<made, listed, callback, setting, flags, due, sent,
                 life, wake, done, raised, running, current>>

\* Waits until something is ready, unless woken or there are idle events, which
\* are queued only when nothing else is.
Poll ==
  LET l == running IN
  /\ phase = "poll"
  /\ \E ready \in SUBSET {e \in In(l, "io") : Ready(e)} :
       LET found == ready \cup Expired(l) IN
       /\ found # {} \/ wake[l] \/ In(l, "idle") # {}
       /\ pending' = pending \cup
            (IF found = {} /\ ~wake[l] THEN In(l, "idle") ELSE found)
       /\ listed' = [e \in Events |->
            IF e \in Expired(l) /\ setting[e] = 0 THEN None ELSE listed[e]]
       /\ due' = [e \in Events |->
            IF e \in Expired(l) THEN Larger(due[e] + setting[e], clock) ELSE due[e]]
  /\ loopTime' = [loopTime EXCEPT ![l] = clock]
  /\ phase' = IF wake[l] THEN "pipe" ELSE "invoke"
  /\ UNCHANGED <<made, callback, setting, flags, sent, life, wake, done, raised, running, current>>

\* The pipe's callback comes before all others: it takes the flag down first.
PipeClear ==
  /\ phase = "pipe"
  /\ phase' = "scan"
  /\ wake' = [wake EXCEPT ![running] = FALSE]
  /\ UNCHANGED <<watchers, life, loopTime, done, raised, running, current>>

\* Then it collects what was sent.  A signal whose watchers were stopped
\* meanwhile is dropped.
PipeScan ==
  LET l == running
      asyncs == {e \in In(l, "async") : sent[e]}
      signals == {e \in In(l, "signal") : setting[e] \in raised}
  IN
  /\ phase = "scan"
  /\ pending' = pending \cup asyncs \cup signals
  /\ sent' = [e \in Events |-> sent[e] /\ e \notin asyncs]
  /\ raised' = {n \in raised : \E e \in Events : kind[e] = "signal" /\ setting[e] = n /\ listed[e] \notin {l, None}}
  /\ phase' = "invoke"
  /\ UNCHANGED <<made, listed, callback, setting, flags, due,
                 life, loopTime, wake, done, running, current>>

\* One of the pending watchers, no longer pending when its callback runs.
Invoke(e) ==
  /\ phase = "invoke" /\ e \in pending
  /\ pending' = pending \ {e}
  /\ IF e \in callback
     THEN phase' = "callback" /\ current' = e
     ELSE UNCHANGED <<phase, current>>
  /\ UNCHANGED <<made, listed, callback, setting, flags, due, sent, loops, running>>

Again ==
  /\ phase = "invoke" /\ pending = {}
  /\ phase' = "top"
  /\ UNCHANGED <<watchers, loops, running, current>>

Return ==
  /\ phase = "callback"
  /\ phase' = "invoke" /\ current' = None
  /\ UNCHANGED <<watchers, loops, running>>

\* loop::stop
Break(l) ==
  /\ done' = [done EXCEPT ![l] = TRUE]
  /\ UNCHANGED <<watchers, life, loopTime, wake, raised, place>>

\* A signal arrives for which there is a handler.  Obligation of the caller: none
\* arrives whose watcher is in the list of a loop that has died, for libev goes
\* on handing it to the memory of that loop.
Raise(n) ==
  \E e \in Events :
    /\ kind[e] = "signal" /\ listed[e] # None /\ setting[e] = n /\ life[listed[e]] = "alive"
    /\ raised' = raised \cup {n}
    /\ wake' = [wake EXCEPT ![listed[e]] = TRUE]
    /\ UNCHANGED <<watchers, life, loopTime, done, place>>

=============================================================================
