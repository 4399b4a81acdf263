--------------------------- MODULE EventLoopProofs ---------------------------
(***************************************************************************)
(* Proofs about EventLoop, for any events, loops and kinds of them.        *)
(***************************************************************************)
EXTENDS EventLoop, TLAPS

Dead(l) == l # None => life[l] = "dead"

\* A watcher is in no list but that of the loop of its event; the loop keeps
\* what was deallocated only when it is dead.
HomeInv ==
  \A e \in Events :
    /\ e \in made <=> home[e] # None
    /\ home[e] # None => life[home[e]] # "unmade"
    /\ e \in made => listed[e] \in {None, home[e]}
    /\ e \notin made => Dead(listed[e])
    /\ e \in made /\ kind[e] = "timer" => setting[e] \in Nat

\* What ev_run has found is of the loop that runs, which lives.
LoopInv ==
  /\ running \in {None, MainLoop} /\ (running # None => life[running] = "alive")
  /\ running = None <=> phase = "out"
  /\ phase \in {"out", "top", "poll"} => pending = {}
  /\ IF phase = "callback" THEN current \in made ELSE current = None
  /\ \A e \in pending : e \in made /\ home[e] = running

\* What the user has stopped is neither in the list of a live loop nor pending.
SilentInv ==
  /\ \A e \in Events : e \in silent => Dead(listed[e])
  /\ pending \cap silent = {}

\* The rest of a call finds the event as its first half has left it.
RestInv ==
  rest # <<>> =>
    LET e == rest[1] IN
    /\ at["owner"] = "idle" /\ phase \in {"out", "callback"} /\ e \in made
    /\ rest[2] = "deallocate" =>
         /\ Dead(listed[e]) /\ e \notin pending /\ e # current
         /\ \A t \in Senders : target[t] # e
    /\ rest[2] # "deallocate" => e \notin silent

\* Idle events are found alone.
IdleInv ==
  /\ \A e, f \in pending : kind[e] = "idle" => kind[f] = "idle"
  /\ phase \in {"pipe", "scan"} => \A e \in pending : kind[e] # "idle"

\* An async has counted every call of its callback that is under way: sends that
\* were counted and not yet marked, the mark, the pending watcher, the callback.
One(condition) == IF condition THEN 1 ELSE 0

UnderWay(e) ==
  One(at["owner"] \in {"test", "lock", "mark"} /\ target["owner"] = e)
  + One(at["other"] \in {"test", "lock", "mark"} /\ target["other"] = e)
  + One(sent[e] = TRUE /\ listed[e] # None) + One(e \in pending) + One(current = e)

SendInv ==
  /\ \A t \in Senders :
       /\ IF at[t] = "idle" THEN target[t] = None ELSE target[t] \in made /\ kind[target[t]] = "async"
       /\ at[t] \in {"mark", "wake"} <=> held[t] # None
  /\ \A e \in Events : e \in made /\ kind[e] = "async" => UnderWay(e) <= count[e]

EventInv == TypeOK /\ HomeInv /\ LoopInv /\ SilentInv /\ RestInv /\ IdleInv /\ SendInv

-----------------------------------------------------------------------------
(* The functions of the backend *)

ElementTypes == /\ made \subseteq Events /\ pending \subseteq Events /\ callback \subseteq Events
                /\ listed \in [Events -> Loops \cup {None}]
                /\ setting \in [Events -> Timeouts \cup Numbers \cup Files \cup {0, None}]
                /\ flags \in [Events -> SUBSET Flags]
                /\ due \in [Events -> Nat] /\ sent \in [Events -> BOOLEAN]

\* What a function does to the watcher of e, and to no other.
Allocates(e) ==
  /\ made' = made \cup {e} /\ pending' = pending \ {e}
  /\ listed' = [listed EXCEPT ![e] = None]

Deallocates(e) ==
  /\ made' = made \ {e} /\ UNCHANGED <<pending, listed>>
  /\ sent' = [sent EXCEPT ![e] = FALSE]

Stops(e) ==
  /\ UNCHANGED <<made, sent>> /\ pending' = pending \ {e}
  /\ listed' = [listed EXCEPT ![e] = None]

Starts(e, l) ==
  /\ UNCHANGED made /\ pending' \in {pending, pending \ {e}}
  /\ \E m \in {listed[e], l, None} : listed' = [listed EXCEPT ![e] = m]
  /\ kind[e] = "async" =>
       /\ pending' = pending
       /\ \/ listed[e] # None /\ UNCHANGED <<listed, sent>>
          \/ sent' = [sent EXCEPT ![e] = FALSE]

Sets(e) == UNCHANGED <<made, listed, sent>> /\ pending' \in {pending, pending \ {e}}

\* A call keeps the types, and the timeout of a timer a number.
LEMMA BackendTypes ==
  ASSUME ElementTypes, kind \in [Events -> Kinds \cup {None}], NEW e \in Events, NEW l \in Loops,
         loopTime[l] \in Nat, e \in made /\ kind[e] = "timer" => setting[e] \in Nat,
         NEW op, op # "allocate" => e \in made, Backend(op, e, l)
  PROVE  /\ ElementTypes'
         /\ \A f \in Events \ {e} : setting'[f] = setting[f]
         /\ e \in made' /\ kind[e] = "timer" => setting'[e] \in Nat
  <1> DEFINE Value == Timeouts \cup Numbers \cup Files \cup {0, None}
             Kept == /\ ElementTypes' /\ \A f \in Events \ {e} : setting'[f] = setting[f]
                     /\ e \in made' /\ kind[e] = "timer" => setting'[e] \in Nat
  <1> USE DEF ElementTypes
  <1>1. ASSUME NEW value \in Value, kind[e] = "timer" => value \in Nat,
               Allocate(e, value), sent' \in [Events -> BOOLEAN]
        PROVE  Kept
    BY <1>1 DEF Allocate
  <1>2. ASSUME Deallocate(e)
        PROVE  Kept
    BY <1>2 DEF Deallocate
  <1>3. ASSUME Unlist(e), e \in made
        PROVE  Kept
    BY <1>3 DEF Unlist
  <1>4. ASSUME List(e, l), due' \in [Events -> Nat], sent' \in [Events -> BOOLEAN], e \in made
        PROVE  Kept
    BY <1>4 DEF List
  <1>5. ASSUME NEW given \in BOOLEAN, SetCallback(e, given), e \in made
        PROVE  Kept
    BY <1>5 DEF SetCallback
  <1>6. ASSUME NEW value \in Value, kind[e] = "timer" => value \in Nat, Set(e, value),
               pending' \in {pending, pending \ {e}}
        PROVE  Kept
    BY <1>6 DEF Set
  <1>7. {0, None} \subseteq Value /\ Numbers \subseteq Value /\ Files \subseteq Value
        /\ Timeouts \subseteq Value /\ Timeouts \subseteq Nat
    BY BackendAssumption DEF BackendAssumption
  <1>8. CASE kind[e] = "async" /\ Async(op, e, l)
    <2> USE <1>8
    <2>1. CASE op = "allocate"
      <3>1. Allocate(e, None) /\ sent' \in [Events -> BOOLEAN]
        BY <2>1 DEF Async
      <3>2. QED
        BY <1>1, <1>7, <3>1
    <2>2. CASE op = "start"
      <3>1. List(e, l) /\ due' \in [Events -> Nat] /\ sent' \in [Events -> BOOLEAN] /\ e \in made
        BY <2>2 DEF Async
      <3>2. QED
        BY <1>4, <3>1
    <2>3. CASE op \notin {"allocate", "start"}
      BY <1>2, <1>3, <1>5, <2>3 DEF Async
    <2>4. QED
      BY <2>1, <2>2, <2>3
  <1>9. CASE kind[e] = "timer" /\ Timer(op, e, l)
    <2> USE <1>9
    <2>1. CASE op = "allocate"
      BY <1>1, <1>7, <2>1 DEF Timer
    <2>2. CASE op \in {"start", "reset"} /\ setting[e] # 0
      <3>1. loopTime[l] + setting[e] \in Nat
        BY <2>2
      <3>2. /\ listed' = [listed EXCEPT ![e] = l] /\ pending' = pending \ {e}
            /\ due' = [due EXCEPT ![e] = loopTime[l] + setting[e]]
            /\ UNCHANGED <<made, callback, setting, flags, sent>>
        BY <2>2 DEF Timer, Unlist
      <3>3. due' \in [Events -> Nat]
        BY <3>1, <3>2
      <3>4. QED
        BY <3>2, <3>3
    <2>3. CASE op = "set_timeout"
      <3>1. PICK value \in Timeouts : Set(e, value) /\ UNCHANGED pending
        BY <2>3 DEF Timer
      <3>2. QED
        BY <1>6, <1>7, <3>1
    <2>4. CASE op \notin {"allocate", "set_timeout"} /\ ~(op \in {"start", "reset"} /\ setting[e] # 0)
      BY <1>2, <1>3, <1>5, <2>4 DEF Timer
    <2>5. QED
      BY <2>1, <2>2, <2>3, <2>4
  <1>10. CASE kind[e] = "signal" /\ Signal(op, e, l)
    <2> USE <1>10
    <2>1. CASE op = "allocate"
      <3>1. PICK value \in Numbers : Allocate(e, value) /\ UNCHANGED sent
        BY <2>1 DEF Signal
      <3>2. QED
        BY <1>1, <1>7, <3>1
    <2>2. CASE op = "set_number"
      <3>1. PICK value \in Numbers : Set(e, value) /\ pending' = pending \ {e}
        BY <2>2 DEF Signal
      <3>2. QED
        BY <1>6, <1>7, <3>1
    <2>3. CASE op = "start"
      BY <1>4, <2>3 DEF Signal
    <2>4. CASE op \notin {"allocate", "set_number", "start"}
      BY <1>2, <1>3, <1>5, <2>4 DEF Signal
    <2>5. QED
      BY <2>1, <2>2, <2>3, <2>4
  <1>11. CASE kind[e] = "idle" /\ Idle(op, e, l)
    <2> USE <1>11
    <2>1. CASE op = "allocate"
      BY <1>1, <1>7, <2>1 DEF Idle
    <2>2. CASE op = "start"
      BY <1>4, <2>2 DEF Idle
    <2>3. CASE op \notin {"allocate", "start"}
      BY <1>2, <1>3, <1>5, <2>3 DEF Idle
    <2>4. QED
      BY <2>1, <2>2, <2>3
  <1>12. CASE kind[e] = "io" /\ Io(op, e, l)
    <2> USE <1>12
    <2>1. CASE op = "allocate"
      BY <1>1, <1>7, <2>1 DEF Io
    <2>2. CASE op = "start"
      BY <1>4, <2>2 DEF Io
    <2>3. CASE op = "set_file_descriptor"
      <3>1. PICK value \in Files : Set(e, value) /\ UNCHANGED pending
        BY <2>3 DEF Io
      <3>2. QED
        BY <1>6, <1>7, <3>1
    <2>4. CASE op = "set_event_flags"
      <3>1. PICK fs \in SUBSET Flags : flags' = [flags EXCEPT ![e] = fs]
        BY <2>4 DEF Io
      <3>2. UNCHANGED <<made, listed, pending, callback, setting, due, sent>>
        BY <2>4 DEF Io
      <3>3. QED
        BY <3>1, <3>2
    <2>5. CASE op \notin {"allocate", "start", "set_file_descriptor", "set_event_flags"}
      BY <1>2, <1>3, <1>5, <2>5 DEF Io
    <2>6. QED
      BY <2>1, <2>2, <2>3, <2>4, <2>5
  <1>13. QED
    BY <1>8, <1>9, <1>10, <1>11, <1>12 DEF Backend

\* What a function does, by its name.
LEMMA BackendRule ==
  ASSUME ElementTypes, NEW e \in Events, NEW l, NEW op, Backend(op, e, l)
  PROVE  /\ op = "allocate" => Allocates(e)
         /\ op = "deallocate" => Deallocates(e)
         /\ op = "stop" => Stops(e)
         /\ op \in {"start", "reset"} => Starts(e, l)
         /\ op \notin {"allocate", "deallocate", "stop", "start", "reset"} => Sets(e)
  <1> DEFINE Ruled == /\ op = "allocate" => Allocates(e)
                      /\ op = "deallocate" => Deallocates(e)
                      /\ op = "stop" => Stops(e)
                      /\ op \in {"start", "reset"} => Starts(e, l)
                      /\ op \notin {"allocate", "deallocate", "stop", "start", "reset"} => Sets(e)
  <1>1. ASSUME NEW value, Allocate(e, value) PROVE Allocates(e)
    BY <1>1 DEF Allocate, Allocates
  <1>2. ASSUME Deallocate(e) PROVE Deallocates(e)
    BY <1>2 DEF Deallocate, Deallocates
  <1>3. ASSUME Unlist(e) PROVE Stops(e)
    BY <1>3 DEF Unlist, Stops
  <1>4. ASSUME NEW given, SetCallback(e, given) PROVE Sets(e)
    BY <1>4 DEF SetCallback, Sets
  <1>5. ASSUME List(e, l), kind[e] # "async" PROVE Starts(e, l)
    BY <1>5 DEF List, Starts
  <1>6. ASSUME Unlist(e), kind[e] # "async" PROVE Starts(e, l)
    BY <1>6 DEF Unlist, Starts
  <1>7. ASSUME NEW value, Set(e, value), pending' \in {pending, pending \ {e}}
        PROVE  Sets(e)
    BY <1>7 DEF Set, Sets
  <1>8. CASE kind[e] = "async" /\ Async(op, e, l)
    <2> USE <1>8
    <2>1. CASE op = "start"
      <3>1. List(e, l) /\ sent' = [sent EXCEPT ![e] = @ /\ listed[e] # None]
        BY <2>1 DEF Async
      <3>2. CASE listed[e] = None
        <4>1. sent' = [sent EXCEPT ![e] = FALSE]
          BY <3>1, <3>2
        <4>2. QED
          BY <2>1, <3>1, <4>1 DEF List, Starts
      <3>3. CASE listed[e] # None
        <4>1. sent' = sent /\ listed' = listed
          BY <3>1, <3>3 DEF List, ElementTypes
        <4>2. listed' = [listed EXCEPT ![e] = listed[e]]
          BY <4>1 DEF ElementTypes
        <4>3. QED
          BY <2>1, <3>1, <3>3, <4>1, <4>2 DEF List, Starts
      <3>4. QED
        BY <3>2, <3>3
    <2>2. CASE op # "start"
      BY <1>1, <1>2, <1>3, <1>4, <2>2 DEF Async
    <2>3. QED
      BY <2>1, <2>2
  <1>9. CASE kind[e] = "timer" /\ Timer(op, e, l)
    <2> USE <1>9
    <2>1. CASE op \in {"start", "reset"} /\ setting[e] # 0
      BY <2>1 DEF Timer, Unlist, Starts
    <2>2. CASE op \in {"start", "reset"} /\ setting[e] = 0
      BY <1>6, <2>2 DEF Timer
    <2>3. CASE op = "set_timeout"
      BY <1>7, <2>3 DEF Timer, Set
    <2>4. CASE op \notin {"start", "reset", "set_timeout"}
      BY <1>1, <1>2, <1>3, <1>4, <2>4 DEF Timer
    <2>5. QED
      BY <2>1, <2>2, <2>3, <2>4
  <1>10. CASE kind[e] = "signal" /\ Signal(op, e, l)
    <2> USE <1>10
    <2>1. CASE op = "set_number"
      BY <1>7, <2>1 DEF Signal
    <2>2. CASE op # "set_number"
      BY <1>1, <1>2, <1>3, <1>4, <1>5, <2>2 DEF Signal
    <2>3. QED
      BY <2>1, <2>2
  <1>11. CASE kind[e] = "idle" /\ Idle(op, e, l)
    BY <1>1, <1>2, <1>3, <1>4, <1>5, <1>11 DEF Idle
  <1>12. CASE kind[e] = "io" /\ Io(op, e, l)
    <2> USE <1>12
    <2>1. CASE op \in {"set_file_descriptor", "set_event_flags"}
      <3>1. CASE op = "set_file_descriptor"
        BY <1>7, <3>1 DEF Io
      <3>2. CASE op = "set_event_flags"
        BY <3>2 DEF Io, Sets
      <3>3. QED
        BY <2>1, <3>1, <3>2
    <2>2. CASE op \notin {"set_file_descriptor", "set_event_flags"}
      BY <1>1, <1>2, <1>3, <1>4, <1>5, <2>2 DEF Io
    <2>3. QED
      BY <2>1, <2>2
  <1>13. QED
    BY <1>8, <1>9, <1>10, <1>11, <1>12 DEF Backend

-----------------------------------------------------------------------------
(* Calls of the owner *)

\* A call on e changes no other event, and nothing of the loops and senders.
Only(e) ==
  /\ UNCHANGED <<kind, clock, loops, place, at, target, held, sends>>
  /\ \A f \in Events : f # e =>
       /\ f \in made' <=> f \in made
       /\ f \in pending' <=> f \in pending
       /\ f \in silent' <=> f \in silent
       /\ listed'[f] = listed[f] /\ setting'[f] = setting[f] /\ sent'[f] = sent[f]
       /\ home'[f] = home[f] /\ count'[f] = count[f]

\* It leaves e as the invariant wants it.
Orderly(e) ==
  /\ e \in made' <=> home'[e] # None
  /\ home'[e] # None => life[home'[e]] # "unmade"
  /\ IF e \in made' THEN listed'[e] \in {None, home'[e]} ELSE Dead(listed'[e])
  /\ e \in made' /\ kind[e] = "timer" => setting'[e] \in Nat
  /\ e \in pending' => e \in pending /\ e \in made' /\ home'[e] = home[e]
  /\ e = current => e \in made'
  /\ e \in silent' => Dead(listed'[e]) /\ e \notin pending'

\* It does not forget sends that are under way.
Counted(e) ==
  /\ \A t \in Senders : target[t] = e => e \in made'
  /\ e \in made' /\ kind[e] = "async" =>
       \/ /\ count'[e] = count[e] /\ e \in made
          /\ sent'[e] = TRUE /\ listed'[e] # None => sent[e] = TRUE /\ listed[e] # None
       \/ /\ count'[e] = 0 /\ listed'[e] = None /\ e \notin pending' /\ e # current
          /\ \A t \in Senders : target[t] # e

CallTyped == ElementTypes' /\ CallTypes' /\ count' \in [Events -> Nat]

LEMMA NoneRule ==
  /\ None \notin Events /\ None \notin Loops
  /\ TypeOK => (ElementTypes /\ kind \in [Events -> Kinds \cup {None}])
  /\ \A t : t \in Senders <=> t = "owner" \/ t = "other"
  BY BackendAssumption DEF BackendAssumption, TypeOK, WatcherTypes, ElementTypes, Senders

LEMMA CallRule ==
  ASSUME EventInv, NEW e \in Events, Only(e), Orderly(e), Counted(e), CallTyped, RestInv'
  PROVE  EventInv'
  <1> USE DEF EventInv
  <1>1. TypeOK'
    BY DEF Only, CallTyped, ElementTypes, TypeOK, WatcherTypes, LoopTypes, loops, place
  <1>2. HomeInv'
    <2>1. ASSUME NEW f \in Events
          PROVE  /\ f \in made' <=> home'[f] # None
                 /\ home'[f] # None => life'[home'[f]] # "unmade"
                 /\ f \in made' => listed'[f] \in {None, home'[f]}
                 /\ f \notin made' => Dead(listed[f])'
                 /\ f \in made' /\ kind'[f] = "timer" => setting'[f] \in Nat
      <3>1. CASE f = e
        BY <3>1 DEF Only, Orderly, Dead, loops
      <3>2. CASE f # e
        BY <3>2 DEF Only, HomeInv, Dead, loops
      <3>3. QED
        BY <3>1, <3>2
    <2>2. QED
      BY <2>1 DEF HomeInv
  <1>3. made' \subseteq Events /\ pending' \subseteq pending /\ pending \subseteq Events
        /\ UNCHANGED <<running, phase, current, life, at, target, held, kind>>
    BY NoneRule DEF CallTyped, ElementTypes, Only, Orderly, loops, place
  <1>4. LoopInv'
    <2>1. \A f \in pending' : f \in made' /\ home'[f] = running
      BY <1>3 DEF Only, Orderly, LoopInv
    <2>2. IF phase = "callback" THEN current \in made' ELSE current = None
      BY <1>3 DEF Only, Orderly, LoopInv, TypeOK, WatcherTypes
    <2>3. QED
      BY <1>3, <2>1, <2>2 DEF LoopInv
  <1>5. SilentInv'
    <2>1. ASSUME NEW f \in Events, f \in silent'
          PROVE  Dead(listed[f])' /\ f \notin pending'
      <3>1. CASE f = e
        BY <1>3, <2>1, <3>1 DEF Orderly, Dead
      <3>2. CASE f # e
        BY <1>3, <2>1, <3>2 DEF Only, SilentInv, Dead
      <3>3. QED
        BY <3>1, <3>2
    <2>2. QED
      BY <1>3, <2>1 DEF SilentInv
  <1>6. IdleInv'
    BY <1>3 DEF IdleInv
  <1>7. SendInv'
    <2>1. ASSUME NEW t \in Senders
          PROVE  /\ IF at'[t] = "idle" THEN target'[t] = None
                    ELSE target'[t] \in made' /\ kind'[target'[t]] = "async"
                 /\ at'[t] \in {"mark", "wake"} <=> held'[t] # None
      BY <1>3 DEF SendInv, Counted, Only, TypeOK, WatcherTypes
    <2>2. ASSUME NEW f \in Events, f \in made', kind'[f] = "async"
          PROVE  UnderWay(f)' <= count'[f]
      <3>1. UnderWay(f) \in Nat /\ UnderWay(f)' \in Nat
        BY DEF UnderWay, One
      <3>2. count'[f] \in Nat /\ count[f] \in Nat
        BY DEF CallTyped, TypeOK
      <3>3. CASE f = e /\ count'[e] = 0
        <4>1. UnderWay(e)' = 0 \/ (f \in made /\ count'[f] = count[f] /\ UnderWay(f)' <= UnderWay(f))
          BY <1>3, <2>2, <3>3, NoneRule DEF Counted, UnderWay, One
        <4>2. QED
          BY <2>2, <3>1, <3>2, <3>3, <4>1, <1>3 DEF SendInv
      <3>4. CASE f = e /\ count'[e] # 0
        <4>1. f \in made /\ count'[f] = count[f] /\ UnderWay(f)' <= UnderWay(f)
          BY <1>3, <2>2, <3>4 DEF Counted, UnderWay, One
        <4>2. QED
          BY <1>3, <2>2, <3>1, <3>2, <4>1 DEF SendInv
      <3>5. CASE f # e
        <4>1. f \in made /\ count'[f] = count[f] /\ UnderWay(f)' = UnderWay(f)
          BY <1>3, <2>2, <3>5 DEF Only, UnderWay
        <4>2. QED
          BY <1>3, <2>2, <4>1 DEF SendInv
      <3>6. QED
        BY <3>3, <3>4, <3>5
    <2>3. QED
      BY <2>1, <2>2 DEF SendInv
  <1>8. QED
    BY <1>1, <1>2, <1>4, <1>5, <1>6, <1>7

\* A call that finds the event made: its backend function, and its loop.
LEMMA MadeRule ==
  ASSUME EventInv, NEW e \in made
  PROVE  /\ e \in Events /\ home[e] \in Loops /\ loopTime[home[e]] \in Nat
         /\ kind[e] = "timer" => setting[e] \in Nat
         /\ life[home[e]] \in {"alive", "dead"} /\ (Alive(e) <=> life[home[e]] = "alive")
         /\ listed[e] \in {None, home[e]} /\ (e \in silent => Dead(listed[e]))
         /\ e \in pending => e \notin silent /\ home[e] = running /\ Alive(e)
  <1> USE DEF EventInv
  <1>1. e \in Events /\ home[e] \in Loops /\ listed[e] \in {None, home[e]} /\ life[home[e]] # "unmade"
        /\ (kind[e] = "timer" => setting[e] \in Nat)
    BY DEF TypeOK, WatcherTypes, CallTypes, HomeInv
  <1>2. loopTime[home[e]] \in Nat /\ life[home[e]] \in {"unmade", "alive", "dead"}
    BY <1>1 DEF TypeOK, LoopTypes
  <1>3. home[e] # None
    BY <1>1, NoneRule
  <1>4. Alive(e) <=> life[home[e]] = "alive"
    BY <1>3 DEF Alive
  <1>5. e \in silent => Dead(listed[e])
    BY <1>1 DEF SilentInv
  <1>6. e \in pending => e \notin silent /\ home[e] = running /\ Alive(e)
    BY <1>3, <1>4 DEF SilentInv, LoopInv
  <1>7. QED
    BY <1>1, <1>2, <1>4, <1>5, <1>6

\* A function of the backend, called for an event that is made.
LEMMA MadeTypes ==
  ASSUME EventInv, NEW e \in made, NEW op, Backend(op, e, home[e])
  PROVE  /\ ElementTypes' /\ \A f \in Events \ {e} : setting'[f] = setting[f]
         /\ e \in made' /\ kind[e] = "timer" => setting'[e] \in Nat
  <1>1. e \in Events /\ home[e] \in Loops /\ loopTime[home[e]] \in Nat
        /\ (kind[e] = "timer" => setting[e] \in Nat)
    BY MadeRule
  <1>2. ElementTypes /\ kind \in [Events -> Kinds \cup {None}]
    BY NoneRule DEF EventInv
  <1>3. QED
    BY <1>1, <1>2, BackendTypes

LEMMA CallStep ==
  ASSUME EventInv, NEW e, NEW op, Call(op, e), op \notin {"allocate", "deallocate"},
         IF op = "stop" THEN Alive(e) /\ silent' = silent \cup {e}
         ELSE IF op \in {"start", "reset"} THEN Alive(e) /\ silent' = silent \ {e}
         ELSE UNCHANGED silent
  PROVE  EventInv'
  <1>1. /\ Calling /\ e \in made /\ Backend(op, e, home[e]) /\ e \in Events
        /\ UNCHANGED <<kind, clock, loops, place, home, rest, sending, strayed>>
    BY DEF Call, EventInv, TypeOK, WatcherTypes
  <1>2. ElementTypes' /\ (\A f \in Events \ {e} : setting'[f] = setting[f])
        /\ (e \in made' /\ kind[e] = "timer" => setting'[e] \in Nat)
    BY <1>1, MadeTypes
  <1>3. ElementTypes
    BY NoneRule DEF EventInv
  <1>4. /\ op = "stop" => Stops(e)
        /\ op \in {"start", "reset"} => Starts(e, home[e])
        /\ op \notin {"stop", "start", "reset"} => Sets(e)
    BY <1>1, <1>3, BackendRule
  <1>5. made' = made /\ pending' \in {pending, pending \ {e}}
        /\ listed'[e] \in {None, listed[e], home[e]}
        /\ \A f \in Events : f # e => listed'[f] = listed[f] /\ sent'[f] = sent[f]
    <2>1. \A f \in Events : f # e => sent'[f] = sent[f]
      <3>1. CASE op \in {"start", "reset"} /\ kind[e] # "async"
        <4>1. UNCHANGED sent
          BY <1>1, <3>1 DEF Backend, Timer, Signal, Idle, Io, List, Unlist
        <4>2. QED
          BY <4>1
      <3>2. CASE ~(op \in {"start", "reset"} /\ kind[e] # "async")
        BY <1>3, <1>4, <3>2 DEF Stops, Starts, Sets, ElementTypes
      <3>3. QED
        BY <3>1, <3>2
    <2>2. QED
      BY <1>3, <1>4, <2>1 DEF Stops, Starts, Sets, ElementTypes
  <1>6. Only(e)
    BY <1>1, <1>2, <1>5 DEF Only, sending
  <1>7. /\ home[e] # None /\ life[home[e]] # "unmade" /\ listed[e] \in {None, home[e]}
        /\ (Alive(e) <=> life[home[e]] = "alive")
        /\ e \in silent => Dead(listed[e])
        /\ e \in pending => e \notin silent
    BY <1>1, MadeRule, NoneRule
  <1>8. e \in silent' => Dead(listed'[e]) /\ e \notin pending'
    <2>1. CASE op = "stop"
      BY <1>1, <1>3, <1>4, <2>1 DEF Stops, Dead, ElementTypes
    <2>2. CASE op \in {"start", "reset"}
      BY <2>2
    <2>3. CASE op \notin {"stop", "start", "reset"}
      BY <1>4, <1>5, <1>7, <2>3 DEF Sets
    <2>4. QED
      BY <2>1, <2>2, <2>3
  <1>9. Orderly(e)
    BY <1>1, <1>2, <1>5, <1>7, <1>8 DEF Orderly
  <1>10. Counted(e)
    <2>1. kind[e] = "async" /\ sent'[e] = TRUE /\ listed'[e] # None => sent[e] = TRUE /\ listed[e] # None
      BY <1>1, <1>3, <1>4 DEF Stops, Starts, Sets, ElementTypes
    <2>2. QED
      BY <1>1, <1>5, <2>1 DEF Counted, sending
  <1>11. CallTyped
    BY <1>1, <1>2 DEF CallTyped, CallTypes, EventInv, TypeOK, sending
  <1>12. RestInv'
    BY <1>1 DEF RestInv, Calling, Free
  <1>13. QED
    BY <1>1, <1>6, <1>9, <1>10, <1>11, <1>12, CallRule

\* The first half of a call leaves the watcher stopped, or in a loop that is dead.
LEMMA FirstHalf ==
  ASSUME EventInv, NEW e, StopFirst(e)
  PROVE  /\ e \in made /\ e \in Events /\ Calling /\ home[e] \in Loops
         /\ UNCHANGED <<kind, clock, loops, place, sending, made, sent>> /\ ElementTypes'
         /\ pending' \in {pending, pending \ {e}} /\ e \notin pending'
         /\ Dead(listed'[e]) /\ listed'[e] \in {None, home[e]} /\ (Alive(e) => listed'[e] = None)
         /\ listed'[e] # None => listed[e] # None
         /\ \A f \in Events \ {e} : listed'[f] = listed[f] /\ setting'[f] = setting[f]
         /\ kind[e] = "timer" => setting'[e] \in Nat
  <1>1. e \in made /\ e \in Events /\ Calling /\ UNCHANGED <<kind, clock, loops, place, sending>>
    BY DEF StopFirst, EventInv, TypeOK, WatcherTypes
  <1>2. /\ home[e] \in Loops /\ life[home[e]] \in {"alive", "dead"} /\ (Alive(e) <=> life[home[e]] = "alive")
        /\ listed[e] \in {None, home[e]} /\ (e \in pending => Alive(e))
        /\ kind[e] = "timer" => setting[e] \in Nat
    BY <1>1, MadeRule
  <1>3. ElementTypes
    BY NoneRule DEF EventInv
  <1>4. CASE Alive(e)
    <2>1. Backend("stop", e, home[e])
      BY <1>4 DEF StopFirst
    <2>2. Stops(e)
      BY <1>1, <1>3, <2>1, BackendRule
    <2>3. ElementTypes' /\ (\A f \in Events \ {e} : setting'[f] = setting[f])
          /\ (e \in made' /\ kind[e] = "timer" => setting'[e] \in Nat)
      BY <1>1, <2>1, MadeTypes
    <2>4. QED
      BY <1>1, <1>2, <1>3, <2>2, <2>3 DEF Stops, Dead, ElementTypes
  <1>5. CASE ~Alive(e)
    <2>1. UNCHANGED watchers
      BY <1>5 DEF StopFirst
    <2>2. Dead(listed[e])
      BY <1>2, <1>5 DEF Dead
    <2>3. QED
      BY <1>1, <1>2, <1>3, <1>5, <2>1, <2>2 DEF watchers, ElementTypes
  <1>6. QED
    BY <1>4, <1>5

LEMMA DestroyStep ==
  ASSUME EventInv, NEW e, Destroy(e)
  PROVE  EventInv'
  <1>1. /\ e \in made /\ e \in Events /\ Calling /\ home[e] \in Loops
        /\ UNCHANGED <<kind, clock, loops, place, sending, made, sent>> /\ ElementTypes'
        /\ pending' \in {pending, pending \ {e}} /\ e \notin pending'
        /\ Dead(listed'[e]) /\ listed'[e] \in {None, home[e]}
        /\ listed'[e] # None => listed[e] # None
        /\ \A f \in Events \ {e} : listed'[f] = listed[f] /\ setting'[f] = setting[f]
        /\ kind[e] = "timer" => setting'[e] \in Nat
    BY FirstHalf DEF Destroy
  <1>2. /\ rest' = <<e, "deallocate">> /\ silent' = silent \cup {e} /\ UNCHANGED <<home, strayed>>
        /\ e # current /\ \A t \in Senders : target[t] # e
    BY DEF Destroy, Unused
  <1>3. /\ home[e] # None /\ life[home[e]] # "unmade"
    BY <1>1, MadeRule, NoneRule
  <1>4. Only(e)
    BY <1>1, <1>2 DEF Only, sending
  <1>5. Orderly(e)
    BY <1>1, <1>2, <1>3 DEF Orderly
  <1>6. Counted(e)
    BY <1>1, <1>2 DEF Counted, sending
  <1>7. CallTyped
    <2>1. rest' \in Events \X {"start", "deallocate"}
      BY <1>1, <1>2
    <2>2. QED
      BY <1>1, <1>2, <2>1 DEF CallTyped, CallTypes, EventInv, TypeOK, WatcherTypes, sending
  <1>8. RestInv'
    BY <1>1, <1>2 DEF RestInv, Calling, Free, place, loops, sending, Dead
  <1>9. QED
    BY <1>1, <1>4, <1>5, <1>6, <1>7, <1>8, CallRule

LEMMA SetLoopStep ==
  ASSUME EventInv, NEW e, NEW l \in Loops, SetLoop(e, l)
  PROVE  EventInv'
  <1>1. /\ e \in made /\ e \in Events /\ Calling /\ home[e] \in Loops
        /\ UNCHANGED <<kind, clock, loops, place, sending, made, sent>> /\ ElementTypes'
        /\ pending' \in {pending, pending \ {e}} /\ e \notin pending'
        /\ listed'[e] = None
        /\ \A f \in Events \ {e} : listed'[f] = listed[f] /\ setting'[f] = setting[f]
        /\ kind[e] = "timer" => setting'[e] \in Nat
    BY FirstHalf DEF SetLoop
  <1>2. /\ rest' = <<e, "start">> /\ silent' = silent /\ home' = [home EXCEPT ![e] = l]
        /\ life[l] = "alive" /\ listed[e] # None /\ life[home[e]] = "alive"
        /\ strayed' \in {strayed \cup {e}, strayed \ {e}}
    BY DEF SetLoop, Stray, Alive
  <1>3. e \notin silent /\ l # None
    BY <1>1, <1>2, MadeRule, NoneRule DEF Dead
  <1>4. home \in [Events -> Loops \cup {None}]
    BY DEF EventInv, TypeOK, CallTypes
  <1>5. Only(e)
    BY <1>1, <1>2, <1>4 DEF Only, sending
  <1>6. Orderly(e)
    BY <1>1, <1>2, <1>3, <1>4 DEF Orderly, Dead
  <1>7. Counted(e)
    BY <1>1 DEF Counted, sending
  <1>8. CallTyped
    <2>1. rest' \in Events \X {"start", "deallocate"} /\ home' \in [Events -> Loops \cup {None}]
      BY <1>1, <1>2, <1>4
    <2>2. QED
      BY <1>1, <1>2, <2>1 DEF CallTyped, CallTypes, EventInv, TypeOK, WatcherTypes, sending
  <1>9. RestInv'
    BY <1>1, <1>2, <1>3 DEF RestInv, Calling, Free, place, loops, sending
  <1>10. QED
    BY <1>1, <1>5, <1>6, <1>7, <1>8, <1>9, CallRule

LEMMA SetLoopInactiveStep ==
  ASSUME EventInv, NEW e, NEW l \in Loops, SetLoopInactive(e, l)
  PROVE  EventInv'
  <1>1. /\ Calling /\ e \in made /\ e \in Events /\ listed[e] = None /\ e \notin pending
        /\ home' = [home EXCEPT ![e] = l] /\ life[l] # "unmade"
        /\ strayed' \in {strayed \cup {e}, strayed \ {e}}
        /\ UNCHANGED <<kind, clock, watchers, loops, place, rest, sending, silent>>
    BY DEF SetLoopInactive, Stray, EventInv, TypeOK, WatcherTypes
  <1>2. home \in [Events -> Loops \cup {None}] /\ l # None /\ (kind[e] = "timer" => setting[e] \in Nat)
    BY <1>1, MadeRule, NoneRule DEF EventInv, TypeOK, CallTypes
  <1>3. Only(e)
    BY <1>1, <1>2 DEF Only, sending, watchers
  <1>4. current \in made \/ current = None
    BY DEF EventInv, LoopInv
  <1>5. Orderly(e)
    BY <1>1, <1>2 DEF Orderly, Dead, watchers
  <1>6. Counted(e)
    BY <1>1 DEF Counted, watchers, sending
  <1>7. CallTyped
    BY <1>1, <1>2 DEF CallTyped, CallTypes, EventInv, TypeOK, WatcherTypes, ElementTypes, watchers, sending
  <1>8. RestInv'
    BY <1>1 DEF RestInv, Calling, Free
  <1>9. QED
    BY <1>1, <1>3, <1>5, <1>6, <1>7, <1>8, CallRule

LEMMA SetNumberStep ==
  ASSUME EventInv, NEW e, SetNumber(e)
  PROVE  EventInv'
  <1>1. /\ e \in made /\ e \in Events /\ Calling /\ home[e] \in Loops
        /\ UNCHANGED <<kind, clock, loops, place, sending, made, sent>> /\ ElementTypes'
        /\ pending' \in {pending, pending \ {e}} /\ e \notin pending'
        /\ listed'[e] = None
        /\ \A f \in Events \ {e} : listed'[f] = listed[f] /\ setting'[f] = setting[f]
        /\ kind[e] = "timer" => setting'[e] \in Nat
    BY FirstHalf DEF SetNumber
  <1>2. /\ rest' = <<e, "set_number", "start">> /\ UNCHANGED <<home, silent, strayed>>
        /\ listed[e] # None /\ life[home[e]] = "alive"
    BY DEF SetNumber, history, Alive
  <1>3. e \notin silent /\ home[e] # None
    BY <1>1, <1>2, MadeRule, NoneRule DEF Dead
  <1>4. Only(e)
    BY <1>1, <1>2 DEF Only, sending
  <1>5. Orderly(e)
    BY <1>1, <1>2, <1>3 DEF Orderly
  <1>6. Counted(e)
    BY <1>1 DEF Counted, sending
  <1>7. CallTyped
    <2>1. rest' \in Events \X {"set_number"} \X {"start"}
      BY <1>1, <1>2
    <2>2. QED
      BY <1>1, <1>2, <2>1 DEF CallTyped, CallTypes, EventInv, TypeOK, WatcherTypes, sending
  <1>8. RestInv'
    BY <1>1, <1>2, <1>3 DEF RestInv, Calling, Free, place, loops, sending
  <1>9. QED
    BY <1>1, <1>4, <1>5, <1>6, <1>7, <1>8, CallRule

\* A function touches no watcher but its own.
LEMMA OthersRule ==
  ASSUME ElementTypes, NEW e \in Events, NEW l, NEW op, Backend(op, e, l)
  PROVE  \A f \in Events : f # e =>
           /\ f \in made' <=> f \in made
           /\ f \in pending' <=> f \in pending
           /\ listed'[f] = listed[f] /\ sent'[f] = sent[f]
  <1>1. \A f \in Events : f # e =>
          (f \in made' <=> f \in made) /\ (f \in pending' <=> f \in pending) /\ listed'[f] = listed[f]
    BY BackendRule DEF Allocates, Deallocates, Stops, Starts, Sets, ElementTypes
  <1>2. UNCHANGED sent \/ \E b : sent' = [sent EXCEPT ![e] = b]
    BY DEF Backend, Async, Timer, Signal, Idle, Io, Allocate, Deallocate, List, Unlist, SetCallback, Set
  <1>3. \A f \in Events : f # e => sent'[f] = sent[f]
    BY <1>2 DEF ElementTypes
  <1>4. QED
    BY <1>1, <1>3

LEMMA ConstructStep ==
  ASSUME EventInv, NEW e \in Events, NEW l \in Loops, Construct(e, l)
  PROVE  EventInv'
  <1>1. /\ Calling /\ home[e] = None /\ life[l] = "alive" /\ Backend("allocate", e, l)
        /\ home' = [home EXCEPT ![e] = l] /\ count' = [count EXCEPT ![e] = 0]
        /\ silent' = silent \cup {e}
        /\ UNCHANGED <<kind, clock, loops, place, rest, at, target, held, sends, strayed>>
    BY DEF Construct
  <1>2. /\ ElementTypes /\ kind \in [Events -> Kinds \cup {None}]
        /\ home \in [Events -> Loops \cup {None}] /\ count \in [Events -> Nat]
        /\ loopTime[l] \in Nat /\ e \notin made /\ l # None
    BY <1>1, NoneRule DEF EventInv, TypeOK, CallTypes, LoopTypes, HomeInv
  <1>3. Allocates(e)
    BY <1>1, <1>2, BackendRule
  <1>4. ElementTypes' /\ (\A f \in Events \ {e} : setting'[f] = setting[f])
        /\ (e \in made' /\ kind[e] = "timer" => setting'[e] \in Nat)
    BY <1>1, <1>2, BackendTypes
  <1>5. \A f \in Events : f # e => sent'[f] = sent[f]
    BY <1>1, <1>2, OthersRule
  <1>6. made' = made \cup {e} /\ listed'[e] = None /\ e \notin pending'
        /\ \A f \in Events : f # e => listed'[f] = listed[f] /\ (f \in pending' <=> f \in pending)
    BY <1>2, <1>3 DEF Allocates, ElementTypes
  <1>7. e # current /\ \A t \in Senders : target[t] # e
    <2>1. e # current
      BY <1>2, NoneRule DEF EventInv, LoopInv
    <2>2. \A t \in Senders : target[t] # e
      BY <1>2, NoneRule DEF EventInv, SendInv
    <2>3. QED
      BY <2>1, <2>2
  <1>8. Only(e)
    BY <1>1, <1>2, <1>4, <1>5, <1>6 DEF Only
  <1>9. Orderly(e)
    BY <1>1, <1>2, <1>4, <1>6, <1>7 DEF Orderly, Dead
  <1>10. Counted(e)
    BY <1>1, <1>2, <1>6, <1>7 DEF Counted
  <1>11. CallTyped
    BY <1>1, <1>2, <1>4 DEF CallTyped, CallTypes, EventInv, TypeOK
  <1>12. RestInv'
    BY <1>1 DEF RestInv, Calling, Free
  <1>13. QED
    BY <1>8, <1>9, <1>10, <1>11, <1>12, CallRule

\* Deallocation, of a watcher that nothing refers to.
LEMMA DeallocateStep ==
  ASSUME EventInv, NEW e \in made, Backend("deallocate", e, home[e]), Forget(e),
         e \notin pending, Dead(listed[e]), e # current, \A t \in Senders : target[t] # e,
         silent' \in {silent, silent \cup {e}}, rest' = <<>>,
         UNCHANGED <<kind, clock, loops, place, at, target, held, sends, strayed>>
  PROVE  EventInv'
  <1>1. e \in Events /\ ElementTypes /\ home \in [Events -> Loops \cup {None}] /\ count \in [Events -> Nat]
    BY NoneRule, MadeRule DEF EventInv, TypeOK, CallTypes
  <1>2. home' = [home EXCEPT ![e] = None] /\ count' = [count EXCEPT ![e] = 0]
    BY DEF Forget
  <1>3. Deallocates(e)
    BY <1>1, BackendRule
  <1>4. ElementTypes' /\ (\A f \in Events \ {e} : setting'[f] = setting[f])
    BY MadeTypes
  <1>5. made' = made \ {e} /\ UNCHANGED <<pending, listed>> /\ \A f \in Events : f # e => sent'[f] = sent[f]
    BY <1>1, <1>3 DEF Deallocates, ElementTypes
  <1>6. Only(e)
    BY <1>1, <1>2, <1>4, <1>5 DEF Only
  <1>7. Orderly(e)
    BY <1>1, <1>2, <1>5 DEF Orderly
  <1>8. Counted(e)
    BY <1>5 DEF Counted
  <1>9. CallTyped
    BY <1>1, <1>2, <1>4 DEF CallTyped, CallTypes, EventInv, TypeOK
  <1>10. RestInv'
    BY DEF RestInv
  <1>11. QED
    BY <1>1, <1>6, <1>7, <1>8, <1>9, <1>10, CallRule

LEMMA OverwriteStep ==
  ASSUME EventInv, NEW e, Overwrite(e)
  PROVE  EventInv'
  <1>1. /\ e \in made /\ Backend("deallocate", e, home[e]) /\ Forget(e)
        /\ e \notin pending /\ listed[e] = None /\ e # current /\ \A t \in Senders : target[t] # e
        /\ silent' = silent \cup {e} /\ UNCHANGED <<kind, clock, loops, place, rest, at, target, held, sends, strayed>>
        /\ rest = <<>>
    BY DEF Overwrite, Unused, Calling, Free
  <1>2. Dead(listed[e])
    BY <1>1 DEF Dead
  <1>3. QED
    BY <1>1, <1>2, DeallocateStep

LEMMA FinishStep ==
  ASSUME EventInv, Finish
  PROVE  EventInv'
  <1> DEFINE e == rest[1]
             op == rest[2]
  <1>1. /\ rest # <<>> /\ Backend(op, e, home[e])
        /\ IF op = "deallocate" THEN Forget(e) ELSE UNCHANGED <<home, count>>
        /\ rest' = IF op = "set_number" THEN <<e, "start">> ELSE <<>>
        /\ UNCHANGED <<kind, clock, loops, place, at, target, held, sends, silent, strayed>>
    BY DEF Finish, history
  <1>2. /\ at["owner"] = "idle" /\ phase \in {"out", "callback"} /\ e \in made
        /\ op = "deallocate" =>
             Dead(listed[e]) /\ e \notin pending /\ e # current /\ \A t \in Senders : target[t] # e
        /\ op # "deallocate" => e \notin silent
    BY <1>1 DEF EventInv, RestInv
  <1>3. op \in {"start", "deallocate", "set_number"}
    BY <1>1 DEF EventInv, TypeOK, CallTypes
  <1>4. /\ e \in Events /\ ElementTypes /\ listed[e] \in {None, home[e]} /\ home[e] # None
        /\ life[home[e]] # "unmade"
    BY <1>2, MadeRule, NoneRule DEF EventInv
  <1> HIDE DEF e, op
  <1>5. CASE op = "deallocate"
    BY <1>1, <1>2, <1>5, DeallocateStep
  <1>6. CASE op # "deallocate"
    <2>1. op = "start" => Starts(e, home[e])
      BY <1>1, <1>4, BackendRule
    <2>2. op = "set_number" => Sets(e)
      BY <1>1, <1>4, BackendRule
    <2>3. ElementTypes' /\ (\A f \in Events \ {e} : setting'[f] = setting[f])
          /\ (e \in made' /\ kind[e] = "timer" => setting'[e] \in Nat)
      BY <1>1, <1>2, MadeTypes
    <2>4. \A f \in Events : f # e =>
            /\ f \in made' <=> f \in made
            /\ f \in pending' <=> f \in pending
            /\ listed'[f] = listed[f] /\ sent'[f] = sent[f]
      BY <1>1, <1>4, OthersRule
    <2>5. made' = made /\ pending' \in {pending, pending \ {e}} /\ listed'[e] \in {None, home[e]}
      BY <1>3, <1>4, <1>6, <2>1, <2>2 DEF Starts, Sets, ElementTypes
    <2>6. UNCHANGED <<home, count>>
      BY <1>1, <1>6
    <2>7. Only(e)
      BY <1>1, <2>3, <2>4, <2>6 DEF Only
    <2>8. e \notin silent'
      BY <1>1, <1>2, <1>6
    <2>9. Orderly(e)
      BY <1>2, <1>4, <2>3, <2>5, <2>6, <2>8 DEF Orderly
    <2>10. kind[e] = "async" /\ sent'[e] = TRUE /\ listed'[e] # None => sent[e] = TRUE /\ listed[e] # None
      BY <1>3, <1>4, <1>6, <2>1, <2>2 DEF Starts, Sets, ElementTypes
    <2>11. Counted(e)
      BY <1>2, <2>5, <2>6, <2>10 DEF Counted
    <2>12. CallTyped
      <3>1. rest' \in {<<>>} \cup (Events \X {"start", "deallocate"})
        BY <1>1, <1>4
      <3>2. QED
        BY <1>1, <2>3, <2>6, <3>1 DEF CallTyped, CallTypes, EventInv, TypeOK
    <2>13. RestInv'
      BY <1>1, <1>2, <2>5, <2>8 DEF RestInv, place
    <2>14. QED
      BY <1>4, <2>7, <2>9, <2>11, <2>12, <2>13, CallRule
  <1>7. QED
    BY <1>5, <1>6

-----------------------------------------------------------------------------
(* Loops *)

\* A loop is made, or goes: the loop that runs stays, and the dead stay dead.
LEMMA LifeRule ==
  ASSUME EventInv, NEW l \in Loops, NEW v,
         \/ v = "alive" /\ life[l] = "unmade"
         \/ v = "dead" /\ life[l] = "alive" /\ l # MainLoop,
         life' = [life EXCEPT ![l] = v], loopTime' \in [Loops -> 0..MaxTime], rest = <<>>,
         UNCHANGED <<kind, clock, watchers, wake, done, raised, place, home, rest, sending, history>>
  PROVE  EventInv'
  <1> USE DEF EventInv
  <1>1. life \in [Loops -> {"unmade", "alive", "dead"}]
    BY DEF TypeOK, LoopTypes
  <1>2. \A m : Dead(m) /\ m \in Loops \cup {None} => Dead(m)'
    BY <1>1 DEF Dead
  <1>3. TypeOK'
    BY <1>1 DEF TypeOK, WatcherTypes, LoopTypes, CallTypes, watchers, place, sending, history
  <1>4. \A e \in Events : listed[e] \in Loops \cup {None} /\ home[e] \in Loops \cup {None}
    BY DEF TypeOK, WatcherTypes, CallTypes
  <1>5. HomeInv'
    BY <1>1, <1>2, <1>4 DEF HomeInv, watchers
  <1>6. LoopInv'
    BY <1>1 DEF LoopInv, watchers, place
  <1>7. SilentInv'
    BY <1>2, <1>4 DEF SilentInv, watchers, history
  <1>8. RestInv'
    BY DEF RestInv
  <1>9. IdleInv' /\ SendInv'
    BY DEF IdleInv, SendInv, UnderWay, watchers, place, sending, history
  <1>10. QED
    BY <1>3, <1>5, <1>6, <1>7, <1>8, <1>9

\* What of the loop that runs the invariant speaks of: its phase, the watchers
\* that are pending, and those it takes from its lists or has marked.
LEMMA RunRule ==
  ASSUME EventInv, LoopTypes', IdleInv', rest = <<>>,
         running' \in {None, MainLoop}, running' # None => life[running'] = "alive",
         running' = None <=> phase' = "out",
         phase' \in {"out", "top", "poll"} => pending' = {},
         IF phase' = "callback" THEN current' \in made ELSE current' = None,
         \A e \in pending' : e \in made /\ home[e] = running' /\ e \notin silent,
         listed' \in [Events -> Loops \cup {None}], \A e \in Events : listed'[e] \in {None, listed[e]},
         due' \in [Events -> Nat], sent' \in [Events -> BOOLEAN],
         \A e \in Events : kind[e] = "async" => UnderWay(e)' <= UnderWay(e),
         UNCHANGED <<kind, made, callback, setting, flags, life, home, rest, sending, history>>
  PROVE  EventInv'
  <1> USE DEF EventInv
  <1>1. TypeOK'
    BY NoneRule DEF TypeOK, WatcherTypes, CallTypes, sending, history
  <1>2. HomeInv'
    BY DEF HomeInv, Dead
  <1>3. LoopInv'
    BY DEF LoopInv
  <1>4. SilentInv'
    BY DEF SilentInv, Dead, history
  <1>5. RestInv'
    BY DEF RestInv
  <1>6. SendInv'
    <2>1. \A e \in Events : UnderWay(e) \in Nat /\ UnderWay(e)' \in Nat /\ count[e] \in Nat
      BY DEF UnderWay, One, TypeOK
    <2>2. ASSUME NEW e \in Events, e \in made, kind[e] = "async"
          PROVE  UnderWay(e)' <= count[e]
      BY <2>1, <2>2 DEF SendInv
    <2>3. QED
      BY <2>2 DEF SendInv, sending
  <1>7. QED
    BY <1>1, <1>2, <1>3, <1>4, <1>5, <1>6

LEMMA LoopCallStep ==
  ASSUME EventInv, NEW l \in Loops,
         GetLoop(l) \/ StartLoop(l) \/ StopLoop(l) \/ DestroyLoop(l)
  PROVE  EventInv'
  <1>1. /\ LoopTypes /\ l # None /\ (Calling => rest = <<>>)
        /\ listed \in [Events -> Loops \cup {None}] /\ due \in [Events -> Nat]
        /\ sent \in [Events -> BOOLEAN]
    BY NoneRule DEF EventInv, TypeOK, WatcherTypes, Calling, Free
  <1>2. \A e \in pending : e \in made /\ home[e] = running /\ e \notin silent
    BY DEF EventInv, LoopInv, SilentInv
  <1>3. CASE GetLoop(l)
    <2>1. loopTime' \in [Loops -> 0..MaxTime]
      BY <1>1, <1>3 DEF GetLoop, LoopTypes
    <2>2. QED
      BY <1>1, <1>3, <2>1, LifeRule DEF GetLoop
  <1>4. CASE DestroyLoop(l)
    <2>1. loopTime' \in [Loops -> 0..MaxTime]
      BY <1>1, <1>4 DEF DestroyLoop, LoopTypes
    <2>2. QED
      BY <1>1, <1>4, <2>1, LifeRule DEF DestroyLoop
  <1>5. CASE StartLoop(l)
    <2>1. /\ l = MainLoop /\ Calling /\ phase = "out" /\ life[l] = "alive"
          /\ running' = l /\ phase' = "top" /\ done' = [done EXCEPT ![l] = FALSE]
          /\ UNCHANGED <<watchers, life, loopTime, wake, raised, current>>
          /\ UNCHANGED <<kind, clock, home, rest, sending, history>>
      BY <1>5 DEF StartLoop, Run
    <2>2. LoopTypes' /\ IdleInv'
      BY <1>1, <2>1 DEF EventInv, IdleInv, LoopTypes, watchers
    <2>3. pending = {} /\ current = None
      BY <2>1 DEF EventInv, LoopInv
    <2>4. \A e \in Events : UnderWay(e)' = UnderWay(e)
      BY <2>1 DEF UnderWay, watchers, sending
    <2>5. \A e \in Events : kind[e] = "async" => UnderWay(e)' <= UnderWay(e)
      BY <2>4 DEF UnderWay, One
    <2>6. QED
      BY <1>1, <2>1, <2>2, <2>3, <2>5, RunRule DEF watchers
  <1>6. CASE StopLoop(l)
    <2>1. /\ Calling /\ done' = [done EXCEPT ![l] = TRUE]
          /\ UNCHANGED <<watchers, life, loopTime, wake, raised, place>>
          /\ UNCHANGED <<kind, clock, home, rest, sending, history>>
      BY <1>6 DEF StopLoop, Break
    <2>2. LoopTypes' /\ IdleInv'
      BY <1>1, <2>1 DEF EventInv, IdleInv, LoopTypes, watchers, place
    <2>3. \A e \in Events : UnderWay(e)' = UnderWay(e)
      BY <2>1 DEF UnderWay, watchers, sending, place
    <2>4. \A e \in Events : kind[e] = "async" => UnderWay(e)' <= UnderWay(e)
      BY <2>3 DEF UnderWay, One
    <2>5. /\ running \in {None, MainLoop} /\ (running # None => life[running] = "alive")
          /\ running = None <=> phase = "out"
          /\ phase \in {"out", "top", "poll"} => pending = {}
          /\ IF phase = "callback" THEN current \in made ELSE current = None
      BY DEF EventInv, LoopInv
    <2>6. QED
      BY <1>1, <1>2, <2>1, <2>2, <2>4, <2>5, RunRule DEF watchers, place
  <1>7. QED
    BY <1>3, <1>4, <1>5, <1>6

\* What is listed in the loop that runs is made, belongs to it, and was started.
LEMMA ListedRule ==
  ASSUME EventInv, running # None, NEW e \in Events, listed[e] = running
  PROVE  /\ e \in made /\ home[e] = running /\ e \notin silent
         /\ kind[e] = "timer" => setting[e] \in Nat
  <1>1. life[running] = "alive"
    BY DEF EventInv, LoopInv
  <1>2. ~Dead(listed[e])
    BY <1>1 DEF Dead
  <1>3. e \in made /\ (kind[e] = "timer" => setting[e] \in Nat) /\ listed[e] \in {None, home[e]}
    BY <1>2 DEF EventInv, HomeInv
  <1>4. e \notin silent
    BY <1>2 DEF EventInv, SilentInv
  <1>5. QED
    BY <1>3, <1>4

LEMMA PollStep ==
  ASSUME EventInv, rest = <<>>, Poll, UNCHANGED <<kind, clock, home, rest, sending, history>>
  PROVE  EventInv'
  <1>1. /\ LoopTypes /\ pending = {} /\ current = None /\ running \in {None, MainLoop} /\ running # None
        /\ life[running] = "alive" /\ kind \in [Events -> Kinds \cup {None}]
        /\ listed \in [Events -> Loops \cup {None}] /\ due \in [Events -> Nat] /\ sent \in [Events -> BOOLEAN]
    BY DEF Poll, EventInv, LoopInv, TypeOK, WatcherTypes
  <1>2. PICK ready \in SUBSET {e \in In(running, "io") : Ready(e)} :
          LET found == ready \cup Expired(running) IN
          /\ pending' = pending \cup
               (IF found = {} /\ ~wake[running] THEN In(running, "idle") ELSE found)
          /\ listed' = [e \in Events |->
               IF e \in Expired(running) /\ setting[e] = 0 THEN None ELSE listed[e]]
          /\ due' = [e \in Events |->
               IF e \in Expired(running) THEN Larger(due[e] + setting[e], clock) ELSE due[e]]
    BY DEF Poll
  <1> DEFINE found == ready \cup Expired(running)
  <1>3. /\ pending' = IF found = {} /\ ~wake[running] THEN In(running, "idle") ELSE found
        /\ \A e \in found : e \in Events /\ listed[e] = running /\ kind[e] \in {"io", "timer"}
        /\ \A e \in Expired(running) : kind[e] = "timer" /\ listed[e] = running
    BY <1>1, <1>2 DEF In, Expired
  <1>4. /\ phase = "poll" /\ phase' = IF wake[running] THEN "pipe" ELSE "invoke"
        /\ loopTime' = [loopTime EXCEPT ![running] = clock]
        /\ UNCHANGED <<made, callback, setting, flags, sent, life, wake, done, raised, running, current>>
    BY DEF Poll
  <1>5. \A e \in pending' : e \in Events /\ listed[e] = running /\ kind[e] # "async"
    BY <1>3 DEF In
  <1> HIDE DEF found
  <1>6. \A e \in pending' : e \in made /\ home[e] = running' /\ e \notin silent
    BY <1>1, <1>4, <1>5, ListedRule
  <1>7. due' \in [Events -> Nat]
    <2>1. ASSUME NEW e \in Expired(running)
          PROVE  Larger(due[e] + setting[e], clock) \in Nat
      <3>1. e \in Events /\ setting[e] \in Nat
        BY <1>1, <1>3, ListedRule DEF Expired, In
      <3>2. due[e] \in Nat /\ clock \in Nat
        BY <1>1, <3>1, BackendAssumption DEF BackendAssumption, LoopTypes
      <3>3. QED
        BY <3>1, <3>2 DEF Larger
    <2>2. QED
      BY <1>1, <1>2, <2>1
  <1>8. LoopTypes'
    BY <1>1, <1>4 DEF LoopTypes
  <1>9. IdleInv'
    BY <1>3, <1>4 DEF IdleInv, In
  <1>10. \A e \in Events : listed'[e] \in {None, listed[e]} /\ (kind[e] = "async" => listed'[e] = listed[e])
    BY <1>2, <1>3
  <1>11. listed' \in [Events -> Loops \cup {None}]
    BY <1>1, <1>2
  <1>12. \A e \in Events : kind[e] = "async" => UnderWay(e)' <= UnderWay(e)
    BY <1>1, <1>4, <1>5, <1>10 DEF UnderWay, One, sending
  <1>13. QED
    BY <1>1, <1>4, <1>6, <1>7, <1>8, <1>9, <1>10, <1>11, <1>12, RunRule

LEMMA ScanStep ==
  ASSUME EventInv, rest = <<>>, PipeScan, UNCHANGED <<kind, clock, home, rest, sending, history>>
  PROVE  EventInv'
  <1> DEFINE asyncs == {e \in In(running, "async") : sent[e]}
             signals == {e \in In(running, "signal") : setting[e] \in raised}
  <1>1. /\ LoopTypes /\ current = None /\ running \in {None, MainLoop} /\ running # None
        /\ life[running] = "alive" /\ sent \in [Events -> BOOLEAN]
        /\ listed \in [Events -> Loops \cup {None}] /\ due \in [Events -> Nat]
        /\ \A e \in pending : e \in made /\ home[e] = running /\ e \notin silent /\ kind[e] # "idle"
    BY DEF PipeScan, EventInv, LoopInv, SilentInv, IdleInv, TypeOK, WatcherTypes
  <1>2. /\ phase = "scan" /\ phase' = "invoke"
        /\ pending' = pending \cup asyncs \cup signals
        /\ sent' = [e \in Events |-> sent[e] /\ e \notin asyncs]
        /\ raised' \subseteq raised
        /\ UNCHANGED <<made, listed, callback, setting, flags, due,
                       life, loopTime, wake, done, running, current>>
    BY DEF PipeScan
  <1>3. /\ \A e \in asyncs \cup signals : e \in Events /\ listed[e] = running /\ kind[e] \in {"async", "signal"}
        /\ \A e \in asyncs : e \in Events /\ listed[e] = running /\ sent[e] = TRUE
        /\ \A e \in signals : kind[e] = "signal"
    BY <1>1 DEF In
  <1> HIDE DEF asyncs, signals
  <1>4. \A e \in pending' : e \in made /\ home[e] = running' /\ e \notin silent
    BY <1>1, <1>2, <1>3, ListedRule
  <1>5. LoopTypes'
    BY <1>1, <1>2 DEF LoopTypes
  <1>6. IdleInv'
    BY <1>1, <1>2, <1>3 DEF IdleInv
  <1>7. sent' \in [Events -> BOOLEAN]
    BY <1>1, <1>2
  <1>8. ASSUME NEW e \in Events, kind[e] = "async"
        PROVE  UnderWay(e)' <= UnderWay(e)
    <2>1. CASE e \in asyncs
      <3>1. sent'[e] = FALSE /\ sent[e] = TRUE /\ listed[e] # None
        BY <1>1, <1>2, <1>3, <2>1
      <3>2. One(sent[e] = TRUE /\ listed[e] # None) = 1 /\ One(sent'[e] = TRUE /\ listed'[e] # None) = 0
        BY <3>1 DEF One
      <3>3. One(e \in pending') <= 1 /\ One(e \in pending) >= 0 /\ One(e \in pending') \in Int /\ One(e \in pending) \in Int
        BY DEF One
      <3>4. QED
        BY <1>2, <3>2, <3>3 DEF UnderWay, One, sending
    <2>2. CASE e \notin asyncs
      <3>1. sent'[e] = sent[e] /\ (e \in pending' <=> e \in pending)
        BY <1>1, <1>2, <1>3, <1>8, <2>2
      <3>2. QED
        BY <1>2, <3>1 DEF UnderWay, One, sending
    <2>3. QED
      BY <2>1, <2>2
  <1>9. QED
    BY <1>1, <1>2, <1>4, <1>5, <1>6, <1>7, <1>8, RunRule

LEMMA LoopRunStep ==
  ASSUME EventInv, LoopStep
  PROVE  EventInv'
  <1>1. /\ rest = <<>> /\ UNCHANGED <<kind, clock, home, rest, sending, history>>
        /\ Top \/ Poll \/ PipeClear \/ PipeScan \/ Again \/ \E e \in Events : Invoke(e)
    BY DEF LoopStep, Free
  <1>2. /\ LoopTypes /\ IdleInv /\ running \in {None, MainLoop} /\ (running # None => life[running] = "alive")
        /\ running = None <=> phase = "out"
        /\ phase \in {"out", "top", "poll"} => pending = {}
        /\ phase # "callback" => current = None
        /\ \A e \in pending : e \in made /\ home[e] = running /\ e \notin silent
        /\ listed \in [Events -> Loops \cup {None}] /\ due \in [Events -> Nat] /\ sent \in [Events -> BOOLEAN]
    BY DEF EventInv, LoopInv, SilentInv, TypeOK, WatcherTypes
  <1>3. UNCHANGED <<pending, current, sent, listed>> => \A e \in Events : UnderWay(e)' <= UnderWay(e)
    BY <1>1 DEF UnderWay, One, sending
  <1>4. CASE Top
    <2>1. LoopTypes'
      BY <1>1, <1>2, <1>4 DEF Top, LoopTypes
    <2>2. IdleInv'
      BY <1>1, <1>2, <1>4 DEF Top, IdleInv, watchers
    <2>3. QED
      BY <1>1, <1>2, <1>3, <1>4, <2>1, <2>2, RunRule DEF Top, watchers
  <1>5. CASE PipeClear
    <2>1. LoopTypes'
      BY <1>1, <1>2, <1>5 DEF PipeClear, LoopTypes
    <2>2. IdleInv'
      BY <1>1, <1>2, <1>5 DEF PipeClear, IdleInv, watchers
    <2>3. QED
      BY <1>1, <1>2, <1>3, <1>5, <2>1, <2>2, RunRule DEF PipeClear, watchers
  <1>6. CASE Again
    <2>1. LoopTypes'
      BY <1>1, <1>2, <1>6 DEF Again, LoopTypes, loops
    <2>2. IdleInv'
      BY <1>1, <1>2, <1>6 DEF Again, IdleInv, watchers
    <2>3. QED
      BY <1>1, <1>2, <1>3, <1>6, <2>1, <2>2, RunRule DEF Again, watchers, loops
  <1>7. ASSUME NEW e \in Events, Invoke(e)
        PROVE  EventInv'
    <2>1. /\ phase = "invoke" /\ e \in pending /\ pending' = pending \ {e}
          /\ IF e \in callback THEN phase' = "callback" /\ current' = e ELSE UNCHANGED <<phase, current>>
          /\ UNCHANGED <<made, listed, callback, setting, flags, due, sent, loops, running>>
      BY <1>7 DEF Invoke
    <2>2. LoopTypes'
      BY <1>1, <1>2, <2>1 DEF LoopTypes, loops
    <2>3. IdleInv'
      BY <1>1, <1>2, <2>1 DEF IdleInv
    <2>4. current = None /\ e # None
      BY <1>2, <2>1, NoneRule
    <2>5. ASSUME NEW f \in Events
          PROVE  UnderWay(f)' <= UnderWay(f)
      BY <1>1, <2>1, <2>4 DEF UnderWay, One, sending
    <2>6. \A f \in pending' : f \in made /\ home[f] = running' /\ f \notin silent
      BY <1>2, <2>1
    <2>7. IF phase' = "callback" THEN current' \in made ELSE current' = None
      BY <1>2, <2>1, <2>4
    <2>8. QED
      BY <1>1, <1>2, <2>1, <2>2, <2>3, <2>5, <2>6, <2>7, RunRule DEF loops
  <1>8. QED
    BY <1>1, <1>4, <1>5, <1>6, <1>7, PollStep, ScanStep

-----------------------------------------------------------------------------
(* Sends, callbacks and the environment *)

\* A step of a send: of the watchers it changes marks, of the loops wake-ups.
LEMMA SendRule ==
  ASSUME EventInv, RestInv', SendInv', sent' \in [Events -> BOOLEAN], wake' \in [Loops -> BOOLEAN],
         at' \in [Senders -> {"idle", "count", "test", "lock", "mark", "wake"}],
         target' \in [Senders -> Events \cup {None}], held' \in [Senders -> Loops \cup {None}],
         sends' \in 0..MaxSends, count' \in [Events -> Nat],
         UNCHANGED <<kind, clock, made, listed, pending, callback, setting, flags, due, life, loopTime,
                     done, raised, place, home, rest, history>>
  PROVE  EventInv'
  <1> USE DEF EventInv
  <1>1. TypeOK'
    BY DEF TypeOK, WatcherTypes, LoopTypes, CallTypes, place, history
  <1>2. HomeInv'
    BY DEF HomeInv, Dead
  <1>3. LoopInv'
    BY DEF LoopInv, place
  <1>4. SilentInv'
    BY DEF SilentInv, Dead, history
  <1>5. IdleInv'
    BY DEF IdleInv, place
  <1>6. QED
    BY <1>1, <1>2, <1>3, <1>4, <1>5

\* The terms of UnderWay.
LEMMA OneRule == \A b \in BOOLEAN : One(b) \in {0, 1} /\ (One(b) = 1 <=> b)
  BY DEF One

LEMMA SenderTypes ==
  ASSUME EventInv
  PROVE  /\ at \in [Senders -> {"idle", "count", "test", "lock", "mark", "wake"}]
         /\ target \in [Senders -> Events \cup {None}] /\ held \in [Senders -> Loops \cup {None}]
         /\ sends \in 0..MaxSends
         /\ count \in [Events -> Nat] /\ sent \in [Events -> BOOLEAN] /\ wake \in [Loops -> BOOLEAN]
         /\ rest # <<>> => at["owner"] = "idle"
         /\ \A t \in Senders : IF at[t] = "idle" THEN target[t] = None
                               ELSE /\ target[t] \in made /\ target[t] \in Events
                                    /\ kind[target[t]] = "async"
         /\ \A t \in Senders : at[t] \in {"mark", "wake"} <=> held[t] # None
         /\ \A e \in Events : e \in made /\ kind[e] = "async" => UnderWay(e) <= count[e]
         /\ \A e \in Events : UnderWay(e) \in Nat
  <1>1. \A e \in Events : UnderWay(e) \in Nat
    BY DEF UnderWay, One
  <1>2. /\ at \in [Senders -> {"idle", "count", "test", "lock", "mark", "wake"}]
        /\ target \in [Senders -> Events \cup {None}] /\ held \in [Senders -> Loops \cup {None}]
        /\ sends \in 0..MaxSends /\ count \in [Events -> Nat] /\ sent \in [Events -> BOOLEAN] /\ wake \in [Loops -> BOOLEAN]
        /\ made \subseteq Events
    BY DEF EventInv, TypeOK, WatcherTypes, LoopTypes, CallTypes
  <1>3. QED
    BY <1>1, <1>2 DEF EventInv, RestInv, SendInv

LEMMA SendStep ==
  ASSUME EventInv, NEW t \in Senders, NEW e \in Events, Send(t, e)
  PROVE  EventInv'
  <1>1. /\ sends < MaxSends /\ e \in made /\ kind[e] = "async" /\ at[t] = "idle"
        /\ IF t = "owner" THEN Calling ELSE rest # <<e, "deallocate">>
        /\ at' = [at EXCEPT ![t] = "count"] /\ target' = [target EXCEPT ![t] = e] /\ sends' = sends + 1
        /\ UNCHANGED <<kind, clock, watchers, loops, place, home, rest, count, held, history>>
    BY DEF Send, Moves
  <1>2. sends' \in 0..MaxSends /\ e # None
    BY <1>1, SenderTypes, SystemsAssumption, NoneRule DEF SystemsAssumption
  <1>3. RestInv'
    <2>1. CASE rest = <<>>
      BY <1>1, <2>1 DEF RestInv
    <2>2. CASE rest # <<>>
      <3>1. t # "owner"
        BY <1>1, <2>2 DEF Calling, Free
      <3>2. rest[2] = "deallocate" => rest[1] # e
        BY <1>1, <2>2, <3>1 DEF EventInv, TypeOK, CallTypes
      <3>3. at'["owner"] = "idle" /\ \A u \in Senders : u # t => target'[u] = target[u]
        BY <1>1, <2>2, <3>1, SenderTypes DEF Senders
      <3>4. target'[t] = e
        BY <1>1, SenderTypes
      <3>5. QED
        BY <1>1, <2>2, <3>2, <3>3, <3>4 DEF EventInv, RestInv, Dead, watchers, loops, place, history
    <2>3. QED
      BY <2>1, <2>2
  <1>4. SendInv'
    <2>1. \A u \in Senders : u # t => at'[u] = at[u] /\ target'[u] = target[u]
      BY <1>1, SenderTypes
    <2>2. at'[t] = "count" /\ target'[t] = e
      BY <1>1, SenderTypes
    <2>3. \A f \in Events : UnderWay(f)' = UnderWay(f)
      BY <1>1, <2>1, <2>2, NoneRule DEF UnderWay, One, watchers, place
    <2>4. QED
      BY <1>1, <2>1, <2>2, <2>3, SenderTypes DEF SendInv, watchers
  <1>5. QED
    BY <1>1, <1>2, <1>3, <1>4, SenderTypes, SendRule DEF watchers, loops

\* A send is counted before the pending watcher is looked at.
LEMMA SendCountStep ==
  ASSUME EventInv, NEW t \in Senders, SendCount(t)
  PROVE  EventInv'
  <1> DEFINE e == target[t]
  <1>1. /\ at[t] = "count" /\ at' = [at EXCEPT ![t] = "test"] /\ count' = [count EXCEPT ![e] = @ + 1]
        /\ UNCHANGED <<kind, clock, watchers, loops, place, home, rest, target, held, sends, history>>
    BY DEF SendCount, Moves
  <1>2. e \in made /\ e \in Events /\ kind[e] = "async"
    BY <1>1, SenderTypes
  <1>3. count' \in [Events -> Nat] /\ at' \in [Senders -> {"idle", "count", "test", "lock", "mark", "wake"}]
    BY <1>1, <1>2, SenderTypes
  <1>4. RestInv'
    BY <1>1, SenderTypes DEF EventInv, RestInv, Dead, watchers, loops, place, history
  <1>5. SendInv'
    <2>1. \A u \in Senders : u # t => at'[u] = at[u]
      BY <1>1, SenderTypes
    <2>2. at'[t] = "test" /\ count'[e] = count[e] + 1
      BY <1>1, <1>2, SenderTypes
    <2>3. UnderWay(e)' <= UnderWay(e) + 1
      BY <1>1, <2>1, <2>2, NoneRule DEF UnderWay, One, watchers, place
    <2>4. ASSUME NEW f \in Events, f # e
          PROVE  UnderWay(f)' = UnderWay(f) /\ count'[f] = count[f]
      <3>1. \A u \in Senders : at'[u] \in {"test", "lock", "mark"} /\ target'[u] = f
              <=> at[u] \in {"test", "lock", "mark"} /\ target[u] = f
        BY <1>1, <2>1, <2>4
      <3>2. QED
        BY <1>1, <2>4, <3>1, SenderTypes, NoneRule DEF UnderWay, watchers, place
    <2>5. UnderWay(e) <= count[e]
      BY <1>2, SenderTypes
    <2>6. UnderWay(e)' <= count'[e]
      <3>1. UnderWay(e) \in Nat /\ UnderWay(e)' \in Nat /\ count[e] \in Nat
        BY <1>2, SenderTypes DEF UnderWay, One
      <3>2. QED
        BY <2>2, <2>3, <2>5, <3>1
    <2>7. \A u \in Senders : /\ at'[u] = "idle" <=> at[u] = "idle"
                            /\ at'[u] \in {"mark", "wake"} <=> at[u] \in {"mark", "wake"}
      BY <1>1, <2>1, <2>2
    <2>8. QED
      BY <1>1, <2>4, <2>6, <2>7, SenderTypes DEF SendInv, watchers
  <1>6. QED
    BY <1>1, <1>3, <1>4, <1>5, SenderTypes, SendRule DEF watchers, loops

\* A send that returns, or that marks the watcher, is no longer counted as such.
LEMMA SendOnRule ==
  ASSUME EventInv, NEW t \in Senders, at[t] # "idle",
         NEW next \in {"idle", "lock", "mark", "wake"},
         next = "lock" => at[t] = "test", next = "mark" => at[t] = "lock",
         at' = [at EXCEPT ![t] = next],
         target' = IF next = "idle" THEN [target EXCEPT ![t] = None] ELSE target,
         NEW l \in Loops, held' = IF next = "idle" THEN [held EXCEPT ![t] = None]
                                  ELSE IF next = "mark" THEN [held EXCEPT ![t] = l] ELSE held,
         IF next = "wake" THEN at[t] = "mark" /\ sent' = [sent EXCEPT ![target[t]] = TRUE]
         ELSE UNCHANGED sent,
         wake' \in [Loops -> BOOLEAN],
         UNCHANGED <<kind, clock, made, listed, pending, callback, setting, flags, due, life, loopTime,
                     done, raised, place, home, rest, history, sends, count>>
  PROVE  EventInv'
  <1>1. target[t] \in made /\ target[t] \in Events /\ kind[target[t]] = "async"
    BY SenderTypes
  <1>2. /\ at' \in [Senders -> {"idle", "count", "test", "lock", "mark", "wake"}]
        /\ target' \in [Senders -> Events \cup {None}] /\ sent' \in [Events -> BOOLEAN]
        /\ held' \in [Senders -> Loops \cup {None}]
    BY <1>1, SenderTypes
  <1>3. at'[t] = next /\ target'[t] = IF next = "idle" THEN None ELSE target[t]
    BY SenderTypes
  <1>4. \A u \in Senders : u # t => at'[u] = at[u] /\ target'[u] = target[u]
    BY SenderTypes
  <1>5. RestInv'
    <2>1. rest # <<>> => t # "owner"
      BY SenderTypes
    <2>2. \A u \in Senders : target'[u] \in {target[u], None}
      BY <1>3, <1>4
    <2>3. rest # <<>> => at'["owner"] = "idle" /\ rest[1] # None
      BY <1>4, <2>1, SenderTypes, NoneRule DEF EventInv, RestInv, TypeOK, WatcherTypes, Senders
    <2>4. QED
      BY <2>2, <2>3 DEF EventInv, RestInv, Dead, place, history
  <1>6. SendInv'
    <2>1. ASSUME NEW u \in Senders
          PROVE  /\ IF at'[u] = "idle" THEN target'[u] = None
                    ELSE target'[u] \in made' /\ kind'[target'[u]] = "async"
                 /\ at'[u] \in {"mark", "wake"} <=> held'[u] # None
      <3>1. CASE u = t
        <4>1. held'[t] # None <=> at'[t] \in {"mark", "wake"}
          BY <1>3, SenderTypes, NoneRule
        <4>2. QED
          BY <1>1, <1>3, <3>1, <4>1
      <3>2. CASE u # t
        <4>1. held'[u] = held[u]
          BY <3>2, SenderTypes
        <4>2. QED
          BY <1>4, <3>2, <4>1, SenderTypes
      <3>3. QED
        BY <3>1, <3>2
    <2>2. ASSUME NEW f \in Events
          PROVE  UnderWay(f)' <= UnderWay(f)
      <3> DEFINE S(u) == at[u] \in {"test", "lock", "mark"} /\ target[u] = f
                 M == sent[f] = TRUE /\ listed[f] # None
      <3>1. \A u \in Senders : u # t => S(u)' = S(u)
        BY <1>4
      <3>2. S(t)' => S(t)
        BY <1>3, <2>2, NoneRule
      <3>3. M' => M \/ (S(t) /\ ~S(t)')
        BY <1>1, <1>3, SenderTypes
      <3>4. One(S(t)') + One(M') <= One(S(t)) + One(M)
        BY <3>2, <3>3 DEF One
      <3>5. CASE t = "owner"
        <4>1. S("other")' = S("other")
          BY <3>1, <3>5 DEF Senders
        <4>2. /\ UnderWay(f) = One(S(t)) + One(S("other")) + One(M) + One(f \in pending) + One(current = f)
              /\ UnderWay(f)' = One(S(t)') + One(S("other")) + One(M') + One(f \in pending) + One(current = f)
          BY <3>5, <4>1 DEF UnderWay, place
        <4>3. QED
          BY <3>4, <4>2 DEF One
      <3>6. CASE t = "other"
        <4>1. S("owner")' = S("owner")
          BY <3>1, <3>6 DEF Senders
        <4>2. /\ UnderWay(f) = One(S("owner")) + One(S(t)) + One(M) + One(f \in pending) + One(current = f)
              /\ UnderWay(f)' = One(S("owner")) + One(S(t)') + One(M') + One(f \in pending) + One(current = f)
          BY <3>6, <4>1 DEF UnderWay, place
        <4>3. QED
          BY <3>4, <4>2 DEF One
      <3>7. QED
        BY <3>5, <3>6, NoneRule
    <2>3. ASSUME NEW f \in Events, f \in made, kind[f] = "async"
          PROVE  UnderWay(f)' <= count[f]
      <3>1. UnderWay(f)' \in Nat
        BY DEF UnderWay, One
      <3>2. QED
        BY <2>2, <2>3, <3>1, SenderTypes
    <2>4. QED
      BY <2>1, <2>3 DEF SendInv
  <1>7. QED
    BY <1>2, <1>5, <1>6, SenderTypes, SendRule

LEMMA SendingStep ==
  ASSUME EventInv, NEW t \in Senders, Sending(t)
  PROVE  EventInv'
  <1>1. CASE SendCount(t)
    BY <1>1, SendCountStep
  <1>2. CASE SendTest(t)
    BY <1>2, SystemsAssumption, SendOnRule, SenderTypes
    DEF SystemsAssumption, SendTest, SendReturns, Moves, watchers, loops
  <1>3. CASE SendLock(t)
    <2>1. CASE Alive(target[t])
      <3>1. home[target[t]] \in Loops
        BY <1>3, MadeRule, SenderTypes DEF SendLock
      <3>2. QED
        BY <1>3, <2>1, <3>1, SendOnRule, SenderTypes DEF SendLock, Moves, watchers, loops
    <2>2. CASE ~Alive(target[t])
      BY <1>3, <2>2, SystemsAssumption, SendOnRule, SenderTypes
      DEF SystemsAssumption, SendLock, SendReturns, watchers, loops
    <2>3. QED
      BY <2>1, <2>2
  <1>4. CASE SendMark(t)
    BY <1>4, SystemsAssumption, SendOnRule, SenderTypes DEF SystemsAssumption, SendMark, Moves, loops
  <1>5. CASE SendWake(t)
    <2>1. wake' \in [Loops -> BOOLEAN]
      BY <1>5, SenderTypes DEF SendWake
    <2>2. QED
      BY <1>5, <2>1, SystemsAssumption, SendOnRule DEF SystemsAssumption, SendWake, SendReturns, watchers
  <1>6. QED
    BY <1>1, <1>2, <1>3, <1>4, <1>5 DEF Sending

\* The callback of an async has counted itself; what it sends it counts anew.
LEMMA ReturnStep ==
  ASSUME EventInv, CallbackReturns
  PROVE  EventInv'
  <1>1. /\ phase = "callback" /\ phase' = "invoke" /\ current' = None /\ rest = <<>> /\ at["owner"] = "idle"
        /\ IF kind[current] = "async"
           THEN /\ count' = [count EXCEPT ![current] = @ - 1]
                /\ IF count[current] > 1
                   THEN /\ at' = [at EXCEPT !["owner"] = "count"]
                        /\ target' = [target EXCEPT !["owner"] = current]
                   ELSE UNCHANGED <<at, target>>
           ELSE UNCHANGED <<count, at, target>>
        /\ UNCHANGED <<watchers, loops, running, kind, clock, home, rest, held, sends, history>>
    BY DEF CallbackReturns, Return, Calling, Free, Moves
  <1>2. /\ current \in made /\ current \in Events /\ current # None
        /\ \A e \in pending : e \in made /\ home[e] = running
        /\ running \in {None, MainLoop} /\ running # None /\ life[running] = "alive"
    BY <1>1, NoneRule DEF EventInv, LoopInv, TypeOK, WatcherTypes
  <1>3. "owner" \in Senders /\ "other" \in Senders
    BY DEF Senders
  <1>4. \A e \in Events : One(e = current) \in Nat /\ UnderWay(e)' = UnderWay(e) - One(e = current)
    <2>1. at'["owner"] \notin {"test", "lock", "mark"} /\ at["owner"] \notin {"test", "lock", "mark"}
      BY <1>1, <1>3, SenderTypes
    <2>2. at'["other"] = at["other"] /\ target'["other"] = target["other"]
      BY <1>1, <1>3, SenderTypes
    <2>3. QED
      BY <1>1, <2>1, <2>2, NoneRule DEF UnderWay, One, watchers
  <1>5. ASSUME NEW e \in Events, e \in made, kind[e] = "async"
        PROVE  /\ count[e] - One(e = current) \in Nat /\ UnderWay(e)' <= count[e] - One(e = current)
               /\ count'[e] = count[e] - One(e = current)
    <2>1. UnderWay(e)' \in Nat
      BY DEF UnderWay, One
    <2>2. UnderWay(e) \in Nat /\ count[e] \in Nat /\ UnderWay(e) <= count[e]
      BY <1>5, SenderTypes
    <2>3. count'[e] = count[e] - One(e = current)
      BY <1>1, <1>5, SenderTypes DEF One
    <2>4. QED
      BY <1>4, <1>5, <2>1, <2>2, <2>3
  <1>6. count' \in [Events -> Nat]
    <2>1. CASE kind[current] = "async"
      <3>1. count[current] - 1 \in Nat
        BY <1>2, <1>5, <2>1 DEF One
      <3>2. QED
        BY <1>1, <1>2, <2>1, <3>1, SenderTypes
    <2>2. CASE kind[current] # "async"
      BY <1>1, <2>2, SenderTypes
    <2>3. QED
      BY <2>1, <2>2
  <1>7. /\ at' \in [Senders -> {"idle", "count", "test", "lock", "mark", "wake"}]
        /\ target' \in [Senders -> Events \cup {None}]
    <2>1. CASE at' = [at EXCEPT !["owner"] = "count"] /\ target' = [target EXCEPT !["owner"] = current]
      BY <1>2, <2>1, SenderTypes
    <2>2. CASE UNCHANGED <<at, target>>
      BY <2>2, SenderTypes
    <2>3. QED
      BY <1>1, <2>1, <2>2
  <1>8. TypeOK'
    BY <1>1, <1>6, <1>7 DEF EventInv, TypeOK, WatcherTypes, LoopTypes, CallTypes, watchers, loops, history
  <1>9. HomeInv'
    BY <1>1 DEF EventInv, HomeInv, Dead, watchers, loops
  <1>10. LoopInv'
    BY <1>1, <1>2 DEF LoopInv, watchers, loops
  <1>11. SilentInv'
    BY <1>1 DEF EventInv, SilentInv, Dead, watchers, loops, history
  <1>12. RestInv'
    BY <1>1 DEF RestInv
  <1>13. IdleInv'
    BY <1>1 DEF EventInv, IdleInv, watchers
  <1>14. SendInv'
    <2>1. ASSUME NEW t \in Senders
          PROVE  /\ IF at'[t] = "idle" THEN target'[t] = None
                    ELSE target'[t] \in made /\ kind[target'[t]] = "async"
                 /\ at'[t] \in {"mark", "wake"} <=> held[t] # None
      BY <1>1, <1>2, SenderTypes
    <2>2. QED
      BY <1>1, <1>5, <2>1 DEF SendInv, watchers
  <1>15. QED
    BY <1>8, <1>9, <1>10, <1>11, <1>12, <1>13, <1>14 DEF EventInv

\* Time passes, and signals arrive: none of which the invariant speaks of.
LEMMA EnvironmentStep ==
  ASSUME EventInv, Environment
  PROVE  EventInv'
  <1>1. /\ clock' \in 0..MaxTime /\ raised' \subseteq Numbers /\ wake' \in [Loops -> BOOLEAN]
        /\ UNCHANGED <<kind, watchers, life, loopTime, done, place, home, rest, sending, history>>
    <2>1. LoopTypes /\ listed \in [Events -> Loops \cup {None}] /\ MaxTime \in Nat
      BY BackendAssumption DEF BackendAssumption, EventInv, TypeOK, WatcherTypes
    <2>2. CASE (\E n \in Numbers : Raise(n)) /\ UNCHANGED <<kind, clock, home, rest, sending, history>>
      <3>1. PICK n \in Numbers, e \in Events :
              /\ listed[e] # None /\ raised' = raised \cup {n} /\ wake' = [wake EXCEPT ![listed[e]] = TRUE]
              /\ UNCHANGED <<watchers, life, loopTime, done, place>>
        BY <2>2 DEF Raise
      <3>2. QED
        BY <2>1, <2>2, <3>1 DEF LoopTypes
    <2>3. CASE /\ clock < MaxTime /\ clock' = clock + 1
               /\ UNCHANGED <<kind, watchers, loops, place, home, rest, sending, history>>
      BY <2>1, <2>3 DEF LoopTypes, loops
    <2>4. QED
      BY <2>2, <2>3 DEF Environment
  <1>2. TypeOK'
    BY <1>1 DEF EventInv, TypeOK, WatcherTypes, LoopTypes, CallTypes, watchers, place, sending, history
  <1>3. HomeInv' /\ LoopInv' /\ SilentInv' /\ RestInv'
    BY <1>1 DEF EventInv, HomeInv, LoopInv, SilentInv, RestInv, Dead, watchers, place, sending, history
  <1>4. IdleInv' /\ SendInv'
    BY <1>1 DEF EventInv, IdleInv, SendInv, UnderWay, watchers, place, sending, history
  <1>5. QED
    BY <1>2, <1>3, <1>4 DEF EventInv

-----------------------------------------------------------------------------
(* The steps together *)

LEMMA EventCallStep ==
  ASSUME EventInv, NEW e \in Events,
         TimerCalls(e) \/ SignalCalls(e) \/ IdleCalls(e) \/ IoCalls(e) \/ AsyncCalls(e)
  PROVE  EventInv'
  <1>1. CASE Common(e)
    <2>1. CASE Start(e) \/ Stop(e) \/ (Call("set_callback", e) /\ UNCHANGED silent)
      BY <2>1, CallStep DEF Start, Stop
    <2>2. CASE Destroy(e) \/ Overwrite(e)
      BY <2>2, DestroyStep, OverwriteStep
    <2>3. CASE \E l \in Loops : Construct(e, l) \/ SetLoop(e, l) \/ SetLoopInactive(e, l)
      BY <2>3, ConstructStep, SetLoopStep, SetLoopInactiveStep
    <2>4. QED
      BY <1>1, <2>1, <2>2, <2>3 DEF Common
  <1>2. CASE SetNumber(e)
    BY <1>2, SetNumberStep
  <1>3. CASE Alive(e) /\ Call("reset", e) /\ silent' = silent \ {e}
    BY <1>3, CallStep
  <1>4. ASSUME NEW op \in {"set_timeout", "set_number", "set_file_descriptor", "set_event_flags"},
               Call(op, e), UNCHANGED silent
        PROVE  EventInv'
    BY <1>4, CallStep
  <1>5. QED
    BY <1>1, <1>2, <1>3, <1>4 DEF TimerCalls, SignalCalls, IdleCalls, IoCalls, AsyncCalls

LEMMA InitEventInv == Init => EventInv
  <1> SUFFICES ASSUME Init PROVE EventInv
    OBVIOUS
  <1> USE NoneRule, BackendAssumption, SystemsAssumption DEF BackendAssumption, SystemsAssumption
  <1>1. PICK s \in Systems : kind = s.kind /\ clock = s.time
               /\ life = [l \in Loops |-> IF l \in s.loops THEN "unmade" ELSE "dead"]
    BY DEF Init
  <1>2. kind \in [Events -> Kinds \cup {None}] /\ clock \in 0..MaxTime /\ life \in [Loops -> {"unmade", "alive", "dead"}]
    BY <1>1
  <1>3. WatcherTypes
    BY <1>2 DEF Init, WatcherTypes
  <1>4. LoopTypes
    BY <1>2 DEF Init, LoopTypes
  <1>5. CallTypes /\ count \in [Events -> Nat]
    BY DEF Init, CallTypes
  <1>6. HomeInv /\ LoopInv /\ SilentInv /\ RestInv /\ IdleInv /\ SendInv
    BY DEF Init, HomeInv, LoopInv, SilentInv, RestInv, IdleInv, SendInv, Dead, Senders
  <1>7. QED
    BY <1>3, <1>4, <1>5, <1>6 DEF EventInv, TypeOK

\* The inductive invariant: where a watcher may be found, what the rest of a call
\* relies on, and how the counter of an async bounds the callbacks to come.
THEOREM EventInvariant == Spec => []EventInv
  <1>1. EventInv /\ [Next]_vars => EventInv'
    <2> SUFFICES ASSUME EventInv, [Next]_vars PROVE EventInv'
      OBVIOUS
    <2>1. CASE User
      BY <2>1, LoopCallStep, EventCallStep, SendStep DEF User
    <2>2. CASE Environment
      BY <2>2, EnvironmentStep
    <2>3. CASE LoopStep
      BY <2>3, LoopRunStep
    <2>4. CASE CallbackReturns
      BY <2>4, ReturnStep
    <2>5. CASE Finish
      BY <2>5, FinishStep
    <2>6. CASE \E t \in Senders : Sending(t)
      BY <2>6, SendingStep
    <2>7. CASE UNCHANGED vars
      <3>1. UNCHANGED <<kind, clock, watchers, loops, place, home, rest, sending, history>>
        BY <2>7 DEF vars
      <3>2. TypeOK'
        BY <3>1 DEF EventInv, TypeOK, WatcherTypes, LoopTypes, CallTypes, watchers, loops, place, sending, history
      <3>3. HomeInv' /\ LoopInv' /\ SilentInv' /\ RestInv'
        BY <3>1 DEF EventInv, HomeInv, LoopInv, SilentInv, RestInv, Dead, watchers, loops, place, sending, history
      <3>4. IdleInv' /\ SendInv'
        BY <3>1 DEF EventInv, IdleInv, SendInv, UnderWay, watchers, place, sending, history
      <3>5. QED
        BY <3>2, <3>3, <3>4 DEF EventInv
    <2>8. QED
      BY <2>1, <2>2, <2>3, <2>4, <2>5, <2>6, <2>7 DEF Next
  <1>2. QED
    BY InitEventInv, <1>1, PTL DEF Spec

\* Types, among them that count_ of an async is never negative: a callback is not
\* counted off that no send has counted on, in any order of sends and stops.
THEOREM TypeCorrect == Spec => []TypeOK
  <1>1. EventInv => TypeOK
    BY DEF EventInv
  <1>2. QED
    BY EventInvariant, <1>1, PTL

\* Events and loops may be destroyed in any order: what a live loop has in its
\* lists or has found is allocated, and of an event that belongs to the loop.
THEOREM NothingDangling == Spec => []NoDangling
  <1>1. EventInv => NoDangling
    BY NoneRule DEF EventInv, NoDangling, HomeInv, LoopInv, Dead
  <1>2. QED
    BY EventInvariant, <1>1, PTL

\* Only ev_run enters a callback, and of an event that it found.
LEMMA CurrentRule ==
  ASSUME [Next]_vars, NEW e \in Events, current # e, current' = e
  PROVE  current' = None \/ Invoke(e)
  <1>1. CASE UNCHANGED current
    BY <1>1
  <1>2. CASE LoopStep
    <2>1. \A f \in Events : Invoke(f) => current' = current \/ current' = f
      BY DEF Invoke
    <2>2. QED
      BY <1>2, <2>1 DEF LoopStep, Top, Poll, PipeClear, PipeScan, Again
  <1>3. CASE CallbackReturns
    BY <1>3 DEF CallbackReturns, Return
  <1>4. CASE User
    <2>1. ASSUME NEW l \in Loops, GetLoop(l) \/ StartLoop(l) \/ StopLoop(l) \/ DestroyLoop(l)
          PROVE  UNCHANGED current
      BY <2>1 DEF GetLoop, StartLoop, StopLoop, DestroyLoop, Run, Break, place
    <2>2. ASSUME NEW f \in Events, NEW op, Call(op, f)
          PROVE  UNCHANGED current
      BY <2>2 DEF Call, place
    <2>3. ASSUME NEW f \in Events, Common(f)
          PROVE  UNCHANGED current
      BY <2>2, <2>3
      DEF Common, Start, Stop, Destroy, Overwrite, Construct, SetLoop, SetLoopInactive, StopFirst, place
    <2>4. ASSUME NEW f \in Events,
                 TimerCalls(f) \/ SignalCalls(f) \/ IdleCalls(f) \/ IoCalls(f) \/ AsyncCalls(f)
          PROVE  UNCHANGED current
      BY <2>2, <2>3, <2>4
      DEF TimerCalls, SignalCalls, IdleCalls, IoCalls, AsyncCalls, SetNumber, StopFirst, place
    <2>5. ASSUME NEW f \in Events, NEW t \in Senders, Send(t, f)
          PROVE  UNCHANGED current
      BY <2>5 DEF Send, place
    <2>6. QED
      BY <1>1, <1>4, <2>1, <2>4, <2>5 DEF User
  <1>5. CASE Environment \/ Finish \/ \E t \in Senders : Sending(t)
    BY <1>1, <1>5
    DEF Environment, Raise, Finish, Sending, SendCount, SendTest, SendLock, SendMark, SendWake, place
  <1>6. QED
    BY <1>1, <1>2, <1>3, <1>4, <1>5 DEF Next, vars, place

\* The callback of an event that its user has stopped is not entered, also when
\* the loop had found the event before.
THEOREM StoppedStaysSilent == Spec => StoppedIsSilent
  <1> DEFINE Silent == \A e \in Events : current # e /\ current' = e => e \notin silent
  <1>1. EventInv /\ [Next]_vars => Silent
    BY CurrentRule, NoneRule DEF EventInv, SilentInv, Invoke
  <1> HIDE DEF Silent
  <1>2. EventInv /\ [Next]_vars => [Silent]_vars
    BY <1>1
  <1>3. Spec => [][Silent]_vars
    BY EventInvariant, <1>2, PTL DEF Spec
  <1>4. QED
    BY <1>3 DEF StoppedIsSilent, Silent

\* An idle event is called only when everything that waits is an idle event.
THEOREM IdleComesLast == Spec => IdleWhenIdle
  <1> DEFINE Last == \A e \in Events : kind[e] = "idle" /\ current # e /\ current' = e =>
                       \A f \in pending : kind[f] = "idle"
  <1>1. EventInv /\ [Next]_vars => Last
    BY CurrentRule, NoneRule DEF EventInv, IdleInv, Invoke
  <1> HIDE DEF Last
  <1>2. EventInv /\ [Next]_vars => [Last]_vars
    BY <1>1
  <1>3. Spec => [][Last]_vars
    BY EventInvariant, <1>2, PTL DEF Spec
  <1>4. QED
    BY <1>3 DEF IdleWhenIdle, Last

=============================================================================
