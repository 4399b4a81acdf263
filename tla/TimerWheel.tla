----------------------------- MODULE TimerWheel -----------------------------
(***************************************************************************)
(* basic_timer_wheel: many requests served by one repeating timer.  A map  *)
(* holds the requests by id, a multimap the same requests by the expiry    *)
(* they had when they were entered.  reset() changes the request and not   *)
(* the key; bookkeeper(), the callback of the timer, finds keys that are   *)
(* out of date and enters those requests again.                            *)
(*                                                                         *)
(* All calls are made by the thread of the loop, from outside of it or     *)
(* from the callback of a request: in the middle of the bookkeeper's walk. *)
(* The timer may tick at any time while it is active: how late a tick may  *)
(* be is the business of the loop (EventLoop.tla).                         *)
(***************************************************************************)
EXTENDS Integers, Sequences

CONSTANTS
  MaxRequests,  \* bound: calls of post()
  Timeouts,     \* the timeouts asked for
  MaxTime,      \* bound: the clock
  LastCall,     \* bound: nobody calls the wheel later than this
  Wheels,       \* the objects a wheel is moved between
  None

ASSUME ConstantsAssumption ==
  /\ MaxRequests \in Nat /\ MaxTime \in Nat /\ LastCall \in Nat
  /\ Timeouts \subseteq Nat
  /\ None \notin Wheels \cup Nat

VARIABLES
  clock,     \* steady_clock
  nextId,    \* request_id_
  requests,  \* requests: a function from the ids in the map to requests
  entries,   \* time_hierarchy: pairs of key and id, by key
  active,    \* the timer is
  target,    \* the object its callback calls
  holder,    \* the object that has the impl_, or None
  place,     \* of the thread: "out", "walk", "callback", "terminated"
  cursor,    \* the iterator of bookkeeper(): an id, or None at the end
  walkTime,  \* now of bookkeeper()
  fired,     \* history: how often a request was processed
  halted     \* history: stop() is the last that was said to the timer

wheel == <<nextId, requests, entries>>
timer == <<active, target, holder>>
walk == <<cursor, walkTime>>
vars == <<clock, wheel, timer, place, walk, fired, halted>>

Ids == 0..(MaxRequests - 1)

IdOf(e) == e[2]

\* multimap::upper_bound: the first entry of a later key, or the end.
UpperBound(es, key) ==
  CHOOSE i \in 1..Len(es) + 1 :
    /\ i <= Len(es) => es[i][1] > key
    /\ \A j \in 1..i - 1 : es[j][1] <= key

\* multimap::emplace: behind all entries of the same key.
Emplace(es, key, id) ==
  LET at == UpperBound(es, key) IN
    [i \in 1..Len(es) + 1 |->
       IF i < at THEN es[i] ELSE IF i = at THEN <<key, id>> ELSE es[i - 1]]

Position(es, id) == CHOOSE i \in DOMAIN es : IdOf(es[i]) = id

Erase(es, id) ==
  LET at == Position(es, id) IN [i \in 1..Len(es) - 1 |-> es[IF i < at THEN i ELSE i + 1]]

\* The iterator that erase() returns.
Following(es, id) ==
  LET i == Position(es, id) IN IF i = Len(es) THEN None ELSE IdOf(es[i + 1])

\* get_absolute_expiry()
AbsoluteExpiry(timeout) == clock + timeout

Request == [timeout : Timeouts, expiry : Nat, cancelled : BOOLEAN]

NewRequest(timeout) ==
  [timeout |-> timeout, expiry |-> AbsoluteExpiry(timeout), cancelled |-> FALSE]

Waiting == DOMAIN requests

\* The timer of a new wheel is set up and not started.
Init ==
  /\ clock = 0
  /\ nextId = 0 /\ requests = [id \in {} |-> {}] /\ entries = <<>>
  /\ active = FALSE
  /\ holder \in Wheels /\ target = holder
  /\ place = "out" /\ cursor = None /\ walkTime = 0
  /\ fired = [id \in Ids |-> 0]
  /\ halted = TRUE

Tick ==
  /\ clock < MaxTime
  /\ clock' = clock + 1
  /\ UNCHANGED <<wheel, timer, place, walk, fired, halted>>

-----------------------------------------------------------------------------
(* The calls of the user, outside of the loop or in a callback. *)

Calling == place \in {"out", "callback"} /\ holder # None /\ clock <= LastCall

\* start() once there are requests; set_timeout(0) is not considered.
ArmIf(needed) == active' = (active \/ needed)

Start ==
  /\ Calling
  /\ ArmIf(Waiting # {})
  /\ halted' = (halted /\ Waiting = {})
  /\ UNCHANGED <<clock, wheel, target, holder, place, walk, fired>>

Stop ==
  /\ Calling
  /\ active' = FALSE
  /\ halted' = TRUE
  /\ UNCHANGED <<clock, wheel, target, holder, place, walk, fired>>

\* post() enters the request in both maps and starts the timer, also one that
\* was stopped.
Post(timeout) ==
  /\ Calling
  /\ nextId < MaxRequests
  /\ LET r == NewRequest(timeout) IN
       /\ requests' = [id \in Waiting \cup {nextId} |-> IF id = nextId THEN r ELSE requests[id]]
       /\ entries' = Emplace(entries, r.expiry, nextId)
  /\ nextId' = nextId + 1
  /\ ArmIf(TRUE)
  /\ halted' = FALSE
  /\ UNCHANGED <<clock, target, holder, place, walk, fired>>

\* An id that is not in the map is an exception to the caller, and the end of
\* the program when the caller is a callback: bookkeeper() is noexcept.
Throw ==
  /\ place' = IF place = "callback" THEN "terminated" ELSE place
  /\ UNCHANGED wheel

Cancel(id) ==
  /\ Calling /\ id < nextId
  /\ IF id \in Waiting
     THEN /\ requests' = [requests EXCEPT ![id].cancelled = TRUE]
          /\ UNCHANGED <<nextId, entries, place>>
     ELSE Throw
  /\ UNCHANGED <<clock, timer, walk, fired, halted>>

\* reset() postpones the request and leaves the key behind.
Reset(id) ==
  /\ Calling /\ id < nextId
  /\ IF id \in Waiting
     THEN /\ requests' = [requests EXCEPT ![id].expiry = AbsoluteExpiry(requests[id].timeout)]
          /\ UNCHANGED <<nextId, entries, place>>
     ELSE Throw
  /\ UNCHANGED <<clock, timer, walk, fired, halted>>

\* A move rebinds the callback of the timer to the new object.  (To move the
\* wheel in a callback would delete the function that is running.)
Move(w) ==
  /\ Calling /\ place = "out" /\ w # holder
  /\ holder' = w /\ target' = w
  /\ UNCHANGED <<clock, wheel, active, place, walk, fired, halted>>

Destroy ==
  /\ Calling /\ place = "out"
  /\ active' = FALSE /\ holder' = None
  /\ halted' = TRUE
  /\ UNCHANGED <<clock, wheel, target, place, walk, fired>>

-----------------------------------------------------------------------------
(* bookkeeper() *)

WalkBegin ==
  /\ place = "out" /\ active
  /\ place' = "walk"
  /\ walkTime' = clock
  /\ cursor' = IF entries = <<>> THEN None ELSE IdOf(Head(entries))
  /\ UNCHANGED <<clock, wheel, timer, fired, halted>>

KeyAt(id) == entries[Position(entries, id)][1]
Stale(id) == requests[id].expiry # KeyAt(id)

\* Faulty: the key decides before the expiry is looked at.
DueByKey(id) == KeyAt(id) <= walkTime

Due(id) == ~Stale(id) /\ KeyAt(id) <= walkTime

At(id) == place = "walk" /\ cursor = id /\ id # None

\* Faulty: an entry that is out of date is erased and not entered again.
WalkStaleDrops(id) ==
  /\ At(id) /\ Stale(id)
  /\ entries' = Erase(entries, id)
  /\ cursor' = Following(entries, id)
  /\ UNCHANGED <<clock, nextId, requests, timer, place, walkTime, fired, halted>>

\* An entry out of date is entered anew, and the walk goes on from there: what
\* it passes over waits for the next tick.
WalkStale(id) ==
  /\ At(id) /\ Stale(id)
  /\ entries' = Emplace(Erase(entries, id), requests[id].expiry, id)
  /\ UNCHANGED <<clock, nextId, requests, timer, place, walk, fired, halted>>

\* process(), unless cancelled.
WalkDue(id) ==
  /\ At(id) /\ Due(id) /\ ~requests[id].cancelled
  /\ place' = "callback"
  /\ fired' = [fired EXCEPT ![id] = @ + 1]
  /\ UNCHANGED <<clock, wheel, timer, walk, halted>>

\* Faulty: the request is erased from the hierarchy only if it was processed.
RemoveProcessed(id) ==
  /\ requests' = [i \in Waiting \ {id} |-> requests[i]]
  /\ entries' = IF requests[id].cancelled THEN entries ELSE Erase(entries, id)
  /\ cursor' = Following(entries, id)
  /\ UNCHANGED nextId

\* The request leaves both maps, also one that its callback has reset.
Remove(id) ==
  /\ requests' = [i \in Waiting \ {id} |-> requests[i]]
  /\ entries' = Erase(entries, id)
  /\ cursor' = Following(entries, id)
  /\ UNCHANGED nextId

CallbackReturns ==
  /\ place = "callback"
  /\ place' = "walk"
  /\ Remove(cursor)
  /\ UNCHANGED <<clock, timer, walkTime, fired, halted>>

WalkCancelled(id) ==
  /\ At(id) /\ Due(id) /\ requests[id].cancelled
  /\ Remove(id)
  /\ UNCHANGED <<clock, timer, place, walkTime, fired, halted>>

\* Faulty: the timer is stopped when the walk has reached its end.
WalkEndEager ==
  /\ place = "walk"
  /\ cursor = None \/ (cursor # None /\ ~Stale(cursor) /\ ~Due(cursor))
  /\ place' = "out"
  /\ cursor' = None /\ walkTime' = 0
  /\ active' = (active /\ cursor # None)
  /\ UNCHANGED <<clock, wheel, target, holder, fired, halted>>

\* At the end, or at an entry of the future; the timer stops with the last entry.
WalkEnd ==
  /\ place = "walk"
  /\ cursor = None \/ (cursor # None /\ ~Stale(cursor) /\ ~Due(cursor))
  /\ place' = "out"
  /\ cursor' = None /\ walkTime' = 0
  /\ active' = (active /\ entries # <<>>)
  /\ UNCHANGED <<clock, wheel, target, holder, fired, halted>>

Bookkeeper ==
  \/ WalkBegin \/ CallbackReturns \/ WalkEnd
  \/ \E id \in Ids : WalkStale(id) \/ WalkDue(id) \/ WalkCancelled(id)

User ==
  \/ Start \/ Stop \/ Destroy
  \/ \E timeout \in Timeouts : Post(timeout)
  \/ \E id \in Ids : Cancel(id) \/ Reset(id)
  \/ \E w \in Wheels : Move(w)

Next == Tick \/ Bookkeeper \/ User

Spec == Init /\ [][Next]_vars

\* The clock goes on, the loop runs and the callbacks return.
FairSpec == Spec /\ WF_vars(Tick) /\ WF_vars(Bookkeeper)

-----------------------------------------------------------------------------
(* Properties *)

\* Type invariant.
TypeOK ==
  /\ clock \in 0..MaxTime /\ walkTime \in 0..MaxTime
  /\ nextId \in 0..MaxRequests
  /\ Waiting \subseteq 0..(nextId - 1)
  /\ requests \in [Waiting -> Request]
  /\ entries \in Seq(Nat \X Ids)
  /\ active \in BOOLEAN /\ halted \in BOOLEAN
  /\ target \in Wheels /\ holder \in Wheels \cup {None}
  /\ place \in {"out", "walk", "callback", "terminated"}
  /\ cursor \in Ids \cup {None}
  /\ fired \in [Ids -> Nat]

\* The two maps hold the same requests, the hierarchy each of them once, in the
\* order of its keys, and under a key that is never later than the expiry: or
\* the walk would break off before a request that is due.
MapsAgree ==
  /\ {IdOf(entries[i]) : i \in DOMAIN entries} = Waiting
  /\ \A i, j \in DOMAIN entries : i < j =>
       entries[i][1] <= entries[j][1] /\ IdOf(entries[i]) # IdOf(entries[j])
  /\ \A i \in DOMAIN entries : entries[i][1] <= requests[IdOf(entries[i])].expiry

\* The timer runs whenever a request waits, unless it was stopped by a call
\* after the last post(), and it calls the object that has the requests.
ArmedWhileNeeded ==
  /\ Waiting # {} /\ ~halted => active
  /\ active => target = holder

\* A request is processed once, at or after the time its last reset() gave it,
\* and not after cancel().
FiresInTime ==
  [][\A id \in Ids : fired'[id] # fired[id] =>
       /\ fired[id] = 0 /\ fired'[id] = 1
       /\ id \in Waiting /\ ~requests[id].cancelled
       /\ clock >= requests[id].expiry]_vars

\* Every request leaves the wheel, processed or cancelled, however often others
\* are reset and skipped over, unless the wheel is stopped or a callback throws.
EveryRequestEnds ==
  \A id \in Ids : id \in Waiting ~> (id \notin Waiting \/ halted \/ place = "terminated")

\* cancel() of an id that was given out is harmless wherever it is called.
CancelIsHarmless == place # "terminated"

=============================================================================
