------------------------------- MODULE Sockets -------------------------------
(***************************************************************************)
(* basic_socket, basic_stream_socket and basic_socket_acceptor, on the     *)
(* thread that runs their loop: which descriptors they own, what their io  *)
(* event watches, the endpoints they remember, and their callbacks.        *)
(*                                                                         *)
(* Calls are made from outside of the loop and from the callbacks.  A call *)
(* that throws and leaves everything as it was is no step.  Obligations of *)
(* the caller: a socket that is open is not opened again, and nothing but  *)
(* start(), which needs a descriptor, is called in vain; and those of an   *)
(* object that was made from a native handle, which stand at ConstructFrom *)
(* below.  close() does not fail: it has no reason to for an open socket.  *)
(***************************************************************************)
EXTENDS SocketOps

CONSTANTS
  Streams,     \* the stream sockets
  Acceptors,
  OwnNames,    \* the endpoints that are bound
  MaxAlive     \* bound: so many objects are made, and accept() may add one

Objects == Streams \cup Acceptors

ASSUME ObjectsAssumption == Streams \cap Acceptors = {}

VARIABLES
  object,     \* the members of the objects, by name
  current,    \* the object whose callback runs, or None
  terminated, \* std::terminate was called
  lost,       \* history: open descriptors that an object let go of
  shared,     \* history: descriptors that were given to one more object
  wanted      \* history: the sockets for which a readable callback was given

vars == <<kernel, object, current, terminated, lost, shared, wanted>>

\* Of an object: its descriptor and that of its event, whether the event is
\* active, watches for event_read and calls event_callback(), and whether there
\* is a callback of the user.
Absent ==
  [alive |-> FALSE, handle |-> None, fd |-> None, active |-> FALSE, reads |-> FALSE,
   bound |-> FALSE, callback |-> FALSE, local |-> NoEndpoint, remote |-> NoEndpoint]

Init ==
  /\ KernelInit
  /\ object = [o \in Objects |-> Absent]
  /\ current = None /\ terminated = FALSE
  /\ lost = {} /\ shared = {} /\ wanted = {}

Alive(o) == object[o].alive /\ ~terminated
IsOpen(o) == object[o].handle # None

\* The objects that have a descriptor.
Owners(h) == {o \in Objects : object[o].handle = h}

\* Obligation of the caller: an object is not destroyed, nor moved, nor its
\* callback replaced, while the callback runs.
Unused(o) == o # current

\* A member function that only changes the members of o.
Assign(o, members) ==
  /\ object' = [object EXCEPT ![o] = members]
  /\ UNCHANGED <<kernel, current, terminated, lost, shared, wanted>>

\* A member function that only makes a system call.
Calls(o, call) ==
  /\ Alive(o) /\ IsOpen(o) /\ call
  /\ UNCHANGED <<object, current, terminated, lost, shared, wanted>>

-----------------------------------------------------------------------------
(* Constructors.  A stream socket that is made with a loop only does not   *)
(* install its event_callback(); an acceptor does, and watches for         *)
(* event_read from the start.                                              *)

Made(o) ==
  [Absent EXCEPT !.alive = TRUE, !.bound = o \in Acceptors, !.reads = o \in Acceptors]

Opened(members, h) == [members EXCEPT !.handle = h, !.fd = h]

Alives == {o \in Objects : object[o].alive}

Makes(o) == o \notin Alives /\ ~terminated /\ Cardinality(Alives) < MaxAlive

Construct(o) ==
  /\ Makes(o)
  /\ Assign(o, Made(o))

ConstructOpen(o, h) ==
  /\ Makes(o)
  /\ Socket(h)
  /\ object' = [object EXCEPT ![o] = IF h = None THEN @ ELSE
       [Opened(Made(o), h) EXCEPT !.bound = TRUE]]
  /\ UNCHANGED <<current, terminated, lost, shared, wanted>>

\* Opens, binds, and in an acceptor listens.  The constructor that throws in
\* between has no destructor to close the descriptor.
ConstructBound(o, h, ep) ==
  /\ Makes(o)
  /\ h \in Handles \ open
  /\ open' = open \cup {h}
  /\ \E bound, listens \in BOOLEAN :
       /\ Bind(h, ep, bound)
       /\ o \in Streams => listens
       /\ listening' = IF bound /\ listens /\ o \in Acceptors THEN listening \cup {h} ELSE listening
       /\ IF bound /\ listens
          THEN /\ object' = [object EXCEPT ![o] = [Opened(Made(o), h) EXCEPT !.bound = TRUE]]
               /\ UNCHANGED lost
          ELSE lost' = lost \cup {h} /\ UNCHANGED object
  /\ UNCHANGED <<peer, input, broken, current, terminated, shared, wanted>>

\* From the number of a descriptor that is open: of one that an acceptor has, as
\* in examples/socket.cxx, or that an object let go of.  (One that the user has
\* opened itself is as that of ConstructOpen.)  Obligations of the caller: the
\* object is of a kind that suits the descriptor; that of a stream socket, which
\* closes it for an error, is not shared; of the acceptors that share one only
\* one is started, and only the last of them is closed.
ConstructFrom(o, h) ==
  /\ Makes(o)
  /\ \/ h \in lost /\ (h \in listening => o \in Acceptors)
     \/ o \in Acceptors /\ Owners(h) \cap Acceptors # {}
  /\ object' = [object EXCEPT ![o] = [Opened(Made(o), h) EXCEPT !.bound = TRUE]]
  /\ lost' = lost \ {h}
  /\ shared' = IF Owners(h) = {} THEN shared ELSE shared \cup {h}
  /\ UNCHANGED <<kernel, current, terminated, wanted>>

\* A move takes everything along; a stream socket installs its event_callback().
Move(s) ==
  /\ s \in Streams /\ Alive(s) /\ Unused(s)
  /\ Assign(s, [object[s] EXCEPT !.bound = TRUE])

-----------------------------------------------------------------------------
(* open(), close(), bind() and the destructors *)

Open(o, h) ==
  /\ Alive(o) /\ ~IsOpen(o)
  /\ Socket(h)
  /\ object' = [object EXCEPT ![o] = IF h = None THEN @ ELSE Opened(@, h)]
  /\ UNCHANGED <<current, terminated, lost, shared, wanted>>

\* Faulty: forgets to stop the event.
ClosedRunning(members) ==
  [members EXCEPT !.handle = None, !.fd = None, !.local = NoEndpoint, !.remote = NoEndpoint]

\* Faulty: keeps the endpoints.
ClosedNamed(members) == [members EXCEPT !.active = FALSE, !.handle = None, !.fd = None]

Closed(members) ==
  [members EXCEPT !.active = FALSE, !.handle = None, !.fd = None,
                  !.local = NoEndpoint, !.remote = NoEndpoint]

Close(o) ==
  /\ Alive(o) /\ IsOpen(o) /\ Owners(object[o].handle) = {o}
  /\ CloseHandle(object[o].handle)
  /\ object' = [object EXCEPT ![o] = Closed(@)]
  /\ shared' = shared \ {object[o].handle}
  /\ UNCHANGED <<current, terminated, lost, wanted>>

\* bind() opens if need be, and what it has opened stays open when it throws.
BindTo(o, h, ep) ==
  /\ Alive(o)
  /\ IF IsOpen(o)
     THEN h = object[o].handle /\ UNCHANGED <<open, object>>
     ELSE /\ h \in Handles \ open /\ open' = open \cup {h}
          /\ object' = [object EXCEPT ![o] = Opened(@, h)]
  /\ \E succeeds \in BOOLEAN : Bind(h, ep, succeeds)
  /\ UNCHANGED <<listening, peer, input, broken, current, terminated, lost, shared, wanted>>

\* The destructor of a stream socket closes it.
DestroyStream(s) ==
  /\ s \in Streams /\ Alive(s) /\ Unused(s)
  /\ IF IsOpen(s) THEN CloseHandle(object[s].handle) ELSE UNCHANGED kernel
  /\ object' = [object EXCEPT ![s] = Absent]
  /\ wanted' = wanted \ {s}
  /\ UNCHANGED <<current, terminated, lost, shared>>

\* An acceptor has no destructor: its descriptor stays open.
DestroyAcceptor(a) ==
  /\ a \in Acceptors /\ Alive(a) /\ Unused(a)
  /\ IF IsOpen(a) /\ Owners(object[a].handle) = {a}
     THEN lost' = lost \cup {object[a].handle} /\ shared' = shared \ {object[a].handle}
     ELSE UNCHANGED <<lost, shared>>
  /\ object' = [object EXCEPT ![a] = Absent]
  /\ wanted' = wanted \ {a}
  /\ UNCHANGED <<kernel, current, terminated>>

-----------------------------------------------------------------------------
(* Other calls *)

\* Obligation of the caller: start() is for a socket that is open, and no other
\* that shares its descriptor is started.
Start(o) ==
  /\ Alive(o) /\ IsOpen(o)
  /\ \A p \in Owners(object[o].handle) : object[p].active => p = o
  /\ Assign(o, [object[o] EXCEPT !.active = TRUE])

Stop(o) == Alive(o) /\ Assign(o, [object[o] EXCEPT !.active = FALSE])

\* Asks the kernel as long as the endpoint that is kept is unspecified.
LocalEndpoint(o) ==
  /\ Alive(o) /\ IsOpen(o)
  /\ EndpointUnspecified(object[o].local)
  /\ Assign(o, [object[o] EXCEPT !.local = name[object[o].handle]])

\* Only of a socket that is connected, and was not reset.
RemoteEndpoint(s) ==
  /\ s \in Streams /\ Alive(s) /\ IsOpen(s)
  /\ EndpointUnspecified(object[s].remote)
  /\ peer[object[s].handle] # NoEndpoint /\ object[s].handle \notin broken
  /\ Assign(s, [object[s] EXCEPT !.remote = peer[object[s].handle]])

\* Faulty: the flag is not set.
SetReadableUnarmed(s) ==
  /\ s \in Streams /\ Alive(s) /\ Unused(s) /\ ~object[s].active
  /\ object' = [object EXCEPT ![s].callback = TRUE]
  /\ wanted' = wanted \cup {s}
  /\ UNCHANGED <<kernel, current, terminated, lost, shared>>

\* Obligation of the caller: libev does not notice a new flag of a watcher that
\* is active, so the callback is set before start().
SetReadable(s) ==
  /\ s \in Streams /\ Alive(s) /\ Unused(s) /\ ~object[s].active
  /\ object' = [object EXCEPT ![s].callback = TRUE, ![s].reads = TRUE]
  /\ wanted' = wanted \cup {s}
  /\ UNCHANGED <<kernel, current, terminated, lost, shared>>

\* With no callback only the flag is cleared.
ClearReadable(s) ==
  /\ s \in Streams /\ Alive(s)
  /\ object' = [object EXCEPT ![s].reads = FALSE]
  /\ wanted' = wanted \ {s}
  /\ UNCHANGED <<kernel, current, terminated, lost, shared>>

\* The writable callback sets the flag for reading: it is never called, for
\* event_write is not watched for.  Obligation of the caller: it is not
\* cleared, for that would take the flag from the readable callback.
SetWritable(s) ==
  /\ s \in Streams /\ Alive(s) /\ Unused(s) /\ ~object[s].active
  /\ Assign(s, [object[s] EXCEPT !.reads = TRUE])

SetConnection(a) ==
  /\ a \in Acceptors /\ Alive(a) /\ Unused(a)
  /\ \E given \in BOOLEAN :
       /\ object' = [object EXCEPT ![a].callback = given]
       /\ wanted' = IF given THEN wanted \cup {a} ELSE wanted \ {a}
  /\ UNCHANGED <<kernel, current, terminated, lost, shared>>

\* The socket that accept() returns.
Accepted(h) ==
  [Opened(Made(CHOOSE s \in Streams : TRUE), h) EXCEPT !.bound = TRUE, !.remote = peer'[h]]

\* accept(), called by the user, who handles the error.
AcceptCall(a, s, h) ==
  /\ Alive(a) /\ IsOpen(a) /\ ~object[s].alive
  /\ Accept(object[a].handle, h)
  /\ object' = [object EXCEPT ![s] = IF h = None THEN @ ELSE Accepted(h)]
  /\ UNCHANGED <<current, terminated, lost, shared, wanted>>

\* The peer is remembered when the call has succeeded.
ConnectTo(s, there) ==
  /\ s \in Streams /\ Alive(s) /\ IsOpen(s)
  /\ \E blocks \in BOOLEAN :
       /\ Connect(object[s].handle, there, blocks)
       /\ object' = [object EXCEPT ![s].remote = IF blocks THEN there ELSE @]
  /\ UNCHANGED <<current, terminated, lost, shared, wanted>>

SocketCalls(o, h) ==
  \/ Calls(o, Listen(h) /\ o \in Acceptors /\ name[h] # NoEndpoint)
  \/ Calls(o, o \in Streams /\ (Shutdown(h) \/ Receive(h)))

-----------------------------------------------------------------------------
(* The loop *)

\* An event is due: its callback is called when no other one runs.
Due(o) ==
  /\ ~terminated /\ current = None
  /\ object[o].active /\ object[o].bound /\ object[o].reads
  /\ object[o].fd \in input \cup broken

\* event_callback() of a stream socket: closes it when there is an error.  An
\* event_error means that the descriptor was closed by others, and is left out.
StreamEvent(s) ==
  /\ s \in Streams /\ Due(s)
  /\ IF IntegerValue(GetError(object[s].handle)) # 0
     THEN /\ CloseHandle(object[s].handle)
          /\ object' = [object EXCEPT ![s] = Closed(@)]
          /\ UNCHANGED current
     ELSE /\ current' = IF object[s].callback THEN s ELSE None
          /\ UNCHANGED <<kernel, object>>
  /\ UNCHANGED <<terminated, lost, shared, wanted>>

\* event_callback() of an acceptor: the socket it has accepted is closed when
\* there is no callback, or an error already; otherwise the callback gets it.
\* When accept() fails its exception meets io_callback(), which is noexcept.
AcceptEvent(a, s, h) ==
  /\ a \in Acceptors /\ Due(a) /\ ~object[s].alive
  /\ IF h = None
     THEN /\ Accept(object[a].handle, None)
          /\ terminated' = TRUE
          /\ UNCHANGED <<object, current>>
     ELSE /\ UNCHANGED terminated
          /\ \E failed \in BOOLEAN :
               IF failed \/ ~object[a].callback
               THEN /\ input' \in {input, input \ {object[a].handle}}
                    /\ h \in Handles \ open
                    /\ UNCHANGED <<open, listening, name, peer, broken, object, current>>
               ELSE /\ Accept(object[a].handle, h)
                    /\ object' = [object EXCEPT ![s] = Accepted(h)]
                    /\ current' = a
  /\ UNCHANGED <<lost, shared, wanted>>

CallbackReturns ==
  /\ current # None /\ ~terminated
  /\ current' = None
  /\ UNCHANGED <<kernel, object, terminated, lost, shared, wanted>>

\* Bound: when accept() has added a stream socket to MaxAlive others, only
\* the acceptors are called until one of them is gone, and peers do nothing.
Crowded == Cardinality(Alives) > MaxAlive

\* What peers do to a descriptor that was lost is of no interest.
Environment ==
  /\ ~terminated /\ ~Crowded
  /\ \E h \in Handles \ lost : PeerActs(h)
  /\ UNCHANGED <<object, current, terminated, lost, shared, wanted>>

MemberCalls(o) ==
  \/ Construct(o) \/ Move(o) \/ Close(o) \/ DestroyStream(o) \/ DestroyAcceptor(o)
  \/ Start(o) \/ Stop(o) \/ LocalEndpoint(o) \/ RemoteEndpoint(o)
  \/ SetReadable(o) \/ ClearReadable(o) \/ SetWritable(o) \/ SetConnection(o)
  \/ SocketCalls(o, object[o].handle)
  \/ \E h \in Handles \cup {None} : ConstructOpen(o, h) \/ Open(o, h)
  \/ \E h \in Handles : ConstructFrom(o, h)
  \/ \E there \in PeerNames : ConnectTo(o, there)
  \/ \E h \in Handles, ep \in OwnNames : ConstructBound(o, h, ep) \/ BindTo(o, h, ep)
  \/ \E s \in Streams, h \in Handles \cup {None} : o \in Acceptors /\ AcceptCall(o, s, h)

User(o) == MemberCalls(o) /\ (Crowded => o \in Acceptors)

Event(o) ==
  \/ StreamEvent(o)
  \/ \E s \in Streams, h \in Handles \cup {None} : AcceptEvent(o, s, h)

Next ==
  \/ Environment \/ CallbackReturns
  \/ \E o \in Objects : User(o) \/ Event(o)

Spec == Init /\ [][Next]_vars

\* A callback returns after finitely many calls, and ev_run invokes all events
\* it has found before it looks for others.
FairSpec ==
  /\ Spec /\ WF_vars(CallbackReturns)
  /\ \A o \in Objects : SF_vars(Event(o))

-----------------------------------------------------------------------------
(* Properties *)

\* Type invariant.
TypeOK ==
  /\ open \subseteq Handles /\ listening \subseteq open
  /\ input \subseteq open /\ broken \subseteq open
  /\ lost \subseteq Handles /\ shared \subseteq open
  /\ \A h \in Handles : name[h] \in OwnNames \cup {NoEndpoint} /\ peer[h] \in PeerNames \cup {NoEndpoint}
  /\ \A o \in Objects :
       /\ object[o].handle \in Handles \cup {None} /\ object[o].fd \in Handles \cup {None}
       /\ \A m \in {"alive", "active", "reads", "bound", "callback"} : object[o][m] \in BOOLEAN
  /\ current \in Objects \cup {None} /\ terminated \in BOOLEAN /\ wanted \subseteq Objects

\* Every open descriptor has an owner, which can close it, and no object has one
\* that is closed, which might be another's by now.  Lost are those of a
\* constructor that threw after it had opened, and of acceptors that are gone,
\* until another is made from them.  There are two owners only of a descriptor
\* whose native handle the user has given to a second acceptor.
DescriptorsOwned ==
  \A h \in Handles :
    /\ h \in open => (h \in lost) # (Owners(h) # {})
    /\ \A o, p \in Owners(h) : h \in open /\ (o = p \/ ({o, p} \subseteq Acceptors /\ h \in shared))

\* An event that is active watches the descriptor of its own socket, which is
\* open: whatever was closed, moved, and opened again under the same number.
WatchesOwn ==
  \A o \in Objects : object[o].active =>
    object[o].fd \in open /\ object[o].fd = object[o].handle

\* An endpoint that a socket remembers is the one that the kernel knows.
NamesFresh ==
  \A o \in Objects :
    /\ ~EndpointUnspecified(object[o].local) =>
         IsOpen(o) /\ object[o].local = name[object[o].handle]
    /\ ~EndpointUnspecified(object[o].remote) =>
         IsOpen(o) /\ object[o].remote = peer[object[o].handle]

Waits(o) == o \in wanted /\ object[o].active /\ object[o].fd \in input

Full == Handles = open \/ \A s \in Streams : object[s].alive

\* Input, and connections, reach the callback that was given for them, unless
\* the socket is stopped or fails, there is no room for one more connection, or
\* the acceptor has failed, which ends the program.  A socket that was made with
\* nothing but its loop, and not moved since, has no event_callback() that would
\* call it: its input is never answered.
InputAnswered ==
  \A o \in Objects :
    Waits(o) ~> \/ current = o \/ ~Waits(o) \/ terminated
                \/ o \in Acceptors /\ Full
                \/ ~object[o].bound

\* Without the last exception this does not hold.
AllInputAnswered ==
  \A o \in Objects :
    Waits(o) ~> current = o \/ ~Waits(o) \/ terminated \/ (o \in Acceptors /\ Full)

=============================================================================
