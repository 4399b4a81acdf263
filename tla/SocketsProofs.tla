---------------------------- MODULE SocketsProofs ----------------------------
(***************************************************************************)
(* Proofs about Sockets, for any number of sockets, acceptors and          *)
(* descriptors, and about the conversions of Endpoints, for all bytes.     *)
(***************************************************************************)
EXTENDS Sockets, TLAPS

OwnOrNone == OwnNames \cup {NoEndpoint}
PeerOrNone == PeerNames \cup {NoEndpoint}

Members ==
  [alive : BOOLEAN, handle : Handles \cup {None}, fd : Handles \cup {None}, active : BOOLEAN,
   reads : BOOLEAN, bound : BOOLEAN, callback : BOOLEAN, local : OwnOrNone, remote : PeerOrNone]

SystemInv ==
  /\ open \subseteq Handles /\ listening \subseteq open
  /\ input \subseteq open /\ broken \subseteq open
  /\ current \in Objects \cup {None} /\ terminated \in BOOLEAN /\ wanted \subseteq Objects

KernelInv == name \in [Handles -> OwnOrNone] /\ peer \in [Handles -> PeerOrNone]

\* The event of an object is given each descriptor that the object has, and it
\* is stopped when the object lets go of it; what is not alive has none.
ObjectInv ==
  /\ object \in [Objects -> Members]
  /\ \A o \in Objects :
       /\ object[o].fd = object[o].handle
       /\ object[o].active => object[o].handle # None
       /\ object[o].handle # None => object[o].alive

\* A descriptor is open while an object has it, and then it has no other owner,
\* unless it is shared, which only those of acceptors are; those that were lost
\* stay open, so their numbers do not return.
OwnerInv ==
  /\ lost \subseteq open /\ shared \subseteq open \ lost
  /\ \A o \in Objects :
       /\ object[o].handle # None => object[o].handle \in open \ lost
       /\ object[o].handle \in shared => o \in Acceptors
  /\ \A o, p \in Objects :
       object[o].handle = object[p].handle /\ object[o].handle # None =>
         o = p \/ object[o].handle \in shared
  /\ \A h \in open \ lost : \E o \in Objects : object[o].handle = h

SocketInv == SystemInv /\ KernelInv /\ ObjectInv /\ OwnerInv /\ NamesFresh

-----------------------------------------------------------------------------
(* What an object remembers, and what the kernel knows *)

\* An endpoint that is not set is unspecified.
LEMMA NoName == EndpointUnspecified(NoEndpoint)
  BY DEF EndpointUnspecified, GetAddress, NoEndpoint, NoAddress, Address, IsUnspecified

Fresh(members, names, peers) ==
  /\ ~EndpointUnspecified(members.local) =>
       members.handle # None /\ members.local = names[members.handle]
  /\ ~EndpointUnspecified(members.remote) =>
       members.handle # None /\ members.remote = peers[members.handle]

\* The kernel changes a name or a peer of a descriptor only for its owner, or
\* when there was none.
Spares(o, before, after) ==
  \A h \in Handles :
    after[h] = before[h] \/ before[h] = NoEndpoint \/ \A p \in Objects \ {o} : object[p].handle # h

\* A step that gives an object new members leaves what the others remember true.
LEMMA NewMembers ==
  ASSUME KernelInv, ObjectInv, NamesFresh, NEW o \in Objects, NEW r \in Members,
         object' = [object EXCEPT ![o] = r],
         r.fd = r.handle, r.active => r.handle # None, r.handle # None => r.alive,
         Spares(o, name, name'), Spares(o, peer, peer'), Fresh(r, name', peer')
  PROVE  /\ ObjectInv' /\ NamesFresh'
         /\ object'[o] = r /\ \A p \in Objects \ {o} : object'[p] = object[p]
  <1>1. object'[o] = r /\ \A p \in Objects \ {o} : object'[p] = object[p]
    BY DEF ObjectInv
  <1>2. ObjectInv'
    BY <1>1 DEF ObjectInv
  <1>3. NamesFresh'
    <2> SUFFICES ASSUME NEW p \in Objects
                 PROVE  Fresh(object'[p], name', peer')
      BY DEF NamesFresh, Fresh, IsOpen
    <2>1. CASE p = o
      BY <2>1, <1>1
    <2>2. CASE p # o
      <3>1. object'[p] = object[p] /\ Fresh(object[p], name, peer)
        BY <2>2, <1>1 DEF NamesFresh, Fresh, IsOpen
      <3>2. object[p].handle \in Handles \cup {None}
        BY DEF ObjectInv, Members
      <3>3. ~EndpointUnspecified(object[p].local) => name'[object[p].handle] = name[object[p].handle]
        BY <2>2, <3>1, <3>2, NoName DEF Fresh, Spares
      <3>4. ~EndpointUnspecified(object[p].remote) => peer'[object[p].handle] = peer[object[p].handle]
        BY <2>2, <3>1, <3>2, NoName DEF Fresh, Spares
      <3>5. QED
        BY <3>1, <3>3, <3>4 DEF Fresh
    <2>3. QED
      BY <2>1, <2>2
  <1>4. QED
    BY <1>1, <1>2, <1>3

\* A step of the kernel alone.
LEMMA SameObjects ==
  ASSUME KernelInv, ObjectInv, NamesFresh, object' = object,
         \A h \in Handles : name'[h] = name[h] \/ name[h] = NoEndpoint \/ h \notin open,
         \A h \in Handles : peer'[h] = peer[h] \/ peer[h] = NoEndpoint \/ h \notin open,
         OwnerInv
  PROVE  ObjectInv' /\ NamesFresh'
  <1>1. ObjectInv'
    BY DEF ObjectInv
  <1>2. ASSUME NEW p \in Objects
        PROVE  Fresh(object[p], name', peer')
    <2>1. Fresh(object[p], name, peer) /\ object[p].handle \in Handles \cup {None}
      BY DEF NamesFresh, Fresh, IsOpen, ObjectInv, Members
    <2>2. object[p].handle # None => object[p].handle \in open
      BY DEF OwnerInv
    <2>3. ~EndpointUnspecified(object[p].local) => name'[object[p].handle] = name[object[p].handle]
      BY <2>1, <2>2, NoName DEF Fresh
    <2>4. ~EndpointUnspecified(object[p].remote) => peer'[object[p].handle] = peer[object[p].handle]
      BY <2>1, <2>2, NoName DEF Fresh
    <2>5. QED
      BY <2>1, <2>3, <2>4 DEF Fresh
  <1>3. QED
    BY <1>1, <1>2 DEF NamesFresh, Fresh, IsOpen

-----------------------------------------------------------------------------
(* The owners of descriptors *)

\* Nobody opens, closes or loses a descriptor.
LEMMA OwnersStay ==
  ASSUME OwnerInv, open' = open, lost' = lost, shared' = shared,
         \A o \in Objects : object'[o].handle = object[o].handle
  PROVE  OwnerInv'
  BY DEF OwnerInv

\* An object gets a descriptor that was not open.
LEMMA OwnerAdded ==
  ASSUME OwnerInv, open \subseteq Handles, NEW o \in Objects, NEW h \in Handles \ open,
         object[o].handle = None, object'[o].handle = h,
         \A p \in Objects \ {o} : object'[p].handle = object[p].handle,
         open' = open \cup {h}, lost' = lost, shared' = shared
  PROVE  OwnerInv'
  <1>1. h # None
    BY HandlesAssumption DEF HandlesAssumption
  <1>2. \A p \in Objects \ {o} : object'[p].handle # h
    BY <1>1 DEF OwnerInv
  <1>3. lost' \subseteq open' /\ shared' \subseteq open' \ lost' /\ h \notin shared
    BY DEF OwnerInv
  <1>4. \A p \in Objects :
          /\ object'[p].handle # None => object'[p].handle \in open' \ lost'
          /\ object'[p].handle \in shared' => p \in Acceptors
    BY <1>1, <1>3 DEF OwnerInv
  <1>5. \A p, q \in Objects :
          object'[p].handle = object'[q].handle /\ object'[p].handle # None =>
            p = q \/ object'[p].handle \in shared'
    BY <1>2 DEF OwnerInv
  <1>6. \A k \in open' \ lost' : \E p \in Objects : object'[p].handle = k
    <2> SUFFICES ASSUME NEW k \in open' \ lost' PROVE \E p \in Objects : object'[p].handle = k
      OBVIOUS
    <2>1. CASE k = h
      BY <2>1
    <2>2. CASE k # h
      <3>1. PICK p \in Objects : object[p].handle = k
        BY <2>2 DEF OwnerInv
      <3>2. p # o
        BY <3>1, <2>2, HandlesAssumption DEF OwnerInv, HandlesAssumption
      <3>3. QED
        BY <3>1, <3>2
    <2>3. QED
      BY <2>1, <2>2
  <1>7. QED
    BY <1>3, <1>4, <1>5, <1>6 DEF OwnerInv

\* The only one that has a descriptor.
Alone(o) == \A p \in Objects \ {o} : object[p].handle # object[o].handle

\* The only object that has a descriptor lets go of it: it is closed, or lost.
LEMMA OwnerGone ==
  ASSUME OwnerInv, open \subseteq Handles, NEW o \in Objects, object'[o].handle = None,
         object[o].handle # None, Alone(o),
         \A p \in Objects \ {o} : object'[p].handle = object[p].handle,
         \/ open' = open \ {object[o].handle} /\ lost' = lost
         \/ open' = open /\ lost' = lost \cup {object[o].handle},
         shared' = shared \ {object[o].handle}
  PROVE  OwnerInv'
  <1>1. None \notin open /\ None \notin shared
    BY HandlesAssumption DEF HandlesAssumption, OwnerInv
  <1>2. lost' \subseteq open' /\ shared' \subseteq open' \ lost'
    BY <1>1 DEF OwnerInv
  <1>3. \A p \in Objects \ {o} :
          /\ object[p].handle # None =>
               object[p].handle \in open \ lost /\ object[p].handle # object[o].handle
          /\ object[p].handle \in shared => p \in Acceptors
    BY DEF OwnerInv, Alone
  <1>4. \A p \in Objects :
          /\ object'[p].handle # None => object'[p].handle \in open' \ lost'
          /\ object'[p].handle \in shared' => p \in Acceptors
    BY <1>1, <1>3
  <1>5. \A p, q \in Objects :
          object'[p].handle = object'[q].handle /\ object'[p].handle # None =>
            p = q \/ object'[p].handle \in shared'
    BY <1>3 DEF OwnerInv
  <1>6. \A k \in open' \ lost' : \E p \in Objects : object'[p].handle = k
    <2> SUFFICES ASSUME NEW k \in open' \ lost' PROVE \E p \in Objects : object'[p].handle = k
      OBVIOUS
    <2>1. k \in open \ lost /\ k # object[o].handle
      BY <1>1 DEF OwnerInv
    <2>2. PICK p \in Objects : object[p].handle = k
      BY <2>1 DEF OwnerInv
    <2>3. QED
      BY <2>1, <2>2
  <1>7. QED
    BY <1>2, <1>4, <1>5, <1>6 DEF OwnerInv

\* One of those that share a descriptor lets go of it.
LEMMA SharerGone ==
  ASSUME OwnerInv, NEW o \in Objects, object'[o].handle = None, ~Alone(o),
         object[o].handle # None, None \notin shared,
         \A p \in Objects \ {o} : object'[p].handle = object[p].handle,
         open' = open, lost' = lost, shared' = shared
  PROVE  OwnerInv'
  <1>1. \A k \in open' \ lost' : \E p \in Objects : object'[p].handle = k
    <2> SUFFICES ASSUME NEW k \in open' \ lost' PROVE \E p \in Objects : object'[p].handle = k
      OBVIOUS
    <2>1. PICK p \in Objects : object[p].handle = k
      BY DEF OwnerInv
    <2>2. PICK q \in Objects \ {o} : object[q].handle = object[o].handle
      BY DEF Alone
    <2>3. QED
      BY <2>1, <2>2
  <1>2. QED
    BY <1>1 DEF OwnerInv

\* An object is made from the number of an open descriptor: one that was lost, or
\* one of an acceptor.
LEMMA OwnerJoins ==
  ASSUME OwnerInv, open \subseteq Handles, NEW o \in Objects, NEW h \in Handles,
         object[o].handle = None, object'[o].handle = h,
         \A p \in Objects \ {o} : object'[p].handle = object[p].handle,
         h \in lost \/ (o \in Acceptors /\ \E a \in Acceptors : object[a].handle = h),
         open' = open, lost' = lost \ {h},
         shared' = IF \A p \in Objects : object[p].handle # h THEN shared ELSE shared \cup {h}
  PROVE  OwnerInv'
  <1>1. h # None /\ h \in open /\ None \notin open
    BY HandlesAssumption DEF HandlesAssumption, OwnerInv, Objects
  <1>2. CASE h \in lost
    <2>1. \A p \in Objects : object[p].handle # h
      BY <1>1, <1>2 DEF OwnerInv
    <2>2. shared' = shared /\ h \notin shared
      BY <1>2, <2>1 DEF OwnerInv
    <2>3. /\ lost' \subseteq open' /\ shared' \subseteq open' \ lost'
          /\ \A p \in Objects :
               /\ object'[p].handle # None => object'[p].handle \in open' \ lost'
               /\ object'[p].handle \in shared' => p \in Acceptors
      BY <1>1, <2>1, <2>2 DEF OwnerInv
    <2>4. \A p, q \in Objects :
            object'[p].handle = object'[q].handle /\ object'[p].handle # None =>
              p = q \/ object'[p].handle \in shared'
      BY <2>1, <2>2 DEF OwnerInv
    <2>5. \A k \in open' \ lost' : \E p \in Objects : object'[p].handle = k
      <3> SUFFICES ASSUME NEW k \in open' \ lost', k # h
                   PROVE  \E p \in Objects : object'[p].handle = k
        OBVIOUS
      <3>1. PICK p \in Objects : object[p].handle = k
        BY DEF OwnerInv
      <3>2. p # o
        BY <3>1, <1>1
      <3>3. QED
        BY <3>1, <3>2
    <2>6. QED
      BY <2>3, <2>4, <2>5 DEF OwnerInv
  <1>3. CASE h \notin lost
    <2>1. /\ o \in Acceptors /\ \E a \in Objects : object[a].handle = h
          /\ lost' = lost /\ shared' = shared \cup {h}
      BY <1>3 DEF Objects
    <2>2. \A p \in Objects : object[p].handle = h => p \in Acceptors
      <3> SUFFICES ASSUME NEW p \in Objects, object[p].handle = h PROVE p \in Acceptors
        OBVIOUS
      <3>1. PICK a \in Acceptors : object[a].handle = h
        BY <1>3
      <3>2. a \in Objects
        BY DEF Objects
      <3>3. p = a \/ h \in shared
        BY <1>1, <3>1, <3>2 DEF OwnerInv
      <3>4. QED
        BY <3>3 DEF OwnerInv
    <2>3. /\ lost' \subseteq open' /\ shared' \subseteq open' \ lost'
          /\ \A p \in Objects :
               /\ object'[p].handle # None => object'[p].handle \in open' \ lost'
               /\ object'[p].handle \in shared' => p \in Acceptors
      BY <1>1, <1>3, <2>1, <2>2 DEF OwnerInv
    <2>4. \A p, q \in Objects :
            object'[p].handle = object'[q].handle /\ object'[p].handle # None =>
              p = q \/ object'[p].handle \in shared'
      BY <2>1 DEF OwnerInv
    <2>5. \A k \in open' \ lost' : \E p \in Objects : object'[p].handle = k
      <3> SUFFICES ASSUME NEW k \in open' \ lost' PROVE \E p \in Objects : object'[p].handle = k
        OBVIOUS
      <3>1. PICK p \in Objects : object[p].handle = k
        BY <2>1 DEF OwnerInv
      <3>2. p # o
        BY <3>1, <1>1
      <3>3. QED
        BY <3>1, <3>2
    <2>6. QED
      BY <2>3, <2>4, <2>5 DEF OwnerInv
  <1>4. QED
    BY <1>2, <1>3

\* A constructor opens a descriptor and throws.
LEMMA OwnerNever ==
  ASSUME OwnerInv, NEW h \in Handles \ open, object' = object,
         open' = open \cup {h}, lost' = lost \cup {h}, shared' = shared
  PROVE  OwnerInv'
  BY DEF OwnerInv

-----------------------------------------------------------------------------
(* The kinds of steps *)

\* The callbacks that run and that are wanted are those of objects.
UserTypes == current' \in Objects \cup {None} /\ terminated' \in BOOLEAN /\ wanted' \subseteq Objects

\* What a member function may make of the members of an object.
Sound(members) ==
  /\ members \in Members /\ members.fd = members.handle
  /\ members.active => members.handle # None
  /\ members.handle # None => members.alive

\* A member function that makes no system call.
LEMMA AssignStep ==
  ASSUME SocketInv, NEW o \in Objects, NEW r, Sound(r), r.handle = object[o].handle,
         Fresh(r, name, peer), object' = [object EXCEPT ![o] = r],
         UNCHANGED <<kernel, lost, shared>>, UserTypes
  PROVE  SocketInv'
  <1>1. /\ open' = open /\ lost' = lost /\ shared' = shared /\ name' = name /\ peer' = peer
        /\ UNCHANGED <<listening, input, broken>>
    BY DEF kernel
  <1>2. /\ ObjectInv' /\ NamesFresh'
        /\ object'[o] = r /\ \A p \in Objects \ {o} : object'[p] = object[p]
    <2>1. Spares(o, name, name') /\ Spares(o, peer, peer')
      BY <1>1 DEF Spares
    <2>2. QED
      BY <1>1, <2>1, NewMembers DEF SocketInv, Sound
  <1>3. OwnerInv'
    BY <1>1, <1>2, OwnersStay DEF SocketInv
  <1>4. SystemInv' /\ KernelInv'
    BY <1>1 DEF SocketInv, SystemInv, KernelInv, UserTypes
  <1>5. QED
    BY <1>2, <1>3, <1>4 DEF SocketInv

\* A member function that gives an object a new descriptor.
LEMMA NewStep ==
  ASSUME SocketInv, NEW o \in Objects, NEW r, Sound(r), NEW h, NEW there \in PeerOrNone,
         New(h, there), input' \subseteq input, object[o].handle = None, r.handle = h,
         Fresh(r, name', peer'), object' = [object EXCEPT ![o] = r],
         lost' = lost, shared' = shared, UserTypes
  PROVE  SocketInv'
  <1>1. /\ h \in Handles \ open /\ open' = open \cup {h}
        /\ name' = [name EXCEPT ![h] = NoEndpoint] /\ peer' = [peer EXCEPT ![h] = there]
        /\ UNCHANGED <<listening, broken>>
    BY DEF New, Boolean
  <1>2. /\ ObjectInv' /\ NamesFresh'
        /\ object'[o] = r /\ \A p \in Objects \ {o} : object'[p] = object[p]
    <2>1. \A p \in Objects : object[p].handle # h
      BY <1>1, HandlesAssumption DEF SocketInv, OwnerInv, HandlesAssumption
    <2>2. Spares(o, name, name') /\ Spares(o, peer, peer')
      BY <1>1, <2>1 DEF Spares, SocketInv, KernelInv
    <2>3. QED
      BY <2>2, NewMembers DEF SocketInv, Sound
  <1>3. OwnerInv'
    BY <1>1, <1>2, OwnerAdded DEF SocketInv, SystemInv
  <1>4. SystemInv' /\ KernelInv'
    BY <1>1 DEF SocketInv, SystemInv, KernelInv, UserTypes, OwnOrNone
  <1>5. QED
    BY <1>2, <1>3, <1>4 DEF SocketInv

\* A member function that closes the descriptor of an object.
LEMMA CloseStep ==
  ASSUME SocketInv, NEW o \in Objects, NEW r, Sound(r), CloseHandle(object[o].handle),
         Alone(o), r.handle = None, r.local = NoEndpoint, r.remote = NoEndpoint,
         object' = [object EXCEPT ![o] = r],
         lost' = lost, shared' = shared \ {object[o].handle}, UserTypes
  PROVE  SocketInv'
  <1> DEFINE h == object[o].handle
  <1>1. /\ h \in open /\ open' = open \ {h} /\ listening' = listening \ {h}
        /\ input' = input \ {h} /\ broken' = broken \ {h}
        /\ name' = [name EXCEPT ![h] = NoEndpoint] /\ peer' = [peer EXCEPT ![h] = NoEndpoint]
    BY DEF CloseHandle
  <1>2. /\ ObjectInv' /\ NamesFresh'
        /\ object'[o] = r /\ \A p \in Objects \ {o} : object'[p] = object[p]
    <2>1. h # None
      BY <1>1, HandlesAssumption DEF SocketInv, SystemInv, HandlesAssumption
    <2>2. Spares(o, name, name') /\ Spares(o, peer, peer')
      BY <1>1, <2>1 DEF Spares, SocketInv, KernelInv, Alone
    <2>3. Fresh(r, name', peer')
      BY NoName DEF Fresh
    <2>4. QED
      BY <2>2, <2>3, NewMembers DEF SocketInv, Sound
  <1>3. OwnerInv'
    <2>1. h # None
      BY <1>1, HandlesAssumption DEF SocketInv, SystemInv, HandlesAssumption
    <2>2. QED
      BY <1>1, <1>2, <2>1, OwnerGone DEF SocketInv, SystemInv
  <1>4. SystemInv' /\ KernelInv'
    BY <1>1 DEF SocketInv, SystemInv, KernelInv, UserTypes, OwnOrNone, PeerOrNone
  <1>5. QED
    BY <1>2, <1>3, <1>4 DEF SocketInv

\* A call that opens and closes nothing, and names only what has no name yet.
LEMMA KernelStep ==
  ASSUME SocketInv, UNCHANGED <<object, open, lost, shared>>,
         listening' \subseteq open,
         input' \subseteq open, broken' \subseteq open,
         name' \in [Handles -> OwnOrNone], peer' \in [Handles -> PeerOrNone],
         \A h \in Handles : name'[h] = name[h] \/ name[h] = NoEndpoint,
         \A h \in Handles : peer'[h] = peer[h] \/ peer[h] = NoEndpoint, UserTypes
  PROVE  SocketInv'
  <1>1. ObjectInv' /\ NamesFresh'
    BY SameObjects DEF SocketInv
  <1>2. OwnerInv'
    BY OwnersStay DEF SocketInv
  <1>3. SystemInv' /\ KernelInv'
    BY DEF SocketInv, SystemInv, KernelInv, UserTypes
  <1>4. QED
    BY <1>1, <1>2, <1>3 DEF SocketInv

-----------------------------------------------------------------------------
(* The actions *)

\* What the invariant says of the members of one object.
LEMMA MembersOf ==
  ASSUME SocketInv, NEW o \in Objects
  PROVE  /\ Sound(object[o]) /\ Fresh(object[o], name, peer)
         /\ object[o].handle \in Handles \cup {None}
         /\ IsOpen(o) => object[o].handle \in open
         /\ ~object[o].alive => object[o].handle = None
  BY DEF SocketInv, ObjectInv, OwnerInv, NamesFresh, Sound, Fresh, IsOpen, Members

\* The members of an object that has just been made, and of one that was closed.
LEMMA NewObject ==
  ASSUME NEW o \in Objects
  PROVE  /\ Sound(Absent) /\ Fresh(Absent, name, peer) /\ Fresh(Absent, name', peer')
         /\ Sound(Made(o)) /\ Fresh(Made(o), name, peer)
         /\ Absent.handle = None /\ Made(o).handle = None
         /\ Made(o).local = NoEndpoint /\ Made(o).remote = NoEndpoint /\ Made(o).alive
         /\ ~Made(o).active
  <1>1. Sound(Absent) /\ Absent.handle = None /\ Absent.local = NoEndpoint /\ Absent.remote = NoEndpoint
    BY DEF Sound, Absent, Members, OwnOrNone, PeerOrNone
  <1>2. Sound(Made(o)) /\ Made(o).handle = None /\ Made(o).local = NoEndpoint /\ Made(o).remote = NoEndpoint
    <2>1. ASSUME NEW b \in BOOLEAN, NEW m, m = [Absent EXCEPT !.alive = TRUE, !.bound = b, !.reads = b]
          PROVE  Sound(m) /\ m.handle = None /\ m.local = NoEndpoint /\ m.remote = NoEndpoint
      BY <1>1, <2>1 DEF Sound, Members
    <2>2. (o \in Acceptors) \in BOOLEAN
      OBVIOUS
    <2>3. QED
      BY <2>1, <2>2 DEF Made
  <1>3. Made(o).alive /\ ~Made(o).active
    BY DEF Absent, Made
  <1>4. QED
    BY <1>1, <1>2, <1>3, NoName DEF Fresh

\* The member functions that make no system call.
LEMMA AssigningKeeps ==
  ASSUME SocketInv, NEW o \in Objects,
         \/ Construct(o) \/ Move(o) \/ Start(o) \/ Stop(o) \/ LocalEndpoint(o) \/ RemoteEndpoint(o)
         \/ SetReadable(o) \/ ClearReadable(o) \/ SetWritable(o) \/ SetConnection(o)
  PROVE  SocketInv'
  <1> DEFINE m == object[o]
  <1>1. /\ Sound(m) /\ Fresh(m, name, peer) /\ m.handle \in Handles \cup {None}
        /\ object \in [Objects -> Members] /\ (~m.alive => m.handle = None)
    BY MembersOf DEF SocketInv, ObjectInv
  <1>2. /\ current \in Objects \cup {None} /\ terminated \in BOOLEAN /\ wanted \subseteq Objects
        /\ name \in [Handles -> OwnOrNone] /\ peer \in [Handles -> PeerOrNone]
    BY DEF SocketInv, SystemInv, KernelInv
  <1>3. CASE Construct(o)
    BY <1>1, <1>2, <1>3, NewObject, AssignStep DEF Construct, Makes, Alives, Assign, UserTypes
  <1>4. CASE Move(o)
    <2> DEFINE r == [m EXCEPT !.bound = TRUE]
    <2>1. Sound(r) /\ r.handle = m.handle /\ Fresh(r, name, peer)
      BY <1>1 DEF Sound, Members, Fresh
    <2>2. QED
      BY <1>2, <1>4, <2>1, AssignStep DEF Move, Assign, UserTypes
  <1>5. CASE Start(o)
    <2> DEFINE r == [m EXCEPT !.active = TRUE]
    <2>1. Sound(r) /\ r.handle = m.handle /\ Fresh(r, name, peer)
      BY <1>1, <1>5 DEF Sound, Members, Fresh, Start, IsOpen
    <2>2. QED
      BY <1>2, <1>5, <2>1, AssignStep DEF Start, Assign, UserTypes
  <1>6. CASE Stop(o)
    <2> DEFINE r == [m EXCEPT !.active = FALSE]
    <2>1. Sound(r) /\ r.handle = m.handle /\ Fresh(r, name, peer)
      BY <1>1 DEF Sound, Members, Fresh
    <2>2. QED
      BY <1>2, <1>6, <2>1, AssignStep DEF Stop, Assign, UserTypes
  <1>7. CASE LocalEndpoint(o)
    <2> DEFINE r == [m EXCEPT !.local = name[m.handle]]
    <2>1. Sound(r) /\ r.handle = m.handle /\ Fresh(r, name, peer)
      BY <1>1, <1>2, <1>7 DEF Sound, Members, Fresh, LocalEndpoint, IsOpen
    <2>2. QED
      BY <1>2, <1>7, <2>1, AssignStep DEF LocalEndpoint, Assign, UserTypes
  <1>8. CASE RemoteEndpoint(o)
    <2> DEFINE r == [m EXCEPT !.remote = peer[m.handle]]
    <2>1. Sound(r) /\ r.handle = m.handle /\ Fresh(r, name, peer)
      BY <1>1, <1>2, <1>8 DEF Sound, Members, Fresh, RemoteEndpoint, IsOpen
    <2>2. QED
      BY <1>2, <1>8, <2>1, AssignStep DEF RemoteEndpoint, Assign, UserTypes
  <1>9. CASE SetReadable(o)
    <2> DEFINE r == [m EXCEPT !.callback = TRUE, !.reads = TRUE]
    <2>1. Sound(r) /\ r.handle = m.handle /\ Fresh(r, name, peer)
      BY <1>1 DEF Sound, Members, Fresh
    <2>2. object' = [object EXCEPT ![o] = r]
      BY <1>1, <1>9 DEF SetReadable
    <2>3. QED
      BY <1>2, <1>9, <2>1, <2>2, AssignStep DEF SetReadable, UserTypes
  <1>10. CASE ClearReadable(o)
    <2> DEFINE r == [m EXCEPT !.reads = FALSE]
    <2>1. Sound(r) /\ r.handle = m.handle /\ Fresh(r, name, peer)
      BY <1>1 DEF Sound, Members, Fresh
    <2>2. object' = [object EXCEPT ![o] = r]
      BY <1>1, <1>10 DEF ClearReadable
    <2>3. QED
      BY <1>2, <1>10, <2>1, <2>2, AssignStep DEF ClearReadable, UserTypes
  <1>11. CASE SetWritable(o)
    <2> DEFINE r == [m EXCEPT !.reads = TRUE]
    <2>1. Sound(r) /\ r.handle = m.handle /\ Fresh(r, name, peer)
      BY <1>1 DEF Sound, Members, Fresh
    <2>2. QED
      BY <1>2, <1>11, <2>1, AssignStep DEF SetWritable, Assign, UserTypes
  <1>12. CASE SetConnection(o)
    <2>1. PICK given \in BOOLEAN :
            /\ object' = [object EXCEPT ![o].callback = given]
            /\ wanted' = IF given THEN wanted \cup {o} ELSE wanted \ {o}
      BY <1>12 DEF SetConnection
    <2> DEFINE r == [m EXCEPT !.callback = given]
    <2>2. Sound(r) /\ r.handle = m.handle /\ Fresh(r, name, peer)
      BY <1>1 DEF Sound, Members, Fresh
    <2>3. object' = [object EXCEPT ![o] = r]
      BY <1>1, <2>1
    <2>4. QED
      BY <1>2, <1>12, <2>1, <2>2, <2>3, AssignStep DEF SetConnection, UserTypes
  <1>13. QED
    BY <1>3, <1>4, <1>5, <1>6, <1>7, <1>8, <1>9, <1>10, <1>11, <1>12

\* A call that changes nothing of what the invariant is about.
LEMMA NothingNew ==
  ASSUME SocketInv, UNCHANGED <<open, listening, name, peer, broken, object, lost, shared>>,
         input' \subseteq input, UserTypes
  PROVE  SocketInv'
  BY KernelStep DEF SocketInv, SystemInv, KernelInv

\* The constructors, and the functions that open.
LEMMA OpeningKeeps ==
  ASSUME SocketInv, NEW o \in Objects, NEW h \in Handles \cup {None},
         ConstructOpen(o, h) \/ Open(o, h)
  PROVE  SocketInv'
  <1>1. /\ UserTypes /\ lost' = lost /\ shared' = shared /\ object \in [Objects -> Members]
        /\ Socket(h)
    BY DEF ConstructOpen, Open, UserTypes, SocketInv, SystemInv, ObjectInv
  <1>2. object[o].handle = None
    BY MembersOf DEF ConstructOpen, Makes, Alives, Open, IsOpen
  <1>3. CASE h = None
    <2>1. object' = object
      BY <1>1, <1>3 DEF ConstructOpen, Open
    <2>2. UNCHANGED kernel
      BY <1>1, <1>3, HandlesAssumption DEF Socket, New, HandlesAssumption
    <2>3. QED
      BY <1>1, <2>1, <2>2, NothingNew DEF kernel
  <1>4. CASE h # None
    <2>1. New(h, NoEndpoint) /\ input' = input
      BY <1>1, <1>4 DEF Socket
    <2>2. CASE ConstructOpen(o, h)
      <3> DEFINE r == [Opened(Made(o), h) EXCEPT !.bound = TRUE]
      <3>1. Sound(r) /\ r.handle = h /\ Fresh(r, name', peer')
        BY <1>4, NewObject, NoName DEF Sound, Members, Fresh, Opened
      <3>2. object' = [object EXCEPT ![o] = r]
        BY <1>4, <2>2 DEF ConstructOpen
      <3>3. QED
        BY <1>1, <1>2, <2>1, <3>1, <3>2, NewStep DEF PeerOrNone
    <2>3. CASE Open(o, h)
      <3> DEFINE r == Opened(object[o], h)
      <3>1. /\ Sound(object[o]) /\ Fresh(object[o], name, peer)
        BY MembersOf
      <3>2. Sound(r) /\ r.handle = h /\ Fresh(r, name', peer')
        BY <1>2, <1>4, <2>3, <3>1 DEF Sound, Members, Fresh, Opened, Open, Alive
      <3>3. object' = [object EXCEPT ![o] = r]
        BY <1>1, <1>4, <2>3 DEF Open
      <3>4. QED
        BY <1>1, <1>2, <2>1, <3>2, <3>3, NewStep DEF PeerOrNone
    <2>4. QED
      BY <2>2, <2>3
  <1>5. QED
    BY <1>3, <1>4

\* The constructors from a native handle.
LEMMA JoiningKeeps ==
  ASSUME SocketInv, NEW o \in Objects, NEW h \in Handles, ConstructFrom(o, h)
  PROVE  SocketInv'
  <1> DEFINE r == [Opened(Made(o), h) EXCEPT !.bound = TRUE]
  <1>1. /\ UserTypes /\ UNCHANGED kernel
        /\ object' = [object EXCEPT ![o] = r] /\ lost' = lost \ {h}
    BY DEF ConstructFrom, UserTypes, SocketInv, SystemInv
  <1>2. object[o].handle = None
    BY MembersOf DEF ConstructFrom, Makes, Alives
  <1>3. Sound(r) /\ r.handle = h /\ Fresh(r, name', peer')
    BY NewObject, NoName DEF Sound, Members, Fresh, Opened
  <1>4. Spares(o, name, name') /\ Spares(o, peer, peer')
    BY <1>1 DEF Spares, kernel
  <1>5. /\ ObjectInv' /\ NamesFresh'
        /\ object'[o] = r /\ \A p \in Objects \ {o} : object'[p] = object[p]
    BY <1>1, <1>3, <1>4, NewMembers DEF SocketInv, Sound
  <1>6. h \in lost \/ (o \in Acceptors /\ \E a \in Acceptors : object[a].handle = h)
    BY DEF ConstructFrom, Owners
  <1>7. shared' = IF \A p \in Objects : object[p].handle # h THEN shared ELSE shared \cup {h}
    <2>1. Owners(h) = {} <=> \A p \in Objects : object[p].handle # h
      BY DEF Owners
    <2>2. QED
      BY <2>1 DEF ConstructFrom
  <1>8. open' = open /\ open \subseteq Handles /\ OwnerInv
    BY <1>1 DEF SocketInv, SystemInv, kernel
  <1>9. OwnerInv'
    <2>1. object'[o].handle = h /\ \A p \in Objects \ {o} : object'[p].handle = object[p].handle
      BY <1>3, <1>5
    <2>2. QED
      BY <1>1, <1>2, <1>6, <1>7, <1>8, <2>1, OwnerJoins
  <1>10. SystemInv' /\ KernelInv'
    BY <1>1 DEF SocketInv, SystemInv, KernelInv, UserTypes, kernel
  <1>11. QED
    BY <1>5, <1>9, <1>10 DEF SocketInv

\* What a stream socket has is its own.
LEMMA StreamsAlone ==
  ASSUME SocketInv, NEW s \in Streams, object[s].handle # None
  PROVE  Alone(s) /\ shared \ {object[s].handle} = shared
  <1>1. s \in Objects /\ s \notin Acceptors
    BY ObjectsAssumption DEF ObjectsAssumption, Objects
  <1>2. object[s].handle \notin shared
    BY <1>1 DEF SocketInv, OwnerInv
  <1>3. QED
    BY <1>1, <1>2 DEF SocketInv, OwnerInv, Alone

\* The functions that close, and the destructors.
LEMMA ClosingKeeps ==
  ASSUME SocketInv, NEW o \in Objects, Close(o) \/ DestroyStream(o) \/ DestroyAcceptor(o)
  PROVE  SocketInv'
  <1>1. /\ UserTypes /\ object \in [Objects -> Members]
        /\ Sound(object[o]) /\ Sound(Absent) /\ Fresh(Absent, name, peer)
        /\ Absent.handle = None /\ Absent.local = NoEndpoint /\ Absent.remote = NoEndpoint
    BY MembersOf, NewObject DEF Close, DestroyStream, DestroyAcceptor, UserTypes, SocketInv, SystemInv,
       ObjectInv, Absent
  <1>2. CASE Close(o)
    <2> DEFINE r == Closed(object[o])
    <2>1. Sound(r) /\ r.handle = None /\ r.local = NoEndpoint /\ r.remote = NoEndpoint
      BY <1>1 DEF Sound, Members, Closed, OwnOrNone, PeerOrNone
    <2>2. /\ object' = [object EXCEPT ![o] = r] /\ CloseHandle(object[o].handle)
          /\ lost' = lost /\ shared' = shared \ {object[o].handle}
      BY <1>1, <1>2 DEF Close
    <2>3. Alone(o)
      BY <1>2 DEF Close, Owners, Alone
    <2>4. QED
      BY <1>1, <2>1, <2>2, <2>3, CloseStep
  <1>3. CASE DestroyStream(o) /\ IsOpen(o)
    <2>1. Alone(o) /\ shared \ {object[o].handle} = shared
      BY <1>3, StreamsAlone DEF DestroyStream, IsOpen
    <2>2. QED
      BY <1>1, <1>3, <2>1, CloseStep DEF DestroyStream
  <1>4. CASE DestroyStream(o) /\ ~IsOpen(o)
    BY <1>1, <1>4, AssignStep DEF DestroyStream, IsOpen
  <1>5. CASE DestroyAcceptor(o)
    <2>1. object' = [object EXCEPT ![o] = Absent] /\ UNCHANGED kernel
      BY <1>5 DEF DestroyAcceptor
    <2>2. /\ ObjectInv' /\ NamesFresh'
          /\ object'[o] = Absent /\ \A p \in Objects \ {o} : object'[p] = object[p]
      <3>1. Spares(o, name, name') /\ Spares(o, peer, peer') /\ Fresh(Absent, name', peer')
        BY <2>1, NewObject DEF Spares, kernel
      <3>2. QED
        BY <1>1, <2>1, <3>1, NewMembers DEF SocketInv, Sound
    <2>3. OwnerInv'
      <3>1. Owners(object[o].handle) = {o} <=> Alone(o)
        BY DEF Owners, Alone
      <3>2. open' = open /\ open \subseteq Handles /\ OwnerInv
        BY <2>1 DEF SocketInv, SystemInv, kernel
      <3>3. CASE ~IsOpen(o)
        BY <1>1, <1>5, <2>1, <2>2, <3>2, <3>3, OwnersStay DEF DestroyAcceptor, IsOpen
      <3>4. CASE IsOpen(o) /\ Alone(o)
        BY <1>1, <1>5, <2>1, <2>2, <3>1, <3>2, <3>4, OwnerGone DEF DestroyAcceptor, IsOpen
      <3>5. CASE IsOpen(o) /\ ~Alone(o)
        <4>1. None \notin shared
          BY <3>2, HandlesAssumption DEF OwnerInv, HandlesAssumption
        <4>2. QED
          BY <1>1, <1>5, <2>1, <2>2, <3>1, <3>2, <3>5, <4>1, SharerGone DEF DestroyAcceptor, IsOpen
      <3>6. QED
        BY <3>3, <3>4, <3>5
    <2>4. SystemInv' /\ KernelInv'
      BY <1>1, <2>1 DEF SocketInv, SystemInv, KernelInv, UserTypes, kernel
    <2>5. QED
      BY <2>2, <2>3, <2>4 DEF SocketInv
  <1>6. QED
    BY <1>2, <1>3, <1>4, <1>5

\* The constructors that bind: one that throws loses what it has opened.
LEMMA ConstructBoundKeeps ==
  ASSUME SocketInv, NEW o \in Objects, NEW h \in Handles, NEW ep \in OwnNames,
         ConstructBound(o, h, ep)
  PROVE  SocketInv'
  <1>1. /\ UserTypes /\ object \in [Objects -> Members]
        /\ h \notin open /\ open' = open \cup {h}
        /\ UNCHANGED <<peer, input, broken>>
    BY DEF ConstructBound, UserTypes, SocketInv, SystemInv, ObjectInv
  <1>2. object[o].handle = None /\ shared' = shared
    BY MembersOf DEF ConstructBound, Makes, Alives
  <1>3. PICK bound \in BOOLEAN, listens \in BOOLEAN :
          /\ name' = [name EXCEPT ![h] = IF bound THEN ep ELSE @]
          /\ listening' = IF bound /\ listens /\ o \in Acceptors THEN listening \cup {h} ELSE listening
          /\ IF bound /\ listens
             THEN /\ object' = [object EXCEPT ![o] = [Opened(Made(o), h) EXCEPT !.bound = TRUE]]
                  /\ lost' = lost
             ELSE lost' = lost \cup {h} /\ object' = object
    BY DEF ConstructBound, Bind
  <1>4. \A p \in Objects : object[p].handle # h
    BY <1>1, HandlesAssumption DEF SocketInv, OwnerInv, HandlesAssumption
  <1>5. SystemInv' /\ KernelInv'
    BY <1>1, <1>3 DEF SocketInv, SystemInv, KernelInv, UserTypes, OwnOrNone
  <1>6. CASE bound /\ listens
    <2> DEFINE r == [Opened(Made(o), h) EXCEPT !.bound = TRUE]
    <2>1. Sound(r) /\ r.handle = h /\ Fresh(r, name', peer')
      BY NewObject, NoName DEF Sound, Members, Fresh, Opened
    <2>2. Spares(o, name, name') /\ Spares(o, peer, peer')
      BY <1>1, <1>3, <1>4 DEF Spares, SocketInv, KernelInv
    <2>3. /\ ObjectInv' /\ NamesFresh'
          /\ object'[o] = r /\ \A p \in Objects \ {o} : object'[p] = object[p]
      BY <1>3, <1>6, <2>1, <2>2, NewMembers DEF SocketInv, Sound
    <2>4. OwnerInv'
      BY <1>1, <1>2, <1>3, <1>6, <2>1, <2>3, OwnerAdded DEF SocketInv, SystemInv
    <2>5. QED
      BY <1>5, <2>3, <2>4 DEF SocketInv
  <1>7. CASE ~(bound /\ listens)
    <2>1. object' = object /\ lost' = lost \cup {h}
      BY <1>3, <1>7
    <2>2. \A k \in Handles : name'[k] = name[k] \/ k \notin open
      BY <1>1, <1>3 DEF SocketInv, KernelInv
    <2>3. ObjectInv' /\ NamesFresh'
      BY <1>1, <2>1, <2>2, SameObjects DEF SocketInv
    <2>4. OwnerInv'
      BY <1>1, <1>2, <2>1, OwnerNever DEF SocketInv
    <2>5. QED
      BY <1>5, <2>3, <2>4 DEF SocketInv
  <1>8. QED
    BY <1>6, <1>7

\* bind(), of an open object and of one that it opens first.
LEMMA BindKeeps ==
  ASSUME SocketInv, NEW o \in Objects, NEW h \in Handles, NEW ep \in OwnNames, BindTo(o, h, ep)
  PROVE  SocketInv'
  <1>1. /\ UserTypes /\ object \in [Objects -> Members] /\ lost' = lost /\ shared' = shared
        /\ UNCHANGED <<listening, peer, input, broken>>
    BY DEF BindTo, UserTypes, SocketInv, SystemInv, ObjectInv
  <1>2. PICK succeeds \in BOOLEAN :
          /\ name[h] # NoEndpoint => ~succeeds
          /\ name' = [name EXCEPT ![h] = IF succeeds THEN ep ELSE @]
    BY DEF BindTo, Bind
  <1>3. /\ name' \in [Handles -> OwnOrNone]
        /\ \A k \in Handles : name'[k] = name[k] \/ (k = h /\ name[k] = NoEndpoint)
    BY <1>1, <1>2 DEF SocketInv, KernelInv, OwnOrNone
  <1>4. CASE IsOpen(o)
    <2>1. UNCHANGED <<open, object>>
      BY <1>4 DEF BindTo
    <2>2. ObjectInv' /\ NamesFresh'
      BY <1>1, <1>3, <2>1, SameObjects DEF SocketInv
    <2>3. OwnerInv'
      BY <1>1, <2>1, OwnersStay DEF SocketInv
    <2>4. SystemInv' /\ KernelInv'
      BY <1>1, <1>3, <2>1 DEF SocketInv, SystemInv, KernelInv, UserTypes
    <2>5. QED
      BY <2>2, <2>3, <2>4 DEF SocketInv
  <1>5. CASE ~IsOpen(o)
    <2> DEFINE r == Opened(object[o], h)
    <2>1. /\ h \notin open /\ open' = open \cup {h} /\ object' = [object EXCEPT ![o] = r]
          /\ object[o].handle = None /\ object[o].alive
      BY <1>1, <1>5 DEF BindTo, IsOpen, Alive
    <2>2. Sound(object[o]) /\ Fresh(object[o], name, peer)
      BY MembersOf
    <2>3. Sound(r) /\ r.handle = h /\ Fresh(r, name', peer')
      BY <2>1, <2>2 DEF Sound, Members, Fresh, Opened
    <2>4. Spares(o, name, name') /\ Spares(o, peer, peer')
      BY <1>1, <1>3 DEF Spares
    <2>5. /\ ObjectInv' /\ NamesFresh'
          /\ object'[o] = r /\ \A p \in Objects \ {o} : object'[p] = object[p]
      BY <2>1, <2>3, <2>4, NewMembers DEF SocketInv, Sound
    <2>6. OwnerInv'
      BY <1>1, <2>1, <2>3, <2>5, OwnerAdded DEF SocketInv, SystemInv
    <2>7. SystemInv' /\ KernelInv'
      BY <1>1, <1>3, <2>1 DEF SocketInv, SystemInv, KernelInv, UserTypes
    <2>8. QED
      BY <2>5, <2>6, <2>7 DEF SocketInv
  <1>6. QED
    BY <1>4, <1>5

\* A socket that was accepted has all it needs, the name of its peer among it.
LEMMA AcceptedObject ==
  ASSUME NEW h \in Handles, peer'[h] \in PeerOrNone, NEW s \in Streams
  PROVE  /\ Sound(Accepted(h)) /\ Accepted(h).handle = h
         /\ Fresh(Accepted(h), name', peer')
  <1> DEFINE c == CHOOSE t \in Streams : TRUE
  <1>1. c \in Objects
    BY DEF Objects
  <1>2. /\ Sound(Made(c)) /\ Made(c).local = NoEndpoint /\ Made(c).remote = NoEndpoint
        /\ Made(c).alive /\ ~Made(c).active
    BY <1>1, NewObject
  <1> HIDE DEF c
  <1>3. Accepted(h) = [Opened(Made(c), h) EXCEPT !.bound = TRUE, !.remote = peer'[h]]
    BY DEF Accepted, c
  <1>4. QED
    BY <1>2, <1>3, NoName, HandlesAssumption DEF Sound, Members, Fresh, Opened, HandlesAssumption

\* accept(), by the user, and by the event of an acceptor.
LEMMA AcceptingKeeps ==
  ASSUME SocketInv, NEW l, NEW s \in Streams, NEW h \in Handles \cup {None},
         ~object[s].alive, Accept(l, h), UserTypes, lost' = lost, shared' = shared,
         object' = [object EXCEPT ![s] = IF h = None THEN @ ELSE Accepted(h)]
  PROVE  SocketInv'
  <1>1. object[s].handle = None /\ object \in [Objects -> Members] /\ s \in Objects
    BY MembersOf DEF Objects, SocketInv, ObjectInv
  <1>2. input' \subseteq input
    BY DEF Accept
  <1>3. CASE h = None
    <2>1. object' = object
      BY <1>1, <1>3
    <2>2. UNCHANGED <<open, listening, name, peer, broken>>
      BY <1>3, HandlesAssumption DEF Accept, New, HandlesAssumption
    <2>3. QED
      BY <1>2, <2>1, <2>2, NothingNew
  <1>4. CASE h # None
    <2>1. PICK there \in PeerNames : New(h, there)
      BY <1>4 DEF Accept
    <2>2. peer'[h] \in PeerOrNone
      BY <1>4, <2>1 DEF New, PeerOrNone, SocketInv, KernelInv
    <2>3. /\ Sound(Accepted(h)) /\ Accepted(h).handle = h
          /\ Fresh(Accepted(h), name', peer')
      BY <1>4, <2>2, AcceptedObject
    <2>4. there \in PeerOrNone /\ object' = [object EXCEPT ![s] = Accepted(h)]
      BY <1>4, <2>1 DEF PeerOrNone
    <2>5. QED
      BY <1>1, <1>2, <2>1, <2>3, <2>4, NewStep
  <1>5. QED
    BY <1>3, <1>4

\* connect(): the peer is remembered when the kernel has it.
LEMMA ConnectKeeps ==
  ASSUME SocketInv, NEW o \in Objects, NEW there \in PeerNames, ConnectTo(o, there)
  PROVE  SocketInv'
  <1> DEFINE h == object[o].handle
  <1>0. PICK blocks \in BOOLEAN :
          /\ Connect(h, there, blocks)
          /\ object' = [object EXCEPT ![o].remote = IF blocks THEN there ELSE @]
    BY DEF ConnectTo
  <1> DEFINE r == [object[o] EXCEPT !.remote = IF blocks THEN there ELSE @]
  <1>1. /\ UserTypes /\ object \in [Objects -> Members] /\ lost' = lost /\ shared' = shared
        /\ h \in open /\ h \in Handles /\ h # None /\ peer[h] = NoEndpoint
        /\ UNCHANGED <<open, listening, name, input>>
    BY <1>0, HandlesAssumption DEF ConnectTo, Connect, UserTypes, SocketInv, SystemInv, ObjectInv,
       HandlesAssumption
  <1>2. \/ peer' = [peer EXCEPT ![h] = there] /\ broken' = broken
        \/ ~blocks /\ broken' = broken \cup {h} /\ peer' = peer
    BY <1>0 DEF Connect
  <1>3. object' = [object EXCEPT ![o] = r]
    BY <1>0, <1>1
  <1>4. Sound(object[o]) /\ Fresh(object[o], name, peer)
    BY MembersOf
  <1>5. Sound(r) /\ r.handle = h
    BY <1>4 DEF Sound, Members, PeerOrNone
  <1>6. blocks => peer'[h] = there
    BY <1>1, <1>2 DEF SocketInv, KernelInv
  <1>7. Fresh(r, name', peer')
    BY <1>1, <1>4, <1>6, NoName DEF Fresh, Sound, Members
  <1>8. Spares(o, name, name') /\ Spares(o, peer, peer')
    BY <1>1, <1>2 DEF Spares, SocketInv, KernelInv
  <1>9. /\ ObjectInv' /\ NamesFresh'
        /\ object'[o] = r /\ \A p \in Objects \ {o} : object'[p] = object[p]
    BY <1>3, <1>5, <1>7, <1>8, NewMembers DEF SocketInv, Sound
  <1>10. OwnerInv'
    BY <1>1, <1>5, <1>9, OwnersStay DEF SocketInv
  <1>11. SystemInv' /\ KernelInv'
    BY <1>1, <1>2 DEF SocketInv, SystemInv, KernelInv, UserTypes, PeerOrNone
  <1>12. QED
    BY <1>9, <1>10, <1>11 DEF SocketInv

\* The calls that change no member, and the peers.
LEMMA CallsKeep ==
  ASSUME SocketInv, UserTypes, object' = object, lost' = lost, shared' = shared, NEW h,
         Listen(h) \/ Shutdown(h) \/ Receive(h) \/ PeerActs(h)
  PROVE  SocketInv'
  <1>1. /\ UNCHANGED <<open, name, peer>>
        /\ h \in open \cup input
        /\ listening' \subseteq listening \cup {h}
        /\ input' \subseteq input \cup {h} /\ broken' \subseteq broken \cup {h}
    BY DEF Listen, Shutdown, Receive, PeerActs
  <1>2. QED
    BY <1>1, KernelStep DEF SocketInv, SystemInv, KernelInv

\* The event of a stream socket.
LEMMA StreamEventKeeps ==
  ASSUME SocketInv, NEW o \in Objects, StreamEvent(o)
  PROVE  SocketInv'
  <1>1. Sound(object[o]) /\ Fresh(object[o], name, peer)
    BY MembersOf
  <1>2. CASE IntegerValue(GetError(object[o].handle)) # 0
    <2> DEFINE r == Closed(object[o])
    <2>1. Sound(r) /\ r.handle = None /\ r.local = NoEndpoint /\ r.remote = NoEndpoint
      BY <1>1 DEF Sound, Members, Closed, OwnOrNone, PeerOrNone
    <2>2. /\ object' = [object EXCEPT ![o] = r] /\ CloseHandle(object[o].handle) /\ lost' = lost
          /\ UserTypes
      BY <1>2 DEF StreamEvent, UserTypes, SocketInv, SystemInv, ObjectInv
    <2>3. Alone(o) /\ shared \ {object[o].handle} = shared /\ shared' = shared
      <3>1. object[o].handle # None
        BY <2>2, HandlesAssumption DEF CloseHandle, SocketInv, SystemInv, HandlesAssumption
      <3>2. QED
        BY <3>1, StreamsAlone DEF StreamEvent
    <2>4. QED
      BY <2>1, <2>2, <2>3, CloseStep
  <1>3. CASE IntegerValue(GetError(object[o].handle)) = 0
    BY <1>3, NothingNew DEF StreamEvent, kernel, UserTypes, SocketInv, SystemInv
  <1>4. QED
    BY <1>2, <1>3

\* The event of an acceptor.
LEMMA AcceptEventKeeps ==
  ASSUME SocketInv, NEW a \in Objects, NEW s \in Streams, NEW h \in Handles \cup {None},
         AcceptEvent(a, s, h)
  PROVE  SocketInv'
  <1>1. /\ object \in [Objects -> Members] /\ s \in Objects
        /\ lost' = lost /\ shared' = shared /\ wanted' = wanted
    BY DEF AcceptEvent, SocketInv, ObjectInv, Objects
  <1>2. CASE h = None
    <2>1. object' = [object EXCEPT ![s] = IF h = None THEN @ ELSE Accepted(h)]
      BY <1>1, <1>2 DEF AcceptEvent
    <2>2. Accept(object[a].handle, h) /\ UserTypes /\ ~object[s].alive
      BY <1>2 DEF AcceptEvent, UserTypes, SocketInv, SystemInv
    <2>3. QED
      BY <1>1, <2>1, <2>2, AcceptingKeeps
  <1>3. CASE h # None
    <2>1. PICK failed \in BOOLEAN :
            IF failed \/ ~object[a].callback
            THEN /\ input' \in {input, input \ {object[a].handle}}
                 /\ UNCHANGED <<open, listening, name, peer, broken, object, current>>
            ELSE /\ Accept(object[a].handle, h)
                 /\ object' = [object EXCEPT ![s] = Accepted(h)]
                 /\ current' = a
      BY <1>3 DEF AcceptEvent
    <2>2. terminated' = terminated /\ ~object[s].alive
      BY <1>3 DEF AcceptEvent
    <2>3. CASE failed \/ ~object[a].callback
      BY <1>1, <2>1, <2>2, <2>3, NothingNew DEF UserTypes, SocketInv, SystemInv
    <2>4. CASE ~(failed \/ ~object[a].callback)
      <3>1. object' = [object EXCEPT ![s] = IF h = None THEN @ ELSE Accepted(h)]
        BY <1>3, <2>1, <2>4
      <3>2. Accept(object[a].handle, h) /\ UserTypes
        BY <1>1, <2>1, <2>2, <2>4 DEF UserTypes, SocketInv, SystemInv
      <3>3. QED
        BY <1>1, <2>2, <3>1, <3>2, AcceptingKeeps
    <2>5. QED
      BY <2>3, <2>4
  <1>4. QED
    BY <1>2, <1>3

-----------------------------------------------------------------------------
(* The invariant *)

LEMMA InitSocketInv == Init => SocketInv
  <1> SUFFICES ASSUME Init PROVE SocketInv
    OBVIOUS
  <1>1. Sound(Absent)
    BY DEF Sound, Absent, Members, OwnOrNone, PeerOrNone
  <1>2. \A o \in Objects : object[o] = Absent /\ object \in [Objects -> Members]
    BY <1>1 DEF Init, Sound
  <1>3. ObjectInv
    BY <1>1 DEF Init, Sound, ObjectInv, Absent
  <1>4. OwnerInv
    BY DEF Init, KernelInit, OwnerInv, Absent
  <1>5. NamesFresh
    BY NoName DEF Init, NamesFresh, Absent
  <1>6. SystemInv /\ KernelInv
    BY DEF Init, KernelInit, SystemInv, KernelInv, OwnOrNone, PeerOrNone
  <1>7. QED
    BY <1>3, <1>4, <1>5, <1>6 DEF SocketInv

LEMMA UserKeeps ==
  ASSUME SocketInv, NEW o \in Objects, User(o)
  PROVE  SocketInv'
  <1>1. CASE \/ Construct(o) \/ Move(o) \/ Start(o) \/ Stop(o) \/ LocalEndpoint(o)
             \/ RemoteEndpoint(o) \/ SetReadable(o) \/ ClearReadable(o) \/ SetWritable(o)
             \/ SetConnection(o)
    BY <1>1, AssigningKeeps
  <1>2. CASE Close(o) \/ DestroyStream(o) \/ DestroyAcceptor(o)
    BY <1>2, ClosingKeeps
  <1>3. CASE SocketCalls(o, object[o].handle)
    BY <1>3, CallsKeep DEF SocketCalls, Calls, UserTypes, SocketInv, SystemInv
  <1>4. ASSUME NEW h \in Handles \cup {None}, ConstructOpen(o, h) \/ Open(o, h)
        PROVE  SocketInv'
    BY <1>4, OpeningKeeps
  <1>5. ASSUME NEW there \in PeerNames, ConnectTo(o, there)
        PROVE  SocketInv'
    BY <1>5, ConnectKeeps
  <1>6. ASSUME NEW h \in Handles, NEW ep \in OwnNames, ConstructBound(o, h, ep) \/ BindTo(o, h, ep)
        PROVE  SocketInv'
    BY <1>6, ConstructBoundKeeps, BindKeeps
  <1>7. ASSUME NEW s \in Streams, NEW h \in Handles \cup {None}, AcceptCall(o, s, h)
        PROVE  SocketInv'
    BY <1>7, AcceptingKeeps DEF AcceptCall, UserTypes, SocketInv, SystemInv
  <1>8. ASSUME NEW h \in Handles, ConstructFrom(o, h)
        PROVE  SocketInv'
    BY <1>8, JoiningKeeps
  <1>9. QED
    BY <1>1, <1>2, <1>3, <1>4, <1>5, <1>6, <1>7, <1>8 DEF User, MemberCalls

LEMMA NextKeeps == SocketInv /\ [Next]_vars => SocketInv'
  <1> SUFFICES ASSUME SocketInv, [Next]_vars PROVE SocketInv'
    OBVIOUS
  <1>1. CASE UNCHANGED vars
    BY <1>1, NothingNew DEF vars, kernel, UserTypes, SocketInv, SystemInv
  <1>2. CASE Environment
    BY <1>2, CallsKeep DEF Environment, UserTypes, SocketInv, SystemInv
  <1>3. CASE CallbackReturns
    BY <1>3, NothingNew DEF CallbackReturns, kernel, UserTypes, SocketInv, SystemInv
  <1>4. ASSUME NEW o \in Objects, User(o)
        PROVE  SocketInv'
    BY <1>4, UserKeeps
  <1>5. ASSUME NEW o \in Objects, Event(o)
        PROVE  SocketInv'
    BY <1>5, StreamEventKeeps, AcceptEventKeeps DEF Event
  <1>6. QED
    BY <1>1, <1>2, <1>3, <1>4, <1>5 DEF Next

\* The invariant holds in every state the sockets can come to.
LEMMA SocketInvariant == Spec => []SocketInv
  BY InitSocketInv, NextKeeps, PTL DEF Spec

-----------------------------------------------------------------------------
(* Theorems *)

\* Type correctness of basic_socket, its event and the kernel behind it.
THEOREM TypeCorrect == Spec => []TypeOK
  <1>1. SocketInv => TypeOK
    <2> SUFFICES ASSUME SocketInv PROVE TypeOK
      OBVIOUS
    <2>1. ASSUME NEW o \in Objects, NEW m \in {"alive", "active", "reads", "bound", "callback"}
          PROVE  object[o][m] \in BOOLEAN
      <3>1. object[o] \in Members
        BY DEF SocketInv, ObjectInv
      <3>2. /\ object[o]["alive"] \in BOOLEAN /\ object[o]["active"] \in BOOLEAN
            /\ object[o]["reads"] \in BOOLEAN /\ object[o]["bound"] \in BOOLEAN
            /\ object[o]["callback"] \in BOOLEAN
        BY <3>1 DEF Members
      <3>3. QED
        BY <3>2
    <2>2. \A o \in Objects : object[o].handle \in Handles \cup {None} /\ object[o].fd \in Handles \cup {None}
      BY DEF SocketInv, ObjectInv, Members
    <2>3. QED
      BY <2>1, <2>2 DEF TypeOK, SocketInv, SystemInv, KernelInv, OwnerInv, OwnOrNone, PeerOrNone
  <1>2. QED
    BY <1>1, SocketInvariant, PTL

\* Every open descriptor has an owner, which can close it, or was lost by a
\* constructor or an acceptor; no object has one that is closed; and only
\* acceptors share one, which the user has given to one more of them.
THEOREM DescriptorsStayOwned == Spec => []DescriptorsOwned
  <1>1. SocketInv => DescriptorsOwned
    <2> SUFFICES ASSUME SocketInv, NEW h \in Handles
                 PROVE  /\ h \in open => (h \in lost) # (Owners(h) # {})
                        /\ \A o, p \in Owners(h) :
                             h \in open /\ (o = p \/ ({o, p} \subseteq Acceptors /\ h \in shared))
      BY DEF DescriptorsOwned
    <2>1. h # None
      BY HandlesAssumption DEF HandlesAssumption
    <2>2. \A o \in Owners(h) : o \in Objects /\ object[o].handle = h
      BY DEF Owners
    <2>3. \A o, p \in Owners(h) :
            h \in open \ lost /\ (o = p \/ ({o, p} \subseteq Acceptors /\ h \in shared))
      BY <2>1, <2>2 DEF SocketInv, OwnerInv
    <2>4. h \in open \ lost => Owners(h) # {}
      BY DEF SocketInv, OwnerInv, Owners
    <2>5. h \in lost => Owners(h) = {}
      BY <2>3
    <2>6. QED
      BY <2>3, <2>4, <2>5
  <1>2. QED
    BY <1>1, SocketInvariant, PTL

\* The event of a socket, while it is active, watches the descriptor of that
\* socket, which is open, also when its number was another's before.
THEOREM WatchesItsOwn == Spec => []WatchesOwn
  <1>1. SocketInv => WatchesOwn
    BY DEF SocketInv, ObjectInv, OwnerInv, WatchesOwn
  <1>2. QED
    BY <1>1, SocketInvariant, PTL

\* The endpoints that local_endpoint() and remote_endpoint() have kept are those
\* of the descriptor that the socket has now.
THEOREM NamesStayFresh == Spec => []NamesFresh
  BY SocketInvariant, PTL DEF SocketInv

-----------------------------------------------------------------------------
(* Conversions *)

Bytes(n) == [1..n -> Byte]

\* Turning bytes round twice changes nothing.
LEMMA SwapTwice ==
  ASSUME NEW n \in Nat, NEW s \in Bytes(n)
  PROVE  /\ Swap(s) \in Bytes(n) /\ Swap(Swap(s)) = s
         /\ \A i \in 1..n : Swap(s)[i] = s[n - i + 1]
  <1>1. s \in Seq(Byte) /\ Len(s) = n
    BY DEF Bytes
  <1>2. Swap(s) = [i \in 1..n |-> s[n - i + 1]]
    BY <1>1 DEF Swap, Reverse
  <1>3. Swap(s) \in Bytes(n)
    BY <1>2 DEF Bytes
  <1>4. Swap(s) \in Seq(Byte) /\ Len(Swap(s)) = n
    BY <1>3 DEF Bytes
  <1>5. Swap(Swap(s)) = [i \in 1..n |-> Swap(s)[n - i + 1]]
    BY <1>4 DEF Swap, Reverse
  <1>6. \A i \in 1..n : Swap(s)[i] = s[n - i + 1] /\ Swap(s)[n - i + 1] = s[i]
    BY <1>2
  <1>7. QED
    BY <1>3, <1>5, <1>6 DEF Bytes

\* address_v4: an address comes back from its number, the text from an address,
\* and the first byte of the text decides about loopback and multicast.
THEOREM AddressesComeBack ==
  ASSUME NEW t \in Bytes(4)
  PROVE  LET a == MakeAddress(t).v4 IN
         /\ AddressText(a) = t /\ AddressV4(ToUint(a)) = a
         /\ IsLoopback(a) <=> t[1] = 127
         /\ IsMulticast(a) <=> t[1] \in 224..239
  <1>1. MakeAddress(t).v4 = t
    BY DEF MakeAddress, Address, MakeAddressV4, Bytes
  <1>2. ToUint(t)[4] = t[1] /\ AddressV4(ToUint(t)) = t
    BY SwapTwice DEF ToUint, AddressV4
  <1>3. t[1] \in 0..255
    BY DEF Bytes, Byte
  <1>4. t[1] \div 16 = 14 <=> t[1] \in 224..239
    BY <1>3
  <1>5. QED
    BY <1>1, <1>2, <1>4 DEF AddressText, IsLoopback, IsMulticast

\* endpoint: address and port are what it was made of, whatever is set after; and
\* an endpoint of another family takes an address and becomes one of IPv4.
THEOREM EndpointsComeBack ==
  ASSUME NEW t \in Bytes(4), NEW p \in Bytes(2), NEW q \in Bytes(2), NEW f \in {"v4", "v6"}
  PROVE  LET ep == EndpointAt(Address(t), p) IN
         /\ GetPort(ep) = p /\ GetAddress(ep) = Address(t)
         /\ SetPort(EndpointAt(Address(t), q), p) = ep
         /\ GetPort(EndpointOf(f, p)) = p
         /\ SetAddress(EndpointOf(f, p), Address(t)) = ep
         /\ EndpointUnspecified(ep) <=> t = Zero(4)
  <1>1. Swap(Swap(p)) = p /\ Swap(Swap(q)) = q
    BY SwapTwice
  <1>2. AddressToUint(Address(t)) = Swap(t) /\ Swap(Swap(t)) = t
    BY SwapTwice DEF AddressToUint, Address, IsV4, ToUint
  <1>3. EndpointAt(Address(t), p) = [family |-> "v4", port |-> Swap(p), addr |-> t]
    BY <1>2 DEF EndpointAt
  <1>4. GetAddress(EndpointAt(Address(t), p)) = Address(t)
    BY <1>2, <1>3 DEF GetAddress, AddressV4
  <1>5. SetPort(EndpointAt(Address(t), q), p) = EndpointAt(Address(t), p)
    BY DEF SetPort, EndpointAt
  <1>6. SetAddress(EndpointOf(f, p), Address(t)) = EndpointAt(Address(t), p)
    <2>1. EndpointOf(f, p) = [family |-> f, port |-> Swap(p), addr |-> Zero(4)]
      BY DEF EndpointOf
    <2>2. [EndpointOf(f, p) EXCEPT !.family = "v4"] =
            [family |-> "v4", port |-> Swap(p), addr |-> Zero(4)]
      BY <2>1
    <2>3. SetAddress(EndpointOf(f, p), Address(t)) =
            [[EndpointOf(f, p) EXCEPT !.family = "v4"] EXCEPT !.addr = Swap(AddressToUint(Address(t)))]
      BY <2>1 DEF SetAddress
    <2>4. QED
      BY <2>2, <2>3 DEF EndpointAt
  <1>7. EndpointUnspecified(EndpointAt(Address(t), p)) <=> t = Zero(4)
    BY <1>4 DEF EndpointUnspecified, IsUnspecified, Address
  <1>8. QED
    BY <1>1, <1>3, <1>4, <1>5, <1>6, <1>7 DEF GetPort, EndpointOf

\* socket_option: what the get functions return is what was given to the set
\* functions, of an integer its 32 bits and of a lingering time its 16.  A time
\* comes back to the program as well, but the kernel takes it for less than it
\* was, unless it was of whole seconds: the milliseconds are its microseconds.
THEOREM OptionsAsSet ==
  ASSUME NEW b \in BOOLEAN, NEW n \in Int, NEW t \in Nat, NEW ms \in Nat
  PROVE  /\ BooleanValue(Boolean(b)) <=> b
         /\ -2147483648 <= IntegerValue(Integer(n)) /\ IntegerValue(Integer(n)) <= 2147483647
         /\ IntegerValue(Integer(n)) = n <=> -2147483648 <= n /\ n <= 2147483647
         /\ BooleanValue(Linger(b, t).l_onoff) <=> b
         /\ Linger(b, t).l_linger = t <=> t < 65536
         /\ TimeValue(Time(ms)) = ms
         /\ KernelTime(Time(ms)) <= 1000 * ms
         /\ KernelTime(Time(ms)) = 1000 * ms <=> ms % 1000 = 0
  <1>1. /\ -2147483648 <= IntegerValue(Integer(n)) /\ IntegerValue(Integer(n)) <= 2147483647
        /\ IntegerValue(Integer(n)) = n <=> -2147483648 <= n /\ n <= 2147483647
    <2> DEFINE u == n \div 65536
               lower == n % 65536
               upper == u % 65536
               i == IF upper < 32768 THEN upper ELSE upper - 65536
    <2>1. u \in Int /\ lower \in Int /\ 0 <= lower /\ lower <= 65535 /\ n = 65536 * u + lower
      OBVIOUS
    <2>2. Integer(n) = 65536 * i + lower
      BY <2>1 DEF Integer, Half
    <2>3. i \in Int /\ -32768 <= i /\ i <= 32767 /\ (i = u <=> -32768 <= u /\ u <= 32767)
      BY <2>1
    <2> HIDE DEF u, lower, upper, i
    <2>4. Integer(n) = n <=> i = u
      BY <2>1, <2>2, <2>3
    <2>5. -32768 <= u /\ u <= 32767 <=> -2147483648 <= n /\ n <= 2147483647
      BY <2>1
    <2>6. -2147483648 <= Integer(n) /\ Integer(n) <= 2147483647
      BY <2>1, <2>2, <2>3
    <2>7. QED
      BY <2>3, <2>4, <2>5, <2>6 DEF IntegerValue
  <1>2. Linger(b, t).l_linger = t <=> t < 65536
    BY DEF Linger, Half
  <1>3. /\ TimeValue(Time(ms)) = ms
        /\ KernelTime(Time(ms)) <= 1000 * ms
        /\ KernelTime(Time(ms)) = 1000 * ms <=> ms % 1000 = 0
    <2> DEFINE q == ms \div 1000
               r == ms % 1000
    <2>1. q \in Nat /\ r \in 0..999 /\ ms = 1000 * q + r
      OBVIOUS
    <2>2. TimeValue(Time(ms)) = q * 1000 + r /\ KernelTime(Time(ms)) = q * 1000000 + r
      BY DEF Time, TimeValue, KernelTime
    <2> HIDE DEF q
    <2>3. QED
      BY <2>1, <2>2
  <1>4. QED
    BY <1>1, <1>2, <1>3 DEF Boolean, BooleanValue, Linger

=============================================================================
