------------------------------ MODULE SocketOps ------------------------------
(***************************************************************************)
(* cyan::net::detail: the functions around the system calls, the options,  *)
(* and the part of the kernel that they change.                            *)
(*                                                                         *)
(* Each call takes the descriptor and, after what it needs, whether it     *)
(* succeeds: error_wrapper makes the error from errno, which was cleared   *)
(* before.  A call for invalid_socket fails before it comes to the kernel. *)
(***************************************************************************)
EXTENDS Endpoints, Integers

CONSTANTS
  Handles,     \* the file descriptors of the process
  None,        \* invalid_socket
  PeerNames    \* the endpoints of others

ASSUME HandlesAssumption == None \notin Handles

VARIABLES
  open,       \* the descriptors that are open
  listening,  \* those of them that listen
  name, peer, \* what getsockname says, and getpeername until a reset
  input,      \* those with a connection to accept, with data or at the end
  broken      \* those with an error for SO_ERROR to return

kernel == <<open, listening, name, peer, input, broken>>

KernelInit ==
  /\ open = {} /\ listening = {} /\ input = {} /\ broken = {}
  /\ name = [h \in Handles |-> NoEndpoint] /\ peer = [h \in Handles |-> NoEndpoint]

-----------------------------------------------------------------------------
(* Options: what is handed to the kernel, and what is made of it *)

Boolean(value) == IF value THEN 1 ELSE 0
BooleanValue(int) == int = 1

\* The parameter has 32 bits, with a sign: the upper and the lower half.
Half == 65536
Integer(value) ==
  LET upper == (value \div Half) % Half
  IN  (IF upper < 32768 THEN upper ELSE upper - Half) * Half + (value % Half)
IntegerValue(int) == int

\* The time, in seconds, is of 16 bits without a sign.
Linger(on, time) == [l_onoff |-> Boolean(on), l_linger |-> time % Half]

\* Of a duration that is not negative.  The milliseconds that are left go to the
\* field for microseconds, from which only get_value() takes them as such.
Time(ms) == [tv_sec |-> ms \div 1000, tv_usec |-> ms % 1000]
TimeValue(tv) == tv.tv_sec * 1000 + tv.tv_usec

\* The microseconds that the kernel takes it for.
KernelTime(tv) == tv.tv_sec * 1000000 + tv.tv_usec

-----------------------------------------------------------------------------
(* Calls *)

\* A new descriptor, as the functions below leave it.
New(h, there) ==
  /\ h \in Handles \ open
  /\ open' = open \cup {h}
  /\ name' = [name EXCEPT ![h] = NoEndpoint]
  /\ peer' = [peer EXCEPT ![h] = there]
  /\ UNCHANGED <<listening, broken>>

\* socket(): the descriptor, or None.  When one of the calls after the first
\* fails the descriptor is closed again.
Socket(h) ==
  \/ New(h, NoEndpoint) /\ UNCHANGED input
  \/ h = None /\ UNCHANGED kernel

\* Faulty: a connection that could not be set up stays open.
AcceptKeeps(l, h) ==
  /\ l \in input \cap listening
  /\ input' \in {input, input \ {l}}
  /\ \/ \E there \in PeerNames : New(h, there)
     \/ /\ h = None /\ \E k \in Handles \ open : open' = open \cup {k}
        /\ UNCHANGED <<listening, name, peer, broken>>

\* accept(): the same for the first of the waiting connections, of which there
\* may be more.  A connection that fails is gone as well.
Accept(l, h) ==
  /\ l \in input \cap listening
  /\ input' \in {input, input \ {l}}
  /\ \/ \E there \in PeerNames : New(h, there)
     \/ h = None /\ UNCHANGED <<open, listening, name, peer, broken>>

CloseHandle(h) ==
  /\ h \in open
  /\ open' = open \ {h} /\ listening' = listening \ {h}
  /\ input' = input \ {h} /\ broken' = broken \ {h}
  /\ name' = [name EXCEPT ![h] = NoEndpoint] /\ peer' = [peer EXCEPT ![h] = NoEndpoint]

\* Only once: a bound socket refuses a second bind().
Bind(h, ep, succeeds) ==
  /\ name[h] # NoEndpoint => ~succeeds
  /\ name' = [name EXCEPT ![h] = IF succeeds THEN ep ELSE @]

Listen(h) ==
  /\ h \in open
  /\ listening' = listening \cup {h}
  /\ UNCHANGED <<open, name, peer, input, broken>>

\* The mode of a descriptor, which the user may set before, decides about this
\* call: one that blocks is connected when the call returns.  For another the
\* call fails, and later the peer is there, or an error.
Connect(h, there, blocks) ==
  /\ h \in open \ listening /\ peer[h] = NoEndpoint
  /\ \/ peer' = [peer EXCEPT ![h] = there] /\ UNCHANGED broken
     \/ ~blocks /\ broken' = broken \cup {h} /\ UNCHANGED peer
  /\ UNCHANGED <<open, listening, name, input>>

\* No more input: a reader finds the end.
Shutdown(h) ==
  /\ h \in open /\ peer[h] # NoEndpoint
  /\ input' = input \cup {h}
  /\ UNCHANGED <<open, listening, name, peer, broken>>

\* An end that was found is found again.
Receive(h) ==
  /\ h \in input \ listening
  /\ input' \in {input, input \ {h}}
  /\ UNCHANGED <<open, listening, name, peer, broken>>

\* SO_ERROR is read once.
GetError(h) == Integer(IF h \in broken THEN 1 ELSE 0)

-----------------------------------------------------------------------------

\* A peer connects, sends, or resets its connection.
PeerActs(h) ==
  /\ h \in open
  /\ \/ /\ h \in listening \/ peer[h] # NoEndpoint
        /\ h \notin input
        /\ input' = input \cup {h}
        /\ UNCHANGED broken
     \/ /\ peer[h] # NoEndpoint /\ h \notin broken
        /\ broken' = broken \cup {h}
        /\ UNCHANGED input
  /\ UNCHANGED <<open, listening, name, peer>>

=============================================================================
