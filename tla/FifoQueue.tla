------------------------------ MODULE FifoQueue ------------------------------
(***************************************************************************)
(* What a concurrent queue promises its callers: it is linearizable.  Every*)
(* call takes effect in one step between its start and its return, in the  *)
(* order of a plain sequence, and a call finds the queue empty only if it  *)
(* was empty at some moment of the call.                                   *)
(***************************************************************************)
EXTENDS Naturals, Sequences

CONSTANTS Producers, Consumers

VARIABLES
  items,      \* the queue, of items <<producer, number>>
  delivered,  \* what was handed to consumers, in that order
  sent,       \* the items a producer has made
  call,       \* the call a thread is in, and whether it took effect
  lacked      \* the consumers that saw the queue empty in their call

vars == <<items, delivered, sent, call, lacked>>

Init ==
  /\ items = <<>> /\ delivered = <<>>
  /\ sent = [p \in Producers |-> 0]
  /\ call = [t \in Producers \cup Consumers |-> "idle"]
  /\ lacked = {}

Move(t, here, there) == call[t] = here /\ call' = [call EXCEPT ![t] = there]

Enqueue(p) ==
  /\ Move(p, "idle", "enqueue")
  /\ sent' = [sent EXCEPT ![p] = @ + 1]
  /\ UNCHANGED <<items, delivered, lacked>>

\* Perhaps the last step of the call.
Enter(p) ==
  /\ Move(p, "enqueue", "entered") \/ Move(p, "enqueue", "idle")
  /\ items' = Append(items, <<p, sent[p]>>)
  /\ UNCHANGED <<delivered, sent, lacked>>

Entered(p) ==
  /\ Move(p, "entered", "idle")
  /\ UNCHANGED <<items, delivered, sent, lacked>>

Ask(c) ==
  /\ \E question \in {"try_dequeue", "empty"} : Move(c, "idle", question)
  /\ lacked' = IF items = <<>> THEN lacked \cup {c} ELSE lacked
  /\ UNCHANGED <<items, delivered, sent>>

Deliver(c) ==
  /\ items # <<>>
  /\ Move(c, "try_dequeue", "delivered")
  /\ delivered' = Append(delivered, Head(items))
  /\ items' = Tail(items)
  /\ lacked' = IF items' = <<>> THEN {d \in Consumers : call[d] # "idle"} ELSE lacked
  /\ UNCHANGED sent

\* empty() is true only if the queue was empty, false only if it is not.
Look(c) ==
  /\ \/ c \in lacked /\ Move(c, "empty", "true")
     \/ items # <<>> /\ Move(c, "empty", "false")
  /\ UNCHANGED <<items, delivered, sent, lacked>>

\* try_dequeue returns true after its delivery, and false only if the queue was
\* empty.
Answer(c) ==
  /\ \/ \E answer \in {"delivered", "true", "false"} : Move(c, answer, "idle")
     \/ c \in lacked /\ Move(c, "try_dequeue", "idle")
  /\ lacked' = lacked \ {c}
  /\ UNCHANGED <<items, delivered, sent>>

Next ==
  \/ \E p \in Producers : Enqueue(p) \/ Enter(p) \/ Entered(p)
  \/ \E c \in Consumers : Ask(c) \/ Deliver(c) \/ Look(c) \/ Answer(c)

Spec == Init /\ [][Next]_vars

=============================================================================
