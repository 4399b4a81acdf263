--------------------------- MODULE SerialExecutor ---------------------------
(***************************************************************************)
(* What cyan::dispatch promises about the order of execution, without      *)
(* threads, queues or sequence numbers: tasks are submitted at any time,   *)
(* each is executed at most once, and the tasks of one serial token are    *)
(* executed in the order in which they were submitted, each after its      *)
(* predecessor has finished.                                               *)
(***************************************************************************)
EXTENDS Naturals, Sequences

CONSTANTS Tasks, Tokens, TokenOf

VARIABLES
  line,       \* the tasks of each token, in the order of submission
  submitted,  \* the tasks handed to the executor
  running,    \* the tasks being executed
  finished    \* the tasks that were executed

vars == <<line, submitted, running, finished>>

Init ==
  /\ line = [k \in Tokens |-> <<>>]
  /\ submitted = {}
  /\ running = {}
  /\ finished = {}

Submit(m) ==
  /\ m \notin submitted
  /\ submitted' = submitted \cup {m}
  /\ line' = [k \in Tokens |-> IF k = TokenOf[m] THEN Append(line[k], m) ELSE line[k]]
  /\ UNCHANGED <<running, finished>>

Turn(m) ==
  TokenOf[m] \in Tokens =>
    \E i \in DOMAIN line[TokenOf[m]] :
      /\ line[TokenOf[m]][i] = m
      /\ \A j \in 1..(i - 1) : line[TokenOf[m]][j] \in finished

Start(m) ==
  /\ m \in submitted \ (running \cup finished)
  /\ Turn(m)
  /\ running' = running \cup {m}
  /\ UNCHANGED <<line, submitted, finished>>

Finish(m) ==
  /\ m \in running
  /\ running' = running \ {m}
  /\ finished' = finished \cup {m}
  /\ UNCHANGED <<line, submitted>>

Next == \E m \in Tasks : Submit(m) \/ Start(m) \/ Finish(m)

Spec == Init /\ [][Next]_vars

=============================================================================
