---------------------------- MODULE MCEventLoop ----------------------------
(* Instances of EventLoop for TLC. *)
EXTENDS EventLoop, TLC

CONSTANTS e1, e2, l1, l2

\* Time passes where there is a timer; nothing else looks at the clock.
System2(k, j, ls) ==
  [kind |-> (e1 :> k) @@ (e2 :> j), loops |-> ls, time |-> IF "timer" \in {k, j} THEN 0 ELSE MaxTime]

\* Pairs of events on one loop, and single ones that move between two.
AllSystems ==
  {System2("async", "idle", {l1}), System2("signal", "io", {l1}), System2("io", "idle", {l1}),
   System2("signal", "idle", {l1}), System2("timer", "idle", {l1})}
  \cup {System2(k, None, {l1, l2}) : k \in Kinds}

=============================================================================
