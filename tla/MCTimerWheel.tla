---------------------------- MODULE MCTimerWheel ----------------------------
(* Instances of TimerWheel for TLC. *)
EXTENDS TimerWheel

=============================================================================
