-------------------------- MODULE MCSerialDispatch --------------------------
(* Instances of SerialDispatch for TLC. *)
EXTENDS SerialDispatch, TLC

CONSTANTS t1, t2, c1, c2, s1, s2, p1, d1, k1

\* Two tasks of one token and a plain one.
PairTokenOf == (s1 :> k1) @@ (s2 :> k1) @@ (p1 :> NoToken)

\* Two tasks of one token and one with a timeout.
TimedTokenOf == (s1 :> k1) @@ (s2 :> k1) @@ (d1 :> NoToken)

=============================================================================
