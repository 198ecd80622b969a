---------------------------- MODULE MCQueuingPorts ----------------------------
(* Instances of QueuingPorts for TLC.                                      *)
EXTENDS QueuingPorts

CONSTANTS a, b, q1, m1, m2

Equal == [p \in Procs |-> 1]
NoPeriod == [p \in {} |-> 1]
ForeverOrTick == {1, INFINITE}
=============================================================================
