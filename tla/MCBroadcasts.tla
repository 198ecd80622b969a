----------------------------- MODULE MCBroadcasts -----------------------------
(* Instances of Broadcasts for TLC.                                        *)
EXTENDS Broadcasts

CONSTANTS a, b, c, e1, k1, m1, m2

ThreeLevels == [p \in Procs |-> CASE p = a -> 1 [] p = b -> 2 [] OTHER -> 3]
NoPeriod == [p \in {} |-> 1]
Forever == {INFINITE}
=============================================================================
