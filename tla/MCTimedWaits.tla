----------------------------- MODULE MCTimedWaits -----------------------------
(* Instances of TimedWaits for TLC.                                        *)
EXTENDS TimedWaits

CONSTANTS a, b, c

(* The periodic process c comes first.                                     *)
TwoLevels == [p \in Procs |-> IF p = c THEN 2 ELSE 1]

PeriodOfTwo == [p \in Periodic |-> 2]

ZeroOneForever == {0, 1, INFINITE}

(* Processes of the same attributes are interchangeable.                   *)
Peers == Permutations({a, b})
=============================================================================
