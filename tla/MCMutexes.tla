------------------------------ MODULE MCMutexes ------------------------------
(* Instances of Mutexes for TLC.                                           *)
EXTENDS Mutexes

CONSTANTS a, b, c, m1, lk

ThreeLevels == [p \in Procs |-> CASE p = a -> 1 [] p = b -> 2 [] OTHER -> 3]
NoPeriod == [p \in {} |-> 1]

(* The preemption lock has the highest priority.                           *)
Ceilings == [m \in Mutexes |-> IF m = lk THEN 5 ELSE 3]

Forever == {0, INFINITE}
=============================================================================
