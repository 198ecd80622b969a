----------------------------- MODULE MCSemaphores -----------------------------
(* Instances of Semaphores for TLC.                                        *)
EXTENDS Semaphores

CONSTANTS a, b, c, s1

ThreeLevels == [p \in Procs |-> CASE p = a -> 1 [] p = b -> 2 [] OTHER -> 3]
NoPeriod == [p \in {} |-> 1]
OneToken == [s \in Semaphores |-> 1]
TwoTokens == [s \in Semaphores |-> 2]

ForeverOrTick == {1, INFINITE}
=============================================================================
