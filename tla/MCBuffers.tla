------------------------------- MODULE MCBuffers -------------------------------
(* Instances of Buffers for TLC.                                           *)
EXTENDS Buffers

CONSTANTS a, b, c, r0, w0, r1, w1, m1, m2

TwoLevels == [p \in Procs |-> IF p = c THEN 2 ELSE 1]
NoPeriod == [p \in {} |-> 1]
Capacities == [i \in Buffers |-> 2]
ReaderQueues == [i \in Buffers |-> IF i = 0 THEN r0 ELSE r1]
WriterQueues == [i \in Buffers |-> IF i = 0 THEN w0 ELSE w1]
Lengths == [m \in Messages \cup {None} |-> CASE m = m1 -> 1 [] m = m2 -> 2 [] OTHER -> 0]

ForeverOrTick == {1, INFINITE}
=============================================================================
