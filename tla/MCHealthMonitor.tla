---------------------------- MODULE MCHealthMonitor ----------------------------
(* Instances of HealthMonitor for TLC.                                     *)
EXTENDS HealthMonitor

CONSTANTS h, a, b, errors

NoPeriod == [p \in {} |-> 1]
HandlerAbove == [p \in Procs |-> IF p = h THEN 2 ELSE 1]
=============================================================================
