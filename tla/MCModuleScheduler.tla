-------------------------- MODULE MCModuleScheduler --------------------------
(* Instances of ModuleScheduler for TLC.                                   *)
EXTENDS ModuleScheduler

CONSTANTS p1, p2

W(id, start, duration) == [id |-> id, start |-> start, duration |-> duration]

(* The plan of include/arinc/static_conf.h in 10 ms ticks.                 *)
ConfiguredWindows == <<W(p1, 0, 4), W(p2, 4, 2), W(p1, 6, 2), W(p2, 8, 2)>>

(* A plan with idle gaps between windows and at the end of the frame.      *)
GappedWindows == <<W(p1, 0, 2), W(p2, 3, 2)>>
=============================================================================
