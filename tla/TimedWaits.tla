------------------------------ MODULE TimedWaits ------------------------------
(***************************************************************************)
(* Processes with a history of the delays passed to TIMED_WAIT             *)
(* (arinc/arinc_time.c).  time_counter cannot tell whether such a wait     *)
(* lasts as long as it should: it is shared by time-outs, delays and       *)
(* suspensions, and services set and clear it.  The history only counts    *)
(* the ticks since the call.                                               *)
(***************************************************************************)
EXTENDS Processes

VARIABLE asleep  \* history: the ticks left of the TIMED_WAIT a process is in

timedVars == <<vars, asleep>>

TimedInit == Init /\ asleep = [p \in Procs |-> 0]

FallAsleep ==
  \E d \in Timeouts :
    /\ TIMED_WAIT(d)
    /\ asleep' = [asleep EXCEPT ![current] = d]

TimePasses ==
  /\ Tick
  /\ asleep' = [p \in Procs |-> CountDown(asleep[p])]

(* Whoever no longer waits is not asleep, however that came about.         *)
OtherStep ==
  /\ OtherService \/ partition_OS
  /\ asleep' = [p \in Procs |-> IF state'[p] = "WAITING" THEN asleep[p] ELSE 0]

TimedNext == FallAsleep \/ TimePasses \/ OtherStep

TimedSpec == TimedInit /\ [][TimedNext]_timedVars

(* The timer is re-armed by every interrupt; partition_OS loops for ever.  *)
FairTimedSpec == TimedSpec /\ WF_vars(Tick) /\ WF_vars(partition_OS)

-----------------------------------------------------------------------------
(* Properties *)

(* A release point that has been reached: of a periodic process the one of *)
(* this period, of another the one that a DELAYED_START cut short by STOP  *)
(* or RESUME has left behind.                                              *)
OldRelease(p) == release[p] <= 0 /\ (p \in Periodic \/ init_delay[p] # 0)

(* A process in TIMED_WAIT sleeps until its delay is over (test suite 1 of *)
(* app/arinc_test_apex_process_and_time.c), whatever happens to others: no *)
(* time-out, suspension, start or release of another process and no timer  *)
(* of an earlier wait ends it sooner.  What does, in this code: STOP, the  *)
(* RESUME of a sleeper that was suspended, and its own old release point.  *)
NoEarlyWake ==
  [][\A p \in Procs :
       asleep[p] > 0 /\ state'[p] # "WAITING" =>
         \/ state'[p] = "DORMANT"
         \/ exec = "proc" /\ suspended[p]
         \/ OldRelease(p)]_timedVars
=============================================================================
