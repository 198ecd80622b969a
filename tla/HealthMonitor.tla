---------------------------- MODULE HealthMonitor ----------------------------
(***************************************************************************)
(* The health monitor of a partition (kernel/hm.c, arinc/arinc_HM.c): a    *)
(* process raises an error, by RAISE_APPLICATION_ERROR or by a trap; the   *)
(* error is written to the partition's error list and the error handler    *)
(* process is made READY; the handler reads the list.  A process that      *)
(* raises an error while the list is full waits in                         *)
(* error_processes_waiting_queue, here queue[ErrorList].                   *)
(*                                                                         *)
(* What an error says (code, process, text) does not matter to what        *)
(* happens, so the list is its count, nb_errors.  The partition's table    *)
(* holds an action for each code; only IGNORE changes state, the others    *)
(* print.                                                                  *)
(***************************************************************************)
EXTENDS Processes

CONSTANTS
  ErrorList,   \* the queue of the processes that wait to write their error
  MaxErrors,   \* max_errors
  MaxWritten   \* bound: nb_errors, which can pass max_errors

ASSUME HealthAssumption ==
  /\ ErrorList \in Resources
  /\ MaxErrors \in Nat \ {0}
  /\ MaxWritten \in Nat

VARIABLES
  nb_errors,   \* error_list_cb->nb_errors
  unseen       \* history: an error was written since the handler last ran

hmVars == <<nb_errors, unseen>>
allVars == <<vars, hmVars>>

-----------------------------------------------------------------------------
(* Forms of the definitions below with a plausible fault in them.          *)

(* The raising process goes on and the handler is left for its next yield. *)
WakeHandlerLater(st) ==
  /\ state' = IF st[ErrorHandler] \in {"DORMANT", "WAITING"}
              THEN [st EXCEPT ![ErrorHandler] = "READY"] ELSE st
  /\ UNCHANGED exec

(* The error of the process that is let go is not written.                 *)
LetGoUnwritten ==
  /\ nb_errors' = nb_errors - 1
  /\ \/ /\ queue[ErrorList] = <<>>
        /\ UNCHANGED <<state, queue>>
     \/ /\ queue[ErrorList] # <<>>
        /\ queue' = [queue EXCEPT ![ErrorList] = Tail(@)]
        /\ state' = [state EXCEPT ![Head(queue[ErrorList])] = "READY"]

-----------------------------------------------------------------------------
(* hm_write_error: no test for a full list.                                *)
hm_write_error ==
  /\ nb_errors < MaxWritten
  /\ nb_errors' = nb_errors + 1
  /\ unseen' = TRUE

(* A DORMANT or WAITING handler starts from its entry point; st is what    *)
(* the states are before.                                                  *)
WakeHandler(st) ==
  \/ /\ st[ErrorHandler] \in {"DORMANT", "WAITING"}
     /\ state' = [st EXCEPT ![ErrorHandler] = "READY"]
     /\ yield_to_partition
  \/ /\ st[ErrorHandler] \notin {"DORMANT", "WAITING"}
     /\ state' = st
     /\ UNCHANGED exec

(* hm_raise_partition_error, with hm_raise_module_error, which changes     *)
(* nothing: IGNORE makes the process READY that FAILED_PROCESS_ID names.   *)
(* That of the error handler is never set: it may name any process.        *)
PartitionAction(p, st) ==
  \/ state' = st
  \/ \E q \in (IF p = ErrorHandler THEN Procs ELSE {p}) :
       state' = [st EXCEPT ![q] = "READY"]

(* The running process may still report to the handler.                    *)
HasHandler == ErrorHandler \notin {current, None}

RaiseUpwards ==
  /\ ~HasHandler
  /\ PartitionAction(current, state)
  /\ UNCHANGED <<exec, call, queue, hmVars>>

RaiseAtOnce ==
  /\ HasHandler
  /\ nb_errors # MaxErrors
  /\ hm_write_error
  /\ WakeHandler(state)
  /\ UNCHANGED <<call, queue>>

(* list_push: the last to come is the first to be let go.                  *)
RaiseLater ==
  /\ HasHandler
  /\ nb_errors = MaxErrors
  /\ Len(queue[ErrorList]) < MaxQueue
  /\ state' = [state EXCEPT ![current] = "WAITING"]
  /\ queue' = [queue EXCEPT ![ErrorList] = <<current>> \o @]
  /\ call' = [call EXCEPT ![current] = "RAISE_APPLICATION_ERROR"]
  /\ yield_to_partition
  /\ UNCHANGED hmVars

Untouched ==
  UNCHANGED <<mode, current, order, tick_pending, priority, suspended,
              timeVars, tracked, owned>>

RAISE_APPLICATION_ERROR ==
  /\ Calls("RAISE_APPLICATION_ERROR")
  /\ RaiseUpwards \/ RaiseAtOnce \/ RaiseLater
  /\ Untouched

(* After its wait the process writes its error, which GET_ERROR_STATUS has *)
(* already written for it, once more.                                      *)
RaiseReturns ==
  /\ exec = "proc"
  /\ call[current] = "RAISE_APPLICATION_ERROR"
  /\ call' = [call EXCEPT ![current] = "app"]
  /\ hm_write_error
  /\ WakeHandler(state)
  /\ UNCHANGED queue
  /\ Untouched

(* The running process traps: hm_raise_error, which ends with a jump to    *)
(* the partition OS in every case.  It traps in its own code: a trap       *)
(* inside a service, which would leave the service half done, is left out. *)
hm_raise_error ==
  LET faulted == [state EXCEPT ![current] = "FAULTED"]
  IN  /\ Calls("fault")
      /\ exec' = "os"
      /\ \/ /\ ~HasHandler
            /\ PartitionAction(current, faulted)
            /\ UNCHANGED hmVars
         \/ /\ HasHandler
            /\ hm_write_error
            /\ state' = IF state[ErrorHandler] \in {"DORMANT", "WAITING"}
                        THEN [faulted EXCEPT ![ErrorHandler] = "READY"]
                        ELSE faulted
      /\ UNCHANGED <<call, queue>>
      /\ Untouched

(* The count after hm_read_error.                                          *)
hm_read_error == nb_errors - 1

(* An error is read; then the first waiting process is let go, and its     *)
(* pending error written.                                                  *)
ReadError ==
  \/ /\ queue[ErrorList] = <<>>
     /\ nb_errors' = hm_read_error
     /\ UNCHANGED <<state, queue>>
  \/ /\ queue[ErrorList] # <<>>
     /\ nb_errors' = hm_read_error + 1
     /\ queue' = [queue EXCEPT ![ErrorList] = Tail(@)]
     /\ state' = [state EXCEPT ![Head(queue[ErrorList])] = "READY"]

GET_ERROR_STATUS ==
  /\ Calls("GET_ERROR_STATUS")
  /\ current = ErrorHandler
  /\ nb_errors # 0
  /\ ReadError
  /\ UNCHANGED <<exec, call, unseen>>
  /\ Untouched

(* The partition OS may dispatch the handler.                              *)
HealthOS ==
  /\ partition_OS
  /\ unseen' = (unseen /\ current' # ErrorHandler)
  /\ UNCHANGED nb_errors

ProcessService == Service /\ UNCHANGED hmVars

HealthTick == Tick /\ UNCHANGED hmVars

(* CREATE_ERROR_HANDLER has emptied the list.                              *)
HealthInit == Init /\ nb_errors = 0 /\ unseen = FALSE

HealthNext ==
  \/ RAISE_APPLICATION_ERROR
  \/ RaiseReturns
  \/ hm_raise_error
  \/ GET_ERROR_STATUS
  \/ ProcessService
  \/ HealthOS
  \/ HealthTick

HealthSpec == HealthInit /\ [][HealthNext]_allVars

-----------------------------------------------------------------------------
(* Properties *)

(* The process that raised an error, and every other one, gets on only     *)
(* after the error handler had the processor ("absolute priority over      *)
(* normal processes", README, "Process-Level"), as long as the handler     *)
(* itself has not faulted.                                                 *)
HandlerFirst ==
  exec = "proc" /\ current # ErrorHandler /\ unseen =>
    state[ErrorHandler] = "FAULTED"

(* A process that waits to write its error can be let go: only a read of   *)
(* an error lets it go, so the list is never read empty while it waits,    *)
(* whatever was stopped, faulted, overwritten or written twice meanwhile.  *)
WaiterInReach == queue[ErrorList] # <<>> => nb_errors >= MaxErrors

=============================================================================
