------------------------- MODULE HealthMonitorProofs -------------------------
(***************************************************************************)
(* Proofs about HealthMonitor for every number of processes, every length  *)
(* of the error list and every set of services the partition calls.        *)
(***************************************************************************)
EXTENDS HealthMonitor, ProcessesProofs

(* What the next step needs besides WaiterInReach: the list is never read  *)
(* empty, and no waiting_* pointer refers to the error queue, which is why *)
(* remove_process_from_waiting_queue leaves that queue alone.              *)
ErrorQueueInv ==
  /\ nb_errors \in Nat
  /\ DOMAIN queue = Resources
  /\ DOMAIN tracked = Procs
  /\ \A p \in Procs : ErrorList \notin tracked[p]
  /\ WaiterInReach

(* No process service, not even STOP of a process that waits to write its  *)
(* error, touches the error queue.                                         *)
LEMMA ServiceLeavesErrorQueue ==
  ASSUME ErrorQueueInv, Service
  PROVE  /\ queue'[ErrorList] = queue[ErrorList]
         /\ DOMAIN queue' = Resources
         /\ DOMAIN tracked' = Procs
         /\ \A p \in Procs : ErrorList \notin tracked'[p]
  <1>1. ASSUME NEW p \in Named, STOP(p)
        PROVE  /\ queue'[ErrorList] = queue[ErrorList]
               /\ DOMAIN queue' = Resources
               /\ DOMAIN tracked' = Procs
               /\ \A q \in Procs : ErrorList \notin tracked'[q]
    <2>1. p \in Procs
      BY DEF Named
    <2>2. ErrorList \in Resources /\ ErrorList \notin tracked[p]
      BY <2>1, HealthAssumption DEF ErrorQueueInv
    <2>3. /\ queue' = [r \in Resources |->
               IF r \in tracked[p] THEN RemoveFirst(queue[r], p) ELSE queue[r]]
          /\ tracked' = [tracked EXCEPT ![p] = {}]
      BY <1>1 DEF STOP, remove_process_from_waiting_queue
    <2> QED
      BY <2>1, <2>2, <2>3 DEF ErrorQueueInv
  <1>2. CASE ~\E p \in Named : STOP(p)
    <2>1. UNCHANGED <<queue, tracked>>
      BY <1>2, OnlyStopEmptiesQueues DEF Next
    <2> QED
      BY <2>1 DEF ErrorQueueInv
  <1> QED
    BY <1>1, <1>2

LEMMA InitErrorQueue == HealthInit => ErrorQueueInv
  BY HealthAssumption
     DEF HealthInit, Init, ErrorQueueInv, WaiterInReach

LEMMA ErrorQueueStep == ErrorQueueInv /\ [HealthNext]_allVars => ErrorQueueInv'
  <1> SUFFICES ASSUME ErrorQueueInv, [HealthNext]_allVars
               PROVE  ErrorQueueInv'
    OBVIOUS
  <1> USE DEF ErrorQueueInv, WaiterInReach
  <1>0. ErrorList \in Resources /\ MaxErrors \in Nat
    BY HealthAssumption
  <1>1. CASE RAISE_APPLICATION_ERROR
    <2>1. tracked' = tracked
      BY <1>1 DEF RAISE_APPLICATION_ERROR, Untouched
    <2>2. CASE RaiseUpwards
      BY <2>1, <2>2 DEF RaiseUpwards, hmVars
    <2>3. CASE RaiseAtOnce
      BY <2>1, <2>3, <1>0 DEF RaiseAtOnce, hm_write_error
    <2>4. CASE RaiseLater
      BY <2>1, <2>4, <1>0 DEF RaiseLater, hmVars
    <2> QED
      BY <1>1, <2>2, <2>3, <2>4 DEF RAISE_APPLICATION_ERROR
  <1>2. CASE RaiseReturns
    BY <1>2, <1>0 DEF RaiseReturns, hm_write_error, Untouched
  <1>3. CASE hm_raise_error
    BY <1>3, <1>0 DEF hm_raise_error, hm_write_error, Untouched, hmVars
  <1>4. CASE GET_ERROR_STATUS
    <2>1. tracked' = tracked /\ nb_errors # 0
      BY <1>4 DEF GET_ERROR_STATUS, Untouched
    <2>2. CASE queue[ErrorList] = <<>> /\ nb_errors' = hm_read_error
               /\ UNCHANGED queue
      BY <2>1, <2>2 DEF hm_read_error
    <2>3. CASE queue[ErrorList] # <<>> /\ nb_errors' = hm_read_error + 1
               /\ queue' = [queue EXCEPT ![ErrorList] = Tail(@)]
      BY <2>1, <2>3, <1>0 DEF hm_read_error
    <2> QED
      BY <1>4, <2>2, <2>3 DEF GET_ERROR_STATUS, ReadError
  <1>5. CASE ProcessService
    BY <1>5, ServiceLeavesErrorQueue DEF ProcessService, hmVars
  <1>6. CASE HealthOS
    BY <1>6 DEF HealthOS, partition_OS
  <1>7. CASE HealthTick
    BY <1>7 DEF HealthTick, Tick, waitVars, hmVars
  <1>8. CASE UNCHANGED allVars
    BY <1>8 DEF allVars, vars, waitVars, hmVars
  <1> QED
    BY <1>1, <1>2, <1>3, <1>4, <1>5, <1>6, <1>7, <1>8 DEF HealthNext

(* However often the list is overwritten, an error written twice or a      *)
(* waiting process stopped, a process in error_processes_waiting_queue     *)
(* waits only while the list holds max_errors errors or more: the reads    *)
(* that will let it go are still to come.                                  *)
THEOREM WaitersCanBeLetGo == HealthSpec => []WaiterInReach
  <1>1. ErrorQueueInv => WaiterInReach
    BY DEF ErrorQueueInv
  <1> QED
    BY <1>1, InitErrorQueue, ErrorQueueStep, PTL DEF HealthSpec


(***************************************************************************)
(* The handler runs first                                                  *)
(***************************************************************************)

(* RunningIsCurrent is not enough here, nor true: IGNORE makes a running   *)
(* process READY.  An unseen error finds the handler READY or FAULTED; the *)
(* handler is not READY while another process runs; and only a process     *)
(* that has a handler above it waits to write its error.                   *)
HandlerInv ==
  /\ TypeOK
  /\ unseen \in BOOLEAN
  /\ \A p \in Procs : state[p] = "RUNNING" => p = current
  /\ unseen => /\ ErrorHandler \in Procs
               /\ state[ErrorHandler] \in {"READY", "FAULTED"}
               /\ exec = "proc" => current # ErrorHandler
  /\ exec = "proc" /\ current # ErrorHandler /\ ErrorHandler \in Procs =>
       state[ErrorHandler] # "READY"
  /\ \A p \in Procs : call[p] = "RAISE_APPLICATION_ERROR" =>
       ErrorHandler \in Procs /\ p # ErrorHandler

LEMMA InitHandler == HealthInit => HandlerInv
  <1> SUFFICES ASSUME HealthInit PROVE HandlerInv
    OBVIOUS
  <1>1. TypeOK
    BY InitTypeOK DEF HealthInit
  <1> QED
    BY <1>1 DEF HealthInit, Init, HandlerInv

(* A service dispatches nobody, and does not name the error handler.       *)
LEMMA ServiceFacts ==
  ASSUME TypeOK, Service
  PROVE  /\ current' = current
         /\ exec' \in {exec, "os"}
         /\ \A p \in Procs : state'[p] = "RUNNING" => state[p] = "RUNNING"
         /\ \A p \in Procs \ Named : \/ state'[p] = state[p]
                                     \/ state[p] = "WAITING" /\ exec' = "os"
                                     \/ exec = "proc" /\ p = current
  <1> DEFINE Goal == /\ current' = current
                     /\ exec' \in {exec, "os"}
                     /\ \A p \in Procs : state'[p] = "RUNNING" => state[p] = "RUNNING"
                     /\ \A p \in Procs \ Named : \/ state'[p] = state[p]
                                                 \/ state[p] = "WAITING" /\ exec' = "os"
                                                 \/ exec = "proc" /\ p = current
  <1> SUFFICES Goal
    OBVIOUS
  <1>t. state \in [Procs -> States]
    BY DEF TypeOK
  <1>1. ASSUME NEW q \in Named,
               \/ SUSPEND(q) \/ RESUME(q) \/ STOP(q) \/ START(q)
               \/ \E d \in Timeouts : DELAYED_START(q, d)
               \/ \E v \in Priorities : SET_PRIORITY(q, v)
        PROVE  Goal
    <2>1. state' = state \/ \E x \in States \ {"RUNNING"} : state' = [state EXCEPT ![q] = x]
      BY <1>1 DEF SUSPEND, RESUME, STOP, Halt, START, DELAYED_START, AwaitRelease,
           SET_PRIORITY, States
    <2>2. current' = current /\ exec' \in {exec, "os"}
      BY <1>1 DEF SUSPEND, RESUME, STOP, START, DELAYED_START, AwaitRelease, Restart,
           SET_PRIORITY, yield_to_partition, schedVars
    <2> QED
      BY <1>t, <2>1, <2>2
  <1>2. ASSUME STOP_SELF \/ PERIODIC_WAIT
               \/ \E t \in Timeouts : SUSPEND_SELF(t) \/ TIMED_WAIT(t)
        PROVE  Goal
    <2>1. \E x \in States \ {"RUNNING"} : state' = [state EXCEPT ![current] = x]
      BY <1>2 DEF STOP_SELF, PERIODIC_WAIT, SUSPEND_SELF, TIMED_WAIT, Halt, States
    <2>2. current' = current /\ exec' = "os" /\ exec = "proc"
      BY <1>2 DEF STOP_SELF, PERIODIC_WAIT, SUSPEND_SELF, TIMED_WAIT, Calls, yield_to_partition
    <2> QED
      BY <1>t, <2>1, <2>2
  <1>3. CASE SET_PARTITION_MODE_NORMAL
    <2>1. /\ \A p \in Procs : state'[p] = IF StartsNow(p) THEN "READY" ELSE state[p]
          /\ \A p \in Procs : StartsNow(p) => state[p] = "WAITING"
          /\ current' = current /\ exec' = "os"
      BY <1>3 DEF SET_PARTITION_MODE_NORMAL, StartsNow, yield_to_partition
    <2> QED
      BY <2>1
  <1> HIDE DEF Goal
  <1> QED
    BY <1>1, <1>2, <1>3 DEF Service, OtherService

LEMMA ServiceKeepsHandler ==
  ASSUME HandlerInv, ProcessService
  PROVE  HandlerInv'
  <1>t. TypeOK /\ call \in [Procs -> Doing] /\ "RAISE_APPLICATION_ERROR" \in Blocking
    BY DEF HandlerInv, TypeOK, Blocking, Doing, RcOnly
  <1>n. Service /\ Next /\ unseen' = unseen
    BY DEF ProcessService, Next, hmVars
  <1>1. TypeOK'
    BY <1>n, <1>t, TypeStep
  <1>2. /\ current' = current
        /\ exec' \in {exec, "os"}
        /\ \A p \in Procs : state'[p] = "RUNNING" => state[p] = "RUNNING"
        /\ \A p \in Procs \ Named : \/ state'[p] = state[p]
                                    \/ state[p] = "WAITING" /\ exec' = "os"
                                    \/ exec = "proc" /\ p = current
    BY <1>n, <1>t, ServiceFacts
  <1>3. \A p \in Procs : call'[p] = "RAISE_APPLICATION_ERROR" => call'[p] = call[p]
    BY <1>n, <1>t, CallsKept
  <1>4. ErrorHandler \notin Named
    BY DEF Named
  <1>5. unseen' => /\ ErrorHandler \in Procs
                   /\ state'[ErrorHandler] \in {"READY", "FAULTED"}
                   /\ exec' = "proc" => current' # ErrorHandler
    BY <1>n, <1>2, <1>4 DEF HandlerInv
  <1>6. exec' = "proc" /\ current' # ErrorHandler /\ ErrorHandler \in Procs =>
          state'[ErrorHandler] # "READY"
    BY <1>2, <1>4 DEF HandlerInv
  <1> QED
    BY <1>n, <1>1, <1>2, <1>3, <1>5, <1>6 DEF HandlerInv

LEMMA SchedulerKeepsHandler ==
  ASSUME HandlerInv, HealthOS
  PROVE  HandlerInv'
  <1>t. /\ TypeOK /\ call \in [Procs -> Doing] /\ "RAISE_APPLICATION_ERROR" \in Blocking
        /\ state \in [Procs -> States] /\ ToSet(order) = Procs
    BY DEF HandlerInv, TypeOK, Blocking, Doing, RcOnly
  <1>n. /\ Next /\ exec = "os" /\ priority' = priority /\ order' = order
        /\ unseen' = (unseen /\ current' # ErrorHandler)
    BY DEF HealthOS, partition_OS, Next
  <1>1. TypeOK'
    BY <1>n, <1>t, TypeStep
  <1>2. PICK st \in {state, StateAfterUpdate} : process_schedule(st)
    BY DEF HealthOS, partition_OS
  <1>3. /\ st \in [Procs -> States]
        /\ \A p \in Procs : /\ st[p] = "RUNNING" => state[p] = "RUNNING"
                            /\ state[p] \in {"READY", "FAULTED"} => st[p] \in {"READY", "FAULTED"}
    BY <1>t, <1>2 DEF StateAfterUpdate, States
  <1>4. \A p \in Procs : st[p] = "RUNNING" => p = current
    BY <1>3 DEF HandlerInv
  <1>5. RunningIsCurrent' /\ PriorityRespected'
    BY <1>t, <1>n, <1>2, <1>3, <1>4, ScheduleChoice
  <1>6. \A p \in Procs : call'[p] = "RAISE_APPLICATION_ERROR" => call'[p] = call[p]
    BY <1>n, <1>t, CallsKept
  <1>7. ASSUME unseen, current' # ErrorHandler
        PROVE  ErrorHandler \in Procs /\ state'[ErrorHandler] \in {"READY", "FAULTED"}
    <2>1. ErrorHandler \in Procs /\ st[ErrorHandler] \in {"READY", "FAULTED"}
      BY <1>3, <1>7 DEF HandlerInv
    <2>2. st[ErrorHandler] # "READY"
      <3> SUFFICES ASSUME st[ErrorHandler] = "READY" PROVE FALSE
        OBVIOUS
      <3>1. Demoted(st)[ErrorHandler] = "READY"
        BY <2>1 DEF Demoted
      <3>2. ErrorHandler \in {p \in ToSet(order) : Demoted(st)[p] = "READY"}
        BY <1>t, <2>1, <3>1
      <3>3. current' = ErrorHandler
        BY <1>2, <3>2 DEF process_schedule
      <3> QED
        BY <1>7, <3>3
    <2>3. state'[ErrorHandler] = st[ErrorHandler]
      BY <1>t, <1>2, <1>3, <2>1, <2>2, ScheduleKeeps
    <2> QED
      BY <2>1, <2>3
  <1>8. unseen' \in BOOLEAN
    BY <1>n, Zenon
  <1>9. unseen' => unseen /\ current' # ErrorHandler
    BY <1>n, Zenon
  <1> QED
    BY <1>1, <1>5, <1>6, <1>7, <1>8, <1>9 DEF HandlerInv, RunningIsCurrent, PriorityRespected

LEMMA OwnStepType ==
  ASSUME TypeOK, Untouched, state' \in [Procs -> States],
         queue' \in [Resources -> Seq(Procs)], call' \in [Procs -> Doing],
         exec' \in {exec, "os"}
  PROVE  TypeOK'
  BY DEF TypeOK, Untouched, timeVars

(* The running process has a handler above it, which is woken unless it    *)
(* has faulted.                                                            *)
LEMMA WakingHandler ==
  ASSUME HandlerInv, exec = "proc", current \in Procs, ErrorHandler \in Procs,
         current # ErrorHandler, WakeHandler(state)
  PROVE  /\ state' \in [Procs -> States]
         /\ \A p \in Procs : state'[p] = "RUNNING" => state[p] = "RUNNING"
         /\ exec' \in {exec, "os"}
         /\ state'[ErrorHandler] \in {"READY", "FAULTED"}
         /\ exec' = "proc" => state'[ErrorHandler] # "READY"
  <1>t. state \in [Procs -> States] /\ state[ErrorHandler] \notin {"RUNNING", "READY"}
    BY DEF HandlerInv, TypeOK
  <1>1. CASE state' = [state EXCEPT ![ErrorHandler] = "READY"] /\ exec' = "os"
    BY <1>1, <1>t DEF States
  <1>2. CASE /\ state[ErrorHandler] \notin {"DORMANT", "WAITING"}
             /\ state' = state /\ exec' = exec
    <2>1. state[ErrorHandler] = "FAULTED"
      BY <1>2, <1>t DEF States
    <2> QED
      BY <1>2, <1>t, <2>1
  <1> QED
    BY <1>1, <1>2 DEF WakeHandler, yield_to_partition

(* No handler above the running process: the states of some may change,    *)
(* but there is no unseen error.                                           *)
LEMMA PartitionActionFacts ==
  ASSUME NEW st \in [Procs -> States], current \in Procs, PartitionAction(current, st)
  PROVE  /\ state' \in [Procs -> States]
         /\ \A p \in Procs : state'[p] = "RUNNING" => st[p] = "RUNNING"
  BY DEF PartitionAction, States

LEMMA RaiseKeepsHandler ==
  ASSUME HandlerInv, RAISE_APPLICATION_ERROR
  PROVE  HandlerInv'
  <1>t. /\ TypeOK /\ exec = "proc" /\ current \in Procs /\ call[current] = "app"
        /\ state \in [Procs -> States] /\ call \in [Procs -> Doing]
        /\ queue \in [Resources -> Seq(Procs)]
        /\ Untouched /\ current' = current
        /\ None \notin Procs /\ ErrorHandler \in Procs \cup {None}
    BY ProcsAssumption DEF HandlerInv, TypeOK, RAISE_APPLICATION_ERROR, Calls, Untouched
  <1>1. CASE RaiseUpwards
    <2>1. /\ UNCHANGED <<exec, call, queue, unseen>> /\ ErrorHandler \in {current, None}
          /\ PartitionAction(current, state)
      BY <1>1 DEF RaiseUpwards, HasHandler, hmVars
    <2>2. /\ state' \in [Procs -> States]
          /\ \A p \in Procs : state'[p] = "RUNNING" => state[p] = "RUNNING"
      BY <1>t, <2>1, PartitionActionFacts
    <2>3. TypeOK'
      BY <1>t, <2>1, <2>2, OwnStepType
    <2>4. ~unseen
      BY <1>t, <2>1 DEF HandlerInv
    <2> QED
      BY <1>t, <2>1, <2>2, <2>3, <2>4 DEF HandlerInv
  <1>2. CASE RaiseAtOnce
    <2>1. /\ UNCHANGED <<call, queue>> /\ ErrorHandler \in Procs /\ current # ErrorHandler
          /\ WakeHandler(state) /\ unseen' = TRUE
      BY <1>2, <1>t DEF RaiseAtOnce, HasHandler, hm_write_error
    <2>2. /\ state' \in [Procs -> States]
          /\ \A p \in Procs : state'[p] = "RUNNING" => state[p] = "RUNNING"
          /\ exec' \in {exec, "os"}
          /\ state'[ErrorHandler] \in {"READY", "FAULTED"}
          /\ exec' = "proc" => state'[ErrorHandler] # "READY"
      BY <1>t, <2>1, WakingHandler
    <2>3. TypeOK'
      BY <1>t, <2>1, <2>2, OwnStepType
    <2> QED
      BY <1>t, <2>1, <2>2, <2>3 DEF HandlerInv
  <1>3. CASE RaiseLater
    <2> DEFINE s == queue[ErrorList]
               n == <<current>> \o s
    <2>1. /\ ErrorHandler \in Procs /\ current # ErrorHandler
          /\ state' = [state EXCEPT ![current] = "WAITING"]
          /\ queue' = [queue EXCEPT ![ErrorList] = n]
          /\ call' = [call EXCEPT ![current] = "RAISE_APPLICATION_ERROR"]
          /\ exec' = "os" /\ unseen' = unseen
      BY <1>3, <1>t DEF RaiseLater, HasHandler, yield_to_partition, hmVars
    <2>2. n \in Seq(Procs)
      <3>1. s \in Seq(Procs) /\ <<current>> \in Seq(Procs)
        BY <1>t, HealthAssumption
      <3> HIDE DEF s
      <3> QED
        BY <3>1, ConcatProperties
    <2> HIDE DEF n
    <2>3. queue' \in [Resources -> Seq(Procs)]
      BY <1>t, <2>1, <2>2
    <2>4. state' \in [Procs -> States] /\ call' \in [Procs -> Doing]
      BY <1>t, <2>1 DEF States, Doing
    <2>5. TypeOK'
      BY <1>t, <2>1, <2>3, <2>4, OwnStepType
    <2>6. /\ \A p \in Procs : state'[p] = "RUNNING" => state[p] = "RUNNING"
          /\ state'[ErrorHandler] = state[ErrorHandler]
          /\ \A p \in Procs : call'[p] = "RAISE_APPLICATION_ERROR" => p = current \/ call'[p] = call[p]
      BY <1>t, <2>1
    <2> QED
      BY <1>t, <2>1, <2>5, <2>6 DEF HandlerInv
  <1> QED
    BY <1>1, <1>2, <1>3 DEF RAISE_APPLICATION_ERROR

LEMMA ReturnKeepsHandler ==
  ASSUME HandlerInv, RaiseReturns
  PROVE  HandlerInv'
  <1>t. /\ TypeOK /\ exec = "proc" /\ current \in Procs
        /\ call[current] = "RAISE_APPLICATION_ERROR"
        /\ call \in [Procs -> Doing] /\ queue \in [Resources -> Seq(Procs)]
        /\ Untouched /\ current' = current
    BY DEF HandlerInv, TypeOK, RaiseReturns, Untouched
  <1>1. /\ queue' = queue /\ call' = [call EXCEPT ![current] = "app"]
        /\ ErrorHandler \in Procs /\ current # ErrorHandler
        /\ WakeHandler(state) /\ unseen' = TRUE
    BY <1>t DEF RaiseReturns, hm_write_error, HandlerInv
  <1>2. /\ state' \in [Procs -> States]
        /\ \A p \in Procs : state'[p] = "RUNNING" => state[p] = "RUNNING"
        /\ exec' \in {exec, "os"}
        /\ state'[ErrorHandler] \in {"READY", "FAULTED"}
        /\ exec' = "proc" => state'[ErrorHandler] # "READY"
    BY <1>t, <1>1, WakingHandler
  <1>3. call' \in [Procs -> Doing]
    BY <1>t, <1>1, DoingContains
  <1>4. TypeOK'
    BY <1>t, <1>1, <1>2, <1>3, OwnStepType
  <1>5. \A p \in Procs : call'[p] = "RAISE_APPLICATION_ERROR" => call'[p] = call[p]
    BY <1>t, <1>1
  <1> QED
    BY <1>t, <1>1, <1>2, <1>4, <1>5 DEF HandlerInv

LEMMA FaultKeepsHandler ==
  ASSUME HandlerInv, hm_raise_error
  PROVE  HandlerInv'
  <1> DEFINE faulted == [state EXCEPT ![current] = "FAULTED"]
  <1>t. /\ TypeOK /\ exec = "proc" /\ current \in Procs
        /\ state \in [Procs -> States] /\ call \in [Procs -> Doing]
        /\ queue \in [Resources -> Seq(Procs)]
        /\ Untouched /\ current' = current /\ exec' = "os" /\ UNCHANGED <<call, queue>>
        /\ None \notin Procs /\ ErrorHandler \in Procs \cup {None}
    BY ProcsAssumption DEF HandlerInv, TypeOK, hm_raise_error, Calls, Untouched
  <1>f. /\ faulted \in [Procs -> States]
        /\ \A p \in Procs : faulted[p] = IF p = current THEN "FAULTED" ELSE state[p]
    BY <1>t DEF States
  <1>1. CASE ~HasHandler /\ PartitionAction(current, faulted) /\ UNCHANGED hmVars
    <2> HIDE DEF faulted
    <2>1. /\ state' \in [Procs -> States]
          /\ \A p \in Procs : state'[p] = "RUNNING" => faulted[p] = "RUNNING"
      BY <1>t, <1>f, <1>1, PartitionActionFacts
    <2>2. TypeOK'
      BY <1>t, <2>1, OwnStepType
    <2>3. ~unseen /\ unseen' = unseen
      BY <1>t, <1>1 DEF HandlerInv, HasHandler, hmVars
    <2> QED
      BY <1>f, <1>t, <2>1, <2>2, <2>3 DEF HandlerInv
  <1>2. CASE /\ HasHandler /\ hm_write_error
             /\ state' = IF state[ErrorHandler] \in {"DORMANT", "WAITING"}
                         THEN [faulted EXCEPT ![ErrorHandler] = "READY"] ELSE faulted
    <2> HIDE DEF faulted
    <2>1. ErrorHandler \in Procs /\ current # ErrorHandler /\ unseen' = TRUE
      BY <1>2, <1>t DEF HasHandler, hm_write_error
    <2>2. /\ state' \in [Procs -> States]
          /\ \A p \in Procs : state'[p] = "RUNNING" => faulted[p] = "RUNNING"
      BY <1>2, <1>f DEF States
    <2>3. state'[ErrorHandler] \in {"READY", "FAULTED"}
      <3>1. CASE state[ErrorHandler] \in {"DORMANT", "WAITING"}
        BY <1>2, <1>f, <2>1, <3>1
      <3>2. CASE state[ErrorHandler] \notin {"DORMANT", "WAITING"}
        <4>1. state[ErrorHandler] # "RUNNING" /\ state[ErrorHandler] \in States
          BY <1>t, <2>1 DEF HandlerInv
        <4> QED
          BY <1>2, <1>f, <2>1, <3>2, <4>1 DEF States
      <3> QED
        BY <3>1, <3>2
    <2>4. TypeOK'
      BY <1>t, <2>2, OwnStepType
    <2> QED
      BY <1>f, <1>t, <2>1, <2>2, <2>3, <2>4 DEF HandlerInv
  <1> QED
    BY <1>1, <1>2 DEF hm_raise_error

LEMMA ReadKeepsHandler ==
  ASSUME HandlerInv, GET_ERROR_STATUS
  PROVE  HandlerInv'
  <1>t. /\ TypeOK /\ exec = "proc" /\ current \in Procs /\ current = ErrorHandler
        /\ state \in [Procs -> States] /\ call \in [Procs -> Doing]
        /\ queue \in [Resources -> Seq(Procs)] /\ ErrorList \in Resources
        /\ Untouched /\ UNCHANGED <<current, exec, call, unseen>>
    BY HealthAssumption DEF HandlerInv, TypeOK, GET_ERROR_STATUS, Calls, Untouched
  <1>1. /\ state' \in [Procs -> States] /\ queue' \in [Resources -> Seq(Procs)]
        /\ \A p \in Procs : state'[p] = "RUNNING" => state[p] = "RUNNING"
    <2>1. CASE UNCHANGED <<state, queue>>
      BY <1>t, <2>1
    <2>2. CASE /\ queue[ErrorList] # <<>>
               /\ queue' = [queue EXCEPT ![ErrorList] = Tail(queue[ErrorList])]
               /\ state' = [state EXCEPT ![Head(queue[ErrorList])] = "READY"]
      <3>1. Head(queue[ErrorList]) \in Procs /\ queue' \in [Resources -> Seq(Procs)]
        BY <1>t, <2>2, DequeueProperties
      <3> QED
        BY <1>t, <2>2, <3>1 DEF States
    <2> QED
      BY <2>1, <2>2 DEF GET_ERROR_STATUS, ReadError
  <1>2. TypeOK'
    BY <1>t, <1>1, OwnStepType
  <1>3. ~unseen
    BY <1>t DEF HandlerInv
  <1> QED
    BY <1>t, <1>1, <1>2, <1>3 DEF HandlerInv

LEMMA HandlerStep == HandlerInv /\ [HealthNext]_allVars => HandlerInv'
  <1> SUFFICES ASSUME HandlerInv, [HealthNext]_allVars PROVE HandlerInv'
    OBVIOUS
  <1>1. CASE HealthTick
    <2>1. Next /\ UNCHANGED <<exec, current, state, call, unseen>>
      BY <1>1 DEF HealthTick, Tick, Next, waitVars, hmVars
    <2>2. TypeOK'
      BY <2>1, TypeStep DEF HandlerInv
    <2> QED
      BY <2>1, <2>2 DEF HandlerInv
  <1>2. CASE UNCHANGED allVars
    <2>1. UNCHANGED vars /\ UNCHANGED <<exec, current, state, call, unseen>>
      BY <1>2 DEF allVars, vars, schedVars, waitVars, hmVars
    <2>2. TypeOK'
      BY <2>1, TypeStep DEF HandlerInv
    <2> QED
      BY <2>1, <2>2 DEF HandlerInv
  <1> QED
    BY <1>1, <1>2, RaiseKeepsHandler, ReturnKeepsHandler, FaultKeepsHandler, ReadKeepsHandler,
       ServiceKeepsHandler, SchedulerKeepsHandler DEF HealthNext

(* Once an error is written, nobody but the error handler has the          *)
(* processor before the handler had it, unless the handler has faulted:    *)
(* whatever is raised, stopped, started or timed out in between.           *)
THEOREM HandlerRunsFirst == HealthSpec => []HandlerFirst
  <1>1. ASSUME HandlerInv PROVE HandlerFirst
    BY <1>1 DEF HandlerInv, HandlerFirst
  <1> QED
    BY <1>1, InitHandler, HandlerStep, PTL DEF HealthSpec
=============================================================================
