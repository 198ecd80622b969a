------------------------------ MODULE Processes ------------------------------
(***************************************************************************)
(* The processes of one partition: the APEX process and time services      *)
(* (arinc/arinc_process.c, arinc/arinc_time.c), the process scheduler      *)
(* (kernel/process.c) and the partition OS loop that runs it               *)
(* (arinc/arinc_partition.c).                                              *)
(*                                                                         *)
(* Scheduling inside a partition is cooperative: the timer interrupt       *)
(* returns to the process it interrupted, and the partition OS gets        *)
(* control only when a process calls a service that yields                 *)
(* (yield_to_partition, a setjmp/longjmp pair) or when no process is       *)
(* READY.  One step of the model is one service, from its call to its      *)
(* yield, or one turn of the partition OS loop; timer interrupts fall      *)
(* between steps.  A service whose checks fail returns an error code and   *)
(* changes nothing: those returns are the guards.                          *)
(*                                                                         *)
(* Times are relative to now.  A process of another module that waits on a *)
(* semaphore, a mutex, ... is in queue[r]; tracked[p] are the waiting_*    *)
(* pointers of p, which the code does not always set when it queues p.     *)
(***************************************************************************)
EXTENDS Integers, SequencesExt

CONSTANTS
  Procs,          \* the processes the partition creates
  None,           \* NULL: no current process, no mutex owned, no handler
  ErrorHandler,   \* error_handler_process: a process, or None
  Periodic,       \* processes whose PERIOD is not INFINITE_TIME_VALUE
  Period,         \* their periods, in ticks
  BasePriority,   \* ATTRIBUTES.BASE_PRIORITY
  Priorities,     \* priorities passed to SET_PRIORITY
  Timeouts,       \* time-outs and delays passed to the services, in ticks
  FirstReleases,  \* results of arinc_time_find_first_release_point, from now
  MaxLag,         \* bound: a release point is at most this far in the past
  Resources,      \* wait queues of the partition's resources
  Mutexes,        \* those of them that belong to mutexes
  PriorityQueued, \* those of queuing discipline PRIORITY
  MaxQueue,       \* bound: entries in a waiting queue
  Services        \* the services the partition's processes call

INFINITE == -1    \* INFINITE_TIME_VALUE
NoTimer == -2     \* time_counter == 0

ASSUME ProcsAssumption ==
  /\ IsFiniteSet(Procs)
  /\ None \notin Procs
  /\ None \notin Resources
  /\ ErrorHandler \in Procs \cup {None}
  /\ Periodic \subseteq Procs \ {ErrorHandler}
  /\ Mutexes \subseteq Resources
  /\ PriorityQueued \subseteq Resources
  /\ MaxQueue \in Nat

ASSUME TimeAssumption ==
  /\ MaxLag \in Nat \ {0}
  /\ Period \in [Periodic -> Nat \ {0}]
  /\ FirstReleases \subseteq Int
  /\ \A f \in FirstReleases : -MaxLag <= f
  /\ Timeouts \subseteq Nat \cup {INFINITE}

ASSUME PriorityAssumption ==
  /\ Priorities \subseteq Nat
  /\ BasePriority \in [Procs -> Nat]

VARIABLES
  mode,          \* partition->status->OPERATING_MODE
  exec,          \* who has the processor: the entry point ("main"), the
                 \* partition OS ("os") or the current process ("proc")
  current,       \* partition->process_current
  order,         \* partition->processes, a linked list
  state,         \* PROCESS_STATE
  priority,      \* CURRENT_PRIORITY
  suspended,     \* is_suspended
  timer,         \* time_counter, as the ticks left; 0: expired
  release,       \* release_point_time, as the ticks left; <= 0: reached
  init_delay,    \* saved_init_delay
  call,          \* the blocking service the process is in, or "app"
  tick_pending,  \* ucx_ticks() # partition->last_tick
  queue,         \* waiting_processes of each resource
  tracked,       \* the resources the waiting_* pointers of p refer to
  owned,         \* owned_mutex_id
  grid           \* history: ticks to the next multiple of the period,
                 \* counted from the first release point

schedVars == <<mode, exec, current, order, tick_pending>>
timeVars == <<timer, release, init_delay, grid>>
waitVars == <<call, queue, tracked, owned>>
vars == <<schedVars, state, priority, suspended, timeVars, waitVars>>

States == {"DORMANT", "READY", "RUNNING", "WAITING", "FAULTED"}

Aperiodic == Procs \ Periodic

(* The error handler has no process_id that a service could name.          *)
Named == Procs \ {ErrorHandler}

(* Calls whose code after the yield only sets the return code.             *)
RcOnly == {"TIMED_WAIT", "PERIODIC_WAIT", "SUSPEND_SELF"}

(* What a process may be doing: its own code or a service that yielded.    *)
Doing ==
  RcOnly \cup
  {"app", "WAIT_SEMAPHORE", "WAIT_SEMAPHORE_TIMED", "ACQUIRE_MUTEX",
   "ACQUIRE_MUTEX_TIMED", "LOCK_PREEMPTION", "UNLOCK_PREEMPTION",
   "SEND_BUFFER", "SEND_BUFFER_TIMED", "RECEIVE_BUFFER",
   "RECEIVE_BUFFER_TIMED", "READ_BLACKBOARD", "READ_BLACKBOARD_TIMED",
   "WAIT_EVENT", "WAIT_EVENT_TIMED", "RAISE_APPLICATION_ERROR",
   "RECEIVE_QUEUING_MESSAGE", "RECEIVE_QUEUING_MESSAGE_TIMED", "COUNTING",
   "READING", "CLEARING"}

-----------------------------------------------------------------------------
(* Forms of the definitions below with a plausible fault in them.          *)
KeepPlace(s, p) == s

AppendOnly(s, p) == Append(s, p)

KeepRunning(st) == st

PrecedesInList(p, q) ==
  \E i, j \in 1 .. Len(order) : i <= j /\ order[i] = p /\ order[j] = q

ExpiredOfCurrent(p) == timer[p] = 0 /\ p = current

ReleasedWithoutDelay(p) == state[p] = "WAITING" /\ release[p] <= 0

HaltKeepsTimer(p) ==
  /\ state' = [state EXCEPT ![p] = "DORMANT"]
  /\ suspended' = [suspended EXCEPT ![p] = FALSE]
  /\ UNCHANGED timer

ReleaseFromNow(p) == Period[p]

InsertLast(s, p) == Append(s, p)

-----------------------------------------------------------------------------
(* The process list and the scheduler *)

(* list_remove, then list_pushback.                                        *)
ToBack(s, p) == Append(RemoveFirst(s, p), p)

(* list_remove, then list_push.                                            *)
ToFront(s, p) == <<p>> \o RemoveFirst(s, p)

Before(p, q) ==
  \E i, j \in 1 .. Len(order) : i <= j /\ order[i] = p /\ order[j] = q

(* The scan keeps the first process of the greatest priority.              *)
Precedes(p, q) ==
  \/ priority[q] < priority[p]
  \/ priority[q] = priority[p] /\ Before(p, q)

(* process_schedule puts the running process back to READY ...             *)
Demoted(st) ==
  [p \in Procs |-> IF p = current /\ st[p] = "RUNNING" THEN "READY" ELSE st[p]]

(* ... and chooses among the READY processes: a READY error handler, else  *)
(* the first of the highest priority.  partition_OS jumps into the process *)
(* chosen, whose call returns.                                             *)
process_schedule(st) ==
  LET demoted == Demoted(st)
      ready == {p \in ToSet(order) : demoted[p] = "READY"}
  IN  \/ /\ ready = {}
         /\ state' = demoted
         /\ current' = None
         /\ UNCHANGED <<exec, call>>
      \/ \E p \in ready :
           /\ IF ErrorHandler \in ready THEN p = ErrorHandler
                                        ELSE \A q \in ready : Precedes(p, q)
           /\ state' = [demoted EXCEPT ![p] = "RUNNING"]
           /\ current' = p
           /\ exec' = "proc"
           /\ call' = [call EXCEPT ![p] = IF @ \in RcOnly THEN "app" ELSE @]

-----------------------------------------------------------------------------
(* Time *)

(* check_and_release_periodic_waiting_processes                            *)
Released(p) ==
  /\ state[p] = "WAITING"
  /\ p \in Periodic \/ init_delay[p] # 0
  /\ release[p] <= 0

(* check_timeouts: the timer has expired.                                  *)
Expired(p) == timer[p] = 0

(* arinc_time_update_partition: releases first, then time-outs.            *)
StateAfterUpdate ==
  [p \in Procs |-> IF Released(p) \/ Expired(p) THEN "READY" ELSE state[p]]

arinc_time_update_partition ==
  /\ init_delay' = [p \in Procs |->
       IF Released(p) /\ p \in Aperiodic THEN 0 ELSE init_delay[p]]
  /\ timer' = [p \in Procs |-> IF Expired(p) THEN NoTimer ELSE timer[p]]
  /\ suspended' = [p \in Procs |-> suspended[p] /\ ~Expired(p)]
  /\ UNCHANGED <<release, grid>>

(* One turn of the loop of partition_OS.                                   *)
partition_OS ==
  /\ exec = "os"
  /\ tick_pending' = FALSE
  /\ \/ /\ tick_pending
        /\ arinc_time_update_partition
        /\ process_schedule(StateAfterUpdate)
     \/ /\ ~tick_pending
        /\ UNCHANGED <<suspended, timeVars>>
        /\ process_schedule(state)
  /\ UNCHANGED <<mode, order, priority, queue, tracked, owned>>

CountDown(n) == IF n > 0 THEN n - 1 ELSE n

(* The release point of a started periodic process is kept exactly, since  *)
(* PERIODIC_WAIT adds to it; MaxLag bounds how late the process may be.    *)
Tick ==
  /\ mode = "NORMAL"
  /\ \A p \in Periodic : state[p] # "DORMANT" => -MaxLag < release[p]
  /\ tick_pending' = TRUE
  /\ timer' = [p \in Procs |-> CountDown(timer[p])]
  /\ release' = [p \in Procs |->
       IF p \in Periodic /\ state[p] # "DORMANT" THEN release[p] - 1
                                                 ELSE CountDown(release[p])]
  /\ grid' = [p \in Periodic |-> (grid[p] - 1) % Period[p]]
  /\ UNCHANGED <<mode, exec, current, order, state, priority, suspended,
                 init_delay, waitVars>>

-----------------------------------------------------------------------------
(* The services *)

(* A process of the partition calls s.                                     *)
Calls(s) == exec = "proc" /\ call[current] = "app" /\ s \in Services

(* A process or, before NORMAL mode, the entry point calls s.              *)
MayCall(s) == s \in Services /\ (exec = "main" \/ Calls(s))

(* Neither a mutex owner nor the error handler may wait.                   *)
MayWait == owned[current] = None /\ current # ErrorHandler

yield_to_partition == exec' = "os"

(* The timer a blocking service leaves: an infinite time-out sets none.    *)
Arm(t) == IF t = INFINITE THEN timer ELSE [timer EXCEPT ![current] = t]

(* list_insert_sorted: after every process of the same or higher priority. *)
list_insert_sorted(s, p) ==
  LET i == SelectInSeq(s, LAMBDA q : priority[q] < priority[p])
  IN  IF i = 0 THEN Append(s, p) ELSE InsertAt(s, i, p)

(* The running process joins the queue of r.  An expired wait leaves its   *)
(* entry behind, so that queues can outgrow the number of processes;       *)
(* MaxQueue bounds them.                                                   *)
EnqueueBy(r, sorted) ==
  /\ Len(queue[r]) < MaxQueue
  /\ queue' = [queue EXCEPT ![r] = IF sorted THEN list_insert_sorted(@, current)
                                             ELSE Append(@, current)]

Enqueue(r) == EnqueueBy(r, r \in PriorityQueued)

(* The running process waits in the queue of r; its waiting_* pointers are *)
(* ptrs, the call it will return from is plain or, with a time-out, timed. *)
WaitFor(r, sorted, t, ptrs, plain, timed) ==
  /\ t # 0
  /\ MayWait
  /\ state' = [state EXCEPT ![current] = "WAITING"]
  /\ EnqueueBy(r, sorted)
  /\ tracked' = [tracked EXCEPT ![current] = ptrs]
  /\ timer' = Arm(t)
  /\ call' = [call EXCEPT ![current] = IF t = INFINITE THEN plain ELSE timed]
  /\ yield_to_partition
  /\ UNCHANGED <<mode, current, order, tick_pending, priority, suspended,
                 release, init_delay, grid, owned>>

(* The timer of a process that is given what it waits for: a non-zero      *)
(* time_counter becomes INFINITE_TIME_VALUE, for the process to find.      *)
Served(t) == IF t # NoTimer THEN INFINITE ELSE NoTimer

(* For a process that owns no mutex; see Mutexes for the others.  Called   *)
(* by the entry point it finds no process READY.                           *)
SET_PRIORITY(p, v) ==
  /\ MayCall("SET_PRIORITY")
  /\ state[p] # "DORMANT"
  /\ owned[p] = None
  /\ priority' = [priority EXCEPT ![p] = v]
  /\ \/ /\ state[p] \in {"READY", "RUNNING"}
        /\ order' = ToBack(order, p)
        /\ yield_to_partition
     \/ /\ state[p] \notin {"READY", "RUNNING"}
        /\ UNCHANGED <<order, exec>>
  /\ UNCHANGED <<mode, current, tick_pending, state, suspended, timeVars,
                 waitVars>>

SUSPEND_SELF(t) ==
  /\ Calls("SUSPEND_SELF")
  /\ MayWait
  /\ current \in Aperiodic
  /\ t # 0
  /\ state' = [state EXCEPT ![current] = "WAITING"]
  /\ suspended' = [suspended EXCEPT ![current] = TRUE]
  /\ timer' = Arm(t)
  /\ call' = [call EXCEPT ![current] = "SUSPEND_SELF"]
  /\ yield_to_partition
  /\ UNCHANGED <<mode, current, order, tick_pending, priority, release,
                 init_delay, grid, queue, tracked, owned>>

SUSPEND(p) ==
  /\ Calls("SUSPEND")
  /\ p # current
  /\ owned[p] = None
  /\ tracked[p] \cap Mutexes = {}
  /\ state[p] \notin {"DORMANT", "FAULTED"}
  /\ p \in Aperiodic
  /\ ~suspended[p]
  /\ state' = [state EXCEPT ![p] = "WAITING"]
  /\ suspended' = [suspended EXCEPT ![p] = TRUE]
  /\ UNCHANGED <<schedVars, priority, timeVars, waitVars>>

RESUME(p) ==
  LET left == IF suspended[p] THEN NoTimer ELSE timer[p]
  IN  /\ Calls("RESUME")
      /\ p # current
      /\ state[p] # "DORMANT"
      /\ p \in Aperiodic \/ state[p] = "FAULTED"
      /\ suspended[p] \/ state[p] = "FAULTED"
      /\ suspended' = [suspended EXCEPT ![p] = FALSE]
      /\ timer' = [timer EXCEPT ![p] = left]
      /\ \/ /\ left = NoTimer \/ tracked[p] = {}
            /\ state' = [state EXCEPT ![p] = "READY"]
            /\ yield_to_partition
         \/ /\ left # NoTimer /\ tracked[p] # {}
            /\ UNCHANGED <<state, exec>>
      /\ UNCHANGED <<mode, current, order, tick_pending, priority, release,
                     init_delay, grid, waitVars>>

(* The process control block of a stopped process.                         *)
Halt(p) ==
  /\ state' = [state EXCEPT ![p] = "DORMANT"]
  /\ timer' = [timer EXCEPT ![p] = NoTimer]
  /\ suspended' = [suspended EXCEPT ![p] = FALSE]

(* For a process that owns no mutex; see Mutexes for the others.           *)
STOP_SELF ==
  /\ Calls("STOP_SELF")
  /\ owned[current] = None
  /\ Halt(current)
  /\ yield_to_partition
  /\ UNCHANGED <<mode, current, order, tick_pending, priority, release,
                 init_delay, grid, waitVars>>

remove_process_from_waiting_queue(p) ==
  /\ queue' = [r \in Resources |->
       IF r \in tracked[p] THEN RemoveFirst(queue[r], p) ELSE queue[r]]
  /\ tracked' = [tracked EXCEPT ![p] = {}]

STOP(p) ==
  /\ Calls("STOP")
  /\ p # current
  /\ state[p] # "DORMANT"
  /\ remove_process_from_waiting_queue(p)
  /\ Halt(p)
  /\ yield_to_partition
  /\ UNCHANGED <<mode, current, order, tick_pending, priority, release,
                 init_delay, grid, call, owned>>

(* What START and DELAYED_START have in common: the process is DORMANT and *)
(* will enter its code anew, at its base priority.                         *)
Restart(p) ==
  /\ state[p] = "DORMANT"
  /\ priority' = [priority EXCEPT ![p] = BasePriority[p]]
  /\ call' = [call EXCEPT ![p] = "app"]
  /\ UNCHANGED <<mode, current, order, tick_pending, suspended, queue,
                 tracked, owned>>

(* A periodic process waits for release point r.                           *)
AwaitRelease(p, r) ==
  /\ release' = [release EXCEPT ![p] = r]
  /\ grid' = [grid EXCEPT ![p] = r % Period[p]]
  /\ state' = [state EXCEPT ![p] = "WAITING"]
  /\ UNCHANGED <<exec, timer, init_delay>>

START(p) ==
  /\ MayCall("START")
  /\ Restart(p)
  /\ \/ /\ mode # "NORMAL"
        /\ state' = [state EXCEPT ![p] = "WAITING"]
        /\ UNCHANGED <<exec, timeVars>>
     \/ /\ mode = "NORMAL" /\ p \in Aperiodic
        /\ state' = [state EXCEPT ![p] = "READY"]
        /\ yield_to_partition
        /\ UNCHANGED timeVars
     \/ /\ mode = "NORMAL" /\ p \in Periodic
        /\ \E r \in FirstReleases : AwaitRelease(p, r)

DELAYED_START(p, d) ==
  /\ MayCall("DELAYED_START")
  /\ d # INFINITE
  /\ p \in Periodic => d < Period[p]
  /\ Restart(p)
  /\ \/ /\ mode # "NORMAL"
        /\ state' = [state EXCEPT ![p] = "WAITING"]
        /\ init_delay' = [init_delay EXCEPT ![p] = d]
        /\ UNCHANGED <<exec, timer, release, grid>>
     \/ /\ mode = "NORMAL" /\ p \in Aperiodic
        /\ state' = [state EXCEPT ![p] = IF d = 0 THEN "READY" ELSE "WAITING"]
        /\ timer' = IF d = 0 THEN timer ELSE [timer EXCEPT ![p] = d]
        /\ yield_to_partition
        /\ UNCHANGED <<release, init_delay, grid>>
     \/ /\ mode = "NORMAL" /\ p \in Periodic
        /\ \E r \in FirstReleases : AwaitRelease(p, r + d)

TIMED_WAIT(d) ==
  /\ Calls("TIMED_WAIT")
  /\ MayWait
  /\ d # INFINITE
  /\ yield_to_partition
  /\ \/ /\ d = 0
        /\ state' = [state EXCEPT ![current] = "READY"]
        /\ order' = ToBack(order, current)
        /\ UNCHANGED <<timer, call>>
     \/ /\ d # 0
        /\ state' = [state EXCEPT ![current] = "WAITING"]
        /\ timer' = Arm(d)
        /\ call' = [call EXCEPT ![current] = "TIMED_WAIT"]
        /\ UNCHANGED order
  /\ UNCHANGED <<mode, current, tick_pending, priority, suspended, release,
                 init_delay, grid, queue, tracked, owned>>

(* The next release point follows from the last one, not from now.         *)
NextRelease(p) == release[p] + Period[p]

PERIODIC_WAIT ==
  /\ Calls("PERIODIC_WAIT")
  /\ MayWait
  /\ current \in Periodic
  /\ state' = [state EXCEPT ![current] = "WAITING"]
  /\ release' = [release EXCEPT ![current] = NextRelease(current)]
  /\ call' = [call EXCEPT ![current] = "PERIODIC_WAIT"]
  /\ yield_to_partition
  /\ UNCHANGED <<mode, current, order, tick_pending, priority, suspended,
                 timer, init_delay, grid, queue, tracked, owned>>

(* start_process, on a process with the partition's first release point r. *)
StartsNow(p) ==
  state[p] = "WAITING" /\ p \in Aperiodic /\ init_delay[p] = 0 /\ ~suspended[p]

FirstRelease(p, r) ==
  CASE state[p] = "WAITING" /\ p \in Periodic -> r + init_delay[p]
    [] state[p] = "WAITING" /\ p \in Aperiodic /\ init_delay[p] # 0 -> init_delay[p]
    [] OTHER -> release[p]

(* SET_PARTITION_MODE(NORMAL), the last call of the entry point.           *)
SET_PARTITION_MODE_NORMAL ==
  /\ exec = "main"
  /\ mode' = "NORMAL"
  /\ state' = [p \in Procs |-> IF StartsNow(p) THEN "READY" ELSE state[p]]
  /\ \E r \in FirstReleases :
       /\ release' = [p \in Procs |-> FirstRelease(p, r)]
       /\ grid' = [p \in Periodic |-> FirstRelease(p, r) % Period[p]]
  /\ yield_to_partition
  /\ UNCHANGED <<current, order, tick_pending, priority, suspended, timer,
                 init_delay, waitVars>>

-----------------------------------------------------------------------------
(* The entry point has created the processes (CREATE_PROCESS).             *)
Init ==
  /\ mode = "COLD_START"
  /\ exec = "main"
  /\ current = None
  /\ order \in {s \in [1 .. Cardinality(Procs) -> Procs] : ToSet(s) = Procs}
  /\ state = [p \in Procs |-> "DORMANT"]
  /\ priority = BasePriority
  /\ suspended = [p \in Procs |-> FALSE]
  /\ timer = [p \in Procs |-> NoTimer]
  /\ release = [p \in Procs |-> 0]
  /\ init_delay = [p \in Procs |-> 0]
  /\ call = [p \in Procs |-> "app"]
  /\ tick_pending \in BOOLEAN
  /\ queue = [r \in Resources |-> <<>>]
  /\ tracked = [p \in Procs |-> {}]
  /\ owned = [p \in Procs |-> None]
  /\ grid = [p \in Periodic |-> 0]

OtherService ==
  \/ \E p \in Named, v \in Priorities : SET_PRIORITY(p, v)
  \/ \E t \in Timeouts : SUSPEND_SELF(t)
  \/ \E p \in Named : SUSPEND(p)
  \/ \E p \in Named : RESUME(p)
  \/ STOP_SELF
  \/ \E p \in Named : STOP(p)
  \/ \E p \in Named : START(p)
  \/ \E p \in Named, d \in Timeouts : DELAYED_START(p, d)
  \/ PERIODIC_WAIT
  \/ SET_PARTITION_MODE_NORMAL

Service == OtherService \/ \E d \in Timeouts : TIMED_WAIT(d)

Next == Service \/ partition_OS \/ Tick

Spec == Init /\ [][Next]_vars

-----------------------------------------------------------------------------
(* Properties *)

(* Process control blocks and queues stay well formed, and every process   *)
(* is on the partition's list exactly once, whatever list_remove and       *)
(* list_pushback/list_push pairs reorder it.                               *)
TypeOK ==
  /\ mode \in {"COLD_START", "NORMAL"}
  /\ exec \in {"main", "os", "proc"}
  /\ current \in Procs \cup {None}
  /\ exec = "proc" => current # None
  /\ order \in Seq(Procs)
  /\ Len(order) = Cardinality(Procs)
  /\ ToSet(order) = Procs
  /\ state \in [Procs -> States]
  /\ priority \in [Procs -> Nat]
  /\ suspended \in [Procs -> BOOLEAN]
  /\ timer \in [Procs -> Nat \cup {INFINITE, NoTimer}]
  /\ release \in [Procs -> Int]
  /\ init_delay \in [Procs -> Nat]
  /\ call \in [Procs -> Doing]
  /\ tick_pending \in BOOLEAN
  /\ queue \in [Resources -> Seq(Procs)]
  /\ tracked \in [Procs -> SUBSET Resources]
  /\ owned \in [Procs -> Mutexes \cup {None}]
  /\ grid \in [Periodic -> Nat]

(* At most one process is RUNNING, and it is the one that has the          *)
(* processor: no service and no time-out marks a second one, and whoever   *)
(* is dispatched is marked.                                                *)
RunningIsCurrent ==
  /\ \A p \in Procs : state[p] = "RUNNING" => p = current
  /\ exec = "proc" => state[current] = "RUNNING"

(* Every service that makes a process READY or changes a priority yields,  *)
(* so that the running process is never outranked by a READY one; a READY  *)
(* error handler runs before any other (app/arinc_test_apex_process_and_   *)
(* time.c, test suite 4).                                                  *)
PriorityRespected ==
  exec = "proc" =>
    \A p \in Procs :
      state[p] = "READY" =>
        /\ p # ErrorHandler
        /\ priority[p] <= priority[current] \/ current = ErrorHandler

(* Passing time wakes waiting processes and never a stopped one: STOP and  *)
(* STOP_SELF leave no timer behind that arinc_time_update_partition would  *)
(* turn into READY.                                                        *)
TimeNeverRevives ==
  [][exec = "os" =>
       \A p \in Procs : state[p] = "DORMANT" => state'[p] = "DORMANT"]_vars

(* Release points do not drift: however late a process is, its release     *)
(* points stay at multiples of its period from its first one (test suite 2 *)
(* of app/arinc_test_apex_process_and_time.c).                             *)
NoDrift ==
  \A p \in Periodic :
    state[p] # "DORMANT" /\ mode = "NORMAL" =>
      (release[p] - grid[p]) % Period[p] = 0

(* If processes keep yielding, every timed wait ends.                      *)
TimedWaitEnds ==
  []<>(exec = "os") => \A p \in Procs : (timer[p] >= 0) ~> (timer[p] = NoTimer)

(* A process outranks p.                                                   *)
Outranked(p) ==
  \E q \in Procs : state[q] \in {"READY", "RUNNING"} /\ priority[p] < priority[q]

(* If processes keep yielding, from some time on with TIMED_WAIT(0) only,  *)
(* no READY process of the highest priority starves: each that yields goes *)
(* behind its equals (test suite 1 of app/arinc_test_apex_process_and_     *)
(* time.c: A B A B ...).                                                   *)
NoStarvation ==
  []<>(exec = "os") /\ <>[](\A p \in Procs : timer[p] = NoTimer) =>
    \A p \in Procs : []<>(state[p] # "READY" \/ Outranked(p))

=============================================================================
