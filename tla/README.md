# A TLA+ model of the ARINC 653 services of UCX/OS

This directory specifies the ARINC 653 layer of UCX/OS in TLA+: the scheduler
that gives the processor to partitions, the scheduler and the services that
share it among the processes of a partition, and the objects those processes
wait on. The specifications are translated from the C code (`src/arinc`,
`src/kernel`, `src/lib/list.c`, `src/init/main.c`); `PROJECT.json` gives, for
each definition, the lines it stands for.

## 1. The system

UCX/OS is a small kernel for microcontrollers. This repository adds an ARINC
653 executive to it. There are two levels of scheduling. The *module scheduler*
runs in the kernel's main loop after each timer interrupt and follows a static
table of windows. Each partition has an *entry point* that creates its objects
and processes and a *partition OS*, a loop that updates timers and dispatches
processes. Inside a partition scheduling is cooperative: the interrupt returns
to the process it interrupted, and the partition OS gets control only when a
service yields (`yield_to_partition`, a `setjmp`/`longjmp` pair).

### Inventory

| Component | State | Operations | Hard behaviour | What makes it correct |
|---|---|---|---|---|
| Module scheduler (`arinc/module_scheduler.c`, `kernel/partition.c`, `init/main.c`) | window index, frame counter, current partition, one "idle" flag, the 32-bit uptime | timer interrupt; a partition going IDLE | late interrupts, boot at any clock reading, a flag set between two interrupts, clock wrap | partitions run in their windows only, and in all of them; a retired one never again |
| Process management (`arinc/arinc_process.c`, `kernel/process.c`) | per process: state, priority, suspension, place in a linked list | `START`, `DELAYED_START`, `STOP`, `STOP_SELF`, `SUSPEND`, `SUSPEND_SELF`, `RESUME`, `SET_PRIORITY`; `process_schedule` | any order of calls by any process on any other | one process runs; nobody READY outranks it; equals take turns |
| Time management (`arinc/arinc_time.c`) | per process: `time_counter`, `release_point_time`, `saved_init_delay` | `TIMED_WAIT`, `PERIODIC_WAIT`, update by the partition OS | one timer for several purposes, stale values, late updates | waits end, not early; releases do not drift; the stopped stay stopped |
| Partition management (`arinc/arinc_partition.c`) | operating mode, last tick seen | partition OS loop, `SET_PARTITION_MODE` | restart with live pointers in queues; polling of ports | processes start at the change to NORMAL, each as it was started |
| Semaphores (`arinc/arinc_intrapartition_communication.c`) | value, waiting queue | `WAIT_SEMAPHORE`, `SIGNAL_SEMAPHORE` | hand-over to a process that runs later; time-out against signal; stop of a waiter | no token is lost or given twice; nobody waits while there is one |
| Mutexes and preemption lock (`kernel/mutex.c`, same file, `arinc_process.c`) | owner, lock count, saved priority, queue, lock level | `ACQUIRE_MUTEX`, `RELEASE_MUTEX`, `RESET_MUTEX`, `LOCK_PREEMPTION`, `UNLOCK_PREEMPTION` | ownership recorded twice; ceiling against `SET_PRIORITY`; a lock level copied late | one owner; it runs at the ceiling; the lock can be undone |
| Waiting queues and lists (`lib/list.c`) | linked lists | push, push back, remove, sorted insert | removal and re-insertion while others wait | order, no lost and no double entry |
| Events, blackboards, buffers (`arinc_intrapartition_communication.c`) | up/down, message, ring of messages, queues | set/reset/wait, display/read/clear, send/receive | a message copied by the woken process, later | a reader gets what was there for it; a buffer is a bounded FIFO |
| Sampling and queuing ports (`arinc/arinc_interpartition_communication.c`) | channel storage shared by two partitions, counters, queues per partition | write/read, send/receive/clear; polling by the partition OS | a partition switch in the middle of a copy; wake-up by the other partition | no torn or lost message; a waiting process is woken |
| Health monitor (`kernel/hm.c`, `arinc/arinc_HM.c`) | error list, error handler process, processes that wait to write | raise, trap, get status, recovery at three levels | an error during the handling of an error; the list when full; a handler that stops early | the handler runs before anybody else gets on; a process that waits can be let go |
| Native kernel, libraries, ports, drivers | – | – | – | not part of the ARINC layer |

How they interact: every service runs in the context of a process and ends
either by returning to it or by yielding to the partition OS; the partition OS
calls the time update and then `process_schedule`. Resources keep linked lists
of processes, and a process keeps pointers to what it waits on (`waiting_*`);
`STOP` uses the pointers to clear the lists. `LOCK_PREEMPTION` is a mutex call.
`SET_PARTITION_MODE(IDLE)` sets a flag that the module scheduler reads.

The hazards this leads to are listed line by line in `PROJECT.json`.

## 2. Modules

```
PartitionPlan         what the module scheduler promises (abstract)
ModuleScheduler       the module scheduler            implements PartitionPlan
ModuleSchedulerProofs proofs about it
Processes             processes, time, partition OS
TimedWaits            EXTENDS Processes: a history of the delays of TIMED_WAIT
ProcessesProofs       proofs about both
Semaphores            EXTENDS Processes: semaphores + processes
Mutexes               EXTENDS Processes: mutexes, preemption lock + processes
Broadcasts            EXTENDS Processes: events, blackboards + processes
BoundedFIFOs          what buffers and queuing channels promise (abstract)
Buffers               EXTENDS Processes: buffers + processes
                                                      implements BoundedFIFOs
QueuingPorts          EXTENDS Processes: a channel, the processes of the
                      partition that receives, a sender in another partition
                                                      implements BoundedFIFOs
HealthMonitor         EXTENDS Processes: error list, error handler + processes
SemaphoresProofs, MutexesProofs, BroadcastsProofs, BuffersProofs,
QueuingPortsProofs, HealthMonitorProofs
                      proofs about them, from ProcessesProofs
MC*                   instances for TLC
```

**ModuleScheduler.** The variables are the fields of `module_scheduler_t` and
`kcb->partition_current`; `idle_mode` is the set of partitions in IDLE mode.
`clock` is the uptime as the scheduler reads it, in ticks and truncated, with
`uint32_t` arithmetic as `% Word`. `phase` and `wrapped` are history variables:
the true place in the major frame, and whether the clock has wrapped. The one
large action, `TimerInterrupt`, is the interrupt handler, the main loop and
`partition_scheduler`; an interrupt comes 1 to `MaxLate` ticks after the one
before, because the handler re-arms the timer from the present time.
`SET_PARTITION_MODE(IDLE)` is two actions, between which the timer may
interrupt. `PartitionPlan` has no window index and no frame counter: it says
who may own each position of the frame.

**Processes.** The variables are the fields of the process control block and
of the partition. Times are relative to now (`timer[p] = 0`: expired;
`NoTimer`: `time_counter == 0`; `INFINITE`: the marker value that signals
write). An action is one service from its call to its yield or return, or one
turn of the partition OS loop. That is the code's own granularity: no other
process of the partition can run in between, and the state of the partition is
not touched by others. Calls that fail a check change nothing, so that the
checks are the guards. `call[p]` says which service the process will return
from. A service whose code after the yield only sets a return code ends when
the process is dispatched; the others (`Return` in Semaphores and Mutexes) take
a step of their own. `queue` and `tracked` are the waiting lists and the
`waiting_*` pointers, which the code does not always set together. `grid` is a
history variable for `NoDrift`.

**TimedWaits** takes the same steps and adds `asleep`, the ticks left of the
`TIMED_WAIT` a process is in. `timer` cannot be asked whether such a wait lasts
long enough, as services set and clear it for other purposes: `RESUME` of a
sleeper that was suspended clears it and makes the process READY. `NoEarlyWake`
therefore judges by the history, for all processes, and names what does cut a
`TIMED_WAIT` short in this code: `STOP`, that `RESUME`, and a release point of
the sleeper itself that has passed (`OldRelease`), which is the one of its
period or one left by a delayed start that was cut short.

The other modules extend Processes: their next-state relations contain every
step of Processes with the resource unchanged, so that stops, suspensions,
priority changes and time-outs hit waiting processes in every order. What they
share is in Processes: `WaitFor` (the running process joins a queue and
yields), `Served` (what becomes of the timer of a process that is given what it
waits for) and `list_insert_sorted`. Where the code does not undo a wait
completely - an expired wait leaves its entry in the queue, an infinite wait on
a semaphore or blackboard is not undone by `STOP` - the model does the same,
and the properties that speak of a single process are claimed for processes
outside `disturbed`, a history variable: those that waited with a time-out or
were stopped or suspended. They are also claimed for aperiodic processes only
(`Undisturbed`): the release point of a periodic process that waits for a
resource has passed, so that the next tick makes it READY. The runs and the
theorems still have disturbed processes around them, the theorems periodic ones
too.

**Semaphores**: `granted` is a history variable, the processes handed a token
that have not run since. **Mutexes**: `STOP_SELF` and `SET_PRIORITY` of an
owner do more than Processes says and are actions here.

**Broadcasts**: events and blackboards release all their waiters in one call
(`ReleaseAll`). A released process goes on later, in `Return`; a reader copies
the blackboard as it is *then*. `index` is the blackboard it reads; `released`
and `news`, what was displayed there during its read, are history variables.

**Buffers**: `nb`, `read_index`, `write_index`, and the two arrays
`buffers_data` (`data`) and `buffers_size_data` (`size`), the second with the
code's address computation (`SizeSlot`). `letter[p]` is what
`waiting_message_addr` of `p` points to. `SEND_BUFFER` stores, passes the
message to a waiting reader past the ring, or waits; `RECEIVE_BUFFER` takes a
message, takes one and moves a waiting writer's into the ring, or waits.

**QueuingPorts**: here a service is *not* one step, because a window can end
inside it and the other partition works on the same memory. A send is the test
(which loads `current_nb_messages`), the store of the count, and the copy with
the advance of the index; a receive likewise. `active` is the partition that
has the processor and `Switch` the end of a window. The destination's processes
are those of Processes, with `DestinationOS` (time, then ports, then scheduler)
in place of `partition_OS`; the source partition has a single process with a
`step` of its own.

**HealthMonitor**: what an error says does not influence what happens, so the
list is its count `nb_errors`; it is not cut off at `max_errors`, as the code
does not. The waiting queue of the list is `queue[ErrorList]`, which no
`waiting_*` pointer ever names. An error may meet any action of the partition's
table. `unseen` is a history variable.

Before the definitions, or in a group at the head of a module, stand faulty
variants of them: each property is shown to fail when one of them takes the
place of the original ("mutants" in `PROJECT.json`), so that no property holds
emptily.

## 3. What TLC checks

| Run | Result | Instance | What it shows |
|---|---|---|---|
| `sched_plan` | holds | the four windows of `static_conf.h` (frame of 10 ticks), interrupts up to 2 ticks late, boot in the first window, 4½ frames until the clock wraps | `PlanFollowed`, `IdleRequestHitsCaller`, `IdleIsFinal`, and `ImplementsPlan` |
| `sched_live` | holds | a plan with gaps, late boot (up to tick 20) | each partition gets the processor for ever, an IDLE one loses it, a late scheduler catches up |
| `proc_core` | holds | two equal aperiodic processes and a periodic one of higher priority, all ten services, time-outs 0, 1 and infinite (TimedWaits) | `RunningIsCurrent`, `PriorityRespected`, `NoDrift`, `TimeNeverRevives`, `NoEarlyWake` |
| `proc_live` | holds | three processes, delays 0, 1, 2 (TimedWaits) | `TimedWaitEnds`, `NoStarvation` |
| `sem_all` | holds | three processes of different priority, one semaphore of discipline PRIORITY, timed and infinite waits, `STOP`, `SUSPEND`, `RESUME` of waiting processes | `NoIdleToken`; queue and waiting processes agree; the return code tells whether there was a token; priority order |
| `sem_timeout` | **violated** | timed waits | finding 1 |
| `mutex_ceiling` | holds | three processes of different priority, a mutex, the preemption lock, `SET_PRIORITY` below and at the lock's ceiling | ownership, ceiling, waiters, preemption lock, lock level |
| `buf_fifo` | holds | two processes, a buffer of two messages, timed and infinite waits, `STOP`, `START` | `ImplementsFIFOs`; no one waits for what the buffer has; waiters are served |
| `cast_all` | holds | three processes of different priority, an event and a blackboard, infinite waits, `STOP`, `START` | nobody waits on what is raised; waits end by a raise only; readers get a message of their own time; the highest released process runs first |
| `port_fifo` | holds | a channel of two messages, one sender, one receiver, timed and infinite waits, `CLEAR_QUEUING_PORT`; windows end between services | `ImplementsFIFO`, `CountInRange`, `ReceiverUnblocked` |
| `port_race` | **violated** | the same without the clear; windows end anywhere | finding 2 |
| `hm_list` | holds | two processes and the error handler, a list of two errors, traps, `STOP`, `START`, `RESUME`, `STOP_SELF` | `HandlerFirst`, `WaiterInReach` |

**Bounds.** `MaxLate`: how late an interrupt may be; the plan is only kept
while it is at most the shortest window, which `PlanAssumption` requires.
`ClockModulus`/`Word` are small stand-ins for the 2^32 ms of the uptime; in
`sched_plan` they leave room for four frames, so that every window follows
every other one; in `sched_live` both are a multiple of the frame, so that the
arithmetic is the one of a clock that never wraps, in a finite space. `MaxLag` bounds how far a periodic
process may be behind: 2 ticks with a period of 2 is a whole missed release.
`Timeouts`: 0, 1 and infinite take every branch; 2 lets a delay be half over.
`FirstReleases` stands for the result of `arinc_time_find_first_release_point`;
a negative number is a first release already passed. `MaxQueue`: expired waits
stay in their queue, so that queues would grow for ever; 2 or 3 entries are
enough for a stale entry before a live one. Buffers and channels of two
messages have a full, an empty and a half-full ring and indices that wrap.
`Word` = 8 in the port runs is far enough above the capacity for an underflow
to be told from a full ring. `buf_fifo` has one buffer: for buffers of different
lengths the length arrays overlap (see the hazards). `cast_all` has infinite
waits only: with time-outs as well the space of three processes is too large,
and with two no release meets two waiters. For the same reason it has one
blackboard; that readers of several get the message of their own is proved
(`ReadersCopyNews`). `MaxWritten` = 5 lets `nb_errors`
pass `max_errors` = 2 by a trap and by both waiting processes. `MaxLockLevel` = 2 reaches the
limit of `MAX_LOCK_LEVEL` and the way back. In `proc_core` the two aperiodic
processes have the same attributes and are permuted as a symmetry; runs with
liveness use none.

`sched_plan` stops at the wrap (`FirstEpochSpec`), so deadlock is not checked
there. All other runs check it.

**Fairness.** `ModuleScheduler`: the interrupt handler re-arms the timer, so
interrupts do not stop; and a process inside `SET_PARTITION_MODE` continues
when it has the processor. `TimedWaits`: the same for `Tick`, and `partition_OS`
is an endless loop that runs whenever its partition has the processor, which
`EachPartitionServed` shows to come again. Nothing is assumed of processes:
`TimedWaitEnds` and `NoStarvation` say what follows *if* they keep yielding,
without that no timer is served, as the timer interrupt returns to the process
it interrupted. `QueuingPorts`: interrupts and windows come (weak fairness of
`PortTick` and `Switch`), a service that has begun goes on, and the partition
OS of the destination, which polls the ports, gets its turn in its windows
(strong fairness: it is disabled while the other partition has the processor).
`ReceiverUnblocked`, too, assumes that the destination's processes keep
yielding.

## 4. What is proved

The theorems hold for every value of the constants that satisfies the named
assumptions: any number of processes and resources, any priorities, periods,
lengths and queue bounds, and (where nothing else is said) any set of services.
All steps are checked by TLAPS. Each strengthened invariant was checked with
TLC on small instances first.

**ModuleSchedulerProofs** – for every plan, frame, lateness and clock width:
`TypeCorrect` (any clock, wrap included), `PlanIsFollowed`,
`IdleRequestsHitCaller`, `RetirementIsFinal`, `SchedulerImplementsPlan`. The
last is a refinement: initial states map to initial states, each step to an
`Advance`, a `Retire` or a stutter. Assumptions: windows in order, inside the
frame, the first one at 0, none shorter than `MaxLate` (`PlanAssumption`); boot
inside the first window and no wrap yet (`FirstEpochSpec`) where the statement
says so. `PlanFollowed` is not inductive: that the current partition is right
for the clock says nothing about the next step, which depends on the index and
the counter. The invariant `InSync` adds what the code relies on and nowhere
states: `clock = major_frame_count * Frame + phase`, and the window index is
the last window that has begun. The argument for a step: as the interrupt is
not later than the shortest window, at most one window begins since the last
one, so moving the index by one is enough.

**ProcessesProofs** – `ProcessesTypeCorrect`, `OneProcessRuns`,
`HighestPriorityRuns`, `StoppedStaysStoppedInTime`, `ReleasesDoNotDrift`,
`SleepersAreLeftAlone`, `TimedWaitsLast`. The inductive invariant `SchedInv` is the conjunction of the
type invariant, `RunningIsCurrent`, `PriorityRespected` and
`DormantHasNoTimer`; they need one another: a priority changed without a yield
is harmless only because that process is not the RUNNING one, and a time update
is harmless to the stopped only because they have no timer. The argument: every
service either *yields*, or *returns* having touched neither its caller nor made
anybody READY (`ServiceYieldsOrReturns`), and after a yield the scheduler
chooses afresh (`ScheduleChoice`). `ReleasesDoNotDrift` is arithmetic modulo the
period. `SleepersAreLeftAlone` is `NoEarlyWake`, without a condition on the
partition; its invariant `SlumberInv` says that whoever is asleep is WAITING in
`TIMED_WAIT` and that `timer` and the history still agree. `TimedWaitsLast`
strengthens it for aperiodic processes where a delayed start runs out
(`DelaysRunOut`: no `DELAYED_START`, or neither `STOP` nor `RESUME`): only
`STOP`, and `RESUME` after a suspension, end a `TIMED_WAIT` early. Its invariant
adds that a process with a `saved_init_delay` has not begun.
The module also holds what the other proofs need: lemmas on the lists
(`RemoveFirst`, `InsertAt`, `Tail`, sorted insertion) and on what a step of the
processes can do to a queue, to a waiting process and to one that no timer,
release point or resumption concerns (`Calm`), and the arithmetic of ring
indices that the buffers and the channel share (`RemainderIs`, `NextSlot`,
`SlotsDiffer`).

**The scheduler in every composition** – `HighestPriorityRunsWithSemaphores`,
`...WithMutexes`, `...WithBroadcasts`, `...WithBuffers`, `...WithPorts`: the
modules that extend
Processes add actions on the same state. Each is shown to yield or to return in
the sense above, so that `SchedInv` is an invariant of the composed
specifications (`SemBase`, `MutexSched`, `CastBase`, `BufBase`, `PortBase`). For
the ports this holds wherever the windows end.
`SemaphoresTypeCorrect`, `MutexesTypeCorrect` and `BuffersTypeCorrect` are their
type invariants, which hold the bounds on values, lock counts and indices.

**Who may be left waiting** – `NoTokenIsIdle`, `RaisedHasNoWaiters`,
`WaitersCanBeLetGo`, `BuffersServeAtOnce`. They rest on `OnlyStopEmptiesQueues`:
of all process services only `STOP` changes a queue, and it never adds to one,
so an empty queue stays empty. A queue grows only where the value is 0, the
event DOWN, the blackboard EMPTY, the ring full or empty. `ErrorQueueInv` needs
one more fact: no `waiting_*` pointer ever refers to the error queue, so `STOP`
leaves a stopped process in it; a read while that queue is not empty always
writes an error again, and the count stays.

**What a wait tells its caller** – `UndisturbedAreQueuedOnce`,
`UndisturbedLearnTheTruth`, `OnlyRaisingReleases`, `ReadersCopyNews`,
`UndisturbedAreServed`. In each module the invariant `PatientInv` says of every
undisturbed process that it is `Calm`, that it is in one queue only and
waits while it is there, and which history set it is in once it has been
served. The point of the proofs is that the entries that time-outs and stops
leave behind are entries of *disturbed* processes, so that taking one off never
touches an undisturbed one. `PriorityQueuesStayOrdered` assumes that
`SET_PRIORITY` is not called: it does not move a waiting process in its queue.
`UndisturbedAreServed` covers processes that are stopped and started again and
assumes `NoStaleDelay` (not both `DELAYED_START` and `STOP`).

**Ceilings** – the code's mutexes are right only if nothing but the mutex ends a
wait for it, which the code does not ensure: a time-out, a release point or a
suspension leaves the process in the queue, and the hand-over then goes to a
process that no longer waits. The theorems name that condition, as a condition
on the behaviour: with `[]NoStrayWake`, `RecordsOfOwnershipAgree` and
`QueuedForMutexWait`; if moreover no owner is stopped (`[]OwnersAlive`),
`OwnersAtCeiling`, `LockExcludesOthers`, `OwnerCanUnlock`. The conditions are
then discharged for a class of partitions: `UntimedOwnershipAgrees` (no periodic
process, waits for ever or not at all) and `UntimedCeilingProtocol` (and no
`STOP`), which hold with no condition on the behaviour and include the instance
of `mutex_ceiling`. The invariants: `WaitInv` (a queue has no
duplicates, a queued process waits for one mutex and owns none, who a mutex
names as its owner names that mutex), `CeilInv` (an owner is at the ceiling and
never waits) and `LockInv` (the lock level differs from the lock count only
while the owner is inside `LOCK_PREEMPTION`, and whoever queues for the lock is
inside that call).

**Buffers are FIFOs** – `RingsAreFIFOs`: every step of Buffers is a step of
`BoundedFIFOs` on `Contents` or a stutter. `RingInv` ties the indices together
(`write_index = (read_index + nb) % MAX_NB_MESSAGE`), and `NobodyWaitsInVain` is
what keeps a message passed past the ring from overtaking one in it. Its
hypothesis `SeparateSizes` is that no two buffers share an entry of
`buffers_size_data`, which the code's address computation does not ensure for
buffers of different lengths; `EqualRingsAreFIFOs` shows that equal lengths are
enough.

**The channel is a FIFO** – `ChannelStaysInRange` and `ChannelIsFIFO`, for any
capacity, messages, time-outs, services and number of receivers, with windows
that end between services (`AlignedSpec`; without that, `port_race` shows the
lost update). A receiver that returns from its wait with its `time_counter` not
0 takes a message without testing again that there is one (`Trusts`). The code
does not ensure that it is still there, so the theorems name two conditions on
the behaviour: `[]NoOvertaking`, nobody takes a message or clears the port
between the waking of a receiver and its return, and `[]NoStrayRelease`, no
release point wakes a receiver that waits. `CountInRange` is not inductive. A
decrement is safe only because of what was true when the receiver was woken,
and between the stages of a service the count and the indices disagree: it has
been changed and they have not. `ChannelInv` therefore says, stage by stage,
what the process inside the service has read and has still to do, and relates
the indices to the messages really held
(`write_index = (read_index + Held) % MaxNbMessages`); `Woken` says that while a
trusting receiver is READY or RUNNING there is a message. The refinement maps
each step to accepting a message, delivering the oldest, emptying the queue, or
a stutter (`ChannelStep`). The conditions are then discharged for two classes
of partitions, with no condition on the behaviour left. `SoleReceiverIsFIFO`:
one receiver, aperiodic, no `DELAYED_START`; the instance of `port_fifo` is one
of these. `UntimedReceiversAreFIFO`: any number of receivers, periodic ones
too, that wait for ever or not at all. The reason for the second is that a
receiver in an endless wait has no `time_counter`, reports `TIMED_OUT` when it
is woken and takes nothing; its message stays for the next call.

**The error handler** – `HandlerRunsFirst`: once an error is written, no other
process gets on before the handler has run, unless the handler has faulted.
`HandlerInv` adds that while an error is unseen the handler is READY or
FAULTED, and that a READY handler never has another process running beside it:
it has no process id that a service could name, so nobody stops it or makes it
wait.

**Only model-checked:** the liveness properties `EachPartitionServed`,
`IdleTakesEffect`, `CatchesUp`, `TimedWaitEnds`, `NoStarvation` and
`ReceiverUnblocked`: fairness and `ENABLED` are out of the prover's reach. Every
other property of a passing run is stated by a theorem.

## 5. Findings

1. *Time-out leaves the process queued* (`sem_timeout`, `arinc_time.c:40`): the
   function is declared there instead of called.
2. *Lost update of the message count* (`port_race`,
   `arinc_interpartition_communication.c:360`): a window that ends between the
   load and the store of `current_nb_messages` brings a message back that the
   other partition has taken.

Further consequences of the code appear in the model without a run of their
own; they are under "hazards", with the definition that shows them: after
2^32 ms the scheduler only serves the first window; a timer ends a suspension;
an old delay ends a later `TIMED_WAIT`; `RESUME` cuts short a `TIMED_WAIT`; a
process in an infinite semaphore wait that is stopped is made READY again by a
later signal; `STOP` of a mutex owner leaves the mutex owned; a sender that
waits on a full channel is never woken; a second receiver can take the message
a first one with a time-out was woken for, and a periodic receiver is released
with no message there, and in both cases the count passes below 0; a message passed to a reader that has timed out is
lost; processes that find the error list full wait for a handler that nobody
starts; a periodic process that waits for a resource, or in `TIMED_WAIT`, is
made READY by the next tick; a delayed start that `STOP` or `RESUME` cuts short
ends a later `TIMED_WAIT`; two buffers of different lengths overwrite each
other's message lengths; a process whose priority is changed while it waits
keeps its place in a queue of discipline PRIORITY.

## 6. What is not modelled

Creation services (creation is the initial state: the objects exist and their
attributes are constants), the `GET_` services (they change nothing), core
affinity (constant in single-core builds), deadlines and `REPLENISH` (the
deadline check raises nothing in this version). The computation of the first
release point is an input. Errors that a service reports without changing
anything are its disabled guards. Boot, traps, registers and drivers are
hardware access; the native UCX/OS tasks, pipes and message queues are not used
by partitions.

*Sampling ports*: a write or a read is one copy with no test and no wait. That
a window can end inside the copy is the only hard question, and it is the one
`port_race` answers for the queuing channel.

*Restart of a partition* (COLD_START, WARM_START): frees the processes and
resets the counters of the resources while their lists still hold nodes that
refer to freed memory; what follows is undefined and depends on the allocator.

*Health monitor*: the text and code of errors, the log, and the module level,
which only prints. `CREATE_ERROR_HANDLER` is part of the initial state. A process
traps in its own code only: a trap inside a service, which would leave the
service half done, is left out.

*Queuing ports*: several senders, and the scheduling inside the source
partition. `APERIODIC_WAIT_EVENT` changes nothing (it accepts a periodic error
handler only).

## 7. Plan

1. The first release point as a function, against a definition by search.
2. *Partition modes*, once the lists of a restarted partition are cleared.
