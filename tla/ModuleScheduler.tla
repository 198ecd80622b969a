--------------------------- MODULE ModuleScheduler ---------------------------
(***************************************************************************)
(* The module-level (partition) scheduler: arinc/module_scheduler.c, the   *)
(* switch it calls (krnl_partition_switch in kernel/partition.c) and the   *)
(* kernel main loop that calls it on every timer interrupt (init/main.c).  *)
(*                                                                         *)
(* The scheduler never computes the active window from the clock.  It      *)
(* keeps a window index and a frame counter and moves each forward by at   *)
(* most one step per interrupt, comparing the clock with the current and   *)
(* the next window only.  What has to be shown is that this incremental    *)
(* bookkeeping stays aligned with the static plan although interrupts come *)
(* late, although the clock already runs when scheduling starts, and until *)
(* the 32-bit clock wraps.                                                 *)
(***************************************************************************)
EXTENDS Integers, Sequences

CONSTANTS
  Partitions,     \* identifiers of the configured partitions
  None,           \* partition_current == NULL: the processor is idle
  Windows,        \* DEFAULT_WINDOWS: a sequence of [id, start, duration]
  Frame,          \* major_frame_tick
  MaxLate,        \* an interrupt comes 1..MaxLate ticks after the last one
  BootTicks,      \* clock readings possible when scheduling starts
  ClockModulus,   \* (uint32_t) ucx_uptime(), in ticks, wraps here
  Word            \* uint32_t arithmetic is modulo Word

ASSUME NoneAssumption == None \notin Partitions

(* The static plan: windows in order of time, the first one at the start   *)
(* of the frame, inside the frame, none shorter than an interrupt may be   *)
(* late.  Every configuration under include/arinc is of this kind.         *)
ASSUME PlanAssumption ==
  /\ Frame \in Nat \ {0}
  /\ MaxLate \in Nat \ {0}
  /\ Windows \in Seq([id : Partitions, start : Nat, duration : Nat])
  /\ Len(Windows) # 0
  /\ Windows[1].start = 0
  /\ \A i \in 1 .. Len(Windows) :
       /\ MaxLate <= Windows[i].duration
       /\ Windows[i].start + Windows[i].duration <= Frame
  /\ \A i, j \in 1 .. Len(Windows) :
       i < j => Windows[i].start + Windows[i].duration <= Windows[j].start

ASSUME ClockAssumption ==
  /\ ClockModulus \in Nat
  /\ Frame < ClockModulus
  /\ Word \in Nat
  /\ ClockModulus <= Word
  /\ BootTicks \subseteq 0 .. ClockModulus - 1

VARIABLES
  clock,                   \* the truncated uptime the scheduler reads
  wrapped,                 \* history: the truncated uptime has wrapped
  phase,                   \* history: true position in the static plan
  windows_idx,             \* ms->windows_idx, counted from 1
  major_frame_count,       \* ms->major_frame_count
  idle_current_partition,  \* ms->idle_current_partition
  partition_current,       \* kcb->partition_current
  idle_mode                \* partitions whose OPERATING_MODE is IDLE

vars == <<clock, wrapped, phase, windows_idx, major_frame_count,
          idle_current_partition, partition_current, idle_mode>>

-----------------------------------------------------------------------------
(* Forms of the definitions below with a plausible fault in them.          *)
SwitchIgnoresMode(id) == id

EndTickLate(i) == Windows[i].start + Windows[i].duration + 1

KeepIdleRequest == UNCHANGED idle_current_partition

EnterFrameIndexBase0 ==
  /\ windows_idx' = 0
  /\ UNCHANGED <<major_frame_count, partition_current>>

EnterFrameKeepsIndex ==
  /\ windows_idx' = windows_idx
  /\ major_frame_count' = (major_frame_count + 1) % Word
  /\ partition_current' =
       IF Windows[windows_idx].id \in idle_mode THEN None ELSE Windows[windows_idx].id

EnterFrameKeepsCount ==
  /\ windows_idx' = 1
  /\ partition_current' = IF Windows[1].id \in idle_mode THEN None ELSE Windows[1].id
  /\ UNCHANGED major_frame_count

-----------------------------------------------------------------------------
(* krnl_partition_switch: a partition in IDLE mode is replaced by None.    *)
krnl_partition_switch(id) == IF id \in idle_mode THEN None ELSE id

nbr_windows == Len(Windows)

EndTick(i) == Windows[i].start + Windows[i].duration

(* uint32_t position_in_frame, for a reading t of the clock.               *)
position_in_frame(t) == (t - major_frame_count * Frame) % Word

(* The request is consumed at the first interrupt after it.                *)
ServeIdleRequest == idle_current_partition' = FALSE

(* What the scheduler leaves as current when it stays in its window: an    *)
(* IDLE request of the running partition is served first.                  *)
AfterIdleRequest == IF idle_current_partition THEN None ELSE partition_current

EnterFrame ==
  /\ windows_idx' = 1
  /\ major_frame_count' = (major_frame_count + 1) % Word
  /\ partition_current' = krnl_partition_switch(Windows[1].id)

StayInWindow ==
  /\ partition_current' = AfterIdleRequest
  /\ UNCHANGED <<windows_idx, major_frame_count>>

EnterGap ==
  /\ partition_current' = None
  /\ UNCHANGED <<windows_idx, major_frame_count>>

EnterNextWindow ==
  /\ windows_idx' = windows_idx + 1
  /\ partition_current' = krnl_partition_switch(Windows[windows_idx + 1].id)
  /\ UNCHANGED major_frame_count

(* partition_scheduler, for a reading t of the clock.                      *)
partition_scheduler(t) ==
  LET position == position_in_frame(t)
  IN  /\ ServeIdleRequest
      /\ \/ /\ position >= Frame
            /\ EnterFrame
         \/ /\ position < Frame
            /\ position < EndTick(windows_idx)
            /\ StayInWindow
         \/ /\ position < Frame
            /\ position >= EndTick(windows_idx)
            /\ \/ windows_idx = nbr_windows
               \/ /\ windows_idx < nbr_windows
                  /\ position < Windows[windows_idx + 1].start
            /\ EnterGap
         \/ /\ position < Frame
            /\ position >= EndTick(windows_idx)
            /\ windows_idx < nbr_windows
            /\ position >= Windows[windows_idx + 1].start
            /\ EnterNextWindow

-----------------------------------------------------------------------------
(* module_scheduler_init and arinc_start_scheduling: the first window's    *)
(* partition is dispatched whatever the clock says; kcb->ticks is reset,   *)
(* the uptime the scheduler reads is not.                                  *)
Init ==
  /\ clock \in BootTicks
  /\ wrapped = FALSE
  /\ phase = clock % Frame
  /\ windows_idx = 1
  /\ major_frame_count = 0
  /\ idle_current_partition = FALSE
  /\ partition_current = Windows[1].id
  /\ idle_mode = {}

WrapAt(n, m) == IF n < m THEN n ELSE n - m

(* A timer interrupt: _irq_handler re-arms the timer from the current time *)
(* (so interrupts only ever come late) and jumps to the main loop, which   *)
(* runs the scheduler.                                                     *)
TimerInterrupt ==
  \E late \in 1 .. MaxLate :
    /\ clock' = WrapAt(clock + late, ClockModulus)
    /\ wrapped' = (wrapped \/ clock + late >= ClockModulus)
    /\ phase' = WrapAt(phase + late, Frame)
    /\ partition_scheduler(clock')
    /\ UNCHANGED idle_mode

(* SET_PARTITION_MODE(IDLE), called by a process of the running partition, *)
(* in the two steps between which the timer may interrupt it: the mode is  *)
(* set, then the scheduler is told to drop the partition.  A partition     *)
(* that loses the processor between the two is never dispatched again.     *)
SetIdleMode ==
  /\ partition_current # None
  /\ partition_current \notin idle_mode
  /\ idle_mode' = idle_mode \cup {partition_current}
  /\ UNCHANGED <<clock, wrapped, phase, windows_idx, major_frame_count,
                 idle_current_partition, partition_current>>

signal_idle_current_partition ==
  /\ partition_current \in idle_mode
  /\ ~idle_current_partition
  /\ idle_current_partition' = TRUE
  /\ UNCHANGED <<clock, wrapped, phase, windows_idx, major_frame_count,
                 partition_current, idle_mode>>

Next == TimerInterrupt \/ SetIdleMode \/ signal_idle_current_partition

Spec == Init /\ [][Next]_vars

(* Until the truncated uptime first wraps (2^32 ms).                       *)
FirstEpochSpec == Init /\ [][Next /\ ~wrapped']_vars

(* The timer is re-armed by every interrupt, so interrupts never stop; and *)
(* a process inside SET_PARTITION_MODE goes on when it has the processor.  *)
FairSpec ==
  Spec /\ WF_vars(TimerInterrupt) /\ WF_vars(signal_idle_current_partition)

-----------------------------------------------------------------------------
(* Properties *)

(* The scheduler's variables stay within their ranges; the window index    *)
(* never leaves the table (windows_partition[*windows_idx + 1] is read).   *)
TypeOK ==
  /\ clock \in 0 .. ClockModulus - 1
  /\ wrapped \in BOOLEAN
  /\ phase \in 0 .. Frame - 1
  /\ windows_idx \in 1 .. nbr_windows
  /\ major_frame_count \in 0 .. Word - 1
  /\ idle_current_partition \in BOOLEAN
  /\ partition_current \in Partitions \cup {None}
  /\ idle_mode \subseteq Partitions

InWindow(i, t) == Windows[i].start <= t /\ t < EndTick(i)

(* Temporal isolation (README, "How timer interrupts and scheduling work": *)
(* rt_sched "checks DEFAULT_WINDOWS[] to determine which partition window  *)
(* is active"): a partition has the processor only inside a window of its  *)
(* own.                                                                    *)
Isolation ==
  partition_current # None =>
    \E i \in 1 .. nbr_windows :
      Windows[i].id = partition_current /\ InWindow(i, phase)

(* The incremental bookkeeping of partition_scheduler follows the plan     *)
(* although interrupts are late: before the uptime wraps, a partition has  *)
(* the processor only inside its windows, and it has it during all of them *)
(* unless it is in IDLE mode - no time is stolen and none is lost.         *)
PlanFollowed ==
  ~wrapped =>
    /\ Isolation
    /\ \A i \in 1 .. nbr_windows :
         InWindow(i, phase) =>
           \/ partition_current = Windows[i].id
           \/ Windows[i].id \in idle_mode

(* An IDLE request hits the partition that made it and no other: the flag  *)
(* idle_current_partition is consumed before another partition runs, even  *)
(* when the interrupt falls between setting the mode and the flag.         *)
IdleRequestHitsCaller ==
  idle_current_partition => partition_current \in idle_mode

(* Retirement is final: a partition in IDLE mode that has lost the         *)
(* processor never gets it back (krnl_partition_switch tests the mode).    *)
IdleIsFinal ==
  [][\A p \in idle_mode : partition_current' = p => partition_current = p]_vars

(* Every partition is given the processor again and again until it retires *)
EachPartitionServed ==
  \A p \in {Windows[i].id : i \in 1 .. nbr_windows} :
    []<>(partition_current = p \/ p \in idle_mode)

(* A retired partition is eventually off the processor for good.           *)
IdleTakesEffect ==
  \A p \in Partitions : (p \in idle_mode) ~> [](partition_current # p)

(* Scheduling starts with the first window whatever the uptime is by then; *)
(* advancing one window or one frame per interrupt, the scheduler catches  *)
(* up with the plan and then stays with it.                                *)
CatchesUp == <>[]Isolation

(* The scheduler implements the plan as a function of time (PartitionPlan) *)
(* until the uptime wraps, when scheduling starts inside the first window. *)
Plan == INSTANCE PartitionPlan
          WITH running <- partition_current, idle <- idle_mode

ImplementsPlan == Plan!Spec

(* The kernel boots before the first window ends.                          *)
BootInFirstWindow == BootTicks \subseteq 0 .. Windows[1].duration - 1

=============================================================================
