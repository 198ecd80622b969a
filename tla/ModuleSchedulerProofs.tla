------------------------ MODULE ModuleSchedulerProofs ------------------------
(***************************************************************************)
(* Proofs about ModuleScheduler for every plan, every lateness of the      *)
(* timer up to the shortest window and every clock width.                  *)
(***************************************************************************)
EXTENDS ModuleScheduler, SequenceTheorems, TLAPS

(* A uint32_t value in range is not changed by the reduction.              *)
LEMMA ModInRange ==
  ASSUME NEW a \in Int, NEW m \in Int, 0 <= a, a < m
  PROVE  a % m = a
  BY Z3

(* The next frame starts Frame ticks later.                                *)
LEMMA NextFrameStart ==
  ASSUME NEW c \in Nat, NEW f \in Nat
  PROVE  (c + 1) * f = c * f + f
  BY Z3

LEMMA ModRange ==
  ASSUME NEW a \in Int, NEW m \in Nat, m > 0
  PROVE  a % m \in 0 .. m - 1
  BY Z3

(* What the plan's assumption says of one window.                          *)
LEMMA WindowFacts ==
  ASSUME NEW i \in 1 .. nbr_windows
  PROVE  /\ nbr_windows \in Nat \ {0}
         /\ Windows[i].id \in Partitions
         /\ Windows[i].start \in Nat
         /\ Windows[i].duration \in Nat
         /\ EndTick(i) = Windows[i].start + Windows[i].duration
         /\ MaxLate <= Windows[i].duration
         /\ EndTick(i) <= Frame
  <1>1. nbr_windows \in Nat \ {0}
    BY PlanAssumption, LenProperties DEF nbr_windows
  <1>2. Windows[i] \in [id : Partitions, start : Nat, duration : Nat]
    BY PlanAssumption, ElementOfSeq DEF nbr_windows
  <1> QED
    BY <1>1, <1>2, PlanAssumption DEF nbr_windows, EndTick

(* The position computed from a reading is an unsigned 32-bit value.       *)
LEMMA PositionType ==
  ASSUME NEW t \in Nat, major_frame_count \in Nat
  PROVE  position_in_frame(t) \in 0 .. Word - 1
  <1>1. t - major_frame_count * Frame \in Int
    BY PlanAssumption
  <1>2. Word \in Nat /\ Word > 0
    BY ClockAssumption, PlanAssumption
  <1> QED
    BY <1>1, <1>2, ModRange DEF position_in_frame

(***************************************************************************)
(* Type correctness.                                                       *)
(***************************************************************************)

LEMMA InitTypeOK == Init => TypeOK
  <1> SUFFICES ASSUME Init PROVE TypeOK
    OBVIOUS
  <1>1. clock \in 0 .. ClockModulus - 1 /\ clock \in Int
    BY ClockAssumption DEF Init
  <1>2. phase \in 0 .. Frame - 1
    BY <1>1, ModRange, PlanAssumption DEF Init
  <1>3. 1 \in 1 .. nbr_windows
    BY PlanAssumption DEF nbr_windows
  <1>4. Windows[1].id \in Partitions
    BY <1>3, WindowFacts
  <1>5. 0 \in 0 .. Word - 1
    BY ClockAssumption, PlanAssumption
  <1> QED
    BY <1>1, <1>2, <1>3, <1>4, <1>5, Zenon DEF Init, TypeOK

(* Every step of the scheduler keeps its variables in range, the window    *)
(* index included, whatever the clock does (it may wrap).                  *)
THEOREM TypeCorrect == Spec => []TypeOK
  <1>2. TypeOK /\ [Next]_vars => TypeOK'
    <2> SUFFICES ASSUME TypeOK, [Next]_vars PROVE TypeOK'
      OBVIOUS
    <2>1. CASE TimerInterrupt
      <3> PICK late \in 1 .. MaxLate :
            /\ clock' = WrapAt(clock + late, ClockModulus)
            /\ wrapped' = (wrapped \/ clock + late >= ClockModulus)
            /\ phase' = WrapAt(phase + late, Frame)
            /\ partition_scheduler(clock')
            /\ UNCHANGED idle_mode
        BY <2>1 DEF TimerInterrupt
      <3>1. late \in Nat /\ late >= 1 /\ late <= Frame /\ Frame < ClockModulus
        <4>1. 1 \in 1 .. nbr_windows
          BY PlanAssumption DEF nbr_windows
        <4> QED
          BY <4>1, WindowFacts, PlanAssumption, ClockAssumption
      <3>2. clock' \in 0 .. ClockModulus - 1 /\ phase' \in 0 .. Frame - 1
        BY <3>1, ClockAssumption, PlanAssumption DEF TypeOK, WrapAt
      <3>3. wrapped' \in BOOLEAN /\ idle_current_partition' \in BOOLEAN
        BY DEF partition_scheduler, ServeIdleRequest, TypeOK
      <3>4. \A i \in 1 .. nbr_windows :
              krnl_partition_switch(Windows[i].id) \in Partitions \cup {None}
        BY WindowFacts DEF krnl_partition_switch
      <3>5. /\ windows_idx' \in 1 .. nbr_windows
            /\ major_frame_count' \in 0 .. Word - 1
            /\ partition_current' \in Partitions \cup {None}
        <4>0. nbr_windows \in Nat /\ 1 \in 1 .. nbr_windows
          BY PlanAssumption DEF nbr_windows
        <4>1. CASE EnterFrame
          <5>1. (major_frame_count + 1) % Word \in 0 .. Word - 1
            BY ModRange, ClockAssumption, PlanAssumption DEF TypeOK
          <5> QED
            BY <4>0, <4>1, <5>1, <3>4 DEF EnterFrame
        <4>2. CASE StayInWindow
          BY <4>2 DEF StayInWindow, AfterIdleRequest, TypeOK
        <4>3. CASE EnterGap
          BY <4>3 DEF EnterGap, TypeOK
        <4>4. CASE windows_idx < nbr_windows /\ EnterNextWindow
          <5>1. windows_idx + 1 \in 1 .. nbr_windows
            BY <4>0, <4>4 DEF TypeOK
          <5> QED
            BY <4>4, <5>1, <3>4 DEF EnterNextWindow, TypeOK
        <4> QED
          BY <4>1, <4>2, <4>3, <4>4 DEF partition_scheduler
      <3> QED
        BY <3>2, <3>3, <3>5 DEF TypeOK
    <2>2. CASE SetIdleMode
      BY <2>2 DEF SetIdleMode, TypeOK
    <2>3. CASE signal_idle_current_partition
      BY <2>3 DEF signal_idle_current_partition, TypeOK
    <2>4. CASE UNCHANGED vars
      BY <2>4 DEF vars, TypeOK
    <2> QED
      BY <2>1, <2>2, <2>3, <2>4 DEF Next
  <1> QED
    BY InitTypeOK, <1>2, PTL DEF Spec

(***************************************************************************)
(* The plan is followed.                                                   *)
(***************************************************************************)

(* The inductive invariant: the frame counter accounts for the whole       *)
(* uptime, and the window index is the last window that has begun.         *)
InSync ==
  ~wrapped =>
    /\ phase = clock - major_frame_count * Frame
    /\ Windows[windows_idx].start <= phase
    /\ \A i \in 1 .. nbr_windows : windows_idx < i => phase < Windows[i].start
    /\ partition_current # None =>
         partition_current = Windows[windows_idx].id /\ phase < EndTick(windows_idx)
    /\ phase < EndTick(windows_idx) =>
         \/ partition_current = Windows[windows_idx].id
         \/ Windows[windows_idx].id \in idle_mode

LEMMA InitInSync == BootInFirstWindow /\ Init => InSync
  <1> SUFFICES ASSUME BootInFirstWindow, Init PROVE InSync
    OBVIOUS
  <1>1. nbr_windows \in Nat /\ 1 \in 1 .. nbr_windows
    BY PlanAssumption, LenProperties DEF nbr_windows
  <1>2. /\ Windows[1].start = 0
        /\ Windows[1].duration \in Nat
        /\ EndTick(1) = Windows[1].duration
        /\ EndTick(1) <= Frame
    BY <1>1, WindowFacts, PlanAssumption
  <1>3. clock \in 0 .. Windows[1].duration - 1
    BY DEF Init, BootInFirstWindow
  <1>4. phase = clock
    BY <1>2, <1>3, ModInRange, PlanAssumption DEF Init
  <1>5. major_frame_count * Frame = 0
    BY PlanAssumption DEF Init
  <1>6. \A i \in 1 .. nbr_windows : 1 < i => phase < Windows[i].start
    <2> TAKE i \in 1 .. nbr_windows
    <2> HAVE 1 < i
    <2>1. Windows[1].start + Windows[1].duration <= Windows[i].start
      BY <1>1, PlanAssumption DEF nbr_windows
    <2> QED
      BY <2>1, <1>2, <1>3, <1>4, WindowFacts
  <1> QED
    BY <1>2, <1>3, <1>4, <1>5, <1>6 DEF Init, InSync

(* A timer interrupt keeps the scheduler in step with the plan: after at   *)
(* most MaxLate ticks either the window is the same, or the next one has   *)
(* begun and not ended, or the processor idles, or a new frame has begun.  *)
LEMMA TimerInSync ==
  ASSUME TypeOK, IdleRequestHitsCaller, InSync, TimerInterrupt
  PROVE  InSync'
  <1> SUFFICES ASSUME ~wrapped'
               PROVE  InSync'
    BY DEF InSync
  <1> PICK late \in 1 .. MaxLate :
        /\ clock' = WrapAt(clock + late, ClockModulus)
        /\ wrapped' = (wrapped \/ clock + late >= ClockModulus)
        /\ phase' = WrapAt(phase + late, Frame)
        /\ partition_scheduler(clock')
        /\ UNCHANGED idle_mode
    BY DEF TimerInterrupt
  <1> DEFINE base == major_frame_count * Frame
             idx  == windows_idx
  <1>1. ~wrapped /\ clock + late < ClockModulus
    <2>1. ~wrapped /\ ~(clock + late >= ClockModulus)
      BY Zenon
    <2>2. clock \in Int /\ late \in Int /\ ClockModulus \in Int
      BY ClockAssumption, PlanAssumption DEF TypeOK
    <2> QED
      BY <2>1, <2>2
  <1>2. /\ late \in Nat /\ late >= 1 /\ late <= MaxLate
        /\ Frame \in Nat /\ MaxLate \in Nat
        /\ clock \in Nat /\ phase \in Nat /\ phase < Frame
        /\ nbr_windows \in Nat /\ 1 \in 1 .. nbr_windows
        /\ idx \in 1 .. nbr_windows
        /\ major_frame_count \in Nat
        /\ Word \in Nat /\ ClockModulus \in Nat /\ ClockModulus <= Word
    BY PlanAssumption, ClockAssumption, LenProperties DEF TypeOK, nbr_windows
  <1>3. base \in Nat
    BY <1>2
  <1>4. /\ phase = clock - base
        /\ Windows[idx].start <= phase
        /\ \A i \in 1 .. nbr_windows : idx < i => phase < Windows[i].start
        /\ partition_current # None =>
             partition_current = Windows[idx].id /\ phase < EndTick(idx)
        /\ phase < EndTick(idx) =>
             \/ partition_current = Windows[idx].id
             \/ Windows[idx].id \in idle_mode
    BY <1>1 DEF InSync
  <1>5. clock' = clock + late
    BY <1>1 DEF WrapAt
  <1>6. position_in_frame(clock') = phase + late
    <2>1. clock' - base = phase + late
      BY <1>2, <1>3, <1>4, <1>5
    <2>2. phase + late < Word
      BY <1>1, <1>2, <1>3, <1>4
    <2>3. (clock' - base) % Word = phase + late
      BY <2>1, <2>2, <1>2, ModInRange
    <2> QED
      BY <2>3 DEF position_in_frame
  <1> HIDE DEF base
  <1>7. \A i \in 1 .. nbr_windows :
          /\ Windows[i].id \in Partitions
          /\ Windows[i].start \in Nat /\ Windows[i].duration \in Nat
          /\ EndTick(i) = Windows[i].start + Windows[i].duration
          /\ EndTick(i) \in Nat
          /\ MaxLate <= Windows[i].duration /\ EndTick(i) <= Frame
    BY WindowFacts
  <1>8. \A i, j \in 1 .. nbr_windows : i < j => EndTick(i) <= Windows[j].start
    BY <1>7, PlanAssumption DEF nbr_windows
  <1>9. CASE phase + late >= Frame /\ EnterFrame
    <2>1. /\ windows_idx' = 1
          /\ partition_current' = krnl_partition_switch(Windows[1].id)
      BY <1>9 DEF EnterFrame
    <2>2. major_frame_count' = major_frame_count + 1
      <3>1. major_frame_count + 1 <= base + Frame
        <4>1. major_frame_count <= base
          BY <1>2, <1>3, PlanAssumption, Z3 DEF base
        <4> QED
          BY <4>1, <1>2, <1>3, PlanAssumption
      <3>2. major_frame_count + 1 < Word
        BY <3>1, <1>1, <1>2, <1>3, <1>4, <1>9
      <3> QED
        BY <3>2, <1>2, <1>9, ModInRange DEF EnterFrame
    <2>3. (major_frame_count + 1) * Frame = base + Frame
      BY <1>2, NextFrameStart DEF base
    <2>4. phase' = phase + late - Frame
      BY <1>2, <1>9 DEF WrapAt
    <2>5. phase' = clock' - major_frame_count' * Frame
      BY <2>2, <2>3, <2>4, <1>2, <1>3, <1>4, <1>5
    <2>6. Windows[1].start = 0 /\ Windows[1].start <= phase' /\ phase' < EndTick(1)
      <3>1. /\ Windows[1].start = 0
            /\ EndTick(1) = Windows[1].start + Windows[1].duration
            /\ MaxLate <= Windows[1].duration
            /\ Windows[1].duration \in Nat
        BY <1>2, <1>7, PlanAssumption
      <3> QED
        BY <3>1, <2>4, <1>2, <1>9
    <2>7. \A i \in 1 .. nbr_windows : 1 < i => phase' < Windows[i].start
      <3> TAKE i \in 1 .. nbr_windows
      <3> HAVE 1 < i
      <3>1. EndTick(1) <= Windows[i].start
        BY <1>2, <1>8
      <3> QED
        BY <3>1, <2>4, <2>6, <1>2, <1>7
    <2>8. \/ partition_current' = Windows[1].id
          \/ partition_current' = None /\ Windows[1].id \in idle_mode'
      BY <2>1 DEF krnl_partition_switch
    <2> QED
      BY <2>1, <2>5, <2>6, <2>7, <2>8 DEF InSync, EndTick, nbr_windows
  <1>10. CASE phase + late < Frame
    <2>1. phase' = phase + late
      BY <1>2, <1>10 DEF WrapAt
    <2>a. phase' = clock' - base
      BY <2>1, <1>2, <1>3, <1>4, <1>5
    <2>2. CASE phase + late < EndTick(idx) /\ StayInWindow
      <3>1. /\ windows_idx' = idx
            /\ major_frame_count' = major_frame_count
            /\ partition_current' = AfterIdleRequest
        BY <2>2 DEF StayInWindow
      <3>2. phase' < EndTick(idx) /\ Windows[idx].start <= phase'
        BY <2>1, <2>2, <1>2, <1>4, <1>7
      <3>3. \A i \in 1 .. nbr_windows : idx < i => phase' < Windows[i].start
        <4> TAKE i \in 1 .. nbr_windows
        <4> HAVE idx < i
        <4>1. EndTick(idx) <= Windows[i].start
          BY <1>2, <1>8
        <4> QED
          BY <4>1, <3>2, <2>1, <1>2, <1>7
      <3>4. phase < EndTick(idx)
        BY <2>2, <1>2, <1>7
      <3>5. partition_current' # None => partition_current' = Windows[idx].id
        BY <3>1, <1>4 DEF AfterIdleRequest
      <3>6. \/ partition_current' = Windows[idx].id
            \/ Windows[idx].id \in idle_mode'
        BY <3>1, <3>4, <1>4 DEF AfterIdleRequest, IdleRequestHitsCaller
      <3>7. phase' = clock' - major_frame_count' * Frame
        BY <2>a, <3>1 DEF base
      <3> QED
        BY <3>1, <3>2, <3>3, <3>5, <3>6, <3>7 DEF InSync, EndTick, nbr_windows
    <2>3. CASE /\ phase + late >= EndTick(idx)
               /\ \/ idx = nbr_windows
                  \/ idx < nbr_windows /\ phase + late < Windows[idx + 1].start
               /\ EnterGap
      <3>1. /\ windows_idx' = idx
            /\ major_frame_count' = major_frame_count
            /\ partition_current' = None
        BY <2>3 DEF EnterGap
      <3>2. Windows[idx].start <= phase'
        BY <2>1, <1>2, <1>4, <1>7
      <3>3. \A i \in 1 .. nbr_windows : idx < i => phase' < Windows[i].start
        <4> TAKE i \in 1 .. nbr_windows
        <4> HAVE idx < i
        <4>1. idx < nbr_windows /\ phase + late < Windows[idx + 1].start
          BY <2>3, <1>2
        <4>2. idx + 1 \in 1 .. nbr_windows
          BY <4>1, <1>2
        <4>3. Windows[idx + 1].start <= Windows[i].start
          <5>1. CASE i = idx + 1
            BY <5>1, <4>2, <1>7
          <5>2. CASE i > idx + 1
            BY <5>2, <4>2, <1>2, <1>7, <1>8
          <5> QED
            BY <5>1, <5>2, <1>2
        <4> QED
          BY <4>1, <4>2, <4>3, <2>1, <1>2, <1>7
      <3>4. ~(phase' < EndTick(idx))
        BY <2>1, <2>3, <1>2, <1>7
      <3>5. phase' = clock' - major_frame_count' * Frame
        BY <2>a, <3>1 DEF base
      <3> QED
        BY <3>1, <3>2, <3>3, <3>4, <3>5 DEF InSync, EndTick, nbr_windows
    <2>4. CASE /\ phase + late >= EndTick(idx)
               /\ idx < nbr_windows
               /\ phase + late >= Windows[idx + 1].start
               /\ EnterNextWindow
      <3>0. idx + 1 \in 1 .. nbr_windows
        BY <2>4, <1>2
      <3>1. /\ windows_idx' = idx + 1
            /\ major_frame_count' = major_frame_count
            /\ partition_current' = krnl_partition_switch(Windows[idx + 1].id)
        BY <2>4 DEF EnterNextWindow
      <3>2. Windows[idx + 1].start <= phase' /\ phase' < EndTick(idx + 1)
        <4>1. phase < Windows[idx + 1].start
          BY <3>0, <1>2, <1>4
        <4>2. /\ EndTick(idx + 1) = Windows[idx + 1].start + Windows[idx + 1].duration
              /\ MaxLate <= Windows[idx + 1].duration
              /\ Windows[idx + 1].start \in Nat /\ Windows[idx + 1].duration \in Nat
          BY <3>0, <1>7
        <4> QED
          BY <4>1, <4>2, <2>1, <2>4, <1>2
      <3>3. \A i \in 1 .. nbr_windows : idx + 1 < i => phase' < Windows[i].start
        <4> TAKE i \in 1 .. nbr_windows
        <4> HAVE idx + 1 < i
        <4>1. EndTick(idx + 1) <= Windows[i].start
          BY <3>0, <1>8
        <4> QED
          BY <4>1, <3>0, <3>2, <2>1, <1>2, <1>7
      <3>4. \/ partition_current' = Windows[idx + 1].id
            \/ partition_current' = None /\ Windows[idx + 1].id \in idle_mode'
        BY <3>1 DEF krnl_partition_switch
      <3>5. phase' = clock' - major_frame_count' * Frame
        BY <2>a, <3>1 DEF base
      <3> QED
        BY <3>1, <3>2, <3>3, <3>4, <3>5 DEF InSync, EndTick, nbr_windows
    <2> QED
      BY <2>2, <2>3, <2>4, <1>2, <1>6, <1>10 DEF partition_scheduler
  <1> QED
    BY <1>6, <1>9, <1>10 DEF partition_scheduler

(* An idle request never outlives the partition that made it.              *)
LEMMA FlagStep == IdleRequestHitsCaller /\ [Next]_vars => IdleRequestHitsCaller'
  <1> SUFFICES ASSUME IdleRequestHitsCaller, [Next]_vars
               PROVE  IdleRequestHitsCaller'
    OBVIOUS
  <1>1. CASE TimerInterrupt
    <2>1. idle_current_partition' = FALSE
      BY <1>1, Zenon DEF TimerInterrupt, partition_scheduler, ServeIdleRequest
    <2> QED
      BY <2>1, Zenon DEF IdleRequestHitsCaller
  <1>2. CASE SetIdleMode
    BY <1>2, Zenon DEF SetIdleMode, IdleRequestHitsCaller
  <1>3. CASE signal_idle_current_partition
    BY <1>3, Zenon DEF signal_idle_current_partition, IdleRequestHitsCaller
  <1>4. CASE UNCHANGED vars
    BY <1>4, Zenon DEF vars, IdleRequestHitsCaller
  <1> QED
    BY <1>1, <1>2, <1>3, <1>4, Zenon DEF Next

LEMMA InSyncStep ==
  TypeOK /\ IdleRequestHitsCaller /\ InSync /\ [Next]_vars => InSync'
  <1> SUFFICES ASSUME TypeOK, IdleRequestHitsCaller, InSync, [Next]_vars
               PROVE  InSync'
    OBVIOUS
  <1>1. CASE TimerInterrupt
    BY <1>1, TimerInSync
  <1>2. CASE SetIdleMode
    BY <1>2 DEF SetIdleMode, InSync, EndTick, nbr_windows
  <1>3. CASE signal_idle_current_partition
    BY <1>3 DEF signal_idle_current_partition, InSync, EndTick, nbr_windows
  <1>4. CASE UNCHANGED vars
    BY <1>4 DEF vars, InSync, EndTick, nbr_windows
  <1> QED
    BY <1>1, <1>2, <1>3, <1>4 DEF Next

(* In step with the plan, the current window is the only one that can      *)
(* contain the present position.                                           *)
LEMMA InSyncPlan == TypeOK /\ InSync => PlanFollowed
  <1> SUFFICES ASSUME TypeOK, InSync, ~wrapped
               PROVE  /\ Isolation
                      /\ \A i \in 1 .. nbr_windows :
                           InWindow(i, phase) =>
                             \/ partition_current = Windows[i].id
                             \/ Windows[i].id \in idle_mode
    BY DEF PlanFollowed
  <1>1. windows_idx \in 1 .. nbr_windows /\ nbr_windows \in Nat /\ phase \in Nat
    BY PlanAssumption, LenProperties DEF TypeOK, nbr_windows
  <1>2. Isolation
    BY <1>1 DEF Isolation, InSync, InWindow
  <1>3. ASSUME NEW i \in 1 .. nbr_windows, InWindow(i, phase)
        PROVE  i = windows_idx
    <2>1. ~(windows_idx < i)
      <3>1. windows_idx < i => phase < Windows[i].start
        BY DEF InSync
      <3> QED
        BY <3>1, <1>1, <1>3, WindowFacts DEF InWindow
    <2>2. ~(i < windows_idx)
      <3>1. i < windows_idx => EndTick(i) <= Windows[windows_idx].start
        BY <1>1, PlanAssumption DEF EndTick, nbr_windows
      <3>2. EndTick(i) \in Nat /\ Windows[windows_idx].start \in Nat
        BY <1>1, WindowFacts
      <3> QED
        BY <3>1, <3>2, <1>1, <1>3 DEF InSync, InWindow
    <2> QED
      BY <2>1, <2>2, <1>1
  <1>4. ASSUME NEW i \in 1 .. nbr_windows, InWindow(i, phase)
        PROVE  \/ partition_current = Windows[i].id
               \/ Windows[i].id \in idle_mode
    <2>1. i = windows_idx
      BY <1>3, <1>4
    <2> QED
      BY <2>1, <1>4 DEF InSync, InWindow
  <1> QED
    BY <1>2, <1>4

(* For every plan, if interrupts are never later than the shortest window  *)
(* and the kernel boots inside the first window, then until the uptime     *)
(* wraps each partition has the processor during all of its windows and    *)
(* at no other time.                                                       *)
THEOREM PlanIsFollowed == BootInFirstWindow /\ Spec => []PlanFollowed
  <1>1. Init => IdleRequestHitsCaller
    BY DEF Init, IdleRequestHitsCaller
  <1> QED
    BY <1>1, InitInSync, TypeCorrect, FlagStep, InSyncStep, InSyncPlan, PTL DEF Spec

(* The idle flag always targets the partition that raised it.              *)
THEOREM IdleRequestsHitCaller == Spec => []IdleRequestHitsCaller
  <1>1. Init => IdleRequestHitsCaller
    BY DEF Init, IdleRequestHitsCaller
  <1> QED
    BY <1>1, FlagStep, PTL DEF Spec

(* What an interrupt can do to a partition in IDLE mode.                   *)
LEMMA NoRevival ==
  ASSUME TypeOK, Next, NEW p \in idle_mode, partition_current' = p
  PROVE  partition_current = p
  <1>1. p # None
    BY NoneAssumption DEF TypeOK
  <1>2. CASE TimerInterrupt
    BY <1>1, <1>2 DEF TimerInterrupt, partition_scheduler, EnterFrame, StayInWindow,
                 EnterGap, EnterNextWindow, AfterIdleRequest, krnl_partition_switch
  <1>3. CASE SetIdleMode \/ signal_idle_current_partition
    BY <1>3 DEF SetIdleMode, signal_idle_current_partition
  <1> QED
    BY <1>2, <1>3 DEF Next

(* A partition in IDLE mode that has lost the processor never regains it,  *)
(* wrap or no wrap.                                                        *)
THEOREM RetirementIsFinal == Spec => IdleIsFinal
  <1>1. TypeOK /\ [Next]_vars =>
          [\A p \in idle_mode : partition_current' = p => partition_current = p]_vars
    <2> SUFFICES ASSUME TypeOK, Next, NEW p \in idle_mode, partition_current' = p
                 PROVE  partition_current = p
      OBVIOUS
    <2> QED
      BY NoRevival
  <1> QED
    BY <1>1, TypeCorrect, PTL DEF Spec, IdleIsFinal

(***************************************************************************)
(* The scheduler implements the plan as a function of time.                *)
(***************************************************************************)

(* At a position t after the start of window idx and before the start of   *)
(* all later ones, only the partition of idx can be entitled to it.        *)
LEMMA EntitledAt ==
  ASSUME NEW idx \in 1 .. nbr_windows, NEW t \in Nat,
         Windows[idx].start <= t,
         \A i \in 1 .. nbr_windows : idx < i => t < Windows[i].start
  PROVE  /\ t < EndTick(idx) => Plan!Entitled(t) = {Windows[idx].id}
         /\ ~(t < EndTick(idx)) => Plan!Entitled(t) = {}
  <1>1. nbr_windows \in Nat
    BY PlanAssumption, LenProperties DEF nbr_windows
  <1>2. ASSUME NEW i \in 1 .. nbr_windows
        PROVE  Plan!Contains(Windows[i], t) <=> i = idx /\ t < EndTick(idx)
    <2>1. Windows[i].start \in Nat /\ Windows[i].duration \in Nat
      BY WindowFacts
    <2>2. CASE idx < i
      BY <2>1, <2>2, <1>1 DEF Plan!Contains
    <2>3. CASE i < idx
      <3>1. EndTick(i) <= Windows[idx].start /\ Windows[idx].start \in Nat
        BY <1>1, <2>3, WindowFacts, PlanAssumption DEF EndTick, nbr_windows
      <3> QED
        BY <2>1, <2>3, <3>1, <1>1 DEF Plan!Contains, EndTick
    <2>4. CASE i = idx
      BY <2>4, <2>1, <1>1 DEF Plan!Contains, EndTick
    <2> QED
      BY <2>2, <2>3, <2>4, <1>1
  <1> QED
    BY <1>1, <1>2 DEF Plan!Entitled, nbr_windows

(* Every step of the scheduler before the wrap is a step of the plan: an   *)
(* interrupt is Advance, setting the mode is Retire, raising the flag is   *)
(* invisible.                                                              *)
LEMMA StepImplementsPlan ==
  ASSUME TypeOK, TypeOK', InSync', ~wrapped', Next
  PROVE  [Plan!Next]_<<phase, partition_current, idle_mode>>
  <1>1. CASE TimerInterrupt
    <2>1. PICK late \in 1 .. MaxLate :
            /\ phase' = WrapAt(phase + late, Frame)
            /\ UNCHANGED idle_mode
      BY <1>1 DEF TimerInterrupt
    <2>2. \E d \in 1 .. MaxLate :
            phase' = IF phase + d < Frame THEN phase + d ELSE phase + d - Frame
      <3>0. phase \in Int /\ late \in Int /\ Frame \in Int
        BY <2>1, PlanAssumption DEF TypeOK
      <3>1. WrapAt(phase + late, Frame) =
              IF phase + late < Frame THEN phase + late ELSE phase + late - Frame
        BY <3>0 DEF WrapAt
      <3> QED
        BY <2>1, <3>1
    <2>3. /\ windows_idx' \in 1 .. nbr_windows
          /\ phase' \in Nat
          /\ Windows[windows_idx'].start <= phase'
          /\ \A i \in 1 .. nbr_windows : windows_idx' < i => phase' < Windows[i].start
          /\ partition_current' # None =>
               /\ partition_current' = Windows[windows_idx'].id
               /\ phase' < EndTick(windows_idx')
          /\ phase' < EndTick(windows_idx') =>
               \/ partition_current' = Windows[windows_idx'].id
               \/ Windows[windows_idx'].id \in idle_mode
      BY <2>1, PlanAssumption DEF InSync, TypeOK, EndTick, nbr_windows
    <2>4. /\ phase' < EndTick(windows_idx') =>
               Plan!Entitled(phase') = {Windows[windows_idx'].id}
          /\ ~(phase' < EndTick(windows_idx')) => Plan!Entitled(phase') = {}
      BY <2>3, EntitledAt
    <2>5. Plan!MayOwn(partition_current', phase', idle_mode, partition_current)
      <3>1. CASE partition_current' = None
        BY <3>1, <2>3, <2>4 DEF Plan!MayOwn
      <3>2. CASE partition_current' # None /\ partition_current' \notin idle_mode
        BY <3>2, <2>3, <2>4 DEF Plan!MayOwn
      <3>3. CASE partition_current' # None /\ partition_current' \in idle_mode
        <4>1. partition_current = partition_current'
          BY <3>3, NoRevival
        <4> QED
          BY <3>3, <4>1, <2>3, <2>4 DEF Plan!MayOwn
      <3> QED
        BY <3>1, <3>2, <3>3
    <2> QED
      BY <2>1, <2>2, <2>5 DEF Plan!Next, Plan!Advance
  <1>2. CASE SetIdleMode
    BY <1>2 DEF SetIdleMode, Plan!Next, Plan!Retire
  <1>3. CASE signal_idle_current_partition
    BY <1>3 DEF signal_idle_current_partition
  <1> QED
    BY <1>1, <1>2, <1>3 DEF Next

(* Before the uptime wraps, the scheduler implements PartitionPlan: who    *)
(* has the processor is a function of time and of who has retired.         *)
THEOREM SchedulerImplementsPlan == BootInFirstWindow /\ FirstEpochSpec => ImplementsPlan
  <1>1. Init => IdleRequestHitsCaller /\ ~wrapped
    BY DEF Init, IdleRequestHitsCaller
  <1>2. [Next /\ ~wrapped']_vars => [Next]_vars
    OBVIOUS
  <1>3. FirstEpochSpec => Spec
    BY <1>2, PTL DEF FirstEpochSpec, Spec
  <1>4. ~wrapped /\ [Next /\ ~wrapped']_vars => ~wrapped'
    BY DEF vars
  <1>5. BootInFirstWindow /\ Init => Plan!Init
    <2> SUFFICES ASSUME BootInFirstWindow, Init PROVE Plan!Init
      OBVIOUS
    <2>1. TypeOK /\ InSync /\ ~wrapped /\ idle_mode = {}
      BY InitInSync, InitTypeOK DEF Init
    <2>2. /\ windows_idx \in 1 .. nbr_windows
          /\ phase \in Nat
          /\ Windows[windows_idx].start <= phase
          /\ \A i \in 1 .. nbr_windows : windows_idx < i => phase < Windows[i].start
          /\ partition_current # None =>
               /\ partition_current = Windows[windows_idx].id
               /\ phase < EndTick(windows_idx)
          /\ phase < EndTick(windows_idx) => partition_current = Windows[windows_idx].id
      BY <2>1, PlanAssumption DEF InSync, TypeOK
    <2>3. /\ phase < EndTick(windows_idx) =>
               Plan!Entitled(phase) = {Windows[windows_idx].id}
          /\ ~(phase < EndTick(windows_idx)) => Plan!Entitled(phase) = {}
      BY <2>2, EntitledAt
    <2>4. Plan!MayOwn(partition_current, phase, idle_mode, None)
      BY <2>1, <2>2, <2>3 DEF Plan!MayOwn
    <2> QED
      BY <2>1, <2>4 DEF Plan!Init, TypeOK
  <1>6. TypeOK /\ TypeOK' /\ InSync' /\ ~wrapped' /\ [Next /\ ~wrapped']_vars
          => [Plan!Next]_<<phase, partition_current, idle_mode>>
    BY StepImplementsPlan DEF vars
  <1> QED
    BY <1>1, <1>3, <1>4, <1>5, <1>6, InitInSync, TypeCorrect, FlagStep, InSyncStep,
       <1>2, PTL DEF FirstEpochSpec, Spec, ImplementsPlan, Plan!Spec
=============================================================================
