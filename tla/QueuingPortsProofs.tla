-------------------------- MODULE QueuingPortsProofs --------------------------
(***************************************************************************)
(* Proofs about QueuingPorts for any number of receivers, any capacity,    *)
(* messages, time-outs and set of services.                                *)
(***************************************************************************)
EXTENDS QueuingPorts, ProcessesProofs

(* The stages of a service that works on the channel.                      *)
Stages == {"COUNTING", "READING", "CLEARING"}

LEMMA PortConstants ==
  /\ InPort \in Resources
  /\ MaxNbMessages \in Nat \ {0}
  /\ Word \in Nat \ {0} /\ MaxNbMessages < Word
  /\ MaxMessageSize # SOURCE
  /\ Waits \subseteq Blocking /\ Stages \subseteq Blocking
  /\ Waits \subseteq Doing /\ Stages \subseteq Doing
  /\ "app" \in Doing /\ "app" \notin Waits \cup Stages
  /\ Waits \cap Stages = {} /\ RcOnly \cap (Waits \cup Stages) = {}
  <1>1. /\ InPort \in Resources
        /\ MaxNbMessages \in Nat \ {0}
        /\ Word \in Nat \ {0} /\ MaxNbMessages < Word
        /\ MaxMessageSize # SOURCE
    BY PortsAssumption DEF SOURCE
  <1>2. Waits \subseteq Doing /\ Stages \subseteq Doing /\ "app" \in Doing
    BY DEF Waits, Stages, Doing
  <1>3. /\ "app" \notin Waits \cup Stages
        /\ Waits \cap Stages = {} /\ RcOnly \cap (Waits \cup Stages) = {}
    BY DEF Waits, Stages, RcOnly
  <1> QED
    BY <1>1, <1>2, <1>3 DEF Blocking

(***************************************************************************)
(* The processes of the destination partition                              *)
(***************************************************************************)

NobodyFaulted == \A p \in Procs : state[p] # "FAULTED"

(* Waking by the port keeps the scheduling invariant of Processes; the     *)
(* channel has no part in it.                                              *)
PortBase == SchedInv /\ Unstarted /\ NobodyFaulted

LEMMA InitBase == PortInit => PortBase
  BY InitSched DEF PortInit, PortBase, Init, Unstarted, NobodyFaulted

(* A receiver goes on in its call.                                         *)
LEMMA ProceedBase ==
  ASSUME PortBase, exec = "proc", NEW s \in Doing, Proceed(s),
         timer' \in {timer, [timer EXCEPT ![current] = NoTimer]}
  PROVE  PortBase'
  <1>t. /\ TypeOK /\ SchedInv /\ current \in Procs
        /\ state' = state /\ priority' = priority /\ exec' = exec /\ current' = current
        /\ call' = [call EXCEPT ![current] = s]
        /\ timer \in [Procs -> Nat \cup {INFINITE, NoTimer}]
    BY DEF PortBase, SchedInv, TypeOK, Proceed, schedVars
  <1>1. timer' \in [Procs -> Nat \cup {INFINITE, NoTimer}]
    BY <1>t
  <1>2. call' \in [Procs -> Doing]
    BY <1>t DEF TypeOK
  <1>3. TypeOK'
    BY <1>t, <1>1, <1>2 DEF TypeOK, Proceed, schedVars
  <1>4. Returns /\ TimersCleared
    BY <1>t DEF Returns, TimersCleared
  <1>5. SchedInv'
    BY <1>t, <1>3, <1>4, ServicesKeepSched DEF SchedInv
  <1> QED
    BY <1>t, <1>5 DEF PortBase, Unstarted, NobodyFaulted

(* The running receiver waits.                                             *)
LEMMA TakeLaterBase ==
  ASSUME PortBase, exec = "proc", NEW t \in Timeouts, TakeLater(t)
  PROVE  PortBase'
  <1> DEFINE sorted == InPort \in PriorityQueued
             ptrs == tracked[current] \cup {InPort}
             plain == "RECEIVE_QUEUING_MESSAGE"
             timed == "RECEIVE_QUEUING_MESSAGE_TIMED"
  <1>t. TypeOK /\ SchedInv /\ current \in Procs
    BY DEF PortBase, SchedInv, TypeOK
  <1>1. /\ InPort \in Resources /\ sorted \in BOOLEAN /\ ptrs \in SUBSET Resources
        /\ plain \in Doing /\ timed \in Doing
    BY <1>t, PortConstants DEF TypeOK, Waits
  <1>2. WaitFor(InPort, sorted, t, ptrs, plain, timed)
    BY DEF TakeLater
  <1> HIDE DEF sorted, ptrs, plain, timed
  <1>3. TypeOK'
    BY <1>t, <1>1, <1>2, WaitForType
  <1>4. Yields /\ TimersCleared
    BY <1>t, <1>2, WaitForYields
  <1>5. SchedInv'
    BY <1>t, <1>3, <1>4, ServicesKeepSched DEF SchedInv
  <1>6. exec' = "os" /\ state' = [state EXCEPT ![current] = "WAITING"]
    BY <1>2 DEF WaitFor, yield_to_partition
  <1> QED
    BY <1>t, <1>5, <1>6 DEF PortBase, Unstarted, NobodyFaulted, TypeOK

(* What the partition OS hands to the scheduler: each process as it was,   *)
(* or made READY, by time or by a message.                                 *)
LEMMA DestinationWakes ==
  ASSUME SchedInv, DestinationOS
  PROVE  /\ \E st \in [Procs -> States] :
              /\ process_schedule(st)
              /\ \A p \in Procs :
                   \/ st[p] = state[p]
                   \/ st[p] = "READY" /\ (nb > 0 \/ Released(p) \/ timer'[p] = NoTimer)
         /\ \A p \in Procs : timer'[p] \in {timer[p], NoTimer}
         /\ queue' \in [Resources -> Seq(Procs)]
         /\ tracked' \in [Procs -> SUBSET Resources]
  <1> DEFINE woken == IF tick_pending THEN Popped ELSE {}
             before == IF tick_pending THEN StateAfterUpdate ELSE state
             st == [p \in Procs |-> IF p \in woken THEN "READY" ELSE before[p]]
  <1>t. /\ TypeOK /\ state \in [Procs -> States] /\ queue[InPort] \in Seq(Procs)
        /\ queue \in [Resources -> Seq(Procs)] /\ tracked \in [Procs -> SUBSET Resources]
        /\ timer \in [Procs -> Nat \cup {INFINITE, NoTimer}]
        /\ InPort \in Resources
    BY PortConstants DEF SchedInv, TypeOK
  <1>1. before \in [Procs -> States]
    BY <1>t, UpdateStates
  <1>2. st \in [Procs -> States]
    BY <1>1 DEF States
  <1>3. process_schedule(st)
    BY DEF DestinationOS
  <1>4. woken # {} => nb > 0 /\ queue[InPort] # <<>>
    BY DEF Popped
  <1>5. \A p \in Procs : timer'[p] = IF tick_pending /\ Expired(p) THEN NoTimer ELSE timer[p]
    BY <1>t DEF DestinationOS, arinc_time_update_partition, timeVars
  <1>6. \A p \in Procs :
          before[p] = IF tick_pending /\ (Released(p) \/ Expired(p)) THEN "READY" ELSE state[p]
    BY DEF StateAfterUpdate
  <1>7. \A p \in Procs :
          \/ st[p] = state[p]
          \/ st[p] = "READY" /\ (nb > 0 \/ Released(p) \/ timer'[p] = NoTimer)
    <2> HIDE DEF woken, before
    <2>1. \A p \in Procs : st[p] = IF p \in woken THEN "READY" ELSE before[p]
      OBVIOUS
    <2> HIDE DEF st
    <2> QED
      BY <1>4, <1>5, <1>6, <2>1
  <1>8. queue' \in [Resources -> Seq(Procs)]
    <2>1. queue' = [queue EXCEPT ![InPort] = IF woken = {} THEN @ ELSE Tail(@)]
      BY DEF DestinationOS
    <2>2. woken # {} => Tail(queue[InPort]) \in Seq(Procs)
      BY <1>t, <1>4, HeadTailProperties
    <2> HIDE DEF woken
    <2> QED
      BY <1>t, <2>1, <2>2
  <1>9. tracked' \in [Procs -> SUBSET Resources]
    <2>1. tracked' = [p \in Procs |-> IF p \in woken THEN tracked[p] \ {InPort} ELSE tracked[p]]
      BY DEF DestinationOS
    <2> HIDE DEF woken
    <2> QED
      BY <1>t, <2>1
  <1> HIDE DEF st
  <1> QED
    BY <1>2, <1>3, <1>5, <1>7, <1>8, <1>9

LEMMA DestinationBase ==
  ASSUME PortBase, DestinationOS
  PROVE  PortBase'
  <1>t. /\ TypeOK /\ SchedInv /\ state \in [Procs -> States]
        /\ timer \in [Procs -> Nat \cup {INFINITE, NoTimer}]
        /\ init_delay \in [Procs -> Nat] /\ suspended \in [Procs -> BOOLEAN]
        /\ exec = "os" /\ priority' = priority
    BY DEF PortBase, SchedInv, TypeOK, DestinationOS
  <1>1. PICK st \in [Procs -> States] :
          /\ process_schedule(st)
          /\ \A p \in Procs : st[p] = state[p] \/ st[p] = "READY"
    BY <1>t, DestinationWakes
  <1>2. \A p \in Procs : timer'[p] \in {timer[p], NoTimer}
    BY <1>t, DestinationWakes
  <1>3. \A p \in Procs : st[p] = "RUNNING" => p = current
    BY <1>t, <1>1 DEF SchedInv, RunningIsCurrent
  <1>4. /\ RunningIsCurrent' /\ PriorityRespected'
        /\ \A p \in Procs : state'[p] = "DORMANT" <=> st[p] = "DORMANT"
    BY <1>t, <1>1, <1>3, ScheduleChoice
  <1>5. DormantHasNoTimer'
    BY <1>t, <1>1, <1>2, <1>4 DEF SchedInv, DormantHasNoTimer
  <1>6. NobodyFaulted'
    <2> SUFFICES ASSUME NEW p \in Procs PROVE state'[p] # "FAULTED"
      BY DEF NobodyFaulted
    <2>1. st[p] # "FAULTED"
      BY <1>1 DEF PortBase, NobodyFaulted
    <2>2. CASE st[p] \in {"READY", "RUNNING"}
      BY <1>t, <1>1, <2>2, ScheduleKeepsWorking
    <2>3. CASE st[p] \notin {"READY", "RUNNING"}
      BY <1>t, <1>1, <2>1, <2>3, ScheduleKeeps
    <2> QED
      BY <2>2, <2>3
  <1>7. /\ timer' \in [Procs -> Nat \cup {INFINITE, NoTimer}]
        /\ init_delay' \in [Procs -> Nat] /\ release' = release /\ grid' = grid
    <2>1. CASE tick_pending
      <3>1. arinc_time_update_partition
        BY <2>1 DEF DestinationOS
      <3> QED
        BY <1>t, <3>1 DEF arinc_time_update_partition
    <2>2. CASE ~tick_pending
      BY <1>t, <2>2 DEF DestinationOS, timeVars
    <2> QED
      BY <2>1, <2>2
  <1>8. suspended' \in [Procs -> BOOLEAN]
    BY <1>t, Zenon DEF DestinationOS, arinc_time_update_partition
  <1>9. TypeOK'
    <2>1. /\ state' \in [Procs -> States]
          /\ exec' \in {"main", "os", "proc"}
          /\ current' \in Procs \cup {None}
          /\ call' \in [Procs -> Doing]
          /\ exec' = "proc" => current' # None
      BY <1>t, <1>1, ScheduleType
    <2>2. queue' \in [Resources -> Seq(Procs)] /\ tracked' \in [Procs -> SUBSET Resources]
      BY <1>t, DestinationWakes
    <2>3. tick_pending' = FALSE /\ UNCHANGED <<mode, order, priority, owned>>
      BY DEF DestinationOS
    <2> QED
      BY <1>t, <1>7, <1>8, <2>1, <2>2, <2>3 DEF TypeOK
  <1>10. Unstarted'
    <2>1. exec' # "main"
      BY <1>t, <1>1 DEF process_schedule
    <2> QED
      BY <2>1 DEF Unstarted
  <1> QED
    BY <1>4, <1>5, <1>6, <1>9, <1>10 DEF PortBase, SchedInv

(* No service marks a process FAULTED; the health monitor would.           *)
LEMMA ServicesFaultNobody ==
  ASSUME TypeOK, Service, NobodyFaulted
  PROVE  NobodyFaulted'
  <1>t. state \in [Procs -> States] /\ \A p \in Procs : state[p] # "FAULTED"
    BY DEF TypeOK, NobodyFaulted
  <1> SUFFICES \A p \in Procs : state'[p] # "FAULTED"
    BY DEF NobodyFaulted
  <1>1. CASE \E q, x : x # "FAULTED" /\ state' = [state EXCEPT ![q] = x]
    BY <1>1, <1>t
  <1>2. CASE state' = state
    BY <1>2, <1>t
  <1>3. CASE SET_PARTITION_MODE_NORMAL
    BY <1>3, <1>t DEF SET_PARTITION_MODE_NORMAL
  <1>4. ASSUME NEW q \in Named, NEW d, START(q) \/ DELAYED_START(q, d)
        PROVE  \E x : x # "FAULTED" /\ state' = [state EXCEPT ![q] = x]
    BY <1>4 DEF START, DELAYED_START, AwaitRelease
  <1>5. ASSUME NEW q \in Named, SUSPEND(q) \/ STOP(q) \/ RESUME(q)
        PROVE  state' = state \/ \E x : x # "FAULTED" /\ state' = [state EXCEPT ![q] = x]
    BY <1>5 DEF SUSPEND, STOP, RESUME, Halt
  <1>6. ASSUME NEW t, SUSPEND_SELF(t) \/ TIMED_WAIT(t) \/ STOP_SELF \/ PERIODIC_WAIT
        PROVE  \E x : x # "FAULTED" /\ state' = [state EXCEPT ![current] = x]
    BY <1>6 DEF SUSPEND_SELF, TIMED_WAIT, STOP_SELF, PERIODIC_WAIT, Halt
  <1>7. ASSUME NEW q, NEW v, SET_PRIORITY(q, v) PROVE state' = state
    BY <1>7 DEF SET_PRIORITY
  <1> QED
    BY <1>1, <1>2, <1>3, <1>4, <1>5, <1>6, <1>7 DEF Service, OtherService

LEMMA PortBaseStep == PortBase /\ [PortNext]_allVars => PortBase'
  <1> SUFFICES ASSUME PortBase, [PortNext]_allVars PROVE PortBase'
    OBVIOUS
  <1>t. TypeOK /\ SchedInv
    BY DEF PortBase, SchedInv
  <1>1. CASE UNCHANGED vars
    <2>1. SchedInv'
      BY <1>1, <1>t, SchedStep
    <2> QED
      BY <1>1, <2>1 DEF PortBase, Unstarted, NobodyFaulted, vars, schedVars, waitVars
  <1>2. ASSUME NEW m \in Messages, NEW t \in Timeouts, SEND_QUEUING_MESSAGE(m, t)
        PROVE  PortBase'
    BY <1>1, <1>2 DEF SEND_QUEUING_MESSAGE
  <1>3. CASE SenderCounts \/ SenderCopies \/ SenderReturns \/ SourceOS \/ Switch
    BY <1>1, <1>3 DEF SenderCounts, SenderCopies, SenderReturns, SourceOS, Switch
  <1>4. ASSUME NEW t \in Timeouts, RECEIVE_QUEUING_MESSAGE(t) PROVE PortBase'
    <2>1. exec = "proc" /\ (TakeAtOnce \/ TakeLater(t))
      BY <1>4 DEF RECEIVE_QUEUING_MESSAGE, ReceiverCalls, Calls
    <2>2. CASE TakeAtOnce
      <3>1. Proceed("COUNTING") /\ timer' = timer /\ "COUNTING" \in Doing
        BY <2>2, PortConstants DEF TakeAtOnce, Stages
      <3> QED
        BY <2>1, <3>1, ProceedBase
    <2> QED
      BY <2>1, <2>2, TakeLaterBase
  <1>5. CASE ReceiverCounts \/ ReceiverReads \/ CLEAR_QUEUING_PORT \/ ReceiverClears
    <2>1. exec = "proc" /\ timer' = timer
      BY <1>5 DEF ReceiverCounts, ReceiverReads, CLEAR_QUEUING_PORT, ReceiverClears, In,
           ReceiverCalls, Calls
    <2>2. \E s \in {"READING", "app", "CLEARING"} : Proceed(s)
      BY <1>5 DEF ReceiverCounts, ReceiverReads, CLEAR_QUEUING_PORT, ReceiverClears
    <2>3. {"READING", "app", "CLEARING"} \subseteq Doing
      BY PortConstants DEF Stages
    <2> QED
      BY <2>1, <2>2, <2>3, ProceedBase
  <1>6. CASE ReceiverReturns
    <2>1. exec = "proc" /\ timer' = [timer EXCEPT ![current] = NoTimer]
      BY <1>6 DEF ReceiverReturns
    <2>2. \E s \in {"COUNTING", "app"} : Proceed(s)
      BY <1>6 DEF ReceiverReturns
    <2>3. {"COUNTING", "app"} \subseteq Doing
      BY PortConstants DEF Stages
    <2> QED
      BY <2>1, <2>2, <2>3, ProceedBase
  <1>7. CASE DestinationOS
    BY <1>7, DestinationBase
  <1>8. CASE ProcessService
    <2>1. Service /\ Next
      BY <1>8 DEF ProcessService, Next
    <2>2. SchedInv' /\ Unstarted'
      BY <1>t, <2>1, SchedStep, UnstartedStep DEF PortBase
    <2> QED
      BY <1>t, <2>1, <2>2, ServicesFaultNobody DEF PortBase
  <1>9. CASE PortTick
    <2>1. Tick /\ Next
      BY <1>9 DEF PortTick, Next
    <2>2. SchedInv' /\ Unstarted'
      BY <1>t, <2>1, SchedStep, UnstartedStep DEF PortBase
    <2> QED
      BY <2>1, <2>2 DEF PortBase, NobodyFaulted, Tick
  <1> QED
    BY <1>1, <1>2, <1>3, <1>4, <1>5, <1>6, <1>7, <1>8, <1>9
    DEF PortNext, PortServices, allVars

LEMMA PortBaseInvariant == PortSpec => []PortBase
  BY InitBase, PortBaseStep, PTL DEF PortSpec

(* A message that wakes a receiver does not let a READY process outrank    *)
(* the running one, although another partition sent it: the port is looked *)
(* at by the partition OS, before it schedules.                            *)
THEOREM HighestPriorityRunsWithPorts == PortSpec => [](RunningIsCurrent /\ PriorityRespected)
  <1>1. PortBase => RunningIsCurrent /\ PriorityRespected
    BY DEF PortBase, SchedInv
  <1> QED
    BY <1>1, PortBaseInvariant, PTL

(***************************************************************************)
(* The channel                                                             *)
(***************************************************************************)

Reading == \E p \in Procs : call[p] = "READING"

(* The number of messages between the two indices.                         *)
Held == nb - (IF step = "copying" THEN 1 ELSE 0) + (IF Reading THEN 1 ELSE 0)

(* Where the sender is, what it has loaded is what is there: no receiver   *)
(* runs in between.  A sender that waited has no timer left when it goes   *)
(* on, since nothing but its time-out wakes it.                            *)
SenderInv ==
  /\ step \in {"app", "counting", "copying", "waiting", "woken"}
  /\ step # "app" => letter \in Messages
  /\ step \in {"counting", "copying"} => active = "source"
  /\ step = "counting" => s_loaded = nb /\ nb < MaxNbMessages
  /\ step = "copying" => s_index = write_index /\ nb > 0
  /\ step = "woken" => s_timer = NoTimer

(* Only the running process is inside a service that works on the channel, *)
(* and what it has loaded is what is there.                                *)
ReceiverInv ==
  \A p \in Procs :
    /\ call[p] \in Stages => active = "destination" /\ exec = "proc" /\ current = p
    /\ call[p] = "COUNTING" => loaded = nb /\ nb > 0
    /\ call[p] = "READING" => nb < MaxNbMessages
    /\ call[p] = "CLEARING" => nb = 0

ChannelInv ==
  /\ active \in {"source", "destination"}
  /\ CountInRange
  /\ slot \in [0 .. MaxNbMessages - 1 -> Messages \cup {None}]
  /\ SenderInv
  /\ ReceiverInv
  /\ (\A p \in Procs : call[p] # "CLEARING") =>
       write_index = (read_index + Held) % MaxNbMessages

(* What a step does to the messages in the channel.                        *)
Accepted ==
  /\ Held < MaxNbMessages /\ Held' = Held + 1
  /\ letter \in Messages
  /\ write_index = (read_index + Held) % MaxNbMessages
  /\ slot' = [slot EXCEPT ![write_index] = letter]
  /\ read_index' = read_index

Delivered ==
  /\ Held > 0 /\ Held' = Held - 1
  /\ slot' = slot
  /\ read_index' = Following(read_index)

Kept == Held' = Held /\ slot' = slot /\ read_index' = read_index

ChannelStep == Accepted \/ Delivered \/ Held' = 0 \/ Kept

LEMMA HeldRange ==
  ASSUME ChannelInv
  PROVE  Held \in 0 .. MaxNbMessages
  <1>1. nb \in 0 .. MaxNbMessages /\ MaxNbMessages \in Nat \ {0}
    BY PortConstants DEF ChannelInv, CountInRange
  <1>2. (step = "copying" => nb > 0) /\ (Reading => nb < MaxNbMessages)
    BY DEF ChannelInv, SenderInv, ReceiverInv, Reading
  <1> QED
    BY <1>1, <1>2 DEF Held

(* A remainder of what is small enough already.                            *)
LEMMA SmallMod ==
  ASSUME NEW m \in Nat \ {0}, NEW x \in 0 .. m - 1
  PROVE  x % m = x
  <1>1. x \in Int /\ 0 \in Int /\ x = m * 0 + x
    OBVIOUS
  <1> QED
    BY <1>1, RemainderIs

LEMMA FollowingRange ==
  ASSUME NEW i \in Int
  PROVE  Following(i) \in 0 .. MaxNbMessages - 1
  <1>1. i + 1 \in Int /\ MaxNbMessages \in Nat \ {0}
    BY PortConstants
  <1> QED
    BY <1>1, ModRange DEF Following

LEMMA InitChannel == PortInit => ChannelInv
  <1> SUFFICES ASSUME PortInit PROVE ChannelInv
    OBVIOUS
  <1>1. /\ nb = 0 /\ read_index = 0 /\ write_index = 0 /\ step = "app"
        /\ active \in {"source", "destination"}
        /\ slot = [i \in 0 .. MaxNbMessages - 1 |-> None]
        /\ \A p \in Procs : call[p] = "app"
    BY DEF PortInit, Init
  <1>2. MaxNbMessages \in Nat \ {0}
    BY PortConstants
  <1>3. CountInRange
    BY <1>1, <1>2 DEF CountInRange
  <1>4. Held = 0 /\ read_index + Held = 0
    BY <1>1 DEF Held, Reading
  <1>5. 0 % MaxNbMessages = 0
    BY <1>2, SmallMod
  <1>6. SenderInv /\ ReceiverInv
    BY <1>1 DEF SenderInv, ReceiverInv, Stages
  <1>7. slot \in [0 .. MaxNbMessages - 1 -> Messages \cup {None}]
    BY <1>1
  <1>8. write_index = (read_index + Held) % MaxNbMessages
    BY <1>1, <1>4, <1>5
  <1> QED
    BY <1>1, <1>3, <1>6, <1>7, <1>8 DEF ChannelInv

(* A step of the processes that leaves whoever is in a stage in it.        *)
StagesKept ==
  \A p \in Procs :
    call[p] \in Stages \/ call'[p] \in Stages =>
      call'[p] = call[p] /\ exec' = exec /\ current' = current

LEMMA QuietStep ==
  ASSUME ChannelInv, StagesKept,
         UNCHANGED <<active, nb, read_index, write_index, slot, loaded, step, letter,
                     s_loaded, s_index>>,
         s_timer' \in {s_timer, CountDown(s_timer)}
  PROVE  ChannelInv' /\ Kept
  <1>1. \A p \in Procs : \A s \in Stages : call'[p] = s <=> call[p] = s
    BY DEF StagesKept
  <1>2. Reading' <=> Reading
    BY <1>1 DEF Reading, Stages
  <1>3. Held' = Held
    BY <1>2 DEF Held
  <1>4. ReceiverInv'
    BY <1>1 DEF ChannelInv, ReceiverInv, StagesKept, Stages
  <1>5. CountDown(NoTimer) = NoTimer
    BY DEF CountDown, NoTimer
  <1>6. SenderInv'
    BY <1>5 DEF ChannelInv, SenderInv
  <1>7. (\A p \in Procs : call'[p] # "CLEARING") => \A p \in Procs : call[p] # "CLEARING"
    BY <1>1 DEF Stages
  <1>8. CountInRange'
    BY DEF ChannelInv, CountInRange
  <1> QED
    BY <1>3, <1>4, <1>6, <1>7, <1>8 DEF ChannelInv, Kept

(* In a window of the source partition no receiver is in a stage.          *)
LEMMA SenderAlone ==
  ASSUME ChannelInv, active = "source", UNCHANGED <<vars, active>>
  PROVE  /\ ~Reading /\ ~Reading'
         /\ ReceiverInv'
         /\ write_index = (read_index + Held) % MaxNbMessages
  <1>1. \A p \in Procs : call[p] \notin Stages
    BY DEF ChannelInv, ReceiverInv
  <1>2. call' = call
    BY DEF vars, waitVars
  <1>3. \A p \in Procs : call[p] \notin {"COUNTING", "READING", "CLEARING"}
    BY <1>1 DEF Stages
  <1>4. ~Reading /\ ~Reading'
    BY <1>2, <1>3 DEF Reading
  <1>5. ReceiverInv'
    BY <1>1, <1>2, <1>3 DEF ReceiverInv
  <1> QED
    BY <1>3, <1>4, <1>5 DEF ChannelInv

(* The sender in its code, waiting, or woken by its time-out.              *)
LEMMA SenderAround ==
  ASSUME ChannelInv, active = "source", step \notin {"counting", "copying"},
         UNCHANGED <<vars, active, channelVars, loaded>>,
         \/ \E m \in Messages : SendAtOnce(m) \/ \E t \in Timeouts : SendLater(m, t)
         \/ SourceOS
         \/ SenderReturns
  PROVE  ChannelInv' /\ Kept
  <1>1. /\ ~Reading /\ ~Reading' /\ ReceiverInv'
        /\ write_index = (read_index + Held) % MaxNbMessages
    BY SenderAlone
  <1>2. nb' = nb /\ read_index' = read_index /\ write_index' = write_index /\ slot' = slot
    BY DEF channelVars
  <1>3. SenderInv' /\ step' # "copying"
    <2>1. ASSUME NEW m \in Messages, SendAtOnce(m) PROVE SenderInv' /\ step' # "copying"
      BY <2>1, <1>2 DEF SendAtOnce, SenderInv
    <2>2. ASSUME NEW m \in Messages, NEW t \in Timeouts, SendLater(m, t)
          PROVE  SenderInv' /\ step' # "copying"
      BY <2>2, <1>2 DEF SendLater, SenderInv
    <2>3. CASE SourceOS
      <3>1. s_timer' = NoTimer /\ step = "waiting" /\ step' = "woken" /\ letter' = letter
        BY <2>3, PortConstants DEF SourceOS, InSource, SenderHasRoom
      <3> QED
        BY <3>1 DEF SenderInv, ChannelInv
    <2>4. CASE SenderReturns
      <3>1. step' = "app"
        BY <2>4 DEF SenderReturns, InSource, SenderInv, ChannelInv
      <3> QED
        BY <3>1 DEF SenderInv
    <2> QED
      BY <2>1, <2>2, <2>3, <2>4
  <1>4. Held' = Held
    BY <1>1, <1>2, <1>3 DEF Held
  <1>5. CountInRange'
    BY <1>2 DEF ChannelInv, CountInRange
  <1> QED
    BY <1>1, <1>2, <1>3, <1>4, <1>5 DEF ChannelInv, Kept

LEMMA SenderCountsStep ==
  ASSUME ChannelInv, SenderCounts
  PROVE  ChannelInv' /\ Kept /\ nb' > 0
  <1>1. /\ active = "source" /\ step = "counting" /\ step' = "copying"
        /\ nb' = (s_loaded + 1) % Word
        /\ s_index' = write_index
        /\ UNCHANGED <<vars, active>>
        /\ read_index' = read_index /\ write_index' = write_index /\ slot' = slot
        /\ letter' = letter
    BY DEF SenderCounts, InSource
  <1>2. /\ ~Reading /\ ~Reading' /\ ReceiverInv'
        /\ write_index = (read_index + Held) % MaxNbMessages
    BY <1>1, SenderAlone
  <1>3. s_loaded = nb /\ nb \in 0 .. MaxNbMessages - 1 /\ letter \in Messages
    BY <1>1, PortConstants DEF ChannelInv, SenderInv, CountInRange
  <1>4. nb' = nb + 1
    <2>1. nb + 1 \in 0 .. Word - 1
      BY <1>3, PortConstants
    <2> QED
      BY <1>1, <1>3, <2>1, PortConstants, SmallMod
  <1>5. Held' = Held
    BY <1>1, <1>2, <1>3, <1>4 DEF Held
  <1>6. CountInRange'
    BY <1>1, <1>3, <1>4, PortConstants DEF ChannelInv, CountInRange
  <1>7. SenderInv' /\ nb' > 0
    BY <1>1, <1>3, <1>4 DEF SenderInv
  <1> QED
    BY <1>1, <1>2, <1>5, <1>6, <1>7 DEF ChannelInv, Kept

LEMMA SenderCopiesStep ==
  ASSUME ChannelInv, SenderCopies
  PROVE  ChannelInv' /\ Accepted
  <1>1. /\ active = "source" /\ step = "copying" /\ step' = "app"
        /\ write_index' = Following(s_index)
        /\ slot' = [slot EXCEPT ![s_index] = letter]
        /\ UNCHANGED <<vars, active>>
        /\ read_index' = read_index /\ nb' = nb
    BY DEF SenderCopies, InSource
  <1>2. /\ ~Reading /\ ~Reading' /\ ReceiverInv'
        /\ write_index = (read_index + Held) % MaxNbMessages
    BY <1>1, SenderAlone
  <1>3. /\ nb \in 1 .. MaxNbMessages /\ letter \in Messages /\ s_index = write_index
        /\ write_index \in 0 .. MaxNbMessages - 1 /\ read_index \in 0 .. MaxNbMessages - 1
    BY <1>1 DEF ChannelInv, SenderInv, CountInRange
  <1>4. Held = nb - 1 /\ Held' = nb
    BY <1>1, <1>2, <1>3 DEF Held
  <1>5. write_index' = (read_index' + Held') % MaxNbMessages
    <2> DEFINE x == read_index + Held
    <2>1. x \in Int /\ x + 1 = read_index' + Held'
      BY <1>1, <1>3, <1>4
    <2>2. write_index = x % MaxNbMessages
      BY <1>2
    <2> HIDE DEF x
    <2>3. ((x % MaxNbMessages) + 1) % MaxNbMessages = (x + 1) % MaxNbMessages
      BY <2>1, PortConstants, NextWraps
    <2> QED
      BY <1>1, <1>3, <2>1, <2>2, <2>3 DEF Following
  <1>6. write_index' \in 0 .. MaxNbMessages - 1
    BY <1>1, <1>3, FollowingRange
  <1>7. CountInRange'
    BY <1>1, <1>3, <1>6 DEF CountInRange
  <1>8. slot' \in [0 .. MaxNbMessages - 1 -> Messages \cup {None}]
    BY <1>1, <1>3 DEF ChannelInv
  <1>9. SenderInv'
    BY <1>1 DEF SenderInv
  <1>10. ChannelInv'
    BY <1>1, <1>2, <1>5, <1>7, <1>8, <1>9 DEF ChannelInv
  <1>11. Accepted
    <2>1. Held < MaxNbMessages /\ Held' = Held + 1
      BY <1>3, <1>4, PortConstants
    <2>2. slot' = [slot EXCEPT ![write_index] = letter]
      BY <1>1, <1>3
    <2> QED
      BY <1>1, <1>2, <1>3, <2>1, <2>2, Zenon DEF Accepted
  <1> QED
    BY <1>10, <1>11

(* The running process of the destination partition changes its stage,     *)
(* and nobody else is in one.                                              *)
LEMMA ReceiverAlone ==
  ASSUME PortBase, ChannelInv, active = "destination", exec = "proc", NEW s \in Doing,
         Proceed(s)
  PROVE  /\ current \in Procs /\ exec' = exec /\ current' = current
         /\ step \notin {"counting", "copying"}
         /\ \A p \in Procs : call'[p] = IF p = current THEN s ELSE call[p]
         /\ \A p \in Procs \ {current} : call[p] \notin Stages
         /\ Reading' <=> s = "READING"
         /\ Reading <=> call[current] = "READING"
  <1>1. current \in Procs /\ call \in [Procs -> Doing]
    BY DEF PortBase, SchedInv, TypeOK
  <1>2. exec' = exec /\ current' = current /\ call' = [call EXCEPT ![current] = s]
    BY DEF Proceed, schedVars
  <1>3. \A p \in Procs : call'[p] = IF p = current THEN s ELSE call[p]
    BY <1>1, <1>2
  <1>4. \A p \in Procs \ {current} : call[p] \notin Stages
    BY DEF ChannelInv, ReceiverInv
  <1>5. step \notin {"counting", "copying"}
    BY DEF ChannelInv, SenderInv
  <1> QED
    BY <1>1, <1>2, <1>3, <1>4, <1>5 DEF Reading, Stages

(* A call begins to take a message, with a message there.                  *)
LEMMA BeginsToTake ==
  ASSUME PortBase, ChannelInv, active = "destination", exec = "proc",
         call[current] \notin Stages, Proceed("COUNTING"), nb > 0, loaded' = nb,
         UNCHANGED <<active, channelVars, senderVars>>
  PROVE  ChannelInv' /\ Kept
  <1> DEFINE s == "COUNTING"
  <1>c. s \in Doing /\ s \in Stages /\ Proceed(s)
    BY PortConstants DEF Stages
  <1>1. /\ current \in Procs /\ exec' = exec /\ current' = current
        /\ \A p \in Procs : call'[p] = IF p = current THEN s ELSE call[p]
        /\ \A p \in Procs \ {current} : call[p] \notin Stages
        /\ (Reading' <=> s = "READING") /\ (Reading <=> call[current] = "READING")
    <2> HIDE DEF s
    <2> QED
      BY <1>c, ReceiverAlone
  <1>2. /\ active' = active /\ nb' = nb /\ read_index' = read_index
        /\ write_index' = write_index /\ slot' = slot /\ step' = step
    BY DEF channelVars, senderVars
  <1>3. ~Reading /\ ~Reading' /\ \A p \in Procs : call[p] # "CLEARING"
    BY <1>1 DEF Stages
  <1>4. Held' = Held
    BY <1>2, <1>3 DEF Held
  <1>5. ReceiverInv'
    BY <1>1, <1>2 DEF ReceiverInv, Stages
  <1>6. SenderInv'
    BY DEF ChannelInv, SenderInv, channelVars, senderVars
  <1>7. CountInRange'
    BY <1>2 DEF ChannelInv, CountInRange
  <1> QED
    BY <1>2, <1>3, <1>4, <1>5, <1>6, <1>7 DEF ChannelInv, Kept

LEMMA ReceiverCountsStep ==
  ASSUME PortBase, ChannelInv, ReceiverCounts
  PROVE  ChannelInv' /\ Kept
  <1> DEFINE s == "READING"
  <1>c. s \in Doing /\ Proceed(s) /\ active = "destination" /\ exec = "proc"
        /\ call[current] = "COUNTING"
    BY PortConstants DEF Stages, ReceiverCounts, In
  <1>1. /\ current \in Procs /\ exec' = exec /\ current' = current
        /\ step \notin {"counting", "copying"}
        /\ \A p \in Procs : call'[p] = IF p = current THEN s ELSE call[p]
        /\ \A p \in Procs \ {current} : call[p] \notin Stages
        /\ (Reading' <=> s = "READING") /\ (Reading <=> call[current] = "READING")
    <2> HIDE DEF s
    <2> QED
      BY <1>c, ReceiverAlone
  <1>2. /\ active' = active /\ nb' = (loaded - 1) % Word /\ read_index' = read_index
        /\ write_index' = write_index /\ slot' = slot /\ step' = step /\ senderVars' = senderVars
    BY DEF ReceiverCounts, senderVars
  <1>3. loaded = nb /\ nb \in 1 .. MaxNbMessages
    BY <1>1, <1>c DEF ChannelInv, ReceiverInv, CountInRange
  <1>4. nb' = nb - 1
    <2>1. nb - 1 \in 0 .. Word - 1
      BY <1>3, PortConstants
    <2> QED
      BY <1>2, <1>3, <2>1, PortConstants, SmallMod
  <1>5. ~Reading /\ Reading' /\ \A p \in Procs : call[p] # "CLEARING"
    BY <1>1, <1>c DEF Stages
  <1>6. Held' = Held
    BY <1>1, <1>2, <1>3, <1>4, <1>5 DEF Held
  <1>7. nb' \in 0 .. MaxNbMessages - 1 /\ nb' < MaxNbMessages
    BY <1>3, <1>4, PortConstants
  <1>8. ReceiverInv'
    BY <1>1, <1>c, <1>2, <1>7 DEF ReceiverInv, Stages
  <1>9. SenderInv'
    BY <1>1, <1>2 DEF ChannelInv, SenderInv, senderVars
  <1>10. CountInRange'
    BY <1>2, <1>7, PortConstants DEF ChannelInv, CountInRange
  <1> QED
    BY <1>2, <1>5, <1>6, <1>8, <1>9, <1>10 DEF ChannelInv, Kept

LEMMA ReceiverReadsStep ==
  ASSUME PortBase, ChannelInv, ReceiverReads
  PROVE  ChannelInv' /\ Delivered
  <1> DEFINE s == "app"
  <1>c. s \in Doing /\ Proceed(s) /\ active = "destination" /\ exec = "proc"
        /\ call[current] = "READING"
    BY PortConstants DEF ReceiverReads, In
  <1>1. /\ current \in Procs /\ exec' = exec /\ current' = current
        /\ step \notin {"counting", "copying"}
        /\ \A p \in Procs : call'[p] = IF p = current THEN s ELSE call[p]
        /\ \A p \in Procs \ {current} : call[p] \notin Stages
        /\ (Reading' <=> s = "READING") /\ (Reading <=> call[current] = "READING")
    <2> HIDE DEF s
    <2> QED
      BY <1>c, ReceiverAlone
  <1>2. /\ active' = active /\ nb' = nb /\ read_index' = Following(read_index)
        /\ write_index' = write_index /\ slot' = slot /\ step' = step /\ senderVars' = senderVars
    BY DEF ReceiverReads, senderVars
  <1>3. /\ nb \in 0 .. MaxNbMessages - 1
        /\ read_index \in 0 .. MaxNbMessages - 1 /\ write_index \in 0 .. MaxNbMessages - 1
    BY <1>1, <1>c, PortConstants DEF ChannelInv, ReceiverInv, CountInRange
  <1>4. /\ Reading /\ ~Reading'
        /\ \A p \in Procs : call[p] # "CLEARING" /\ call'[p] \notin Stages
    BY <1>1, <1>c DEF Stages
  <1>5. Held = nb + 1 /\ Held' = nb
    BY <1>1, <1>2, <1>3, <1>4 DEF Held
  <1>6. write_index = (read_index + Held) % MaxNbMessages
    BY <1>4 DEF ChannelInv
  <1>7. write_index' = (read_index' + Held') % MaxNbMessages
    <2> DEFINE x == read_index + 1
               y == nb
    <2>1. x \in Int /\ y \in Int /\ x + y = read_index + Held
      BY <1>3, <1>5
    <2>2. write_index = (x + y) % MaxNbMessages
      BY <1>6, <2>1
    <2>3. read_index' = x % MaxNbMessages /\ Held' = y
      BY <1>2, <1>5 DEF Following
    <2> HIDE DEF x, y
    <2>4. ((x % MaxNbMessages) + y) % MaxNbMessages = (x + y) % MaxNbMessages
      BY <2>1, PortConstants, WrapTwice
    <2> QED
      BY <1>2, <2>2, <2>3, <2>4
  <1>8. read_index' \in 0 .. MaxNbMessages - 1
    BY <1>2, <1>3, FollowingRange
  <1>9. CountInRange'
    BY <1>2, <1>3, <1>8, PortConstants DEF CountInRange
  <1>10. ReceiverInv'
    BY <1>4 DEF ReceiverInv, Stages
  <1>11. SenderInv'
    BY <1>1, <1>2 DEF ChannelInv, SenderInv, senderVars
  <1>12. ChannelInv'
    BY <1>2, <1>7, <1>9, <1>10, <1>11 DEF ChannelInv
  <1>13. Delivered
    <2>1. Held > 0 /\ Held' = Held - 1
      BY <1>3, <1>5
    <2> QED
      BY <1>2, <2>1 DEF Delivered
  <1> QED
    BY <1>12, <1>13

LEMMA ClearStep ==
  ASSUME PortBase, ChannelInv, CLEAR_QUEUING_PORT
  PROVE  ChannelInv' /\ Held' = 0
  <1> DEFINE s == "CLEARING"
  <1>c. s \in Doing /\ Proceed(s) /\ active = "destination" /\ exec = "proc"
        /\ call[current] = "app"
    BY PortConstants DEF Stages, CLEAR_QUEUING_PORT, ReceiverCalls, Calls
  <1>1. /\ current \in Procs /\ exec' = exec /\ current' = current
        /\ step \notin {"counting", "copying"}
        /\ \A p \in Procs : call'[p] = IF p = current THEN s ELSE call[p]
        /\ \A p \in Procs \ {current} : call[p] \notin Stages
        /\ Reading' <=> s = "READING"
    <2> HIDE DEF s
    <2> QED
      BY <1>c, ReceiverAlone
  <1>2. /\ active' = active /\ nb' = 0 /\ read_index' = read_index
        /\ write_index' = write_index /\ slot' = slot /\ step' = step /\ senderVars' = senderVars
    BY DEF CLEAR_QUEUING_PORT, senderVars
  <1>3. ReceiverInv'
    BY <1>1, <1>c, <1>2 DEF ReceiverInv, Stages
  <1>4. SenderInv'
    BY <1>1, <1>2 DEF ChannelInv, SenderInv, senderVars
  <1>5. CountInRange'
    BY <1>2, PortConstants DEF ChannelInv, CountInRange
  <1>6. Held' = 0
    BY <1>1, <1>2 DEF Held
  <1>7. ~\A p \in Procs : call'[p] # "CLEARING"
    BY <1>1
  <1> QED
    BY <1>2, <1>3, <1>4, <1>5, <1>6, <1>7 DEF ChannelInv

LEMMA ReceiverClearsStep ==
  ASSUME PortBase, ChannelInv, ReceiverClears
  PROVE  ChannelInv' /\ Held' = 0
  <1> DEFINE s == "app"
  <1>c. s \in Doing /\ Proceed(s) /\ active = "destination" /\ exec = "proc"
        /\ call[current] = "CLEARING"
    BY PortConstants DEF ReceiverClears, In
  <1>1. /\ current \in Procs /\ exec' = exec /\ current' = current
        /\ step \notin {"counting", "copying"}
        /\ \A p \in Procs : call'[p] = IF p = current THEN s ELSE call[p]
        /\ \A p \in Procs \ {current} : call[p] \notin Stages
        /\ Reading' <=> s = "READING"
    <2> HIDE DEF s
    <2> QED
      BY <1>c, ReceiverAlone
  <1>2. /\ active' = active /\ nb' = nb /\ read_index' = 0
        /\ write_index' = 0 /\ slot' = slot /\ step' = step /\ senderVars' = senderVars
    BY DEF ReceiverClears, senderVars
  <1>3. nb = 0 /\ \A p \in Procs : call'[p] \notin Stages
    BY <1>1, <1>c DEF ChannelInv, ReceiverInv, Stages
  <1>4. ReceiverInv'
    BY <1>3 DEF ReceiverInv, Stages
  <1>5. SenderInv'
    BY <1>1, <1>2 DEF ChannelInv, SenderInv, senderVars
  <1>6. CountInRange'
    BY <1>2, <1>3, PortConstants DEF CountInRange
  <1>7. Held' = 0 /\ read_index' + Held' = 0
    BY <1>1, <1>2, <1>3 DEF Held
  <1>8. 0 % MaxNbMessages = 0
    BY PortConstants, SmallMod
  <1>9. write_index' = (read_index' + Held') % MaxNbMessages
    BY <1>2, <1>7, <1>8
  <1> QED
    BY <1>2, <1>4, <1>5, <1>6, <1>7, <1>9 DEF ChannelInv

(* The steps in which no receiver works on the channel: when the caller is *)
(* in its own code or the partition OS runs, nobody is in a stage, and     *)
(* nobody enters one.                                                      *)
LEMMA ServicesKeepStages ==
  ASSUME PortBase, ChannelInv, ProcessService
  PROVE  StagesKept
  <1>t. TypeOK /\ Next /\ Service
    BY DEF PortBase, SchedInv, ProcessService, Next
  <1>1. exec = "proc" => call[current] = "app"
    BY <1>t DEF Service, OtherService, SET_PRIORITY, SUSPEND_SELF, SUSPEND, RESUME, STOP_SELF, STOP,
         START, DELAYED_START, TIMED_WAIT, PERIODIC_WAIT, SET_PARTITION_MODE_NORMAL,
         Calls, MayCall
  <1>2. \A p \in Procs : call[p] \notin Stages
    BY <1>1 DEF ChannelInv, ReceiverInv, Stages
  <1>3. \A p \in Procs : call'[p] \in Stages => call'[p] = call[p]
    BY <1>t, CallsKept, PortConstants
  <1> QED
    BY <1>2, <1>3 DEF StagesKept

(* The scheduler lets a process return from a call at most.                *)
LEMMA ScheduleCalls ==
  ASSUME TypeOK, NEW st, process_schedule(st), NEW p \in Procs
  PROVE  call'[p] \in {call[p], "app"} /\ (call'[p] = call[p] \/ call[p] \in RcOnly)
  <1>1. call \in [Procs -> Doing]
    BY DEF TypeOK
  <1>2. \/ call' = call
        \/ \E q : call' = [call EXCEPT ![q] = IF @ \in RcOnly THEN "app" ELSE @]
    BY DEF process_schedule
  <1> QED
    BY <1>1, <1>2

LEMMA DestinationKeepsStages ==
  ASSUME PortBase, ChannelInv, DestinationOS
  PROVE  StagesKept
  <1>t. TypeOK /\ SchedInv /\ exec = "os"
    BY DEF PortBase, SchedInv, DestinationOS
  <1>1. \A p \in Procs : call[p] \notin Stages
    BY <1>t DEF ChannelInv, ReceiverInv
  <1>2. \E st : process_schedule(st)
    BY <1>t, DestinationWakes
  <1>3. \A p \in Procs : call'[p] \in {call[p], "app"}
    BY <1>t, <1>2, ScheduleCalls
  <1> QED
    BY <1>1, <1>3, PortConstants DEF StagesKept

(* A process that returns from its wait takes a message without a test.    *)
SafeTake ==
  exec = "proc" /\ call[current] \in Waits /\ TakesMessage(current) => nb > 0

(* Every step of the channel keeps the invariant, if windows end between   *)
(* services and no receiver takes a message that is not there.             *)
LEMMA ChannelStepLemma ==
  ASSUME PortBase, ChannelInv, SafeTake,
         [PortNext /\ (active' # active => ChannelAtRest)]_allVars
  PROVE  ChannelInv' /\ ChannelStep
  <1>1. CASE UNCHANGED allVars
    <2>1. StagesKept
      BY <1>1 DEF allVars, vars, schedVars, waitVars, StagesKept
    <2> QED
      BY <1>1, <2>1, QuietStep DEF allVars, portVars, channelVars, senderVars, ChannelStep
  <1>2. ASSUME NEW m \in Messages, NEW t \in Timeouts, SEND_QUEUING_MESSAGE(m, t)
        PROVE  ChannelInv' /\ Kept
    <2>1. /\ active = "source" /\ step = "app"
          /\ UNCHANGED <<vars, active, channelVars, loaded>>
          /\ SendAtOnce(m) \/ SendLater(m, t)
      BY <1>2 DEF SEND_QUEUING_MESSAGE, InSource
    <2> QED
      BY <2>1, SenderAround
  <1>3. CASE SourceOS \/ SenderReturns
    <2>1. /\ active = "source" /\ step \notin {"counting", "copying"}
          /\ UNCHANGED <<vars, active, channelVars, loaded>>
      BY <1>3 DEF SourceOS, SenderReturns, InSource
    <2>2. ChannelInv' /\ Kept
      BY <1>3, <2>1, SenderAround
    <2> QED
      BY <2>2 DEF ChannelStep
  <1>4. CASE SenderCounts \/ SenderCopies
    BY <1>4, SenderCountsStep, SenderCopiesStep DEF ChannelStep
  <1>5. ASSUME NEW t \in Timeouts, RECEIVE_QUEUING_MESSAGE(t) PROVE ChannelInv' /\ Kept
    <2>1. /\ active = "destination" /\ exec = "proc" /\ call[current] = "app"
          /\ TakeAtOnce \/ TakeLater(t)
          /\ UNCHANGED <<active, channelVars, senderVars>>
      BY <1>5 DEF RECEIVE_QUEUING_MESSAGE, ReceiverCalls, Calls
    <2>2. CASE TakeAtOnce
      BY <2>1, <2>2, BeginsToTake, PortConstants DEF TakeAtOnce
    <2>3. CASE TakeLater(t)
      <3>1. /\ current \in Procs /\ call \in [Procs -> Doing]
            /\ \E c \in Waits : call' = [call EXCEPT ![current] = c]
        BY <2>1, <2>3 DEF TakeLater, WaitFor, PortBase, SchedInv, TypeOK, Waits
      <3>2. \A p \in Procs : call[p] \notin Stages
        BY <2>1, PortConstants DEF ChannelInv, ReceiverInv
      <3>3. StagesKept
        BY <3>1, <3>2, PortConstants DEF StagesKept
      <3>4. loaded' = loaded
        BY <2>3 DEF TakeLater
      <3> QED
        BY <2>1, <3>3, <3>4, QuietStep DEF channelVars, senderVars
    <2> QED
      BY <2>1, <2>2, <2>3
  <1>6. CASE ReceiverCounts \/ ReceiverReads
    BY <1>6, ReceiverCountsStep, ReceiverReadsStep DEF ChannelStep
  <1>7. CASE CLEAR_QUEUING_PORT \/ ReceiverClears
    BY <1>7, ClearStep, ReceiverClearsStep DEF ChannelStep
  <1>8. CASE ReceiverReturns
    <2>1. /\ active = "destination" /\ exec = "proc" /\ call[current] \in Waits
          /\ loaded' = nb
          /\ UNCHANGED <<active, channelVars, senderVars>>
      BY <1>8 DEF ReceiverReturns
    <2>2. CASE TakesMessage(current)
      <3>1. Proceed("COUNTING") /\ nb > 0 /\ call[current] \notin Stages
        BY <1>8, <2>1, <2>2, PortConstants DEF ReceiverReturns, SafeTake
      <3> QED
        BY <2>1, <3>1, BeginsToTake DEF ChannelStep
    <2>3. CASE ~TakesMessage(current)
      <3>1. Proceed("app") /\ "app" \in Doing
        BY <1>8, <2>3, PortConstants DEF ReceiverReturns
      <3>2. /\ \A p \in Procs : call'[p] = IF p = current THEN "app" ELSE call[p]
            /\ \A p \in Procs \ {current} : call[p] \notin Stages
            /\ Reading' <=> "app" = "READING"
            /\ Reading <=> call[current] = "READING"
            /\ current \in Procs
        BY <2>1, <3>1, ReceiverAlone
      <3>3. \A p \in Procs : call[p] \notin Stages /\ call'[p] \notin Stages
        BY <2>1, <3>2, PortConstants
      <3>4. \A p \in Procs : call'[p] \notin {"COUNTING", "READING", "CLEARING"}
        BY <3>3 DEF Stages
      <3>5. ReceiverInv'
        BY <3>3, <3>4 DEF ReceiverInv
      <3>6. ~Reading /\ ~Reading' /\ \A p \in Procs : call[p] # "CLEARING"
        BY <3>3 DEF Reading, Stages
      <3>7. /\ nb' = nb /\ read_index' = read_index /\ write_index' = write_index
            /\ slot' = slot /\ step' = step /\ active' = active
        BY <2>1 DEF channelVars, senderVars
      <3>8. Held' = Held
        BY <3>6, <3>7 DEF Held
      <3>9. SenderInv' /\ CountInRange'
        BY <2>1 DEF ChannelInv, SenderInv, CountInRange, channelVars, senderVars
      <3> QED
        BY <3>5, <3>6, <3>7, <3>8, <3>9 DEF ChannelInv, ChannelStep, Kept
    <2> QED
      BY <2>2, <2>3
  <1>9. CASE DestinationOS
    BY <1>9, DestinationKeepsStages, QuietStep
    DEF DestinationOS, portVars, channelVars, senderVars, ChannelStep
  <1>10. CASE ProcessService
    BY <1>10, ServicesKeepStages, QuietStep
    DEF ProcessService, portVars, channelVars, senderVars, ChannelStep
  <1>11. CASE PortTick
    <2>1. StagesKept
      BY <1>11 DEF PortTick, Tick, waitVars, StagesKept
    <2> QED
      BY <1>11, <2>1, QuietStep DEF PortTick, channelVars, ChannelStep
  <1>12. CASE Switch /\ (active' # active => ChannelAtRest)
    <2>1. /\ active' # active /\ ChannelAtRest /\ active' \in {"source", "destination"}
          /\ UNCHANGED <<vars, channelVars, loaded, senderVars>>
      BY <1>12 DEF Switch, ChannelInv
    <2>2. /\ step \notin {"counting", "copying"} /\ call' = call
          /\ \A p \in Procs : call[p] \notin {"COUNTING", "READING", "CLEARING"}
      BY <2>1 DEF ChannelAtRest, vars, waitVars
    <2>3. ReceiverInv' /\ ~Reading /\ ~Reading'
      BY <2>2 DEF ReceiverInv, Stages, Reading
    <2>4. /\ nb' = nb /\ read_index' = read_index /\ write_index' = write_index
          /\ slot' = slot /\ step' = step
      BY <2>1 DEF channelVars, senderVars
    <2>5. SenderInv' /\ CountInRange'
      BY <2>1, <2>2 DEF ChannelInv, SenderInv, CountInRange, channelVars, senderVars
    <2>6. Held' = Held
      BY <2>3, <2>4 DEF Held
    <2> QED
      BY <2>1, <2>2, <2>3, <2>4, <2>5, <2>6 DEF ChannelInv, ChannelStep, Kept
  <1> QED
    BY <1>1, <1>2, <1>3, <1>4, <1>5, <1>6, <1>7, <1>8, <1>9, <1>10, <1>11, <1>12
    DEF PortNext, PortServices, ChannelStep

(***************************************************************************)
(* Receivers that trust their timer                                        *)
(***************************************************************************)

(* A process that will take a message when it returns from its wait, with  *)
(* no further test: its time_counter is not 0.                             *)
Trusts(p) == call[p] \in Waits /\ TakesMessage(p)

(* Nobody takes a message or clears the port between the waking of a       *)
(* receiver and its return.  The code does not see to it: the receiver has *)
(* only become READY, and the count still includes its message.            *)
NoOvertaking ==
  \A p, q \in Procs :
    Trusts(p) /\ state[p] = "READY" /\ q # p => call[q] \notin {"COUNTING", "CLEARING"}

(* A process that waits for a message is not made READY by its release     *)
(* point: the code after the wait would not tell the difference.           *)
NoStrayRelease == \A p \in Procs : Trusts(p) => ~Released(p)

(* The message that a woken receiver will take is there.                   *)
Woken == \A p \in Procs : Trusts(p) /\ state[p] \in {"READY", "RUNNING"} => nb > 0

LEMMA WokenIsSafe ==
  ASSUME PortBase, Woken
  PROVE  SafeTake
  <1>1. exec = "proc" => current \in Procs /\ state[current] = "RUNNING"
    BY DEF PortBase, SchedInv, TypeOK, RunningIsCurrent
  <1> QED
    BY <1>1 DEF Woken, SafeTake, Trusts

(* No service makes a receiver READY that still has its timer: RESUME      *)
(* clears the timer of a suspended process.                                *)
LEMMA ServicesTrust ==
  ASSUME PortBase, Service, NEW p \in Procs, Trusts(p)', state'[p] \in {"READY", "RUNNING"}
  PROVE  Trusts(p) /\ state[p] \in {"READY", "RUNNING"}
  <1>t. /\ TypeOK /\ SchedInv /\ Next
        /\ state \in [Procs -> States] /\ timer \in [Procs -> Nat \cup {INFINITE, NoTimer}]
        /\ call \in [Procs -> Doing]
        /\ state[p] # "FAULTED"
    BY DEF PortBase, SchedInv, TypeOK, NobodyFaulted, Next
  <1>1. call'[p] \in Waits /\ timer'[p] # NoTimer
    BY DEF Trusts, TakesMessage
  <1>2. call'[p] = call[p] /\ call[p] \in Waits
    BY <1>t, <1>1, CallsKept, PortConstants
  <1>3. call[p] # "app" /\ call'[p] # "app" /\ exec # "main"
    BY <1>2, PortConstants DEF PortBase, Unstarted
  <1>c. ASSUME NEW s, Calls(s) PROVE current \in Procs /\ p # current
    BY <1>c, <1>3, <1>t, CallerRuns DEF Calls
  <1> DEFINE Goal == timer[p] # NoTimer /\ state[p] \in {"READY", "RUNNING"}
  <1> SUFFICES Goal
    BY <1>2 DEF Trusts, TakesMessage
  <1>4. ASSUME NEW q \in Named, NEW v \in Priorities, SET_PRIORITY(q, v) PROVE Goal
    BY <1>4, <1>1 DEF SET_PRIORITY, timeVars
  <1>5. ASSUME NEW t \in Timeouts, SUSPEND_SELF(t) \/ TIMED_WAIT(t) PROVE Goal
    BY <1>5, <1>1, <1>c, <1>t DEF SUSPEND_SELF, TIMED_WAIT, Arm
  <1>6. CASE STOP_SELF \/ PERIODIC_WAIT
    BY <1>6, <1>1, <1>c, <1>t DEF STOP_SELF, PERIODIC_WAIT, Halt
  <1>7. ASSUME NEW q \in Named, SUSPEND(q) PROVE Goal
    <2>1. timer' = timer /\ state' = [state EXCEPT ![q] = "WAITING"]
      BY <1>7 DEF SUSPEND, timeVars
    <2> QED
      BY <2>1, <1>1, <1>t
  <1>8. ASSUME NEW q \in Named, STOP(q) PROVE Goal
    <2>1. timer' = [timer EXCEPT ![q] = NoTimer] /\ state' = [state EXCEPT ![q] = "DORMANT"]
      BY <1>8 DEF STOP, Halt
    <2> QED
      BY <2>1, <1>1, <1>t
  <1>9. ASSUME NEW q \in Named, RESUME(q) PROVE Goal
    <2>1. CASE p = q
      <3>1. suspended[p] /\ timer' = [timer EXCEPT ![p] = NoTimer]
        BY <1>9, <2>1, <1>t DEF RESUME
      <3> QED
        BY <3>1, <1>1, <1>t
    <2>2. CASE p # q
      <3>1. timer'[p] = timer[p] /\ state'[p] = state[p]
        BY <1>9, <2>2, <1>t DEF RESUME
      <3> QED
        BY <3>1, <1>1
    <2> QED
      BY <2>1, <2>2
  <1>10. ASSUME NEW q \in Named, START(q) \/ \E d \in Timeouts : DELAYED_START(q, d) PROVE Goal
    <2>1. call' = [call EXCEPT ![q] = "app"]
      BY <1>10 DEF START, DELAYED_START, Restart
    <2>2. p # q
      BY <2>1, <1>3, <1>t
    <2>3. /\ \E x : state' = [state EXCEPT ![q] = x]
          /\ timer' = timer \/ \E x : timer' = [timer EXCEPT ![q] = x]
      BY <1>10 DEF START, DELAYED_START, AwaitRelease, timeVars
    <2> QED
      BY <2>2, <2>3, <1>1, <1>t
  <1>11. CASE SET_PARTITION_MODE_NORMAL
    BY <1>11, <1>3 DEF SET_PARTITION_MODE_NORMAL
  <1> HIDE DEF Goal
  <1> QED
    BY <1>4, <1>5, <1>6, <1>7, <1>8, <1>9, <1>10, <1>11 DEF Service, OtherService

(* The partition OS makes a receiver READY that keeps its timer only when  *)
(* there is a message, unless a release point interferes.                  *)
LEMMA DestinationTrusts ==
  ASSUME PortBase, DestinationOS, NoStrayRelease,
         NEW p \in Procs, Trusts(p)', state'[p] \in {"READY", "RUNNING"}
  PROVE  nb > 0 \/ (Trusts(p) /\ state[p] \in {"READY", "RUNNING"})
  <1>t. TypeOK /\ SchedInv
    BY DEF PortBase, SchedInv
  <1>1. PICK st \in [Procs -> States] :
          /\ process_schedule(st)
          /\ \/ st[p] = state[p]
             \/ st[p] = "READY" /\ (nb > 0 \/ Released(p) \/ timer'[p] = NoTimer)
    BY <1>t, DestinationWakes
  <1>2. call'[p] \in Waits /\ timer'[p] # NoTimer /\ timer'[p] \in {timer[p], NoTimer}
    BY <1>t, DestinationWakes DEF Trusts, TakesMessage
  <1>3. call[p] = call'[p]
    BY <1>t, <1>1, <1>2, ScheduleCalls, PortConstants
  <1>4. Trusts(p) /\ ~Released(p)
    BY <1>2, <1>3 DEF Trusts, TakesMessage, NoStrayRelease
  <1>5. st[p] \in {"READY", "RUNNING"}
    BY <1>t, <1>1, ScheduleKeeps
  <1> QED
    BY <1>1, <1>2, <1>4, <1>5

(* A receiver that proceeds no longer waits; the others are as they were.  *)
LEMMA ProceedTrusts ==
  ASSUME PortBase, exec = "proc", NEW s \in Doing \ Waits, Proceed(s),
         timer' \in {timer, [timer EXCEPT ![current] = NoTimer]},
         NEW p \in Procs, Trusts(p)', state'[p] \in {"READY", "RUNNING"}
  PROVE  Trusts(p) /\ state[p] = "READY" /\ p # current /\ state'[p] = state[p]
  <1>t. /\ current \in Procs /\ call \in [Procs -> Doing]
        /\ timer \in [Procs -> Nat \cup {INFINITE, NoTimer}]
        /\ RunningIsCurrent
    BY DEF PortBase, SchedInv, TypeOK
  <1>1. call' = [call EXCEPT ![current] = s] /\ state' = state
    BY DEF Proceed
  <1>2. p # current
    BY <1>t, <1>1 DEF Trusts
  <1>3. call'[p] = call[p] /\ timer'[p] = timer[p]
    BY <1>t, <1>1, <1>2
  <1> QED
    BY <1>t, <1>1, <1>2, <1>3 DEF Trusts, TakesMessage, RunningIsCurrent

LEMMA WokenStep ==
  ASSUME PortBase, ChannelInv, Woken, NoOvertaking, NoOvertaking', NoStrayRelease,
         [PortNext]_allVars
  PROVE  Woken'
  <1> SUFFICES ASSUME NEW p \in Procs, Trusts(p)', state'[p] \in {"READY", "RUNNING"}
               PROVE  nb' > 0
    BY DEF Woken
  <1>t. /\ TypeOK /\ current \in Procs \cup {None} /\ (exec = "proc" => current \in Procs)
        /\ call \in [Procs -> Doing] /\ state \in [Procs -> States]
        /\ timer \in [Procs -> Nat \cup {INFINITE, NoTimer}]
    BY DEF PortBase, SchedInv, TypeOK
  <1>w. Trusts(p) /\ state[p] \in {"READY", "RUNNING"} => nb > 0
    BY DEF Woken
  <1>1. ASSUME UNCHANGED vars, nb' = nb PROVE nb' > 0
    BY <1>1, <1>w DEF vars, waitVars, timeVars, Trusts, TakesMessage
  <1>2. ASSUME NEW s \in Doing \ Waits, Proceed(s), exec = "proc",
               timer' \in {timer, [timer EXCEPT ![current] = NoTimer]}
        PROVE  /\ nb > 0
               /\ Trusts(p) /\ state[p] = "READY" /\ state'[p] = "READY" /\ p # current
    BY <1>2, <1>w, ProceedTrusts
  <1>3. CASE UNCHANGED allVars
    BY <1>1, <1>3 DEF allVars, portVars, channelVars
  <1>4. ASSUME NEW m \in Messages, NEW t \in Timeouts, SEND_QUEUING_MESSAGE(m, t)
        PROVE  nb' > 0
    BY <1>1, <1>4 DEF SEND_QUEUING_MESSAGE, channelVars
  <1>5. CASE SenderCopies \/ SenderReturns \/ SourceOS \/ Switch
    BY <1>1, <1>5 DEF SenderCopies, SenderReturns, SourceOS, Switch, channelVars
  <1>6. CASE SenderCounts
    BY <1>6, SenderCountsStep
  <1>7. ASSUME NEW t \in Timeouts, RECEIVE_QUEUING_MESSAGE(t) PROVE nb' > 0
    <2>1. exec = "proc" /\ nb' = nb /\ (TakeAtOnce \/ TakeLater(t))
      BY <1>7 DEF RECEIVE_QUEUING_MESSAGE, ReceiverCalls, Calls, channelVars
    <2>2. CASE TakeAtOnce
      BY <2>1, <2>2 DEF TakeAtOnce
    <2>3. CASE TakeLater(t)
      <3>1. /\ state' = [state EXCEPT ![current] = "WAITING"] /\ timer' = Arm(t)
            /\ \E c : call' = [call EXCEPT ![current] = c]
        BY <2>3 DEF TakeLater, WaitFor
      <3>2. p # current
        BY <1>t, <2>1, <3>1
      <3>3. state'[p] = state[p] /\ timer'[p] = timer[p] /\ call'[p] = call[p]
        BY <1>t, <3>1, <3>2 DEF Arm
      <3> QED
        BY <1>w, <2>1, <3>3 DEF Trusts, TakesMessage
    <2> QED
      BY <2>1, <2>2, <2>3
  <1>8. CASE ReceiverReads \/ ReceiverClears
    <2>1. /\ exec = "proc" /\ Proceed("app") /\ timer' = timer /\ nb' = nb
          /\ "app" \in Doing \ Waits
      BY <1>8, PortConstants DEF ReceiverReads, ReceiverClears, In
    <2> QED
      BY <1>2, <2>1
  <1>9. CASE ReceiverReturns
    <2>1. /\ exec = "proc" /\ timer' = [timer EXCEPT ![current] = NoTimer] /\ nb' = nb
          /\ \E s \in {"COUNTING", "app"} : Proceed(s)
      BY <1>9 DEF ReceiverReturns, channelVars
    <2>2. {"COUNTING", "app"} \subseteq Doing \ Waits
      BY PortConstants DEF Stages
    <2> QED
      BY <1>2, <2>1, <2>2
  <1>10. CASE ReceiverCounts
    <2>1. /\ exec = "proc" /\ Proceed("READING") /\ timer' = timer
          /\ call[current] = "COUNTING" /\ "READING" \in Doing \ Waits
      BY <1>10, PortConstants DEF ReceiverCounts, In, Stages
    <2>2. Trusts(p) /\ state[p] = "READY" /\ p # current
      BY <1>2, <2>1
    <2> QED
      BY <1>t, <2>1, <2>2 DEF NoOvertaking
  <1>11. CASE CLEAR_QUEUING_PORT
    <2>1. /\ exec = "proc" /\ Proceed("CLEARING") /\ timer' = timer
          /\ "CLEARING" \in Doing \ Waits
      BY <1>11, PortConstants DEF CLEAR_QUEUING_PORT, ReceiverCalls, Calls, Stages
    <2>2. state'[p] = "READY" /\ p # current
      BY <1>2, <2>1
    <2>3. call'[current] = "CLEARING"
      BY <1>t, <2>1 DEF Proceed
    <2> QED
      BY <1>t, <2>1, <2>2, <2>3 DEF NoOvertaking
  <1>12. CASE DestinationOS
    <2>1. nb' = nb
      BY <1>12 DEF DestinationOS, portVars, channelVars
    <2> QED
      BY <1>12, <1>w, <2>1, DestinationTrusts
  <1>13. CASE ProcessService
    <2>1. nb' = nb /\ Service
      BY <1>13 DEF ProcessService, portVars, channelVars
    <2> QED
      BY <1>w, <2>1, ServicesTrust
  <1>14. CASE PortTick
    <2>1. /\ nb' = nb /\ state' = state /\ call' = call
          /\ timer' = [q \in Procs |-> CountDown(timer[q])]
      BY <1>14 DEF PortTick, Tick, channelVars, waitVars
    <2>2. timer'[p] # NoTimer => timer[p] # NoTimer
      BY <2>1 DEF CountDown, NoTimer
    <2> QED
      BY <1>w, <2>1, <2>2 DEF Trusts, TakesMessage
  <1> QED
    BY <1>3, <1>4, <1>5, <1>6, <1>7, <1>8, <1>9, <1>10, <1>11, <1>12, <1>13, <1>14
    DEF PortNext, PortServices

LEMMA InitWoken == PortInit => Woken
  <1> SUFFICES ASSUME PortInit, NEW p \in Procs PROVE ~Trusts(p)
    BY DEF Woken
  <1>1. timer[p] = NoTimer
    BY DEF PortInit, Init
  <1> QED
    BY <1>1 DEF Trusts, TakesMessage

(* A step of AlignedSpec.                                                  *)
AlignedNext == PortNext /\ (active' # active => ChannelAtRest)

LEMMA AlignedSteps == AlignedSpec => PortInit /\ [][AlignedNext]_allVars
  BY PTL DEF AlignedSpec, AlignedNext

LEMMA AlignedBase == AlignedSpec => []PortBase
  <1>1. PortBase /\ [AlignedNext]_allVars => PortBase'
    BY PortBaseStep DEF AlignedNext
  <1> QED
    BY <1>1, InitBase, AlignedSteps, PTL

(* The channel of receivers that can trust their timers.                   *)
TrustedInv == PortBase /\ ChannelInv /\ Woken

LEMMA TrustedStep ==
  TrustedInv /\ NoOvertaking /\ NoOvertaking' /\ NoStrayRelease /\ [AlignedNext]_allVars
    => TrustedInv'
  <1> SUFFICES ASSUME TrustedInv, NoOvertaking, NoOvertaking', NoStrayRelease,
                      [AlignedNext]_allVars
               PROVE  TrustedInv'
    OBVIOUS
  <1>1. PortBase /\ ChannelInv /\ Woken /\ [PortNext]_allVars
    BY DEF TrustedInv, AlignedNext
  <1>2. SafeTake
    BY <1>1, WokenIsSafe
  <1>3. PortBase' /\ Woken'
    BY <1>1, PortBaseStep, WokenStep
  <1>4. ChannelInv'
    BY <1>1, <1>2, ChannelStepLemma DEF AlignedNext
  <1> QED
    BY <1>3, <1>4 DEF TrustedInv

LEMMA TrustedInvariant ==
  AlignedSpec /\ []NoOvertaking /\ []NoStrayRelease => []TrustedInv
  <1>1. PortInit => TrustedInv
    BY InitBase, InitChannel, InitWoken DEF TrustedInv
  <1> QED
    BY <1>1, TrustedStep, AlignedSteps, PTL

(* The channel's count and indices stay in range, for any number of        *)
(* receivers and any windows that end between services, if nobody takes    *)
(* the message of a woken receiver and no release point wakes one: then    *)
(* what a receiver takes without a test is there.                          *)
THEOREM ChannelStaysInRange ==
  AlignedSpec /\ []NoOvertaking /\ []NoStrayRelease => []CountInRange
  <1>1. TrustedInv => CountInRange
    BY DEF TrustedInv, ChannelInv
  <1> QED
    BY <1>1, TrustedInvariant, PTL

(***************************************************************************)
(* The channel as a bounded FIFO                                           *)
(***************************************************************************)

(* The n messages from slot r of the ring.                                 *)
Ring(n, r, data) == [i \in 1 .. n |-> data[(r + i - 1) % MaxNbMessages]]

LEMMA RingContents ==
  ASSUME NEW n \in Nat, NEW r \in Nat,
         NEW data \in [0 .. MaxNbMessages - 1 -> Messages \cup {None}]
  PROVE  /\ Ring(n, r, data) \in Seq(Messages \cup {None})
         /\ Len(Ring(n, r, data)) = n
         /\ \A i \in 1 .. n :
              /\ (r + i - 1) % MaxNbMessages \in 0 .. MaxNbMessages - 1
              /\ Ring(n, r, data)[i] = data[(r + i - 1) % MaxNbMessages]
  <1> DEFINE M == MaxNbMessages
             S == Messages \cup {None}
             s == Ring(n, r, data)
  <1>1. M \in Nat \ {0}
    BY PortConstants
  <1> HIDE DEF M, S
  <1>2. ASSUME NEW i \in 1 .. n PROVE (r + i - 1) % M \in 0 .. M - 1
    <2>1. r + i - 1 \in Int
      OBVIOUS
    <2> QED
      BY <1>1, <2>1, ModRange
  <1>3. /\ \A i \in 1 .. n : s[i] = data[(r + i - 1) % M]
        /\ s = [i \in 1 .. n |-> s[i]]
    BY DEF M, Ring
  <1> HIDE DEF s
  <1>4. data \in [0 .. M - 1 -> S]
    BY DEF M, S
  <1>5. s \in [1 .. n -> S]
    BY <1>2, <1>3, <1>4
  <1>6. s \in Seq(S) /\ Len(s) = n
    BY <1>5, FunctionIsSeq
  <1> QED
    BY <1>2, <1>3, <1>6 DEF M, S, s

LEMMA ContentsFacts ==
  ASSUME ChannelInv
  PROVE  /\ Contents = Ring(Held, read_index, slot)
         /\ Contents \in Seq(Messages \cup {None})
         /\ Len(Contents) = Held
         /\ Held \in Nat /\ read_index \in Nat
  <1>1. Held \in Nat /\ read_index \in Nat
    BY HeldRange, PortConstants DEF ChannelInv, CountInRange
  <1>2. slot \in [0 .. MaxNbMessages - 1 -> Messages \cup {None}]
    BY DEF ChannelInv
  <1>3. Contents = [i \in 1 .. (IF Held < 0 THEN 0 ELSE Held) |->
                      slot[(read_index + i - 1) % MaxNbMessages]]
    BY DEF Contents, Held, Reading
  <1>4. (IF Held < 0 THEN 0 ELSE Held) = Held
    BY <1>1
  <1>5. Contents = Ring(Held, read_index, slot)
    BY <1>3, <1>4 DEF Ring
  <1> HIDE DEF Contents, Held
  <1> QED
    BY <1>1, <1>2, <1>5, RingContents

LEMMA NextContentsFacts ==
  ASSUME ChannelInv'
  PROVE  /\ Contents' = Ring(Held', read_index', slot')
         /\ Contents' \in Seq(Messages \cup {None})
         /\ Len(Contents') = Held'
         /\ slot' \in [0 .. MaxNbMessages - 1 -> Messages \cup {None}]
         /\ Held' \in Nat /\ read_index' \in Nat
  <1>1. Held' \in Nat /\ read_index' \in Nat
    <2>1. /\ nb' \in 0 .. MaxNbMessages /\ read_index' \in 0 .. MaxNbMessages - 1
          /\ MaxNbMessages \in Nat \ {0}
          /\ step' = "copying" => nb' > 0
      BY PortConstants DEF ChannelInv, CountInRange, SenderInv
    <2>2. \/ Held' = nb' - (IF step' = "copying" THEN 1 ELSE 0)
          \/ Held' = nb' - (IF step' = "copying" THEN 1 ELSE 0) + 1
      BY <2>1 DEF Held
    <2> QED
      BY <2>1, <2>2
  <1>2. slot' \in [0 .. MaxNbMessages - 1 -> Messages \cup {None}]
    BY DEF ChannelInv
  <1>3. Contents' = [i \in 1 .. (IF Held' < 0 THEN 0 ELSE Held') |->
                       slot'[(read_index' + i - 1) % MaxNbMessages]]
    BY DEF Contents, Held, Reading
  <1>4. (IF Held' < 0 THEN 0 ELSE Held') = Held'
    BY <1>1
  <1>5. Contents' = Ring(Held', read_index', slot')
    BY <1>3, <1>4 DEF Ring
  <1> HIDE DEF Contents, Held
  <1> QED
    BY <1>1, <1>2, <1>5, RingContents

(* A copied message is the last one.                                       *)
LEMMA AcceptedIsLast ==
  ASSUME ChannelInv, ChannelInv', Accepted
  PROVE  Contents' = Append(Contents, letter)
  <1> DEFINE M == MaxNbMessages
             S == Messages \cup {None}
             n == Held
             r == read_index
             m == letter
             w == write_index
             data == slot
             d == slot'
  <1>1. M \in Nat \ {0} /\ n \in Nat /\ n + 1 \in Nat /\ n < M /\ r \in Nat /\ m \in Messages
    BY PortConstants, ContentsFacts DEF Accepted
  <1>2. w \in 0 .. M - 1 /\ w = (r + n) % M
    BY DEF ChannelInv, CountInRange, Accepted
  <1>3. /\ data \in [0 .. M - 1 -> S] /\ d \in [0 .. M - 1 -> S]
        /\ \A k \in 0 .. M - 1 : d[k] = IF k = w THEN m ELSE data[k]
    BY <1>2 DEF ChannelInv, Accepted
  <1>c. Contents = Ring(n, r, data)
    BY ContentsFacts
  <1>d. Contents' = Ring(n + 1, r, d)
    BY NextContentsFacts DEF Accepted
  <1> HIDE DEF n, r, m, w, data, d
  <1> DEFINE C == Ring(n, r, data)
             D == Ring(n + 1, r, d)
             A == Append(C, m)
             at(i) == (r + i - 1) % M
  <1>4. /\ C \in Seq(S) /\ Len(C) = n
        /\ \A i \in 1 .. n : at(i) \in 0 .. M - 1 /\ C[i] = data[at(i)]
    BY <1>1, <1>3, RingContents
  <1>5. /\ D \in Seq(S) /\ Len(D) = n + 1
        /\ \A i \in 1 .. n + 1 : at(i) \in 0 .. M - 1 /\ D[i] = d[at(i)]
    BY <1>1, <1>3, RingContents
  <1> HIDE DEF C, D
  <1>6. /\ A \in Seq(S) /\ Len(A) = n + 1 /\ A[n + 1] = m
        /\ \A i \in 1 .. n : A[i] = C[i]
    <2>1. m \in S
      BY <1>1
    <2> HIDE DEF S
    <2> QED
      BY <1>4, <2>1, AppendProperties
  <1> HIDE DEF A
  <1>7. ASSUME NEW i \in 1 .. n PROVE D[i] = A[i]
    <2> DEFINE k == at(i)
    <2>1. k \in 0 .. M - 1 /\ C[i] = data[k]
      BY <1>4
    <2>2. D[i] = d[k]
      BY <1>1, <1>5
    <2>3. k # w
      <3> DEFINE x == r + i - 1
                 y == r + n
      <3>1. x \in Int /\ y \in Int /\ x < y /\ y - x < M
        BY <1>1
      <3>2. k = x % M /\ w = y % M
        BY <1>2
      <3> HIDE DEF x, y, M, k
      <3> QED
        BY <1>1, <3>1, <3>2, SlotsDiffer
    <2> HIDE DEF k
    <2> QED
      BY <1>3, <1>6, <2>1, <2>2, <2>3
  <1>8. D[n + 1] = A[n + 1]
    <2>1. n + 1 \in 1 .. n + 1 /\ r + (n + 1) - 1 = r + n
      BY <1>1
    <2>2. at(n + 1) = w
      BY <1>2, <2>1
    <2> QED
      BY <1>2, <1>3, <1>5, <1>6, <2>1, <2>2
  <1>9. \A i \in 1 .. n + 1 : D[i] = A[i]
    BY <1>1, <1>7, <1>8
  <1> HIDE DEF S
  <1>10. D = A
    BY <1>5, <1>6, <1>9, SeqEqual
  <1> QED
    BY <1>10, <1>c, <1>d DEF C, D, A, m

(* The message read is the first one.                                      *)
LEMMA TakesFromRing ==
  ASSUME NEW n \in Nat \ {0}, NEW r \in Nat,
         NEW data \in [0 .. MaxNbMessages - 1 -> Messages \cup {None}]
  PROVE  /\ Ring(n, r, data) # <<>>
         /\ Ring(n - 1, Following(r), data) = Tail(Ring(n, r, data))
  <1> DEFINE M == MaxNbMessages
             S == Messages \cup {None}
             f == Following(r)
             C == Ring(n, r, data)
             D == Ring(n - 1, f, data)
             T == Tail(C)
  <1>1. M \in Nat \ {0} /\ n - 1 \in Nat /\ f = (r + 1) % M
    BY PortConstants DEF Following
  <1>2. f \in Nat
    BY FollowingRange, PortConstants
  <1>r. ASSUME NEW k \in Nat, NEW g \in Nat
        PROVE  /\ Ring(k, g, data) \in Seq(S) /\ Len(Ring(k, g, data)) = k
               /\ \A i \in 1 .. k : /\ (g + i - 1) % M \in 0 .. M - 1
                                    /\ Ring(k, g, data)[i] = data[(g + i - 1) % M]
    BY RingContents
  <1> HIDE DEF S, M, f
  <1>3. /\ C \in Seq(S) /\ Len(C) = n
        /\ \A i \in 1 .. n : C[i] = data[(r + i - 1) % M]
    BY <1>r
  <1>4. /\ D \in Seq(S) /\ Len(D) = n - 1
        /\ \A i \in 1 .. n - 1 : D[i] = data[(f + i - 1) % M]
    BY <1>1, <1>2, <1>r
  <1> HIDE DEF C, D
  <1>5. C # <<>>
    BY <1>3, EmptySeq
  <1>6. T \in Seq(S) /\ Len(T) = n - 1 /\ \A i \in 1 .. n - 1 : T[i] = C[i + 1]
    BY <1>3, <1>5, HeadTailProperties
  <1> HIDE DEF T
  <1>7. ASSUME NEW i \in 1 .. n - 1 PROVE D[i] = T[i]
    <2>1. i \in Nat \ {0} /\ i + 1 \in 1 .. n
      BY <1>1
    <2>2. (((r + 1) % M) + i - 1) % M = (r + (i + 1) - 1) % M
      BY <1>1, <2>1, NextSlot
    <2>3. C[i + 1] = data[(r + (i + 1) - 1) % M]
      BY <1>3, <2>1
    <2> QED
      BY <1>1, <1>4, <1>6, <2>2, <2>3
  <1>8. D = T
    BY <1>4, <1>6, <1>7, SeqEqual
  <1> QED
    BY <1>5, <1>8 DEF C, D, T, f

(* Every step of the channel is a step of a bounded FIFO or leaves it      *)
(* alone.                                                                  *)
LEMMA StepOfFIFO ==
  ASSUME ChannelInv, ChannelInv', ChannelStep
  PROVE  [FIFO!Next]_([f \in {InPort} |-> Contents])
  <1> DEFINE F == [f \in {InPort} |-> Contents]
             G == [f \in {InPort} |-> Contents']
  <1>g. F' = G /\ InPort \in {InPort}
    OBVIOUS
  <1>e. \A v : Contents' = v => G = [F EXCEPT ![InPort] = v]
    OBVIOUS
  <1>c. /\ Contents = Ring(Held, read_index, slot)
        /\ Len(Contents) = Held
        /\ Held \in Nat /\ read_index \in Nat
        /\ slot \in [0 .. MaxNbMessages - 1 -> Messages \cup {None}]
    BY ContentsFacts DEF ChannelInv
  <1>d. /\ Contents' = Ring(Held', read_index', slot')
        /\ Contents' \in Seq(Messages \cup {None})
        /\ Len(Contents') = Held'
    BY NextContentsFacts
  <1> DEFINE n == Held
  <1> HIDE DEF n
  <1>1. CASE Kept
    <2>1. Contents' = Contents
      BY <1>1, <1>c, <1>d DEF Kept
    <2>2. G = F
      BY <2>1
    <2> QED
      BY <1>g, <2>2
  <1>2. CASE Accepted
    <2>1. /\ Held < MaxNbMessages /\ Held' = Held + 1 /\ letter \in Messages
      BY <1>2 DEF Accepted
    <2>3. Contents' = Append(Contents, letter)
      BY <1>2, AcceptedIsLast
    <2>4. FIFO!Accept(InPort, letter)
      BY <1>g, <1>e, <1>c, <2>1, <2>3 DEF FIFO!Accept
    <2> QED
      BY <2>1, <2>4 DEF FIFO!Next
  <1>3. CASE Delivered
    <2>1. Held > 0 /\ Held' = Held - 1 /\ slot' = slot /\ read_index' = Following(read_index)
      BY <1>3 DEF Delivered
    <2>2. /\ Ring(n, read_index, slot) # <<>>
          /\ Ring(n - 1, Following(read_index), slot) = Tail(Ring(n, read_index, slot))
      <3>1. n \in Nat \ {0}
        BY <1>c, <2>1 DEF n
      <3>2. read_index \in Nat /\ slot \in [0 .. MaxNbMessages - 1 -> Messages \cup {None}]
        BY <1>c
      <3> QED
        BY <3>1, <3>2, TakesFromRing
    <2>3. Contents # <<>> /\ Contents' = Tail(Contents)
      BY <1>c, <1>d, <2>1, <2>2 DEF n
    <2>4. FIFO!Deliver(InPort)
      BY <1>g, <1>e, <2>3 DEF FIFO!Deliver
    <2> QED
      BY <2>4 DEF FIFO!Next
  <1>4. CASE Held' = 0
    <2>1. Contents' = <<>>
      BY <1>4, <1>d, EmptySeq
    <2>2. FIFO!Discard(InPort)
      BY <1>g, <1>e, <2>1 DEF FIFO!Discard
    <2> QED
      BY <2>2 DEF FIFO!Next
  <1> QED
    BY <1>1, <1>2, <1>3, <1>4 DEF ChannelStep

LEMMA InitFIFO == PortInit => FIFO!Init
  <1> SUFFICES ASSUME PortInit PROVE FIFO!Init
    OBVIOUS
  <1>1. ChannelInv
    BY InitChannel
  <1>2. Held = 0
    BY DEF PortInit, Init, Held, Reading
  <1>3. Contents \in Seq(Messages \cup {None}) /\ Len(Contents) = 0
    BY <1>1, <1>2, ContentsFacts
  <1>4. Contents = <<>>
    <2> HIDE DEF Contents
    <2> QED
      BY <1>3, EmptySeq
  <1> QED
    BY <1>4 DEF FIFO!Init

LEMMA TrustedStepOfFIFO ==
  TrustedInv /\ TrustedInv' /\ [AlignedNext]_allVars
    => [FIFO!Next]_([f \in {InPort} |-> Contents])
  <1> SUFFICES ASSUME TrustedInv, TrustedInv', [AlignedNext]_allVars
               PROVE  [FIFO!Next]_([f \in {InPort} |-> Contents])
    OBVIOUS
  <1>1. PortBase /\ ChannelInv /\ Woken /\ ChannelInv'
    BY DEF TrustedInv
  <1>2. ChannelStep
    BY <1>1, WokenIsSafe, ChannelStepLemma DEF AlignedNext
  <1> QED
    BY <1>1, <1>2, StepOfFIFO

(* Under the same conditions the channel is a bounded FIFO: although a     *)
(* message is counted before it is copied and uncounted before it is read, *)
(* each comes out once, complete and in order.                             *)
THEOREM ChannelIsFIFO ==
  AlignedSpec /\ []NoOvertaking /\ []NoStrayRelease => ImplementsFIFO
  BY InitFIFO, TrustedStepOfFIFO, TrustedInvariant, AlignedSteps, PTL
  DEF ImplementsFIFO, FIFO!Spec

(***************************************************************************)
(* Partitions that meet the conditions                                     *)
(***************************************************************************)

LEMMA PortDelaysStep ==
  ASSUME PortBase, NoDelays, [PortNext]_allVars
  PROVE  NoDelays'
  <1>t. TypeOK
    BY DEF PortBase, SchedInv
  <1>1. CASE ProcessService \/ PortTick
    BY <1>t, <1>1, NoDelaysStep DEF ProcessService, PortTick, Next
  <1>2. CASE DestinationOS
    <2>1. \A p \in Procs : init_delay'[p] \in {init_delay[p], 0}
      BY <1>2, <1>t DEF DestinationOS, arinc_time_update_partition, timeVars, TypeOK
    <2> QED
      BY <2>1 DEF NoDelays
  <1>3. CASE UNCHANGED init_delay
    BY <1>3 DEF NoDelays
  <1> QED
    BY <1>1, <1>2, <1>3 DEF PortNext, PortServices, SEND_QUEUING_MESSAGE, SenderCounts,
      SenderCopies, SenderReturns, SourceOS, Switch, RECEIVE_QUEUING_MESSAGE, TakeAtOnce,
      TakeLater, WaitFor, ReceiverCounts, ReceiverReads, ReceiverReturns,
      CLEAR_QUEUING_PORT, ReceiverClears, Proceed, allVars, vars, timeVars

(* With neither periodic processes nor delayed starts there are no release *)
(* points to interfere.                                                    *)
LEMMA NothingIsReleased ==
  ASSUME Periodic = {}, "DELAYED_START" \notin Services
  PROVE  AlignedSpec => []NoStrayRelease
  <1>1. PortInit => NoDelays
    BY DEF PortInit, Init, NoDelays
  <1>2. PortBase /\ NoDelays /\ [AlignedNext]_allVars => NoDelays'
    BY PortDelaysStep DEF AlignedNext
  <1>3. NoDelays => NoStrayRelease
    BY DEF NoDelays, NoStrayRelease, Released
  <1> QED
    BY <1>1, <1>2, <1>3, AlignedBase, AlignedSteps, PTL

(* One aperiodic process that is started without delay needs no condition: *)
(* with the windows between services, its channel is a bounded FIFO,       *)
(* whatever time-outs it gives and whenever it clears the port.            *)
THEOREM SoleReceiverIsFIFO ==
  ASSUME \A p, q \in Procs : p = q, Periodic = {}, "DELAYED_START" \notin Services
  PROVE  AlignedSpec => []CountInRange /\ ImplementsFIFO
  <1>1. NoOvertaking
    BY DEF NoOvertaking
  <1>2. AlignedSpec => []NoStrayRelease
    BY NothingIsReleased
  <1> QED
    BY <1>1, <1>2, ChannelStaysInRange, ChannelIsFIFO, PTL

NoTimers == \A p \in Procs : timer[p] = NoTimer

(* A partition whose processes give no time-out but 0 and INFINITE never   *)
(* has a timer.                                                            *)
LEMMA NoTimersStep ==
  ASSUME Timeouts \subseteq {0, INFINITE}, PortBase, NoTimers, [PortNext]_allVars
  PROVE  NoTimers'
  <1>t. /\ TypeOK /\ timer \in [Procs -> Nat \cup {INFINITE, NoTimer}]
        /\ \A p \in Procs : timer[p] = NoTimer
    BY DEF PortBase, SchedInv, TypeOK, NoTimers
  <1> SUFFICES ASSUME NEW p \in Procs PROVE timer'[p] = NoTimer
    BY DEF NoTimers
  <1>1. CASE timer' = timer
    BY <1>1, <1>t
  <1>2. CASE \E q : timer' = [timer EXCEPT ![q] = NoTimer]
    BY <1>2, <1>t
  <1>3. \A t \in Timeouts : t # 0 => Arm(t) = timer
    BY DEF Arm, INFINITE
  <1>4. CASE ProcessService
    <2>1. ASSUME NEW t \in Timeouts, SUSPEND_SELF(t) PROVE timer' = timer
      BY <1>3, <2>1 DEF SUSPEND_SELF
    <2>2. ASSUME NEW t \in Timeouts, TIMED_WAIT(t) PROVE timer' = timer
      BY <1>3, <2>2 DEF TIMED_WAIT
    <2>3. ASSUME NEW q \in Named, NEW d \in Timeouts, DELAYED_START(q, d)
          PROVE  timer' = timer
      <3>1. d = 0
        BY <2>3 DEF DELAYED_START
      <3> QED
        BY <2>3, <3>1 DEF DELAYED_START, AwaitRelease
    <2>4. ASSUME NEW q \in Named, RESUME(q) PROVE timer'[p] = NoTimer
      <3>1. \E x \in {NoTimer, timer[q]} : timer' = [timer EXCEPT ![q] = x]
        BY <2>4 DEF RESUME
      <3> QED
        BY <3>1, <1>t DEF Named
    <2>5. ASSUME NEW q \in Named, STOP(q) PROVE timer'[p] = NoTimer
      BY <1>2, <2>5 DEF STOP, Halt
    <2>6. CASE STOP_SELF
      BY <1>2, <2>6 DEF STOP_SELF, Halt
    <2>7. ASSUME NEW q \in Named,
                 \/ START(q) \/ SUSPEND(q) \/ \E v \in Priorities : SET_PRIORITY(q, v)
          PROVE  timer' = timer
      BY <2>7 DEF START, SUSPEND, SET_PRIORITY, AwaitRelease, timeVars
    <2>8. CASE PERIODIC_WAIT \/ SET_PARTITION_MODE_NORMAL
      BY <1>1, <2>8 DEF PERIODIC_WAIT, SET_PARTITION_MODE_NORMAL
    <2>9. Service
      BY <1>4 DEF ProcessService
    <2> QED
      BY <1>1, <1>2, <2>1, <2>2, <2>3, <2>4, <2>5, <2>6, <2>7, <2>8, <2>9 DEF Service, OtherService
  <1>5. CASE PortTick
    BY <1>5, <1>t DEF PortTick, Tick, CountDown, NoTimer
  <1>6. CASE DestinationOS
    BY <1>6, <1>t, DestinationWakes DEF PortBase
  <1>7. ASSUME NEW t \in Timeouts, RECEIVE_QUEUING_MESSAGE(t) PROVE timer' = timer
    BY <1>3, <1>7 DEF RECEIVE_QUEUING_MESSAGE, TakeAtOnce, TakeLater, WaitFor
  <1>8. CASE ReceiverReturns
    BY <1>2, <1>8 DEF ReceiverReturns
  <1> QED
    BY <1>1, <1>4, <1>5, <1>6, <1>7, <1>8 DEF PortNext, PortServices, SEND_QUEUING_MESSAGE,
      SenderCounts, SenderCopies, SenderReturns, SourceOS, Switch, ReceiverCounts,
      ReceiverReads, CLEAR_QUEUING_PORT, ReceiverClears, allVars, vars, timeVars

(* Any number of receivers, periodic or not, that poll or wait without a   *)
(* time-out: the channel is a bounded FIFO.  (A wait without a time-out    *)
(* never takes a message: it ends as if it had timed out.)                 *)
THEOREM UntimedReceiversAreFIFO ==
  ASSUME Timeouts \subseteq {0, INFINITE}
  PROVE  AlignedSpec => []CountInRange /\ ImplementsFIFO
  <1>1. PortInit => NoTimers
    BY DEF PortInit, Init, NoTimers
  <1>2. PortBase /\ NoTimers /\ [AlignedNext]_allVars => NoTimers'
    BY NoTimersStep DEF AlignedNext
  <1>3. NoTimers => NoOvertaking /\ NoStrayRelease
    BY DEF NoTimers, NoOvertaking, NoStrayRelease, Trusts, TakesMessage
  <1> QED
    BY <1>1, <1>2, <1>3, AlignedBase, AlignedSteps, ChannelStaysInRange, ChannelIsFIFO, PTL
=============================================================================
