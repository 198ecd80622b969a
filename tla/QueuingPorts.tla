----------------------------- MODULE QueuingPorts -----------------------------
(***************************************************************************)
(* A queuing channel between two partitions (SEND_QUEUING_MESSAGE,         *)
(* RECEIVE_QUEUING_MESSAGE, CLEAR_QUEUING_PORT in                          *)
(* arinc/arinc_interpartition_communication.c and                          *)
(* check_available_resources_on_partition_port in arinc/arinc_partition.c).*)
(* The processes of the partition with the DESTINATION port are those of   *)
(* Processes; the partition with the SOURCE port has one, the sender.      *)
(*                                                                         *)
(* The channel is memory that both partitions write, with no lock: a       *)
(* window can end inside a service, and the other partition finds the      *)
(* channel as it is then.  A service is therefore several steps: the test, *)
(* which loads current_nb_messages; the store of the new count; the copy   *)
(* with the advance of the index.                                          *)
(***************************************************************************)
EXTENDS Processes

CONSTANTS
  InPort,           \* the DESTINATION port, with its waiting_processes
  MaxNbMessages,    \* max_nb_messages of the channel
  Word,             \* current_nb_messages is unsigned: it counts modulo Word
  MaxMessageSize,   \* queuing_port_status.MAX_MESSAGE_SIZE of the source port
  Messages          \* what is sent

SOURCE == 0         \* PORT_DIRECTION_TYPE

ASSUME PortsAssumption ==
  /\ InPort \in Resources
  /\ MaxNbMessages \in Nat \ {0}
  /\ Word \in Nat /\ MaxNbMessages < Word
  /\ MaxMessageSize \in Nat \ {0}
  /\ None \notin Messages

VARIABLES
  active,        \* the partition that has the processor
  nb,            \* current_nb_messages
  read_index,
  write_index,
  slot,          \* buffer_data, buffer_sizes
  loaded,        \* the count the running receiver has loaded
  step,          \* where the sender is: in its own code, in a call, waiting
  letter,        \* the message it sends,
  s_loaded,      \* the count
  s_index,       \* and the index it has loaded
  s_timer,       \* time_counter of the sender, as timer in Processes
  s_entries      \* length of waiting_processes of the source port

channelVars == <<nb, read_index, write_index, slot>>
senderVars == <<step, letter, s_loaded, s_index, s_timer, s_entries>>
portVars == <<active, channelVars, loaded, senderVars>>
allVars == <<vars, portVars>>

Following(i) == (i + 1) % MaxNbMessages

-----------------------------------------------------------------------------
(* The sender *)

InSource(s) == active = "source" /\ step = s

SendWhenFull(m) ==
  /\ s_entries = 0
  /\ nb <= MaxNbMessages
  /\ step' = "counting"
  /\ s_loaded' = nb
  /\ letter' = m
  /\ UNCHANGED <<s_index, s_timer, s_entries>>

SendAtOnce(m) ==
  /\ s_entries = 0
  /\ nb < MaxNbMessages
  /\ step' = "counting"
  /\ s_loaded' = nb
  /\ letter' = m
  /\ UNCHANGED <<s_index, s_timer, s_entries>>

(* The list is never shortened: a time-out leaves its entry.               *)
SendLater(m, t) ==
  /\ s_entries # 0 \/ nb >= MaxNbMessages
  /\ t # 0
  /\ s_entries < MaxQueue
  /\ step' = "waiting"
  /\ letter' = m
  /\ s_timer' = IF t = INFINITE THEN s_timer ELSE t
  /\ s_entries' = s_entries + 1
  /\ UNCHANGED <<s_loaded, s_index>>

SEND_QUEUING_MESSAGE(m, t) ==
  /\ InSource("app")
  /\ SendAtOnce(m) \/ SendLater(m, t)
  /\ UNCHANGED <<vars, active, channelVars, loaded>>

SenderCounts ==
  /\ InSource("counting")
  /\ nb' = (s_loaded + 1) % Word
  /\ s_index' = write_index
  /\ step' = "copying"
  /\ UNCHANGED <<vars, active, read_index, write_index, slot, loaded, letter,
                 s_loaded, s_timer, s_entries>>

SenderCopies ==
  /\ InSource("copying")
  /\ slot' = [slot EXCEPT ![s_index] = letter]
  /\ write_index' = Following(s_index)
  /\ step' = "app"
  /\ UNCHANGED <<vars, active, nb, read_index, loaded, letter, s_loaded, s_index,
                 s_timer, s_entries>>

(* check_available_resources_on_partition_port in the source partition:    *)
(* the test of the direction looks at MAX_MESSAGE_SIZE.                    *)
SenderHasRoom ==
  nb < MaxNbMessages /\ MaxMessageSize = SOURCE /\ s_entries # 0

(* partition_OS of the source partition: time-outs, then ports.            *)
SourceOS ==
  /\ InSource("waiting")
  /\ s_timer = 0 \/ SenderHasRoom
  /\ step' = "woken"
  /\ s_timer' = IF s_timer = 0 THEN NoTimer ELSE s_timer
  /\ s_entries' = IF SenderHasRoom THEN s_entries - 1 ELSE s_entries
  /\ UNCHANGED <<vars, active, channelVars, loaded, letter, s_loaded, s_index>>

(* After the yield: TIMED_OUT if the timer is cleared; else the message is *)
(* sent with no further test.                                              *)
SenderReturns ==
  /\ InSource("woken")
  /\ step' = IF s_timer = NoTimer THEN "app" ELSE "counting"
  /\ s_loaded' = nb
  /\ s_timer' = NoTimer
  /\ UNCHANGED <<vars, active, channelVars, loaded, letter, s_index, s_entries>>

-----------------------------------------------------------------------------
(* The receivers *)

ReceiverCalls(s) == active = "destination" /\ Calls(s)

(* The running receiver goes on to stage s of its call.                    *)
Proceed(s) ==
  /\ call' = [call EXCEPT ![current] = s]
  /\ UNCHANGED <<schedVars, state, priority, suspended, release, init_delay,
                 grid, queue, tracked, owned>>

In(s) == active = "destination" /\ exec = "proc" /\ call[current] = s

TakeAtOnce ==
  /\ nb > 0
  /\ loaded' = nb
  /\ Proceed("COUNTING")
  /\ UNCHANGED timer

(* waiting_queuing_port is always set.                                     *)
TakeLater(t) ==
  /\ nb = 0
  /\ WaitFor(InPort, InPort \in PriorityQueued, t, tracked[current] \cup {InPort},
             "RECEIVE_QUEUING_MESSAGE", "RECEIVE_QUEUING_MESSAGE_TIMED")
  /\ UNCHANGED loaded

RECEIVE_QUEUING_MESSAGE(t) ==
  /\ ReceiverCalls("RECEIVE_QUEUING_MESSAGE")
  /\ TakeAtOnce \/ TakeLater(t)
  /\ UNCHANGED <<active, channelVars, senderVars>>

ReceiverCounts ==
  /\ In("COUNTING")
  /\ nb' = (loaded - 1) % Word
  /\ Proceed("READING")
  /\ UNCHANGED <<timer, active, read_index, write_index, slot, loaded, senderVars>>

ReceiverReads ==
  /\ In("READING")
  /\ read_index' = Following(read_index)
  /\ Proceed("app")
  /\ UNCHANGED <<timer, active, nb, write_index, slot, loaded, senderVars>>

Waits == {"RECEIVE_QUEUING_MESSAGE", "RECEIVE_QUEUING_MESSAGE_TIMED"}

TakesUntimed(p) == TRUE

TakesMessage(p) == timer[p] # NoTimer

(* After the yield: TIMED_OUT if there is no timer, as after every wait    *)
(* without a time-out; else a message is taken with no further test.       *)
ReceiverReturns ==
  /\ active = "destination"
  /\ exec = "proc"
  /\ call[current] \in Waits
  /\ Proceed(IF TakesMessage(current) THEN "COUNTING" ELSE "app")
  /\ loaded' = nb
  /\ timer' = [timer EXCEPT ![current] = NoTimer]
  /\ UNCHANGED <<active, channelVars, senderVars>>

CLEAR_QUEUING_PORT ==
  /\ ReceiverCalls("CLEAR_QUEUING_PORT")
  /\ nb' = 0
  /\ Proceed("CLEARING")
  /\ UNCHANGED <<timer, active, read_index, write_index, slot, loaded, senderVars>>

ReceiverClears ==
  /\ In("CLEARING")
  /\ read_index' = 0
  /\ write_index' = 0
  /\ Proceed("app")
  /\ UNCHANGED <<timer, active, nb, slot, loaded, senderVars>>

-----------------------------------------------------------------------------
(* The partition OS of the destination *)

PoppedNever == {}

(* The process that check_available_resources_on_partition_port wakes.     *)
Popped == IF nb > 0 /\ queue[InPort] # <<>> THEN {Head(queue[InPort])} ELSE {}

(* After a tick: time, then ports, then the scheduler.                     *)
DestinationOS ==
  LET woken == IF tick_pending THEN Popped ELSE {}
      before == IF tick_pending THEN StateAfterUpdate ELSE state
  IN  /\ active = "destination"
      /\ exec = "os"
      /\ tick_pending' = FALSE
      /\ IF tick_pending THEN arinc_time_update_partition
                         ELSE UNCHANGED <<suspended, timeVars>>
      /\ queue' = [queue EXCEPT ![InPort] = IF woken = {} THEN @ ELSE Tail(@)]
      /\ tracked' = [p \in Procs |-> IF p \in woken THEN tracked[p] \ {InPort}
                                                    ELSE tracked[p]]
      /\ process_schedule([p \in Procs |-> IF p \in woken THEN "READY" ELSE before[p]])
      /\ UNCHANGED <<mode, order, priority, owned, portVars>>

ProcessService ==
  /\ active = "destination"
  /\ Service
  /\ UNCHANGED portVars

PortTick ==
  /\ Tick
  /\ s_timer' = CountDown(s_timer)
  /\ UNCHANGED <<active, channelVars, loaded, step, letter, s_loaded, s_index, s_entries>>

(* The module scheduler: a window ends.                                    *)
Switch ==
  /\ active' = IF active = "source" THEN "destination" ELSE "source"
  /\ UNCHANGED <<vars, channelVars, loaded, senderVars>>

PortInit ==
  /\ Init
  /\ active \in {"source", "destination"}
  /\ nb = 0 /\ read_index = 0 /\ write_index = 0 /\ loaded = 0
  /\ slot = [i \in 0 .. MaxNbMessages - 1 |-> None]
  /\ step = "app" /\ letter = None /\ s_loaded = 0 /\ s_index = 0
  /\ s_timer = NoTimer /\ s_entries = 0

PortServices ==
  \/ \E m \in Messages, t \in Timeouts : SEND_QUEUING_MESSAGE(m, t)
  \/ SenderCounts \/ SenderCopies \/ SenderReturns
  \/ \E t \in Timeouts : RECEIVE_QUEUING_MESSAGE(t)
  \/ ReceiverCounts \/ ReceiverReads \/ ReceiverReturns
  \/ CLEAR_QUEUING_PORT \/ ReceiverClears

PortNext ==
  \/ PortServices
  \/ SourceOS
  \/ DestinationOS
  \/ ProcessService
  \/ PortTick
  \/ Switch

PortSpec == PortInit /\ [][PortNext]_allVars

(* Nobody is inside a service that works on the channel.                   *)
ChannelAtRest ==
  /\ step \notin {"counting", "copying"}
  /\ \A p \in Procs : call[p] \notin {"COUNTING", "READING", "CLEARING"}

(* A service that has begun on the channel, in whichever partition runs.   *)
ServiceGoesOn ==
  SenderCounts \/ SenderCopies \/ ReceiverCounts \/ ReceiverReads \/ ReceiverClears

(* Windows that end between services only, and the fairness of the system: *)
(* interrupts come, windows come, a service goes on to its end, and in its *)
(* windows a partition OS that has something to do gets to do it.          *)
AlignedSpec ==
  /\ PortInit
  /\ [][PortNext /\ (active' # active => ChannelAtRest)]_allVars
  /\ WF_allVars(PortTick)
  /\ WF_allVars(Switch /\ ChannelAtRest)
  /\ WF_allVars(ServiceGoesOn)
  /\ SF_allVars(DestinationOS)

-----------------------------------------------------------------------------
(* Properties *)

(* Indices stay inside the ring, the count never passes below 0 or above   *)
(* max_nb_messages, for all that woken processes do without a test.        *)
CountInRange ==
  /\ nb \in 0 .. MaxNbMessages
  /\ read_index \in 0 .. MaxNbMessages - 1
  /\ write_index \in 0 .. MaxNbMessages - 1

(* The messages in the channel, oldest first; a message counted and not    *)
(* yet copied is not there, one counted out and not yet read still is.     *)
Contents ==
  LET n == nb - (IF step = "copying" THEN 1 ELSE 0)
              + (IF \E p \in Procs : call[p] = "READING" THEN 1 ELSE 0)
  IN  [i \in 1 .. (IF n < 0 THEN 0 ELSE n) |-> slot[(read_index + i - 1) % MaxNbMessages]]

FIFO == INSTANCE BoundedFIFOs WITH
  Fifos <- {InPort},
  Capacity <- [f \in {InPort} |-> MaxNbMessages],
  fifo <- [f \in {InPort} |-> Contents]

(* The channel is a bounded FIFO (README, "Queuing Ports": writing appends *)
(* to the queue, reading consumes the oldest message).                     *)
ImplementsFIFO == FIFO!Spec

(* "If a channel receives new messages, it unblocks the process waiting to *)
(* receive" (README, "Unblocking Blocked Processes"): a process does not   *)
(* wait for ever on a channel that holds a message, although another       *)
(* partition put it there, if the partition's processes keep yielding.     *)
ReceiverUnblocked ==
  []<>(exec = "os") =>
    \A p \in Procs :
      (state[p] = "WAITING" /\ call[p] \in Waits /\ nb > 0)
        ~> (state[p] # "WAITING" \/ nb = 0)

=============================================================================
