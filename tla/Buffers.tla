-------------------------------- MODULE Buffers --------------------------------
(***************************************************************************)
(* The message buffers of a partition (CREATE_BUFFER, SEND_BUFFER,         *)
(* RECEIVE_BUFFER in arinc/arinc_intrapartition_communication.c) together  *)
(* with the partition's processes.                                         *)
(*                                                                         *)
(* A buffer is a ring of slots in two shared arrays: buffers_data, with a  *)
(* region of its own for each buffer, and buffers_size_data, where the     *)
(* buffer number i begins at i * MAX_NB_MESSAGE.  Full or empty, it has a  *)
(* queue of writers and one of readers.  A sender that finds readers       *)
(* copies its message to the first one and bypasses the ring; a receiver   *)
(* that makes room moves the message of the first writer into the ring.    *)
(***************************************************************************)
EXTENDS Processes

CONSTANTS
  NbBuffers,      \* buffer_count: the buffers are 0 .. NbBuffers - 1
  MaxNbMessage,   \* MAX_NB_MESSAGE of each
  Messages,       \* the messages sent
  Length,         \* their lengths; of None: what memory happens to hold
  Readers,        \* waiting_readers of each buffer, a queue of Resources
  Writers         \* waiting_writers

Buffers == 0 .. NbBuffers - 1

ASSUME BuffersAssumption ==
  /\ NbBuffers \in Nat
  /\ MaxNbMessage \in [Buffers -> Nat \ {0}]
  /\ Length \in [Messages \cup {None} -> Nat]
  /\ Readers \in [Buffers -> Resources]
  /\ Writers \in [Buffers -> Resources]
  /\ \A b, c \in Buffers :
       /\ Readers[b] # Writers[c]
       /\ Readers[b] = Readers[c] \/ Writers[b] = Writers[c] => b = c
  /\ None \notin Messages

VARIABLES
  nb,            \* NB_MESSAGE
  read_index,
  write_index,
  data,          \* buffers_data: the bytes in each slot of each buffer
  size,          \* buffers_size_data, one array for all buffers
  letter,        \* what waiting_message_addr points to; None: unknown
  served,        \* history: processes whose wait was served, unknown to them
  disturbed      \* history: processes that waited with a time-out or were
                 \* suspended

ringVars == <<nb, read_index, write_index, data, size>>
bufVars == <<ringVars, letter, served, disturbed>>
allVars == <<vars, bufVars>>

(* What a slot can hold: bytes, and a length for them.                     *)
Slots == [data : Messages \cup {None}, size : {Length[m] : m \in Messages \cup {None}}]

-----------------------------------------------------------------------------
(* The ring *)

(* size_base + i                                                           *)
SizeSlot(b, i) == (b * MaxNbMessage[b]) + i

SizeSlots ==
  UNION {{SizeSlot(b, i) : i \in 0 .. MaxNbMessage[b] - 1} : b \in Buffers}

WrapLate(b, i) == (i + 1) % (MaxNbMessage[b] + 1)

(* The lines that advance an index.                                        *)
Following(b, i) == (i + 1) % MaxNbMessage[b]

StoreAtRead(b, m) ==
  /\ data' = [data EXCEPT ![b][read_index[b]] = m]
  /\ size' = [size EXCEPT ![SizeSlot(b, read_index[b])] = Length[m]]
  /\ write_index' = [write_index EXCEPT ![b] = Following(b, @)]

Store(b, m) ==
  /\ data' = [data EXCEPT ![b][write_index[b]] = m]
  /\ size' = [size EXCEPT ![SizeSlot(b, write_index[b])] = Length[m]]
  /\ write_index' = [write_index EXCEPT ![b] = Following(b, @)]

-----------------------------------------------------------------------------
(* Waiting *)

BufferQueues == {Readers[b] : b \in Buffers} \cup {Writers[b] : b \in Buffers}

AwaitUntracked(b, q, t, plain, timed) ==
  /\ t # 0
  /\ Enqueue(q)
  /\ state' = [state EXCEPT ![current] = "WAITING"]
  /\ timer' = Arm(t)
  /\ call' = [call EXCEPT ![current] = IF t = INFINITE THEN plain ELSE timed]
  /\ yield_to_partition
  /\ UNCHANGED <<mode, current, order, tick_pending, priority, suspended, tracked,
                 release, init_delay, grid, owned>>
  /\ disturbed' = IF t = INFINITE THEN disturbed ELSE disturbed \cup {current}
  /\ UNCHANGED <<ringVars, served>>

(* waiting_buffer is set for either queue, with or without a time-out.     *)
AwaitBuffer(b, q, t, plain, timed) ==
  /\ WaitFor(q, q \in PriorityQueued, t,
             (tracked[current] \ BufferQueues) \cup {Readers[b], Writers[b]},
             plain, timed)
  /\ disturbed' = IF t = INFINITE THEN disturbed ELSE disturbed \cup {current}
  /\ UNCHANGED <<ringVars, served>>

(* The first process of queue q is made READY, whatever state it is in.    *)
WakeFirst(q) ==
  LET w == Head(queue[q])
  IN  /\ queue' = [queue EXCEPT ![q] = Tail(@)]
      /\ tracked' = [tracked EXCEPT ![w] = @ \ BufferQueues]
      /\ state' = [state EXCEPT ![w] = "READY"]
      /\ timer' = [timer EXCEPT ![w] = Served(@)]
      /\ served' = served \cup {w}
      /\ yield_to_partition
      /\ UNCHANGED <<mode, current, order, tick_pending, priority, suspended,
                     release, init_delay, grid, call, owned, disturbed>>

-----------------------------------------------------------------------------
(* The services *)

StoreForReaders(b, m) ==
  /\ nb[b] < MaxNbMessage[b]
  /\ Store(b, m)
  /\ nb' = [nb EXCEPT ![b] = @ + 1]
  /\ UNCHANGED <<vars, read_index, letter, served, disturbed>>

StoreMessage(b, m) ==
  /\ nb[b] < MaxNbMessage[b]
  /\ queue[Readers[b]] = <<>>
  /\ Store(b, m)
  /\ nb' = [nb EXCEPT ![b] = @ + 1]
  /\ UNCHANGED <<vars, read_index, letter, served, disturbed>>

(* The first reader gets the message; the ring is not touched.             *)
PassToReader(b, m) ==
  /\ nb[b] < MaxNbMessage[b]
  /\ queue[Readers[b]] # <<>>
  /\ letter' = [letter EXCEPT ![Head(queue[Readers[b]])] = m]
  /\ WakeFirst(Readers[b])
  /\ UNCHANGED ringVars

AwaitRoom(b, m, t) ==
  /\ nb[b] >= MaxNbMessage[b]
  /\ letter' = [letter EXCEPT ![current] = m]
  /\ AwaitBuffer(b, Writers[b], t, "SEND_BUFFER", "SEND_BUFFER_TIMED")

SEND_BUFFER(b, m, t) ==
  /\ Calls("SEND_BUFFER")
  /\ StoreMessage(b, m) \/ PassToReader(b, m) \/ AwaitRoom(b, m, t)

TakeMessage(b) ==
  /\ nb[b] > 0
  /\ queue[Writers[b]] = <<>>
  /\ nb' = [nb EXCEPT ![b] = @ - 1]
  /\ read_index' = [read_index EXCEPT ![b] = Following(b, @)]
  /\ UNCHANGED <<vars, write_index, data, size, letter, served, disturbed>>

(* The message of the first writer is copied to the ring after the read.   *)
TakeAndRefill(b) ==
  /\ nb[b] > 0
  /\ queue[Writers[b]] # <<>>
  /\ read_index' = [read_index EXCEPT ![b] = Following(b, @)]
  /\ Store(b, letter[Head(queue[Writers[b]])])
  /\ WakeFirst(Writers[b])
  /\ UNCHANGED <<nb, letter>>

(* waiting_message_addr is where the message is to go; what is there       *)
(* before is not known.                                                    *)
AwaitMessage(b, t) ==
  /\ nb[b] = 0
  /\ letter' = [letter EXCEPT ![current] = None]
  /\ AwaitBuffer(b, Readers[b], t, "RECEIVE_BUFFER", "RECEIVE_BUFFER_TIMED")

RECEIVE_BUFFER(b, t) ==
  /\ Calls("RECEIVE_BUFFER")
  /\ TakeMessage(b) \/ TakeAndRefill(b) \/ AwaitMessage(b, t)

(* After the yield only LENGTH and the return code are set.                *)
Waits ==
  {"SEND_BUFFER", "SEND_BUFFER_TIMED", "RECEIVE_BUFFER", "RECEIVE_BUFFER_TIMED"}

ReturnsNoError(p) ==
  call[p] \in {"SEND_BUFFER", "RECEIVE_BUFFER"} \/ timer[p] # NoTimer

Return ==
  /\ exec = "proc"
  /\ call[current] \in Waits
  /\ call' = [call EXCEPT ![current] = "app"]
  /\ served' = served \ {current}
  /\ UNCHANGED <<schedVars, state, priority, suspended, timeVars, queue,
                 tracked, owned, ringVars, letter, disturbed>>

-----------------------------------------------------------------------------
BufInit ==
  /\ Init
  /\ nb = [b \in Buffers |-> 0]
  /\ read_index = [b \in Buffers |-> 0]
  /\ write_index = [b \in Buffers |-> 0]
  /\ data = [b \in Buffers |-> [i \in 0 .. MaxNbMessage[b] - 1 |-> None]]
  /\ size = [i \in SizeSlots |-> Length[None]]
  /\ letter = [p \in Procs |-> None]
  /\ served = {}
  /\ disturbed = {}

(* Steps of the processes; a restarted process has forgotten its wait.     *)
ProcessStep ==
  /\ Next
  /\ served' = {p \in served : call'[p] # "app"}
  /\ disturbed' = disturbed \cup {p \in Procs : suspended'[p]}
  /\ UNCHANGED <<ringVars, letter>>

BufNext ==
  \/ ProcessStep
  \/ \E b \in Buffers, m \in Messages, t \in Timeouts : SEND_BUFFER(b, m, t)
  \/ \E b \in Buffers, t \in Timeouts : RECEIVE_BUFFER(b, t)
  \/ Return

BufSpec == BufInit /\ [][BufNext]_allVars

-----------------------------------------------------------------------------
(* Properties *)

(* Counters and indices stay inside the ring, and process control blocks   *)
(* well formed, through every combination of services.                     *)
BufTypeOK ==
  /\ TypeOK
  /\ \A b \in Buffers :
       /\ nb[b] \in 0 .. MaxNbMessage[b]
       /\ read_index[b] \in 0 .. MaxNbMessage[b] - 1
       /\ write_index[b] \in 0 .. MaxNbMessage[b] - 1
       /\ data[b] \in [0 .. MaxNbMessage[b] - 1 -> Messages \cup {None}]
  /\ size \in [SizeSlots -> {Length[m] : m \in Messages \cup {None}}]
  /\ letter \in [Procs -> Messages \cup {None}]
  /\ served \subseteq Procs
  /\ disturbed \subseteq Procs

(* Nobody waits for what the buffer has: no reader while there are         *)
(* messages, no writer while there is room.  Otherwise a message could     *)
(* overtake one that was sent before it.                                   *)
NobodyWaitsInVain ==
  \A b \in Buffers :
    /\ nb[b] > 0 => queue[Readers[b]] = <<>>
    /\ nb[b] < MaxNbMessage[b] => queue[Writers[b]] = <<>>

(* The messages in buffer b, oldest first, as a receiver would read them.  *)
Contents(b) ==
  [i \in 1 .. nb[b] |->
     LET slot == (read_index[b] + i - 1) % MaxNbMessage[b]
     IN  [data |-> data[b][slot], size |-> size[SizeSlot(b, slot)]]]

FIFO == INSTANCE BoundedFIFOs WITH
  Fifos <- Buffers,
  Capacity <- MaxNbMessage,
  Messages <- Slots,
  fifo <- [b \in Buffers |-> Contents(b)]

(* The rings are bounded FIFOs: messages come out as they went in, with    *)
(* their lengths, in order, none twice, although writers and readers that  *)
(* wait take part in the copying (app/arinc_test_buffer.c).                *)
ImplementsFIFOs == FIFO!Spec

(* Aperiodic processes that only wait without a time-out, and were never   *)
(* suspended.  (Of a periodic one that waits here the release point has    *)
(* passed: the next tick makes it READY.)                                  *)
Undisturbed == Aperiodic \ disturbed

(* Such a process is in the queue of what it waits for only while it       *)
(* waits, also when processes are stopped and started; it returns only     *)
(* when its message has been taken, or it has been given one.              *)
WaitersAreServed ==
  /\ \A b \in Buffers :
       /\ \A p \in ToSet(queue[Writers[b]]) \cap Undisturbed :
            state[p] = "WAITING" /\ call[p] = "SEND_BUFFER"
       /\ \A p \in ToSet(queue[Readers[b]]) \cap Undisturbed :
            state[p] = "WAITING" /\ call[p] = "RECEIVE_BUFFER"
  /\ exec = "proc" /\ call[current] \in Waits /\ current \in Undisturbed =>
       /\ current \in served
       /\ letter[current] # None
=============================================================================
