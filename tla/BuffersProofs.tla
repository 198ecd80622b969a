----------------------------- MODULE BuffersProofs -----------------------------
(***************************************************************************)
(* Proofs about Buffers for any number of processes and buffers, any       *)
(* capacities, messages, time-outs and set of services.                    *)
(***************************************************************************)
EXTENDS Buffers, ProcessesProofs

LEMMA BufConstants ==
  /\ Buffers \subseteq Nat
  /\ \A b \in Buffers : /\ MaxNbMessage[b] \in Nat \ {0}
                        /\ Readers[b] \in Resources /\ Writers[b] \in Resources
  /\ BufferQueues \subseteq Resources
  /\ Waits \subseteq Doing
  BY BuffersAssumption DEF Buffers, BufferQueues, Waits, Doing

(***************************************************************************)
(* The rings: counters, indices, and who waits                             *)
(***************************************************************************)

(* Counters and indices are in range, and the write index is where the     *)
(* messages end.                                                           *)
RingInv ==
  /\ nb \in [Buffers -> Nat]
  /\ read_index \in [Buffers -> Nat]
  /\ write_index \in [Buffers -> Nat]
  /\ DOMAIN data = Buffers
  /\ \A b \in Buffers :
       /\ nb[b] <= MaxNbMessage[b]
       /\ read_index[b] \in 0 .. MaxNbMessage[b] - 1
       /\ write_index[b] = (read_index[b] + nb[b]) % MaxNbMessage[b]
       /\ data[b] \in [0 .. MaxNbMessage[b] - 1 -> Messages \cup {None}]
  /\ size \in [SizeSlots -> {Length[m] : m \in Messages \cup {None}}]
  /\ letter \in [Procs -> Messages \cup {None}]

LEMMA InitRing == BufInit => RingInv
  <1> SUFFICES ASSUME BufInit PROVE RingInv
    OBVIOUS
  <1>1. ASSUME NEW b \in Buffers PROVE (0 + 0) % MaxNbMessage[b] = 0
    <2> DEFINE m == MaxNbMessage[b]
    <2>1. m \in Nat \ {0}
      BY BufConstants
    <2> HIDE DEF m
    <2>2. 0 \in 0 .. m - 1 /\ 0 = m * 0 + 0 /\ 0 + 0 = 0
      BY <2>1
    <2>3. 0 % m = 0
      BY <2>1, <2>2, RemainderIs
    <2> QED
      BY <2>2, <2>3 DEF m
  <1>2. \A b \in Buffers : data[b] = [i \in 0 .. MaxNbMessage[b] - 1 |-> None]
    BY DEF BufInit
  <1>3. /\ nb \in [Buffers -> Nat]
        /\ read_index \in [Buffers -> Nat]
        /\ write_index \in [Buffers -> Nat]
        /\ DOMAIN data = Buffers
        /\ size \in [SizeSlots -> {Length[m] : m \in Messages \cup {None}}]
        /\ letter \in [Procs -> Messages \cup {None}]
    BY DEF BufInit
  <1>4. \A b \in Buffers : nb[b] = 0 /\ read_index[b] = 0 /\ write_index[b] = 0
    BY DEF BufInit
  <1>5. ASSUME NEW b \in Buffers
        PROVE  /\ nb[b] <= MaxNbMessage[b]
               /\ read_index[b] \in 0 .. MaxNbMessage[b] - 1
               /\ write_index[b] = (read_index[b] + nb[b]) % MaxNbMessage[b]
               /\ data[b] \in [0 .. MaxNbMessage[b] - 1 -> Messages \cup {None}]
    <2>1. MaxNbMessage[b] \in Nat \ {0}
      BY BufConstants
    <2>2. data[b] \in [0 .. MaxNbMessage[b] - 1 -> Messages \cup {None}]
      BY <1>2
    <2>3. nb[b] = 0 /\ read_index[b] = 0 /\ write_index[b] = 0
      BY <1>4
    <2>4. write_index[b] = (read_index[b] + nb[b]) % MaxNbMessage[b]
      BY <1>1, <2>3, Zenon
    <2> QED
      BY <2>1, <2>2, <2>3, <2>4
  <1> QED
    BY <1>3, <1>5 DEF RingInv

LEMMA FollowingRange ==
  ASSUME NEW b \in Buffers, NEW i \in Nat
  PROVE  Following(b, i) \in 0 .. MaxNbMessage[b] - 1
  <1>1. i + 1 \in Int /\ MaxNbMessage[b] \in Nat \ {0}
    BY BufConstants
  <1> QED
    BY <1>1, ModRange DEF Following

LEMMA WriteIndexRange ==
  ASSUME RingInv, NEW b \in Buffers
  PROVE  write_index[b] \in 0 .. MaxNbMessage[b] - 1
  <1>1. read_index[b] + nb[b] \in Int
    BY DEF RingInv
  <1> QED
    BY <1>1, BufConstants, ModRange DEF RingInv

LEMMA SizeSlotIn ==
  ASSUME NEW b \in Buffers, NEW i \in 0 .. MaxNbMessage[b] - 1
  PROVE  SizeSlot(b, i) \in SizeSlots
  BY DEF SizeSlots

(* What storing a message does, when the write index follows the messages. *)
LEMMA StoreFacts ==
  ASSUME RingInv, NEW b \in Buffers, NEW m \in Messages \cup {None}, Store(b, m)
  PROVE  /\ DOMAIN data' = Buffers
         /\ \A c \in Buffers : data'[c] \in [0 .. MaxNbMessage[c] - 1 -> Messages \cup {None}]
         /\ \A c \in Buffers \ {b} : data'[c] = data[c]
         /\ \A i \in 0 .. MaxNbMessage[b] - 1 :
              data'[b][i] = IF i = write_index[b] THEN m ELSE data[b][i]
         /\ size' \in [SizeSlots -> {Length[x] : x \in Messages \cup {None}}]
         /\ \A i \in SizeSlots :
              size'[i] = IF i = SizeSlot(b, write_index[b]) THEN Length[m] ELSE size[i]
         /\ write_index' \in [Buffers -> Nat]
         /\ \A c \in Buffers \ {b} : write_index'[c] = write_index[c]
         /\ write_index'[b] = (write_index[b] + 1) % MaxNbMessage[b]
  <1> DEFINE w == write_index[b]
             k == SizeSlot(b, w)
             f == Following(b, w)
  <1>1. w \in 0 .. MaxNbMessage[b] - 1
    BY WriteIndexRange
  <1>2. k \in SizeSlots
    BY <1>1, SizeSlotIn
  <1>3. f \in Nat /\ f = (w + 1) % MaxNbMessage[b]
    BY <1>1, FollowingRange, BufConstants DEF Following
  <1>4. /\ data' = [data EXCEPT ![b] = [data[b] EXCEPT ![w] = m]]
        /\ size' = [size EXCEPT ![k] = Length[m]]
        /\ write_index' = [write_index EXCEPT ![b] = f]
    BY DEF Store
  <1> HIDE DEF w, k, f
  <1>5. [data[b] EXCEPT ![w] = m] \in [0 .. MaxNbMessage[b] - 1 -> Messages \cup {None}]
    BY <1>1 DEF RingInv
  <1>6. /\ DOMAIN data' = Buffers
        /\ data'[b] = [data[b] EXCEPT ![w] = m]
        /\ \A c \in Buffers \ {b} : data'[c] = data[c]
    BY <1>4 DEF RingInv
  <1>7. \A i \in 0 .. MaxNbMessage[b] - 1 : data'[b][i] = IF i = w THEN m ELSE data[b][i]
    BY <1>6 DEF RingInv
  <1>8. /\ size' \in [SizeSlots -> {Length[x] : x \in Messages \cup {None}}]
        /\ \A i \in SizeSlots : size'[i] = IF i = k THEN Length[m] ELSE size[i]
    BY <1>2, <1>4 DEF RingInv
  <1>9. /\ write_index' \in [Buffers -> Nat]
        /\ \A c \in Buffers \ {b} : write_index'[c] = write_index[c]
        /\ write_index'[b] = f
    BY <1>3, <1>4 DEF RingInv
  <1>10. \A c \in Buffers : data'[c] \in [0 .. MaxNbMessage[c] - 1 -> Messages \cup {None}]
    BY <1>5, <1>6 DEF RingInv
  <1> QED
    BY <1>3, <1>6, <1>7, <1>8, <1>9, <1>10 DEF w, k

(* What waking a process writes.                                           *)
LEMMA WakeFacts ==
  ASSUME TypeOK, NEW q \in BufferQueues, queue[q] # <<>>, WakeFirst(q)
  PROVE  LET w == Head(queue[q])
         IN  /\ w \in Procs
             /\ w \in ToSet(queue[q])
             /\ queue' = [queue EXCEPT ![q] = Tail(queue[q])]
             /\ queue' \in [Resources -> Seq(Procs)]
             /\ tracked' = [tracked EXCEPT ![w] = tracked[w] \ BufferQueues]
             /\ tracked' \in [Procs -> SUBSET Resources]
             /\ state' = [state EXCEPT ![w] = "READY"]
             /\ timer' = [timer EXCEPT ![w] = Served(timer[w])]
             /\ state' \in [Procs -> States]
             /\ timer' \in [Procs -> Nat \cup {INFINITE, NoTimer}]
             /\ served' = served \cup {w}
  <1> DEFINE w == Head(queue[q])
  <1>1. q \in Resources /\ queue' = [queue EXCEPT ![q] = Tail(queue[q])]
    BY BufConstants DEF WakeFirst
  <1>2. w \in Procs /\ w \in ToSet(queue[q]) /\ queue' \in [Resources -> Seq(Procs)]
    BY <1>1, DequeueProperties
  <1>3. /\ tracked' = [tracked EXCEPT ![w] = tracked[w] \ BufferQueues]
        /\ state' = [state EXCEPT ![w] = "READY"]
        /\ timer' = [timer EXCEPT ![w] = Served(timer[w])]
        /\ served' = served \cup {w}
    BY DEF WakeFirst
  <1> HIDE DEF w
  <1>4. /\ tracked' \in [Procs -> SUBSET Resources]
        /\ state' \in [Procs -> States]
        /\ timer' \in [Procs -> Nat \cup {INFINITE, NoTimer}]
    BY <1>2, <1>3 DEF TypeOK, States, Served
  <1> QED
    BY <1>1, <1>2, <1>3, <1>4 DEF w

BufBase == SchedInv /\ served \subseteq Procs /\ disturbed \subseteq Procs

LEMMA WakeBase ==
  ASSUME BufBase, NEW q \in BufferQueues, queue[q] # <<>>, WakeFirst(q)
  PROVE  BufBase'
  <1>t. TypeOK /\ SchedInv
    BY DEF BufBase, SchedInv
  <1> DEFINE w == Head(queue[q])
  <1>1. /\ w \in Procs
        /\ queue' \in [Resources -> Seq(Procs)]
        /\ tracked' \in [Procs -> SUBSET Resources]
        /\ state' = [state EXCEPT ![w] = "READY"]
        /\ timer' = [timer EXCEPT ![w] = Served(timer[w])]
        /\ state' \in [Procs -> States]
        /\ timer' \in [Procs -> Nat \cup {INFINITE, NoTimer}]
        /\ served' = served \cup {w}
    BY <1>t, WakeFacts
  <1>2. /\ exec' = "os"
        /\ UNCHANGED <<mode, current, order, tick_pending, priority, suspended,
                       release, init_delay, grid, call, owned, disturbed>>
    BY DEF WakeFirst, yield_to_partition
  <1> HIDE DEF w
  <1>3. TypeOK'
    BY <1>t, <1>1, <1>2 DEF TypeOK
  <1>4. Yields /\ TimersCleared
    BY <1>t, <1>1, <1>2 DEF TypeOK, Yields, TimersCleared
  <1>5. SchedInv'
    BY <1>t, <1>3, <1>4, ServicesKeepSched DEF SchedInv
  <1> QED
    BY <1>1, <1>2, <1>5 DEF BufBase

LEMMA AwaitBase ==
  ASSUME BufBase, current \in Procs, NEW b \in Buffers, NEW q \in BufferQueues,
         NEW t \in Timeouts, NEW plain \in Waits, NEW timed \in Waits,
         AwaitBuffer(b, q, t, plain, timed)
  PROVE  BufBase'
  <1>t. TypeOK /\ SchedInv /\ q \in Resources
    BY BufConstants DEF BufBase, SchedInv
  <1> DEFINE sorted == q \in PriorityQueued
             ptrs == (tracked[current] \ BufferQueues) \cup {Readers[b], Writers[b]}
  <1>1. sorted \in BOOLEAN /\ ptrs \in SUBSET Resources /\ plain \in Doing /\ timed \in Doing
    BY <1>t, BufConstants DEF TypeOK
  <1>2. WaitFor(q, sorted, t, ptrs, plain, timed)
    BY DEF AwaitBuffer
  <1> HIDE DEF sorted, ptrs
  <1>3. TypeOK'
    BY <1>t, <1>1, <1>2, WaitForType
  <1>4. Yields /\ TimersCleared
    BY <1>t, <1>1, <1>2, WaitForYields
  <1>5. SchedInv'
    BY <1>t, <1>3, <1>4, ServicesKeepSched DEF SchedInv
  <1> QED
    BY <1>5 DEF BufBase, AwaitBuffer

LEMMA BufBaseStep == BufBase /\ [BufNext]_allVars => BufBase'
  <1> SUFFICES ASSUME BufBase, [BufNext]_allVars PROVE BufBase'
    OBVIOUS
  <1>t. TypeOK /\ SchedInv
    BY DEF BufBase, SchedInv
  <1>c. \A s : Calls(s) => current \in Procs
    BY <1>t, CallerRuns
  <1>w. {"SEND_BUFFER", "SEND_BUFFER_TIMED", "RECEIVE_BUFFER", "RECEIVE_BUFFER_TIMED"} = Waits
    BY DEF Waits
  <1>q. \A b \in Buffers : Readers[b] \in BufferQueues /\ Writers[b] \in BufferQueues
    BY DEF BufferQueues
  <1>u. ASSUME UNCHANGED <<vars, served, disturbed>> PROVE BufBase'
    <2>1. SchedInv'
      BY <1>t, <1>u, SchedStep
    <2> QED
      BY <1>u, <2>1 DEF BufBase
  <1>1. CASE ProcessStep
    <2>1. SchedInv'
      BY <1>1, <1>t, SchedStep DEF ProcessStep
    <2> QED
      BY <1>1, <2>1 DEF BufBase, ProcessStep
  <1>2. ASSUME NEW b \in Buffers, NEW m \in Messages, NEW t \in Timeouts, SEND_BUFFER(b, m, t)
        PROVE  BufBase'
    <2>1. CASE StoreMessage(b, m)
      BY <2>1, <1>u DEF StoreMessage
    <2>2. CASE PassToReader(b, m)
      BY <2>2, <1>q, WakeBase DEF PassToReader
    <2>3. CASE AwaitRoom(b, m, t)
      <3>1. AwaitBuffer(b, Writers[b], t, "SEND_BUFFER", "SEND_BUFFER_TIMED") /\ current \in Procs
        BY <1>2, <2>3, <1>c DEF SEND_BUFFER, AwaitRoom
      <3> QED
        BY <3>1, <1>q, <1>w, AwaitBase
    <2> QED
      BY <1>2, <2>1, <2>2, <2>3 DEF SEND_BUFFER
  <1>3. ASSUME NEW b \in Buffers, NEW t \in Timeouts, RECEIVE_BUFFER(b, t)
        PROVE  BufBase'
    <2>1. CASE TakeMessage(b)
      BY <2>1, <1>u DEF TakeMessage
    <2>2. CASE TakeAndRefill(b)
      BY <2>2, <1>q, WakeBase DEF TakeAndRefill
    <2>3. CASE AwaitMessage(b, t)
      <3>1. /\ AwaitBuffer(b, Readers[b], t, "RECEIVE_BUFFER", "RECEIVE_BUFFER_TIMED")
            /\ current \in Procs
        BY <1>3, <2>3, <1>c DEF RECEIVE_BUFFER, AwaitMessage
      <3> QED
        BY <3>1, <1>q, <1>w, AwaitBase
    <2> QED
      BY <1>3, <2>1, <2>2, <2>3 DEF RECEIVE_BUFFER
  <1>4. CASE Return
    <2>1. TypeOK'
      BY <1>4, <1>t, DoingContains DEF Return, TypeOK, schedVars, timeVars
    <2>2. UNCHANGED <<exec, current, state, timer, priority>>
      BY <1>4 DEF Return, schedVars, timeVars
    <2>3. SchedInv'
      BY <1>t, <2>1, <2>2 DEF SchedInv, RunningIsCurrent, PriorityRespected, DormantHasNoTimer
    <2> QED
      BY <1>4, <2>3 DEF BufBase, Return
  <1>5. CASE UNCHANGED allVars
    BY <1>5, <1>u DEF allVars, bufVars
  <1> QED
    BY <1>1, <1>2, <1>3, <1>4, <1>5 DEF BufNext

LEMMA BufBaseInvariant == BufSpec => []BufBase
  <1>1. BufInit => BufBase
    BY InitSched DEF BufInit, BufBase
  <1> QED
    BY <1>1, BufBaseStep, PTL DEF BufSpec

(* The three ways to change a ring, without the waiting processes.         *)
Adds(b, m) ==
  /\ nb[b] < MaxNbMessage[b]
  /\ Store(b, m)
  /\ nb' = [nb EXCEPT ![b] = nb[b] + 1]
  /\ read_index' = read_index

Takes(b) ==
  /\ nb[b] > 0
  /\ nb' = [nb EXCEPT ![b] = nb[b] - 1]
  /\ read_index' = [read_index EXCEPT ![b] = Following(b, read_index[b])]
  /\ UNCHANGED <<write_index, data, size>>

Refills(b, m) ==
  /\ nb[b] > 0
  /\ Store(b, m)
  /\ read_index' = [read_index EXCEPT ![b] = Following(b, read_index[b])]
  /\ nb' = nb

LEMMA LetterType ==
  ASSUME BufBase, RingInv, [BufNext]_allVars
  PROVE  letter' \in [Procs -> Messages \cup {None}]
  BY DEF RingInv, BufNext, ProcessStep, SEND_BUFFER, StoreMessage, PassToReader, AwaitRoom,
    RECEIVE_BUFFER, TakeMessage, TakeAndRefill, AwaitMessage, Return, allVars, bufVars

(* Every step leaves the rings alone or is one of the three.               *)
LEMMA RingSteps ==
  ASSUME BufBase, RingInv, [BufNext]_allVars
  PROVE  \/ UNCHANGED ringVars
         \/ \E b \in Buffers : \/ \E m \in Messages \cup {None} : Adds(b, m) \/ Refills(b, m)
                               \/ Takes(b)
  <1>1. CASE UNCHANGED ringVars
    BY <1>1
  <1>2. ASSUME NEW b \in Buffers, NEW m \in Messages, StoreMessage(b, m)
        PROVE  Adds(b, m)
    BY <1>2 DEF StoreMessage, Adds
  <1>3. ASSUME NEW b \in Buffers, TakeMessage(b)
        PROVE  Takes(b)
    BY <1>3 DEF TakeMessage, Takes
  <1>4. ASSUME NEW b \in Buffers, TakeAndRefill(b)
        PROVE  \E m \in Messages \cup {None} : Refills(b, m)
    <2>1. Writers[b] \in Resources /\ TypeOK
      BY BufConstants DEF BufBase, SchedInv
    <2>2. queue[Writers[b]] \in Seq(Procs) /\ queue[Writers[b]] # <<>>
      BY <1>4, <2>1 DEF TypeOK, TakeAndRefill
    <2>3. Head(queue[Writers[b]]) \in Procs
      BY <2>2, HeadTailProperties
    <2>4. letter[Head(queue[Writers[b]])] \in Messages \cup {None}
      BY <2>3 DEF RingInv
    <2>5. Refills(b, letter[Head(queue[Writers[b]])])
      BY <1>4 DEF TakeAndRefill, Refills
    <2> QED
      BY <2>4, <2>5
  <1> QED
    BY <1>1, <1>2, <1>3, <1>4
    DEF BufNext, ProcessStep, SEND_BUFFER, PassToReader, AwaitRoom, AwaitBuffer,
        RECEIVE_BUFFER, AwaitMessage, Return, allVars, bufVars

LEMMA RingStep ==
  ASSUME BufBase, RingInv, [BufNext]_allVars
  PROVE  RingInv'
  <1>l. letter' \in [Procs -> Messages \cup {None}]
    BY LetterType
  <1>1. CASE UNCHANGED ringVars
    BY <1>1, <1>l DEF RingInv, ringVars
  <1>2. ASSUME NEW b \in Buffers, NEW m \in Messages \cup {None}, Adds(b, m) PROVE RingInv'
    <2> DEFINE M == MaxNbMessage[b]
               r == read_index[b]
               n == nb[b]
               w == write_index[b]
    <2>1. M \in Nat \ {0} /\ r \in Nat /\ n \in Nat /\ r \in 0 .. M - 1 /\ w = (r + n) % M
      BY BufConstants DEF RingInv
    <2>2. n < M /\ nb' = [nb EXCEPT ![b] = n + 1] /\ read_index' = read_index
      BY <1>2 DEF Adds
    <2>3. write_index'[b] = (w + 1) % M
      BY <1>2, StoreFacts DEF Adds
    <2> HIDE DEF M, r, n, w
    <2>4. (((r + n) % M) + 1) % M = (r + (n + 1)) % M
      <3>1. r + n \in Int /\ (r + n) + 1 = r + (n + 1)
        BY <2>1
      <3>2. (((r + n) % M) + 1) % M = ((r + n) + 1) % M
        BY <2>1, <3>1, NextWraps
      <3> QED
        BY <3>1, <3>2
    <2>5. nb' \in [Buffers -> Nat] /\ nb'[b] = n + 1 /\ \A c \in Buffers \ {b} : nb'[c] = nb[c]
      BY <2>1, <2>2 DEF RingInv
    <2>6. ASSUME NEW c \in Buffers
          PROVE  /\ nb'[c] <= MaxNbMessage[c]
                 /\ read_index'[c] \in 0 .. MaxNbMessage[c] - 1
                 /\ write_index'[c] = (read_index'[c] + nb'[c]) % MaxNbMessage[c]
      <3>1. CASE c = b
        <4>1. nb'[c] = n + 1 /\ read_index'[c] = r /\ MaxNbMessage[c] = M
          BY <2>2, <2>5, <3>1 DEF r, M
        <4>2. write_index'[c] = (r + (n + 1)) % M
          BY <2>1, <2>3, <2>4, <3>1, Zenon
        <4>3. n + 1 <= M
          BY <2>1, <2>2
        <4> QED
          BY <2>1, <4>1, <4>2, <4>3
      <3>2. CASE c # b
        <4>1. write_index'[c] = write_index[c]
          BY <1>2, <3>2, StoreFacts DEF Adds
        <4> QED
          BY <2>2, <2>5, <3>2, <4>1 DEF RingInv
      <3> QED
        BY <3>1, <3>2
    <2> QED
      BY <1>2, <1>l, <2>2, <2>5, <2>6, StoreFacts DEF RingInv, Adds
  <1>3. ASSUME NEW b \in Buffers, Takes(b) \/ \E m \in Messages \cup {None} : Refills(b, m)
        PROVE  RingInv'
    <2> DEFINE M == MaxNbMessage[b]
               r == read_index[b]
               n == nb[b]
               w == write_index[b]
               s == (r + 1) % M
    <2>1. M \in Nat \ {0} /\ r \in Nat /\ n \in Nat /\ w = (r + n) % M /\ n <= M
      BY BufConstants DEF RingInv
    <2>2. n > 0 /\ read_index' = [read_index EXCEPT ![b] = s]
      BY <1>3 DEF Takes, Refills, Following
    <2>3. s \in 0 .. M - 1
      <3>1. r + 1 \in Int
        BY <2>1
      <3> HIDE DEF r, M
      <3> QED
        BY <2>1, <3>1, ModRange
    <2>4. \/ /\ nb' = [nb EXCEPT ![b] = n - 1]
             /\ UNCHANGED <<write_index, data, size>>
          \/ /\ nb' = nb
             /\ write_index'[b] = (w + 1) % M
             /\ \A c \in Buffers \ {b} : write_index'[c] = write_index[c]
             /\ \A c \in Buffers : data'[c] \in [0 .. MaxNbMessage[c] - 1 -> Messages \cup {None}]
             /\ DOMAIN data' = Buffers
             /\ size' \in [SizeSlots -> {Length[x] : x \in Messages \cup {None}}]
             /\ write_index' \in [Buffers -> Nat]
      BY <1>3, StoreFacts DEF Takes, Refills
    <2> HIDE DEF M, r, n, w, s
    <2>5. /\ read_index' \in [Buffers -> Nat]
          /\ read_index'[b] = s
          /\ \A c \in Buffers \ {b} : read_index'[c] = read_index[c]
      BY <2>2, <2>3 DEF RingInv
    <2>6. /\ nb' \in [Buffers -> Nat] /\ nb'[b] <= M
          /\ \A c \in Buffers \ {b} : nb'[c] = nb[c]
      <3>1. n - 1 \in Nat /\ n - 1 <= M
        BY <2>1, <2>2
      <3>2. CASE nb' = [nb EXCEPT ![b] = n - 1]
        <4> DEFINE k == n - 1
        <4>1. k \in Nat /\ k <= M /\ nb' = [nb EXCEPT ![b] = k]
          BY <3>1, <3>2
        <4> HIDE DEF k
        <4> QED
          BY <4>1 DEF RingInv
      <3>3. CASE nb' = nb
        BY <2>1, <3>3 DEF RingInv, n
      <3> QED
        BY <2>4, <3>2, <3>3
    <2>7. write_index'[b] = (s + nb'[b]) % M
      <3>1. CASE nb' = [nb EXCEPT ![b] = n - 1] /\ write_index' = write_index
        <4>1. nb'[b] = n - 1 /\ n - 1 \in Int
          BY <2>1, <3>1 DEF RingInv
        <4>2. r + 1 \in Int /\ (r + 1) + (n - 1) = r + n
          BY <2>1
        <4>3. (s + (n - 1)) % M = (r + n) % M
          <5>1. (((r + 1) % M) + (n - 1)) % M = ((r + 1) + (n - 1)) % M
            BY <2>1, <4>1, <4>2, WrapTwice
          <5> QED
            BY <4>2, <5>1 DEF s
        <4>4. write_index'[b] = (r + n) % M
          BY <2>1, <3>1 DEF w
        <4> QED
          BY <4>1, <4>3, <4>4, Zenon
      <3>2. CASE nb' = nb /\ write_index'[b] = (w + 1) % M
        <4>1. nb'[b] = n
          BY <3>2 DEF n
        <4>2. /\ r + 1 \in Int /\ r + n \in Int /\ n \in Int
              /\ (r + 1) + n = (r + n) + 1
          BY <2>1
        <4>3. (((r + n) % M) + 1) % M = ((r + n) + 1) % M
          BY <2>1, <4>2, NextWraps
        <4>4. (s + n) % M = (w + 1) % M
          <5>1. (((r + 1) % M) + n) % M = ((r + 1) + n) % M
            BY <2>1, <4>2, WrapTwice
          <5> QED
            BY <2>1, <4>2, <4>3, <5>1 DEF s
        <4> QED
          BY <3>2, <4>1, <4>4, Zenon
      <3> QED
        BY <2>4, <3>1, <3>2
    <2>8. ASSUME NEW c \in Buffers
          PROVE  /\ nb'[c] <= MaxNbMessage[c]
                 /\ read_index'[c] \in 0 .. MaxNbMessage[c] - 1
                 /\ write_index'[c] = (read_index'[c] + nb'[c]) % MaxNbMessage[c]
      <3>1. CASE c = b
        BY <2>3, <2>5, <2>6, <2>7, <3>1, Zenon DEF M
      <3>2. CASE c # b
        BY <2>4, <2>5, <2>6, <3>2 DEF RingInv
      <3> QED
        BY <3>1, <3>2
    <2> QED
      BY <1>l, <2>4, <2>5, <2>6, <2>8 DEF RingInv
  <1> QED
    BY <1>1, <1>2, <1>3, RingSteps

LEMMA RingInvariant == BufSpec => []RingInv
  BY InitRing, RingStep, BufBaseInvariant, PTL DEF BufSpec

(* NB_MESSAGE and the indices stay in the ring, whichever of the two       *)
(* queues a message bypasses it through, and process control blocks stay   *)
(* well formed.                                                            *)
THEOREM BuffersTypeCorrect == BufSpec => []BufTypeOK
  <1>1. ASSUME BufBase, RingInv PROVE BufTypeOK
    <2>1. \A b \in Buffers : nb[b] \in 0 .. MaxNbMessage[b]
      BY <1>1, BufConstants DEF RingInv
    <2>2. \A b \in Buffers : write_index[b] \in 0 .. MaxNbMessage[b] - 1
      BY <1>1, WriteIndexRange
    <2> QED
      BY <1>1, <2>1, <2>2 DEF BufBase, SchedInv, RingInv, BufTypeOK
  <1> QED
    BY <1>1, BufBaseInvariant, RingInvariant, PTL

(* A send that wakes a reader and a receive that wakes a writer yield:     *)
(* with buffers, too, the running process is never outranked by a READY    *)
(* one.                                                                    *)
THEOREM HighestPriorityRunsWithBuffers == BufSpec => []PriorityRespected
  <1>1. BufBase => PriorityRespected
    BY DEF BufBase, SchedInv
  <1> QED
    BY <1>1, BufBaseInvariant, PTL

LEMMA NoVainWaitStep ==
  ASSUME BufBase, RingInv, NobodyWaitsInVain, [BufNext]_allVars
  PROVE  NobodyWaitsInVain'
  <1> USE DEF NobodyWaitsInVain
  <1>t. /\ TypeOK /\ DOMAIN queue = Resources
        /\ nb \in [Buffers -> Nat]
        /\ \A b \in Buffers : /\ Readers[b] \in Resources /\ Writers[b] \in Resources
                              /\ MaxNbMessage[b] \in Nat \ {0} /\ nb[b] <= MaxNbMessage[b]
    BY BufConstants DEF BufBase, SchedInv, TypeOK, RingInv
  <1>d. \A b, c \in Buffers : /\ Readers[b] # Writers[c]
                              /\ Readers[b] = Readers[c] \/ Writers[b] = Writers[c] => b = c
    BY BuffersAssumption
  <1>1. CASE ProcessStep
    <2>1. Next /\ nb' = nb
      BY <1>1 DEF ProcessStep, ringVars
    <2> QED
      BY <2>1, <1>t, StepsKeepEmpty
  <1>2. ASSUME NEW b \in Buffers, NEW m \in Messages, NEW t \in Timeouts, SEND_BUFFER(b, m, t)
        PROVE  NobodyWaitsInVain'
    <2>1. CASE StoreMessage(b, m)
      <3>1. /\ queue' = queue /\ queue[Readers[b]] = <<>> /\ nb[b] < MaxNbMessage[b]
            /\ nb' = [nb EXCEPT ![b] = nb[b] + 1]
        BY <2>1 DEF StoreMessage, vars, waitVars
      <3> QED
        BY <1>t, <3>1
    <2>2. CASE PassToReader(b, m)
      <3>1. /\ nb' = nb /\ nb[b] < MaxNbMessage[b] /\ queue[Readers[b]] # <<>>
            /\ \A r \in Resources \ {Readers[b]} : queue'[r] = queue[r]
        BY <2>2, <1>t DEF PassToReader, WakeFirst, ringVars
      <3>2. nb[b] = 0
        BY <1>t, <3>1
      <3> QED
        BY <1>t, <1>d, <3>1, <3>2
    <2>3. CASE AwaitRoom(b, m, t)
      <3>1. /\ nb' = nb /\ nb[b] >= MaxNbMessage[b]
            /\ \A r \in Resources \ {Writers[b]} : queue'[r] = queue[r]
        BY <2>3, <1>t DEF AwaitRoom, AwaitBuffer, WaitFor, EnqueueBy, ringVars
      <3> QED
        BY <1>t, <1>d, <3>1
    <2> QED
      BY <1>2, <2>1, <2>2, <2>3 DEF SEND_BUFFER
  <1>3. ASSUME NEW b \in Buffers, NEW t \in Timeouts, RECEIVE_BUFFER(b, t)
        PROVE  NobodyWaitsInVain'
    <2>1. CASE TakeMessage(b)
      <3>1. /\ queue' = queue /\ queue[Writers[b]] = <<>> /\ nb[b] > 0
            /\ nb' = [nb EXCEPT ![b] = nb[b] - 1]
        BY <2>1 DEF TakeMessage, vars, waitVars
      <3> QED
        BY <1>t, <3>1
    <2>2. CASE TakeAndRefill(b)
      <3>1. /\ nb' = nb /\ nb[b] > 0 /\ queue[Writers[b]] # <<>>
            /\ \A r \in Resources \ {Writers[b]} : queue'[r] = queue[r]
        BY <2>2, <1>t DEF TakeAndRefill, WakeFirst
      <3>2. ~(nb[b] < MaxNbMessage[b])
        BY <3>1
      <3> QED
        BY <1>t, <1>d, <3>1, <3>2
    <2>3. CASE AwaitMessage(b, t)
      <3>1. /\ nb' = nb /\ nb[b] = 0
            /\ \A r \in Resources \ {Readers[b]} : queue'[r] = queue[r]
        BY <2>3, <1>t DEF AwaitMessage, AwaitBuffer, WaitFor, EnqueueBy, ringVars
      <3> QED
        BY <1>t, <1>d, <3>1
    <2> QED
      BY <1>3, <2>1, <2>2, <2>3 DEF RECEIVE_BUFFER
  <1>4. CASE Return
    BY <1>4 DEF Return, ringVars
  <1>5. CASE UNCHANGED allVars
    BY <1>5 DEF allVars, vars, waitVars, bufVars, ringVars
  <1> QED
    BY <1>1, <1>2, <1>3, <1>4, <1>5 DEF BufNext

(* No reader is queued while the buffer holds a message, and no writer     *)
(* while it has room, whoever was stopped, suspended or timed out: so no   *)
(* message overtakes an older one by bypassing the ring.                   *)
THEOREM BuffersServeAtOnce == BufSpec => []NobodyWaitsInVain
  <1>1. BufInit => NobodyWaitsInVain
    BY BufConstants DEF BufInit, Init, NobodyWaitsInVain
  <1>2. BufBase /\ RingInv /\ NobodyWaitsInVain /\ [BufNext]_allVars => NobodyWaitsInVain'
    BY NoVainWaitStep
  <1> QED
    BY <1>1, <1>2, BufBaseInvariant, RingInvariant, PTL DEF BufSpec

(***************************************************************************)
(* The rings are bounded FIFOs                                             *)
(***************************************************************************)

(* No two buffers share an entry of buffers_size_data.  CREATE_BUFFER does *)
(* not guarantee it for buffers of different lengths, since the region of  *)
(* buffer i begins at i times its own MAX_NB_MESSAGE.                      *)
SeparateSizes ==
  \A b, c \in Buffers :
    b # c => \A i \in 0 .. MaxNbMessage[b] - 1, j \in 0 .. MaxNbMessage[c] - 1 :
               SizeSlot(b, i) # SizeSlot(c, j)

(* A message with its own length.                                          *)
Whole(m) == [data |-> m, size |-> Length[m]]

LEMMA WholeInSlots == \A m \in Messages \cup {None} : Whole(m) \in Slots
  BY DEF Whole, Slots

(* The n messages from slot r of a ring with bytes d and lengths z.        *)
Ring(b, n, r, d, z) ==
  [i \in 1 .. n |->
     LET slot == (r + i - 1) % MaxNbMessage[b]
     IN  [data |-> d[slot], size |-> z[SizeSlot(b, slot)]]]

LEMMA RingContents ==
  ASSUME NEW b \in Buffers, NEW n \in Nat, NEW r \in 0 .. MaxNbMessage[b] - 1,
         NEW d \in [0 .. MaxNbMessage[b] - 1 -> Messages \cup {None}],
         NEW z \in [SizeSlots -> {Length[m] : m \in Messages \cup {None}}]
  PROVE  /\ Ring(b, n, r, d, z) \in Seq(Slots)
         /\ Len(Ring(b, n, r, d, z)) = n
         /\ \A i \in 1 .. n :
              /\ (r + i - 1) % MaxNbMessage[b] \in 0 .. MaxNbMessage[b] - 1
              /\ Ring(b, n, r, d, z)[i] =
                   [data |-> d[(r + i - 1) % MaxNbMessage[b]],
                    size |-> z[SizeSlot(b, (r + i - 1) % MaxNbMessage[b])]]
  <1> DEFINE M == MaxNbMessage[b]
             s == Ring(b, n, r, d, z)
  <1>1. M \in Nat \ {0}
    BY BufConstants
  <1> HIDE DEF M
  <1>2. ASSUME NEW i \in 1 .. n
        PROVE  (r + i - 1) % M \in 0 .. M - 1
    <2>1. r + i - 1 \in Int
      BY DEF M
    <2> QED
      BY <1>1, <2>1, ModRange
  <1>3. ASSUME NEW k \in 0 .. M - 1
        PROVE  [data |-> d[k], size |-> z[SizeSlot(b, k)]] \in Slots
    <2>1. SizeSlot(b, k) \in SizeSlots
      BY SizeSlotIn DEF M
    <2> QED
      BY <2>1 DEF M, Slots
  <1>4. /\ \A i \in 1 .. n : s[i] = [data |-> d[(r + i - 1) % M],
                                     size |-> z[SizeSlot(b, (r + i - 1) % M)]]
        /\ s = [i \in 1 .. n |-> s[i]]
    BY DEF M, Ring
  <1> HIDE DEF s
  <1>5. s \in [1 .. n -> Slots]
    BY <1>2, <1>3, <1>4
  <1>6. s \in Seq(Slots) /\ Len(s) = n
    BY <1>5, FunctionIsSeq
  <1> QED
    BY <1>2, <1>4, <1>6 DEF M, s

(* The messages in buffer b before and after a step.                       *)
LEMMA ContentsFacts ==
  ASSUME RingInv, NEW b \in Buffers
  PROVE  /\ Contents(b) \in Seq(Slots)
         /\ Len(Contents(b)) = nb[b]
         /\ \A i \in 1 .. nb[b] :
              /\ (read_index[b] + i - 1) % MaxNbMessage[b] \in 0 .. MaxNbMessage[b] - 1
              /\ Contents(b)[i] =
                   [data |-> data[b][(read_index[b] + i - 1) % MaxNbMessage[b]],
                    size |-> size[SizeSlot(b, (read_index[b] + i - 1) % MaxNbMessage[b])]]
  <1>1. /\ nb[b] \in Nat /\ read_index[b] \in 0 .. MaxNbMessage[b] - 1
        /\ data[b] \in [0 .. MaxNbMessage[b] - 1 -> Messages \cup {None}]
        /\ size \in [SizeSlots -> {Length[m] : m \in Messages \cup {None}}]
    BY DEF RingInv
  <1>2. Contents(b) = Ring(b, nb[b], read_index[b], data[b], size)
    BY DEF Contents, Ring
  <1> QED
    BY <1>1, <1>2, RingContents

LEMMA NextContentsFacts ==
  ASSUME RingInv', NEW b \in Buffers
  PROVE  /\ Contents(b)' \in Seq(Slots)
         /\ Len(Contents(b)') = nb'[b]
         /\ \A i \in 1 .. nb'[b] :
              /\ (read_index'[b] + i - 1) % MaxNbMessage[b] \in 0 .. MaxNbMessage[b] - 1
              /\ Contents(b)'[i] =
                   [data |-> data'[b][(read_index'[b] + i - 1) % MaxNbMessage[b]],
                    size |-> size'[SizeSlot(b, (read_index'[b] + i - 1) % MaxNbMessage[b])]]
  <1>1. /\ nb'[b] \in Nat /\ read_index'[b] \in 0 .. MaxNbMessage[b] - 1
        /\ data'[b] \in [0 .. MaxNbMessage[b] - 1 -> Messages \cup {None}]
        /\ size' \in [SizeSlots -> {Length[m] : m \in Messages \cup {None}}]
    BY DEF RingInv
  <1>2. Contents(b)' = Ring(b, nb'[b], read_index'[b], data'[b], size')
    BY DEF Contents, Ring
  <1> QED
    BY <1>1, <1>2, RingContents

(* A step that changes the ring of another buffer.                         *)
LEMMA OtherContents ==
  ASSUME SeparateSizes, RingInv, RingInv', NEW b \in Buffers, NEW c \in Buffers \ {b},
         nb'[c] = nb[c], read_index'[c] = read_index[c], data'[c] = data[c],
         \A i \in SizeSlots : i # SizeSlot(b, write_index[b]) => size'[i] = size[i]
  PROVE  Contents(c)' = Contents(c)
  <1>1. write_index[b] \in 0 .. MaxNbMessage[b] - 1
    BY WriteIndexRange
  <1>2. \A k \in 0 .. MaxNbMessage[c] - 1 :
          SizeSlot(c, k) \in SizeSlots /\ SizeSlot(c, k) # SizeSlot(b, write_index[b])
    BY <1>1, SizeSlotIn DEF SeparateSizes
  <1>3. ASSUME NEW i \in 1 .. Len(Contents(c)) PROVE Contents(c)'[i] = Contents(c)[i]
    <2> DEFINE k == (read_index[c] + i - 1) % MaxNbMessage[c]
    <2>1. i \in 1 .. nb[c] /\ i \in 1 .. nb'[c]
      BY ContentsFacts
    <2>2. /\ k \in 0 .. MaxNbMessage[c] - 1
          /\ Contents(c)[i] = [data |-> data[c][k], size |-> size[SizeSlot(c, k)]]
      BY <2>1, ContentsFacts
    <2>3. Contents(c)'[i] = [data |-> data'[c][k], size |-> size'[SizeSlot(c, k)]]
      BY <2>1, NextContentsFacts
    <2> HIDE DEF k
    <2> QED
      BY <1>2, <2>2, <2>3
  <1>4. /\ Contents(c) \in Seq(Slots) /\ Contents(c)' \in Seq(Slots)
        /\ Len(Contents(c)) = Len(Contents(c)')
    BY ContentsFacts, NextContentsFacts
  <1> QED
    BY <1>3, <1>4, SeqEqual

(* An added message is the last one.                                       *)
LEMMA AddsContents ==
  ASSUME RingInv, RingInv', NEW b \in Buffers, NEW m \in Messages \cup {None}, Adds(b, m)
  PROVE  Contents(b)' = Append(Contents(b), Whole(m))
  <1> DEFINE M == MaxNbMessage[b]
             r == read_index[b]
             n == nb[b]
             w == write_index[b]
             C == Contents(b)
             A == Append(C, Whole(m))
             slot(i) == (r + i - 1) % M
  <1>1. /\ M \in Nat \ {0} /\ r \in Nat /\ n \in Nat /\ w = (r + n) % M /\ n < M
        /\ w \in 0 .. M - 1
    BY BufConstants, WriteIndexRange DEF RingInv, Adds
  <1>2. nb'[b] = n + 1 /\ read_index'[b] = r
    BY DEF Adds, RingInv
  <1>3. /\ C \in Seq(Slots) /\ Len(C) = n
        /\ \A i \in 1 .. n : /\ slot(i) \in 0 .. M - 1
                             /\ C[i] = [data |-> data[b][slot(i)],
                                        size |-> size[SizeSlot(b, slot(i))]]
    BY ContentsFacts
  <1>4. /\ C' \in Seq(Slots) /\ Len(C') = n + 1
        /\ \A i \in 1 .. n + 1 : /\ slot(i) \in 0 .. M - 1
                                 /\ C'[i] = [data |-> data'[b][slot(i)],
                                             size |-> size'[SizeSlot(b, slot(i))]]
    BY <1>2, NextContentsFacts
  <1>5. /\ A \in Seq(Slots) /\ Len(A) = n + 1 /\ A[n + 1] = Whole(m)
        /\ \A i \in 1 .. n : A[i] = C[i]
    <2> HIDE DEF C
    <2> QED
      BY <1>3, WholeInSlots, AppendProperties
  <1>6. /\ \A i \in 0 .. M - 1 : data'[b][i] = IF i = w THEN m ELSE data[b][i]
        /\ \A i \in SizeSlots : size'[i] = IF i = SizeSlot(b, w) THEN Length[m] ELSE size[i]
    BY StoreFacts DEF Adds
  <1>7. \A k \in 0 .. M - 1 : SizeSlot(b, k) \in SizeSlots /\ (SizeSlot(b, k) = SizeSlot(b, w) <=> k = w)
    <2>1. b \in Nat /\ b * M \in Int
      BY <1>1, BufConstants
    <2> QED
      BY <1>1, <2>1, SizeSlotIn DEF SizeSlot
  <1> DEFINE D == C'
  <1> HIDE DEF C, A, D
  <1>8. ASSUME NEW i \in 1 .. n PROVE D[i] = A[i]
    <2> DEFINE k == slot(i)
    <2>1. k \in 0 .. M - 1 /\ C[i] = [data |-> data[b][k], size |-> size[SizeSlot(b, k)]]
      BY <1>3
    <2>2. D[i] = [data |-> data'[b][k], size |-> size'[SizeSlot(b, k)]]
      BY <1>1, <1>4 DEF D
    <2>3. k # w
      <3> DEFINE x == r + i - 1
                 y == r + n
      <3>1. x \in Int /\ y \in Int /\ x < y /\ y - x < M
        BY <1>1
      <3> HIDE DEF x, y, M
      <3>2. x % M # y % M
        BY <1>1, <3>1, SlotsDiffer
      <3> QED
        BY <1>1, <3>2 DEF x, y
    <2> HIDE DEF k
    <2> QED
      BY <1>5, <1>6, <1>7, <2>1, <2>2, <2>3
  <1>9. D[n + 1] = A[n + 1]
    <2>1. slot(n + 1) = w
      <3>1. r + (n + 1) - 1 = r + n
        BY <1>1
      <3> QED
        BY <1>1, <3>1
    <2>2. D[n + 1] = [data |-> data'[b][w], size |-> size'[SizeSlot(b, w)]]
      <3>1. n + 1 \in 1 .. n + 1
        BY <1>1
      <3> QED
        BY <1>4, <2>1, <3>1 DEF D
    <2> QED
      BY <1>1, <1>5, <1>6, <1>7, <2>2 DEF Whole
  <1>10. \A i \in 1 .. n + 1 : D[i] = A[i]
    BY <1>1, <1>8, <1>9
  <1> QED
    BY <1>4, <1>5, <1>10, SeqEqual DEF D, C, A

(* A receiver takes the first message.                                     *)
LEMMA TakesContents ==
  ASSUME RingInv, RingInv', NEW b \in Buffers, Takes(b)
  PROVE  Contents(b) # <<>> /\ Contents(b)' = Tail(Contents(b))
  <1> DEFINE M == MaxNbMessage[b]
             r == read_index[b]
             n == nb[b]
             C == Contents(b)
             D == Contents(b)'
             T == Tail(C)
  <1>1. M \in Nat \ {0} /\ r \in Nat /\ n \in Nat /\ n > 0
    BY BufConstants DEF RingInv, Takes
  <1>2. /\ nb'[b] = n - 1 /\ read_index'[b] = (r + 1) % M
        /\ data'[b] = data[b] /\ size' = size
    BY DEF Takes, RingInv, Following
  <1>3. /\ C \in Seq(Slots) /\ Len(C) = n
        /\ \A i \in 1 .. n : C[i] = [data |-> data[b][(r + i - 1) % M],
                                     size |-> size[SizeSlot(b, (r + i - 1) % M)]]
    BY ContentsFacts
  <1>4. /\ D \in Seq(Slots) /\ Len(D) = n - 1
        /\ \A i \in 1 .. n - 1 :
             D[i] = [data |-> data[b][(((r + 1) % M) + i - 1) % M],
                     size |-> size[SizeSlot(b, (((r + 1) % M) + i - 1) % M)]]
    BY <1>2, NextContentsFacts, Zenon
  <1> HIDE DEF C, D
  <1>5. C # <<>>
    BY <1>1, <1>3, EmptySeq
  <1>6. T \in Seq(Slots) /\ Len(T) = n - 1 /\ \A i \in 1 .. n - 1 : T[i] = C[i + 1]
    BY <1>3, <1>5, HeadTailProperties
  <1> HIDE DEF T
  <1>7. ASSUME NEW i \in 1 .. n - 1 PROVE D[i] = T[i]
    <2>1. i \in Nat \ {0} /\ i + 1 \in 1 .. n
      BY <1>1
    <2>2. (((r + 1) % M) + i - 1) % M = (r + (i + 1) - 1) % M
      BY <1>1, <2>1, NextSlot
    <2>3. C[i + 1] = [data |-> data[b][(r + (i + 1) - 1) % M],
                      size |-> size[SizeSlot(b, (r + (i + 1) - 1) % M)]]
      BY <1>3, <2>1
    <2> QED
      BY <1>4, <1>6, <2>2, <2>3
  <1> QED
    BY <1>4, <1>5, <1>6, <1>7, SeqEqual DEF C, D, T

(* A receiver that makes room takes the first message, and the first       *)
(* writer's message becomes the last.                                      *)
LEMMA RefillsContents ==
  ASSUME RingInv, RingInv', NEW b \in Buffers, NEW m \in Messages \cup {None}, Refills(b, m)
  PROVE  /\ Contents(b) # <<>>
         /\ Contents(b)' = Append(Tail(Contents(b)), Whole(m))
  <1> DEFINE M == MaxNbMessage[b]
             r == read_index[b]
             n == nb[b]
             w == write_index[b]
             C == Contents(b)
             D == Contents(b)'
             T == Tail(C)
             A == Append(T, Whole(m))
  <1>1. /\ M \in Nat \ {0} /\ r \in Nat /\ n \in Nat /\ n > 0 /\ n <= M
        /\ w = (r + n) % M /\ w \in 0 .. M - 1
    BY BufConstants, WriteIndexRange DEF RingInv, Refills
  <1>2. nb'[b] = n /\ read_index'[b] = (r + 1) % M
    BY DEF Refills, RingInv, Following
  <1>3. /\ C \in Seq(Slots) /\ Len(C) = n
        /\ \A i \in 1 .. n : /\ (r + i - 1) % M \in 0 .. M - 1
                             /\ C[i] = [data |-> data[b][(r + i - 1) % M],
                                        size |-> size[SizeSlot(b, (r + i - 1) % M)]]
    BY ContentsFacts
  <1>4. /\ D \in Seq(Slots) /\ Len(D) = n
        /\ \A i \in 1 .. n :
             D[i] = [data |-> data'[b][(((r + 1) % M) + i - 1) % M],
                     size |-> size'[SizeSlot(b, (((r + 1) % M) + i - 1) % M)]]
    BY <1>2, NextContentsFacts, Zenon
  <1>5. /\ \A i \in 0 .. M - 1 : data'[b][i] = IF i = w THEN m ELSE data[b][i]
        /\ \A i \in SizeSlots : size'[i] = IF i = SizeSlot(b, w) THEN Length[m] ELSE size[i]
    BY StoreFacts DEF Refills
  <1>6. \A k \in 0 .. M - 1 : SizeSlot(b, k) \in SizeSlots /\ (SizeSlot(b, k) = SizeSlot(b, w) <=> k = w)
    <2>1. b \in Nat /\ b * M \in Int
      BY <1>1, BufConstants
    <2> QED
      BY <1>1, <2>1, SizeSlotIn DEF SizeSlot
  <1> HIDE DEF C, D
  <1>7. C # <<>>
    BY <1>1, <1>3, EmptySeq
  <1>8. T \in Seq(Slots) /\ Len(T) = n - 1 /\ \A i \in 1 .. n - 1 : T[i] = C[i + 1]
    BY <1>3, <1>7, HeadTailProperties
  <1> HIDE DEF T
  <1>9. A \in Seq(Slots) /\ Len(A) = n /\ A[n] = Whole(m) /\ \A i \in 1 .. n - 1 : A[i] = T[i]
    BY <1>1, <1>8, WholeInSlots, AppendProperties
  <1> HIDE DEF A
  <1>10. ASSUME NEW i \in 1 .. n - 1 PROVE D[i] = A[i]
    <2> DEFINE k == (r + (i + 1) - 1) % M
    <2>1. i \in Nat \ {0} /\ i + 1 \in 1 .. n /\ i \in 1 .. n
      BY <1>1
    <2>2. (((r + 1) % M) + i - 1) % M = k
      BY <1>1, <2>1, NextSlot
    <2>3. /\ k \in 0 .. M - 1
          /\ C[i + 1] = [data |-> data[b][k], size |-> size[SizeSlot(b, k)]]
      BY <1>3, <2>1
    <2>4. D[i] = [data |-> data'[b][k], size |-> size'[SizeSlot(b, k)]]
      BY <1>4, <2>1, <2>2
    <2>5. k # w
      <3> DEFINE x == r + (i + 1) - 1
                 y == r + n
      <3>1. x \in Int /\ y \in Int /\ x < y /\ y - x < M
        BY <1>1
      <3> HIDE DEF x, y, M
      <3>2. x % M # y % M
        BY <1>1, <3>1, SlotsDiffer
      <3> QED
        BY <1>1, <3>2 DEF x, y
    <2> HIDE DEF k
    <2> QED
      BY <1>5, <1>6, <1>8, <1>9, <2>3, <2>4, <2>5
  <1>11. D[n] = A[n]
    <2>1. n \in Nat \ {0} /\ n \in 1 .. n /\ r + (n + 1) - 1 = r + n
      BY <1>1
    <2>2. (((r + 1) % M) + n - 1) % M = w
      <3>1. (((r + 1) % M) + n - 1) % M = (r + (n + 1) - 1) % M
        BY <1>1, <2>1, NextSlot
      <3> QED
        BY <1>1, <2>1, <3>1
    <2>3. D[n] = [data |-> data'[b][w], size |-> size'[SizeSlot(b, w)]]
      BY <1>4, <2>1, <2>2
    <2> QED
      BY <1>1, <1>5, <1>6, <1>9, <2>3 DEF Whole
  <1>12. \A i \in 1 .. n : D[i] = A[i]
    BY <1>1, <1>10, <1>11
  <1> QED
    BY <1>4, <1>7, <1>9, <1>12, SeqEqual DEF C, D, T, A

(* Every step of the buffers is a step of bounded FIFOs or leaves them     *)
(* alone.                                                                  *)
LEMMA StepOfFIFOs ==
  ASSUME SeparateSizes, BufBase, RingInv, [BufNext]_allVars
  PROVE  [FIFO!Next]_([b \in Buffers |-> Contents(b)])
  <1> DEFINE F == [b \in Buffers |-> Contents(b)]
             G == [b \in Buffers |-> Contents(b)']
  <1>r. RingInv'
    BY RingStep
  <1>g. F' = G
    OBVIOUS
  <1>1. CASE UNCHANGED ringVars
    <2>1. \A b \in Buffers : Contents(b)' = Contents(b)
      BY <1>1 DEF ringVars, Contents
    <2>2. G = F
      BY <2>1
    <2> QED
      BY <1>g, <2>2
  <1>o. ASSUME NEW b \in Buffers, NEW v, Contents(b)' = v,
               \A c \in Buffers \ {b} : Contents(c)' = Contents(c)
        PROVE  G = [F EXCEPT ![b] = v]
    BY <1>o
  <1>2. ASSUME NEW b \in Buffers, NEW m \in Messages \cup {None}, Adds(b, m)
        PROVE  FIFO!Next
    <2>1. \A c \in Buffers \ {b} : Contents(c)' = Contents(c)
      <3>1. ASSUME NEW c \in Buffers \ {b} PROVE Contents(c)' = Contents(c)
        <4>1. nb'[c] = nb[c] /\ read_index'[c] = read_index[c]
          BY <1>2 DEF Adds, RingInv
        <4>2. /\ data'[c] = data[c]
              /\ \A i \in SizeSlots : i # SizeSlot(b, write_index[b]) => size'[i] = size[i]
          BY <1>2, StoreFacts DEF Adds
        <4> QED
          BY <1>r, <4>1, <4>2, OtherContents
      <3> QED
        BY <3>1
    <2>2. Contents(b)' = Append(Contents(b), Whole(m))
      BY <1>2, <1>r, AddsContents
    <2>3. G = [F EXCEPT ![b] = Append(Contents(b), Whole(m))]
      BY <1>o, <2>1, <2>2
    <2>4. F[b] = Contents(b) /\ Len(Contents(b)) < MaxNbMessage[b]
      BY <1>2, ContentsFacts DEF Adds
    <2>5. Whole(m) \in Slots
      BY WholeInSlots
    <2>6. FIFO!Accept(b, Whole(m))
      BY <1>g, <2>3, <2>4 DEF FIFO!Accept
    <2> QED
      BY <2>5, <2>6 DEF FIFO!Next
  <1>3. ASSUME NEW b \in Buffers, Takes(b)
        PROVE  FIFO!Next
    <2>1. \A c \in Buffers \ {b} : Contents(c)' = Contents(c)
      <3>1. ASSUME NEW c \in Buffers \ {b} PROVE Contents(c)' = Contents(c)
        BY <1>3, <1>r, OtherContents DEF Takes, RingInv
      <3> QED
        BY <3>1
    <2>2. Contents(b) # <<>> /\ Contents(b)' = Tail(Contents(b))
      BY <1>3, <1>r, TakesContents
    <2>3. G = [F EXCEPT ![b] = Tail(Contents(b))] /\ F[b] = Contents(b)
      BY <1>o, <2>1, <2>2
    <2>4. FIFO!Deliver(b)
      BY <1>g, <2>2, <2>3 DEF FIFO!Deliver
    <2> QED
      BY <2>4 DEF FIFO!Next
  <1>4. ASSUME NEW b \in Buffers, NEW m \in Messages \cup {None}, Refills(b, m)
        PROVE  FIFO!Next
    <2>1. \A c \in Buffers \ {b} : Contents(c)' = Contents(c)
      <3>1. ASSUME NEW c \in Buffers \ {b} PROVE Contents(c)' = Contents(c)
        <4>1. nb'[c] = nb[c] /\ read_index'[c] = read_index[c]
          BY <1>4 DEF Refills, RingInv
        <4>2. /\ data'[c] = data[c]
              /\ \A i \in SizeSlots : i # SizeSlot(b, write_index[b]) => size'[i] = size[i]
          BY <1>4, StoreFacts DEF Refills
        <4> QED
          BY <1>r, <4>1, <4>2, OtherContents
      <3> QED
        BY <3>1
    <2>2. /\ Contents(b) # <<>>
          /\ Contents(b)' = Append(Tail(Contents(b)), Whole(m))
      BY <1>4, <1>r, RefillsContents
    <2>3. /\ G = [F EXCEPT ![b] = Append(Tail(Contents(b)), Whole(m))]
          /\ F[b] = Contents(b)
      BY <1>o, <2>1, <2>2
    <2>4. Whole(m) \in Slots
      BY WholeInSlots
    <2>5. FIFO!Exchange(b, Whole(m))
      BY <1>g, <2>2, <2>3 DEF FIFO!Exchange
    <2> QED
      BY <2>4, <2>5 DEF FIFO!Next
  <1> QED
    BY <1>1, <1>2, <1>3, <1>4, RingSteps

(* If the regions of buffers_size_data do not overlap, each ring is a      *)
(* bounded FIFO: however many buffers and processes there are, and         *)
(* whichever waiting writers and readers take part in the copying, each    *)
(* message comes out once, in order and with its own length.               *)
THEOREM RingsAreFIFOs ==
  ASSUME SeparateSizes PROVE BufSpec => ImplementsFIFOs
  <1>1. BufInit => FIFO!Init
    <2> SUFFICES ASSUME BufInit PROVE FIFO!Init
      OBVIOUS
    <2>1. \A b \in Buffers : Contents(b) = <<>>
      <3>1. ASSUME NEW b \in Buffers PROVE Contents(b) = <<>>
        <4>1. Contents(b) \in Seq(Slots) /\ Len(Contents(b)) = 0
          BY InitRing, ContentsFacts DEF BufInit
        <4> HIDE DEF Contents
        <4> QED
          BY <4>1, EmptySeq
      <3> QED
        BY <3>1
    <2> QED
      BY <2>1 DEF FIFO!Init
  <1>2. BufBase /\ RingInv /\ [BufNext]_allVars => [FIFO!Next]_([b \in Buffers |-> Contents(b)])
    BY StepOfFIFOs
  <1> QED
    BY <1>1, <1>2, BufBaseInvariant, RingInvariant, PTL DEF BufSpec, ImplementsFIFOs, FIFO!Spec

(* Buffers of the same length do not overlap: where CREATE_BUFFER is given *)
(* one MAX_NB_MESSAGE for all, the rings are FIFOs without a hypothesis.   *)
THEOREM EqualRingsAreFIFOs ==
  ASSUME \A b, c \in Buffers : MaxNbMessage[b] = MaxNbMessage[c]
  PROVE  BufSpec => ImplementsFIFOs
  <1>1. SeparateSizes
    <2> SUFFICES ASSUME NEW b \in Buffers, NEW c \in Buffers, b # c,
                        NEW i \in 0 .. MaxNbMessage[b] - 1, NEW j \in 0 .. MaxNbMessage[c] - 1,
                        SizeSlot(b, i) = SizeSlot(c, j)
                 PROVE  FALSE
      BY DEF SeparateSizes
    <2> DEFINE M == MaxNbMessage[b]
    <2>1. /\ M \in Nat \ {0} /\ b \in Nat /\ c \in Nat /\ i \in 0 .. M - 1 /\ j \in 0 .. M - 1
          /\ b * M + i = c * M + j
      BY BufConstants DEF SizeSlot
    <2> HIDE DEF M
    <2>2. /\ (M * b + i) % M = i /\ (M * c + j) % M = j
      BY <2>1, RemainderIs
    <2>3. i = j
      BY <2>1, <2>2
    <2>4. M * (b - c) = 0
      BY <2>1, <2>3
    <2> QED
      BY <2>1, <2>4
  <1> QED
    BY <1>1, RingsAreFIFOs

(***************************************************************************)
(* Undisturbed processes                                                   *)
(***************************************************************************)

(* An undisturbed process in SEND_BUFFER or RECEIVE_BUFFER has been        *)
(* served, is stopped, or is on one queue, once, which its waiting_buffer  *)
(* pointer leads to.                                                       *)
Patient(p) ==
  /\ Calm(p)
  /\ p \in served => call[p] \in Waits /\ state[p] # "WAITING" /\ letter[p] # None
  /\ call[p] \in Waits => \/ p \in served
                          \/ state[p] = "DORMANT"
                          \/ \E q \in BufferQueues : p \in ToSet(queue[q])
  /\ \A b \in Buffers :
       /\ p \in ToSet(queue[Writers[b]]) => call[p] = "SEND_BUFFER" /\ letter[p] # None
       /\ p \in ToSet(queue[Readers[b]]) => call[p] = "RECEIVE_BUFFER"
  /\ \A q \in BufferQueues :
       p \in ToSet(queue[q]) =>
         /\ state[p] = "WAITING" /\ p \notin served /\ q \in tracked[p]
         /\ Once(queue[q], p)
         /\ \A r \in BufferQueues : p \in ToSet(queue[r]) => q = r

PatientInv == NoDelays /\ Unstarted /\ \A p \in Undisturbed : Patient(p)

LEMMA QueuesOfBuffers ==
  /\ \A b \in Buffers : Writers[b] \in BufferQueues /\ Readers[b] \in BufferQueues
  /\ \A q \in BufferQueues : q \in Resources
  /\ \A q \in BufferQueues : \E b \in Buffers : q = Writers[b] \/ q = Readers[b]
  /\ Waits \subseteq Blocking /\ "app" \notin Waits
  /\ "SEND_BUFFER" \in Waits /\ "RECEIVE_BUFFER" \in Waits
  <1>1. Waits \subseteq Blocking /\ "app" \notin Waits
        /\ "SEND_BUFFER" \in Waits /\ "RECEIVE_BUFFER" \in Waits
    BY DEF Waits, Blocking, Doing, RcOnly
  <1> QED
    BY <1>1, BufConstants DEF BufferQueues

LEMMA InitPatient == BufInit => PatientInv
  <1> SUFFICES ASSUME BufInit PROVE PatientInv
    OBVIOUS
  <1>1. ToSet(<<>>) = {}
    BY DEF ToSet
  <1>2. \A q \in BufferQueues : ToSet(queue[q]) = {}
    BY <1>1, QueuesOfBuffers DEF BufInit, Init
  <1>3. ASSUME NEW p \in Undisturbed PROVE Patient(p)
    <2>1. /\ p \in Procs /\ call[p] = "app" /\ p \notin served /\ ~suspended[p]
          /\ state[p] = "DORMANT" /\ timer[p] = NoTimer /\ init_delay[p] = 0
      BY DEF BufInit, Init, Undisturbed, Aperiodic
    <2> QED
      BY <1>2, <2>1, QueuesOfBuffers DEF Patient, Calm
  <1>4. NoDelays /\ Unstarted
    BY DEF BufInit, Init, NoDelays, Unstarted
  <1> QED
    BY <1>3, <1>4 DEF PatientInv

(* A step that leaves p and its places alone.                              *)
LEMMA PatientKept ==
  ASSUME NEW p, Patient(p), exec' = "main" => exec = "main",
         state'[p] = state[p], call'[p] = call[p], timer'[p] = timer[p],
         init_delay'[p] = init_delay[p], ~suspended'[p],
         letter'[p] = letter[p], tracked'[p] = tracked[p],
         p \in served' <=> p \in served,
         \A q \in BufferQueues : /\ p \in ToSet(queue'[q]) <=> p \in ToSet(queue[q])
                                 /\ Once(queue[q], p) => Once(queue'[q], p)
  PROVE  Patient(p)'
  <1>1. Calm(p)'
    BY DEF Patient, Calm
  <1>2. p \in served' => call'[p] \in Waits /\ state'[p] # "WAITING" /\ letter'[p] # None
    BY DEF Patient
  <1>3. call'[p] \in Waits => \/ p \in served'
                              \/ state'[p] = "DORMANT"
                              \/ \E q \in BufferQueues : p \in ToSet(queue'[q])
    BY DEF Patient
  <1>4. \A b \in Buffers :
          /\ p \in ToSet(queue'[Writers[b]]) => call'[p] = "SEND_BUFFER" /\ letter'[p] # None
          /\ p \in ToSet(queue'[Readers[b]]) => call'[p] = "RECEIVE_BUFFER"
    BY QueuesOfBuffers DEF Patient
  <1>5. ASSUME NEW q \in BufferQueues, p \in ToSet(queue'[q])
        PROVE  /\ state'[p] = "WAITING" /\ p \notin served' /\ q \in tracked'[p]
               /\ Once(queue'[q], p)
               /\ \A r \in BufferQueues : p \in ToSet(queue'[r]) => q = r
    BY <1>5 DEF Patient
  <1> QED
    BY <1>1, <1>2, <1>3, <1>4, <1>5 DEF Patient, Once

LEMMA ProcessStepPatient ==
  ASSUME NoStaleDelay, BufBase, PatientInv, ProcessStep, NEW p \in Undisturbed, ~suspended'[p]
  PROVE  Patient(p)'
  <1> USE QueuesOfBuffers
  <1>t. /\ TypeOK /\ SchedInv /\ NoDelays /\ Patient(p) /\ Calm(p)
        /\ p \in Procs /\ p \in Aperiodic
        /\ call \in [Procs -> Doing] /\ state \in [Procs -> States]
    BY DEF BufBase, SchedInv, PatientInv, Undisturbed, Aperiodic, Patient, TypeOK
  <1>n. Next /\ served' = {q \in served : call'[q] # "app"} /\ letter' = letter
    BY DEF ProcessStep
  <1>1. Calm(p)'
    BY <1>t, <1>n, CalmWhenStopped
  <1>2. \A q \in BufferQueues : /\ ToSet(queue'[q]) \subseteq ToSet(queue[q])
                                /\ Once(queue[q], p) => Once(queue'[q], p)
    BY <1>t, <1>n, StepsThinQueues, QueueThinned
  <1>s. /\ state'[p] = "DORMANT" => /\ call'[p] = call[p]
                                    /\ state[p] \in {"DORMANT", "RUNNING"} \/ STOP(p)
        /\ state[p] = "DORMANT" => state'[p] = "DORMANT" \/ call'[p] = "app"
    BY <1>t, <1>n, StopsAndStarts
  <1>e. ASSUME \A q \in BufferQueues : p \notin ToSet(queue'[q]),
               p \in served' => call'[p] \in Waits /\ state'[p] # "WAITING" /\ letter'[p] # None,
               call'[p] \in Waits => p \in served' \/ state'[p] = "DORMANT"
        PROVE  Patient(p)'
    BY <1>1, <1>e DEF Patient
  <1>3. CASE call[p] \notin Waits
    <2>1. p \notin served /\ \A q \in BufferQueues : p \notin ToSet(queue[q])
      BY <1>3, <1>t DEF Patient
    <2>2. call'[p] \notin Waits
      BY <1>3, <1>n, <1>t, CallsKept
    <2> QED
      BY <1>2, <1>e, <1>n, <2>1, <2>2
  <1>4. CASE call[p] \in Waits /\ state'[p] = "DORMANT"
    <2>1. ASSUME NEW q \in BufferQueues, p \in ToSet(queue'[q]) PROVE FALSE
      <3>1. p \in ToSet(queue[q])
        BY <1>2, <2>1
      <3>2. state[p] = "WAITING" /\ q \in tracked[p] /\ Once(queue[q], p)
        BY <1>t, <3>1 DEF Patient
      <3>3. STOP(p)
        BY <1>4, <1>s, <3>2
      <3> QED
        BY <1>t, <2>1, <3>2, <3>3, StopDequeues
    <2>2. p \in served' => letter'[p] # None
      BY <1>n, <1>t DEF Patient
    <2> QED
      BY <1>4, <1>e, <1>s, <2>1, <2>2
  <1>5. CASE call[p] \in Waits /\ state'[p] # "DORMANT" /\ state[p] = "DORMANT"
    <2>1. call'[p] = "app" /\ p \notin served'
      BY <1>5, <1>n, <1>s
    <2>2. \A q \in BufferQueues : p \notin ToSet(queue'[q])
      BY <1>2, <1>5, <1>t DEF Patient
    <2> QED
      BY <1>e, <2>1, <2>2
  <1>6. CASE call[p] \in Waits /\ state'[p] # "DORMANT" /\ state[p] # "DORMANT"
    <2>1. exec # "main" /\ state[p] \in {"WAITING", "READY", "RUNNING"}
      <3>1. exec # "main"
        BY <1>6, <1>t DEF PatientInv, Unstarted
      <3>2. state[p] \in States /\ state[p] # "FAULTED"
        BY <1>t DEF Calm
      <3> QED
        BY <1>6, <3>1, <3>2 DEF States
    <2>2. /\ state[p] = "WAITING" => state'[p] = "WAITING" /\ call'[p] = call[p]
          /\ state[p] \in {"READY", "RUNNING"} =>
               state'[p] \in {"READY", "RUNNING"} /\ call'[p] = call[p]
      BY <1>6, <1>n, <1>t, <2>1, CallGoesOn
    <2>3. ~STOP(p)
      BY <1>6, <1>t DEF STOP, Halt
    <2>4. tracked'[p] = tracked[p]
      BY <1>n, <1>t, <2>3, PointersKept
    <2>5. \A q \in BufferQueues : p \in ToSet(queue[q]) <=> p \in ToSet(queue'[q])
      BY <1>2, <1>n, <1>t, <2>3, StepsKeepWaiters
    <2>6. /\ call'[p] = call[p] /\ (p \in served' <=> p \in served)
          /\ state'[p] = "WAITING" <=> state[p] = "WAITING"
      BY <1>6, <1>n, <2>1, <2>2
    <2>7. /\ p \in served' => call'[p] \in Waits /\ state'[p] # "WAITING" /\ letter'[p] # None
          /\ call'[p] \in Waits => p \in served' \/ \E q \in BufferQueues : p \in ToSet(queue'[q])
      BY <1>6, <1>n, <1>t, <2>5, <2>6 DEF Patient
    <2>8. \A b \in Buffers :
            /\ p \in ToSet(queue'[Writers[b]]) => call'[p] = "SEND_BUFFER" /\ letter'[p] # None
            /\ p \in ToSet(queue'[Readers[b]]) => call'[p] = "RECEIVE_BUFFER"
      BY <1>n, <1>t, <2>5, <2>6 DEF Patient
    <2>9. ASSUME NEW q \in BufferQueues, p \in ToSet(queue'[q])
          PROVE  /\ state'[p] = "WAITING" /\ p \notin served' /\ q \in tracked'[p]
                 /\ Once(queue'[q], p)
                 /\ \A r \in BufferQueues : p \in ToSet(queue'[r]) => q = r
      BY <1>2, <1>t, <2>4, <2>5, <2>6, <2>9 DEF Patient
    <2> QED
      BY <1>1, <2>7, <2>8, <2>9 DEF Patient, Once
  <1> QED
    BY <1>3, <1>4, <1>5, <1>6

(* The first of a queue is woken.                                          *)
LEMMA WakePatient ==
  ASSUME BufBase, PatientInv, NEW q \in BufferQueues, queue[q] # <<>>, WakeFirst(q),
         NEW p \in Undisturbed,
         p # Head(queue[q]) => letter'[p] = letter[p],
         p = Head(queue[q]) => letter'[p] # None
  PROVE  Patient(p)'
  <1> USE QueuesOfBuffers
  <1>t. /\ TypeOK /\ p \in Procs /\ Patient(p) /\ q \in Resources
        /\ state \in [Procs -> States] /\ tracked \in [Procs -> SUBSET Resources]
        /\ timer \in [Procs -> Nat \cup {INFINITE, NoTimer}]
    BY DEF BufBase, SchedInv, PatientInv, Undisturbed, Aperiodic, TypeOK
  <1> DEFINE w == Head(queue[q])
             s == queue[q]
             n == Tail(s)
  <1>1. /\ w \in Procs
        /\ w \in ToSet(queue[q])
        /\ queue' = [queue EXCEPT ![q] = n]
        /\ tracked' = [tracked EXCEPT ![w] = tracked[w] \ BufferQueues]
        /\ state' = [state EXCEPT ![w] = "READY"]
        /\ timer' = [timer EXCEPT ![w] = Served(timer[w])]
        /\ served' = served \cup {w}
    BY <1>t, WakeFacts
  <1>b. exec' = "os" /\ UNCHANGED <<suspended, init_delay, call>>
    BY DEF WakeFirst, yield_to_partition
  <1>2. s \in Seq(Procs)
    BY <1>t DEF TypeOK
  <1>3. /\ ToSet(n) \subseteq ToSet(s)
        /\ ToSet(s) \subseteq ToSet(n) \cup {w}
        /\ Once(s, w) => w \notin ToSet(n)
    BY <1>2, TailProperties, TailThinned
  <1>4. queue'[q] = n /\ \A r \in BufferQueues \ {q} : queue'[r] = queue[r]
    BY <1>1, <1>t DEF TypeOK
  <1>5. Once(queue[q], p) => Once(queue'[q], p)
    BY <1>4, <1>t, QueueThinned
  <1>l. /\ p # w => letter'[p] = letter[p]
        /\ p = w => letter'[p] # None
    OBVIOUS
  <1> HIDE DEF w, n
  <1>6. CASE p # w
    <2>1. /\ state'[p] = state[p] /\ timer'[p] = timer[p] /\ ~suspended'[p]
          /\ tracked'[p] = tracked[p]
          /\ p \in served' <=> p \in served
      BY <1>1, <1>b, <1>t, <1>6 DEF Patient, Calm
    <2>2. \A r \in BufferQueues : /\ p \in ToSet(queue'[r]) <=> p \in ToSet(queue[r])
                                  /\ Once(queue[r], p) => Once(queue'[r], p)
      BY <1>3, <1>4, <1>5, <1>6
    <2> QED
      BY <1>b, <1>l, <1>t, <1>6, <2>1, <2>2, PatientKept
  <1>7. CASE p = w
    <2>1. /\ state[p] = "WAITING" /\ Once(s, p)
          /\ \A r \in BufferQueues : p \in ToSet(queue[r]) => q = r
      BY <1>1, <1>t, <1>7 DEF Patient
    <2>c. call[p] \in Waits
      BY <1>1, <1>t, <1>7 DEF Patient
    <2>a. call[p] \notin {"app", "TIMED_WAIT"}
      BY <2>c DEF Waits
    <2>2. timer[p] = NoTimer /\ init_delay[p] = 0 /\ ~suspended[p]
      BY <1>t, <2>a DEF Patient, Calm
    <2>3. /\ state'[p] = "READY" /\ timer'[p] = NoTimer /\ p \in served'
      BY <1>1, <1>t, <1>7, <2>2 DEF Served
    <2>4. Calm(p)'
      BY <1>b, <2>2, <2>3 DEF Calm
    <2>5. \A r \in BufferQueues : p \notin ToSet(queue'[r])
      BY <1>3, <1>4, <1>7, <2>1
    <2> QED
      BY <1>b, <1>l, <1>7, <2>c, <2>3, <2>4, <2>5 DEF Patient
  <1> QED
    BY <1>6, <1>7

(* The running process joins a queue of buffer b.                          *)
LEMMA AwaitPatient ==
  ASSUME BufBase, PatientInv, NEW s, Calls(s), NEW b \in Buffers, NEW q \in BufferQueues, NEW t,
         NEW plain \in Waits, NEW timed,
         AwaitBuffer(b, q, t, plain, timed),
         \/ q = Writers[b] /\ plain = "SEND_BUFFER" /\ letter'[current] # None
         \/ q = Readers[b] /\ plain = "RECEIVE_BUFFER",
         NEW p \in Undisturbed, p \notin disturbed',
         p # current => letter'[p] = letter[p]
  PROVE  Patient(p)'
  <1> USE QueuesOfBuffers
  <1>t. /\ TypeOK /\ SchedInv /\ p \in Procs /\ Patient(p) /\ q \in Resources
        /\ state \in [Procs -> States] /\ call \in [Procs -> Doing]
        /\ tracked \in [Procs -> SUBSET Resources]
        /\ timer \in [Procs -> Nat \cup {INFINITE, NoTimer}]
    BY DEF BufBase, SchedInv, PatientInv, Undisturbed, Aperiodic, TypeOK
  <1>d. \A x, y \in Buffers : /\ Readers[x] # Writers[y]
                              /\ Readers[x] = Readers[y] \/ Writers[x] = Writers[y] => x = y
    BY BuffersAssumption
  <1>c. current \in Procs /\ exec = "proc" /\ state[current] = "RUNNING" /\ call[current] = "app"
    BY <1>t, CallerRuns DEF Calls
  <1> DEFINE sorted == q \in PriorityQueued
             ptrs == (tracked[current] \ BufferQueues) \cup {Readers[b], Writers[b]}
  <1>e. sorted \in BOOLEAN /\ EnqueueBy(q, sorted)
    BY DEF AwaitBuffer, WaitFor
  <1>b. /\ exec' = "os" /\ UNCHANGED <<init_delay, suspended, served>>
        /\ state' = [state EXCEPT ![current] = "WAITING"]
        /\ timer' = Arm(t)
        /\ tracked' = [tracked EXCEPT ![current] = ptrs]
        /\ call' = [call EXCEPT ![current] = IF t = INFINITE THEN plain ELSE timed]
        /\ t # INFINITE => current \in disturbed'
    BY DEF AwaitBuffer, WaitFor, yield_to_partition
  <1>p. q \in ptrs
    OBVIOUS
  <1> HIDE DEF sorted, ptrs
  <1>q. /\ \A r \in BufferQueues \ {q} : queue'[r] = queue[r]
        /\ ToSet(queue'[q]) = ToSet(queue[q]) \cup {current}
    BY <1>c, <1>e, <1>t, EnqueueProperties
  <1>1. CASE p # current
    <2>1. /\ state'[p] = state[p] /\ call'[p] = call[p] /\ timer'[p] = timer[p]
          /\ init_delay'[p] = init_delay[p] /\ ~suspended'[p] /\ tracked'[p] = tracked[p]
      BY <1>b, <1>c, <1>t, <1>1 DEF Arm, Patient, Calm
    <2>2. \A r \in BufferQueues : /\ p \in ToSet(queue'[r]) <=> p \in ToSet(queue[r])
                                  /\ Once(queue[r], p) => Once(queue'[r], p)
      <3>1. Once(queue[q], p) => Once(queue'[q], p)
        BY <1>c, <1>e, <1>t, <1>1, EnqueueOnce
      <3> QED
        BY <1>q, <1>1, <3>1
    <2> QED
      BY <1>b, <1>t, <1>1, <2>1, <2>2, PatientKept
  <1>2. CASE p = current
    <2>1. t = INFINITE
      BY <1>b, <1>2
    <2>2. /\ p \notin served /\ timer[p] = NoTimer /\ init_delay[p] = 0 /\ ~suspended[p]
          /\ \A r \in BufferQueues : p \notin ToSet(queue[r])
      BY <1>c, <1>t, <1>2 DEF Patient, Calm
    <2>3. /\ state'[p] = "WAITING" /\ call'[p] = plain /\ timer'[p] = NoTimer
          /\ init_delay'[p] = 0 /\ ~suspended'[p] /\ p \notin served' /\ q \in tracked'[p]
      BY <1>b, <1>c, <1>p, <1>t, <1>2, <2>1, <2>2 DEF Arm
    <2>4. Calm(p)'
      BY <1>b, <2>3 DEF Calm
    <2>5. Once(queue[q], p)
      <3>1. queue[q] \in Seq(Procs)
        BY <1>t DEF TypeOK
      <3> QED
        BY <2>2, <3>1, ToSetOfSeq DEF Once
    <2>6. Once(queue'[q], p)
      BY <1>c, <1>e, <1>t, <1>2, <2>2, <2>5, EnqueueOnce
    <2>7. \A r \in BufferQueues : p \in ToSet(queue'[r]) <=> r = q
      BY <1>q, <1>2, <2>2
    <2>8. \A x \in Buffers :
            /\ p \in ToSet(queue'[Writers[x]]) => call'[p] = "SEND_BUFFER" /\ letter'[p] # None
            /\ p \in ToSet(queue'[Readers[x]]) => call'[p] = "RECEIVE_BUFFER"
      BY <1>d, <1>2, <2>3, <2>7
    <2> QED
      BY <2>3, <2>4, <2>6, <2>7, <2>8 DEF Patient, Once
  <1> QED
    BY <1>1, <1>2

LEMMA ReturnPatient ==
  ASSUME BufBase, PatientInv, Return, NEW p \in Undisturbed
  PROVE  Patient(p)'
  <1> USE QueuesOfBuffers
  <1>t. /\ TypeOK /\ RunningIsCurrent /\ p \in Procs /\ Patient(p)
        /\ call \in [Procs -> Doing]
    BY DEF BufBase, SchedInv, PatientInv, Undisturbed, Aperiodic, TypeOK
  <1>1. /\ UNCHANGED <<exec, state, suspended, timer, init_delay, queue, tracked, letter>>
        /\ call' = [call EXCEPT ![current] = "app"]
        /\ served' = served \ {current}
        /\ exec = "proc" /\ current \in Procs /\ state[current] = "RUNNING"
    BY <1>t DEF Return, schedVars, timeVars, TypeOK, RunningIsCurrent
  <1>2. CASE p # current
    <2>1. call'[p] = call[p] /\ (p \in served' <=> p \in served) /\ ~suspended'[p]
      BY <1>1, <1>2, <1>t DEF Patient, Calm
    <2> QED
      BY <1>1, <1>t, <2>1, PatientKept
  <1>3. CASE p = current
    <2>1. \A q \in BufferQueues : p \notin ToSet(queue[q])
      BY <1>1, <1>3, <1>t DEF Patient
    <2>2. timer[p] = NoTimer /\ init_delay[p] = 0 /\ ~suspended[p] /\ state[p] = "RUNNING"
      BY <1>1, <1>3, <1>t DEF Patient, Calm
    <2>3. call'[p] = "app" /\ p \notin served'
      BY <1>1, <1>3, <1>t
    <2>4. Calm(p)'
      BY <1>1, <2>2, <2>3 DEF Calm
    <2> QED
      BY <1>1, <2>1, <2>3, <2>4 DEF Patient
  <1> QED
    BY <1>2, <1>3

LEMMA PatientStep ==
  ASSUME NoStaleDelay, BufBase, RingInv, PatientInv, [BufNext]_allVars
  PROVE  PatientInv'
  <1> USE QueuesOfBuffers
  <1>t. TypeOK /\ SchedInv /\ Unstarted /\ NoDelays /\ letter \in [Procs -> Messages \cup {None}]
    BY DEF BufBase, SchedInv, PatientInv, RingInv
  <1>c. \A s : Calls(s) => exec = "proc" /\ current \in Procs
    BY <1>t, CallerRuns
  <1>m. \A m \in Messages : m # None
    BY BuffersAssumption
  <1>u. ASSUME UNCHANGED <<vars, letter, served, disturbed>> PROVE PatientInv'
    <2>1. Unstarted' /\ NoDelays'
      BY <1>t, <1>u DEF Unstarted, NoDelays, vars, schedVars, waitVars, timeVars
    <2>2. ASSUME NEW p \in Undisturbed PROVE Patient(p)'
      <3>1. Patient(p) /\ ~suspended[p]
        BY DEF PatientInv, Patient, Calm
      <3> QED
        BY <1>u, <3>1, PatientKept DEF vars, schedVars, timeVars, waitVars
    <2> QED
      BY <1>u, <2>1, <2>2 DEF PatientInv, Undisturbed
  <1>a. ASSUME exec' = "os", init_delay' = init_delay, disturbed \subseteq disturbed',
               \A p \in Undisturbed : p \notin disturbed' => Patient(p)'
        PROVE  PatientInv'
    <2>1. Unstarted' /\ NoDelays'
      BY <1>t, <1>a DEF Unstarted, NoDelays
    <2>2. \A p \in Undisturbed' : p \in Undisturbed /\ p \notin disturbed'
      BY <1>a DEF Undisturbed
    <2> QED
      BY <1>a, <2>1, <2>2 DEF PatientInv
  <1>1. CASE ProcessStep
    <2>1. Unstarted' /\ NoDelays'
      BY <1>1, <1>t, UnstartedStep, NoDelaysStep DEF ProcessStep
    <2>2. \A p \in Undisturbed' : p \in Undisturbed /\ ~suspended'[p]
      BY <1>1 DEF ProcessStep, Undisturbed, Aperiodic
    <2>3. ASSUME NEW p \in Undisturbed, ~suspended'[p] PROVE Patient(p)'
      BY <1>1, <2>3, ProcessStepPatient
    <2> QED
      BY <2>1, <2>2, <2>3 DEF PatientInv
  <1>2. ASSUME NEW b \in Buffers, NEW m \in Messages, NEW t \in Timeouts, SEND_BUFFER(b, m, t)
        PROVE  PatientInv'
    <2>c. Calls("SEND_BUFFER") /\ current \in Procs
      BY <1>2, <1>c DEF SEND_BUFFER
    <2>1. CASE StoreMessage(b, m)
      BY <2>1, <1>u DEF StoreMessage
    <2>2. CASE PassToReader(b, m)
      <3>1. /\ exec' = "os" /\ init_delay' = init_delay /\ disturbed' = disturbed
            /\ queue[Readers[b]] # <<>> /\ WakeFirst(Readers[b])
            /\ letter' = [letter EXCEPT ![Head(queue[Readers[b]])] = m]
        BY <2>2 DEF PassToReader, WakeFirst, yield_to_partition
      <3>2. ASSUME NEW p \in Undisturbed PROVE Patient(p)'
        <4>1. p \in Procs
          BY DEF Undisturbed, Aperiodic
        <4>2. /\ p # Head(queue[Readers[b]]) => letter'[p] = letter[p]
              /\ p = Head(queue[Readers[b]]) => letter'[p] # None
          BY <1>m, <1>t, <3>1, <4>1
        <4> QED
          BY <3>1, <4>2, WakePatient
      <3> QED
        BY <1>a, <3>1, <3>2
    <2>3. CASE AwaitRoom(b, m, t)
      <3>1. AwaitBuffer(b, Writers[b], t, "SEND_BUFFER", "SEND_BUFFER_TIMED")
        BY <2>3 DEF AwaitRoom
      <3>2. exec' = "os" /\ init_delay' = init_delay /\ disturbed \subseteq disturbed'
        BY <3>1 DEF AwaitBuffer, WaitFor, yield_to_partition
      <3>3. letter'[current] # None /\ \A p \in Procs : p # current => letter'[p] = letter[p]
        BY <1>m, <1>t, <2>3, <2>c DEF AwaitRoom
      <3>4. ASSUME NEW p \in Undisturbed, p \notin disturbed' PROVE Patient(p)'
        <4>1. p # current => letter'[p] = letter[p]
          BY <3>3 DEF Undisturbed, Aperiodic
        <4> QED
          BY <2>c, <3>1, <3>3, <3>4, <4>1, AwaitPatient
      <3> QED
        BY <1>a, <3>2, <3>4
    <2> QED
      BY <1>2, <2>1, <2>2, <2>3 DEF SEND_BUFFER
  <1>3. ASSUME NEW b \in Buffers, NEW t \in Timeouts, RECEIVE_BUFFER(b, t)
        PROVE  PatientInv'
    <2>c. Calls("RECEIVE_BUFFER") /\ current \in Procs
      BY <1>3, <1>c DEF RECEIVE_BUFFER
    <2>1. CASE TakeMessage(b)
      BY <2>1, <1>u DEF TakeMessage
    <2>2. CASE TakeAndRefill(b)
      <3>1. /\ exec' = "os" /\ init_delay' = init_delay /\ disturbed' = disturbed
            /\ queue[Writers[b]] # <<>> /\ WakeFirst(Writers[b]) /\ letter' = letter
        BY <2>2 DEF TakeAndRefill, WakeFirst, yield_to_partition
      <3>2. ASSUME NEW p \in Undisturbed PROVE Patient(p)'
        <4>1. Head(queue[Writers[b]]) \in ToSet(queue[Writers[b]])
          BY <1>t, <3>1, WakeFacts
        <4>2. p = Head(queue[Writers[b]]) => letter'[p] # None
          BY <3>1, <4>1 DEF PatientInv, Patient
        <4> QED
          BY <3>1, <4>2, WakePatient
      <3> QED
        BY <1>a, <3>1, <3>2
    <2>3. CASE AwaitMessage(b, t)
      <3>1. AwaitBuffer(b, Readers[b], t, "RECEIVE_BUFFER", "RECEIVE_BUFFER_TIMED")
        BY <2>3 DEF AwaitMessage
      <3>2. exec' = "os" /\ init_delay' = init_delay /\ disturbed \subseteq disturbed'
        BY <3>1 DEF AwaitBuffer, WaitFor, yield_to_partition
      <3>3. \A p \in Procs : p # current => letter'[p] = letter[p]
        BY <1>t, <2>3, <2>c DEF AwaitMessage
      <3>4. ASSUME NEW p \in Undisturbed, p \notin disturbed' PROVE Patient(p)'
        <4>1. p # current => letter'[p] = letter[p]
          BY <3>3 DEF Undisturbed, Aperiodic
        <4> QED
          BY <2>c, <3>1, <3>4, <4>1, AwaitPatient
      <3> QED
        BY <1>a, <3>2, <3>4
    <2> QED
      BY <1>3, <2>1, <2>2, <2>3 DEF RECEIVE_BUFFER
  <1>4. CASE Return
    <2>1. ASSUME NEW p \in Undisturbed PROVE Patient(p)'
      BY <1>4, ReturnPatient
    <2>2. exec' = "proc" /\ disturbed' = disturbed /\ init_delay' = init_delay
      BY <1>4 DEF Return, schedVars, timeVars
    <2> QED
      BY <1>t, <2>1, <2>2 DEF PatientInv, Unstarted, NoDelays, Undisturbed
  <1>5. CASE UNCHANGED allVars
    BY <1>5, <1>u DEF allVars, bufVars
  <1> QED
    BY <1>1, <1>2, <1>3, <1>4, <1>5 DEF BufNext

(* Whoever waits at a buffer without a time-out and is not suspended is on *)
(* the queue only while it waits, is taken off when it is stopped, and     *)
(* returns only after a hand-over, a receiver with a message: whatever the *)
(* others do, in a partition that does not use both DELAYED_START and STOP *)
(* (which leaves saved_init_delay set, for the next tick to act on).       *)
THEOREM UndisturbedAreServed ==
  ASSUME NoStaleDelay PROVE BufSpec => []WaitersAreServed
  <1>1. BufBase /\ RingInv /\ PatientInv /\ [BufNext]_allVars => PatientInv'
    BY PatientStep
  <1>2. ASSUME BufBase, PatientInv PROVE WaitersAreServed
    <2>1. ASSUME NEW b \in Buffers, NEW p \in ToSet(queue[Writers[b]]) \cap Undisturbed
          PROVE  state[p] = "WAITING" /\ call[p] = "SEND_BUFFER"
      BY <1>2, QueuesOfBuffers DEF PatientInv, Patient
    <2>2. ASSUME NEW b \in Buffers, NEW p \in ToSet(queue[Readers[b]]) \cap Undisturbed
          PROVE  state[p] = "WAITING" /\ call[p] = "RECEIVE_BUFFER"
      BY <1>2, QueuesOfBuffers DEF PatientInv, Patient
    <2>3. ASSUME exec = "proc", call[current] \in Waits, current \in Undisturbed
          PROVE  current \in served /\ letter[current] # None
      <3>1. state[current] = "RUNNING" /\ Patient(current)
        BY <1>2, <2>3 DEF BufBase, SchedInv, RunningIsCurrent, PatientInv
      <3> QED
        BY <2>3, <3>1 DEF Patient
    <2> QED
      BY <2>1, <2>2, <2>3 DEF WaitersAreServed
  <1> QED
    BY <1>1, <1>2, InitPatient, BufBaseInvariant, RingInvariant, PTL DEF BufSpec
=============================================================================
