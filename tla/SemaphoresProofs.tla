--------------------------- MODULE SemaphoresProofs ---------------------------
(***************************************************************************)
(* Proofs about Semaphores for any number of processes and semaphores, any *)
(* values, time-outs and set of services.                                  *)
(***************************************************************************)
EXTENDS Semaphores, ProcessesProofs

(* A value is within its bounds, and is not zero only if nobody waits.     *)
TokenInv ==
  /\ DOMAIN queue = Resources
  /\ value \in [Semaphores -> Nat]
  /\ \A s \in Semaphores : value[s] <= MaximumValue[s]
  /\ NoIdleToken

LEMMA InitTokens == SemInit => TokenInv
  BY SemaphoresAssumption DEF SemInit, Init, TokenInv, NoIdleToken

(* A semaphore that nobody waits on may take any value within its bounds.  *)
LEMMA OneValueChanges ==
  ASSUME TokenInv, NEW s \in Semaphores, queue[s] = <<>>, queue' = queue,
         NEW v \in Nat, v <= MaximumValue[s],
         value' = [value EXCEPT ![s] = v]
  PROVE  TokenInv'
  <1>1. value' \in [Semaphores -> Nat]
    BY DEF TokenInv
  <1>2. \A r \in Semaphores : value'[r] = IF r = s THEN v ELSE value[r]
    BY DEF TokenInv
  <1>3. \A r \in Semaphores : value'[r] <= MaximumValue[r]
    BY <1>2 DEF TokenInv
  <1>4. \A r \in Semaphores : value'[r] > 0 => queue'[r] = <<>>
    BY <1>2 DEF TokenInv, NoIdleToken
  <1> QED
    BY <1>1, <1>3, <1>4 DEF TokenInv, NoIdleToken

LEMMA TokenStep == TokenInv /\ [SemNext]_allVars => TokenInv'
  <1> SUFFICES ASSUME TokenInv, [SemNext]_allVars
               PROVE  TokenInv'
    OBVIOUS
  <1> USE DEF TokenInv, NoIdleToken
  <1>0. Semaphores \subseteq Resources /\ MaximumValue \in [Semaphores -> Nat]
    BY SemaphoresAssumption
  <1>1. CASE ProcessStep
    <2>1. Next /\ value' = value
      BY <1>1 DEF ProcessStep
    <2> QED
      BY <2>1, <1>0, StepsKeepEmpty
  <1>2. ASSUME NEW s \in Semaphores, NEW t \in Timeouts, WAIT_SEMAPHORE(s, t)
        PROVE  TokenInv'
    <2>1. CASE TakeToken(s)
      <3> DEFINE v == value[s] - 1
      <3>1. /\ value[s] > 0 /\ queue[s] = <<>> /\ queue' = queue
            /\ value' = [value EXCEPT ![s] = v]
        BY <2>1 DEF TakeToken, vars, waitVars
      <3>2. v \in Nat
        BY <3>1
      <3>3. v <= MaximumValue[s]
        BY <1>0
      <3> HIDE DEF v
      <3> QED
        BY <3>1, <3>2, <3>3, OneValueChanges
    <2>2. CASE Block(s, t)
      <3>1. value[s] = 0 /\ value' = value
        BY <2>2 DEF Block
      <3>2. /\ DOMAIN queue' = Resources
            /\ \A r \in Resources \ {s} : queue'[r] = queue[r]
        BY <2>2 DEF Block, WaitFor, EnqueueBy
      <3> QED
        BY <3>1, <3>2, <1>0
    <2> QED
      BY <1>2, <2>1, <2>2 DEF WAIT_SEMAPHORE
  <1>3. ASSUME NEW s \in Semaphores, SIGNAL_SEMAPHORE(s)
        PROVE  TokenInv'
    <2>1. value[s] # MaximumValue[s]
      BY <1>3 DEF SIGNAL_SEMAPHORE
    <2>2. CASE /\ queue[s] = <<>> /\ queue' = queue
               /\ value' = [value EXCEPT ![s] = value[s] + 1]
      <3>1. value[s] \in Nat /\ value[s] + 1 \in Nat /\ MaximumValue[s] \in Nat
        BY <1>0
      <3>2. value[s] + 1 <= MaximumValue[s]
        BY <3>1, <2>1
      <3> QED
        BY <2>2, <3>1, <3>2, OneValueChanges
    <2>3. CASE queue[s] # <<>> /\ HandOver(s)
      <3>1. value[s] = 0 /\ value' = value
        BY <2>3 DEF HandOver
      <3>2. /\ DOMAIN queue' = Resources
            /\ \A r \in Resources \ {s} : queue'[r] = queue[r]
        BY <2>3 DEF HandOver
      <3> QED
        BY <3>1, <3>2, <1>0
    <2> QED
      BY <1>3, <2>2, <2>3 DEF SIGNAL_SEMAPHORE, vars, waitVars
  <1>4. CASE Return
    BY <1>4 DEF Return
  <1>5. CASE UNCHANGED allVars
    BY <1>5 DEF allVars, vars, waitVars, semVars
  <1> QED
    BY <1>1, <1>2, <1>3, <1>4, <1>5 DEF SemNext

(* No token lies idle: no process, however it came to the queue and        *)
(* whatever was stopped, suspended or timed out, waits on a semaphore      *)
(* whose value is not zero.                                                *)
THEOREM NoTokenIsIdle == SemSpec => []NoIdleToken
  <1>1. TokenInv => NoIdleToken
    BY DEF TokenInv
  <1> QED
    BY <1>1, InitTokens, TokenStep, PTL DEF SemSpec


(***************************************************************************)
(* Types and scheduling                                                    *)
(***************************************************************************)

LEMMA SemConstants ==
  /\ Semaphores \subseteq Resources
  /\ MaximumValue \in [Semaphores -> Nat]
  /\ Waits \subseteq Doing
  BY SemaphoresAssumption DEF Waits, Doing

(* What a hand-over writes.                                                *)
LEMMA HandOverFacts ==
  ASSUME TypeOK, NEW s \in Semaphores, queue[s] # <<>>, HandOver(s)
  PROVE  LET w == Head(queue[s])
         IN  /\ w \in Procs
             /\ w \in ToSet(queue[s])
             /\ queue' = [queue EXCEPT ![s] = Tail(queue[s])]
             /\ queue' \in [Resources -> Seq(Procs)]
             /\ tracked' \in [Procs -> SUBSET Resources]
             /\ state' = [state EXCEPT ![w] = "READY"]
             /\ timer' = [timer EXCEPT ![w] = Served(timer[w])]
             /\ state' \in [Procs -> States]
             /\ timer' \in [Procs -> Nat \cup {INFINITE, NoTimer}]
             /\ granted' = granted \cup {w}
  <1> DEFINE w == Head(queue[s])
  <1>1. s \in Resources /\ queue' = [queue EXCEPT ![s] = Tail(queue[s])]
    BY SemConstants DEF HandOver
  <1>2. w \in Procs /\ w \in ToSet(queue[s]) /\ queue' \in [Resources -> Seq(Procs)]
    BY <1>1, DequeueProperties
  <1>3. /\ tracked' = [tracked EXCEPT ![w] = tracked[w] \ Semaphores]
        /\ state' = [state EXCEPT ![w] = "READY"]
        /\ timer' = [timer EXCEPT ![w] = Served(timer[w])]
        /\ granted' = granted \cup {w}
    BY DEF HandOver
  <1> HIDE DEF w
  <1>4. /\ tracked' \in [Procs -> SUBSET Resources]
        /\ state' \in [Procs -> States]
        /\ timer' \in [Procs -> Nat \cup {INFINITE, NoTimer}]
    BY <1>2, <1>3 DEF TypeOK, States, Served
  <1> QED
    BY <1>1, <1>2, <1>3, <1>4 DEF w

SemBase == SchedInv /\ granted \subseteq Procs /\ disturbed \subseteq Procs

LEMMA SemBaseStep == SemBase /\ [SemNext]_allVars => SemBase'
  <1> SUFFICES ASSUME SemBase, [SemNext]_allVars PROVE SemBase'
    OBVIOUS
  <1> USE SemConstants
  <1>t. TypeOK /\ SchedInv
    BY DEF SemBase, SchedInv
  <1>c. \A s : Calls(s) => current \in Procs /\ exec = "proc"
    BY <1>t, CallerRuns
  <1>u. ASSUME UNCHANGED <<vars, granted, disturbed>> PROVE SemBase'
    <2>1. SchedInv'
      BY <1>t, <1>u, SchedStep
    <2> QED
      BY <1>u, <2>1 DEF SemBase
  <1>1. CASE ProcessStep
    <2>1. SchedInv'
      BY <1>1, <1>t, SchedStep DEF ProcessStep
    <2> QED
      BY <1>1, <2>1 DEF SemBase, ProcessStep, Hit
  <1>2. ASSUME NEW s \in Semaphores, NEW t \in Timeouts, WAIT_SEMAPHORE(s, t) PROVE SemBase'
    <2>1. CASE TakeToken(s)
      BY <2>1, <1>u DEF TakeToken
    <2>2. CASE Block(s, t)
      <3> DEFINE sorted == s \in PriorityQueued
                 ptrs == IF t = INFINITE THEN tracked[current]
                                         ELSE (tracked[current] \ Semaphores) \cup {s}
      <3>1. /\ current \in Procs /\ sorted \in BOOLEAN /\ ptrs \in SUBSET Resources
            /\ "WAIT_SEMAPHORE" \in Doing /\ "WAIT_SEMAPHORE_TIMED" \in Doing
        BY <1>2, <1>c, <1>t DEF WAIT_SEMAPHORE, TypeOK, Doing
      <3>2. WaitFor(s, sorted, t, ptrs, "WAIT_SEMAPHORE", "WAIT_SEMAPHORE_TIMED")
        BY <2>2 DEF Block
      <3> HIDE DEF sorted, ptrs
      <3>3. TypeOK'
        BY <1>t, <3>1, <3>2, WaitForType
      <3>4. Yields /\ TimersCleared
        BY <1>t, <3>1, <3>2, WaitForYields
      <3>5. SchedInv'
        BY <1>t, <3>3, <3>4, ServicesKeepSched DEF SchedInv
      <3> QED
        BY <2>2, <3>1, <3>5 DEF SemBase, Block
    <2> QED
      BY <1>2, <2>1, <2>2 DEF WAIT_SEMAPHORE
  <1>3. ASSUME NEW s \in Semaphores, SIGNAL_SEMAPHORE(s) PROVE SemBase'
    <2>1. CASE UNCHANGED <<vars, granted, disturbed>>
      BY <2>1, <1>u
    <2>2. CASE /\ queue[s] # <<>> /\ HandOver(s) /\ yield_to_partition
               /\ UNCHANGED <<mode, current, order, tick_pending, priority, suspended,
                              release, init_delay, grid, call, owned, disturbed>>
      <3> DEFINE w == Head(queue[s])
      <3>1. /\ w \in Procs
            /\ queue' \in [Resources -> Seq(Procs)]
            /\ tracked' \in [Procs -> SUBSET Resources]
            /\ state' = [state EXCEPT ![w] = "READY"]
            /\ timer' = [timer EXCEPT ![w] = Served(timer[w])]
            /\ state' \in [Procs -> States]
            /\ timer' \in [Procs -> Nat \cup {INFINITE, NoTimer}]
            /\ granted' = granted \cup {w}
        BY <1>t, <2>2, HandOverFacts
      <3> HIDE DEF w
      <3>2. TypeOK'
        BY <1>t, <2>2, <3>1 DEF TypeOK, yield_to_partition
      <3>3. Yields /\ TimersCleared
        BY <1>t, <2>2, <3>1 DEF TypeOK, Yields, TimersCleared, yield_to_partition
      <3>4. SchedInv'
        BY <1>t, <3>2, <3>3, ServicesKeepSched DEF SchedInv
      <3> QED
        BY <2>2, <3>1, <3>4 DEF SemBase
    <2> QED
      BY <1>3, <2>1, <2>2 DEF SIGNAL_SEMAPHORE
  <1>4. CASE Return
    <2>1. TypeOK'
      BY <1>4, <1>t, DoingContains DEF Return, TypeOK, schedVars, timeVars
    <2>2. UNCHANGED <<exec, current, state, timer, priority>>
      BY <1>4 DEF Return, schedVars, timeVars
    <2>3. SchedInv'
      BY <1>t, <2>1, <2>2 DEF SchedInv, RunningIsCurrent, PriorityRespected, DormantHasNoTimer
    <2> QED
      BY <1>4, <2>3 DEF SemBase, Return
  <1>5. CASE UNCHANGED allVars
    BY <1>5, <1>u DEF allVars, semVars
  <1> QED
    BY <1>1, <1>2, <1>3, <1>4, <1>5 DEF SemNext

LEMMA SemBaseInvariant == SemSpec => []SemBase
  <1>1. SemInit => SemBase
    BY InitSched DEF SemInit, SemBase
  <1> QED
    BY <1>1, SemBaseStep, PTL DEF SemSpec

(* Every value stays within 0..MAXIMUM_VALUE, and process control blocks   *)
(* and queues stay well formed, whichever process a signal takes off a     *)
(* queue.                                                                  *)
THEOREM SemaphoresTypeCorrect == SemSpec => []SemTypeOK
  <1>1. SemBase /\ TokenInv => SemTypeOK
    BY SemConstants DEF SemBase, SchedInv, TokenInv, SemTypeOK
  <1> QED
    BY <1>1, SemBaseInvariant, InitTokens, TokenStep, PTL DEF SemSpec

(* A hand-over yields: with semaphores, too, the running process is never  *)
(* outranked by a READY one.                                               *)
THEOREM HighestPriorityRunsWithSemaphores == SemSpec => []PriorityRespected
  <1>1. SemBase => PriorityRespected
    BY DEF SemBase, SchedInv
  <1> QED
    BY <1>1, SemBaseInvariant, PTL


(***************************************************************************)
(* Queues of discipline PRIORITY                                           *)
(***************************************************************************)

(* If SET_PRIORITY is not called, priorities are what CREATE_PROCESS set   *)
(* them to, and queues stay sorted.                                        *)
OrderInv == priority = BasePriority /\ QueueOrdered

LEMMA PrioritiesStay ==
  ASSUME "SET_PRIORITY" \notin Services, priority = BasePriority, Next
  PROVE  priority' = priority
  <1>1. ASSUME NEW p \in Named, START(p) \/ \E d \in Timeouts : DELAYED_START(p, d)
        PROVE  priority' = priority
    <2>1. priority' = [priority EXCEPT ![p] = BasePriority[p]]
      BY <1>1 DEF START, DELAYED_START, Restart
    <2> QED
      BY <2>1, PriorityAssumption
  <1>2. ASSUME NEW p \in Named, NEW v \in Priorities, SET_PRIORITY(p, v) PROVE FALSE
    BY <1>2 DEF SET_PRIORITY, MayCall, Calls
  <1> QED
    BY <1>1, <1>2 DEF Next, Service, OtherService, SUSPEND_SELF, SUSPEND, RESUME, STOP_SELF, STOP,
      TIMED_WAIT, PERIODIC_WAIT, SET_PARTITION_MODE_NORMAL, partition_OS, Tick

LEMMA OrderStep ==
  ASSUME "SET_PRIORITY" \notin Services, SemBase, OrderInv, [SemNext]_allVars
  PROVE  OrderInv'
  <1> USE SemConstants
  <1>t. TypeOK /\ SchedInv /\ \A s \in Semaphores : s \in Resources
    BY DEF SemBase, SchedInv
  <1>c. \A s : Calls(s) => current \in Procs
    BY <1>t, CallerRuns
  <1>p. priority' = priority
    <2>1. CASE ProcessStep
      BY <2>1, PrioritiesStay DEF OrderInv, ProcessStep
    <2>2. CASE ~ProcessStep
      BY <2>2 DEF SemNext, WAIT_SEMAPHORE, TakeToken, Block, WaitFor, SIGNAL_SEMAPHORE,
         Return, vars, allVars
    <2> QED
      BY <2>1, <2>2
  <1>o. \A s \in PriorityQueued \cap Semaphores : Sorted(queue[s])
    BY DEF OrderInv, QueueOrdered, Sorted
  <1> SUFFICES ASSUME NEW s \in PriorityQueued \cap Semaphores
               PROVE  \A i, j \in 1 .. Len(queue'[s]) :
                        i < j => priority[queue'[s][j]] <= priority[queue'[s][i]]
    BY <1>p DEF OrderInv, QueueOrdered
  <1>1. CASE queue'[s] = queue[s]
    BY <1>1, <1>o DEF Sorted
  <1>2. CASE ProcessStep
    <2>1. queue'[s] = queue[s] \/ \E p : queue'[s] = RemoveFirst(queue[s], p)
      BY <1>2, <1>t, StepsThinQueues DEF ProcessStep
    <2> QED
      BY <2>1, <1>o, <1>t, QueueThinned
  <1>3. ASSUME NEW r \in Semaphores, NEW t \in Timeouts, WAIT_SEMAPHORE(r, t), Block(r, t)
        PROVE  \A i, j \in 1 .. Len(queue'[s]) :
                 i < j => priority[queue'[s][j]] <= priority[queue'[s][i]]
    <2> DEFINE sorted == r \in PriorityQueued
    <2>1. current \in Procs /\ sorted \in BOOLEAN /\ EnqueueBy(r, sorted)
      BY <1>3, <1>c DEF WAIT_SEMAPHORE, Block, WaitFor
    <2>2. s = r => sorted
      OBVIOUS
    <2> HIDE DEF sorted
    <2>3. s # r => queue'[s] = queue[s]
      BY <1>t, <2>1, EnqueueProperties
    <2>4. CASE s = r
      <3>1. Sorted(queue'[s])
        BY <1>o, <1>t, <2>1, <2>2, <2>4, EnqueueProperties
      <3> QED
        BY <3>1 DEF Sorted
    <2> QED
      BY <1>1, <2>3, <2>4
  <1>4. ASSUME NEW r \in Semaphores, queue[r] # <<>>, HandOver(r)
        PROVE  \A i, j \in 1 .. Len(queue'[s]) :
                 i < j => priority[queue'[s][j]] <= priority[queue'[s][i]]
    <2>1. queue'[s] = queue[s] \/ (queue[s] # <<>> /\ queue'[s] = Tail(queue[s]))
      BY <1>4, <1>t DEF HandOver, TypeOK
    <2> QED
      BY <2>1, <1>o, <1>t, QueueThinned
  <1>5. CASE queue' = queue
    BY <1>1, <1>5
  <1> QED
    BY <1>2, <1>3, <1>4, <1>5
    DEF SemNext, WAIT_SEMAPHORE, TakeToken, SIGNAL_SEMAPHORE, Return, allVars, vars, waitVars

(* A semaphore of discipline PRIORITY keeps its queue sorted, through      *)
(* stops, time-outs and hand-overs, in a partition that does not call      *)
(* SET_PRIORITY (which does not move a process that waits).                *)
THEOREM PriorityQueuesStayOrdered ==
  ASSUME "SET_PRIORITY" \notin Services PROVE SemSpec => []QueueOrdered
  <1>1. SemInit => OrderInv
    BY SemConstants DEF SemInit, Init, OrderInv, QueueOrdered
  <1>2. SemBase /\ OrderInv /\ [SemNext]_allVars => OrderInv'
    BY OrderStep
  <1>3. OrderInv => QueueOrdered
    BY DEF OrderInv
  <1> QED
    BY <1>1, <1>2, <1>3, SemBaseInvariant, PTL DEF SemSpec

(***************************************************************************)
(* Undisturbed processes                                                   *)
(***************************************************************************)

(* An undisturbed process in WAIT_SEMAPHORE has either been handed a token *)
(* or is on one queue, once.                                               *)
Patient(p) ==
  /\ Calm(p)
  /\ p \in granted => call[p] = "WAIT_SEMAPHORE" /\ state[p] \in {"READY", "RUNNING"}
  /\ call[p] \in Waits => p \in granted \/ \E s \in Semaphores : p \in ToSet(queue[s])
  /\ \A s \in Semaphores :
       p \in ToSet(queue[s]) =>
         /\ state[p] = "WAITING" /\ call[p] = "WAIT_SEMAPHORE" /\ p \notin granted
         /\ Once(queue[s], p)
         /\ \A r \in Semaphores : p \in ToSet(queue[r]) => s = r

PatientInv == Unstarted /\ \A p \in Undisturbed : Patient(p)

LEMMA InitPatient == SemInit => PatientInv
  <1> SUFFICES ASSUME SemInit PROVE PatientInv
    OBVIOUS
  <1>1. ToSet(<<>>) = {}
    BY DEF ToSet
  <1>2. \A s \in Semaphores : queue[s] = <<>>
    BY SemConstants DEF SemInit, Init
  <1>3. "app" \notin Waits
    BY DEF Waits
  <1> QED
    BY <1>1, <1>2, <1>3 DEF SemInit, Init, PatientInv, Unstarted, Patient, Calm, Undisturbed,
       Aperiodic

(* A step that leaves p and its places alone.                              *)
LEMMA PatientKept ==
  ASSUME NEW p, Patient(p), exec' = "main" => exec = "main",
         state'[p] = state[p], call'[p] = call[p], timer'[p] = timer[p],
         init_delay'[p] = init_delay[p], ~suspended'[p],
         p \in granted' <=> p \in granted,
         \A s \in Semaphores : /\ p \in ToSet(queue'[s]) <=> p \in ToSet(queue[s])
                               /\ Once(queue[s], p) => Once(queue'[s], p)
  PROVE  Patient(p)'
  <1>1. Calm(p)'
    BY DEF Patient, Calm
  <1>2. ASSUME NEW s \in Semaphores, p \in ToSet(queue'[s])
        PROVE  /\ state'[p] = "WAITING" /\ call'[p] = "WAIT_SEMAPHORE" /\ p \notin granted'
               /\ Once(queue'[s], p)
               /\ \A r \in Semaphores : p \in ToSet(queue'[r]) => s = r
    BY <1>2 DEF Patient
  <1>3. p \in granted' => call'[p] = "WAIT_SEMAPHORE" /\ state'[p] \in {"READY", "RUNNING"}
    BY DEF Patient
  <1>4. call'[p] \in Waits => p \in granted' \/ \E s \in Semaphores : p \in ToSet(queue'[s])
    BY DEF Patient
  <1> QED
    BY <1>1, <1>2, <1>3, <1>4 DEF Patient, Once

LEMMA ProcessStepPatient ==
  ASSUME SemBase, PatientInv, ProcessStep, NEW p \in Undisturbed, p \notin Hit
  PROVE  Patient(p)'
  <1> USE SemConstants
  <1>t. /\ TypeOK /\ SchedInv /\ p \in Procs /\ p \in Aperiodic /\ Patient(p) /\ Calm(p)
        /\ call \in [Procs -> Doing]
    BY DEF SemBase, SchedInv, PatientInv, Undisturbed, Aperiodic, Patient, TypeOK
  <1>n. Next /\ granted' = {q \in granted : call'[q] # "app"}
    BY DEF ProcessStep
  <1>h. /\ ~suspended'[p]
        /\ state'[p] = "DORMANT" => state[p] = "DORMANT"
    BY <1>t DEF Hit
  <1>1. Calm(p)'
    BY <1>t, <1>n, <1>h, CalmStep
  <1>w. Waits \subseteq Blocking /\ "WAIT_SEMAPHORE" \in Waits /\ "app" \notin Waits
    BY DEF Waits, Blocking, Doing, RcOnly
  <1>2. \A s \in Semaphores : /\ ToSet(queue'[s]) \subseteq ToSet(queue[s])
                              /\ Once(queue[s], p) => Once(queue'[s], p)
    BY <1>t, <1>n, StepsThinQueues, QueueThinned
  <1>3. CASE call[p] \notin Waits
    <2>1. p \notin granted /\ \A s \in Semaphores : p \notin ToSet(queue[s])
      BY <1>3, <1>t, <1>w DEF Patient
    <2>2. call'[p] \notin Waits
      BY <1>3, <1>n, <1>t, <1>w, CallsKept
    <2> QED
      BY <1>1, <1>2, <1>n, <2>1, <2>2 DEF Patient
  <1>4. CASE call[p] \in Waits
    <2>1. /\ exec # "main"
          /\ state[p] \in {"WAITING", "READY", "RUNNING"}
          /\ call[p] = "WAIT_SEMAPHORE"
      BY <1>4, <1>t, <1>w DEF Patient, PatientInv, Unstarted
    <2>2. state'[p] # "DORMANT"
      BY <1>h, <2>1
    <2>3. /\ state[p] = "WAITING" => state'[p] = "WAITING" /\ call'[p] = call[p]
          /\ state[p] \in {"READY", "RUNNING"} =>
               state'[p] \in {"READY", "RUNNING"} /\ call'[p] = call[p]
      BY <1>4, <1>h, <1>n, <1>t, <1>w, <2>1, <2>2, CallGoesOn
    <2>4. ~STOP(p)
      BY <2>2, <1>t DEF STOP, Halt, TypeOK
    <2>5. \A s \in Semaphores : p \in ToSet(queue[s]) => p \in ToSet(queue'[s])
      BY <1>n, <1>t, <2>4, StepsKeepWaiters
    <2>6. call'[p] = "WAIT_SEMAPHORE" /\ (p \in granted' <=> p \in granted)
      BY <1>n, <2>1, <2>3
    <2>7. \A s \in Semaphores : p \in ToSet(queue'[s]) =>
            /\ state'[p] = "WAITING" /\ p \notin granted'
            /\ Once(queue'[s], p)
            /\ \A r \in Semaphores : p \in ToSet(queue'[r]) => s = r
      BY <1>2, <1>t, <2>3, <2>6 DEF Patient
    <2>8. p \in granted' => state'[p] \in {"READY", "RUNNING"}
      BY <1>t, <2>3, <2>6 DEF Patient
    <2>9. p \in granted' \/ \E s \in Semaphores : p \in ToSet(queue'[s])
      BY <1>4, <1>t, <2>5, <2>6 DEF Patient
    <2> QED
      BY <1>1, <2>6, <2>7, <2>8, <2>9 DEF Patient, Once
  <1> QED
    BY <1>3, <1>4

LEMMA BlockPatient ==
  ASSUME SemBase, PatientInv, NEW s \in Semaphores, NEW t, Block(s, t), Calls("WAIT_SEMAPHORE"),
         NEW p \in Undisturbed, p \notin disturbed'
  PROVE  Patient(p)'
  <1> USE SemConstants
  <1>t. /\ TypeOK /\ SchedInv /\ p \in Procs /\ Patient(p) /\ s \in Resources
        /\ state \in [Procs -> States] /\ call \in [Procs -> Doing]
        /\ timer \in [Procs -> Nat \cup {INFINITE, NoTimer}]
    BY DEF SemBase, SchedInv, PatientInv, Undisturbed, Aperiodic, TypeOK
  <1>c. current \in Procs /\ exec = "proc" /\ state[current] = "RUNNING" /\ call[current] = "app"
    BY <1>t, CallerRuns DEF Calls
  <1> DEFINE sorted == s \in PriorityQueued
  <1>e. sorted \in BOOLEAN /\ EnqueueBy(s, sorted)
    BY DEF Block, WaitFor
  <1> HIDE DEF sorted
  <1>q. /\ \A r \in Semaphores \ {s} : queue'[r] = queue[r]
        /\ ToSet(queue'[s]) = ToSet(queue[s]) \cup {current}
    BY <1>c, <1>e, <1>t, EnqueueProperties
  <1>b. /\ exec' = "os" /\ UNCHANGED <<init_delay, suspended, granted>>
        /\ state' = [state EXCEPT ![current] = "WAITING"]
        /\ timer' = Arm(t)
        /\ call' = [call EXCEPT ![current] = IF t = INFINITE THEN "WAIT_SEMAPHORE"
                                                            ELSE "WAIT_SEMAPHORE_TIMED"]
        /\ t # INFINITE => current \in disturbed'
    BY DEF Block, WaitFor, yield_to_partition
  <1>1. CASE p # current
    <2>1. /\ state'[p] = state[p] /\ call'[p] = call[p] /\ timer'[p] = timer[p]
          /\ init_delay'[p] = init_delay[p] /\ ~suspended'[p]
      BY <1>b, <1>c, <1>t, <1>1 DEF Arm, Patient, Calm
    <2>2. \A r \in Semaphores : /\ p \in ToSet(queue'[r]) <=> p \in ToSet(queue[r])
                                /\ Once(queue[r], p) => Once(queue'[r], p)
      <3>1. Once(queue[s], p) => Once(queue'[s], p)
        BY <1>c, <1>e, <1>t, <1>1, EnqueueOnce
      <3> QED
        BY <1>q, <1>1, <3>1
    <2> QED
      BY <1>b, <1>t, <2>1, <2>2, PatientKept
  <1>2. CASE p = current
    <2>1. t = INFINITE
      BY <1>b, <1>2
    <2>2. /\ p \notin granted /\ timer[p] = NoTimer /\ init_delay[p] = 0 /\ ~suspended[p]
          /\ \A r \in Semaphores : p \notin ToSet(queue[r])
      BY <1>c, <1>t, <1>2 DEF Patient, Calm
    <2>3. /\ state'[p] = "WAITING" /\ call'[p] = "WAIT_SEMAPHORE" /\ timer'[p] = NoTimer
          /\ init_delay'[p] = 0 /\ ~suspended'[p] /\ p \notin granted'
      BY <1>b, <1>c, <1>t, <1>2, <2>1, <2>2 DEF Arm
    <2>4. Calm(p)'
      BY <1>b, <2>3 DEF Calm
    <2>5. Once(queue[s], p)
      <3>1. queue[s] \in Seq(Procs)
        BY <1>t DEF TypeOK
      <3> QED
        BY <2>2, <3>1, ToSetOfSeq DEF Once
    <2>6. Once(queue'[s], p)
      BY <1>c, <1>e, <1>t, <1>2, <2>2, <2>5, EnqueueOnce
    <2>7. \A r \in Semaphores : p \in ToSet(queue'[r]) <=> r = s
      BY <1>q, <1>2, <2>2
    <2> QED
      BY <2>3, <2>4, <2>6, <2>7 DEF Patient, Once
  <1> QED
    BY <1>1, <1>2

LEMMA HandOverPatient ==
  ASSUME SemBase, PatientInv, NEW s \in Semaphores, queue[s] # <<>>, HandOver(s),
         exec' = "os", UNCHANGED <<suspended, init_delay, call>>,
         NEW p \in Undisturbed
  PROVE  Patient(p)'
  <1> USE SemConstants
  <1>t. /\ TypeOK /\ p \in Procs /\ Patient(p) /\ s \in Resources
        /\ state \in [Procs -> States]
        /\ timer \in [Procs -> Nat \cup {INFINITE, NoTimer}]
    BY DEF SemBase, SchedInv, PatientInv, Undisturbed, Aperiodic, TypeOK
  <1> DEFINE w == Head(queue[s])
             q == queue[s]
             n == Tail(q)
  <1>1. /\ w \in Procs
        /\ w \in ToSet(queue[s])
        /\ queue' = [queue EXCEPT ![s] = n]
        /\ state' = [state EXCEPT ![w] = "READY"]
        /\ timer' = [timer EXCEPT ![w] = Served(timer[w])]
        /\ granted' = granted \cup {w}
    BY <1>t, HandOverFacts
  <1>2. q \in Seq(Procs)
    BY <1>t DEF TypeOK
  <1>3. /\ ToSet(n) \subseteq ToSet(q)
        /\ ToSet(q) \subseteq ToSet(n) \cup {w}
        /\ Once(q, w) => w \notin ToSet(n)
    BY <1>2, TailProperties, TailThinned
  <1>4. queue'[s] = n /\ \A r \in Semaphores \ {s} : queue'[r] = queue[r]
    BY <1>1, <1>t DEF TypeOK
  <1>5. Once(queue[s], p) => Once(queue'[s], p)
    BY <1>4, <1>t, QueueThinned
  <1> HIDE DEF w, n
  <1>6. CASE p # w
    <2>1. /\ state'[p] = state[p] /\ timer'[p] = timer[p] /\ ~suspended'[p]
          /\ p \in granted' <=> p \in granted
      BY <1>1, <1>t, <1>6 DEF Patient, Calm
    <2>2. \A r \in Semaphores : /\ p \in ToSet(queue'[r]) <=> p \in ToSet(queue[r])
                                /\ Once(queue[r], p) => Once(queue'[r], p)
      BY <1>3, <1>4, <1>5, <1>6
    <2> QED
      BY <1>t, <2>1, <2>2, PatientKept
  <1>7. CASE p = w
    <2>1. /\ state[p] = "WAITING" /\ call[p] = "WAIT_SEMAPHORE"
          /\ Once(q, p) /\ \A r \in Semaphores : p \in ToSet(queue[r]) => s = r
      BY <1>1, <1>t, <1>7 DEF Patient
    <2>2. timer[p] = NoTimer /\ init_delay[p] = 0 /\ ~suspended[p]
      BY <1>t, <2>1 DEF Patient, Calm
    <2>3. /\ state'[p] = "READY" /\ timer'[p] = NoTimer /\ p \in granted'
      BY <1>1, <1>t, <1>7, <2>2 DEF Served
    <2>4. Calm(p)'
      BY <2>2, <2>3 DEF Calm
    <2>5. \A r \in Semaphores : p \notin ToSet(queue'[r])
      BY <1>3, <1>4, <1>7, <2>1
    <2> QED
      BY <2>1, <2>3, <2>4, <2>5 DEF Patient
  <1> QED
    BY <1>6, <1>7

LEMMA ReturnPatient ==
  ASSUME SemBase, PatientInv, Return, NEW p \in Undisturbed
  PROVE  Patient(p)'
  <1>t. /\ TypeOK /\ RunningIsCurrent /\ p \in Procs /\ Patient(p)
        /\ call \in [Procs -> Doing]
    BY DEF SemBase, SchedInv, PatientInv, Undisturbed, Aperiodic, TypeOK
  <1>1. /\ UNCHANGED <<exec, state, suspended, timer, init_delay, queue>>
        /\ call' = [call EXCEPT ![current] = "app"]
        /\ granted' = granted \ {current}
        /\ exec = "proc" /\ current \in Procs /\ state[current] = "RUNNING"
    BY <1>t DEF Return, schedVars, timeVars, TypeOK, RunningIsCurrent
  <1>2. CASE p # current
    <2>1. call'[p] = call[p] /\ (p \in granted' <=> p \in granted) /\ ~suspended'[p]
      BY <1>1, <1>2, <1>t DEF Patient, Calm
    <2> QED
      BY <1>1, <1>t, <2>1, PatientKept
  <1>3. CASE p = current
    <2>1. \A s \in Semaphores : p \notin ToSet(queue[s])
      BY <1>1, <1>3, <1>t DEF Patient
    <2>2. timer[p] = NoTimer /\ init_delay[p] = 0 /\ ~suspended[p] /\ state[p] = "RUNNING"
      BY <1>1, <1>3, <1>t DEF Patient, Calm
    <2>3. call'[p] = "app" /\ p \notin granted'
      BY <1>1, <1>3, <1>t
    <2>4. Calm(p)'
      BY <1>1, <2>2, <2>3 DEF Calm
    <2>5. "app" \notin Waits
      BY DEF Waits
    <2> QED
      BY <1>1, <2>1, <2>3, <2>4, <2>5 DEF Patient
  <1> QED
    BY <1>2, <1>3


LEMMA PatientStep ==
  ASSUME SemBase, PatientInv, [SemNext]_allVars
  PROVE  PatientInv'
  <1> USE SemConstants
  <1>t. TypeOK /\ SchedInv /\ Unstarted
    BY DEF SemBase, SchedInv, PatientInv
  <1>c. \A s : Calls(s) => exec = "proc"
    BY DEF Calls
  <1>u. ASSUME UNCHANGED <<vars, granted, disturbed>> PROVE PatientInv'
    <2>1. Unstarted'
      BY <1>t, <1>u DEF Unstarted, vars, schedVars, waitVars
    <2>2. ASSUME NEW p \in Undisturbed PROVE Patient(p)'
      <3>1. Patient(p) /\ ~suspended[p]
        BY DEF PatientInv, Patient, Calm
      <3> QED
        BY <1>u, <3>1, PatientKept DEF vars, schedVars, timeVars, waitVars
    <2> QED
      BY <1>u, <2>1, <2>2 DEF PatientInv, Undisturbed
  <1>1. CASE ProcessStep
    <2>1. Unstarted'
      BY <1>1, <1>t, UnstartedStep DEF ProcessStep
    <2>2. ASSUME NEW p \in Undisturbed, p \notin disturbed' PROVE Patient(p)'
      BY <1>1, <2>2, ProcessStepPatient DEF ProcessStep
    <2>3. \A p \in Undisturbed' : p \in Undisturbed /\ p \notin disturbed'
      BY <1>1 DEF ProcessStep, Undisturbed
    <2> QED
      BY <2>1, <2>2, <2>3 DEF PatientInv
  <1>2. ASSUME NEW s \in Semaphores, NEW t \in Timeouts, WAIT_SEMAPHORE(s, t)
        PROVE  PatientInv'
    <2>1. CASE TakeToken(s)
      BY <2>1, <1>u DEF TakeToken
    <2>2. CASE Block(s, t)
      <3>1. exec' = "os" /\ Calls("WAIT_SEMAPHORE")
        BY <1>2, <2>2 DEF WAIT_SEMAPHORE, Block, WaitFor, yield_to_partition
      <3>2. ASSUME NEW p \in Undisturbed, p \notin disturbed' PROVE Patient(p)'
        BY <2>2, <3>1, <3>2, BlockPatient
      <3>3. \A p \in Undisturbed' : p \in Undisturbed /\ p \notin disturbed'
        BY <2>2 DEF Block, Undisturbed
      <3> QED
        BY <3>1, <3>2, <3>3 DEF PatientInv, Unstarted
    <2> QED
      BY <1>2, <2>1, <2>2 DEF WAIT_SEMAPHORE
  <1>3. ASSUME NEW s \in Semaphores, SIGNAL_SEMAPHORE(s) PROVE PatientInv'
    <2>1. CASE UNCHANGED <<vars, granted, disturbed>>
      BY <2>1, <1>u
    <2>2. CASE /\ queue[s] # <<>> /\ HandOver(s) /\ exec' = "os"
               /\ UNCHANGED <<suspended, init_delay, call, disturbed>>
      <3>1. ASSUME NEW p \in Undisturbed PROVE Patient(p)'
        BY <2>2, HandOverPatient
      <3> QED
        BY <2>2, <3>1 DEF PatientInv, Unstarted, Undisturbed
    <2> QED
      BY <1>3, <2>1, <2>2 DEF SIGNAL_SEMAPHORE, yield_to_partition
  <1>4. CASE Return
    <2>1. ASSUME NEW p \in Undisturbed PROVE Patient(p)'
      BY <1>4, ReturnPatient
    <2>2. exec' = "proc" /\ disturbed' = disturbed
      BY <1>4 DEF Return, schedVars
    <2> QED
      BY <2>1, <2>2 DEF PatientInv, Unstarted, Undisturbed
  <1>5. CASE UNCHANGED allVars
    BY <1>5, <1>u DEF allVars, semVars
  <1> QED
    BY <1>1, <1>2, <1>3, <1>4, <1>5 DEF SemNext

LEMMA PatientInvariant == SemSpec => []PatientInv
  BY InitPatient, PatientStep, SemBaseInvariant, PTL DEF SemSpec

(* The queue of a semaphore loses nobody and serves nobody twice who only  *)
(* waits without time-outs and is left alone, whatever happens to the      *)
(* other processes: stale entries of theirs do not cost it its place.      *)
THEOREM UndisturbedAreQueuedOnce == SemSpec => []QueuedAreWaiting
  <1>1. ASSUME SemBase, PatientInv, NEW s \in Semaphores,
               NEW p \in ToSet(queue[s]) \cap Undisturbed
        PROVE  /\ state[p] = "WAITING" /\ call[p] = "WAIT_SEMAPHORE" /\ p \notin granted
               /\ Cardinality({i \in 1 .. Len(queue[s]) : queue[s][i] = p}) = 1
    <2>1. /\ state[p] = "WAITING" /\ call[p] = "WAIT_SEMAPHORE" /\ p \notin granted
          /\ Once(queue[s], p)
      BY <1>1 DEF PatientInv, Patient
    <2>2. queue[s] \in Seq(Procs)
      BY <1>1, SemConstants DEF SemBase, SchedInv, TypeOK
    <2>3. PICK k \in 1 .. Len(queue[s]) : queue[s][k] = p
      BY <1>1, <2>2, ToSetOfSeq
    <2>4. {i \in 1 .. Len(queue[s]) : queue[s][i] = p} = {k}
      BY <2>1, <2>3 DEF Once
    <2>5. Cardinality({k}) = 1
      BY FS_Singleton
    <2> QED
      BY <2>1, <2>4, <2>5
  <1>2. SemBase /\ PatientInv => QueuedAreWaiting
    BY <1>1 DEF QueuedAreWaiting
  <1> QED
    BY <1>2, SemBaseInvariant, PatientInvariant, PTL

(* Whoever is left alone and waits without a time-out learns the truth:    *)
(* WAIT_SEMAPHORE returns NO_ERROR to it exactly if a signal handed it a   *)
(* token.                                                                  *)
THEOREM UndisturbedLearnTheTruth == SemSpec => []ReturnTellsTruth
  <1>1. ASSUME SemBase, PatientInv, exec = "proc", call[current] \in Waits,
               current \in Undisturbed
        PROVE  ReturnsNoError(current) /\ current \in granted
    <2>1. state[current] = "RUNNING" /\ Patient(current)
      BY <1>1 DEF SemBase, SchedInv, RunningIsCurrent, PatientInv
    <2>2. current \in granted /\ call[current] = "WAIT_SEMAPHORE"
      BY <1>1, <2>1 DEF Patient
    <2> QED
      BY <2>2 DEF ReturnsNoError
  <1>2. SemBase /\ PatientInv => ReturnTellsTruth
    BY <1>1 DEF ReturnTellsTruth
  <1> QED
    BY <1>2, SemBaseInvariant, PatientInvariant, PTL
=============================================================================
