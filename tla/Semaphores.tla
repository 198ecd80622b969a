------------------------------ MODULE Semaphores ------------------------------
(***************************************************************************)
(* The counting semaphores of a partition (CREATE_SEMAPHORE,               *)
(* WAIT_SEMAPHORE, SIGNAL_SEMAPHORE in                                     *)
(* arinc/arinc_intrapartition_communication.c) together with the           *)
(* partition's processes, whose services (STOP, SUSPEND, time-outs, ...)   *)
(* hit a process that waits on a semaphore.                                *)
(*                                                                         *)
(* A signal hands the token to the first waiter and leaves CURRENT_VALUE   *)
(* alone.  The waiter learns what happened from its time_counter, when it  *)
(* next runs: only the code after its yield sets the return code.          *)
(***************************************************************************)
EXTENDS Processes

CONSTANTS
  Semaphores,        \* the semaphores the partition creates
  InitialValue,      \* CURRENT_VALUE at creation
  MaximumValue       \* MAXIMUM_VALUE

ASSUME SemaphoresAssumption ==
  /\ Semaphores \subseteq Resources
  /\ MaximumValue \in [Semaphores -> Nat \ {0}]
  /\ InitialValue \in [Semaphores -> Nat]
  /\ \A s \in Semaphores : InitialValue[s] <= MaximumValue[s]

VARIABLES
  value,     \* semaphore_status.CURRENT_VALUE
  granted,   \* history: processes handed a token they do not know of yet
  disturbed  \* history: processes that have waited with a time-out, or were
             \* stopped or suspended

semVars == <<value, granted, disturbed>>
allVars == <<vars, semVars>>

-----------------------------------------------------------------------------
(* Forms of the definitions below with a plausible fault in them.          *)
HandOverAndCount(s) ==
  LET w == Head(queue[s])
  IN  /\ queue' = [queue EXCEPT ![s] = Tail(@)]
      /\ tracked' = [tracked EXCEPT ![w] = @ \ Semaphores]
      /\ state' = [state EXCEPT ![w] = "READY"]
      /\ timer' = [timer EXCEPT ![w] = Served(@)]
      /\ granted' = granted \cup {w}
      /\ value' = [value EXCEPT ![s] = @ + 1]

HandOverTwice(s) ==
  LET w == Head(queue[s])
  IN  /\ tracked' = [tracked EXCEPT ![w] = @ \ Semaphores]
      /\ state' = [state EXCEPT ![w] = "READY"]
      /\ timer' = [timer EXCEPT ![w] = Served(@)]
      /\ granted' = granted \cup {w}
      /\ UNCHANGED <<queue, value>>

BlockStaysReady(s, t) ==
  /\ value[s] = 0
  /\ t # 0
  /\ MayWait
  /\ Enqueue(s)
  /\ call' = [call EXCEPT ![current] = "WAIT_SEMAPHORE"]
  /\ yield_to_partition
  /\ UNCHANGED <<mode, current, order, tick_pending, state, priority, suspended,
                 timeVars, tracked, owned, semVars>>

SignalUnbounded(s) ==
  /\ Calls("SIGNAL_SEMAPHORE")
  /\ queue[s] = <<>>
  /\ value[s] <= MaximumValue[s]
  /\ value' = [value EXCEPT ![s] = @ + 1]
  /\ UNCHANGED <<vars, granted, disturbed>>

-----------------------------------------------------------------------------
TakeToken(s) ==
  /\ value[s] > 0
  /\ value' = [value EXCEPT ![s] = @ - 1]
  /\ UNCHANGED <<vars, granted, disturbed>>

(* Only a wait with a time-out sets waiting_semaphore and the timer.       *)
Block(s, t) ==
  /\ value[s] = 0
  /\ WaitFor(s, s \in PriorityQueued, t,
             IF t = INFINITE THEN tracked[current]
                             ELSE (tracked[current] \ Semaphores) \cup {s},
             "WAIT_SEMAPHORE", "WAIT_SEMAPHORE_TIMED")
  /\ disturbed' = IF t = INFINITE THEN disturbed ELSE disturbed \cup {current}
  /\ UNCHANGED <<value, granted>>

WAIT_SEMAPHORE(s, t) == Calls("WAIT_SEMAPHORE") /\ (TakeToken(s) \/ Block(s, t))

(* The first waiter is made READY, whatever state it is in.                *)
HandOver(s) ==
  LET w == Head(queue[s])
  IN  /\ queue' = [queue EXCEPT ![s] = Tail(@)]
      /\ tracked' = [tracked EXCEPT ![w] = @ \ Semaphores]
      /\ state' = [state EXCEPT ![w] = "READY"]
      /\ timer' = [timer EXCEPT ![w] = Served(@)]
      /\ granted' = granted \cup {w}
      /\ UNCHANGED value

SIGNAL_SEMAPHORE(s) ==
  /\ Calls("SIGNAL_SEMAPHORE")
  /\ value[s] # MaximumValue[s]
  /\ \/ /\ queue[s] = <<>>
        /\ value' = [value EXCEPT ![s] = @ + 1]
        /\ UNCHANGED <<vars, granted, disturbed>>
     \/ /\ queue[s] # <<>>
        /\ HandOver(s)
        /\ yield_to_partition
        /\ UNCHANGED <<mode, current, order, tick_pending, priority, suspended,
                       release, init_delay, grid, call, owned, disturbed>>

(* The code of WAIT_SEMAPHORE after the yield sets the return code:        *)
(* NO_ERROR after an infinite wait, and after a timed one if the timer has *)
(* not been cleared.                                                       *)
Waits == {"WAIT_SEMAPHORE", "WAIT_SEMAPHORE_TIMED"}

ReturnsNoError(p) == call[p] = "WAIT_SEMAPHORE" \/ timer[p] # NoTimer

Return ==
  /\ exec = "proc"
  /\ call[current] \in Waits
  /\ call' = [call EXCEPT ![current] = "app"]
  /\ granted' = granted \ {current}
  /\ UNCHANGED <<schedVars, state, priority, suspended, timeVars, queue,
                 tracked, owned, value, disturbed>>

-----------------------------------------------------------------------------
SemInit ==
  /\ Init
  /\ value = InitialValue
  /\ granted = {}
  /\ disturbed = {}

(* Processes that a step stops or suspends.                                *)
Hit == {p \in Procs : \/ state'[p] = "DORMANT" /\ state[p] # "DORMANT"
                      \/ suspended'[p]}

(* Steps of the processes; a restarted process has forgotten its wait.     *)
ProcessStep ==
  /\ Next
  /\ granted' = {p \in granted : call'[p] # "app"}
  /\ disturbed' = disturbed \cup Hit
  /\ UNCHANGED value

SemNext ==
  \/ ProcessStep
  \/ \E s \in Semaphores, t \in Timeouts : WAIT_SEMAPHORE(s, t)
  \/ \E s \in Semaphores : SIGNAL_SEMAPHORE(s)
  \/ Return

SemSpec == SemInit /\ [][SemNext]_allVars

-----------------------------------------------------------------------------
(* Properties *)

(* Values stay between 0 and MAXIMUM_VALUE, also when a signal finds a     *)
(* full semaphore or waiting processes.                                    *)
SemTypeOK ==
  /\ TypeOK
  /\ \A s \in Semaphores : value[s] \in 0 .. MaximumValue[s]
  /\ granted \subseteq Procs
  /\ disturbed \subseteq Procs

(* No process is left waiting while a token is available: WAIT_SEMAPHORE   *)
(* and SIGNAL_SEMAPHORE agree on who takes the last token, whatever the    *)
(* other services do to the queue.                                         *)
NoIdleToken ==
  \A s \in Semaphores : value[s] > 0 => queue[s] = <<>>

(* Aperiodic processes that only wait without a time-out, and were never   *)
(* stopped or suspended.  (A periodic one is made READY by the next tick:  *)
(* check_and_release_periodic_waiting_processes looks only at its state    *)
(* and at its release point, which has passed.)                            *)
Undisturbed == Aperiodic \ disturbed

(* Such a process is in the queue exactly while it waits, and once; no     *)
(* stale entry of another process costs it its place, and no token goes to *)
(* it that it did not wait for.                                            *)
QueuedAreWaiting ==
  \A s \in Semaphores :
    \A p \in ToSet(queue[s]) \cap Undisturbed :
      /\ state[p] = "WAITING" /\ call[p] = "WAIT_SEMAPHORE" /\ p \notin granted
      /\ Cardinality({i \in 1 .. Len(queue[s]) : queue[s][i] = p}) = 1

(* The wait of such a process returns NO_ERROR if and only if the process  *)
(* was handed a token, whatever other processes' time-outs do.             *)
ReturnTellsTruth ==
  exec = "proc" /\ call[current] \in Waits /\ current \in Undisturbed =>
    (ReturnsNoError(current) <=> current \in granted)

(* A queue of discipline PRIORITY is served in order of priority           *)
(* (README, "Queuing Ports": waiting queues respect their ordering).       *)
QueueOrdered ==
  \A s \in PriorityQueued \cap Semaphores :
    \A i, j \in 1 .. Len(queue[s]) :
      i < j => priority[queue[s][j]] <= priority[queue[s][i]]

(* A process whose wait timed out is taken off the queue (comment in       *)
(* check_timeouts, arinc/arinc_time.c).                                    *)
TimedOutLeavesQueue ==
  \A s \in Semaphores, p \in Procs :
    call[p] = "WAIT_SEMAPHORE_TIMED" /\ timer[p] = NoTimer => p \notin ToSet(queue[s])

=============================================================================
