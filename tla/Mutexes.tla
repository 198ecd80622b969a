------------------------------- MODULE Mutexes -------------------------------
(***************************************************************************)
(* The mutexes of a partition (kernel/mutex.c, ACQUIRE_MUTEX,              *)
(* RELEASE_MUTEX and RESET_MUTEX of arinc_intrapartition_communication.c)  *)
(* and the preemption lock built on one of them (LOCK_PREEMPTION and       *)
(* UNLOCK_PREEMPTION of arinc_process.c), together with the partition's    *)
(* processes.  A mutex has a ceiling: its owner runs at MUTEX_PRIORITY and *)
(* gets its own priority back when it releases; the mutex then passes to   *)
(* the first waiter.  Ownership is recorded twice, in the mutex            *)
(* (MUTEX_OWNER) and in the process (owned_mutex_id).                      *)
(***************************************************************************)
EXTENDS Processes

CONSTANTS
  MutexPriority,    \* MUTEX_PRIORITY of each mutex
  PreemptionLock,   \* PREEMPTION_LOCK_MUTEX
  MaxLockLevel      \* MAX_LOCK_LEVEL

ASSUME MutexesAssumption ==
  /\ PreemptionLock \in Mutexes
  /\ MutexPriority \in [Mutexes -> Nat]
  /\ MaxLockLevel \in Nat \ {0}

VARIABLES
  owner,       \* MUTEX_OWNER; None when MUTEX_STATE is AVAILABLE
  lock_count,  \* LOCK_COUNT
  saved,       \* saved_owner_priority
  lock_level   \* partition->status->LOCK_LEVEL

mutexVars == <<owner, lock_count, saved, lock_level>>
allVars == <<vars, mutexVars>>

-----------------------------------------------------------------------------
(* Forms of the definitions below with a plausible fault in them.          *)
TakeAgainUnbounded(m) ==
  /\ owner[m] = current
  /\ lock_count[m] <= MaxLockLevel
  /\ lock_count' = [lock_count EXCEPT ![m] = @ + 1]
  /\ UNCHANGED <<vars, owner, saved>>

PassOnKeepsWaiter(m, p) ==
  LET w == IF queue[m] = <<>> THEN None ELSE Head(queue[m])
  IN  /\ owner' = [owner EXCEPT ![m] = w]
      /\ lock_count' = [lock_count EXCEPT ![m] = IF w = None THEN 0 ELSE 1]
      /\ owned' = [q \in Procs |->
                     CASE q = w -> m [] q = p /\ p # w -> None [] OTHER -> owned[q]]
      /\ priority' = [priority EXCEPT ![p] = saved[m]]
      /\ UNCHANGED <<queue, order, saved, tracked>>

PassOnKeepsOwned(m, p) ==
  /\ queue[m] = <<>>
  /\ owner' = [owner EXCEPT ![m] = None]
  /\ lock_count' = [lock_count EXCEPT ![m] = 0]
  /\ priority' = [priority EXCEPT ![p] = saved[m]]
  /\ UNCHANGED <<queue, order, owned, saved, tracked>>

SaveNothing(m, p, v) ==
  /\ priority' = [priority EXCEPT ![p] = v]
  /\ UNCHANGED saved

LevelBeforeStep == lock_level' = lock_count[PreemptionLock]

TakeKeepsPriority(m) ==
  /\ owner[m] = None
  /\ owner' = [owner EXCEPT ![m] = current]
  /\ owned' = [owned EXCEPT ![current] = m]
  /\ lock_count' = [lock_count EXCEPT ![m] = @ + 1]
  /\ saved' = [saved EXCEPT ![m] = priority[current]]
  /\ order' = ToFront(order, current)
  /\ UNCHANGED <<mode, exec, current, tick_pending, state, priority, suspended,
                 timeVars, call, queue, tracked>>

-----------------------------------------------------------------------------
(* Acquiring *)

(* The calls krnl_acquire_mutex accepts from the running process.          *)
MayAcquire(m) ==
  /\ owned[current] \in {None, m}
  /\ current # ErrorHandler
  /\ priority[current] <= MutexPriority[m]

Take(m) ==
  /\ owner[m] = None
  /\ owner' = [owner EXCEPT ![m] = current]
  /\ owned' = [owned EXCEPT ![current] = m]
  /\ lock_count' = [lock_count EXCEPT ![m] = @ + 1]
  /\ saved' = [saved EXCEPT ![m] = priority[current]]
  /\ priority' = [priority EXCEPT ![current] = MutexPriority[m]]
  /\ order' = ToFront(order, current)
  /\ UNCHANGED <<mode, exec, current, tick_pending, state, suspended, timeVars,
                 call, queue, tracked>>

TakeAgain(m) ==
  /\ owner[m] = current
  /\ lock_count[m] # MaxLockLevel
  /\ lock_count' = [lock_count EXCEPT ![m] = @ + 1]
  /\ UNCHANGED <<vars, owner, saved>>

(* c is the service to return to.                                          *)
AwaitMutex(m, t, c) ==
  /\ owner[m] \notin {None, current}
  /\ t # 0
  /\ state' = [state EXCEPT ![current] = "WAITING"]
  /\ Enqueue(m)
  /\ tracked' = [tracked EXCEPT ![current] = (@ \ Mutexes) \cup {m}]
  /\ timer' = Arm(t)
  /\ call' = [call EXCEPT ![current] = c]
  /\ yield_to_partition
  /\ UNCHANGED <<mode, current, order, tick_pending, priority, suspended,
                 release, init_delay, grid, owned, owner, lock_count, saved>>

ACQUIRE_MUTEX(m, t) ==
  /\ Calls("ACQUIRE_MUTEX")
  /\ m # PreemptionLock
  /\ MayAcquire(m)
  /\ \/ Take(m)
     \/ TakeAgain(m)
     \/ AwaitMutex(m, t, IF t = INFINITE THEN "ACQUIRE_MUTEX"
                                         ELSE "ACQUIRE_MUTEX_TIMED")
  /\ UNCHANGED lock_level

-----------------------------------------------------------------------------
(* Releasing: the mutex passes to its first waiter *)

Woken(m) == IF queue[m] = <<>> THEN {} ELSE {Head(queue[m])}

(* The priorities once p has its own back.                                 *)
Restored(m, p) == [priority EXCEPT ![p] = saved[m]]

PassOn(m, p) ==
  /\ queue' = [queue EXCEPT ![m] = IF @ = <<>> THEN @ ELSE Tail(@)]
  /\ \/ /\ Woken(m) = {}
        /\ owner' = [owner EXCEPT ![m] = None]
        /\ lock_count' = [lock_count EXCEPT ![m] = 0]
        /\ owned' = [owned EXCEPT ![p] = None]
        /\ priority' = Restored(m, p)
        /\ order' = ToFront(order, p)
        /\ UNCHANGED <<saved, tracked>>
     \/ \E w \in Woken(m) :
          /\ owner' = [owner EXCEPT ![m] = w]
          /\ lock_count' = [lock_count EXCEPT ![m] = 1]
          /\ owned' = [owned EXCEPT ![p] = None, ![w] = m]
          /\ saved' = [saved EXCEPT ![m] = Restored(m, p)[w]]
          /\ priority' = [Restored(m, p) EXCEPT ![w] = MutexPriority[m]]
          /\ order' = ToFront(ToFront(order, p), w)
          /\ tracked' = [tracked EXCEPT ![w] = @ \ Mutexes]

StateAfterPass(m) ==
  [q \in Procs |-> IF q \in Woken(m) THEN "READY" ELSE state[q]]

TimerAfterPass(m) ==
  [q \in Procs |-> IF q \in Woken(m) THEN Served(timer[q]) ELSE timer[q]]

(* krnl_release_mutex: the last release passes the mutex on and yields.    *)
Release(m) ==
  /\ owned[current] = m
  /\ \/ /\ lock_count[m] # 1
        /\ lock_count' = [lock_count EXCEPT ![m] = @ - 1]
        /\ UNCHANGED <<vars, owner, saved>>
     \/ /\ lock_count[m] = 1
        /\ PassOn(m, current)
        /\ state' = StateAfterPass(m)
        /\ timer' = TimerAfterPass(m)
        /\ yield_to_partition
        /\ UNCHANGED <<mode, current, tick_pending, suspended, release,
                       init_delay, grid>>

RELEASE_MUTEX(m) ==
  /\ Calls("RELEASE_MUTEX")
  /\ m # PreemptionLock
  /\ Release(m)
  /\ UNCHANGED <<call, lock_level>>

(* A reset by the owner or, for any owner and mutex, by the error handler. *)
RESET_MUTEX(m, p) ==
  /\ Calls("RESET_MUTEX")
  /\ owned[p] = m
  /\ current \in {p, ErrorHandler}
  /\ m = PreemptionLock => current = ErrorHandler
  /\ PassOn(m, p)
  /\ state' = StateAfterPass(m)
  /\ timer' = TimerAfterPass(m)
  /\ lock_level' = IF m = PreemptionLock THEN 0 ELSE lock_level
  /\ yield_to_partition
  /\ UNCHANGED <<mode, current, tick_pending, suspended, release, init_delay,
                 grid, call>>

(* STOP_SELF of an owner.  STOP, in contrast, leaves the mutexes of the    *)
(* process it stops alone.                                                 *)
STOP_SELF_owner ==
  LET m == owned[current]
  IN  /\ Calls("STOP_SELF")
      /\ m # None
      /\ PassOn(m, current)
      /\ state' = [StateAfterPass(m) EXCEPT ![current] = "DORMANT"]
      /\ timer' = [TimerAfterPass(m) EXCEPT ![current] = NoTimer]
      /\ suspended' = [suspended EXCEPT ![current] = FALSE]
      /\ lock_level' = IF m = PreemptionLock THEN 0 ELSE lock_level
      /\ yield_to_partition
      /\ UNCHANGED <<mode, current, tick_pending, release, init_delay, grid, call>>

(* The new priority of an owner waits until it releases its mutex.         *)
SavePriority(m, p, v) ==
  /\ saved' = [saved EXCEPT ![m] = v]
  /\ UNCHANGED priority

(* SET_PRIORITY of a process that owns a mutex.                            *)
SET_PRIORITY_owner(p, v) ==
  /\ Calls("SET_PRIORITY")
  /\ state[p] # "DORMANT"
  /\ owned[p] # None
  /\ SavePriority(owned[p], p, v)
  /\ \/ /\ state[p] \in {"READY", "RUNNING"}
        /\ order' = ToBack(order, p)
        /\ yield_to_partition
     \/ /\ state[p] \notin {"READY", "RUNNING"}
        /\ UNCHANGED <<order, exec>>
  /\ UNCHANGED <<mode, current, tick_pending, state, suspended, timeVars,
                 waitVars, owner, lock_count, lock_level>>

-----------------------------------------------------------------------------
(* The preemption lock: LOCK_LEVEL copies the mutex's LOCK_COUNT after the *)
(* mutex call has returned, which may be after other processes have run.   *)
SetLockLevel == lock_level' = lock_count'[PreemptionLock]

LOCK_PREEMPTION ==
  /\ Calls("LOCK_PREEMPTION")
  /\ current # ErrorHandler
  /\ \/ /\ MayAcquire(PreemptionLock)
        /\ Take(PreemptionLock) \/ TakeAgain(PreemptionLock)
        /\ SetLockLevel
     \/ /\ MayAcquire(PreemptionLock)
        /\ AwaitMutex(PreemptionLock, INFINITE, "LOCK_PREEMPTION")
        /\ UNCHANGED lock_level
     \/ /\ \/ ~MayAcquire(PreemptionLock)
           \/ owner[PreemptionLock] = current /\ lock_count[PreemptionLock] = MaxLockLevel
        /\ UNCHANGED <<vars, owner, lock_count, saved>>
        /\ SetLockLevel

UNLOCK_PREEMPTION ==
  /\ Calls("UNLOCK_PREEMPTION")
  /\ current # ErrorHandler
  /\ lock_level # 0
  /\ owned[current] = PreemptionLock
  /\ Release(PreemptionLock)
  /\ \/ /\ lock_count[PreemptionLock] # 1
        /\ SetLockLevel
     \/ /\ lock_count[PreemptionLock] = 1
        /\ call' = [call EXCEPT ![current] = "UNLOCK_PREEMPTION"]
        /\ UNCHANGED lock_level

(* The code after the yield.                                               *)
Return ==
  /\ exec = "proc"
  /\ \/ /\ call[current] \in {"ACQUIRE_MUTEX", "ACQUIRE_MUTEX_TIMED"}
        /\ UNCHANGED <<lock_count, lock_level>>
     \/ /\ call[current] \in {"LOCK_PREEMPTION", "UNLOCK_PREEMPTION"}
        /\ UNCHANGED lock_count
        /\ SetLockLevel
  /\ call' = [call EXCEPT ![current] = "app"]
  /\ UNCHANGED <<schedVars, state, priority, suspended, timeVars, queue,
                 tracked, owned, owner, saved>>

-----------------------------------------------------------------------------
MutexInit ==
  /\ Init
  /\ owner = [m \in Mutexes |-> None]
  /\ lock_count = [m \in Mutexes |-> 0]
  /\ saved = [m \in Mutexes |-> 0]
  /\ lock_level = 0

ProcessStep == Next /\ UNCHANGED mutexVars

MutexNext ==
  \/ ProcessStep
  \/ \E m \in Mutexes, t \in Timeouts : ACQUIRE_MUTEX(m, t)
  \/ \E m \in Mutexes : RELEASE_MUTEX(m)
  \/ \E m \in Mutexes, p \in Named : RESET_MUTEX(m, p)
  \/ STOP_SELF_owner
  \/ \E p \in Named, v \in Priorities : SET_PRIORITY_owner(p, v)
  \/ LOCK_PREEMPTION
  \/ UNLOCK_PREEMPTION
  \/ Return

MutexSpec == MutexInit /\ [][MutexNext]_allVars

-----------------------------------------------------------------------------
(* Properties *)

(* Lock counts and levels stay within 0..MAX_LOCK_LEVEL.                   *)
MutexTypeOK ==
  /\ TypeOK
  /\ owner \in [Mutexes -> Procs \cup {None}]
  /\ lock_count \in [Mutexes -> 0 .. MaxLockLevel]
  /\ saved \in [Mutexes -> Nat]
  /\ lock_level \in 0 .. MaxLockLevel

(* The two records of ownership agree, so that no mutex has two owners and *)
(* no process two mutexes, through every release, reset, stop and          *)
(* hand-over; a mutex is free exactly when its lock count is 0, and nobody *)
(* waits for a free mutex.                                                 *)
OwnershipAgrees ==
  \A m \in Mutexes :
    /\ \A p \in Procs : owned[p] = m <=> owner[m] = p
    /\ owner[m] = None <=> lock_count[m] = 0
    /\ owner[m] = None => queue[m] = <<>>

(* The owner of a mutex runs at the mutex's ceiling, whatever SET_PRIORITY *)
(* asks for in the meantime.                                               *)
OwnerHasCeiling ==
  \A m \in Mutexes : owner[m] # None => priority[owner[m]] = MutexPriority[m]

(* The processes queued for a mutex wait for it and own nothing.           *)
WaitersWait ==
  \A m \in Mutexes : \A p \in ToSet(queue[m]) :
    state[p] = "WAITING" /\ owned[p] = None /\ tracked[p] = {m}

(* While preemption is locked no other process runs, but one of the lock's *)
(* own priority: the lock is a mutex of ceiling MAX_PRIORITY_VALUE, and an *)
(* owner whose priority is set goes behind its equals.                     *)
PreemptionLocked ==
  exec = "proc" /\ owner[PreemptionLock] # None =>
    \/ current = owner[PreemptionLock]
    \/ priority[current] >= MutexPriority[PreemptionLock]

(* The owner of the preemption lock can always unlock it: UNLOCK_          *)
(* PREEMPTION tests LOCK_LEVEL, a copy that other processes' calls set.    *)
LockLevelAgrees ==
  exec = "proc" /\ call[current] = "app" /\ owned[current] = PreemptionLock =>
    lock_level = lock_count[PreemptionLock]

=============================================================================
