---------------------------- MODULE MutexesProofs ----------------------------
(***************************************************************************)
(* Proofs about Mutexes for any number of processes and mutexes, any       *)
(* ceilings, priorities and lock levels.                                   *)
(***************************************************************************)
EXTENDS Mutexes, ProcessesProofs

(***************************************************************************)
(* What holds whatever the services and the time-outs                      *)
(***************************************************************************)

(* A mutex is free exactly when its lock count is 0, and then nobody waits *)
(* for it; a process that believes it owns a mutex is its owner.  (The     *)
(* converse needs more: a waiter whose wait timed out keeps its place, and *)
(* may be handed a second mutex.)                                          *)
FreeIffUnlocked ==
  \A m \in Mutexes :
    /\ owner[m] = None <=> lock_count[m] = 0
    /\ owner[m] = None => queue[m] = <<>>

OwnedIsOwner ==
  \A p \in Procs, m \in Mutexes : owned[p] = m => owner[m] = p

MutexBase == MutexTypeOK /\ FreeIffUnlocked /\ OwnedIsOwner

LEMMA MutexConstants ==
  /\ Mutexes \subseteq Resources /\ None \notin Mutexes /\ None \notin Procs
  /\ PreemptionLock \in Mutexes /\ MutexPriority \in [Mutexes -> Nat]
  /\ MaxLockLevel \in Nat /\ 0 \in 0 .. MaxLockLevel /\ 1 \in 0 .. MaxLockLevel
  /\ Named \subseteq Procs
  BY ProcsAssumption, MutexesAssumption DEF Named

LEMMA InitBase == MutexInit => MutexBase
  <1> SUFFICES ASSUME MutexInit PROVE MutexBase
    OBVIOUS
  <1>1. Init /\ TypeOK
    BY InitTypeOK DEF MutexInit
  <1>2. /\ owner \in [Mutexes -> Procs \cup {None}]
        /\ lock_count \in [Mutexes -> 0 .. MaxLockLevel]
        /\ saved \in [Mutexes -> Nat]
        /\ lock_level \in 0 .. MaxLockLevel
    BY MutexConstants DEF MutexInit
  <1>3. FreeIffUnlocked /\ OwnedIsOwner
    BY <1>1, MutexConstants DEF MutexInit, Init, FreeIffUnlocked, OwnedIsOwner
  <1> QED
    BY <1>1, <1>2, <1>3 DEF MutexBase, MutexTypeOK

(* The state of a mutex and of its queue, and what the processes think.    *)
LEMMA FrontType ==
  ASSUME TypeOK, NEW p \in Procs, NEW o \in Seq(Procs),
         Len(o) = Cardinality(Procs), ToSet(o) = Procs
  PROVE  /\ ToFront(o, p) \in Seq(Procs)
         /\ Len(ToFront(o, p)) = Cardinality(Procs)
         /\ ToSet(ToFront(o, p)) = Procs
  BY ToFrontProperties

LEMMA WokenIsHead ==
  ASSUME TypeOK, NEW m \in Mutexes, NEW w \in Woken(m)
  PROVE  queue[m] # <<>> /\ w = Head(queue[m]) /\ w \in Procs /\ w \in ToSet(queue[m])
  <1>1. queue[m] \in Seq(Procs)
    BY MutexConstants DEF TypeOK
  <1>2. queue[m] # <<>> /\ w = Head(queue[m])
    BY DEF Woken
  <1> QED
    BY <1>1, <1>2, TailProperties

(* What a hand-over writes.                                                *)
LEMMA PassOnType ==
  ASSUME MutexBase, NEW m \in Mutexes, NEW p \in Procs, owned[p] = m, PassOn(m, p)
  PROVE  /\ queue' \in [Resources -> Seq(Procs)]
         /\ tracked' \in [Procs -> SUBSET Resources]
         /\ owned' \in [Procs -> Mutexes \cup {None}]
         /\ priority' \in [Procs -> Nat]
         /\ order' \in Seq(Procs) /\ Len(order') = Cardinality(Procs) /\ ToSet(order') = Procs
         /\ owner' \in [Mutexes -> Procs \cup {None}]
         /\ lock_count' \in [Mutexes -> 0 .. MaxLockLevel]
         /\ saved' \in [Mutexes -> Nat]
         /\ StateAfterPass(m) \in [Procs -> States]
         /\ TimerAfterPass(m) \in [Procs -> Nat \cup {INFINITE, NoTimer}]
         /\ FreeIffUnlocked' /\ OwnedIsOwner'
  <1> USE MutexConstants
  <1>t. /\ TypeOK /\ queue \in [Resources -> Seq(Procs)]
        /\ tracked \in [Procs -> SUBSET Resources]
        /\ owned \in [Procs -> Mutexes \cup {None}]
        /\ priority \in [Procs -> Nat]
        /\ order \in Seq(Procs) /\ Len(order) = Cardinality(Procs) /\ ToSet(order) = Procs
        /\ owner \in [Mutexes -> Procs \cup {None}]
        /\ lock_count \in [Mutexes -> 0 .. MaxLockLevel]
        /\ saved \in [Mutexes -> Nat]
        /\ state \in [Procs -> States]
        /\ timer \in [Procs -> Nat \cup {INFINITE, NoTimer}]
    BY DEF MutexBase, MutexTypeOK, TypeOK
  <1>s. /\ StateAfterPass(m) \in [Procs -> States]
        /\ TimerAfterPass(m) \in [Procs -> Nat \cup {INFINITE, NoTimer}]
    BY <1>t DEF StateAfterPass, TimerAfterPass, Served, States
  <1>r. Restored(m, p) \in [Procs -> Nat]
    BY <1>t DEF Restored
  <1>o. owner[m] = p /\ \A q \in Procs : owned[q] = m => q = p
    BY DEF MutexBase, OwnedIsOwner
  <1>1. CASE Woken(m) = {}
    <2>1. queue[m] = <<>>
      BY <1>1 DEF Woken
    <2>2. /\ queue' = queue /\ tracked' = tracked /\ saved' = saved
          /\ owner' = [owner EXCEPT ![m] = None]
          /\ lock_count' = [lock_count EXCEPT ![m] = 0]
          /\ owned' = [owned EXCEPT ![p] = None]
          /\ priority' = Restored(m, p)
          /\ order' = ToFront(order, p)
      BY <1>1, <1>t, <2>1 DEF PassOn
    <2>3. order' \in Seq(Procs) /\ Len(order') = Cardinality(Procs) /\ ToSet(order') = Procs
      BY <1>t, <2>2, FrontType
    <2>4. FreeIffUnlocked'
      BY <1>t, <2>1, <2>2 DEF FreeIffUnlocked, MutexBase
    <2>5. OwnedIsOwner'
      BY <1>t, <1>o, <2>2 DEF OwnedIsOwner, MutexBase
    <2> QED
      BY <1>s, <1>r, <1>t, <2>2, <2>3, <2>4, <2>5
  <1>2. ASSUME NEW w \in Woken(m),
               owner' = [owner EXCEPT ![m] = w],
               lock_count' = [lock_count EXCEPT ![m] = 1],
               owned' = [owned EXCEPT ![p] = None, ![w] = m],
               saved' = [saved EXCEPT ![m] = Restored(m, p)[w]],
               priority' = [Restored(m, p) EXCEPT ![w] = MutexPriority[m]],
               order' = ToFront(ToFront(order, p), w),
               tracked' = [tracked EXCEPT ![w] = @ \ Mutexes]
        PROVE  /\ queue' \in [Resources -> Seq(Procs)]
               /\ tracked' \in [Procs -> SUBSET Resources]
               /\ owned' \in [Procs -> Mutexes \cup {None}]
               /\ priority' \in [Procs -> Nat]
               /\ order' \in Seq(Procs) /\ Len(order') = Cardinality(Procs)
               /\ ToSet(order') = Procs
               /\ owner' \in [Mutexes -> Procs \cup {None}]
               /\ lock_count' \in [Mutexes -> 0 .. MaxLockLevel]
               /\ saved' \in [Mutexes -> Nat]
               /\ FreeIffUnlocked' /\ OwnedIsOwner'
    <2>1. queue[m] # <<>> /\ w \in Procs
      BY <1>2, <1>t, WokenIsHead
    <2>2. queue' = [queue EXCEPT ![m] = Tail(queue[m])]
      BY <2>1, <1>t DEF PassOn
    <2>3. queue' \in [Resources -> Seq(Procs)] /\ \A x \in Resources \ {m} : queue'[x] = queue[x]
      BY <1>t, <2>1, <2>2, DequeueProperties
    <2>4. order' \in Seq(Procs) /\ Len(order') = Cardinality(Procs) /\ ToSet(order') = Procs
      <3> DEFINE o == ToFront(order, p)
      <3>1. o \in Seq(Procs) /\ Len(o) = Cardinality(Procs) /\ ToSet(o) = Procs
        BY <1>t, FrontType
      <3>2. order' = ToFront(o, w)
        BY <1>2
      <3> HIDE DEF o
      <3> QED
        BY <1>t, <2>1, <3>1, <3>2, FrontType
    <2>5. FreeIffUnlocked'
      <3>1. owner'[m] = w /\ lock_count'[m] = 1 /\ w # None
        BY <1>2, <1>t, <2>1
      <3>2. \A n \in Mutexes \ {m} : owner'[n] = owner[n] /\ lock_count'[n] = lock_count[n]
        BY <1>2, <1>t
      <3>3. ASSUME NEW n \in Mutexes
            PROVE  /\ owner'[n] = None <=> lock_count'[n] = 0
                   /\ owner'[n] = None => queue'[n] = <<>>
        <4>1. CASE n = m
          BY <4>1, <3>1
        <4>2. CASE n # m
          <5>1. queue'[n] = queue[n] /\ owner'[n] = owner[n] /\ lock_count'[n] = lock_count[n]
            BY <2>3, <3>2, <4>2
          <5> QED
            BY <5>1 DEF FreeIffUnlocked, MutexBase
        <4> QED
          BY <4>1, <4>2
      <3> QED
        BY <3>3 DEF FreeIffUnlocked
    <2>6. OwnedIsOwner'
      <3>1. ASSUME NEW q \in Procs, NEW n \in Mutexes, owned'[q] = n PROVE owner'[n] = q
        <4>1. CASE q = w
          BY <1>2, <1>t, <2>1, <3>1, <4>1
        <4>2. CASE q # w
          BY <1>2, <1>t, <1>o, <2>1, <3>1, <4>2 DEF MutexBase, OwnedIsOwner
        <4> QED
          BY <4>1, <4>2
      <3> QED
        BY <3>1 DEF OwnedIsOwner
    <2>7. /\ tracked' \in [Procs -> SUBSET Resources]
          /\ owned' \in [Procs -> Mutexes \cup {None}]
          /\ priority' \in [Procs -> Nat]
          /\ owner' \in [Mutexes -> Procs \cup {None}]
          /\ lock_count' \in [Mutexes -> 0 .. MaxLockLevel]
          /\ saved' \in [Mutexes -> Nat]
      BY <1>2, <1>t, <1>r, <2>1
    <2> QED
      BY <2>3, <2>4, <2>5, <2>6, <2>7
  <1> QED
    BY <1>s, <1>1, <1>2, Zenon DEF PassOn

(* All of MutexBase but LOCK_LEVEL, which its callers set.                 *)
MutexCore ==
  /\ TypeOK
  /\ owner \in [Mutexes -> Procs \cup {None}]
  /\ lock_count \in [Mutexes -> 0 .. MaxLockLevel]
  /\ saved \in [Mutexes -> Nat]
  /\ FreeIffUnlocked
  /\ OwnedIsOwner

LEMMA CoreOfBase == MutexBase <=> MutexCore /\ lock_level \in 0 .. MaxLockLevel
  BY DEF MutexBase, MutexCore, MutexTypeOK

LEMMA TakeType ==
  ASSUME MutexBase, NEW m \in Mutexes, current \in Procs, MayAcquire(m), Take(m)
  PROVE  MutexCore'
  <1> USE MutexConstants
  <1>t. MutexTypeOK /\ TypeOK /\ FreeIffUnlocked /\ OwnedIsOwner
    BY DEF MutexBase, MutexTypeOK
  <1>1. owner[m] = None /\ lock_count[m] = 0 /\ queue[m] = <<>>
    BY <1>t DEF Take, FreeIffUnlocked
  <1>2. owned[current] = None /\ \A q \in Procs : owned[q] # m
    BY <1>t, <1>1 DEF MayAcquire, OwnedIsOwner
  <1>3. order' \in Seq(Procs) /\ Len(order') = Cardinality(Procs) /\ ToSet(order') = Procs
    BY <1>t, FrontType DEF Take, TypeOK
  <1>4. /\ owner' \in [Mutexes -> Procs \cup {None}]
        /\ lock_count' = [lock_count EXCEPT ![m] = 1]
        /\ lock_count' \in [Mutexes -> 0 .. MaxLockLevel]
        /\ saved' \in [Mutexes -> Nat]
        /\ owned' \in [Procs -> Mutexes \cup {None}]
        /\ priority' \in [Procs -> Nat]
    BY <1>t, <1>1 DEF Take, TypeOK, MutexTypeOK
  <1>5. TypeOK'
    BY <1>t, <1>3, <1>4 DEF Take, TypeOK, timeVars
  <1>6. FreeIffUnlocked'
    BY <1>t, <1>4 DEF Take, FreeIffUnlocked, MutexTypeOK
  <1>7. OwnedIsOwner'
    <2>1. ASSUME NEW q \in Procs, NEW n \in Mutexes, owned'[q] = n PROVE owner'[n] = q
      <3>1. CASE q = current
        BY <1>t, <2>1, <3>1 DEF Take, TypeOK, MutexTypeOK
      <3>2. CASE q # current
        BY <1>t, <1>2, <2>1, <3>2 DEF Take, TypeOK, MutexTypeOK, OwnedIsOwner
      <3> QED
        BY <3>1, <3>2
    <2> QED
      BY <2>1 DEF OwnedIsOwner
  <1> QED
    BY <1>4, <1>5, <1>6, <1>7 DEF MutexCore

(* Only the lock count of a mutex that stays owned changes.                *)
LEMMA RecountType ==
  ASSUME MutexBase, NEW m \in Mutexes, NEW n \in 1 .. MaxLockLevel, owner[m] # None,
         lock_count' = [lock_count EXCEPT ![m] = n], UNCHANGED <<vars, owner, saved>>
  PROVE  MutexCore'
  <1> USE MutexConstants
  <1>t. MutexTypeOK /\ TypeOK /\ FreeIffUnlocked /\ OwnedIsOwner
    BY DEF MutexBase, MutexTypeOK
  <1>1. TypeOK'
    BY <1>t DEF TypeOK, vars, schedVars, timeVars, waitVars
  <1>2. lock_count' \in [Mutexes -> 0 .. MaxLockLevel]
    BY <1>t DEF MutexTypeOK
  <1>3. lock_count'[m] # 0 /\ \A x \in Mutexes \ {m} : lock_count'[x] = lock_count[x]
    BY <1>t DEF MutexTypeOK
  <1>4. FreeIffUnlocked' /\ OwnedIsOwner'
    BY <1>t, <1>3 DEF FreeIffUnlocked, OwnedIsOwner, vars, waitVars
  <1> QED
    BY <1>t, <1>1, <1>2, <1>4 DEF MutexCore, MutexTypeOK

LEMMA TakeAgainType ==
  ASSUME MutexBase, NEW m \in Mutexes, current \in Procs, TakeAgain(m)
  PROVE  MutexCore'
  <1> USE MutexConstants
  <1> DEFINE n == lock_count[m] + 1
  <1>1. owner[m] # None /\ lock_count[m] \in 0 .. MaxLockLevel /\ lock_count[m] # MaxLockLevel
    BY DEF TakeAgain, MutexBase, MutexTypeOK
  <1>2. n \in 1 .. MaxLockLevel
    BY <1>1
  <1>3. lock_count' = [lock_count EXCEPT ![m] = n] /\ UNCHANGED <<vars, owner, saved>>
    BY DEF TakeAgain
  <1> HIDE DEF n
  <1> QED
    BY <1>1, <1>2, <1>3, RecountType

LEMMA AwaitMutexType ==
  ASSUME MutexBase, NEW m \in Mutexes, NEW t \in Nat \cup {INFINITE}, NEW c \in Doing,
         current \in Procs, AwaitMutex(m, t, c)
  PROVE  MutexCore'
  <1> USE MutexConstants
  <1>t. MutexTypeOK /\ TypeOK /\ FreeIffUnlocked /\ OwnedIsOwner
    BY DEF MutexBase, MutexTypeOK
  <1>1. /\ queue' \in [Resources -> Seq(Procs)]
        /\ \A x \in Resources \ {m} : queue'[x] = queue[x]
    <2> DEFINE sorted == m \in PriorityQueued
    <2>1. EnqueueBy(m, sorted) /\ m \in Resources /\ sorted \in BOOLEAN
      BY DEF AwaitMutex, Enqueue
    <2> HIDE DEF sorted
    <2> QED
      BY <2>1, <1>t, EnqueueProperties
  <1>2. state' \in [Procs -> States] /\ timer' \in [Procs -> Nat \cup {INFINITE, NoTimer}]
    BY <1>t DEF AwaitMutex, Arm, TypeOK, States
  <1>3. tracked' \in [Procs -> SUBSET Resources] /\ call' \in [Procs -> Doing]
    BY <1>t DEF AwaitMutex, TypeOK
  <1>4. TypeOK'
    BY <1>t, <1>1, <1>2, <1>3 DEF AwaitMutex, yield_to_partition, TypeOK
  <1>5. UNCHANGED <<owner, lock_count, saved, owned>> /\ owner[m] # None
    BY DEF AwaitMutex
  <1>6. FreeIffUnlocked' /\ OwnedIsOwner'
    BY <1>t, <1>1, <1>5 DEF FreeIffUnlocked, OwnedIsOwner
  <1> QED
    BY <1>t, <1>4, <1>5, <1>6 DEF MutexCore, MutexTypeOK

(* A hand-over, with what its callers do to the processes.                 *)
LEMMA HandOverType ==
  ASSUME MutexBase, NEW m \in Mutexes, NEW p \in Procs, owned[p] = m, PassOn(m, p),
         state' \in [Procs -> States],
         timer' \in [Procs -> Nat \cup {INFINITE, NoTimer}],
         suspended' \in [Procs -> BOOLEAN],
         call' \in [Procs -> Doing],
         yield_to_partition,
         UNCHANGED <<mode, current, tick_pending, release, init_delay, grid>>
  PROVE  MutexCore'
  <1>t. TypeOK
    BY DEF MutexBase, MutexTypeOK
  <1>1. /\ queue' \in [Resources -> Seq(Procs)]
        /\ tracked' \in [Procs -> SUBSET Resources]
        /\ owned' \in [Procs -> Mutexes \cup {None}]
        /\ priority' \in [Procs -> Nat]
        /\ order' \in Seq(Procs) /\ Len(order') = Cardinality(Procs) /\ ToSet(order') = Procs
        /\ owner' \in [Mutexes -> Procs \cup {None}]
        /\ lock_count' \in [Mutexes -> 0 .. MaxLockLevel]
        /\ saved' \in [Mutexes -> Nat]
        /\ FreeIffUnlocked' /\ OwnedIsOwner'
    BY PassOnType
  <1>2. TypeOK'
    BY <1>t, <1>1 DEF yield_to_partition, TypeOK
  <1> QED
    BY <1>1, <1>2 DEF MutexCore

LEMMA ReleaseType ==
  ASSUME MutexBase, NEW m \in Mutexes, current \in Procs, Release(m),
         call' \in [Procs -> Doing]
  PROVE  MutexCore'
  <1> USE MutexConstants
  <1>t. MutexTypeOK /\ TypeOK /\ FreeIffUnlocked /\ OwnedIsOwner
    BY DEF MutexBase, MutexTypeOK
  <1>1. owned[current] = m /\ owner[m] = current
    BY <1>t DEF Release, OwnedIsOwner
  <1>2. CASE lock_count[m] # 1
    <2> DEFINE n == lock_count[m] - 1
    <2>1. lock_count[m] \in 0 .. MaxLockLevel /\ lock_count[m] # 0 /\ owner[m] # None
      BY <1>t, <1>1 DEF FreeIffUnlocked, MutexTypeOK
    <2>2. n \in 1 .. MaxLockLevel
      BY <1>2, <2>1
    <2>3. lock_count' = [lock_count EXCEPT ![m] = n] /\ UNCHANGED <<vars, owner, saved>>
      BY <1>2 DEF Release
    <2> HIDE DEF n
    <2> QED
      BY <2>1, <2>2, <2>3, RecountType
  <1>3. CASE lock_count[m] = 1
    <2>1. /\ PassOn(m, current) /\ state' = StateAfterPass(m) /\ timer' = TimerAfterPass(m)
          /\ yield_to_partition /\ suspended' = suspended
          /\ UNCHANGED <<mode, current, tick_pending, release, init_delay, grid>>
      BY <1>3 DEF Release
    <2>2. /\ state' \in [Procs -> States]
          /\ timer' \in [Procs -> Nat \cup {INFINITE, NoTimer}]
          /\ suspended' \in [Procs -> BOOLEAN]
      BY <1>t, <1>1, <2>1, PassOnType DEF TypeOK
    <2> QED
      BY <1>1, <2>1, <2>2, HandOverType
  <1> QED
    BY <1>2, <1>3

(* Of the processes' own services none changes who owns what.              *)
LEMMA OwnedUnchanged == Next => owned' = owned
  BY DEF Next, Service, OtherService, SET_PRIORITY, SUSPEND_SELF, SUSPEND, RESUME, STOP_SELF,
    STOP, START, DELAYED_START, Restart, TIMED_WAIT, PERIODIC_WAIT,
    SET_PARTITION_MODE_NORMAL, partition_OS, Tick, waitVars

LEMMA SetLockLevelType ==
  ASSUME MutexCore', SetLockLevel
  PROVE  lock_level' \in 0 .. MaxLockLevel
  BY MutexConstants DEF MutexCore, SetLockLevel

LEMMA MutexCalls ==
  {"ACQUIRE_MUTEX", "ACQUIRE_MUTEX_TIMED", "LOCK_PREEMPTION", "UNLOCK_PREEMPTION", "app"}
    \subseteq Doing
  BY DEF Doing

LEMMA BaseStep == MutexBase /\ [MutexNext]_allVars => MutexBase'
  <1> SUFFICES ASSUME MutexBase, [MutexNext]_allVars PROVE MutexBase'
    OBVIOUS
  <1> USE MutexConstants
  <1>t. MutexTypeOK /\ TypeOK /\ FreeIffUnlocked /\ OwnedIsOwner
    BY DEF MutexBase, MutexTypeOK
  <1>l. lock_level \in 0 .. MaxLockLevel /\ 0 \in 0 .. MaxLockLevel
    BY <1>t DEF MutexTypeOK
  <1>1. CASE ProcessStep
    <2>1. Next /\ UNCHANGED mutexVars /\ owned' = owned
      BY <1>1, OwnedUnchanged DEF ProcessStep
    <2>2. TypeOK'
      BY <1>t, <2>1, TypeStep
    <2>3. \A m \in Mutexes : queue[m] = <<>> => queue'[m] = <<>>
      BY <1>t, <2>1, StepsKeepEmpty DEF TypeOK
    <2>4. FreeIffUnlocked' /\ OwnedIsOwner'
      BY <1>t, <2>1, <2>3 DEF FreeIffUnlocked, OwnedIsOwner, mutexVars
    <2> QED
      BY <1>t, <2>1, <2>2, <2>4 DEF MutexBase, MutexTypeOK, mutexVars
  <1>2. ASSUME NEW m \in Mutexes, NEW t \in Timeouts, ACQUIRE_MUTEX(m, t) PROVE MutexBase'
    <2>1. current \in Procs /\ MayAcquire(m) /\ lock_level' = lock_level
      BY <1>2, <1>t, CallerType DEF ACQUIRE_MUTEX
    <2>2. t \in Nat \cup {INFINITE}
      BY TimeAssumption
    <2> DEFINE c == IF t = INFINITE THEN "ACQUIRE_MUTEX" ELSE "ACQUIRE_MUTEX_TIMED"
    <2>3. c \in Doing
      BY MutexCalls
    <2>4. Take(m) \/ TakeAgain(m) \/ AwaitMutex(m, t, c)
      BY <1>2 DEF ACQUIRE_MUTEX
    <2> HIDE DEF c
    <2>5. MutexCore'
      BY <2>1, <2>2, <2>3, <2>4, TakeType, TakeAgainType, AwaitMutexType
    <2> QED
      BY <1>l, <2>1, <2>5, CoreOfBase DEF MutexBase, MutexCore, MutexTypeOK
  <1>3. ASSUME NEW m \in Mutexes, RELEASE_MUTEX(m) PROVE MutexBase'
    <2>1. current \in Procs /\ Release(m) /\ UNCHANGED <<call, lock_level>>
      BY <1>3, <1>t, CallerType DEF RELEASE_MUTEX
    <2>2. call' \in [Procs -> Doing]
      BY <1>t, <2>1 DEF TypeOK
    <2>3. MutexCore'
      BY <2>1, <2>2, ReleaseType
    <2> QED
      BY <1>l, <2>1, <2>3 DEF MutexBase, MutexCore, MutexTypeOK
  <1>4. ASSUME NEW m \in Mutexes, NEW p \in Named, RESET_MUTEX(m, p) PROVE MutexBase'
    <2>1. /\ p \in Procs /\ owned[p] = m /\ PassOn(m, p)
          /\ state' = StateAfterPass(m) /\ timer' = TimerAfterPass(m)
          /\ suspended' = suspended /\ call' = call
          /\ yield_to_partition
          /\ UNCHANGED <<mode, current, tick_pending, release, init_delay, grid>>
      BY <1>4 DEF RESET_MUTEX
    <2>2. /\ state' \in [Procs -> States]
          /\ timer' \in [Procs -> Nat \cup {INFINITE, NoTimer}]
      BY <2>1, PassOnType
    <2>3. suspended' \in [Procs -> BOOLEAN] /\ call' \in [Procs -> Doing]
      BY <1>t, <2>1 DEF TypeOK
    <2>4. MutexCore'
      BY <2>1, <2>2, <2>3, HandOverType
    <2>5. lock_level' \in 0 .. MaxLockLevel
      BY <1>4, <1>l DEF RESET_MUTEX
    <2> QED
      BY <2>4, <2>5 DEF MutexBase, MutexCore, MutexTypeOK
  <1>5. CASE STOP_SELF_owner
    <2> DEFINE m == owned[current]
    <2>1. /\ current \in Procs /\ m # None /\ PassOn(m, current)
          /\ state' = [StateAfterPass(m) EXCEPT ![current] = "DORMANT"]
          /\ timer' = [TimerAfterPass(m) EXCEPT ![current] = NoTimer]
          /\ suspended' = [suspended EXCEPT ![current] = FALSE]
          /\ yield_to_partition /\ call' = call
          /\ UNCHANGED <<mode, current, tick_pending, release, init_delay, grid>>
      BY <1>5, <1>t, CallerType DEF STOP_SELF_owner
    <2>2. m \in Mutexes /\ owned[current] = m
      BY <1>t, <2>1 DEF TypeOK
    <2> HIDE DEF m
    <2>3. /\ StateAfterPass(m) \in [Procs -> States]
          /\ TimerAfterPass(m) \in [Procs -> Nat \cup {INFINITE, NoTimer}]
      BY <2>1, <2>2, PassOnType
    <2>4. /\ state' \in [Procs -> States]
          /\ timer' \in [Procs -> Nat \cup {INFINITE, NoTimer}]
      BY <2>1, <2>3 DEF States
    <2>5. suspended' \in [Procs -> BOOLEAN]
      BY <1>t, <2>1, Zenon DEF TypeOK
    <2>6. call' \in [Procs -> Doing]
      BY <1>t, <2>1 DEF TypeOK
    <2>7. MutexCore'
      BY <2>1, <2>2, <2>4, <2>5, <2>6, HandOverType
    <2>8. lock_level' \in 0 .. MaxLockLevel
      BY <1>5, <1>l DEF STOP_SELF_owner
    <2> QED
      BY <2>7, <2>8 DEF MutexBase, MutexCore, MutexTypeOK
  <1>6. ASSUME NEW p \in Named, NEW v \in Priorities, SET_PRIORITY_owner(p, v)
        PROVE  MutexBase'
    <2>1. p \in Procs /\ v \in Nat /\ current \in Procs /\ owned[p] \in Mutexes
      BY <1>6, <1>t, CallerType, PriorityAssumption DEF SET_PRIORITY_owner, TypeOK
    <2>2. saved' \in [Mutexes -> Nat] /\ priority' = priority
      BY <1>6, <1>t, <2>1 DEF SET_PRIORITY_owner, SavePriority, MutexTypeOK
    <2>3. order' = ToBack(order, p) \/ order' = order
      BY <1>6 DEF SET_PRIORITY_owner
    <2>4. order' \in Seq(Procs) /\ Len(order') = Cardinality(Procs) /\ ToSet(order') = Procs
      BY <1>t, <2>1, <2>3, OrderType DEF TypeOK
    <2>5. exec' \in {"main", "os", "proc"} /\ (exec' = "proc" => exec = "proc")
      BY <1>6, <1>t DEF SET_PRIORITY_owner, yield_to_partition, TypeOK
    <2>6. TypeOK'
      BY <1>6, <1>t, <2>2, <2>4, <2>5 DEF SET_PRIORITY_owner, TypeOK, timeVars, waitVars
    <2>7. UNCHANGED <<owner, lock_count, lock_level, owned, queue>>
      BY <1>6 DEF SET_PRIORITY_owner, waitVars
    <2>8. FreeIffUnlocked' /\ OwnedIsOwner'
      BY <1>t, <2>7 DEF FreeIffUnlocked, OwnedIsOwner
    <2> QED
      BY <1>t, <2>2, <2>6, <2>7, <2>8 DEF MutexBase, MutexTypeOK
  <1>7. CASE LOCK_PREEMPTION
    <2> DEFINE lk == PreemptionLock
    <2>1. current \in Procs
      BY <1>7, <1>t, CallerType DEF LOCK_PREEMPTION
    <2>2. CASE /\ MayAcquire(lk) /\ (Take(lk) \/ TakeAgain(lk)) /\ SetLockLevel
      <3>1. MutexCore'
        BY <2>1, <2>2, TakeType, TakeAgainType
      <3> QED
        BY <2>2, <3>1, SetLockLevelType DEF MutexBase, MutexCore, MutexTypeOK
    <2>3. CASE AwaitMutex(lk, INFINITE, "LOCK_PREEMPTION") /\ UNCHANGED lock_level
      <3>1. MutexCore'
        BY <2>1, <2>3, MutexCalls, AwaitMutexType
      <3> QED
        BY <1>l, <2>3, <3>1 DEF MutexBase, MutexCore, MutexTypeOK
    <2>4. CASE UNCHANGED <<vars, owner, lock_count, saved>> /\ SetLockLevel
      <3>1. MutexCore'
        BY <1>t, <2>4 DEF MutexCore, MutexTypeOK, TypeOK, FreeIffUnlocked,
             OwnedIsOwner, vars, schedVars, timeVars, waitVars
      <3> QED
        BY <2>4, <3>1, SetLockLevelType DEF MutexBase, MutexCore, MutexTypeOK
    <2> QED
      BY <1>7, <2>2, <2>3, <2>4 DEF LOCK_PREEMPTION
  <1>8. CASE UNLOCK_PREEMPTION
    <2>1. current \in Procs /\ Release(PreemptionLock)
      BY <1>8, <1>t, CallerType DEF UNLOCK_PREEMPTION
    <2>2. call' \in [Procs -> Doing]
      <3>1. call' = call \/ call' = [call EXCEPT ![current] = "UNLOCK_PREEMPTION"]
        BY <1>8 DEF UNLOCK_PREEMPTION, Release, vars, waitVars
      <3>2. call \in [Procs -> Doing]
        BY <1>t DEF TypeOK
      <3> QED
        BY <2>1, <3>1, <3>2, MutexCalls
    <2>3. MutexCore'
      BY <2>1, <2>2, ReleaseType
    <2>4. lock_level' \in 0 .. MaxLockLevel
      BY <1>8, <1>l, <2>3, SetLockLevelType DEF UNLOCK_PREEMPTION
    <2> QED
      BY <2>3, <2>4 DEF MutexBase, MutexCore, MutexTypeOK
  <1>9. CASE Return
    <2>1. call' \in [Procs -> Doing]
      <3>1. call' = [call EXCEPT ![current] = "app"] /\ call \in [Procs -> Doing]
        BY <1>9, <1>t DEF Return, TypeOK
      <3> QED
        BY <3>1, MutexCalls
    <2>2. TypeOK'
      BY <1>9, <1>t, <2>1 DEF Return, TypeOK, schedVars, timeVars
    <2>3. UNCHANGED <<owner, saved, lock_count, owned, queue>>
      BY <1>9 DEF Return
    <2>4. MutexCore'
      BY <1>t, <2>2, <2>3 DEF MutexCore, MutexTypeOK, FreeIffUnlocked, OwnedIsOwner
    <2>5. lock_level' \in 0 .. MaxLockLevel
      BY <1>9, <1>l, <2>4, SetLockLevelType DEF Return
    <2> QED
      BY <2>4, <2>5 DEF MutexBase, MutexCore, MutexTypeOK
  <1>10. CASE UNCHANGED allVars
    BY <1>10, <1>t DEF allVars, mutexVars, MutexBase, MutexTypeOK, TypeOK,
      FreeIffUnlocked, OwnedIsOwner, vars, schedVars, timeVars, waitVars
  <1> QED
    BY <1>1, <1>2, <1>3, <1>4, <1>5, <1>6, <1>7, <1>8, <1>9, <1>10 DEF MutexNext

LEMMA BaseInvariant == MutexSpec => []MutexBase
  BY InitBase, BaseStep, PTL DEF MutexSpec

(* Lock counts and levels stay between 0 and MAX_LOCK_LEVEL and process    *)
(* control blocks well formed, whatever services, time-outs, stops and     *)
(* hand-overs do to owners and waiters.                                    *)
THEOREM MutexesTypeCorrect == MutexSpec => []MutexTypeOK
  <1>1. MutexBase => MutexTypeOK
    BY DEF MutexBase
  <1> QED
    BY <1>1, BaseInvariant, PTL

(***************************************************************************)
(* Scheduling with ceilings                                                *)
(***************************************************************************)

(* A hand-over that yields marks nobody RUNNING and leaves no stopped      *)
(* process a timer.                                                        *)
LEMMA PassYields ==
  ASSUME TypeOK, NEW m, yield_to_partition, current' = current,
         \/ state' = StateAfterPass(m) /\ timer' = TimerAfterPass(m)
         \/ /\ current \in Procs
            /\ state' = [StateAfterPass(m) EXCEPT ![current] = "DORMANT"]
            /\ timer' = [TimerAfterPass(m) EXCEPT ![current] = NoTimer]
  PROVE  Yields /\ TimersCleared
  <1> DEFINE st == StateAfterPass(m)
             tm == TimerAfterPass(m)
  <1>1. \A q \in Procs : /\ st[q] = IF q \in Woken(m) THEN "READY" ELSE state[q]
                         /\ tm[q] = IF q \in Woken(m) THEN Served(timer[q]) ELSE timer[q]
    BY DEF StateAfterPass, TimerAfterPass
  <1>2. DOMAIN st = Procs /\ DOMAIN tm = Procs
    BY DEF StateAfterPass, TimerAfterPass
  <1> HIDE DEF st, tm
  <1>3. \A q \in Procs :
          \/ state'[q] = st[q] /\ timer'[q] = tm[q]
          \/ state'[q] = "DORMANT" /\ timer'[q] = NoTimer
    <2>1. CASE state' = st /\ timer' = tm
      BY <2>1
    <2>2. CASE /\ current \in Procs
               /\ state' = [st EXCEPT ![current] = "DORMANT"]
               /\ timer' = [tm EXCEPT ![current] = NoTimer]
      BY <1>2, <2>2
    <2> QED
      BY <2>1, <2>2 DEF st, tm
  <1>4. \A q \in Procs : state'[q] = "RUNNING" => state[q] = "RUNNING"
    BY <1>1, <1>3
  <1>5. TimersCleared
    BY <1>1, <1>3 DEF TimersCleared
  <1> QED
    BY <1>4, <1>5 DEF Yields, yield_to_partition

(* A step that leaves what the scheduler looks at alone.                   *)
LEMMA SchedUntouched ==
  ASSUME SchedInv, TypeOK', UNCHANGED <<exec, current, state, priority, timer>>
  PROVE  SchedInv'
  BY DEF SchedInv, RunningIsCurrent, PriorityRespected, DormantHasNoTimer

LEMMA ReleaseSched ==
  ASSUME SchedInv, TypeOK', NEW m, current \in Procs, Release(m)
  PROVE  SchedInv'
  <1>1. CASE UNCHANGED vars
    BY <1>1, SchedUntouched DEF vars, schedVars, timeVars
  <1>2. CASE /\ state' = StateAfterPass(m) /\ timer' = TimerAfterPass(m)
             /\ yield_to_partition /\ current' = current
    BY <1>2, PassYields, ServicesKeepSched DEF SchedInv
  <1> QED
    BY <1>1, <1>2 DEF Release

LEMMA TakeSched ==
  ASSUME SchedInv, TypeOK', NEW m \in Mutexes, Calls("ACQUIRE_MUTEX") \/ Calls("LOCK_PREEMPTION"),
         MayAcquire(m), Take(m)
  PROVE  SchedInv'
  <1>1. current \in Procs /\ exec = "proc" /\ state[current] = "RUNNING"
    BY CallerRuns
  <1>2. /\ UNCHANGED <<exec, current, state, timer>>
        /\ priority' = [priority EXCEPT ![current] = MutexPriority[m]]
        /\ priority[current] <= MutexPriority[m]
    BY DEF Take, MayAcquire, timeVars
  <1>3. priority \in [Procs -> Nat] /\ MutexPriority[m] \in Nat
    BY MutexConstants DEF SchedInv, TypeOK
  <1>4. PriorityRespected'
    <2> SUFFICES ASSUME NEW p \in Procs, state[p] = "READY"
                 PROVE  /\ p # ErrorHandler
                        /\ priority'[p] <= priority'[current] \/ current = ErrorHandler
      BY <1>2 DEF PriorityRespected
    <2>1. p # ErrorHandler /\ (priority[p] <= priority[current] \/ current = ErrorHandler)
      BY <1>1 DEF SchedInv, PriorityRespected
    <2>2. p # current /\ priority'[p] = priority[p] /\ priority'[current] = MutexPriority[m]
      BY <1>1, <1>2, <1>3
    <2>3. priority[p] \in Nat /\ priority[current] \in Nat
      BY <1>1, <1>3
    <2> QED
      BY <1>2, <1>3, <2>1, <2>2, <2>3
  <1> QED
    BY <1>2, <1>4 DEF SchedInv, RunningIsCurrent, DormantHasNoTimer

LEMMA AwaitMutexSched ==
  ASSUME SchedInv, TypeOK', NEW m, NEW t, NEW c, current \in Procs, AwaitMutex(m, t, c)
  PROVE  SchedInv'
  <1>1. Yields /\ TimersCleared
    BY DEF AwaitMutex, yield_to_partition, Yields, TimersCleared, Arm, SchedInv, TypeOK
  <1> QED
    BY <1>1, ServicesKeepSched DEF SchedInv

LEMMA MutexSchedStep ==
  ASSUME MutexBase, SchedInv, [MutexNext]_allVars
  PROVE  SchedInv'
  <1>t. TypeOK'
    BY BaseStep DEF MutexBase, MutexTypeOK
  <1>c. \A s : Calls(s) => current \in Procs
    BY CallerRuns
  <1>1. CASE ProcessStep
    BY <1>1, SchedStep DEF ProcessStep
  <1>2. ASSUME NEW m \in Mutexes, NEW t \in Timeouts, ACQUIRE_MUTEX(m, t) PROVE SchedInv'
    <2>1. Calls("ACQUIRE_MUTEX") /\ MayAcquire(m) /\ current \in Procs
      BY <1>2, <1>c DEF ACQUIRE_MUTEX
    <2>2. CASE Take(m)
      BY <1>t, <2>1, <2>2, TakeSched
    <2>3. CASE TakeAgain(m)
      BY <1>t, <2>3, SchedUntouched DEF TakeAgain, vars, schedVars, timeVars
    <2>4. CASE ~Take(m) /\ ~TakeAgain(m)
      BY <1>2, <1>t, <2>1, <2>4, AwaitMutexSched DEF ACQUIRE_MUTEX
    <2> QED
      BY <2>2, <2>3, <2>4
  <1>3. ASSUME NEW m \in Mutexes, RELEASE_MUTEX(m) PROVE SchedInv'
    BY <1>3, <1>t, <1>c, ReleaseSched DEF RELEASE_MUTEX
  <1>4. ASSUME NEW m \in Mutexes, NEW p \in Named, RESET_MUTEX(m, p) PROVE SchedInv'
    <2>1. Yields /\ TimersCleared
      BY <1>4, PassYields DEF RESET_MUTEX, SchedInv
    <2> QED
      BY <1>t, <2>1, ServicesKeepSched DEF SchedInv
  <1>5. CASE STOP_SELF_owner
    <2>1. Yields /\ TimersCleared
      BY <1>5, <1>c, PassYields DEF STOP_SELF_owner, SchedInv
    <2> QED
      BY <1>t, <2>1, ServicesKeepSched DEF SchedInv
  <1>6. ASSUME NEW p \in Named, NEW v \in Priorities, SET_PRIORITY_owner(p, v)
        PROVE  SchedInv'
    <2>1. UNCHANGED <<current, state, priority, timer>> /\ exec' \in {exec, "os"}
      BY <1>6 DEF SET_PRIORITY_owner, SavePriority, timeVars, yield_to_partition
    <2>2. TimersCleared /\ (Yields \/ Returns)
      BY <2>1 DEF TimersCleared, Yields, Returns
    <2> QED
      BY <1>t, <2>2, ServicesKeepSched DEF SchedInv
  <1>7. CASE LOCK_PREEMPTION
    <2>1. Calls("LOCK_PREEMPTION") /\ current \in Procs
      BY <1>7, <1>c DEF LOCK_PREEMPTION
    <2>2. CASE MayAcquire(PreemptionLock) /\ Take(PreemptionLock)
      BY <1>t, <2>1, <2>2, MutexConstants, TakeSched
    <2>3. CASE UNCHANGED vars
      BY <1>t, <2>3, SchedUntouched DEF vars, schedVars, timeVars
    <2>4. CASE AwaitMutex(PreemptionLock, INFINITE, "LOCK_PREEMPTION")
      BY <1>t, <2>1, <2>4, AwaitMutexSched
    <2> QED
      BY <1>7, <2>2, <2>3, <2>4 DEF LOCK_PREEMPTION, TakeAgain
  <1>8. CASE UNLOCK_PREEMPTION
    BY <1>8, <1>t, <1>c, ReleaseSched DEF UNLOCK_PREEMPTION
  <1>9. CASE Return
    BY <1>9, <1>t, SchedUntouched DEF Return, schedVars, timeVars
  <1>10. CASE UNCHANGED allVars
    BY <1>10, <1>t, SchedUntouched DEF allVars, vars, schedVars, timeVars
  <1> QED
    BY <1>1, <1>2, <1>3, <1>4, <1>5, <1>6, <1>7, <1>8, <1>9, <1>10 DEF MutexNext

MutexSched == MutexBase /\ SchedInv

LEMMA MutexSchedInvariant == MutexSpec => []MutexSched
  <1>1. MutexInit => MutexSched
    BY InitBase, InitSched DEF MutexInit, MutexSched
  <1>2. MutexSched /\ [MutexNext]_allVars => MutexSched'
    BY BaseStep, MutexSchedStep DEF MutexSched
  <1> QED
    BY <1>1, <1>2, PTL DEF MutexSpec

(* Raising owners to their ceilings and giving them their own priorities   *)
(* back keeps the rule of the scheduler: no READY process outranks the     *)
(* running one, although ACQUIRE_MUTEX changes a priority without a yield. *)
THEOREM HighestPriorityRunsWithMutexes == MutexSpec => []PriorityRespected
  <1>1. MutexSched => PriorityRespected
    BY DEF MutexSched, SchedInv
  <1> QED
    BY <1>1, MutexSchedInvariant, PTL

(***************************************************************************)
(* Owners and waiters, as long as nothing but the mutex ends a wait        *)
(***************************************************************************)

(* Neither a release point nor a time-out is about to wake a process that  *)
(* is queued for a mutex, and none is suspended: check_timeouts and        *)
(* check_and_release_periodic_waiting_processes leave the process in the   *)
(* queue, and a hand-over to it goes to a process that no longer waits.    *)
NoStrayWake ==
  \A m \in Mutexes :
    \A p \in ToSet(queue[m]) : ~Released(p) /\ ~Expired(p) /\ ~suspended[p]

OwnerIsOwned ==
  \A m \in Mutexes, p \in Procs : owner[m] = p => owned[p] = m

(* Nobody is queued twice, or before the partition runs; processes wait on *)
(* mutexes only.                                                           *)
WaitInv ==
  /\ \A m \in Mutexes : Distinct(queue[m])
  /\ WaitersWait
  /\ \A p \in Procs : tracked[p] \subseteq Mutexes
  /\ exec = "main" => \A m \in Mutexes : queue[m] = <<>>
  /\ OwnerIsOwned

LEMMA InitWait == MutexInit => WaitInv
  <1> SUFFICES ASSUME MutexInit PROVE WaitInv
    OBVIOUS
  <1>1. \A m \in Mutexes : queue[m] = <<>>
    BY MutexConstants DEF MutexInit, Init
  <1>2. ToSet(<<>>) = {} /\ Distinct(<<>>)
    BY DEF ToSet, Distinct
  <1>3. WaitersWait
    BY <1>1, <1>2 DEF WaitersWait
  <1>4. OwnerIsOwned
    BY MutexConstants DEF MutexInit, OwnerIsOwned
  <1>5. \A p \in Procs : tracked[p] \subseteq Mutexes
    BY DEF MutexInit, Init
  <1> QED
    BY <1>1, <1>2, <1>3, <1>4, <1>5 DEF WaitInv

(* The members of a queue are processes other than the running one, and no *)
(* process is in two queues.                                               *)
LEMMA WaiterFacts ==
  ASSUME MutexSched, WaitInv, NEW m \in Mutexes, NEW p \in ToSet(queue[m])
  PROVE  /\ p \in Procs /\ state[p] = "WAITING" /\ owned[p] = None /\ tracked[p] = {m}
         /\ exec = "proc" => p # current
         /\ exec # "main"
         /\ \A n \in Mutexes : p \in ToSet(queue[n]) => n = m
  <1>1. queue[m] \in Seq(Procs)
    BY MutexConstants DEF MutexSched, MutexBase, MutexTypeOK, TypeOK
  <1>2. p \in Procs
    BY <1>1, ToSetOfSeq
  <1>3. state[p] = "WAITING" /\ owned[p] = None /\ tracked[p] = {m}
    BY DEF WaitInv, WaitersWait
  <1>4. \A n \in Mutexes : p \in ToSet(queue[n]) => tracked[p] = {n}
    BY DEF WaitInv, WaitersWait
  <1>5. exec = "proc" => p # current
    BY <1>3 DEF MutexSched, SchedInv, RunningIsCurrent
  <1>6. exec # "main"
    <2>1. ToSet(<<>>) = {}
      BY DEF ToSet
    <2> QED
      BY <2>1 DEF WaitInv
  <1> QED
    BY <1>2, <1>3, <1>4, <1>5, <1>6

LEMMA ProcessStepWait ==
  ASSUME MutexSched, WaitInv, NoStrayWake, ProcessStep
  PROVE  WaitInv'
  <1> USE MutexConstants
  <1>t. TypeOK /\ SchedInv
    BY DEF MutexSched, MutexBase, MutexTypeOK
  <1>1. Next /\ UNCHANGED mutexVars /\ owned' = owned
    BY OwnedUnchanged DEF ProcessStep
  <1>2. ASSUME NEW m \in Mutexes
        PROVE  /\ ToSet(queue'[m]) \subseteq ToSet(queue[m])
               /\ Distinct(queue[m]) => Distinct(queue'[m])
               /\ \A p \in Procs : STOP(p) /\ m \in tracked[p] /\ Distinct(queue[m])
                    => p \notin ToSet(queue'[m])
               /\ \A p \in Procs : tracked'[p] \in {tracked[p], {}}
    BY <1>1, <1>t, StepsShrinkQueues
  <1>3. ASSUME NEW m \in Mutexes, NEW p \in ToSet(queue'[m])
        PROVE  state'[p] = "WAITING" /\ owned'[p] = None /\ tracked'[p] = {m}
    <2>1. p \in ToSet(queue[m])
      BY <1>2, <1>3
    <2>2. /\ p \in Procs /\ state[p] = "WAITING" /\ owned[p] = None /\ tracked[p] = {m}
          /\ exec # "main"
      BY <2>1, WaiterFacts
    <2>3. ~Released(p) /\ ~Expired(p) /\ ~suspended[p]
      BY <2>1 DEF NoStrayWake
    <2>4. ~STOP(p)
      BY <1>2, <1>3, <2>2 DEF WaitInv
    <2>5. state'[p] = "WAITING" /\ tracked'[p] = tracked[p]
      BY <1>1, <1>t, <2>2, <2>3, <2>4, WaitingStaysWaiting
    <2> QED
      BY <1>1, <2>2, <2>5
  <1>4. WaitersWait'
    BY <1>3 DEF WaitersWait
  <1>5. \A m \in Mutexes : Distinct(queue'[m])
    BY <1>2 DEF WaitInv
  <1>6. \A p \in Procs : tracked'[p] \subseteq Mutexes
    <2>1. PreemptionLock \in Mutexes
      OBVIOUS
    <2> QED
      BY <1>2, <2>1 DEF WaitInv
  <1>7. exec' = "main" => \A m \in Mutexes : queue'[m] = <<>>
    BY <1>1, <1>t, MainIsLeft, StepsKeepEmpty DEF WaitInv, TypeOK
  <1>8. OwnerIsOwned'
    BY <1>1 DEF WaitInv, OwnerIsOwned, mutexVars
  <1> QED
    BY <1>4, <1>5, <1>6, <1>7, <1>8 DEF WaitInv

(* Steps of the running process that leave the queues alone.               *)
LEMMA QueuesUntouched ==
  ASSUME MutexSched, WaitInv, exec = "proc", current \in Procs,
         UNCHANGED <<queue, tracked>>,
         \A p \in Procs \ {current} : state'[p] = state[p] /\ owned'[p] = owned[p],
         exec' # "main", OwnerIsOwned'
  PROVE  WaitInv'
  <1>1. WaitersWait'
    <2> SUFFICES ASSUME NEW m \in Mutexes, NEW p \in ToSet(queue[m])
                 PROVE  state'[p] = "WAITING" /\ owned'[p] = None /\ tracked[p] = {m}
      BY DEF WaitersWait
    <2>1. p \in Procs \ {current} /\ state[p] = "WAITING" /\ owned[p] = None /\ tracked[p] = {m}
      BY WaiterFacts
    <2> QED
      BY <2>1
  <1> QED
    BY <1>1 DEF WaitInv

LEMMA TakeWait ==
  ASSUME MutexSched, WaitInv, exec = "proc", NEW m \in Mutexes, current \in Procs,
         MayAcquire(m), Take(m)
  PROVE  WaitInv'
  <1> USE MutexConstants
  <1>t. TypeOK /\ MutexTypeOK /\ OwnedIsOwner
    BY DEF MutexSched, MutexBase, MutexTypeOK
  <1>1. owner[m] = None /\ owned[current] = None
    BY <1>t DEF Take, MayAcquire, OwnedIsOwner
  <1>2. OwnerIsOwned'
    <2>1. ASSUME NEW n \in Mutexes, NEW p \in Procs, owner'[n] = p PROVE owned'[p] = n
      <3>1. CASE n = m
        BY <1>t, <2>1, <3>1 DEF Take, TypeOK, MutexTypeOK
      <3>2. CASE n # m
        <4>1. owner[n] = p /\ owned[p] = n /\ p # current
          BY <1>t, <1>1, <2>1, <3>2 DEF Take, MutexTypeOK, WaitInv, OwnerIsOwned
        <4> QED
          BY <1>t, <4>1 DEF Take, TypeOK
      <3> QED
        BY <3>1, <3>2
    <2> QED
      BY <2>1 DEF OwnerIsOwned
  <1>3. /\ UNCHANGED <<queue, tracked, state, exec>>
        /\ \A p \in Procs \ {current} : owned'[p] = owned[p]
    BY <1>t DEF Take, TypeOK
  <1> QED
    BY <1>2, <1>3, QueuesUntouched

LEMMA AwaitMutexWait ==
  ASSUME MutexSched, WaitInv, exec = "proc", NEW m \in Mutexes, NEW t, NEW c,
         current \in Procs, MayAcquire(m), AwaitMutex(m, t, c)
  PROVE  WaitInv'
  <1> USE MutexConstants
  <1>t. TypeOK /\ MutexTypeOK /\ OwnedIsOwner
    BY DEF MutexSched, MutexBase, MutexTypeOK
  <1>1. owned[current] = None
    BY <1>t DEF AwaitMutex, MayAcquire, OwnedIsOwner
  <1>2. \A n \in Mutexes : current \notin ToSet(queue[n])
    BY WaiterFacts
  <1>3. /\ \A x \in Resources \ {m} : queue'[x] = queue[x]
        /\ ToSet(queue'[m]) = ToSet(queue[m]) \cup {current}
        /\ Distinct(queue[m]) /\ current \notin ToSet(queue[m]) => Distinct(queue'[m])
    <2> DEFINE sorted == m \in PriorityQueued
    <2>1. EnqueueBy(m, sorted) /\ m \in Resources /\ sorted \in BOOLEAN
      BY DEF AwaitMutex, Enqueue
    <2> HIDE DEF sorted
    <2> QED
      BY <2>1, <1>t, EnqueueProperties
  <1>4. \A n \in Mutexes : Distinct(queue'[n])
    BY <1>2, <1>3 DEF WaitInv
  <1>5. /\ state'[current] = "WAITING" /\ owned' = owned
        /\ \A p \in Procs \ {current} : state'[p] = state[p] /\ tracked'[p] = tracked[p]
        /\ tracked'[current] = (tracked[current] \ Mutexes) \cup {m}
    BY <1>t DEF AwaitMutex, TypeOK
  <1>6. tracked'[current] = {m}
    BY <1>5 DEF WaitInv
  <1>7. WaitersWait'
    <2> SUFFICES ASSUME NEW n \in Mutexes, NEW p \in ToSet(queue'[n])
                 PROVE  state'[p] = "WAITING" /\ owned'[p] = None /\ tracked'[p] = {n}
      BY DEF WaitersWait
    <2>1. CASE p \in ToSet(queue[n])
      BY <1>2, <1>5, <2>1, WaiterFacts
    <2>2. CASE p \notin ToSet(queue[n])
      <3>1. p = current /\ n = m
        BY <1>3, <2>2
      <3> QED
        BY <1>1, <1>5, <1>6, <3>1
    <2> QED
      BY <2>1, <2>2
  <1>8. \A p \in Procs : tracked'[p] \subseteq Mutexes
    BY <1>5, <1>6 DEF WaitInv
  <1>9. OwnerIsOwned' /\ exec' # "main"
    BY <1>5 DEF AwaitMutex, WaitInv, OwnerIsOwned, yield_to_partition
  <1> QED
    BY <1>4, <1>7, <1>8, <1>9 DEF WaitInv

(* A hand-over by p: the first waiter leaves the queue as owner.           *)
LEMMA PassOnWait ==
  ASSUME MutexSched, WaitInv, exec = "proc", current \in Procs,
         NEW m \in Mutexes, NEW p \in Procs, owned[p] = m, PassOn(m, p),
         \A q \in Procs \ {current} :
           state'[q] = IF q \in Woken(m) THEN "READY" ELSE state[q],
         yield_to_partition
  PROVE  WaitInv'
  <1> USE MutexConstants
  <1>t. /\ TypeOK /\ OwnedIsOwner
        /\ owned \in [Procs -> Mutexes \cup {None}]
        /\ owner \in [Mutexes -> Procs \cup {None}]
        /\ tracked \in [Procs -> SUBSET Resources]
        /\ queue \in [Resources -> Seq(Procs)]
    BY DEF MutexSched, MutexBase, MutexTypeOK, TypeOK
  <1>1. \A n \in Mutexes : p \notin ToSet(queue[n]) /\ current \notin ToSet(queue[n])
    BY WaiterFacts
  <1>2. \A n \in Mutexes : owner[n] = p => n = m
    BY DEF WaitInv, OwnerIsOwned
  <1>3. CASE Woken(m) = {}
    <2>1. queue[m] = <<>>
      BY <1>3 DEF Woken
    <2>2. /\ queue' = queue /\ tracked' = tracked
          /\ owner' = [owner EXCEPT ![m] = None]
          /\ owned' = [owned EXCEPT ![p] = None]
      BY <1>3, <1>t, <2>1 DEF PassOn
    <2>3. OwnerIsOwned'
      <3>1. ASSUME NEW n \in Mutexes, NEW q \in Procs, owner'[n] = q PROVE owned'[q] = n
        <4>1. n # m /\ owner[n] = q /\ q # p
          BY <1>t, <1>2, <2>2, <3>1
        <4> QED
          BY <1>t, <2>2, <4>1 DEF WaitInv, OwnerIsOwned
      <3> QED
        BY <3>1 DEF OwnerIsOwned
    <2>4. WaitersWait'
      <3> SUFFICES ASSUME NEW n \in Mutexes, NEW q \in ToSet(queue[n])
                   PROVE  state'[q] = "WAITING" /\ owned'[q] = None /\ tracked'[q] = {n}
        BY <2>2 DEF WaitersWait
      <3>1. /\ q \in Procs /\ q # p /\ q # current
            /\ state[q] = "WAITING" /\ owned[q] = None /\ tracked[q] = {n}
        BY <1>1, WaiterFacts
      <3> QED
        BY <1>3, <1>t, <2>2, <3>1
    <2> QED
      BY <2>2, <2>3, <2>4 DEF WaitInv, yield_to_partition
  <1>4. ASSUME NEW w \in Woken(m),
               owner' = [owner EXCEPT ![m] = w],
               owned' = [owned EXCEPT ![p] = None, ![w] = m],
               tracked' = [tracked EXCEPT ![w] = @ \ Mutexes]
        PROVE  WaitInv'
    <2>1. queue[m] # <<>> /\ w = Head(queue[m]) /\ w \in Procs /\ w \in ToSet(queue[m])
      BY <1>4, <1>t, WokenIsHead
    <2>2. queue' = [queue EXCEPT ![m] = Tail(queue[m])]
      BY <2>1, <1>t DEF PassOn
    <2>3. /\ \A x \in Resources \ {m} : queue'[x] = queue[x]
          /\ ToSet(queue'[m]) \subseteq ToSet(queue[m])
          /\ Distinct(queue'[m]) /\ w \notin ToSet(queue'[m])
      BY <1>t, <2>1, <2>2, DequeueProperties DEF WaitInv
    <2>4. w # p /\ w # current /\ owned[w] = None /\ tracked[w] = {m}
      BY <1>1, <2>1, WaiterFacts
    <2>5. Woken(m) = {w}
      BY <2>1 DEF Woken
    <2>6. OwnerIsOwned'
      <3>1. ASSUME NEW n \in Mutexes, NEW q \in Procs, owner'[n] = q PROVE owned'[q] = n
        <4>1. CASE n = m
          BY <1>4, <1>t, <2>1, <3>1, <4>1
        <4>2. CASE n # m
          <5>1. owner[n] = q /\ owned[q] = n
            BY <1>4, <1>t, <3>1, <4>2 DEF WaitInv, OwnerIsOwned
          <5>2. q # p /\ q # w
            BY <1>2, <2>4, <4>2, <5>1
          <5> QED
            BY <1>4, <1>t, <5>1, <5>2
        <4> QED
          BY <4>1, <4>2
      <3> QED
        BY <3>1 DEF OwnerIsOwned
    <2>7. WaitersWait'
      <3> SUFFICES ASSUME NEW n \in Mutexes, NEW q \in ToSet(queue'[n])
                   PROVE  state'[q] = "WAITING" /\ owned'[q] = None /\ tracked'[q] = {n}
        BY DEF WaitersWait
      <3>1. q \in ToSet(queue[n])
        BY <2>3
      <3>2. /\ q \in Procs /\ q # p /\ q # current
            /\ state[q] = "WAITING" /\ owned[q] = None /\ tracked[q] = {n}
        BY <1>1, <3>1, WaiterFacts
      <3>3. q # w
        BY <2>3, <2>4, <3>1, <3>2
      <3> QED
        BY <1>4, <1>t, <2>5, <3>2, <3>3
    <2>8. \A q \in Procs : tracked'[q] \subseteq Mutexes
      BY <1>4, <1>t, <2>1 DEF WaitInv
    <2> QED
      BY <2>3, <2>6, <2>7, <2>8 DEF WaitInv, yield_to_partition
  <1> QED
    BY <1>3, <1>4 DEF PassOn

LEMMA WaitStep ==
  ASSUME MutexSched, WaitInv, NoStrayWake, [MutexNext]_allVars
  PROVE  WaitInv'
  <1> USE MutexConstants
  <1>t. TypeOK /\ MutexTypeOK /\ SchedInv
    BY DEF MutexSched, MutexBase, MutexTypeOK
  <1>c. \A s : Calls(s) => current \in Procs /\ exec = "proc"
    BY <1>t, CallerRuns
  <1>u. ASSUME UNCHANGED <<vars, owner>> PROVE WaitInv'
    BY <1>u DEF WaitInv, WaitersWait, OwnerIsOwned, vars, schedVars, waitVars
  <1>r. ASSUME NEW m \in Mutexes, Release(m), current \in Procs, exec = "proc" PROVE WaitInv'
    <2>1. CASE UNCHANGED <<vars, owner>>
      BY <1>u, <2>1
    <2>2. CASE PassOn(m, current) /\ state' = StateAfterPass(m) /\ yield_to_partition
      BY <1>r, <2>2, PassOnWait DEF Release, StateAfterPass
    <2> QED
      BY <1>r, <2>1, <2>2 DEF Release
  <1>1. CASE ProcessStep
    BY <1>1, ProcessStepWait
  <1>2. ASSUME NEW m \in Mutexes, NEW t \in Timeouts, ACQUIRE_MUTEX(m, t) PROVE WaitInv'
    <2>1. MayAcquire(m) /\ current \in Procs /\ exec = "proc"
      BY <1>2, <1>c DEF ACQUIRE_MUTEX
    <2>2. CASE Take(m)
      BY <2>1, <2>2, TakeWait
    <2>3. CASE TakeAgain(m)
      BY <2>3, <1>u DEF TakeAgain
    <2>4. CASE ~Take(m) /\ ~TakeAgain(m)
      BY <1>2, <2>1, <2>4, AwaitMutexWait DEF ACQUIRE_MUTEX
    <2> QED
      BY <2>2, <2>3, <2>4
  <1>3. ASSUME NEW m \in Mutexes, RELEASE_MUTEX(m) PROVE WaitInv'
    BY <1>3, <1>c, <1>r DEF RELEASE_MUTEX
  <1>4. ASSUME NEW m \in Mutexes, NEW p \in Named, RESET_MUTEX(m, p) PROVE WaitInv'
    BY <1>4, <1>c, PassOnWait DEF RESET_MUTEX, StateAfterPass
  <1>5. CASE STOP_SELF_owner
    <2>1. current \in Procs /\ exec = "proc" /\ owned[current] \in Mutexes
      BY <1>5, <1>c, <1>t DEF STOP_SELF_owner, TypeOK
    <2> DEFINE m == owned[current]
    <2>2. /\ PassOn(m, current) /\ yield_to_partition
          /\ state' = [StateAfterPass(m) EXCEPT ![current] = "DORMANT"]
      BY <1>5 DEF STOP_SELF_owner
    <2>3. \A q \in Procs \ {current} :
            state'[q] = IF q \in Woken(m) THEN "READY" ELSE state[q]
      BY <2>2 DEF StateAfterPass
    <2> QED
      BY <2>1, <2>2, <2>3, PassOnWait
  <1>6. ASSUME NEW p \in Named, NEW v \in Priorities, SET_PRIORITY_owner(p, v)
        PROVE  WaitInv'
    <2>1. UNCHANGED <<queue, tracked, state, owned, owner>> /\ exec' # "main"
      BY <1>6, <1>c DEF SET_PRIORITY_owner, waitVars, yield_to_partition
    <2> QED
      BY <2>1 DEF WaitInv, WaitersWait, OwnerIsOwned
  <1>7. CASE LOCK_PREEMPTION
    <2>1. current \in Procs /\ exec = "proc"
      BY <1>7, <1>c DEF LOCK_PREEMPTION
    <2>2. CASE MayAcquire(PreemptionLock) /\ Take(PreemptionLock)
      BY <2>1, <2>2, TakeWait
    <2>3. CASE UNCHANGED <<vars, owner>>
      BY <2>3, <1>u
    <2>4. CASE /\ MayAcquire(PreemptionLock)
               /\ AwaitMutex(PreemptionLock, INFINITE, "LOCK_PREEMPTION")
      BY <2>1, <2>4, AwaitMutexWait
    <2> QED
      BY <1>7, <2>2, <2>3, <2>4 DEF LOCK_PREEMPTION, TakeAgain
  <1>8. CASE UNLOCK_PREEMPTION
    BY <1>8, <1>c, <1>r DEF UNLOCK_PREEMPTION
  <1>9. CASE Return
    BY <1>9 DEF Return, schedVars, WaitInv, WaitersWait, OwnerIsOwned
  <1>10. CASE UNCHANGED allVars
    BY <1>10, <1>u DEF allVars, mutexVars
  <1> QED
    BY <1>1, <1>2, <1>3, <1>4, <1>5, <1>6, <1>7, <1>8, <1>9, <1>10 DEF MutexNext

LEMMA WaitInvariant == MutexSpec /\ []NoStrayWake => []WaitInv
  BY InitWait, WaitStep, MutexSchedInvariant, PTL DEF MutexSpec

LEMMA AgreesFromWait == MutexSched /\ WaitInv => OwnershipAgrees
  BY DEF MutexSched, MutexBase, FreeIffUnlocked, OwnedIsOwner, WaitInv, OwnerIsOwned,
         OwnershipAgrees

(* As long as only hand-overs end waits, the two records of ownership      *)
(* agree: no mutex has two owners and no process two mutexes.              *)
THEOREM RecordsOfOwnershipAgree == MutexSpec /\ []NoStrayWake => []OwnershipAgrees
  BY AgreesFromWait, WaitInvariant, MutexSchedInvariant, PTL

(* As long as only hand-overs end waits, whoever is queued for a mutex     *)
(* waits for it, for nothing else, and owns nothing, so that no circle of  *)
(* owners waiting for each other arises.                                   *)
THEOREM QueuedForMutexWait == MutexSpec /\ []NoStrayWake => []WaitersWait
  <1>1. WaitInv => WaitersWait
    BY DEF WaitInv
  <1> QED
    BY <1>1, WaitInvariant, PTL

(***************************************************************************)
(* Ceilings and the preemption lock, as long as no owner is stopped        *)
(***************************************************************************)

(* No process is stopped while it owns a mutex: STOP leaves the mutex to   *)
(* the stopped process, which START then gives its base priority.          *)
OwnersAlive == \A p \in Procs : owned[p] # None => state[p] # "DORMANT"

(* An owner is at its ceiling and does not wait.                           *)
OwnersWork ==
  \A m \in Mutexes, p \in Procs :
    owner[m] = p => priority[p] = MutexPriority[m] /\ state[p] \in {"READY", "RUNNING"}

HandlerDormant == ErrorHandler \in Procs => state[ErrorHandler] = "DORMANT"

CeilInv == OwnersWork /\ HandlerDormant

LEMMA InitCeil == MutexInit => CeilInv
  BY MutexConstants DEF MutexInit, Init, CeilInv, OwnersWork, HandlerDormant

LEMMA PassOnCeil ==
  ASSUME MutexSched, WaitInv, CeilInv, exec = "proc", current \in Procs,
         NEW m \in Mutexes, NEW p \in Procs, owned[p] = m, PassOn(m, p),
         \A q \in Procs \ {p} :
           state'[q] = IF q \in Woken(m) THEN "READY" ELSE state[q],
         state'[p] \in {state[p], "DORMANT"}
  PROVE  CeilInv'
  <1> USE MutexConstants
  <1>t. /\ TypeOK
        /\ priority \in [Procs -> Nat]
        /\ owner \in [Mutexes -> Procs \cup {None}]
    BY DEF MutexSched, MutexBase, MutexTypeOK, TypeOK
  <1>1. \A n \in Mutexes : p \notin ToSet(queue[n])
    BY WaiterFacts
  <1>2. \A n \in Mutexes : owner[n] = p => n = m
    BY DEF WaitInv, OwnerIsOwned
  <1>3. Restored(m, p) \in [Procs -> Nat] /\ \A q \in Procs \ {p} : Restored(m, p)[q] = priority[q]
    BY <1>t DEF Restored, MutexSched, MutexBase, MutexTypeOK
  <1>4. \A w \in Woken(m) : w \in Procs /\ w # p /\ state[w] = "WAITING" /\ Woken(m) = {w}
    <2> TAKE w \in Woken(m)
    <2>1. w \in Procs /\ w \in ToSet(queue[m]) /\ w = Head(queue[m]) /\ queue[m] # <<>>
      BY <1>t, WokenIsHead
    <2> QED
      BY <1>1, <2>1, WaiterFacts DEF Woken
  <1>5. OwnersWork'
    <2>1. CASE Woken(m) = {}
      <3>1. owner' = [owner EXCEPT ![m] = None] /\ priority' = Restored(m, p)
        BY <2>1 DEF PassOn
      <3>2. ASSUME NEW n \in Mutexes, NEW q \in Procs, owner'[n] = q
            PROVE  priority'[q] = MutexPriority[n] /\ state'[q] \in {"READY", "RUNNING"}
        <4>1. n # m /\ owner[n] = q /\ q # p
          BY <1>t, <1>2, <3>1, <3>2
        <4> QED
          BY <1>3, <2>1, <3>1, <4>1 DEF CeilInv, OwnersWork
      <3> QED
        BY <3>2 DEF OwnersWork
    <2>2. ASSUME NEW w \in Woken(m),
                 owner' = [owner EXCEPT ![m] = w],
                 priority' = [Restored(m, p) EXCEPT ![w] = MutexPriority[m]]
          PROVE  OwnersWork'
      <3>1. ASSUME NEW n \in Mutexes, NEW q \in Procs, owner'[n] = q
            PROVE  priority'[q] = MutexPriority[n] /\ state'[q] \in {"READY", "RUNNING"}
        <4>1. CASE n = m
          <5>1. q = w /\ q # p /\ q \in Woken(m)
            BY <1>t, <1>4, <2>2, <3>1, <4>1
          <5> QED
            BY <1>3, <2>2, <4>1, <5>1
        <4>2. CASE n # m
          <5>1. owner[n] = q /\ q # p
            BY <1>t, <1>2, <2>2, <3>1, <4>2
          <5>2. q # w /\ q \notin Woken(m)
            BY <1>4, <2>2, <5>1 DEF CeilInv, OwnersWork
          <5> QED
            BY <1>3, <2>2, <5>1, <5>2 DEF CeilInv, OwnersWork
        <4> QED
          BY <4>1, <4>2
      <3> QED
        BY <3>1 DEF OwnersWork
    <2> QED
      BY <2>1, <2>2 DEF PassOn
  <1>6. HandlerDormant'
    BY <1>4 DEF CeilInv, HandlerDormant
  <1> QED
    BY <1>5, <1>6 DEF CeilInv

LEMMA CeilStep ==
  ASSUME MutexSched, WaitInv, CeilInv, OwnersAlive', [MutexNext]_allVars
  PROVE  CeilInv'
  <1> USE MutexConstants
  <1>t. /\ TypeOK /\ MutexTypeOK /\ SchedInv
        /\ priority \in [Procs -> Nat]
        /\ owner \in [Mutexes -> Procs \cup {None}]
        /\ owned \in [Procs -> Mutexes \cup {None}]
        /\ state \in [Procs -> States]
    BY DEF MutexSched, MutexBase, MutexTypeOK, TypeOK
  <1>c. \A s : Calls(s) => current \in Procs /\ exec = "proc" /\ state[current] = "RUNNING"
    BY <1>t, CallerRuns
  <1>u. ASSUME UNCHANGED <<state, priority, owner>> PROVE CeilInv'
    BY <1>u DEF CeilInv, OwnersWork, HandlerDormant
  <1>k. ASSUME NEW m \in Mutexes, Take(m), MayAcquire(m), current \in Procs,
               state[current] = "RUNNING"
        PROVE  CeilInv'
    <2>1. /\ owner' = [owner EXCEPT ![m] = current]
          /\ priority' = [priority EXCEPT ![current] = MutexPriority[m]]
          /\ state' = state /\ owner[m] = None
      BY <1>k DEF Take
    <2>2. owned[current] = None
      BY <1>k, <2>1 DEF MayAcquire, MutexSched, MutexBase, OwnedIsOwner
    <2>3. ASSUME NEW n \in Mutexes, NEW q \in Procs, owner'[n] = q
          PROVE  priority'[q] = MutexPriority[n] /\ state'[q] \in {"READY", "RUNNING"}
      <3>1. CASE n = m
        BY <1>k, <1>t, <2>1, <2>3, <3>1
      <3>2. CASE n # m
        <4>1. owner[n] = q /\ q # current
          BY <1>t, <2>1, <2>2, <2>3, <3>2 DEF WaitInv, OwnerIsOwned
        <4> QED
          BY <1>t, <2>1, <4>1 DEF CeilInv, OwnersWork
      <3> QED
        BY <3>1, <3>2
    <2> QED
      BY <2>1, <2>3 DEF CeilInv, OwnersWork, HandlerDormant
  <1>w. ASSUME NEW m \in Mutexes, NEW t, NEW c, AwaitMutex(m, t, c), MayAcquire(m),
               current \in Procs, state[current] = "RUNNING"
        PROVE  CeilInv'
    <2>1. /\ state' = [state EXCEPT ![current] = "WAITING"]
          /\ UNCHANGED <<priority, owner>>
      BY <1>w DEF AwaitMutex
    <2>2. owned[current] = None
      BY <1>w DEF AwaitMutex, MayAcquire, MutexSched, MutexBase, OwnedIsOwner
    <2>3. \A n \in Mutexes : owner[n] # current
      BY <1>w, <2>2 DEF WaitInv, OwnerIsOwned
    <2>4. OwnersWork'
      BY <1>t, <1>w, <2>1, <2>3 DEF CeilInv, OwnersWork
    <2>5. HandlerDormant'
      BY <1>t, <1>w, <2>1 DEF CeilInv, HandlerDormant
    <2> QED
      BY <2>4, <2>5 DEF CeilInv
  <1>r. ASSUME NEW m \in Mutexes, Release(m), current \in Procs, exec = "proc" PROVE CeilInv'
    <2>1. CASE UNCHANGED <<vars, owner>>
      BY <1>u, <2>1 DEF vars
    <2>2. CASE PassOn(m, current) /\ state' = StateAfterPass(m)
      <3>1. \A q \in Procs : state'[q] = IF q \in Woken(m) THEN "READY" ELSE state[q]
        BY <2>2 DEF StateAfterPass
      <3>2. current \notin Woken(m)
        BY <1>r, <1>t, WokenIsHead, WaiterFacts
      <3> QED
        BY <1>r, <2>2, <3>1, <3>2, PassOnCeil DEF Release
    <2> QED
      BY <1>r, <2>1, <2>2 DEF Release
  <1>1. CASE ProcessStep
    <2>1. Next /\ owner' = owner /\ owned' = owned
      BY <1>1, OwnedUnchanged DEF ProcessStep, mutexVars
    <2>2. ASSUME NEW m \in Mutexes, NEW p \in Procs, owner[m] = p
          PROVE  priority'[p] = MutexPriority[m] /\ state'[p] \in {"READY", "RUNNING"}
      <3>1. owned[p] = m /\ owned'[p] # None
        BY <2>1, <2>2 DEF WaitInv, OwnerIsOwned
      <3>2. state'[p] # "DORMANT"
        BY <3>1 DEF OwnersAlive
      <3> QED
        BY <1>t, <2>1, <2>2, <3>1, <3>2, OwnerKeepsWorking DEF CeilInv, OwnersWork
    <2>3. HandlerDormant'
      BY <1>t, <2>1, HandlerStaysDormant DEF CeilInv, HandlerDormant
    <2> QED
      BY <2>1, <2>2, <2>3 DEF CeilInv, OwnersWork
  <1>2. ASSUME NEW m \in Mutexes, NEW t \in Timeouts, ACQUIRE_MUTEX(m, t) PROVE CeilInv'
    <2>1. MayAcquire(m) /\ current \in Procs /\ state[current] = "RUNNING"
      BY <1>2, <1>c DEF ACQUIRE_MUTEX
    <2>2. CASE Take(m)
      BY <2>1, <2>2, <1>k
    <2>3. CASE TakeAgain(m)
      BY <2>3, <1>u DEF TakeAgain, vars
    <2>4. CASE ~Take(m) /\ ~TakeAgain(m)
      BY <1>2, <2>1, <2>4, <1>w DEF ACQUIRE_MUTEX
    <2> QED
      BY <2>2, <2>3, <2>4
  <1>3. ASSUME NEW m \in Mutexes, RELEASE_MUTEX(m) PROVE CeilInv'
    BY <1>3, <1>c, <1>r DEF RELEASE_MUTEX
  <1>4. ASSUME NEW m \in Mutexes, NEW p \in Named, RESET_MUTEX(m, p) PROVE CeilInv'
    <2>1. /\ owned[p] = m /\ PassOn(m, p) /\ state' = StateAfterPass(m)
          /\ current \in Procs /\ exec = "proc" /\ p \in Procs
      BY <1>4, <1>c DEF RESET_MUTEX
    <2>2. \A q \in Procs : state'[q] = IF q \in Woken(m) THEN "READY" ELSE state[q]
      BY <2>1 DEF StateAfterPass
    <2>3. p \notin Woken(m)
      BY <1>t, <2>1, WokenIsHead, WaiterFacts
    <2> QED
      BY <2>1, <2>2, <2>3, PassOnCeil
  <1>5. CASE STOP_SELF_owner
    <2>1. current \in Procs /\ exec = "proc" /\ owned[current] \in Mutexes
      BY <1>5, <1>c, <1>t DEF STOP_SELF_owner
    <2> DEFINE m == owned[current]
    <2>2. /\ PassOn(m, current)
          /\ state' = [StateAfterPass(m) EXCEPT ![current] = "DORMANT"]
      BY <1>5 DEF STOP_SELF_owner
    <2>3. /\ \A q \in Procs \ {current} :
               state'[q] = IF q \in Woken(m) THEN "READY" ELSE state[q]
          /\ state'[current] = "DORMANT"
      BY <2>1, <2>2 DEF StateAfterPass
    <2> QED
      BY <2>1, <2>2, <2>3, PassOnCeil
  <1>6. ASSUME NEW p \in Named, NEW v \in Priorities, SET_PRIORITY_owner(p, v)
        PROVE  CeilInv'
    BY <1>6, <1>u DEF SET_PRIORITY_owner, SavePriority
  <1>7. CASE LOCK_PREEMPTION
    <2>1. current \in Procs /\ state[current] = "RUNNING"
      BY <1>7, <1>c DEF LOCK_PREEMPTION
    <2>2. CASE MayAcquire(PreemptionLock) /\ Take(PreemptionLock)
      BY <2>1, <2>2, <1>k
    <2>3. CASE UNCHANGED <<vars, owner>>
      BY <2>3, <1>u DEF vars
    <2>4. CASE /\ MayAcquire(PreemptionLock)
               /\ AwaitMutex(PreemptionLock, INFINITE, "LOCK_PREEMPTION")
      BY <2>1, <2>4, <1>w
    <2> QED
      BY <1>7, <2>2, <2>3, <2>4 DEF LOCK_PREEMPTION, TakeAgain
  <1>8. CASE UNLOCK_PREEMPTION
    BY <1>8, <1>c, <1>r DEF UNLOCK_PREEMPTION
  <1>9. CASE Return
    BY <1>9, <1>u DEF Return
  <1>10. CASE UNCHANGED allVars
    BY <1>10, <1>u DEF allVars, mutexVars, vars
  <1> QED
    BY <1>1, <1>2, <1>3, <1>4, <1>5, <1>6, <1>7, <1>8, <1>9, <1>10 DEF MutexNext

LEMMA CeilInvariant ==
  MutexSpec /\ []NoStrayWake /\ []OwnersAlive => []CeilInv
  BY InitCeil, CeilStep, WaitInvariant, MutexSchedInvariant, PTL DEF MutexSpec

(* As long as only hand-overs end waits and no owner is stopped, the owner *)
(* of a mutex runs at its ceiling from the moment it gets the mutex to its *)
(* release.                                                                *)
THEOREM OwnersAtCeiling ==
  MutexSpec /\ []NoStrayWake /\ []OwnersAlive => []OwnerHasCeiling
  <1>1. MutexSched /\ CeilInv => OwnerHasCeiling
    BY DEF MutexSched, MutexBase, MutexTypeOK, CeilInv, OwnersWork, OwnerHasCeiling
  <1> QED
    BY <1>1, CeilInvariant, MutexSchedInvariant, PTL

(* Under the same conditions, while preemption is locked only the owner of *)
(* the lock, or a process of at least the lock's priority, has the         *)
(* processor: the owner never waits, and nobody who is READY outranks it.  *)
THEOREM LockExcludesOthers ==
  MutexSpec /\ []NoStrayWake /\ []OwnersAlive => []PreemptionLocked
  <1>1. MutexSched /\ CeilInv => PreemptionLocked
    <2> SUFFICES ASSUME MutexSched, CeilInv, exec = "proc", owner[PreemptionLock] # None,
                        current # owner[PreemptionLock]
                 PROVE  priority[current] >= MutexPriority[PreemptionLock]
      BY DEF PreemptionLocked
    <2> DEFINE o == owner[PreemptionLock]
    <2>1. o \in Procs /\ current \in Procs /\ priority \in [Procs -> Nat]
      BY MutexConstants DEF MutexSched, MutexBase, MutexTypeOK, TypeOK
    <2>2. priority[o] = MutexPriority[PreemptionLock] /\ state[o] \in {"READY", "RUNNING"}
      BY <2>1, MutexConstants DEF CeilInv, OwnersWork
    <2>3. state[current] = "RUNNING" /\ state[o] = "READY"
      BY <2>1, <2>2 DEF MutexSched, SchedInv, RunningIsCurrent
    <2>4. current # ErrorHandler
      BY <2>1, <2>3 DEF CeilInv, HandlerDormant
    <2>5. priority[o] <= priority[current]
      BY <2>1, <2>3, <2>4 DEF MutexSched, SchedInv, PriorityRespected
    <2> HIDE DEF o
    <2> QED
      BY <2>1, <2>2, <2>5
  <1> QED
    BY <1>1, CeilInvariant, MutexSchedInvariant, PTL

(* LOCK_LEVEL is the lock count for everybody but an owner that was handed *)
(* the lock and has not returned from LOCK_PREEMPTION yet.                 *)
LockInv ==
  /\ \A p \in Procs :
       owner[PreemptionLock] = p =>
         lock_level = lock_count[PreemptionLock] \/ call[p] = "LOCK_PREEMPTION"
  /\ \A p \in ToSet(queue[PreemptionLock]) : call[p] = "LOCK_PREEMPTION"

LEMMA InitLock == MutexInit => LockInv
  <1> SUFFICES ASSUME MutexInit PROVE LockInv
    OBVIOUS
  <1>1. queue[PreemptionLock] = <<>> /\ owner[PreemptionLock] = None
    BY MutexConstants DEF MutexInit, Init
  <1>2. ToSet(<<>>) = {}
    BY DEF ToSet
  <1> QED
    BY <1>1, <1>2, MutexConstants DEF LockInv

LEMMA ProcessStepLock ==
  ASSUME MutexSched, WaitInv, CeilInv, LockInv, NoStrayWake, OwnersAlive', ProcessStep
  PROVE  LockInv'
  <1> USE MutexConstants
  <1>t. TypeOK /\ SchedInv
    BY DEF MutexSched, MutexBase, MutexTypeOK
  <1>1. Next /\ UNCHANGED mutexVars /\ owned' = owned
    BY OwnedUnchanged DEF ProcessStep
  <1>2. ASSUME NEW p \in Procs, owner[PreemptionLock] = p
        PROVE  lock_level = lock_count[PreemptionLock] \/ call'[p] = "LOCK_PREEMPTION"
    <2>1. owned[p] = PreemptionLock /\ owned'[p] # None
      BY <1>1, <1>2 DEF WaitInv, OwnerIsOwned
    <2>2. state[p] \in {"READY", "RUNNING"} /\ state'[p] # "DORMANT"
      BY <1>2, <2>1 DEF CeilInv, OwnersWork, OwnersAlive
    <2>3. call'[p] = call[p] \/ call[p] \in RcOnly
      BY <1>1, <1>t, <2>1, <2>2, OwnerKeepsWorking
    <2>4. "LOCK_PREEMPTION" \notin RcOnly
      BY DEF RcOnly
    <2> QED
      BY <1>2, <2>3, <2>4 DEF LockInv
  <1>3. ASSUME NEW p \in ToSet(queue'[PreemptionLock]) PROVE call'[p] = "LOCK_PREEMPTION"
    <2> DEFINE m == PreemptionLock
    <2>1. p \in ToSet(queue[m])
      BY <1>1, <1>3, <1>t, StepsShrinkQueues
    <2>2. /\ p \in Procs /\ state[p] = "WAITING" /\ tracked[p] = {m} /\ exec # "main"
      BY <2>1, WaiterFacts
    <2>3. ~Released(p) /\ ~Expired(p) /\ ~suspended[p]
      BY <2>1 DEF NoStrayWake
    <2>4. ~STOP(p)
      BY <1>1, <1>3, <1>t, <2>2, StepsShrinkQueues DEF WaitInv
    <2>5. call'[p] = call[p]
      BY <1>1, <1>t, <2>2, <2>3, <2>4, WaitingStaysWaiting
    <2> QED
      BY <2>1, <2>5 DEF LockInv
  <1> QED
    BY <1>1, <1>2, <1>3 DEF LockInv, mutexVars

LEMMA PassOnLock ==
  ASSUME MutexSched, WaitInv, LockInv, exec = "proc", current \in Procs,
         NEW m \in Mutexes, NEW p \in Procs, owned[p] = m, PassOn(m, p),
         \A q \in Procs \ {current} : call'[q] = call[q],
         m # PreemptionLock => call' = call /\ lock_level' = lock_level
  PROVE  LockInv'
  <1> USE MutexConstants
  <1> DEFINE lk == PreemptionLock
  <1>t. /\ TypeOK
        /\ owner \in [Mutexes -> Procs \cup {None}]
        /\ lock_count \in [Mutexes -> 0 .. MaxLockLevel]
        /\ queue \in [Resources -> Seq(Procs)]
    BY DEF MutexSched, MutexBase, MutexTypeOK, TypeOK
  <1>1. \/ Woken(m) = {} /\ queue[m] = <<>> /\ owner' = [owner EXCEPT ![m] = None]
        \/ \E w \in Woken(m) : owner' = [owner EXCEPT ![m] = w] /\ queue[m] # <<>>
    BY DEF PassOn, Woken
  <1>2. \E n : lock_count' = [lock_count EXCEPT ![m] = n]
    BY DEF PassOn
  <1>3. queue' = [queue EXCEPT ![m] = IF queue[m] = <<>> THEN queue[m] ELSE Tail(queue[m])]
    BY DEF PassOn
  <1>4. CASE m # lk
    <2>1. owner'[lk] = owner[lk] /\ lock_count'[lk] = lock_count[lk] /\ queue'[lk] = queue[lk]
      BY <1>t, <1>1, <1>2, <1>3, <1>4
    <2> QED
      BY <1>4, <2>1 DEF LockInv
  <1>5. CASE m = lk /\ queue[m] = <<>>
    <2>1. owner'[lk] = None /\ queue'[lk] = queue[lk]
      BY <1>t, <1>1, <1>3, <1>5
    <2>2. ToSet(<<>>) = {}
      BY DEF ToSet
    <2> QED
      BY <1>5, <2>1, <2>2 DEF LockInv
  <1>6. CASE m = lk /\ queue[m] # <<>>
    <2>1. PICK w \in Woken(m) : owner' = [owner EXCEPT ![m] = w]
      BY <1>1, <1>6
    <2>2. w \in ToSet(queue[m])
      BY <1>t, <2>1, WokenIsHead
    <2>3. ToSet(queue'[m]) \subseteq ToSet(queue[m])
      BY <1>t, <1>3, <1>6, DequeueProperties
    <2>4. ASSUME NEW q \in ToSet(queue[m]) PROVE call'[q] = "LOCK_PREEMPTION"
      BY <1>6, WaiterFacts DEF LockInv
    <2>5. owner'[lk] = w
      BY <1>t, <1>6, <2>1
    <2> QED
      BY <1>6, <2>2, <2>3, <2>4, <2>5 DEF LockInv
  <1> QED
    BY <1>4, <1>5, <1>6

LEMMA LockStep ==
  ASSUME MutexSched, WaitInv, CeilInv, LockInv, NoStrayWake, OwnersAlive',
         [MutexNext]_allVars
  PROVE  LockInv'
  <1> USE MutexConstants
  <1> DEFINE lk == PreemptionLock
  <1>t. /\ TypeOK /\ MutexTypeOK /\ SchedInv
        /\ owner \in [Mutexes -> Procs \cup {None}]
        /\ lock_count \in [Mutexes -> 0 .. MaxLockLevel]
        /\ queue \in [Resources -> Seq(Procs)]
        /\ call \in [Procs -> Doing]
    BY DEF MutexSched, MutexBase, MutexTypeOK, TypeOK
  <1>c. \A s : Calls(s) => current \in Procs /\ exec = "proc"
    BY <1>t, CallerRuns
  <1>u. ASSUME UNCHANGED <<lock_level, call, queue>>,
               owner'[lk] = owner[lk], lock_count'[lk] = lock_count[lk]
        PROVE  LockInv'
    BY <1>u DEF LockInv
  <1>s. ASSUME SetLockLevel, \A p \in ToSet(queue'[lk]) : call'[p] = "LOCK_PREEMPTION"
        PROVE  LockInv'
    BY <1>s DEF LockInv, SetLockLevel
  <1>w. ASSUME NEW m \in Mutexes, NEW t, NEW c, AwaitMutex(m, t, c), MayAcquire(m),
               current \in Procs, exec = "proc", lock_level' = lock_level,
               m = lk => c = "LOCK_PREEMPTION"
        PROVE  LockInv'
    <2>1. /\ UNCHANGED <<owner, lock_count>>
          /\ call' = [call EXCEPT ![current] = c]
      BY <1>w DEF AwaitMutex
    <2>2. owner[lk] # current
      BY <1>w DEF AwaitMutex, MayAcquire, MutexSched, MutexBase, OwnedIsOwner,
                  WaitInv, OwnerIsOwned
    <2>3. /\ \A x \in Resources \ {m} : queue'[x] = queue[x]
          /\ ToSet(queue'[m]) = ToSet(queue[m]) \cup {current}
      <3> DEFINE sorted == m \in PriorityQueued
      <3>1. EnqueueBy(m, sorted) /\ m \in Resources /\ sorted \in BOOLEAN
        BY <1>w DEF AwaitMutex, Enqueue
      <3> HIDE DEF sorted
      <3> QED
        BY <3>1, <1>t, <1>w, EnqueueProperties
    <2>4. ASSUME NEW p \in ToSet(queue'[lk]) PROVE call'[p] = "LOCK_PREEMPTION"
      <3>1. CASE p = current
        <4>1. m = lk
          BY <1>w, <2>3, <2>4, <3>1, WaiterFacts
        <4> QED
          BY <1>t, <1>w, <2>1, <3>1, <4>1
      <3>2. CASE p # current
        <4>1. p \in ToSet(queue[lk])
          BY <2>3, <2>4, <3>2
        <4>2. p \in Procs /\ call[p] = "LOCK_PREEMPTION"
          BY <4>1, WaiterFacts DEF LockInv
        <4> QED
          BY <1>t, <1>w, <2>1, <3>2, <4>2
      <3> QED
        BY <3>1, <3>2
    <2>5. \A p \in Procs : owner[lk] = p => call'[p] = call[p]
      BY <1>t, <2>1, <2>2
    <2> QED
      BY <1>w, <2>1, <2>4, <2>5 DEF LockInv
  <1>1. CASE ProcessStep
    BY <1>1, ProcessStepLock
  <1>2. ASSUME NEW m \in Mutexes, NEW t \in Timeouts, ACQUIRE_MUTEX(m, t) PROVE LockInv'
    <2>1. /\ MayAcquire(m) /\ current \in Procs /\ exec = "proc" /\ m # lk
          /\ lock_level' = lock_level
      BY <1>2, <1>c DEF ACQUIRE_MUTEX
    <2>2. CASE Take(m) \/ TakeAgain(m)
      <3>1. /\ UNCHANGED <<call, queue>>
            /\ owner' = owner \/ owner' = [owner EXCEPT ![m] = current]
            /\ lock_count' = [lock_count EXCEPT ![m] = @ + 1]
        BY <2>2 DEF Take, TakeAgain, vars, waitVars
      <3> QED
        BY <1>t, <1>u, <2>1, <3>1
    <2>3. CASE ~Take(m) /\ ~TakeAgain(m)
      BY <1>2, <2>1, <2>3, <1>w DEF ACQUIRE_MUTEX
    <2> QED
      BY <2>2, <2>3
  <1>3. ASSUME NEW m \in Mutexes, RELEASE_MUTEX(m) PROVE LockInv'
    <2>1. /\ current \in Procs /\ exec = "proc" /\ Release(m) /\ owned[current] = m
          /\ m # lk /\ UNCHANGED <<call, lock_level>>
      BY <1>3, <1>c DEF RELEASE_MUTEX, Release
    <2>2. CASE lock_count[m] # 1
      <3>1. UNCHANGED <<queue, owner>> /\ lock_count' = [lock_count EXCEPT ![m] = @ - 1]
        BY <2>1, <2>2 DEF Release, vars, waitVars
      <3> QED
        BY <1>t, <1>u, <2>1, <3>1
    <2>3. CASE lock_count[m] = 1
      BY <2>1, <2>3, PassOnLock DEF Release
    <2> QED
      BY <2>2, <2>3
  <1>4. ASSUME NEW m \in Mutexes, NEW p \in Named, RESET_MUTEX(m, p) PROVE LockInv'
    BY <1>4, <1>c, PassOnLock DEF RESET_MUTEX
  <1>5. CASE STOP_SELF_owner
    <2>1. current \in Procs /\ exec = "proc" /\ owned[current] \in Mutexes
      BY <1>5, <1>c, <1>t DEF STOP_SELF_owner, TypeOK
    <2> DEFINE m == owned[current]
    <2>2. /\ PassOn(m, current) /\ call' = call
          /\ m # lk => lock_level' = lock_level
      BY <1>5 DEF STOP_SELF_owner
    <2> QED
      BY <2>1, <2>2, PassOnLock
  <1>6. ASSUME NEW p \in Named, NEW v \in Priorities, SET_PRIORITY_owner(p, v)
        PROVE  LockInv'
    BY <1>6, <1>u DEF SET_PRIORITY_owner, waitVars
  <1>7. CASE LOCK_PREEMPTION
    <2>1. current \in Procs /\ exec = "proc"
      BY <1>7, <1>c DEF LOCK_PREEMPTION
    <2>2. CASE UNCHANGED <<call, queue>> /\ SetLockLevel
      BY <1>s, <2>2 DEF LockInv
    <2>3. CASE /\ MayAcquire(lk) /\ AwaitMutex(lk, INFINITE, "LOCK_PREEMPTION")
               /\ UNCHANGED lock_level
      BY <2>1, <2>3, <1>w
    <2> QED
      BY <1>7, <2>2, <2>3 DEF LOCK_PREEMPTION, Take, TakeAgain, vars, waitVars
  <1>8. CASE UNLOCK_PREEMPTION
    <2>1. /\ current \in Procs /\ exec = "proc" /\ Release(lk) /\ owned[current] = lk
      BY <1>8, <1>c DEF UNLOCK_PREEMPTION
    <2>2. CASE lock_count[lk] # 1
      <3>1. UNCHANGED <<call, queue>> /\ SetLockLevel
        BY <1>8, <2>1, <2>2 DEF UNLOCK_PREEMPTION, Release, vars, waitVars
      <3> QED
        BY <1>s, <3>1 DEF LockInv
    <2>3. CASE lock_count[lk] = 1
      <3>1. PassOn(lk, current) /\ call' = [call EXCEPT ![current] = "UNLOCK_PREEMPTION"]
        BY <1>8, <2>1, <2>3 DEF UNLOCK_PREEMPTION, Release
      <3>2. \A q \in Procs \ {current} : call'[q] = call[q]
        BY <1>t, <3>1
      <3> QED
        BY <2>1, <3>1, <3>2, PassOnLock
    <2> QED
      BY <2>2, <2>3
  <1>9. CASE Return
    <2>1. /\ exec = "proc" /\ current \in Procs /\ queue' = queue /\ owner' = owner
          /\ call' = [call EXCEPT ![current] = "app"] /\ lock_count' = lock_count
      BY <1>9, <1>t DEF Return, TypeOK
    <2>2. ASSUME NEW p \in ToSet(queue'[lk]) PROVE call'[p] = "LOCK_PREEMPTION"
      <3>1. p \in Procs /\ p # current /\ call[p] = "LOCK_PREEMPTION"
        BY <2>1, <2>2, WaiterFacts DEF LockInv
      <3> QED
        BY <1>t, <2>1, <3>1
    <2>3. CASE SetLockLevel
      BY <1>s, <2>2, <2>3
    <2>4. CASE lock_level' = lock_level /\ call[current] # "LOCK_PREEMPTION"
      <3>1. \A p \in Procs : p # current => call'[p] = call[p]
        BY <1>t, <2>1
      <3> QED
        BY <2>1, <2>2, <2>4, <3>1 DEF LockInv
    <2> QED
      BY <1>9, <2>3, <2>4 DEF Return
  <1>10. CASE UNCHANGED allVars
    BY <1>10, <1>u DEF allVars, mutexVars, vars, waitVars
  <1> QED
    BY <1>1, <1>2, <1>3, <1>4, <1>5, <1>6, <1>7, <1>8, <1>9, <1>10 DEF MutexNext

LEMMA LockInvariant ==
  MutexSpec /\ []NoStrayWake /\ []OwnersAlive => []LockInv
  BY InitLock, LockStep, CeilInvariant, WaitInvariant, MutexSchedInvariant, PTL
  DEF MutexSpec

(* Under the same conditions LOCK_LEVEL, which every process that returns  *)
(* from LOCK_PREEMPTION or UNLOCK_PREEMPTION writes, is right whenever the *)
(* owner of the lock is about to call UNLOCK_PREEMPTION.                   *)
THEOREM OwnerCanUnlock ==
  MutexSpec /\ []NoStrayWake /\ []OwnersAlive => []LockLevelAgrees
  <1>1. MutexSched /\ LockInv => LockLevelAgrees
    BY MutexConstants
    DEF MutexSched, MutexBase, MutexTypeOK, TypeOK, OwnedIsOwner, LockInv, LockLevelAgrees
  <1> QED
    BY <1>1, LockInvariant, MutexSchedInvariant, PTL

(***************************************************************************)
(* Partitions in which both conditions hold                                *)
(***************************************************************************)

(* No process is periodic, and services are asked to wait for ever or not  *)
(* at all.                                                                 *)
UntimedPartition == Periodic = {} /\ Timeouts \subseteq {0, INFINITE}

(* No timer runs, no start is delayed, and nobody who is suspended is      *)
(* queued for a mutex.                                                     *)
StillInv ==
  \A p \in Procs :
    /\ timer[p] \in {NoTimer, INFINITE}
    /\ init_delay[p] = 0
    /\ suspended[p] => state[p] = "WAITING" /\ \A m \in Mutexes : p \notin ToSet(queue[m])

LEMMA InitStill == MutexInit => StillInv
  BY DEF MutexInit, Init, StillInv

LEMMA StillIsNoStrayWake ==
  ASSUME UntimedPartition, MutexSched, StillInv
  PROVE  NoStrayWake /\ \A p \in Procs : ~Released(p) /\ ~Expired(p)
  <1>1. ASSUME NEW p \in Procs PROVE ~Released(p) /\ ~Expired(p)
    BY DEF UntimedPartition, StillInv, Released, Expired, NoTimer, INFINITE
  <1>2. ASSUME NEW m \in Mutexes, NEW p \in ToSet(queue[m]) PROVE p \in Procs /\ ~suspended[p]
    <2>1. queue[m] \in Seq(Procs)
      BY MutexConstants DEF MutexSched, MutexBase, MutexTypeOK, TypeOK
    <2>2. p \in Procs
      BY <2>1, ToSetOfSeq
    <2> QED
      BY <2>2 DEF StillInv
  <1> QED
    BY <1>1, <1>2 DEF NoStrayWake

(* A process that is suspended or waits stays as it is until it is resumed *)
(* or stopped.                                                             *)
LEMMA ProcessStepStill ==
  ASSUME UntimedPartition, MutexSched, WaitInv, StillInv, ProcessStep
  PROVE  StillInv'
  <1> USE MutexConstants
  <1>t. /\ TypeOK /\ SchedInv
        /\ state \in [Procs -> States]
        /\ timer \in [Procs -> Nat \cup {INFINITE, NoTimer}]
        /\ init_delay \in [Procs -> Nat]
        /\ suspended \in [Procs -> BOOLEAN]
    BY DEF MutexSched, MutexBase, MutexTypeOK, TypeOK
  <1>n. Next
    BY DEF ProcessStep
  <1>c. \A s : Calls(s) => current \in Procs /\ exec = "proc" /\ state[current] = "RUNNING"
    BY <1>t, CallerRuns
  <1>e. \A p \in Procs : ~Released(p) /\ ~Expired(p)
    BY StillIsNoStrayWake
  <1>a. Aperiodic = Procs /\ \A t \in Timeouts : t \in {0, INFINITE}
    BY DEF UntimedPartition, Aperiodic
  <1>q. \A m \in Mutexes : ToSet(queue'[m]) \subseteq ToSet(queue[m])
    BY <1>n, <1>t, StepsShrinkQueues
  <1>s. \A p \in Procs : tracked[p] \cap Mutexes = {} => \A m \in Mutexes : p \notin ToSet(queue[m])
    BY WaiterFacts
  <1>r. \A p \in Procs : state[p] = "RUNNING" => \A m \in Mutexes : p \notin ToSet(queue[m])
    BY WaiterFacts
  <1> SUFFICES ASSUME NEW p \in Procs
               PROVE  /\ timer'[p] \in {NoTimer, INFINITE}
                      /\ init_delay'[p] = 0
                      /\ suspended'[p] =>
                           /\ state'[p] = "WAITING"
                           /\ \A m \in Mutexes : p \notin ToSet(queue'[m])
    BY DEF StillInv
  <1>i. /\ timer[p] \in {NoTimer, INFINITE}
        /\ init_delay[p] = 0
        /\ suspended[p] => /\ state[p] = "WAITING"
                           /\ \A m \in Mutexes : p \notin ToSet(queue[m])
    BY DEF StillInv
  <1> DEFINE Kept == /\ timer'[p] \in {NoTimer, INFINITE}
                     /\ init_delay'[p] = 0
                     /\ suspended'[p] =>
                          /\ state'[p] = "WAITING"
                          /\ \/ suspended[p]
                             \/ state[p] = "RUNNING"
                             \/ tracked[p] \cap Mutexes = {}
  <1>0. ASSUME Kept PROVE /\ timer'[p] \in {NoTimer, INFINITE}
                          /\ init_delay'[p] = 0
                          /\ suspended'[p] =>
                               /\ state'[p] = "WAITING"
                               /\ \A m \in Mutexes : p \notin ToSet(queue'[m])
    <2>1. ASSUME suspended'[p] PROVE \A m \in Mutexes : p \notin ToSet(queue[m])
      BY <1>0, <1>i, <1>r, <1>s, <2>1
    <2>2. ASSUME suspended'[p], NEW m \in Mutexes PROVE p \notin ToSet(queue'[m])
      BY <1>q, <2>1, <2>2
    <2> QED
      BY <1>0, <2>2
  <1>1. ASSUME Tick PROVE Kept
    <2>1. timer'[p] = timer[p] /\ UNCHANGED <<init_delay, suspended, state>>
      BY <1>1, <1>i DEF Tick, CountDown, NoTimer, INFINITE
    <2> QED
      BY <1>i, <2>1
  <1>2. ASSUME partition_OS PROVE Kept
    <2>1. PICK st \in {state, StateAfterUpdate} : process_schedule(st)
      BY <1>2 DEF partition_OS
    <2>2. StateAfterUpdate = state
      BY <1>t, <1>e DEF StateAfterUpdate
    <2>3. state[p] = "WAITING" => state'[p] = "WAITING"
      BY <1>t, <2>1, <2>2, ScheduleKeeps
    <2>4. timer'[p] = timer[p] /\ init_delay'[p] = init_delay[p]
      <3>1. CASE tick_pending /\ arinc_time_update_partition
        BY <1>e, <3>1 DEF arinc_time_update_partition
      <3>2. CASE UNCHANGED timeVars
        BY <3>2 DEF timeVars
      <3> QED
        BY <1>2, <3>1, <3>2 DEF partition_OS
    <2>5. suspended'[p] => suspended[p]
      BY <1>2 DEF partition_OS, arinc_time_update_partition
    <2> QED
      BY <1>i, <2>3, <2>4, <2>5
  <1>3. ASSUME NEW q \in Named, NEW v \in Priorities, SET_PRIORITY(q, v) PROVE Kept
    BY <1>3, <1>i DEF SET_PRIORITY, timeVars
  <1>4. ASSUME NEW t \in Timeouts, SUSPEND_SELF(t) PROVE Kept
    <2>1. t = INFINITE /\ UNCHANGED <<timer, init_delay>>
      BY <1>4, <1>a DEF SUSPEND_SELF, Arm
    <2>2. CASE p = current
      BY <1>4, <1>c, <1>i, <1>t, <2>1, <2>2 DEF SUSPEND_SELF
    <2>3. CASE p # current
      <3>1. state'[p] = state[p]
        BY <1>4, <1>c, <1>t, <2>3 DEF SUSPEND_SELF
      <3>2. suspended'[p] = suspended[p]
        BY <1>4, <1>t, <2>3 DEF SUSPEND_SELF
      <3> QED
        BY <1>i, <2>1, <3>1, <3>2
    <2> QED
      BY <2>2, <2>3
  <1>5. ASSUME NEW t \in Timeouts, TIMED_WAIT(t) PROVE Kept
    <2>1. t = 0 /\ UNCHANGED <<timer, init_delay, suspended>>
          /\ state' = [state EXCEPT ![current] = "READY"]
      BY <1>5, <1>a DEF TIMED_WAIT
    <2>2. ~(suspended[p] /\ p = current)
      BY <1>5, <1>c, <1>i DEF TIMED_WAIT
    <2> QED
      BY <1>i, <1>t, <2>1, <2>2
  <1>6. ASSUME NEW q \in Named, SUSPEND(q) PROVE Kept
    <2>1. UNCHANGED <<timer, init_delay>> /\ tracked[q] \cap Mutexes = {}
      BY <1>6 DEF SUSPEND, timeVars
    <2>2. CASE p = q
      BY <1>6, <1>i, <1>t, <2>1, <2>2 DEF SUSPEND
    <2>3. CASE p # q
      BY <1>6, <1>i, <1>t, <2>1, <2>3 DEF SUSPEND
    <2> QED
      BY <2>2, <2>3
  <1>7. ASSUME NEW q \in Named, RESUME(q) PROVE Kept
    <2>1. init_delay' = init_delay
      BY <1>7 DEF RESUME
    <2>2. CASE p = q
      <3>1. timer'[p] \in {timer[p], NoTimer}
        BY <1>7, <1>t, <2>2 DEF RESUME
      <3>2. ~suspended'[p]
        BY <1>7, <1>t, <2>2 DEF RESUME
      <3> QED
        BY <1>i, <2>1, <3>1, <3>2
    <2>3. CASE p # q
      <3>1. timer'[p] = timer[p] /\ state'[p] = state[p]
        BY <1>7, <1>t, <2>3 DEF RESUME
      <3>2. suspended'[p] = suspended[p]
        BY <1>7, <1>t, <2>3 DEF RESUME
      <3> QED
        BY <1>i, <2>1, <3>1, <3>2
    <2> QED
      BY <2>2, <2>3
  <1>8. ASSUME NEW q \in Procs, Halt(q), init_delay' = init_delay PROVE Kept
    <2>1. CASE p = q
      <3>1. timer'[p] = NoTimer
        BY <1>8, <1>t, <2>1 DEF Halt
      <3>2. ~suspended'[p]
        BY <1>8, <1>t, <2>1 DEF Halt
      <3> QED
        BY <1>8, <1>i, <3>1, <3>2
    <2>2. CASE p # q
      <3>1. timer'[p] = timer[p] /\ state'[p] = state[p]
        BY <1>8, <1>t, <2>2 DEF Halt
      <3>2. suspended'[p] = suspended[p]
        BY <1>8, <1>t, <2>2 DEF Halt
      <3> QED
        BY <1>8, <1>i, <3>1, <3>2
    <2> QED
      BY <2>1, <2>2
  <1>9. ASSUME NEW q \in Named, START(q) \/ \E d \in Timeouts : DELAYED_START(q, d) PROVE Kept
    <2>1. q \notin Periodic /\ q \in Procs /\ state[q] = "DORMANT" /\ suspended' = suspended
      BY <1>9 DEF START, DELAYED_START, Restart, UntimedPartition
    <2>2. \E x \in States : state' = [state EXCEPT ![q] = x]
      BY <1>9 DEF START, DELAYED_START, AwaitRelease, States
    <2>3. timer' = timer /\ (init_delay' = init_delay \/ init_delay' = [init_delay EXCEPT ![q] = 0])
      BY <1>9, <1>a, <2>1 DEF START, DELAYED_START, AwaitRelease, timeVars
    <2>4. init_delay'[p] = 0
      BY <1>i, <1>t, <2>3
    <2>5. suspended[p] => p # q
      BY <1>i, <2>1
    <2>6. p # q => state'[p] = state[p]
      BY <1>t, <2>2
    <2> QED
      BY <1>i, <2>1, <2>3, <2>4, <2>5, <2>6
  <1>10. ASSUME PERIODIC_WAIT PROVE Kept
    BY <1>10 DEF PERIODIC_WAIT, UntimedPartition
  <1>11. ASSUME SET_PARTITION_MODE_NORMAL PROVE Kept
    BY <1>11, <1>i DEF SET_PARTITION_MODE_NORMAL, StartsNow
  <1>12. ASSUME STOP_SELF PROVE Kept
    BY <1>12, <1>8, <1>c DEF STOP_SELF
  <1>13. ASSUME NEW q \in Named, STOP(q) PROVE Kept
    BY <1>13, <1>8 DEF STOP, Named
  <1> HIDE DEF Kept
  <1> QED
    BY <1>0, <1>n, <1>1, <1>2, <1>3, <1>4, <1>5, <1>6, <1>7, <1>9, <1>10, <1>11, <1>12, <1>13
    DEF Next, Service, OtherService


(* What the operations on mutexes do to timers and suspensions.            *)
LEMMA StillKept ==
  ASSUME MutexSched, WaitInv, StillInv, init_delay' = init_delay,
         exec = "proc", current \in Procs,
         \A p \in Procs :
           /\ timer'[p] \in {timer[p], NoTimer, INFINITE}
           /\ suspended'[p] => suspended[p]
           /\ suspended[p] => state'[p] = state[p],
         \A m \in Mutexes : ToSet(queue'[m]) \subseteq ToSet(queue[m]) \cup {current}
  PROVE  StillInv'
  <1> SUFFICES ASSUME NEW p \in Procs
               PROVE  /\ timer'[p] \in {NoTimer, INFINITE}
                      /\ init_delay'[p] = 0
                      /\ suspended'[p] =>
                           /\ state'[p] = "WAITING"
                           /\ \A m \in Mutexes : p \notin ToSet(queue'[m])
    BY DEF StillInv
  <1>1. suspended[p] => p # current
    BY DEF StillInv, MutexSched, SchedInv, RunningIsCurrent
  <1>2. ASSUME suspended'[p], NEW m \in Mutexes PROVE p \notin ToSet(queue'[m])
    BY <1>1, <1>2 DEF StillInv
  <1> QED
    BY <1>2 DEF StillInv

LEMMA AwaitMutexStill ==
  ASSUME UntimedPartition, MutexSched, WaitInv, StillInv, exec = "proc", current \in Procs,
         NEW m \in Mutexes, NEW t \in Timeouts \cup {INFINITE}, NEW c, AwaitMutex(m, t, c)
  PROVE  StillInv'
  <1> USE MutexConstants
  <1>t. /\ state \in [Procs -> States]
        /\ queue \in [Resources -> Seq(Procs)]
        /\ TypeOK
        /\ state[current] = "RUNNING"
    BY DEF MutexSched, MutexBase, MutexTypeOK, TypeOK, SchedInv, RunningIsCurrent
  <1>1. t = INFINITE /\ UNCHANGED <<timer, init_delay, suspended>>
    BY DEF AwaitMutex, Arm, UntimedPartition
  <1>2. ~suspended[current]
    BY <1>t DEF StillInv
  <1>3. \A p \in Procs : suspended[p] => state'[p] = state[p]
    BY <1>t, <1>2 DEF AwaitMutex
  <1> DEFINE sorted == m \in PriorityQueued
  <1>4. EnqueueBy(m, sorted) /\ sorted \in BOOLEAN
    BY DEF AwaitMutex, Enqueue
  <1> HIDE DEF sorted
  <1>5. /\ \A n \in Resources \ {m} : queue'[n] = queue[n]
        /\ ToSet(queue'[m]) = ToSet(queue[m]) \cup {current}
    BY <1>t, <1>4, EnqueueProperties
  <1>6. \A n \in Mutexes : ToSet(queue'[n]) \subseteq ToSet(queue[n]) \cup {current}
    BY <1>5
  <1> QED
    BY <1>1, <1>3, <1>6, StillKept

LEMMA PassOnStill ==
  ASSUME MutexSched, WaitInv, StillInv, exec = "proc", current \in Procs,
         init_delay' = init_delay,
         NEW m \in Mutexes, NEW p \in Procs, PassOn(m, p),
         \A q \in Procs \ {current} :
           /\ state'[q] = IF q \in Woken(m) THEN "READY" ELSE state[q]
           /\ timer'[q] = IF q \in Woken(m) THEN Served(timer[q]) ELSE timer[q],
         timer'[current] \in {timer[current], NoTimer, INFINITE},
         \A q \in Procs : suspended'[q] => suspended[q]
  PROVE  StillInv'
  <1> USE MutexConstants
  <1>1. \A q \in Procs : suspended[q] => q # current
    BY DEF StillInv, MutexSched, SchedInv, RunningIsCurrent
  <1>2. queue \in [Resources -> Seq(Procs)] /\ TypeOK
    BY DEF MutexSched, MutexBase, MutexTypeOK, TypeOK
  <1>3. \A q \in Procs : suspended[q] => q \notin Woken(m)
    <2>1. \A q \in Woken(m) : q \in ToSet(queue[m])
      BY <1>2, WokenIsHead
    <2> QED
      BY <2>1 DEF StillInv
  <1>4. ASSUME NEW n \in Mutexes PROVE ToSet(queue'[n]) \subseteq ToSet(queue[n])
    <2>1. CASE n # m \/ queue[m] = <<>>
      BY <1>2, <2>1 DEF PassOn
    <2>2. CASE n = m /\ queue[m] # <<>>
      <3>1. queue'[m] = Tail(queue[m]) /\ queue[m] \in Seq(Procs)
        BY <1>2, <2>2 DEF PassOn
      <3> QED
        BY <2>2, <3>1, TailProperties
    <2> QED
      BY <2>1, <2>2
  <1>5. \A q \in Procs : timer'[q] \in {timer[q], NoTimer, INFINITE}
    BY DEF Served
  <1>6. \A q \in Procs : suspended[q] => state'[q] = state[q]
    BY <1>1, <1>3
  <1> QED
    BY <1>4, <1>5, <1>6, StillKept

LEMMA StillStep ==
  ASSUME UntimedPartition, MutexSched, WaitInv, StillInv, [MutexNext]_allVars
  PROVE  StillInv'
  <1> USE MutexConstants
  <1>t. TypeOK /\ SchedInv /\ timer \in [Procs -> Nat \cup {INFINITE, NoTimer}]
        /\ suspended \in [Procs -> BOOLEAN]
    BY DEF MutexSched, MutexBase, MutexTypeOK, TypeOK
  <1>c. \A s : Calls(s) => current \in Procs /\ exec = "proc"
    BY <1>t, CallerRuns
  <1>u. ASSUME UNCHANGED <<timer, init_delay, suspended, state, queue>> PROVE StillInv'
    BY <1>u DEF StillInv
  <1>v. ASSUME UNCHANGED vars PROVE StillInv'
    BY <1>v, <1>u DEF vars, timeVars, waitVars
  <1>w. ASSUME NEW m \in Mutexes, Take(m) PROVE StillInv'
    BY <1>w, <1>u DEF Take, timeVars
  <1>p. ASSUME NEW m \in Mutexes, NEW p \in Procs, PassOn(m, p), current \in Procs, exec = "proc",
               state' = StateAfterPass(m), timer' = TimerAfterPass(m),
               UNCHANGED <<suspended, init_delay>>
        PROVE  StillInv'
    <2>1. \A q \in Procs :
            /\ state'[q] = IF q \in Woken(m) THEN "READY" ELSE state[q]
            /\ timer'[q] = IF q \in Woken(m) THEN Served(timer[q]) ELSE timer[q]
      BY <1>p DEF StateAfterPass, TimerAfterPass
    <2>2. timer'[current] \in {timer[current], NoTimer, INFINITE}
      BY <1>p, <2>1 DEF Served
    <2> QED
      BY <1>p, <2>1, <2>2, PassOnStill
  <1>r. ASSUME NEW m \in Mutexes, Release(m), current \in Procs, exec = "proc" PROVE StillInv'
    BY <1>r, <1>p, <1>v DEF Release
  <1>1. CASE ProcessStep
    BY <1>1, ProcessStepStill
  <1>2. ASSUME NEW m \in Mutexes, NEW t \in Timeouts, ACQUIRE_MUTEX(m, t) PROVE StillInv'
    <2>1. CASE Take(m) \/ TakeAgain(m)
      BY <2>1, <1>v, <1>w DEF TakeAgain
    <2>2. CASE ~(Take(m) \/ TakeAgain(m))
      BY <1>2, <1>c, <2>2, AwaitMutexStill DEF ACQUIRE_MUTEX
    <2> QED
      BY <2>1, <2>2
  <1>3. ASSUME NEW m \in Mutexes, RELEASE_MUTEX(m) PROVE StillInv'
    BY <1>3, <1>c, <1>r DEF RELEASE_MUTEX
  <1>4. ASSUME NEW m \in Mutexes, NEW p \in Named, RESET_MUTEX(m, p) PROVE StillInv'
    BY <1>4, <1>c, <1>p DEF RESET_MUTEX, Named
  <1>5. CASE STOP_SELF_owner
    <2>1. current \in Procs /\ exec = "proc" /\ owned[current] \in Mutexes
      BY <1>5, <1>c, <1>t DEF STOP_SELF_owner, TypeOK
    <2> DEFINE m == owned[current]
    <2>2. /\ PassOn(m, current) /\ init_delay' = init_delay
          /\ state' = [StateAfterPass(m) EXCEPT ![current] = "DORMANT"]
          /\ timer' = [TimerAfterPass(m) EXCEPT ![current] = NoTimer]
          /\ suspended' = [suspended EXCEPT ![current] = FALSE]
      BY <1>5 DEF STOP_SELF_owner
    <2> HIDE DEF m
    <2>3. \A q \in Procs \ {current} :
            /\ state'[q] = IF q \in Woken(m) THEN "READY" ELSE state[q]
            /\ timer'[q] = IF q \in Woken(m) THEN Served(timer[q]) ELSE timer[q]
      BY <2>1, <2>2 DEF StateAfterPass, TimerAfterPass
    <2>4. timer'[current] \in {timer[current], NoTimer, INFINITE}
      BY <2>1, <2>2 DEF TimerAfterPass
    <2>5. \A q \in Procs : suspended'[q] => suspended[q]
      BY <1>t, <2>2
    <2>6. m \in Mutexes
      BY <2>1 DEF m
    <2> QED
      BY <2>1, <2>2, <2>3, <2>4, <2>5, <2>6, PassOnStill
  <1>6. ASSUME NEW p \in Named, NEW v \in Priorities, SET_PRIORITY_owner(p, v)
        PROVE  StillInv'
    BY <1>6, <1>u DEF SET_PRIORITY_owner, timeVars, waitVars
  <1>7. CASE LOCK_PREEMPTION
    <2>1. current \in Procs /\ exec = "proc"
      BY <1>7, <1>c DEF LOCK_PREEMPTION
    <2>2. CASE Take(PreemptionLock)
      BY <2>2, <1>w
    <2>3. CASE UNCHANGED vars
      BY <2>3, <1>v
    <2>4. CASE AwaitMutex(PreemptionLock, INFINITE, "LOCK_PREEMPTION")
      BY <2>1, <2>4, AwaitMutexStill
    <2> QED
      BY <1>7, <2>2, <2>3, <2>4 DEF LOCK_PREEMPTION, TakeAgain
  <1>8. CASE UNLOCK_PREEMPTION
    BY <1>8, <1>c, <1>r DEF UNLOCK_PREEMPTION
  <1>9. CASE Return
    BY <1>9, <1>u DEF Return, timeVars
  <1>10. CASE UNCHANGED allVars
    BY <1>10, <1>v DEF allVars
  <1> QED
    BY <1>1, <1>2, <1>3, <1>4, <1>5, <1>6, <1>7, <1>8, <1>9, <1>10 DEF MutexNext

LEMMA UntimedInvariant ==
  ASSUME UntimedPartition
  PROVE  MutexSpec => [](MutexSched /\ WaitInv /\ StillInv)
  <1>1. MutexSched /\ WaitInv /\ StillInv /\ [MutexNext]_allVars => WaitInv' /\ StillInv'
    BY StillIsNoStrayWake, WaitStep, StillStep
  <1>2. MutexInit => WaitInv /\ StillInv
    BY InitWait, InitStill
  <1> QED
    BY <1>1, <1>2, MutexSchedInvariant, PTL DEF MutexSpec

(* Without periodic processes and finite time-outs nothing but a hand-over *)
(* ends a wait for a mutex, whatever services the processes call: every    *)
(* process that SUSPEND finds in a queue has its waiting_mutex set.        *)
THEOREM UntimedOwnershipAgrees ==
  ASSUME UntimedPartition PROVE MutexSpec => [](OwnershipAgrees /\ WaitersWait)
  <1>1. MutexSched /\ WaitInv => OwnershipAgrees /\ WaitersWait
    BY AgreesFromWait DEF WaitInv
  <1> QED
    BY <1>1, UntimedInvariant, PTL


(* STOP_SELF passes the mutex of the process on; only STOP leaves it with  *)
(* a DORMANT process.                                                      *)
LEMMA ProcessStepAlive ==
  ASSUME MutexSched, OwnersAlive, "STOP" \notin Services, ProcessStep
  PROVE  OwnersAlive'
  <1> USE MutexConstants
  <1>t. /\ TypeOK /\ SchedInv
        /\ state \in [Procs -> States]
    BY DEF MutexSched, MutexBase, MutexTypeOK, TypeOK
  <1>n. Next /\ owned' = owned
    BY OwnedUnchanged DEF ProcessStep
  <1>c. \A s : Calls(s) => current \in Procs /\ exec = "proc"
    BY <1>t, CallerRuns
  <1> SUFFICES ASSUME NEW p \in Procs, owned[p] # None PROVE state'[p] # "DORMANT"
    BY <1>n DEF OwnersAlive
  <1>i. state[p] # "DORMANT"
    BY DEF OwnersAlive
  <1>e. ASSUME NEW q, NEW x, state' = [state EXCEPT ![q] = x], x # "DORMANT"
        PROVE  state'[p] # "DORMANT"
    BY <1>e, <1>i, <1>t
  <1>1. ASSUME UNCHANGED state PROVE state'[p] # "DORMANT"
    BY <1>1, <1>i
  <1>2. CASE partition_OS
    <2>1. PICK st \in {state, StateAfterUpdate} : process_schedule(st)
      BY <1>2 DEF partition_OS
    <2>2. st[p] # "DORMANT"
      BY <1>i, <2>1 DEF StateAfterUpdate
    <2>3. Demoted(st)[p] # "DORMANT"
      BY <2>2 DEF Demoted
    <2> QED
      BY <2>1, <2>3 DEF process_schedule, Demoted
  <1>3. CASE SET_PARTITION_MODE_NORMAL
    BY <1>3, <1>i DEF SET_PARTITION_MODE_NORMAL
  <1>4. CASE STOP_SELF
    <2>1. p # current
      BY <1>4 DEF STOP_SELF
    <2> QED
      BY <1>4, <1>i, <1>t, <2>1 DEF STOP_SELF, Halt
  <1>5. ASSUME NEW q \in Named, STOP(q) PROVE FALSE
    BY <1>5 DEF STOP, Calls
  <1>6. ASSUME NEW q \in Named, START(q) \/ \E d \in Timeouts : DELAYED_START(q, d)
        PROVE  state'[p] # "DORMANT"
    BY <1>6, <1>e DEF START, DELAYED_START, AwaitRelease
  <1>7. ASSUME NEW q \in Named, RESUME(q) PROVE state'[p] # "DORMANT"
    BY <1>7, <1>e, <1>1 DEF RESUME
  <1>8. ASSUME NEW q \in Named, SUSPEND(q) PROVE state'[p] # "DORMANT"
    BY <1>8, <1>e DEF SUSPEND
  <1>9. ASSUME NEW t \in Timeouts, SUSPEND_SELF(t) \/ TIMED_WAIT(t) PROVE state'[p] # "DORMANT"
    BY <1>9, <1>e DEF SUSPEND_SELF, TIMED_WAIT
  <1>10. CASE PERIODIC_WAIT
    BY <1>10, <1>e DEF PERIODIC_WAIT
  <1>11. ASSUME NEW q \in Named, NEW v \in Priorities, SET_PRIORITY(q, v)
         PROVE  state'[p] # "DORMANT"
    BY <1>11, <1>1 DEF SET_PRIORITY
  <1>12. CASE Tick
    BY <1>12, <1>1 DEF Tick
  <1> QED
    BY <1>n, <1>2, <1>3, <1>4, <1>5, <1>6, <1>7, <1>8, <1>9, <1>10, <1>11, <1>12
    DEF Next, Service, OtherService

LEMMA PassOnAlive ==
  ASSUME MutexSched, OwnersAlive, NEW m \in Mutexes, NEW p \in Procs, PassOn(m, p),
         \A q \in Procs \ {p} :
           state'[q] = IF q \in Woken(m) THEN "READY" ELSE state[q],
         p \in Woken(m) => state'[p] # "DORMANT"
  PROVE  OwnersAlive'
  <1>t. owned \in [Procs -> Mutexes \cup {None}] /\ TypeOK
    BY DEF MutexSched, MutexBase, MutexTypeOK, TypeOK
  <1> SUFFICES ASSUME NEW q \in Procs, owned'[q] # None PROVE state'[q] # "DORMANT"
    BY DEF OwnersAlive
  <1>1. CASE q \in Woken(m)
    BY <1>1
  <1>2. CASE q \notin Woken(m)
    <2>1. q # p /\ owned'[q] = owned[q]
      BY <1>t, <1>2 DEF PassOn
    <2> QED
      BY <1>2, <2>1 DEF OwnersAlive
  <1> QED
    BY <1>1, <1>2

LEMMA AliveStep ==
  ASSUME MutexSched, WaitInv, OwnersAlive, "STOP" \notin Services, [MutexNext]_allVars
  PROVE  OwnersAlive'
  <1> USE MutexConstants
  <1>t. TypeOK /\ SchedInv /\ state \in [Procs -> States]
        /\ owned \in [Procs -> Mutexes \cup {None}]
    BY DEF MutexSched, MutexBase, MutexTypeOK, TypeOK
  <1>c. \A s : Calls(s) => current \in Procs /\ exec = "proc" /\ state[current] = "RUNNING"
    BY <1>t, CallerRuns
  <1>u. ASSUME UNCHANGED <<owned, state>> PROVE OwnersAlive'
    BY <1>u DEF OwnersAlive
  <1>v. ASSUME UNCHANGED vars PROVE OwnersAlive'
    BY <1>v, <1>u DEF vars, waitVars
  <1>w. ASSUME NEW m \in Mutexes, Take(m), state[current] = "RUNNING" PROVE OwnersAlive'
    BY <1>w, <1>t DEF Take, OwnersAlive
  <1>a. ASSUME NEW m \in Mutexes, NEW t, NEW c, AwaitMutex(m, t, c) PROVE OwnersAlive'
    BY <1>a, <1>t DEF AwaitMutex, OwnersAlive
  <1>p. ASSUME NEW m \in Mutexes, NEW p \in Procs, PassOn(m, p), state' = StateAfterPass(m)
        PROVE  OwnersAlive'
    <2>1. \A q \in Procs : state'[q] = IF q \in Woken(m) THEN "READY" ELSE state[q]
      BY <1>p DEF StateAfterPass
    <2> QED
      BY <1>p, <2>1, PassOnAlive
  <1>r. ASSUME NEW m \in Mutexes, Release(m), current \in Procs PROVE OwnersAlive'
    BY <1>r, <1>p, <1>v DEF Release
  <1>1. CASE ProcessStep
    BY <1>1, ProcessStepAlive
  <1>2. ASSUME NEW m \in Mutexes, NEW t \in Timeouts, ACQUIRE_MUTEX(m, t) PROVE OwnersAlive'
    BY <1>2, <1>c, <1>v, <1>w, <1>a DEF ACQUIRE_MUTEX, TakeAgain
  <1>3. ASSUME NEW m \in Mutexes, RELEASE_MUTEX(m) PROVE OwnersAlive'
    BY <1>3, <1>c, <1>r DEF RELEASE_MUTEX
  <1>4. ASSUME NEW m \in Mutexes, NEW p \in Named, RESET_MUTEX(m, p) PROVE OwnersAlive'
    BY <1>4, <1>p DEF RESET_MUTEX, Named
  <1>5. CASE STOP_SELF_owner
    <2>1. current \in Procs /\ exec = "proc" /\ owned[current] \in Mutexes
      BY <1>5, <1>c, <1>t DEF STOP_SELF_owner
    <2> DEFINE m == owned[current]
    <2>2. /\ PassOn(m, current)
          /\ state' = [StateAfterPass(m) EXCEPT ![current] = "DORMANT"]
      BY <1>5 DEF STOP_SELF_owner
    <2>3. \A q \in Woken(m) : q # current
      BY <1>t, <2>1, WokenIsHead, WaiterFacts
    <2> HIDE DEF m
    <2>4. \A q \in Procs \ {current} :
            state'[q] = IF q \in Woken(m) THEN "READY" ELSE state[q]
      BY <2>1, <2>2 DEF StateAfterPass
    <2>5. m \in Mutexes
      BY <2>1 DEF m
    <2> QED
      BY <2>1, <2>2, <2>3, <2>4, <2>5, PassOnAlive
  <1>6. ASSUME NEW p \in Named, NEW v \in Priorities, SET_PRIORITY_owner(p, v)
        PROVE  OwnersAlive'
    BY <1>6, <1>u DEF SET_PRIORITY_owner, waitVars
  <1>7. CASE LOCK_PREEMPTION
    BY <1>7, <1>c, <1>v, <1>w, <1>a DEF LOCK_PREEMPTION, TakeAgain
  <1>8. CASE UNLOCK_PREEMPTION
    BY <1>8, <1>c, <1>r DEF UNLOCK_PREEMPTION
  <1>9. CASE Return
    BY <1>9, <1>u DEF Return
  <1>10. CASE UNCHANGED allVars
    BY <1>10, <1>v DEF allVars
  <1> QED
    BY <1>1, <1>2, <1>3, <1>4, <1>5, <1>6, <1>7, <1>8, <1>9, <1>10 DEF MutexNext

(* If, besides, no process stops another, the ceiling protocol and the     *)
(* preemption lock hold without further conditions.                        *)
THEOREM UntimedCeilingProtocol ==
  ASSUME UntimedPartition, "STOP" \notin Services
  PROVE  MutexSpec => [](OwnerHasCeiling /\ PreemptionLocked /\ LockLevelAgrees)
  <1>1. MutexInit => OwnersAlive
    BY DEF MutexInit, Init, OwnersAlive
  <1>2. MutexSched /\ WaitInv /\ OwnersAlive /\ [MutexNext]_allVars => OwnersAlive'
    BY AliveStep
  <1>3. MutexSched /\ StillInv => NoStrayWake
    BY StillIsNoStrayWake
  <1>4. MutexSpec => []NoStrayWake
    BY <1>3, UntimedInvariant, PTL
  <1>5. MutexSpec => []OwnersAlive
    BY <1>1, <1>2, UntimedInvariant, PTL DEF MutexSpec
  <1> QED
    BY <1>4, <1>5, OwnersAtCeiling, LockExcludesOthers, OwnerCanUnlock, PTL
=============================================================================
