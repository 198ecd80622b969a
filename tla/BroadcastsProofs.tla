--------------------------- MODULE BroadcastsProofs ---------------------------
(***************************************************************************)
(* Proofs about Broadcasts for any number of processes, events and         *)
(* blackboards and any set of services.                                    *)
(***************************************************************************)
EXTENDS Broadcasts, ProcessesProofs

(* NoWaitOnRaised with what a step needs of the variables.                 *)
RaisedInv ==
  /\ DOMAIN queue = Resources
  /\ up \subseteq Events
  /\ occupied \subseteq Blackboards
  /\ NoWaitOnRaised

LEMMA InitRaised == CastInit => RaisedInv
  BY DEF CastInit, Init, EventsCreated, BoardsCreated, RaisedInv, NoWaitOnRaised

LEMMA RaisedStep == RaisedInv /\ [CastNext]_allVars => RaisedInv'
  <1> SUFFICES ASSUME RaisedInv, [CastNext]_allVars
               PROVE  RaisedInv'
    OBVIOUS
  <1> USE DEF RaisedInv, NoWaitOnRaised
  <1>0. /\ Events \subseteq Resources
        /\ Blackboards \subseteq Resources
        /\ Events \cap Blackboards = {}
    BY BroadcastsAssumption
  <1>1. CASE ProcessStep
    <2>1. UNCHANGED <<up, occupied>>
      BY <1>1 DEF ProcessStep, boardVars
    <2>2. Next
      BY <1>1 DEF ProcessStep
    <2> QED
      BY <2>1, <2>2, <1>0, StepsKeepEmpty
  <1>2. ASSUME NEW e \in Events, SET_EVENT(e)
        PROVE  RaisedInv'
    BY <1>2, <1>0 DEF SET_EVENT, ReleaseAll
  <1>3. ASSUME NEW e \in Events, RESET_EVENT(e)
        PROVE  RaisedInv'
    BY <1>3 DEF RESET_EVENT, vars, waitVars
  <1>4. ASSUME NEW e \in Events, NEW t \in Timeouts, WAIT_EVENT(e, t)
        PROVE  RaisedInv'
    <2>1. e \notin up /\ e \notin occupied /\ UNCHANGED <<up, occupied>>
      BY <1>4, <1>0 DEF WAIT_EVENT, boardVars
    <2>2. DOMAIN queue' = Resources /\ \A r \in Resources \ {e} : queue'[r] = queue[r]
      BY <1>4 DEF WAIT_EVENT, WaitFor, EnqueueBy
    <2> QED
      BY <2>1, <2>2, <1>0
  <1>5. ASSUME NEW k \in Blackboards, NEW m \in Messages, DISPLAY_BLACKBOARD(k, m)
        PROVE  RaisedInv'
    BY <1>5, <1>0 DEF DISPLAY_BLACKBOARD, ReleaseAll
  <1>6. ASSUME NEW k \in Blackboards, CLEAR_BLACKBOARD(k)
        PROVE  RaisedInv'
    BY <1>6 DEF CLEAR_BLACKBOARD, vars, waitVars
  <1>7. ASSUME NEW k \in Blackboards, NEW t \in Timeouts, READ_BLACKBOARD(k, t)
        PROVE  RaisedInv'
    <2>1. k \notin up /\ k \notin occupied /\ UNCHANGED <<up, occupied>>
      BY <1>7, <1>0 DEF READ_BLACKBOARD, boardVars
    <2>2. DOMAIN queue' = Resources /\ \A r \in Resources \ {k} : queue'[r] = queue[r]
      BY <1>7 DEF READ_BLACKBOARD, WaitFor, EnqueueBy
    <2> QED
      BY <2>1, <2>2, <1>0
  <1>8. CASE Return
    BY <1>8 DEF Return, boardVars
  <1>9. CASE UNCHANGED allVars
    BY <1>9 DEF allVars, vars, waitVars, castVars, boardVars
  <1> QED
    BY <1>1, <1>2, <1>3, <1>4, <1>5, <1>6, <1>7, <1>8, <1>9 DEF CastNext

(* Whatever is stopped, suspended, reset, cleared or timed out in between, *)
(* no process is left waiting on an event that is UP or a blackboard that  *)
(* shows a message.                                                        *)
THEOREM RaisedHasNoWaiters == CastSpec => []NoWaitOnRaised
  <1>1. RaisedInv => NoWaitOnRaised
    BY DEF RaisedInv
  <1> QED
    BY <1>1, InitRaised, RaisedStep, PTL DEF CastSpec


(***************************************************************************)
(* Types and scheduling                                                    *)
(***************************************************************************)

Places == Events \cup Blackboards

LEMMA CastConstants ==
  /\ Events \subseteq Resources
  /\ Blackboards \subseteq Resources
  /\ Places \subseteq Resources
  /\ Events \cap Blackboards = {}
  /\ Waits \subseteq Blocking
  /\ Reads \subseteq Waits
  /\ "app" \notin Waits
  /\ "WAIT_EVENT" \in Waits \ Reads
  /\ "READ_BLACKBOARD" \in Reads
  BY BroadcastsAssumption DEF Places, Waits, Reads, Blocking, Doing, RcOnly

CastBase ==
  /\ SchedInv
  /\ released \subseteq Procs
  /\ content \in [Blackboards -> Messages \cup {None}]
  /\ index \in [Procs -> Blackboards \cup {None}]
  /\ news \in [Procs -> SUBSET Messages]

(* Whoever is released, SET_EVENT and DISPLAY_BLACKBOARD leave processes   *)
(* and scheduler consistent.                                               *)
LEMMA ReleaseAllFacts ==
  ASSUME TypeOK, NEW r \in Places, NEW kind, ReleaseAll(r, kind)
  PROVE  /\ ToSet(queue[r]) \subseteq Procs
         /\ \A p \in Procs :
              /\ state'[p] = IF p \in ToSet(queue[r]) THEN "READY" ELSE state[p]
              /\ timer'[p] = IF p \in ToSet(queue[r]) THEN Served(timer[p]) ELSE timer[p]
         /\ queue'[r] = <<>>
         /\ \A x \in Resources \ {r} : queue'[x] = queue[x]
         /\ released' = released \cup ToSet(queue[r])
         /\ UNCHANGED <<current, suspended, init_delay, call>>
         /\ exec' = "os" \/ (exec' = exec /\ ToSet(queue[r]) = {})
         /\ TypeOK'
         /\ Yields \/ Returns
         /\ TimersCleared
  <1> USE CastConstants
  <1>t. r \in Resources /\ queue[r] \in Seq(Procs)
    BY DEF TypeOK
  <1>1. ToSet(queue[r]) \subseteq Procs
    BY <1>t, ToSetOfSeq
  <1> DEFINE waiting == ToSet(queue[r])
  <1>2. /\ queue' = [queue EXCEPT ![r] = <<>>]
        /\ state' = [p \in Procs |-> IF p \in waiting THEN "READY" ELSE state[p]]
        /\ timer' = [p \in Procs |-> IF p \in waiting THEN Served(timer[p]) ELSE timer[p]]
        /\ tracked' = [p \in Procs |-> IF p \in waiting THEN tracked[p] \ kind ELSE tracked[p]]
        /\ released' = released \cup waiting
        /\ exec' = IF queue[r] = <<>> THEN exec ELSE "os"
        /\ UNCHANGED <<mode, current, order, tick_pending, priority, suspended,
                       release, init_delay, grid, call, owned>>
    BY DEF ReleaseAll, StateReleased
  <1>3. queue[r] = <<>> => waiting = {}
    BY DEF ToSet
  <1> HIDE DEF waiting
  <1>4. queue' \in [Resources -> Seq(Procs)] /\ queue'[r] = <<>>
        /\ \A x \in Resources \ {r} : queue'[x] = queue[x]
    BY <1>2, <1>t DEF TypeOK
  <1>5. state' \in [Procs -> States]
    BY <1>2 DEF TypeOK, States
  <1>6. timer' \in [Procs -> Nat \cup {INFINITE, NoTimer}]
    BY <1>2 DEF TypeOK, Served
  <1>7. tracked' \in [Procs -> SUBSET Resources]
    BY <1>2 DEF TypeOK
  <1>8. TypeOK'
    BY <1>2, <1>4, <1>5, <1>6, <1>7 DEF TypeOK
  <1>9. Yields \/ Returns
    <2>1. CASE queue[r] = <<>>
      BY <1>2, <1>3, <2>1 DEF Returns
    <2>2. CASE queue[r] # <<>>
      BY <1>2, <2>2 DEF Yields
    <2> QED
      BY <2>1, <2>2
  <1>10. TimersCleared
    BY <1>2 DEF TimersCleared
  <1> QED
    BY <1>1, <1>2, <1>3, <1>4, <1>8, <1>9, <1>10 DEF waiting

LEMMA CastBaseStep == CastBase /\ [CastNext]_allVars => CastBase'
  <1> SUFFICES ASSUME CastBase, [CastNext]_allVars PROVE CastBase'
    OBVIOUS
  <1> USE CastConstants
  <1>t. TypeOK /\ SchedInv
    BY DEF CastBase, SchedInv
  <1>c. \A s : Calls(s) => current \in Procs /\ exec = "proc"
    BY <1>t, CallerRuns
  <1>u. ASSUME UNCHANGED <<vars, content, index, released, news>> PROVE CastBase'
    <2>1. SchedInv'
      BY <1>t, <1>u, SchedStep
    <2> QED
      BY <1>u, <2>1 DEF CastBase
  <1>r. ASSUME NEW r \in Places, NEW kind, ReleaseAll(r, kind)
        PROVE  SchedInv' /\ released' \subseteq Procs
    <2>1. /\ ToSet(queue[r]) \subseteq Procs /\ released' = released \cup ToSet(queue[r])
          /\ TypeOK' /\ (Yields \/ Returns) /\ TimersCleared
      BY <1>r, <1>t, ReleaseAllFacts
    <2>2. SchedInv'
      BY <1>t, <2>1, ServicesKeepSched DEF SchedInv
    <2> QED
      BY <2>1, <2>2 DEF CastBase
  <1>w. ASSUME NEW r \in Resources, NEW sorted \in BOOLEAN, NEW t \in Timeouts,
               NEW ptrs \in SUBSET Resources, NEW plain \in Doing, NEW timed \in Doing,
               current \in Procs, WaitFor(r, sorted, t, ptrs, plain, timed)
        PROVE  SchedInv'
    <2>1. TypeOK'
      BY <1>t, <1>w, WaitForType
    <2>2. Yields /\ TimersCleared
      BY <1>t, <1>w, WaitForYields
    <2> QED
      BY <1>t, <2>1, <2>2, ServicesKeepSched DEF SchedInv
  <1>1. CASE ProcessStep
    <2>1. SchedInv'
      BY <1>1, <1>t, SchedStep DEF ProcessStep
    <2> QED
      BY <1>1, <2>1 DEF CastBase, ProcessStep, boardVars
  <1>2. ASSUME NEW e \in Events, SET_EVENT(e) PROVE CastBase'
    BY <1>2, <1>r DEF SET_EVENT, CastBase, Places
  <1>3. ASSUME NEW e \in Events, RESET_EVENT(e) PROVE CastBase'
    BY <1>3, <1>u DEF RESET_EVENT
  <1>4. ASSUME NEW e \in Events, NEW t \in Timeouts, WAIT_EVENT(e, t) PROVE CastBase'
    <2> DEFINE sorted == t # INFINITE
               ptrs == (tracked[current] \ Events) \cup {e}
    <2>1. /\ current \in Procs /\ sorted \in BOOLEAN /\ ptrs \in SUBSET Resources
          /\ e \in Resources /\ "WAIT_EVENT" \in Doing /\ "WAIT_EVENT_TIMED" \in Doing
      BY <1>4, <1>c, <1>t DEF WAIT_EVENT, TypeOK, Doing
    <2>2. WaitFor(e, sorted, t, ptrs, "WAIT_EVENT", "WAIT_EVENT_TIMED")
      BY <1>4 DEF WAIT_EVENT
    <2> HIDE DEF sorted, ptrs
    <2>3. SchedInv'
      BY <1>w, <2>1, <2>2
    <2> QED
      BY <1>4, <2>3 DEF WAIT_EVENT, CastBase, boardVars
  <1>5. ASSUME NEW k \in Blackboards, NEW m \in Messages, DISPLAY_BLACKBOARD(k, m) PROVE CastBase'
    <2>1. SchedInv' /\ released' \subseteq Procs
      BY <1>5, <1>r DEF DISPLAY_BLACKBOARD, Places
    <2>2. content' \in [Blackboards -> Messages \cup {None}]
      BY <1>5 DEF DISPLAY_BLACKBOARD, CastBase
    <2>3. news' \in [Procs -> SUBSET Messages]
      BY <1>5 DEF DISPLAY_BLACKBOARD, CastBase
    <2>4. index' = index
      BY <1>5 DEF DISPLAY_BLACKBOARD
    <2> QED
      BY <2>1, <2>2, <2>3, <2>4 DEF CastBase
  <1>6. ASSUME NEW k \in Blackboards, CLEAR_BLACKBOARD(k) PROVE CastBase'
    BY <1>6, <1>u DEF CLEAR_BLACKBOARD
  <1>7. ASSUME NEW k \in Blackboards, NEW t \in Timeouts, READ_BLACKBOARD(k, t) PROVE CastBase'
    <2> DEFINE ptrs == IF t = INFINITE THEN tracked[current]
                                       ELSE (tracked[current] \ Blackboards) \cup {k}
    <2>1. /\ current \in Procs /\ ptrs \in SUBSET Resources /\ FALSE \in BOOLEAN
          /\ k \in Resources /\ "READ_BLACKBOARD" \in Doing /\ "READ_BLACKBOARD_TIMED" \in Doing
      BY <1>7, <1>c, <1>t DEF READ_BLACKBOARD, TypeOK, Doing
    <2>2. WaitFor(k, FALSE, t, ptrs, "READ_BLACKBOARD", "READ_BLACKBOARD_TIMED")
      BY <1>7 DEF READ_BLACKBOARD
    <2> HIDE DEF ptrs
    <2>3. SchedInv'
      BY <1>w, <2>1, <2>2
    <2> QED
      BY <1>7, <2>3 DEF READ_BLACKBOARD, CastBase, boardVars
  <1>8. CASE Return
    <2>1. TypeOK'
      BY <1>8, <1>t, DoingContains DEF Return, TypeOK, schedVars, timeVars
    <2>2. UNCHANGED <<exec, current, state, timer, priority>>
      BY <1>8 DEF Return, schedVars, timeVars
    <2>3. SchedInv'
      BY <1>t, <2>1, <2>2 DEF SchedInv, RunningIsCurrent, PriorityRespected, DormantHasNoTimer
    <2> QED
      BY <1>8, <2>3 DEF CastBase, Return, boardVars
  <1>9. CASE UNCHANGED allVars
    BY <1>9, <1>u DEF allVars, castVars, boardVars
  <1> QED
    BY <1>1, <1>2, <1>3, <1>4, <1>5, <1>6, <1>7, <1>8, <1>9 DEF CastNext

LEMMA CastBaseInvariant == CastSpec => []CastBase
  <1>1. CastInit => CastBase
    BY InitSched DEF CastInit, BoardsCreated, CastBase
  <1> QED
    BY <1>1, CastBaseStep, PTL DEF CastSpec

(* Releasing everybody at once yields: with events and blackboards, too,   *)
(* the running process is never outranked by a READY one.                  *)
THEOREM HighestPriorityRunsWithBroadcasts == CastSpec => []PriorityRespected
  <1>1. CastBase => PriorityRespected
    BY DEF CastBase, SchedInv
  <1> QED
    BY <1>1, CastBaseInvariant, PTL


(***************************************************************************)
(* Undisturbed processes                                                   *)
(***************************************************************************)

(* The call of an undisturbed process on the queue of r.                   *)
WaitCall(r) == IF r \in Events THEN "WAIT_EVENT" ELSE "READ_BLACKBOARD"

(* An undisturbed process in a wait has either been released or is on just *)
(* the queue it waits on; a reader that was released has news that is      *)
(* still on the blackboard it reads.                                       *)
Fresh(p) == index[p] \in Blackboards /\ content[index[p]] \in news[p]

Patient(p) ==
  /\ Calm(p)
  /\ p \in released => call[p] \in Waits /\ state[p] \in {"READY", "RUNNING"}
  /\ p \in released /\ call[p] \in Reads => Fresh(p)
  /\ call[p] \in Waits => p \in released \/ \E r \in Places : p \in ToSet(queue[r])
  /\ \A r \in Places :
       p \in ToSet(queue[r]) =>
         /\ state[p] = "WAITING" /\ call[p] = WaitCall(r) /\ p \notin released
         /\ \A x \in Places : p \in ToSet(queue[x]) => r = x
         /\ r \in Blackboards => index[p] = r

PatientInv == Unstarted /\ \A p \in Undisturbed : Patient(p)

LEMMA InitPatient == CastInit => PatientInv
  <1> SUFFICES ASSUME CastInit PROVE PatientInv
    OBVIOUS
  <1>1. ToSet(<<>>) = {}
    BY DEF ToSet
  <1>2. \A r \in Places : queue[r] = <<>>
    BY CastConstants DEF CastInit, Init
  <1> QED
    BY <1>1, <1>2, CastConstants DEF CastInit, Init, PatientInv, Unstarted, Patient, Calm,
       Undisturbed, Aperiodic

(* A step that leaves p and its places alone.                              *)
LEMMA PatientKept ==
  ASSUME NEW p, Patient(p), exec' = "main" => exec = "main",
         state'[p] = state[p], call'[p] = call[p], timer'[p] = timer[p],
         init_delay'[p] = init_delay[p], ~suspended'[p],
         p \in released' <=> p \in released, index'[p] = index[p],
         call[p] \in Reads /\ Fresh(p) => Fresh(p)',
         \A r \in Places : p \in ToSet(queue'[r]) <=> p \in ToSet(queue[r])
  PROVE  Patient(p)'
  <1>1. Calm(p)'
    BY DEF Patient, Calm
  <1>2. ASSUME NEW r \in Places, p \in ToSet(queue'[r])
        PROVE  /\ state'[p] = "WAITING" /\ call'[p] = WaitCall(r) /\ p \notin released'
               /\ \A x \in Places : p \in ToSet(queue'[x]) => r = x
               /\ r \in Blackboards => index'[p] = r
    BY <1>2 DEF Patient
  <1>3. p \in released' => call'[p] \in Waits /\ state'[p] \in {"READY", "RUNNING"}
    BY DEF Patient
  <1>4. call'[p] \in Waits => p \in released' \/ \E r \in Places : p \in ToSet(queue'[r])
    BY DEF Patient
  <1>5. p \in released' /\ call'[p] \in Reads => Fresh(p)'
    BY DEF Patient
  <1> QED
    BY <1>1, <1>2, <1>3, <1>4, <1>5 DEF Patient, WaitCall

LEMMA ProcessStepPatient ==
  ASSUME CastBase, PatientInv, ProcessStep, NEW p \in Undisturbed, p \notin Hit
  PROVE  Patient(p)'
  <1> USE CastConstants
  <1>t. /\ TypeOK /\ SchedInv /\ p \in Procs /\ p \in Aperiodic /\ Patient(p) /\ Calm(p)
        /\ call \in [Procs -> Doing]
    BY DEF CastBase, SchedInv, PatientInv, Undisturbed, Aperiodic, Patient, TypeOK
  <1>n. /\ Next /\ released' = {q \in released : call'[q] # "app"}
        /\ content' = content
        /\ index'[p] = IF call'[p] = "app" THEN None ELSE index[p]
        /\ news'[p] = IF call'[p] = "app" THEN {} ELSE news[p]
    BY <1>t DEF ProcessStep, boardVars
  <1>h. /\ ~suspended'[p]
        /\ state'[p] = "DORMANT" => state[p] = "DORMANT"
    BY <1>t DEF Hit
  <1>1. Calm(p)'
    BY <1>t, <1>n, <1>h, CalmStep
  <1>2. \A r \in Places : ToSet(queue'[r]) \subseteq ToSet(queue[r])
    BY <1>t, <1>n, StepsShrinkQueues
  <1>w. \A r \in Places : WaitCall(r) \in Waits
    BY DEF WaitCall
  <1>3. CASE call[p] \notin Waits
    <2>1. p \notin released /\ \A r \in Places : p \notin ToSet(queue[r])
      BY <1>3, <1>t, <1>w DEF Patient
    <2>2. call'[p] \notin Waits
      BY <1>3, <1>n, <1>t, CallsKept
    <2> QED
      BY <1>1, <1>2, <1>n, <2>1, <2>2 DEF Patient
  <1>4. CASE call[p] \in Waits
    <2>1. exec # "main" /\ state[p] \in {"WAITING", "READY", "RUNNING"}
      BY <1>4, <1>t DEF Patient, PatientInv, Unstarted
    <2>2. state'[p] # "DORMANT"
      BY <1>h, <2>1
    <2>3. /\ state[p] = "WAITING" => state'[p] = "WAITING" /\ call'[p] = call[p]
          /\ state[p] \in {"READY", "RUNNING"} =>
               state'[p] \in {"READY", "RUNNING"} /\ call'[p] = call[p]
      BY <1>4, <1>h, <1>n, <1>t, <2>1, <2>2, CallGoesOn
    <2>4. ~STOP(p)
      BY <2>2, <1>t DEF STOP, Halt, TypeOK
    <2>5. \A r \in Places : p \in ToSet(queue[r]) => p \in ToSet(queue'[r])
      BY <1>n, <1>t, <2>4, StepsKeepWaiters
    <2>6. /\ call'[p] = call[p] /\ (p \in released' <=> p \in released)
          /\ index'[p] = index[p] /\ news'[p] = news[p]
      BY <1>4, <1>n, <2>1, <2>3
    <2>7. \A r \in Places : p \in ToSet(queue'[r]) =>
            /\ state'[p] = "WAITING" /\ call'[p] = WaitCall(r) /\ p \notin released'
            /\ \A x \in Places : p \in ToSet(queue'[x]) => r = x
            /\ r \in Blackboards => index'[p] = r
      BY <1>2, <1>t, <2>3, <2>6 DEF Patient
    <2>8. p \in released' => state'[p] \in {"READY", "RUNNING"}
      BY <1>t, <2>3, <2>6 DEF Patient
    <2>9. p \in released' \/ \E r \in Places : p \in ToSet(queue'[r])
      BY <1>4, <1>t, <2>5, <2>6 DEF Patient
    <2>10. p \in released' /\ call'[p] \in Reads => Fresh(p)'
      BY <1>n, <1>t, <2>6 DEF Patient, Fresh
    <2> QED
      BY <1>1, <1>4, <2>6, <2>7, <2>8, <2>9, <2>10 DEF Patient, WaitCall
  <1> QED
    BY <1>3, <1>4

(* The running process joins the queue of r.                               *)
LEMMA WaitPatient ==
  ASSUME CastBase, PatientInv, NEW r \in Places, NEW sorted \in BOOLEAN, NEW t,
         NEW ptrs, NEW timed, WaitFor(r, sorted, t, ptrs, WaitCall(r), timed),
         NEW s, Calls(s), Disturbs(t), UNCHANGED <<boardVars, released, news>>,
         \A q \in Procs : q # current => index'[q] = index[q],
         r \in Blackboards => index'[current] = r,
         NEW p \in Undisturbed, p \notin disturbed'
  PROVE  Patient(p)'
  <1> USE CastConstants
  <1>t. /\ TypeOK /\ SchedInv /\ p \in Procs /\ Patient(p) /\ r \in Resources
        /\ state \in [Procs -> States] /\ call \in [Procs -> Doing]
        /\ timer \in [Procs -> Nat \cup {INFINITE, NoTimer}]
    BY DEF CastBase, SchedInv, PatientInv, Undisturbed, Aperiodic, TypeOK
  <1>c. current \in Procs /\ exec = "proc" /\ state[current] = "RUNNING" /\ call[current] = "app"
    BY <1>t, CallerRuns DEF Calls
  <1>q. /\ \A x \in Places \ {r} : queue'[x] = queue[x]
        /\ ToSet(queue'[r]) = ToSet(queue[r]) \cup {current}
    BY <1>c, <1>t, EnqueueProperties DEF WaitFor
  <1>b. /\ exec' = "os" /\ UNCHANGED <<init_delay, suspended, released, content, news>>
        /\ state' = [state EXCEPT ![current] = "WAITING"]
        /\ timer' = Arm(t)
        /\ call' = [call EXCEPT ![current] = IF t = INFINITE THEN WaitCall(r) ELSE timed]
        /\ t # INFINITE => current \in disturbed'
    BY DEF WaitFor, yield_to_partition, Disturbs, boardVars
  <1>1. CASE p # current
    <2>1. /\ state'[p] = state[p] /\ call'[p] = call[p] /\ timer'[p] = timer[p]
          /\ init_delay'[p] = init_delay[p] /\ ~suspended'[p]
      BY <1>b, <1>c, <1>t, <1>1 DEF Arm, Patient, Calm
    <2>2. \A x \in Places : p \in ToSet(queue'[x]) <=> p \in ToSet(queue[x])
      BY <1>q, <1>1
    <2>3. index'[p] = index[p] /\ (Fresh(p) => Fresh(p)')
      BY <1>b, <1>t, <1>1 DEF Fresh
    <2> QED
      BY <1>b, <1>t, <2>1, <2>2, <2>3, PatientKept
  <1>2. CASE p = current
    <2>1. t = INFINITE
      BY <1>b, <1>2
    <2>2. /\ p \notin released /\ timer[p] = NoTimer /\ init_delay[p] = 0 /\ ~suspended[p]
          /\ \A x \in Places : p \notin ToSet(queue[x])
      BY <1>c, <1>t, <1>2 DEF Patient, Calm
    <2>3. /\ state'[p] = "WAITING" /\ call'[p] = WaitCall(r) /\ timer'[p] = NoTimer
          /\ init_delay'[p] = 0 /\ ~suspended'[p] /\ p \notin released'
      BY <1>b, <1>c, <1>t, <1>2, <2>1, <2>2 DEF Arm
    <2>4. Calm(p)'
      BY <1>b, <2>3 DEF Calm
    <2>5. \A x \in Places : p \in ToSet(queue'[x]) <=> x = r
      BY <1>q, <1>2, <2>2
    <2> QED
      BY <1>2, <2>3, <2>4, <2>5 DEF Patient, WaitCall
  <1> QED
    BY <1>1, <1>2

(* Everybody on the queue of r is released, readers after m was displayed. *)
LEMMA ReleasePatient ==
  ASSUME CastBase, PatientInv, NEW r \in Places, NEW kind, ReleaseAll(r, kind),
         NEW p \in Undisturbed,
         index' = index, call[p] \in Reads /\ Fresh(p) => Fresh(p)',
         r \in Blackboards /\ index[p] = r => content'[r] \in news'[p]
  PROVE  Patient(p)'
  <1> USE CastConstants
  <1>t. TypeOK /\ p \in Procs /\ Patient(p) /\ r \in Resources
    BY DEF CastBase, SchedInv, PatientInv, Undisturbed, Aperiodic
  <1>1. /\ state'[p] = IF p \in ToSet(queue[r]) THEN "READY" ELSE state[p]
        /\ timer'[p] = IF p \in ToSet(queue[r]) THEN Served(timer[p]) ELSE timer[p]
        /\ queue'[r] = <<>>
        /\ \A x \in Resources \ {r} : queue'[x] = queue[x]
        /\ released' = released \cup ToSet(queue[r])
        /\ UNCHANGED <<suspended, init_delay, call>>
        /\ exec' = "os" \/ exec' = exec
    BY <1>t, ReleaseAllFacts
  <1>2. ToSet(queue'[r]) = {}
    BY <1>1 DEF ToSet
  <1>3. CASE p \notin ToSet(queue[r])
    <2>1. \A x \in Places : p \in ToSet(queue'[x]) <=> p \in ToSet(queue[x])
      BY <1>1, <1>2, <1>3
    <2>2. ~suspended'[p] /\ (exec' = "main" => exec = "main")
      BY <1>1, <1>t DEF Patient, Calm
    <2> QED
      BY <1>1, <1>3, <1>t, <2>1, <2>2, PatientKept
  <1>4. CASE p \in ToSet(queue[r])
    <2>1. /\ state[p] = "WAITING" /\ call[p] = WaitCall(r)
          /\ \A x \in Places : p \in ToSet(queue[x]) => r = x
      BY <1>4, <1>t DEF Patient
    <2>2. call[p] \in Waits /\ (call[p] \in Reads => r \in Blackboards)
      BY <2>1 DEF WaitCall, Places
    <2>n. call[p] \in Reads => Fresh(p)'
      BY <1>4, <1>t, <2>2 DEF Patient, Fresh
    <2>3. timer[p] = NoTimer /\ init_delay[p] = 0 /\ ~suspended[p]
      <3>1. "READ_BLACKBOARD" \notin {"app", "TIMED_WAIT"} /\ "WAIT_EVENT" \notin {"app", "TIMED_WAIT"}
        OBVIOUS
      <3> QED
        BY <1>t, <2>1, <3>1 DEF Patient, Calm, WaitCall
    <2>4. state'[p] = "READY" /\ timer'[p] = NoTimer /\ p \in released'
      BY <1>1, <1>4, <2>3 DEF Served
    <2>5. Calm(p)'
      BY <1>1, <2>3, <2>4 DEF Calm
    <2>6. \A x \in Places : p \notin ToSet(queue'[x])
      BY <1>1, <1>2, <2>1
    <2> QED
      BY <1>1, <2>2, <2>n, <2>4, <2>5, <2>6 DEF Patient
  <1> QED
    BY <1>3, <1>4

LEMMA ReturnPatient ==
  ASSUME CastBase, PatientInv, Return, NEW p \in Undisturbed
  PROVE  Patient(p)'
  <1>t. /\ TypeOK /\ RunningIsCurrent /\ p \in Procs /\ Patient(p)
        /\ call \in [Procs -> Doing] /\ news \in [Procs -> SUBSET Messages]
        /\ index \in [Procs -> Blackboards \cup {None}]
    BY DEF CastBase, SchedInv, PatientInv, Undisturbed, Aperiodic, TypeOK
  <1>1. /\ UNCHANGED <<exec, state, suspended, timer, init_delay, queue, content>>
        /\ call' = [call EXCEPT ![current] = "app"]
        /\ index' = [index EXCEPT ![current] = None]
        /\ news' = [news EXCEPT ![current] = {}]
        /\ released' = released \ {current}
        /\ exec = "proc" /\ current \in Procs /\ state[current] = "RUNNING"
    BY <1>t DEF Return, schedVars, timeVars, boardVars, TypeOK, RunningIsCurrent
  <1>2. CASE p # current
    <2>1. /\ call'[p] = call[p] /\ (p \in released' <=> p \in released) /\ ~suspended'[p]
          /\ index'[p] = index[p] /\ news'[p] = news[p]
      BY <1>1, <1>2, <1>t DEF Patient, Calm
    <2>2. Fresh(p) => Fresh(p)'
      BY <1>1, <2>1 DEF Fresh
    <2> QED
      BY <1>1, <1>t, <2>1, <2>2, PatientKept
  <1>3. CASE p = current
    <2>1. \A r \in Places : p \notin ToSet(queue[r])
      BY <1>1, <1>3, <1>t DEF Patient
    <2>2. timer[p] = NoTimer /\ init_delay[p] = 0 /\ ~suspended[p] /\ state[p] = "RUNNING"
      BY <1>1, <1>3, <1>t DEF Patient, Calm
    <2>3. call'[p] = "app" /\ p \notin released'
      BY <1>1, <1>3, <1>t
    <2>4. Calm(p)'
      BY <1>1, <2>2, <2>3 DEF Calm
    <2> QED
      BY <1>1, <2>1, <2>3, <2>4, CastConstants DEF Patient
  <1> QED
    BY <1>2, <1>3


LEMMA PatientStep ==
  ASSUME CastBase, PatientInv, [CastNext]_allVars
  PROVE  PatientInv'
  <1> USE CastConstants
  <1>t. TypeOK /\ SchedInv /\ Unstarted
    BY DEF CastBase, SchedInv, PatientInv
  <1>u. ASSUME UNCHANGED <<vars, content, index, released, news, disturbed>> PROVE PatientInv'
    <2>1. Unstarted'
      BY <1>t, <1>u DEF Unstarted, vars, schedVars, waitVars
    <2>2. ASSUME NEW p \in Undisturbed PROVE Patient(p)'
      <3>1. Patient(p) /\ ~suspended[p]
        BY DEF PatientInv, Patient, Calm
      <3>2. Fresh(p) => Fresh(p)'
        BY <1>u DEF Fresh
      <3> QED
        BY <1>u, <3>1, <3>2, PatientKept DEF vars, schedVars, timeVars, waitVars
    <2> QED
      BY <1>u, <2>1, <2>2 DEF PatientInv, Undisturbed
  <1>r. ASSUME NEW r \in Places, NEW kind, ReleaseAll(r, kind) PROVE Unstarted'
    <2>1. call' = call /\ (exec' = "os" \/ exec' = exec)
      BY <1>r, <1>t, ReleaseAllFacts
    <2> QED
      BY <1>t, <2>1 DEF Unstarted
  <1>1. CASE ProcessStep
    <2>1. Unstarted'
      BY <1>1, <1>t, UnstartedStep DEF ProcessStep
    <2>2. ASSUME NEW p \in Undisturbed, p \notin disturbed' PROVE Patient(p)'
      BY <1>1, <2>2, ProcessStepPatient DEF ProcessStep
    <2>3. \A p \in Undisturbed' : p \in Undisturbed /\ p \notin disturbed'
      BY <1>1 DEF ProcessStep, Undisturbed
    <2> QED
      BY <2>1, <2>2, <2>3 DEF PatientInv
  <1>2. ASSUME NEW e \in Events, SET_EVENT(e) PROVE PatientInv'
    <2>1. /\ e \in Places /\ e \notin Blackboards /\ ReleaseAll(e, Events)
          /\ UNCHANGED <<content, index, news, disturbed>>
      BY <1>2 DEF SET_EVENT, Places
    <2>2. ASSUME NEW p \in Undisturbed PROVE Patient(p)'
      <3>1. Fresh(p) => Fresh(p)'
        BY <2>1 DEF Fresh
      <3> QED
        BY <2>1, <3>1, ReleasePatient
    <2> QED
      BY <2>1, <2>2, <1>r DEF PatientInv, Undisturbed
  <1>3. ASSUME NEW e \in Events, RESET_EVENT(e) PROVE PatientInv'
    BY <1>3, <1>u DEF RESET_EVENT
  <1>4. ASSUME NEW e \in Events, NEW t \in Timeouts, WAIT_EVENT(e, t) PROVE PatientInv'
    <2> DEFINE sorted == t # INFINITE
               ptrs == (tracked[current] \ Events) \cup {e}
    <2>1. /\ sorted \in BOOLEAN /\ e \in Places /\ WaitCall(e) = "WAIT_EVENT"
          /\ Calls("WAIT_EVENT") /\ Disturbs(t) /\ UNCHANGED <<boardVars, released, news>>
          /\ index' = index /\ e \notin Blackboards
      BY <1>4 DEF WAIT_EVENT, WaitCall, Places
    <2>2. WaitFor(e, sorted, t, ptrs, WaitCall(e), "WAIT_EVENT_TIMED") /\ exec' = "os"
      BY <1>4, <2>1 DEF WAIT_EVENT, WaitFor, yield_to_partition
    <2> HIDE DEF sorted, ptrs
    <2>3. ASSUME NEW p \in Undisturbed, p \notin disturbed' PROVE Patient(p)'
      BY <2>1, <2>2, <2>3, WaitPatient
    <2>4. \A p \in Undisturbed' : p \in Undisturbed /\ p \notin disturbed'
      BY <2>1 DEF Disturbs, Undisturbed
    <2> QED
      BY <2>2, <2>3, <2>4 DEF PatientInv, Unstarted
  <1>5. ASSUME NEW k \in Blackboards, NEW m \in Messages, DISPLAY_BLACKBOARD(k, m)
        PROVE  PatientInv'
    <2>1. /\ k \in Places /\ ReleaseAll(k, Blackboards)
          /\ content' = [content EXCEPT ![k] = m]
          /\ news' = [p \in Procs |-> IF index[p] = k THEN news[p] \cup {m} ELSE news[p]]
          /\ disturbed' = disturbed /\ index' = index
          /\ content \in [Blackboards -> Messages \cup {None}]
      BY <1>5 DEF DISPLAY_BLACKBOARD, Places, CastBase
    <2>2. ASSUME NEW p \in Undisturbed PROVE Patient(p)'
      <3>1. index[p] = k => content'[k] \in news'[p]
        BY <2>1 DEF Undisturbed, Aperiodic
      <3>2. Fresh(p) => Fresh(p)'
        BY <2>1, <3>1 DEF Fresh, Undisturbed, Aperiodic
      <3> QED
        BY <2>1, <3>1, <3>2, ReleasePatient
    <2> QED
      BY <2>1, <2>2, <1>r DEF PatientInv, Undisturbed
  <1>6. ASSUME NEW k \in Blackboards, CLEAR_BLACKBOARD(k) PROVE PatientInv'
    BY <1>6, <1>u DEF CLEAR_BLACKBOARD
  <1>7. ASSUME NEW k \in Blackboards, NEW t \in Timeouts, READ_BLACKBOARD(k, t)
        PROVE  PatientInv'
    <2> DEFINE ptrs == IF t = INFINITE THEN tracked[current]
                                       ELSE (tracked[current] \ Blackboards) \cup {k}
    <2>1. /\ FALSE \in BOOLEAN /\ k \in Places /\ WaitCall(k) = "READ_BLACKBOARD"
          /\ Calls("READ_BLACKBOARD") /\ Disturbs(t) /\ UNCHANGED <<boardVars, released, news>>
          /\ index' = [index EXCEPT ![current] = k] /\ index \in [Procs -> Blackboards \cup {None}]
      BY <1>7 DEF READ_BLACKBOARD, WaitCall, Places, CastBase
    <2>i. /\ \A q \in Procs : q # current => index'[q] = index[q]
          /\ index'[current] = k
      BY <2>1, <1>t, CallerRuns
    <2>2. WaitFor(k, FALSE, t, ptrs, WaitCall(k), "READ_BLACKBOARD_TIMED") /\ exec' = "os"
      BY <1>7, <2>1 DEF READ_BLACKBOARD, WaitFor, yield_to_partition
    <2> HIDE DEF ptrs
    <2>3. ASSUME NEW p \in Undisturbed, p \notin disturbed' PROVE Patient(p)'
      BY <2>1, <2>2, <2>i, <2>3, WaitPatient
    <2>4. \A p \in Undisturbed' : p \in Undisturbed /\ p \notin disturbed'
      BY <2>1 DEF Disturbs, Undisturbed
    <2> QED
      BY <2>2, <2>3, <2>4 DEF PatientInv, Unstarted
  <1>8. CASE Return
    <2>1. ASSUME NEW p \in Undisturbed PROVE Patient(p)'
      BY <1>8, ReturnPatient
    <2>2. exec' = "proc" /\ disturbed' = disturbed
      BY <1>8 DEF Return, schedVars
    <2> QED
      BY <2>1, <2>2 DEF PatientInv, Unstarted, Undisturbed
  <1>9. CASE UNCHANGED allVars
    BY <1>9, <1>u DEF allVars, castVars, boardVars
  <1> QED
    BY <1>1, <1>2, <1>3, <1>4, <1>5, <1>6, <1>7, <1>8, <1>9 DEF CastNext

LEMMA PatientInvariant == CastSpec => []PatientInv
  BY InitPatient, PatientStep, CastBaseInvariant, PTL DEF CastSpec

(* Only a SET_EVENT or a DISPLAY_BLACKBOARD ends the wait of a process     *)
(* that waits without a time-out and is left alone, and each one does,     *)
(* even if the event is reset before the process runs.                     *)
THEOREM OnlyRaisingReleases == CastSpec => []ReleasedByRaise
  <1>1. ASSUME PatientInv, NEW p \in Undisturbed, call[p] \in Waits
        PROVE  state[p] # "WAITING" <=> p \in released
    <2>1. Patient(p)
      BY <1>1 DEF PatientInv
    <2>2. p \in released => state[p] # "WAITING"
      BY <2>1 DEF Patient
    <2>3. p \notin released => state[p] = "WAITING"
      BY <1>1, <2>1 DEF Patient
    <2> QED
      BY <2>2, <2>3
  <1>2. PatientInv => ReleasedByRaise
    BY <1>1 DEF ReleasedByRaise
  <1> QED
    BY <1>2, PatientInvariant, PTL

(* What such a process then copies from its blackboard was displayed there *)
(* during its read, although the blackboard may have been cleared and      *)
(* written again before it runs, for any number of blackboards.            *)
THEOREM ReadersCopyNews == CastSpec => []ReadersGetNews
  <1>1. ASSUME CastBase, PatientInv, exec = "proc", call[current] \in Reads,
               current \in Undisturbed
        PROVE  content[index[current]] \in news[current]
    <2>1. state[current] = "RUNNING" /\ Patient(current) /\ call[current] \in Waits
      BY <1>1, CastConstants DEF CastBase, SchedInv, RunningIsCurrent, PatientInv
    <2>2. current \in released
      BY <2>1 DEF Patient
    <2> QED
      BY <1>1, <2>1, <2>2 DEF Patient, Fresh
  <1>2. CastBase /\ PatientInv => ReadersGetNews
    BY <1>1 DEF ReadersGetNews
  <1> QED
    BY <1>2, CastBaseInvariant, PatientInvariant, PTL
=============================================================================
