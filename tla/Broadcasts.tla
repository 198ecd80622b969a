------------------------------ MODULE Broadcasts ------------------------------
(***************************************************************************)
(* The two objects of a partition that release all their waiting processes *)
(* at once: events (SET_EVENT, RESET_EVENT, WAIT_EVENT) and blackboards    *)
(* (DISPLAY_BLACKBOARD, CLEAR_BLACKBOARD, READ_BLACKBOARD, all in          *)
(* arinc/arinc_intrapartition_communication.c), together with the          *)
(* partition's processes.                                                  *)
(*                                                                         *)
(* A released process goes on when it is next dispatched.  By then the     *)
(* event may have been reset, the blackboard cleared or written again: a   *)
(* reader copies what is in the blackboard at that time.                   *)
(* APERIODIC_WAIT_EVENT is left out: it asks for a caller that is the      *)
(* error handler and periodic, and changes nothing.                        *)
(***************************************************************************)
EXTENDS Processes

CONSTANTS
  Events,        \* the events the partition creates
  Blackboards,   \* and the blackboards
  Messages       \* what is displayed

ASSUME BroadcastsAssumption ==
  /\ Events \cup Blackboards \subseteq Resources
  /\ Events \cap Blackboards = {}
  /\ None \notin Messages

VARIABLES
  up,         \* the events whose EVENT_STATE is UP
  occupied,   \* the blackboards whose EMPTY_INDICATOR is OCCUPIED
  content,    \* blackboards_data; None: nothing displayed so far
  index,      \* the blackboard a waiting READ_BLACKBOARD was called for
  released,   \* history: processes released from a wait they are still in
  news,       \* history: messages displayed on it since
  disturbed   \* history: processes that waited with a time-out, or were
              \* stopped or suspended

boardVars == <<up, occupied, content>>
castVars == <<boardVars, index, released, news, disturbed>>
allVars == <<vars, castVars>>

Reads == {"READ_BLACKBOARD", "READ_BLACKBOARD_TIMED"}

Waits == Reads \cup {"WAIT_EVENT", "WAIT_EVENT_TIMED"}

-----------------------------------------------------------------------------
(* Waiting and releasing *)

Disturbs(t) ==
  disturbed' = IF t = INFINITE THEN disturbed ELSE disturbed \cup {current}

StateButLast(r) ==
  [p \in Procs |-> IF queue[r] # <<>> /\ p \in ToSet(Front(queue[r])) THEN "READY"
                                                                     ELSE state[p]]

(* No process is left on the queue of r: the loop makes each one READY,    *)
(* whatever its state, and cancels its timer.                              *)
StateReleased(r) ==
  [p \in Procs |-> IF p \in ToSet(queue[r]) THEN "READY" ELSE state[p]]

ReleaseAndGoOn(r, kind) ==
  LET waiting == ToSet(queue[r])
  IN  /\ queue' = [queue EXCEPT ![r] = <<>>]
      /\ state' = StateReleased(r)
      /\ timer' = [p \in Procs |-> IF p \in waiting THEN Served(timer[p]) ELSE timer[p]]
      /\ tracked' = [p \in Procs |-> IF p \in waiting THEN tracked[p] \ kind ELSE tracked[p]]
      /\ released' = released \cup waiting
      /\ UNCHANGED <<mode, exec, current, order, tick_pending, priority, suspended,
                     release, init_delay, grid, call, owned>>

ReleaseFirst(r, kind) ==
  /\ queue' = [queue EXCEPT ![r] = IF @ = <<>> THEN @ ELSE Tail(@)]
  /\ state' = [p \in Procs |->
       IF queue[r] # <<>> /\ p = Head(queue[r]) THEN "READY" ELSE state[p]]
  /\ released' = released \cup (IF queue[r] = <<>> THEN {} ELSE {Head(queue[r])})
  /\ exec' = IF queue[r] = <<>> THEN exec ELSE "os"
  /\ UNCHANGED <<mode, current, order, tick_pending, priority, suspended, tracked,
                 timer, release, init_delay, grid, call, owned>>

(* kind is Events or Blackboards: the waiting_* pointer that is cleared.   *)
ReleaseAll(r, kind) ==
  LET waiting == ToSet(queue[r])
  IN  /\ queue' = [queue EXCEPT ![r] = <<>>]
      /\ state' = StateReleased(r)
      /\ timer' = [p \in Procs |-> IF p \in waiting THEN Served(timer[p]) ELSE timer[p]]
      /\ tracked' = [p \in Procs |-> IF p \in waiting THEN tracked[p] \ kind ELSE tracked[p]]
      /\ released' = released \cup waiting
      /\ exec' = IF queue[r] = <<>> THEN exec ELSE "os"    \* yield_to_partition
      /\ UNCHANGED <<mode, current, order, tick_pending, priority, suspended,
                     release, init_delay, grid, call, owned>>

-----------------------------------------------------------------------------
(* Events *)

SET_EVENT(e) ==
  /\ MayCall("SET_EVENT")
  /\ up' = up \cup {e}
  /\ ReleaseAll(e, Events)
  /\ UNCHANGED <<occupied, content, index, news, disturbed>>

RESET_EVENT(e) ==
  /\ MayCall("RESET_EVENT")
  /\ up' = up \ {e}
  /\ UNCHANGED <<vars, occupied, content, index, released, news, disturbed>>

(* On an event that is UP the call returns at once.  waiting_event is      *)
(* always set; the queue is sorted by priority for timed waits only.       *)
WAIT_EVENT(e, t) ==
  /\ Calls("WAIT_EVENT")
  /\ e \notin up
  /\ WaitFor(e, t # INFINITE, t, (tracked[current] \ Events) \cup {e},
             "WAIT_EVENT", "WAIT_EVENT_TIMED")
  /\ Disturbs(t)
  /\ UNCHANGED <<boardVars, index, released, news>>

-----------------------------------------------------------------------------
(* Blackboards *)

DisplayWithoutCopy(k, m) ==
  /\ MayCall("DISPLAY_BLACKBOARD")
  /\ occupied' = occupied \cup {k}
  /\ content' = [content EXCEPT ![k] = IF queue[k] = <<>> THEN m ELSE @]
  /\ news' = [p \in Procs |-> IF index[p] = k THEN news[p] \cup {m} ELSE news[p]]
  /\ ReleaseAll(k, Blackboards)
  /\ UNCHANGED <<up, index, disturbed>>

DISPLAY_BLACKBOARD(k, m) ==
  /\ MayCall("DISPLAY_BLACKBOARD")
  /\ occupied' = occupied \cup {k}
  /\ content' = [content EXCEPT ![k] = m]
  /\ news' = [p \in Procs |-> IF index[p] = k THEN news[p] \cup {m} ELSE news[p]]
  /\ ReleaseAll(k, Blackboards)
  /\ UNCHANGED <<up, index, disturbed>>

(* Only the indicator is reset; the message stays.                         *)
CLEAR_BLACKBOARD(k) ==
  /\ MayCall("CLEAR_BLACKBOARD")
  /\ occupied' = occupied \ {k}
  /\ UNCHANGED <<vars, up, content, index, released, news, disturbed>>

(* A blackboard that is OCCUPIED is read at once.  Only a wait with a      *)
(* time-out sets waiting_blackboard.                                       *)
READ_BLACKBOARD(k, t) ==
  /\ Calls("READ_BLACKBOARD")
  /\ k \notin occupied
  /\ WaitFor(k, FALSE, t,
             IF t = INFINITE THEN tracked[current]
                             ELSE (tracked[current] \ Blackboards) \cup {k},
             "READ_BLACKBOARD", "READ_BLACKBOARD_TIMED")
  /\ index' = [index EXCEPT ![current] = k]
  /\ Disturbs(t)
  /\ UNCHANGED <<boardVars, released, news>>

-----------------------------------------------------------------------------
(* After the yield: the return code and, for a read that did not time out, *)
(* the copy of the blackboard as it is now.                                *)
Return ==
  /\ exec = "proc"
  /\ call[current] \in Waits
  /\ call' = [call EXCEPT ![current] = "app"]
  /\ released' = released \ {current}
  /\ index' = [index EXCEPT ![current] = None]
  /\ news' = [news EXCEPT ![current] = {}]
  /\ UNCHANGED <<schedVars, state, priority, suspended, timeVars, queue,
                 tracked, owned, boardVars, disturbed>>

(* CREATE_EVENT, CREATE_BLACKBOARD *)
EventsCreated == up = {}

BoardsCreated == occupied = {} /\ content = [k \in Blackboards |-> None]

CastInit ==
  /\ Init
  /\ EventsCreated
  /\ BoardsCreated
  /\ index = [p \in Procs |-> None]
  /\ released = {}
  /\ news = [p \in Procs |-> {}]
  /\ disturbed = {}

(* Processes that a step stops or suspends.                                *)
Hit == {p \in Procs : \/ state'[p] = "DORMANT" /\ state[p] # "DORMANT"
                      \/ suspended'[p]}

(* Steps of the processes; a restarted process has forgotten its wait.     *)
ProcessStep ==
  /\ Next
  /\ released' = {p \in released : call'[p] # "app"}
  /\ index' = [p \in Procs |-> IF call'[p] = "app" THEN None ELSE index[p]]
  /\ news' = [p \in Procs |-> IF call'[p] = "app" THEN {} ELSE news[p]]
  /\ disturbed' = disturbed \cup Hit
  /\ UNCHANGED boardVars

CastNext ==
  \/ ProcessStep
  \/ \E e \in Events : SET_EVENT(e) \/ RESET_EVENT(e)
  \/ \E e \in Events, t \in Timeouts : WAIT_EVENT(e, t)
  \/ \E k \in Blackboards, m \in Messages : DISPLAY_BLACKBOARD(k, m)
  \/ \E k \in Blackboards : CLEAR_BLACKBOARD(k)
  \/ \E k \in Blackboards, t \in Timeouts : READ_BLACKBOARD(k, t)
  \/ Return

CastSpec == CastInit /\ [][CastNext]_allVars

-----------------------------------------------------------------------------
(* Properties *)

(* Nobody waits on an event that is UP or on a blackboard that shows a     *)
(* message: whoever waits was released when it was set or displayed, and   *)
(* whoever comes later does not wait.                                      *)
NoWaitOnRaised ==
  /\ \A e \in up : queue[e] = <<>>
  /\ \A k \in occupied : queue[k] = <<>>

(* Aperiodic processes that only wait without a time-out, and were never   *)
(* stopped or suspended.  (Of a periodic one that waits here the release   *)
(* point has passed: the next tick makes it READY.)                        *)
Undisturbed == Aperiodic \ disturbed

(* The wait of such a process ends by a SET_EVENT or a DISPLAY_BLACKBOARD  *)
(* during that wait and by nothing else, also if the event is reset again  *)
(* before the process runs.  (app/arinc_test_event.c)                      *)
ReleasedByRaise ==
  \A p \in Undisturbed :
    call[p] \in Waits => (state[p] # "WAITING" <=> p \in released)

(* The reader that was released finds on its blackboard a message that was *)
(* displayed there during its read, never an older one and never an empty  *)
(* board, although CLEAR_BLACKBOARD and further displays, also on other    *)
(* blackboards, can come before it runs.                                   *)
ReadersGetNews ==
  exec = "proc" /\ call[current] \in Reads /\ current \in Undisturbed =>
    content[index[current]] \in news[current]

=============================================================================
