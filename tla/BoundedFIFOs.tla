----------------------------- MODULE BoundedFIFOs -----------------------------
(***************************************************************************)
(* What message buffers and queuing channels promise: each holds at most   *)
(* Capacity messages and delivers them complete, in the order it accepted  *)
(* them.  There are no rings, indices or counters, and no processes: a     *)
(* step accepts a message, delivers one, delivers one and accepts another  *)
(* in its place, or discards them all.                                     *)
(***************************************************************************)
EXTENDS Integers, Sequences

CONSTANTS
  Fifos,      \* the buffers or channels
  Capacity,   \* the greatest number of messages in each
  Messages    \* what can be sent

VARIABLE fifo  \* the messages in each, oldest first

Init == fifo = [f \in Fifos |-> <<>>]

Accept(f, m) ==
  /\ Len(fifo[f]) < Capacity[f]
  /\ fifo' = [fifo EXCEPT ![f] = Append(@, m)]

Deliver(f) ==
  /\ fifo[f] # <<>>
  /\ fifo' = [fifo EXCEPT ![f] = Tail(@)]

Exchange(f, m) ==
  /\ fifo[f] # <<>>
  /\ fifo' = [fifo EXCEPT ![f] = Append(Tail(@), m)]

Discard(f) == fifo' = [fifo EXCEPT ![f] = <<>>]

Next ==
  \E f \in Fifos :
    \/ \E m \in Messages : Accept(f, m) \/ Exchange(f, m)
    \/ Deliver(f)
    \/ Discard(f)

Spec == Init /\ [][Next]_fifo
=============================================================================
