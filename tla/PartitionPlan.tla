---------------------------- MODULE PartitionPlan ----------------------------
(***************************************************************************)
(* What the module scheduler promises: the processor belongs, at every     *)
(* position of the major frame, to the partition whose window contains     *)
(* that position, unless that partition has put itself in IDLE mode; and a *)
(* partition that has retired and lost the processor never regains it. The *)
(* plan is a function of time; no window index and no frame counter.       *)
(***************************************************************************)
EXTENDS Integers, Sequences

CONSTANTS None, Windows, Frame, MaxLate

VARIABLES phase, running, idle

Contains(w, t) ==
  w.start <= t /\ t < w.start + w.duration

(* The partitions entitled to the processor at position t.                 *)
Entitled(t) ==
  {Windows[i].id : i \in {j \in 1 .. Len(Windows) : Contains(Windows[j], t)}}

(* p may own position t after prev owned the position before: an active    *)
(* partition that is entitled to it; if there is none the processor idles, *)
(* or prev, which is retiring, finishes in a window of its own.            *)
MayOwn(p, t, inactive, prev) ==
  LET active == Entitled(t) \ inactive
  IN  \/ p \in active
      \/ active = {} /\ p = None
      \/ active = {} /\ p = prev /\ p \in Entitled(t)

Init ==
  /\ phase \in 0 .. Frame - 1
  /\ idle = {}
  /\ MayOwn(running, phase, idle, None)

(* Time passes and the processor goes to an owner of the new position.     *)
Advance ==
  /\ \E d \in 1 .. MaxLate :
       phase' = IF phase + d < Frame THEN phase + d ELSE phase + d - Frame
  /\ idle' = idle
  /\ MayOwn(running', phase', idle, running)

(* The running partition retires: it gives up its windows.                 *)
Retire ==
  /\ running # None
  /\ idle' = idle \cup {running}
  /\ UNCHANGED <<phase, running>>

Next == Advance \/ Retire

Spec == Init /\ [][Next]_<<phase, running, idle>>
=============================================================================
