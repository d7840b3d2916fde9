----------------------------- MODULE LedgerFifo -----------------------------
(***************************************************************************)
(* What the event ring promises its two users: a bounded queue that loses  *)
(* an event only by refusing it at the door, when it is full, and that     *)
(* hands the accepted ones out complete, once each, in the order in which  *)
(* they were accepted.  It knows nothing of indices, slots or copies;      *)
(* LedgerQueue is shown to implement it.                                   *)
(***************************************************************************)
EXTENDS Naturals, Sequences

CONSTANTS Event,        \* the events that may be pushed
          Capacity,     \* the most events the queue holds at once
          NoEvent       \* what a pop of the empty queue leaves, FALSE

VARIABLES q,            \* accepted events not yet handed out, oldest first
          pushed,       \* the last push that returned: its event, its result
          popped        \* the last pop's result: an event or NoEvent

fifoVars == <<q, pushed, popped>>

Init == /\ q = << >>
        /\ pushed = <<NoEvent, FALSE>>
        /\ popped = NoEvent

Accept(e) == /\ Len(q) < Capacity
             /\ q' = Append(q, e)
             /\ pushed' = <<e, TRUE>>
             /\ UNCHANGED popped

Refuse(e) == /\ Len(q) = Capacity
             /\ pushed' = <<e, FALSE>>
             /\ UNCHANGED <<q, popped>>

HandOut == /\ q # << >>
           /\ popped' = Head(q)
           /\ q' = Tail(q)
           /\ UNCHANGED pushed

FindEmpty == /\ q = << >>
             /\ popped' = NoEvent
             /\ UNCHANGED <<q, pushed>>

Next == \/ \E e \in Event : Accept(e) \/ Refuse(e)
        \/ HandOut
        \/ FindEmpty

Spec == Init /\ [][Next]_fifoVars

(* The consumer keeps asking, so what was accepted is handed out. *)
FairSpec == Spec /\ WF_fifoVars(HandOut)
=============================================================================
