---------------------------- MODULE LedgerQueue -----------------------------
(***************************************************************************)
(* kernel/ledger_queue.c: the single-producer, single-consumer ring that   *)
(* carries ledger events from the VFS to the flush task.                   *)
(*                                                                         *)
(* Every access to the shared words head and tail is a step of its own.    *)
(* The copy of a LedgerEvent (some 90 bytes) is not atomic: the producer   *)
(* leaves the slot Torn between the beginning and the end of its copy, and *)
(* the consumer ends up with Torn if the slot changes during its own.      *)
(* The compiler barriers and the x86 store order keep the steps of one     *)
(* side in program order.                                                  *)
(***************************************************************************)
EXTENDS Integers, Sequences

CONSTANTS Event,              \* the events the VFS pushes
          LEDGER_QUEUE_SIZE,  \* slots of the ring
          Zero,               \* a slot as ledger_queue_init leaves it
          Torn                \* a half-copied slot, or the result of copying one

(* The ring needs one slot to tell full from empty, and one to be of use. *)
ASSUME SizeAssumption == LEDGER_QUEUE_SIZE \in Nat \ {0, 1}

(* "Must be power of 2": QUEUE_MASK then reduces an index modulo the size. *)
ASSUME PowerOfTwoAssumption == \E k \in 1..31 : LEDGER_QUEUE_SIZE = 2 ^ k

ASSUME EventAssumption == Zero \notin Event /\ Torn \notin Event

VARIABLES events, head, tail,       \* the static LedgerQueue lq
          ppc, phead, pnext, pev,   \* ledger_queue_push: where it is, its locals
          cpc, ctail, cev,          \* ledger_queue_pop: where it is, its locals
          pushed, popped,           \* results of the last push and the last pop
          pending                   \* ghost: accepted events not yet popped

ring == <<events, head, tail>>
producer == <<ppc, phead, pnext, pev, pushed>>
consumer == <<cpc, ctail, cev, popped>>
vars == <<events, head, tail, ppc, phead, pnext, pev, cpc, ctail, cev,
          pushed, popped, pending>>

Index == 0 .. LEDGER_QUEUE_SIZE - 1
Slot == Event \cup {Zero, Torn}

MaskForgotten(x) == x               \* mutant: the index runs off the ring
Mask(x) == x % LEDGER_QUEUE_SIZE    \* x & QUEUE_MASK

ledger_queue_depth == Mask(head - tail)

Init == /\ events = [i \in Index |-> Zero]
        /\ head = 0 /\ tail = 0
        /\ ppc = "idle" /\ phead = 0 /\ pnext = 0 /\ pev = Zero
        /\ cpc = "idle" /\ ctail = 0 /\ cev = Zero
        /\ pushed = <<Zero, FALSE>>
        /\ popped = Zero
        /\ pending = << >>
-----------------------------------------------------------------------------
(* ledger_queue_push *)

PushReadHead(e) ==
  /\ ppc = "idle"
  /\ ppc' = "check"
  /\ pev' = e
  /\ phead' = head
  /\ pnext' = Mask(head + 1)
  /\ UNCHANGED <<ring, consumer, pushed, pending>>

PushFullEarly ==    \* mutant: gives up with one usable slot left
  /\ ppc = "check"
  /\ Mask(pnext + 1) = tail
  /\ ppc' = "idle"
  /\ pushed' = <<pev, FALSE>>
  /\ UNCHANGED <<ring, consumer, phead, pnext, pev, pending>>

PushFull ==     \* the event is dropped and FALSE returned
  /\ ppc = "check"
  /\ pnext = tail
  /\ ppc' = "idle"
  /\ pushed' = <<pev, FALSE>>
  /\ UNCHANGED <<ring, consumer, phead, pnext, pev, pending>>

PushRoomUnchecked ==    \* mutant: no test for a full ring
  /\ ppc = "check"
  /\ ppc' = "copy"
  /\ UNCHANGED <<ring, consumer, phead, pnext, pev, pushed, pending>>

PushRoom ==
  /\ ppc = "check"
  /\ pnext # tail
  /\ ppc' = "copy"
  /\ UNCHANGED <<ring, consumer, phead, pnext, pev, pushed, pending>>

PushCopyBegin ==
  /\ ppc = "copy"
  /\ ppc' = "copying"
  /\ events' = [events EXCEPT ![phead] = Torn]
  /\ UNCHANGED <<head, tail, consumer, phead, pnext, pev, pushed, pending>>

PushCopyEnd ==
  /\ ppc = "copying"
  /\ ppc' = "advance"
  /\ events' = [events EXCEPT ![phead] = pev]
  /\ UNCHANGED <<head, tail, consumer, phead, pnext, pev, pushed, pending>>

PushAdvance ==
  /\ ppc = "advance"
  /\ ppc' = "idle"
  /\ head' = pnext
  /\ pushed' = <<pev, TRUE>>
  /\ pending' = Append(pending, pev)
  /\ UNCHANGED <<events, tail, consumer, phead, pnext, pev>>

Push == \/ PushFull \/ PushRoom \/ PushCopyBegin \/ PushCopyEnd \/ PushAdvance
-----------------------------------------------------------------------------
(* ledger_queue_pop *)

PopReadTail ==
  /\ cpc = "idle"
  /\ cpc' = "check"
  /\ ctail' = tail
  /\ UNCHANGED <<ring, producer, cev, popped, pending>>

PopEmpty ==
  /\ cpc = "check"
  /\ ctail = head
  /\ cpc' = "idle"
  /\ popped' = Zero
  /\ UNCHANGED <<ring, producer, ctail, cev, pending>>

PopSomeUnchecked ==     \* mutant: no test for an empty ring
  /\ cpc = "check"
  /\ cpc' = "copy"
  /\ UNCHANGED <<ring, producer, ctail, cev, popped, pending>>

PopSome ==
  /\ cpc = "check"
  /\ ctail # head
  /\ cpc' = "copy"
  /\ UNCHANGED <<ring, producer, ctail, cev, popped, pending>>

PopCopyBegin ==
  /\ cpc = "copy"
  /\ cpc' = "copying"
  /\ cev' = events[ctail]
  /\ UNCHANGED <<ring, producer, ctail, popped, pending>>

PopCopyEnd ==
  /\ cpc = "copying"
  /\ cpc' = "advance"
  /\ cev' = IF events[ctail] = cev THEN cev ELSE Torn
  /\ UNCHANGED <<ring, producer, ctail, popped, pending>>

PopAdvance ==
  /\ cpc = "advance"
  /\ cpc' = "idle"
  /\ tail' = Mask(ctail + 1)
  /\ popped' = cev
  /\ pending' = IF pending = << >> THEN << >> ELSE Tail(pending)
  /\ UNCHANGED <<events, head, producer, ctail, cev>>

Pop == \/ PopReadTail \/ PopEmpty \/ PopSome
       \/ PopCopyBegin \/ PopCopyEnd \/ PopAdvance
-----------------------------------------------------------------------------
Next == \/ \E e \in Event : PushReadHead(e)
        \/ Push
        \/ Pop

Spec == Init /\ [][Next]_vars

(* The flush task calls pop on every tenth timer tick and a push, once     *)
(* begun, has no loop: both sides keep running.                            *)
FairSpec == Spec /\ WF_vars(Pop) /\ WF_vars(Push)
-----------------------------------------------------------------------------
TypeOK ==
  /\ events \in [Index -> Slot]
  /\ head \in Index /\ tail \in Index
  /\ ppc \in {"idle", "check", "copy", "copying", "advance"}
  /\ phead \in Index /\ pnext \in Index /\ pev \in Event \cup {Zero}
  /\ cpc \in {"idle", "check", "copy", "copying", "advance"}
  /\ ctail \in Index /\ cev \in Slot
  /\ pushed \in (Event \cup {Zero}) \X BOOLEAN
  /\ popped \in Slot
  /\ pending \in Seq(Event)

(* The slots from tail up to head hold exactly the accepted events that    *)
(* nobody has popped, in order, and ledger_queue_depth counts them: no     *)
(* accepted event is overwritten, skipped or handed out twice.             *)
RingHoldsPending ==
  /\ Len(pending) = ledger_queue_depth
  /\ \A i \in 1 .. Len(pending) : events[Mask(tail + i - 1)] = pending[i]

(* The two copies never touch the same slot: while the producer writes     *)
(* events[head] the consumer is not reading that slot, although no lock    *)
(* keeps them apart (the producer may test a tail that has since moved).   *)
CopiesDisjoint ==
  ~ /\ ppc \in {"copy", "copying", "advance"}
    /\ cpc \in {"copy", "copying", "advance"}
    /\ phead = ctail

(* What ledger_queue_push and ledger_queue_pop do together is a bounded    *)
(* FIFO that refuses only when all its usable slots are taken.             *)
Fifo == INSTANCE LedgerFifo WITH q <- pending, NoEvent <- Zero,
                                 Capacity <- LEDGER_QUEUE_SIZE - 1

FifoSafe == Fifo!Spec

(* ... and that, while the flush task keeps polling, hands out what it     *)
(* accepted.                                                               *)
FifoLive == Fifo!FairSpec
=============================================================================
