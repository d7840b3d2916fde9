------------------------- MODULE LedgerQueueProofs --------------------------
(***************************************************************************)
(* For every power-of-two size and every set of events, the ring of        *)
(* ledger_queue.c is a bounded FIFO for one producer and one consumer.     *)
(***************************************************************************)
EXTENDS LedgerQueue, TLAPS

(* What the producer knows at each place of ledger_queue_push: its copy of *)
(* head is current, and the room it saw stays.                             *)
ProducerInv ==
  /\ ppc # "idle" => phead = head /\ pnext = Mask(head + 1) /\ pev \in Event
  /\ ppc \in {"copy", "copying", "advance"} => pnext # tail
  /\ ppc = "advance" => events[phead] = pev

(* What the consumer knows at each place of ledger_queue_pop: its copy of  *)
(* tail is current, the event it saw stays, and its copy is faithful.      *)
ConsumerInv ==
  /\ cpc # "idle" => ctail = tail
  /\ cpc \in {"copy", "copying", "advance"} => ctail # head
  /\ cpc \in {"copying", "advance"} => cev = events[ctail]

IInv == TypeOK /\ RingHoldsPending /\ ProducerInv /\ ConsumerInv

(* Masking an index that left the ring by less than one turn brings it     *)
(* back by one turn, as (x & QUEUE_MASK) does.                             *)
LEMMA MaskValue ==
  ASSUME NEW x \in Int, -LEDGER_QUEUE_SIZE < x, x < 2 * LEDGER_QUEUE_SIZE
  PROVE  Mask(x) = IF x < 0 THEN x + LEDGER_QUEUE_SIZE
                   ELSE IF x < LEDGER_QUEUE_SIZE THEN x
                   ELSE x - LEDGER_QUEUE_SIZE
<1>1. CASE x < 0
  BY <1>1, SizeAssumption DEF Mask
<1>2. CASE 0 <= x /\ x < LEDGER_QUEUE_SIZE
  BY <1>2, SizeAssumption DEF Mask
<1>3. CASE LEDGER_QUEUE_SIZE <= x
  BY <1>3, SizeAssumption DEF Mask
<1>4. QED
  BY <1>1, <1>2, <1>3, SizeAssumption

(* Moving an index on by one keeps it in the ring. *)
LEMMA MaskSucc ==
  ASSUME NEW i \in Index
  PROVE  /\ Mask(i + 1) \in Index
         /\ Mask(i + 1) = IF i + 1 = LEDGER_QUEUE_SIZE THEN 0 ELSE i + 1
<1>1. /\ i + 1 \in Int
      /\ -LEDGER_QUEUE_SIZE < i + 1
      /\ i + 1 < 2 * LEDGER_QUEUE_SIZE
  BY SizeAssumption DEF Index
<1>2. QED
  BY <1>1, MaskValue, SizeAssumption DEF Index

(* ledger_queue_depth never exceeds the usable slots, and it is the number *)
(* of steps from tail to head.                                             *)
LEMMA DepthValue ==
  ASSUME TypeOK
  PROVE  ledger_queue_depth = IF tail <= head THEN head - tail
                              ELSE head - tail + LEDGER_QUEUE_SIZE
<1>1. /\ head - tail \in Int
      /\ -LEDGER_QUEUE_SIZE < head - tail
      /\ head - tail < 2 * LEDGER_QUEUE_SIZE
  BY SizeAssumption DEF TypeOK, Index
<1>2. QED
  BY <1>1, MaskValue, SizeAssumption DEF ledger_queue_depth, TypeOK, Index

(* The place of the i-th pending event. *)
LEMMA PlaceValue ==
  ASSUME NEW t \in Index, NEW i \in 1 .. LEDGER_QUEUE_SIZE
  PROVE  /\ Mask(t + i - 1) \in Index
         /\ Mask(t + i - 1) = IF t + i - 1 < LEDGER_QUEUE_SIZE THEN t + i - 1
                              ELSE t + i - 1 - LEDGER_QUEUE_SIZE
<1>1. /\ t + i - 1 \in Int
      /\ -LEDGER_QUEUE_SIZE < t + i - 1
      /\ t + i - 1 < 2 * LEDGER_QUEUE_SIZE
  BY SizeAssumption DEF Index
<1>2. QED
  BY <1>1, MaskValue, SizeAssumption DEF Index

(* A slot that is free is no pending event's place. *)
LEMMA HeadSlotFree ==
  ASSUME TypeOK, RingHoldsPending, NEW i \in 1 .. Len(pending)
  PROVE  /\ i \in 1 .. LEDGER_QUEUE_SIZE
         /\ Mask(tail + i - 1) \in Index
         /\ Mask(tail + i - 1) # head
<1>1. Len(pending) = IF tail <= head THEN head - tail
                     ELSE head - tail + LEDGER_QUEUE_SIZE
  BY DepthValue DEF RingHoldsPending
<1>2. i \in 1 .. LEDGER_QUEUE_SIZE
  BY <1>1, SizeAssumption DEF TypeOK, Index
<1>3. tail \in Index /\ head \in Index
  BY DEF TypeOK
<1>4. QED
  BY <1>1, <1>2, <1>3, PlaceValue, SizeAssumption DEF Index

LEMMA InitIInv == Init => IInv
<1> SUFFICES ASSUME Init PROVE IInv
  OBVIOUS
<1>1. TypeOK
  BY SizeAssumption DEF Init, TypeOK, Index, Slot
<1>2. RingHoldsPending
  BY <1>1, DepthValue DEF Init, RingHoldsPending
<1>3. QED
  BY <1>1, <1>2 DEF Init, IInv, ProducerInv, ConsumerInv
(* Steps that leave the ring and the ghost alone. *)
LEMMA RingUntouched ==
  ASSUME RingHoldsPending, UNCHANGED <<events, head, tail, pending>>
  PROVE  RingHoldsPending'
BY DEF RingHoldsPending, ledger_queue_depth

(* The producer's copy touches a slot that holds no pending event. *)
LEMMA CopyKeepsRing ==
  ASSUME TypeOK, RingHoldsPending, NEW v,
         events' = [events EXCEPT ![head] = v],
         UNCHANGED <<head, tail, pending>>
  PROVE  RingHoldsPending'
<1>1. Len(pending') = ledger_queue_depth'
  BY DEF RingHoldsPending, ledger_queue_depth
<1>2. ASSUME NEW i \in 1 .. Len(pending')
      PROVE  events'[Mask(tail' + i - 1)] = pending'[i]
  <2>1. i \in 1 .. Len(pending)
    OBVIOUS
  <2>2. Mask(tail + i - 1) \in Index /\ Mask(tail + i - 1) # head
    BY <2>1, HeadSlotFree
  <2>3. events[Mask(tail + i - 1)] = pending[i]
    BY <2>1 DEF RingHoldsPending
  <2>4. QED
    BY <2>2, <2>3 DEF TypeOK
<1>3. QED
  BY <1>1, <1>2 DEF RingHoldsPending

(* Publishing head appends the copied event to what the ring holds. *)
LEMMA AdvanceHeadKeepsRing ==
  ASSUME IInv, PushAdvance, TypeOK'
  PROVE  RingHoldsPending'
<1> USE DEF PushAdvance
<1>1. /\ phead = head /\ pnext = Mask(head + 1) /\ pev \in Event
      /\ pnext # tail /\ events[head] = pev
  BY DEF IInv, ProducerInv
<1>2. Len(pending) = IF tail <= head THEN head - tail
                     ELSE head - tail + LEDGER_QUEUE_SIZE
  BY DepthValue DEF IInv, RingHoldsPending
<1>3. ledger_queue_depth' = IF tail' <= head' THEN head' - tail'
                            ELSE head' - tail' + LEDGER_QUEUE_SIZE
  <2>1. /\ head' - tail' \in Int
        /\ -LEDGER_QUEUE_SIZE < head' - tail'
        /\ head' - tail' < 2 * LEDGER_QUEUE_SIZE
    BY SizeAssumption DEF TypeOK, Index
  <2>2. QED
    BY <2>1, MaskValue, SizeAssumption DEF ledger_queue_depth, TypeOK, Index
<1>4. head' = IF head + 1 = LEDGER_QUEUE_SIZE THEN 0 ELSE head + 1
  BY <1>1, MaskSucc DEF IInv, TypeOK
<1>5. pending \in Seq(Event) /\ head \in Index /\ tail \in Index /\ tail' = tail
  BY DEF IInv, TypeOK, consumer
<1>6. Len(pending') = Len(pending) + 1
  BY <1>1, <1>5
<1>7. Len(pending') = ledger_queue_depth'
  BY <1>1, <1>2, <1>3, <1>4, <1>5, <1>6, SizeAssumption DEF Index
<1>8. Len(pending) + 1 \in 1 .. LEDGER_QUEUE_SIZE
  BY <1>2, <1>5, SizeAssumption DEF Index
<1>9. Mask(tail + (Len(pending) + 1) - 1) = head
  <2>1. Mask(tail + (Len(pending) + 1) - 1)
          = IF tail + (Len(pending) + 1) - 1 < LEDGER_QUEUE_SIZE
            THEN tail + (Len(pending) + 1) - 1
            ELSE tail + (Len(pending) + 1) - 1 - LEDGER_QUEUE_SIZE
    BY <1>5, <1>8, PlaceValue
  <2>2. QED
    BY <1>2, <1>5, <2>1, SizeAssumption DEF Index
<1>10. ASSUME NEW i \in 1 .. Len(pending')
       PROVE  events'[Mask(tail' + i - 1)] = pending'[i]
  <2>1. CASE i \in 1 .. Len(pending)
    <3>1. pending'[i] = pending[i]
      BY <1>1, <1>5, <2>1
    <3>2. QED
      BY <1>5, <2>1, <3>1 DEF IInv, RingHoldsPending
  <2>2. CASE i = Len(pending) + 1
    BY <1>1, <1>5, <1>9, <2>2
  <2>3. QED
    BY <1>5, <1>6, <2>1, <2>2
<1>11. QED
  BY <1>7, <1>10 DEF RingHoldsPending

(* The event that the consumer has copied is the oldest pending one. *)
LEMMA CopiedIsOldest ==
  ASSUME IInv, cpc = "advance"
  PROVE  pending # << >> /\ cev = Head(pending)
<1>1. ctail = tail /\ tail # head /\ cev = events[tail]
  BY DEF IInv, ConsumerInv
<1>2. Len(pending) = IF tail <= head THEN head - tail
                     ELSE head - tail + LEDGER_QUEUE_SIZE
  BY DepthValue DEF IInv, RingHoldsPending
<1>3. pending \in Seq(Event) /\ head \in Index /\ tail \in Index
  BY DEF IInv, TypeOK
<1>4. 1 \in 1 .. Len(pending) /\ 1 \in 1 .. LEDGER_QUEUE_SIZE
  BY <1>1, <1>2, <1>3, SizeAssumption DEF Index
<1>5. Mask(tail + 1 - 1) = tail
  <2>1. Mask(tail + 1 - 1) = IF tail + 1 - 1 < LEDGER_QUEUE_SIZE THEN tail + 1 - 1
                             ELSE tail + 1 - 1 - LEDGER_QUEUE_SIZE
    BY <1>3, <1>4, PlaceValue
  <2>2. QED
    BY <1>3, <2>1, SizeAssumption DEF Index
<1>6. events[Mask(tail + 1 - 1)] = pending[1]
  BY <1>4 DEF IInv, RingHoldsPending
<1>7. QED
  BY <1>1, <1>3, <1>4, <1>5, <1>6

(* Releasing the slot removes exactly the oldest pending event. *)
LEMMA AdvanceTailKeepsRing ==
  ASSUME IInv, PopAdvance, TypeOK'
  PROVE  RingHoldsPending'
<1> USE DEF PopAdvance
<1>1. ctail = tail /\ tail # head
  BY DEF IInv, ConsumerInv
<1>2. Len(pending) = IF tail <= head THEN head - tail
                     ELSE head - tail + LEDGER_QUEUE_SIZE
  BY DepthValue DEF IInv, RingHoldsPending
<1>3. ledger_queue_depth' = IF tail' <= head' THEN head' - tail'
                            ELSE head' - tail' + LEDGER_QUEUE_SIZE
  <2>1. /\ head' - tail' \in Int
        /\ -LEDGER_QUEUE_SIZE < head' - tail'
        /\ head' - tail' < 2 * LEDGER_QUEUE_SIZE
    BY SizeAssumption DEF TypeOK, Index
  <2>2. QED
    BY <2>1, MaskValue, SizeAssumption DEF ledger_queue_depth, TypeOK, Index
<1>4. pending \in Seq(Event) /\ head \in Index /\ tail \in Index /\ head' = head
  BY DEF IInv, TypeOK, producer
<1>5. tail' = IF tail + 1 = LEDGER_QUEUE_SIZE THEN 0 ELSE tail + 1
  BY <1>1, <1>4, MaskSucc
<1>6. pending' = Tail(pending) /\ Len(pending') = Len(pending) - 1 /\ pending # << >>
  BY <1>4, CopiedIsOldest
<1>7. Len(pending') = ledger_queue_depth'
  BY <1>1, <1>2, <1>3, <1>4, <1>5, <1>6, SizeAssumption DEF Index
<1>8. ASSUME NEW i \in 1 .. Len(pending')
      PROVE  events'[Mask(tail' + i - 1)] = pending'[i]
  <2>1. i + 1 \in 1 .. Len(pending) /\ pending'[i] = pending[i + 1]
    BY <1>4, <1>6
  <2>2. i \in 1 .. LEDGER_QUEUE_SIZE /\ i + 1 \in 1 .. LEDGER_QUEUE_SIZE
    BY <1>2, <1>4, <2>1, SizeAssumption DEF Index
  <2>3. tail' \in Index
    BY DEF TypeOK
  <2>4. Mask(tail' + i - 1) = IF tail' + i - 1 < LEDGER_QUEUE_SIZE THEN tail' + i - 1
                              ELSE tail' + i - 1 - LEDGER_QUEUE_SIZE
    BY <2>2, <2>3, PlaceValue
  <2>5. Mask(tail + (i + 1) - 1) = IF tail + (i + 1) - 1 < LEDGER_QUEUE_SIZE
                                   THEN tail + (i + 1) - 1
                                   ELSE tail + (i + 1) - 1 - LEDGER_QUEUE_SIZE
    BY <1>4, <2>2, PlaceValue
  <2>6. Mask(tail' + i - 1) = Mask(tail + (i + 1) - 1)
    BY <1>4, <1>5, <2>2, <2>4, <2>5, SizeAssumption DEF Index
  <2>7. events[Mask(tail + (i + 1) - 1)] = pending[i + 1]
    BY <2>1 DEF IInv, RingHoldsPending
  <2>8. QED
    BY <2>1, <2>6, <2>7
<1>9. QED
  BY <1>7, <1>8 DEF RingHoldsPending

LEMMA StepIInv == IInv /\ [Next]_vars => IInv'
<1> SUFFICES ASSUME IInv, [Next]_vars PROVE IInv'
  OBVIOUS
<1> USE DEF ring, producer, consumer
<1>1. ASSUME NEW e \in Event, PushReadHead(e) PROVE IInv'
  <2>1. TypeOK'
    BY <1>1, MaskSucc DEF IInv, TypeOK, PushReadHead
  <2>2. ProducerInv' /\ ConsumerInv'
    BY <1>1 DEF IInv, ProducerInv, ConsumerInv, PushReadHead
  <2>3. QED
    BY <1>1, <2>1, <2>2, RingUntouched DEF IInv, PushReadHead
<1>2. CASE PushFull
  <2>1. TypeOK'
    BY <1>2 DEF IInv, TypeOK, PushFull
  <2>2. ProducerInv' /\ ConsumerInv'
    BY <1>2 DEF IInv, ProducerInv, ConsumerInv, PushFull
  <2>3. QED
    BY <1>2, <2>1, <2>2, RingUntouched DEF IInv, PushFull
<1>3. CASE PushRoom
  <2>1. TypeOK'
    BY <1>3 DEF IInv, TypeOK, PushRoom
  <2>2. ProducerInv' /\ ConsumerInv'
    BY <1>3 DEF IInv, ProducerInv, ConsumerInv, PushRoom
  <2>3. QED
    BY <1>3, <2>1, <2>2, RingUntouched DEF IInv, PushRoom
<1>4. CASE PushCopyBegin
  <2>1. TypeOK'
    BY <1>4 DEF IInv, TypeOK, PushCopyBegin, Slot
  <2>2. ProducerInv' /\ ConsumerInv'
    BY <1>4 DEF IInv, TypeOK, ProducerInv, ConsumerInv, PushCopyBegin
  <2>3. phead = head
    BY <1>4 DEF IInv, ProducerInv, PushCopyBegin
  <2>4. QED
    BY <1>4, <2>1, <2>2, <2>3, CopyKeepsRing DEF IInv, PushCopyBegin
<1>5. CASE PushCopyEnd
  <2>1. TypeOK'
    BY <1>5 DEF IInv, TypeOK, ProducerInv, PushCopyEnd, Slot
  <2>2. ProducerInv' /\ ConsumerInv'
    BY <1>5 DEF IInv, TypeOK, ProducerInv, ConsumerInv, PushCopyEnd
  <2>3. phead = head
    BY <1>5 DEF IInv, ProducerInv, PushCopyEnd
  <2>4. QED
    BY <1>5, <2>1, <2>2, <2>3, CopyKeepsRing DEF IInv, PushCopyEnd
<1>6. CASE PushAdvance
  <2>1. phead = head /\ pnext = Mask(head + 1) /\ pnext # tail /\ pev \in Event
    BY <1>6 DEF IInv, ProducerInv, PushAdvance
  <2>2. TypeOK'
    <3>1. pushed' \in (Event \cup {Zero}) \X BOOLEAN
      BY <1>6, <2>1 DEF PushAdvance
    <3>2. pending' \in Seq(Event)
      BY <1>6, <2>1 DEF IInv, TypeOK, PushAdvance
    <3>3. QED
      BY <1>6, <3>1, <3>2 DEF IInv, TypeOK, PushAdvance
  <2>3. ProducerInv' /\ ConsumerInv'
    BY <1>6, <2>1 DEF IInv, TypeOK, ProducerInv, ConsumerInv, PushAdvance
  <2>4. QED
    BY <1>6, <2>2, <2>3, AdvanceHeadKeepsRing DEF IInv
<1>7. CASE PopReadTail
  <2>1. TypeOK'
    BY <1>7 DEF IInv, TypeOK, PopReadTail
  <2>2. ProducerInv' /\ ConsumerInv'
    BY <1>7 DEF IInv, ProducerInv, ConsumerInv, PopReadTail
  <2>3. QED
    BY <1>7, <2>1, <2>2, RingUntouched DEF IInv, PopReadTail
<1>8. CASE PopEmpty
  <2>1. TypeOK'
    BY <1>8 DEF IInv, TypeOK, PopEmpty, Slot
  <2>2. ProducerInv' /\ ConsumerInv'
    BY <1>8 DEF IInv, ProducerInv, ConsumerInv, PopEmpty
  <2>3. QED
    BY <1>8, <2>1, <2>2, RingUntouched DEF IInv, PopEmpty
<1>9. CASE PopSome
  <2>1. TypeOK'
    BY <1>9 DEF IInv, TypeOK, PopSome
  <2>2. ProducerInv' /\ ConsumerInv'
    BY <1>9 DEF IInv, ProducerInv, ConsumerInv, PopSome
  <2>3. QED
    BY <1>9, <2>1, <2>2, RingUntouched DEF IInv, PopSome
<1>10. CASE PopCopyBegin
  <2>1. TypeOK'
    BY <1>10 DEF IInv, TypeOK, PopCopyBegin
  <2>2. ProducerInv' /\ ConsumerInv'
    BY <1>10 DEF IInv, ProducerInv, ConsumerInv, PopCopyBegin
  <2>3. QED
    BY <1>10, <2>1, <2>2, RingUntouched DEF IInv, PopCopyBegin
<1>11. CASE PopCopyEnd
  <2>1. cev' = cev
    BY <1>11 DEF IInv, ConsumerInv, PopCopyEnd
  <2>2. TypeOK'
    BY <1>11, <2>1 DEF IInv, TypeOK, PopCopyEnd
  <2>3. ProducerInv' /\ ConsumerInv'
    BY <1>11, <2>1 DEF IInv, ProducerInv, ConsumerInv, PopCopyEnd
  <2>4. QED
    BY <1>11, <2>2, <2>3, RingUntouched DEF IInv, PopCopyEnd
<1>12. CASE PopAdvance
  <2>1. ctail = tail /\ tail # head /\ pending \in Seq(Event)
    BY <1>12 DEF IInv, TypeOK, ConsumerInv, PopAdvance
  <2>2. tail' \in Index /\ tail' = IF tail + 1 = LEDGER_QUEUE_SIZE THEN 0 ELSE tail + 1
    BY <1>12, <2>1, MaskSucc DEF IInv, TypeOK, PopAdvance
  <2>3. pending' \in Seq(Event)
    BY <1>12, <2>1 DEF PopAdvance
  <2>4. TypeOK'
    BY <1>12, <2>2, <2>3 DEF IInv, TypeOK, PopAdvance
  <2>5. pnext = Mask(head + 1) => pnext # tail'
    <3>1. Mask(head + 1) = IF head + 1 = LEDGER_QUEUE_SIZE THEN 0 ELSE head + 1
      BY MaskSucc DEF IInv, TypeOK
    <3>2. QED
      BY <2>1, <2>2, <3>1, SizeAssumption DEF IInv, TypeOK, Index
  <2>6. ProducerInv' /\ ConsumerInv'
    BY <1>12, <2>5 DEF IInv, ProducerInv, ConsumerInv, PopAdvance
  <2>7. QED
    BY <1>12, <2>4, <2>6, AdvanceTailKeepsRing DEF IInv
<1>13. CASE UNCHANGED vars
  <2>1. TypeOK' /\ ProducerInv' /\ ConsumerInv'
    BY <1>13 DEF IInv, TypeOK, ProducerInv, ConsumerInv, vars
  <2>2. QED
    BY <1>13, <2>1, RingUntouched DEF IInv, vars
<1>14. QED
  BY <1>1, <1>2, <1>3, <1>4, <1>5, <1>6, <1>7, <1>8, <1>9, <1>10, <1>11,
     <1>12, <1>13 DEF Next, Push, Pop

LEMMA Inductive == Spec => []IInv
BY InitIInv, StepIInv, PTL DEF Spec

(* Every variable of push and pop keeps its type; in particular head, tail *)
(* and the local copies of them never leave the ring.                      *)
THEOREM QueueTypeCorrect == Spec => []TypeOK
<1>1. IInv => TypeOK
  BY DEF IInv
<1>2. QED
  BY <1>1, Inductive, PTL

(* The ring holds exactly the accepted, not yet popped events, in order.   *)
THEOREM QueueRingCorrect == Spec => []RingHoldsPending
<1>1. IInv => RingHoldsPending
  BY DEF IInv
<1>2. QED
  BY <1>1, Inductive, PTL

(* Without a lock, the two copies of an event never meet in a slot.        *)
THEOREM QueueCopiesDisjoint == Spec => []CopiesDisjoint
<1>1. IInv => CopiesDisjoint
  BY DEF IInv, ProducerInv, ConsumerInv, CopiesDisjoint
<1>2. QED
  BY <1>1, Inductive, PTL

(* Push and pop implement the bounded FIFO: an event is refused only with  *)
(* all usable slots taken, and pops return the accepted events, whole, in  *)
(* order.                                                                  *)
THEOREM QueueImplementsFifo == Spec => FifoSafe
<1> USE DEF ring, producer, consumer, Fifo!fifoVars
<1>1. Init => Fifo!Init
  BY DEF Init, Fifo!Init
<1>2. IInv /\ [Next]_vars => [Fifo!Next]_(Fifo!fifoVars)
  <2> SUFFICES ASSUME IInv, [Next]_vars
               PROVE  Fifo!Next \/ UNCHANGED Fifo!fifoVars
    OBVIOUS
  <2>0. Len(pending) = IF tail <= head THEN head - tail
                       ELSE head - tail + LEDGER_QUEUE_SIZE
    BY DepthValue DEF IInv, RingHoldsPending
  <2>1. pending \in Seq(Event) /\ head \in Index /\ tail \in Index
    BY DEF IInv, TypeOK
  <2>2. Mask(head + 1) = IF head + 1 = LEDGER_QUEUE_SIZE THEN 0 ELSE head + 1
    BY <2>1, MaskSucc
  <2>3. CASE PushFull
    <3>1. pnext = Mask(head + 1) /\ pnext = tail /\ pev \in Event
      BY <2>3 DEF IInv, ProducerInv, PushFull
    <3>2. Len(pending) = LEDGER_QUEUE_SIZE - 1
      BY <2>0, <2>1, <2>2, <3>1, SizeAssumption DEF Index
    <3>3. Fifo!Refuse(pev)
      BY <2>3, <3>2 DEF PushFull, Fifo!Refuse
    <3>4. QED
      BY <3>1, <3>3 DEF Fifo!Next
  <2>4. CASE PushAdvance
    <3>1. pnext = Mask(head + 1) /\ pnext # tail /\ pev \in Event
      BY <2>4 DEF IInv, ProducerInv, PushAdvance
    <3>2. Len(pending) < LEDGER_QUEUE_SIZE - 1
      BY <2>0, <2>1, <2>2, <3>1, SizeAssumption DEF Index
    <3>3. Fifo!Accept(pev)
      BY <2>4, <3>2 DEF PushAdvance, Fifo!Accept
    <3>4. QED
      BY <3>1, <3>3 DEF Fifo!Next
  <2>5. CASE PopEmpty
    <3>1. head = tail
      BY <2>5 DEF IInv, ConsumerInv, PopEmpty
    <3>2. pending = << >>
      BY <2>0, <2>1, <3>1 DEF Index
    <3>3. Fifo!FindEmpty
      BY <2>5, <3>2 DEF PopEmpty, Fifo!FindEmpty
    <3>4. QED
      BY <3>3 DEF Fifo!Next
  <2>6. CASE PopAdvance
    <3>1. pending # << >> /\ cev = Head(pending)
      BY <2>6, CopiedIsOldest DEF PopAdvance
    <3>2. Fifo!HandOut
      BY <2>6, <3>1 DEF PopAdvance, Fifo!HandOut
    <3>3. QED
      BY <3>2 DEF Fifo!Next
  <2>7. CASE \/ \E e \in Event : PushReadHead(e)
             \/ PushRoom \/ PushCopyBegin \/ PushCopyEnd
             \/ PopReadTail \/ PopSome \/ PopCopyBegin \/ PopCopyEnd
             \/ UNCHANGED vars
    BY <2>7 DEF PushReadHead, PushRoom, PushCopyBegin, PushCopyEnd,
                PopReadTail, PopSome, PopCopyBegin, PopCopyEnd, vars
  <2>8. QED
    BY <2>3, <2>4, <2>5, <2>6, <2>7 DEF Next, Push, Pop
<1>3. QED
  BY <1>1, <1>2, Inductive, PTL DEF Spec, FifoSafe, Fifo!Spec
=============================================================================
