---------------------------- MODULE LedgerProofs ----------------------------
(***************************************************************************)
(* For every size of the ring and of the block array, every payload and    *)
(* every digest function: until the array overflows, the ledger records    *)
(* the accepted events in order and ledger_verify_chain rejects it only    *)
(* if a block was changed.  Nothing is assumed of the digest but that it   *)
(* is a function of the hashed bytes; that it accepts no changed block     *)
(* needs one more hypothesis, DamageChangesDigest.                         *)
(***************************************************************************)
EXTENDS Ledger, TLAPS

(* A finalized, unchanged block carries the digest of its other fields. *)
SelfHashed ==
  \A i \in 0 .. count - 1 :
    i \notin altered => blocks[i].block_hash = Sha256(Hashed(blocks[i]))

(* Before the overflow the stream heads and the changed blocks are         *)
(* finalized ones, and the parent each block names comes before it.        *)
ParentsEarlier ==
  ~rolled =>
    /\ \A s \in Stream : stream_head[s] < count
    /\ altered \subseteq 0 .. count - 1
    /\ \A i \in 1 .. count - 1 : ParentFound(i)

(* An interrupted verification still holds the digest of the block it is   *)
(* at: appending leaves that block alone.                                  *)
VerifierInv ==
  /\ vpc # "idle" => vi >= 1
  /\ vpc = "compare" => vi < LEDGER_MAX_BLOCKS
  /\ vpc = "compare" /\ ~rolled =>
       /\ vi < count
       /\ vhash = Sha256(Hashed(blocks[vi]))

IInv == /\ TypeOK /\ SelfHashed /\ ParentsEarlier /\ VerifierInv
        /\ RejectHasCause

(* The digest does not cover itself: sealing a block leaves what is hashed. *)
LEMMA SealedHash ==
  ASSUME NEW b, IsBlock(b)
  PROVE  /\ IsBlock(Sealed(b))
         /\ Hashed(Sealed(b)) = Hashed(b)
         /\ Sealed(b).block_hash = Sha256(Hashed(Sealed(b)))
         /\ Sealed(b).index = b.index
         /\ Sealed(b).what = b.what
         /\ Sealed(b).stream = b.stream
         /\ Sealed(b).parent_count = b.parent_count
         /\ Sealed(b).prev_hash = b.prev_hash
<1>1. Sealed(b) = [index |-> b.index, what |-> b.what, stream |-> b.stream,
                   parent_count |-> b.parent_count, prev_hash |-> b.prev_hash,
                   block_hash |-> Sha256(Hashed(b))]
  BY DEF Sealed, IsBlock
<1>2. Hashed(Sealed(b)) = Hashed(b)
  BY <1>1 DEF Hashed
<1>3. QED
  BY <1>1, <1>2 DEF IsBlock

(* What NewBlock puts into a slot that is no stream's head. *)
LEMMA NewBlockFields ==
  ASSUME TypeOK, NEW e \in Event, NEW c \in BlockIndex
  PROVE  /\ IsBlock(NewBlock(e, c))
         /\ NewBlock(e, c).block_hash = Sha256(Hashed(NewBlock(e, c)))
         /\ NewBlock(e, c).index = c
         /\ NewBlock(e, c).what = e.what
         /\ NewBlock(e, c).stream = e.stream
         /\ NewBlock(e, c).parent_count
              = IF stream_head[0] # stream_head[1] THEN 2 ELSE 1
         /\ stream_head[e.stream] # c =>
              NewBlock(e, c).prev_hash[0] = blocks[stream_head[e.stream]].block_hash
         /\ stream_head[0] # stream_head[1] /\ stream_head[1 - e.stream] # c =>
              NewBlock(e, c).prev_hash[1] = blocks[stream_head[1 - e.stream]].block_hash
<1> DEFINE hashOf(i) == IF i = c THEN ZeroHash ELSE blocks[i].block_hash
           diverged == stream_head[0] # stream_head[1]
           prev == [p \in Stream |->
                 IF p = 0 THEN hashOf(stream_head[e.stream])
                 ELSE IF diverged THEN hashOf(stream_head[1 - e.stream])
                 ELSE ZeroHash]
           raw == [index |-> c, what |-> e.what, stream |-> e.stream,
                   parent_count |-> IF diverged THEN 2 ELSE 1,
                   prev_hash |-> prev, block_hash |-> ZeroHash]
<1>1. NewBlock(e, c) = Sealed(raw)
  BY DEF NewBlock
<1>2. /\ DOMAIN prev = Stream /\ prev[0] = hashOf(stream_head[e.stream])
      /\ diverged => prev[1] = hashOf(stream_head[1 - e.stream])
  BY DEF Stream
<1>3. e.stream \in Stream
  BY DEF Event
<1> HIDE DEF prev
<1>4. IsBlock(raw)
  BY <1>2, <1>3 DEF IsBlock
<1>5. /\ raw.index = c /\ raw.what = e.what /\ raw.stream = e.stream
      /\ raw.prev_hash = prev /\ raw.parent_count = IF diverged THEN 2 ELSE 1
  OBVIOUS
<1> HIDE DEF raw
<1>6. QED
  BY <1>1, <1>2, <1>4, <1>5, SealedHash

LEMMA InitIInv == Init => IInv
<1> SUFFICES ASSUME Init PROVE IInv
  OBVIOUS
<1>1. IsBlock(ZeroBlock) /\ ZeroBlock.index = 0
  BY DEF IsBlock, ZeroBlock, Stream
<1>2. IsBlock(Genesis) /\ Genesis.index = 0 /\ Genesis.block_hash = Sha256(Hashed(Genesis))
  BY <1>1, SealedHash DEF Genesis
<1>3. 0 \in BlockIndex /\ blocks[0] = Genesis /\ 1 \in 1 .. LEDGER_MAX_BLOCKS
  BY BlocksAssumption DEF Init, BlockIndex
<1>4. TypeOK
  <2>1. \A i \in BlockIndex : IsBlock(blocks[i]) /\ blocks[i].index \in {0, i}
    BY <1>1, <1>2 DEF Init
  <2>2. /\ queue \in Seq(Event) /\ Len(queue) <= QueueCapacity
        /\ accepted \in Seq(Event)
    BY CapacityAssumption DEF Init, Q!Init
  <2>3. blocks = [i \in BlockIndex |-> blocks[i]]
    BY DEF Init
  <2>4. /\ count \in 1 .. LEDGER_MAX_BLOCKS /\ head_idx \in BlockIndex
        /\ stream_head \in [Stream -> BlockIndex]
        /\ vi \in 0 .. LEDGER_MAX_BLOCKS
    BY <1>3, BlocksAssumption DEF Init
  <2>5. QED
    BY <2>1, <2>2, <2>3, <2>4, Zenon DEF Init, TypeOK
<1>5. SelfHashed /\ ParentsEarlier
  BY <1>2, <1>3 DEF Init, SelfHashed, ParentsEarlier, Stream
<1>6. QED
  BY <1>4, <1>5 DEF Init, IInv, VerifierInv, RejectHasCause

(* Steps that leave the blocks, the streams and the verification alone. *)
LEMMA ChainUntouched ==
  ASSUME IInv, TypeOK', UNCHANGED <<chain, verifier, rolled, altered>>
  PROVE  IInv'
<1>1. SelfHashed' /\ ParentsEarlier'
  BY DEF IInv, SelfHashed, ParentsEarlier, ParentFound, chain
<1>2. VerifierInv' /\ RejectHasCause'
  BY DEF IInv, VerifierInv, RejectHasCause, chain, verifier
<1>3. QED
  BY <1>1, <1>2 DEF IInv

(* Steps of the verification leave the ledger alone. *)
LEMMA VerifierOnly ==
  ASSUME IInv, UNCHANGED <<fifo, chain, flushing, accepted, rolled, altered>>,
         vpc' \in {"idle", "hash", "compare"}, vi' \in 0 .. LEDGER_MAX_BLOCKS,
         verdict' \in {"none", "valid", "tampered"},
         VerifierInv', RejectHasCause'
  PROVE  IInv'
<1>1. TypeOK'
  BY DEF IInv, TypeOK, fifo, chain
<1>2. SelfHashed' /\ ParentsEarlier'
  BY DEF IInv, SelfHashed, ParentsEarlier, ParentFound, chain
<1>3. QED
  BY <1>1, <1>2 DEF IInv

(* Finalizing a block into slot c keeps the types. *)
LEMMA FinalizeTypes ==
  ASSUME IInv, NEW e \in Event, NEW c \in 1 .. LEDGER_MAX_BLOCKS - 1, Finalize(e, c),
         queue' \in Seq(Event), Len(queue') <= QueueCapacity, rolled' \in BOOLEAN,
         UNCHANGED <<flushing, verifier, accepted>>
  PROVE  TypeOK'
<1>1. c \in BlockIndex /\ c + 1 \in 1 .. LEDGER_MAX_BLOCKS /\ e.stream \in Stream
  BY BlocksAssumption DEF BlockIndex, Event
<1>2. TypeOK
  BY DEF IInv
<1>3. blocks' = [i \in BlockIndex |-> blocks'[i]]
  BY <1>2 DEF TypeOK, Finalize
<1>4. ASSUME NEW i \in BlockIndex
      PROVE  IsBlock(blocks'[i]) /\ blocks'[i].index \in {0, i}
  <2>1. blocks'[i] = IF i = c THEN NewBlock(e, c) ELSE blocks[i]
    BY <1>2 DEF TypeOK, Finalize
  <2>2. CASE i = c
    BY <1>1, <1>2, <2>1, <2>2, NewBlockFields
  <2>3. CASE i # c
    BY <1>2, <2>1, <2>3 DEF TypeOK
  <2>4. QED
    BY <2>2, <2>3
<1>5. /\ count' \in 1 .. LEDGER_MAX_BLOCKS /\ head_idx' \in BlockIndex
      /\ stream_head' \in [Stream -> BlockIndex]
      /\ altered' \subseteq BlockIndex
  BY <1>1, <1>2 DEF TypeOK, Finalize
<1>6. QED
  BY <1>2, <1>3, <1>4, <1>5 DEF TypeOK, verifier

(* Every block below c keeps its place and its contents. *)
LEMMA FinalizeFrame ==
  ASSUME TypeOK, NEW e \in Event, NEW c \in BlockIndex, Finalize(e, c)
  PROVE  /\ blocks'[c] = NewBlock(e, c)
         /\ \A i \in BlockIndex : i # c => blocks'[i] = blocks[i]
         /\ \A s \in Stream : stream_head'[s] = IF s = e.stream THEN c ELSE stream_head[s]
         /\ count' = c + 1 /\ head_idx' = c /\ altered' = altered \ {c}
BY DEF TypeOK, Finalize

(* Appending at ledger_count: the block goes on top of finalized ones. *)
LEMMA AppendKeepsIInv ==
  ASSUME IInv, FlushOne
  PROVE  IInv'
<1>1. TypeOK /\ count \in 1 .. LEDGER_MAX_BLOCKS - 1 /\ count \in BlockIndex
  BY BlocksAssumption DEF IInv, TypeOK, FlushOne, BlockIndex
<1>2. PICK e \in Event : e = Head(queue) /\ Finalize(e, count)
  <2>1. queue \in Seq(Event) /\ queue # << >>
    BY <1>1 DEF TypeOK, FlushOne, Q!HandOut
  <2>2. Head(queue) \in Event
    BY <2>1
  <2>3. QED
    BY <2>2 DEF FlushOne
<1>3. TypeOK'
  <2>1. queue' \in Seq(Event) /\ Len(queue') <= QueueCapacity
    BY <1>1, CapacityAssumption DEF TypeOK, FlushOne, Q!HandOut
  <2>2. rolled' \in BOOLEAN /\ UNCHANGED <<flushing, verifier, accepted>>
    BY <1>1 DEF TypeOK, FlushOne
  <2>3. QED
    BY <1>1, <1>2, <2>1, <2>2, FinalizeTypes
<1>4. /\ blocks'[count] = NewBlock(e, count)
      /\ \A i \in BlockIndex : i # count => blocks'[i] = blocks[i]
      /\ \A s \in Stream : stream_head'[s] = IF s = e.stream THEN count ELSE stream_head[s]
      /\ count' = count + 1 /\ altered' = altered \ {count}
  BY <1>1, <1>2, FinalizeFrame
<1>5. \A i \in 0 .. count : i \in BlockIndex
  BY <1>1, BlocksAssumption DEF BlockIndex
<1>6. SelfHashed'
  <2> SUFFICES ASSUME NEW i \in 0 .. count, i \notin altered'
               PROVE  blocks'[i].block_hash = Sha256(Hashed(blocks'[i]))
    BY <1>1, <1>4 DEF SelfHashed, Hashed
  <2>1. CASE i = count
    BY <1>1, <1>4, <2>1, NewBlockFields
  <2>2. CASE i # count
    <3>1. i \in 0 .. count - 1 /\ i \notin altered
      BY <1>1, <1>4, <2>2
    <3>2. QED
      BY <1>4, <1>5, <2>2, <3>1 DEF IInv, SelfHashed
  <2>3. QED
    BY <2>1, <2>2
<1>7. ParentsEarlier'
  <2> SUFFICES ASSUME ~rolled'
               PROVE  /\ \A s \in Stream : stream_head'[s] < count'
                      /\ altered' \subseteq 0 .. count' - 1
                      /\ \A i \in 1 .. count' - 1 : ParentFound(i)'
    BY DEF ParentsEarlier
  <2>1. ~rolled
    BY DEF FlushOne
  <2>2. /\ \A s \in Stream : stream_head[s] < count /\ stream_head[s] \in BlockIndex
        /\ altered \subseteq 0 .. count - 1
        /\ \A i \in 1 .. count - 1 : ParentFound(i)
    BY <1>1, <2>1 DEF IInv, TypeOK, ParentsEarlier
  <2>3. \A s \in Stream : stream_head'[s] < count'
    BY <1>1, <1>4, <2>2 DEF BlockIndex
  <2>4. altered' \subseteq 0 .. count' - 1
    BY <1>1, <1>4, <2>2
  <2>5. ASSUME NEW i \in 1 .. count' - 1
        PROVE  ParentFound(i)'
    <3>1. CASE i = count
      <4>1. e.stream \in Stream
        BY DEF Event
      <4>2. /\ stream_head[e.stream] \in 0 .. count - 1
            /\ stream_head[e.stream] # count
        BY <1>1, <2>2, <4>1 DEF BlockIndex
      <4>3. blocks'[i].prev_hash[0] = blocks[stream_head[e.stream]].block_hash
        BY <1>1, <1>4, <3>1, <4>2, NewBlockFields
      <4>4. blocks'[stream_head[e.stream]] = blocks[stream_head[e.stream]]
        BY <1>4, <1>5, <2>2, <4>1, <4>2
      <4>5. QED
        BY <3>1, <4>2, <4>3, <4>4 DEF ParentFound
    <3>2. CASE i # count
      <4>1. i \in 1 .. count - 1
        BY <1>1, <1>4, <3>2
      <4>2. \A j \in 0 .. i : blocks'[j] = blocks[j]
        BY <1>1, <1>4, <1>5, <4>1
      <4>3. ParentFound(i)
        BY <2>2, <4>1
      <4>4. QED
        BY <4>1, <4>2, <4>3 DEF ParentFound
    <3>3. QED
      BY <3>1, <3>2
  <2>6. QED
    BY <2>3, <2>4, <2>5
<1>8. VerifierInv'
  <2>1. UNCHANGED <<vpc, vi, vhash, rolled>>
    BY DEF FlushOne, verifier
  <2>2. /\ vpc # "idle" => vi >= 1
        /\ vpc = "compare" => vi < LEDGER_MAX_BLOCKS
    BY DEF IInv, VerifierInv
  <2>3. ASSUME vpc = "compare", ~rolled
        PROVE  vi < count' /\ vhash = Sha256(Hashed(blocks'[vi]))
    <3>1. vi < count /\ vi >= 1 /\ vhash = Sha256(Hashed(blocks[vi]))
      BY <2>3 DEF IInv, VerifierInv
    <3>2. vi \in 0 .. count - 1 /\ vi # count
      BY <1>1, <3>1 DEF TypeOK
    <3>3. blocks'[vi] = blocks[vi]
      BY <1>1, <1>4, <1>5, <3>2
    <3>4. QED
      BY <1>1, <1>4, <3>1, <3>2, <3>3
  <2>4. QED
    BY <2>1, <2>2, <2>3 DEF VerifierInv, Hashed
<1>9. RejectHasCause'
  <2>1. verdict' = verdict /\ rolled' = rolled
    BY DEF FlushOne, verifier
  <2>2. ~rolled => count \notin altered
    BY <1>1 DEF IInv, ParentsEarlier
  <2>3. QED
    BY <1>4, <2>1, <2>2 DEF IInv, RejectHasCause
<1>10. QED
  BY <1>3, <1>6, <1>7, <1>8, <1>9 DEF IInv

(* Starting over at slot 1 keeps what is still claimed after an overflow. *)
LEMMA RolloverKeepsIInv ==
  ASSUME IInv, FlushOneRollover
  PROVE  IInv'
<1>1. /\ TypeOK /\ 1 \in 1 .. LEDGER_MAX_BLOCKS - 1
      /\ 0 \in BlockIndex /\ 1 \in BlockIndex
      /\ 0 \in 0 .. count - 1
  BY BlocksAssumption DEF IInv, TypeOK, BlockIndex
<1>2. PICK e \in Event : e = Head(queue) /\ Finalize(e, 1)
  <2>1. queue \in Seq(Event) /\ queue # << >>
    BY <1>1 DEF TypeOK, FlushOneRollover, Q!HandOut
  <2>2. Head(queue) \in Event
    BY <2>1
  <2>3. QED
    BY <2>2 DEF FlushOneRollover
<1>3. TypeOK'
  <2>1. queue' \in Seq(Event) /\ Len(queue') <= QueueCapacity
    BY <1>1, CapacityAssumption DEF TypeOK, FlushOneRollover, Q!HandOut
  <2>2. rolled' \in BOOLEAN /\ UNCHANGED <<flushing, verifier, accepted>>
    BY DEF FlushOneRollover
  <2>3. QED
    BY <1>1, <1>2, <2>1, <2>2, FinalizeTypes
<1>4. /\ blocks'[1] = NewBlock(e, 1) /\ blocks'[0] = blocks[0]
      /\ count' = 2 /\ altered' = altered \ {1}
  BY <1>1, <1>2, FinalizeFrame
<1>5. SelfHashed'
  <2> SUFFICES ASSUME NEW i \in 0 .. 1, i \notin altered'
               PROVE  blocks'[i].block_hash = Sha256(Hashed(blocks'[i]))
    BY <1>4 DEF SelfHashed, Hashed
  <2>1. CASE i = 1
    BY <1>1, <1>4, <2>1, NewBlockFields
  <2>2. CASE i = 0
    BY <1>1, <1>4, <2>2 DEF IInv, SelfHashed
  <2>3. QED
    BY <2>1, <2>2
<1>6. ParentsEarlier' /\ RejectHasCause'
  BY DEF FlushOneRollover, ParentsEarlier, RejectHasCause
<1>7. VerifierInv'
  BY DEF IInv, VerifierInv, FlushOneRollover, verifier
<1>8. QED
  BY <1>3, <1>5, <1>6, <1>7 DEF IInv

(* The fault changes a body: no digest and no parent reference moves, and  *)
(* the block is no longer claimed to be hashed.                            *)
LEMMA AlterKeepsIInv ==
  ASSUME IInv, NEW k \in BlockIndex, Alter(k)
  PROVE  IInv'
<1>1. TypeOK
  BY DEF IInv
<1>2. /\ blocks' = [i \in BlockIndex |-> blocks'[i]]
      /\ blocks'[k] = [blocks[k] EXCEPT !.what = Damaged]
      /\ \A i \in BlockIndex : i # k => blocks'[i] = blocks[i]
  BY <1>1 DEF TypeOK, Alter
<1>3. /\ IsBlock(blocks'[k])
      /\ blocks'[k].index = blocks[k].index
      /\ blocks'[k].parent_count = blocks[k].parent_count
      /\ blocks'[k].prev_hash = blocks[k].prev_hash
      /\ blocks'[k].block_hash = blocks[k].block_hash
  <2>1. IsBlock(blocks[k])
    BY <1>1 DEF TypeOK
  <2>2. QED
    BY <1>2, <2>1 DEF IsBlock
<1>4. TypeOK'
  <2>1. \A i \in BlockIndex : IsBlock(blocks'[i]) /\ blocks'[i].index \in {0, i}
    BY <1>1, <1>2, <1>3 DEF TypeOK
  <2>2. altered' \subseteq BlockIndex /\ verdict' \in {"none", "valid", "tampered"}
    BY DEF Alter
  <2>3. QED
    BY <1>1, <1>2, <2>1, <2>2 DEF TypeOK, Alter, fifo
<1>5. count \in 1 .. LEDGER_MAX_BLOCKS /\ count' = count /\ altered' = {k} /\ k < count
  BY <1>1 DEF TypeOK, Alter
<1>6. \A i \in 0 .. count - 1 : i \in BlockIndex
  BY <1>5, BlocksAssumption DEF BlockIndex
<1>7. SelfHashed'
  <2> SUFFICES ASSUME NEW i \in 0 .. count - 1, i # k
               PROVE  blocks'[i].block_hash = Sha256(Hashed(blocks'[i]))
    BY <1>5 DEF SelfHashed, Hashed
  <2>1. i \notin altered
    BY DEF Alter
  <2>2. QED
    BY <1>2, <1>6, <2>1 DEF IInv, SelfHashed
<1>8. ParentsEarlier'
  <2>1. \A i \in BlockIndex : /\ blocks'[i].parent_count = blocks[i].parent_count
                              /\ blocks'[i].prev_hash = blocks[i].prev_hash
                              /\ blocks'[i].block_hash = blocks[i].block_hash
    BY <1>2, <1>3
  <2>2. ASSUME NEW i \in 1 .. count - 1, ParentFound(i)
        PROVE  ParentFound(i)'
    <3>1. i \in 0 .. count - 1 /\ \A j \in 0 .. i - 1 : j \in 0 .. count - 1
      BY <1>5
    <3>2. QED
      BY <1>6, <2>1, <2>2, <3>1 DEF ParentFound
  <2>3. k \in 0 .. count - 1
    BY <1>5 DEF BlockIndex
  <2>4. QED
    BY <1>5, <2>2, <2>3 DEF IInv, ParentsEarlier, Alter
<1>9. VerifierInv' /\ RejectHasCause'
  BY DEF IInv, VerifierInv, RejectHasCause, Alter
<1>10. QED
  BY <1>4, <1>7, <1>8, <1>9 DEF IInv

LEMMA StepIInv == IInv /\ [Next]_vars => IInv'
<1> SUFFICES ASSUME IInv, [Next]_vars PROVE IInv'
  OBVIOUS
<1>1. ASSUME NEW e \in Event, EnqueueAccepted(e) PROVE IInv'
  <2>1. queue' \in Seq(Event) /\ Len(queue') <= QueueCapacity /\ accepted' \in Seq(Event)
    BY <1>1, CapacityAssumption DEF IInv, TypeOK, EnqueueAccepted, Q!Accept
  <2>2. TypeOK'
    BY <1>1, <2>1 DEF IInv, TypeOK, EnqueueAccepted, chain, verifier
  <2>3. QED
    BY <1>1, <2>2, ChainUntouched DEF EnqueueAccepted
<1>2. ASSUME NEW e \in Event, EnqueueDropped(e) PROVE IInv'
  <2>1. TypeOK'
    BY <1>2 DEF IInv, TypeOK, EnqueueDropped, Q!Refuse, chain, verifier
  <2>2. QED
    BY <1>2, <2>1, ChainUntouched DEF EnqueueDropped
<1>3. CASE FlushBegin
  <2>1. TypeOK'
    BY <1>3 DEF IInv, TypeOK, FlushBegin, fifo, chain, verifier
  <2>2. QED
    BY <1>3, <2>1, ChainUntouched DEF FlushBegin
<1>4. CASE FlushOne
  BY <1>4, AppendKeepsIInv
<1>5. CASE FlushOneRollover
  BY <1>5, RolloverKeepsIInv
<1>6. CASE FlushEnd
  <2>1. TypeOK'
    BY <1>6 DEF IInv, TypeOK, FlushEnd, Q!FindEmpty, chain, verifier
  <2>2. QED
    BY <1>6, <2>1, ChainUntouched DEF FlushEnd
<1>7. CASE VerifyBegin
  <2>1. VerifierInv' /\ RejectHasCause' /\ vi' \in 0 .. LEDGER_MAX_BLOCKS
    BY <1>7, BlocksAssumption DEF VerifyBegin, VerifierInv, RejectHasCause
  <2>2. QED
    BY <1>7, <2>1, VerifierOnly DEF VerifyBegin
<1>8. CASE VerifyHash
  <2>1. vi \in 0 .. LEDGER_MAX_BLOCKS /\ verdict \in {"none", "valid", "tampered"}
    BY DEF IInv, TypeOK
  <2>2. VerifierInv' /\ RejectHasCause'
    BY <1>8, BlocksAssumption DEF IInv, TypeOK, VerifyHash, VerifierInv,
                                  RejectHasCause, chain, Hashed
  <2>3. QED
    BY <1>8, <2>1, <2>2, VerifierOnly DEF VerifyHash
<1>9. CASE VerifyCompare
  <2>1. vi' \in 0 .. LEDGER_MAX_BLOCKS /\ verdict \in {"none", "valid", "tampered"}
    BY <1>9, BlocksAssumption DEF IInv, TypeOK, VerifierInv, VerifyCompare
  <2>2. VerifierInv' /\ RejectHasCause'
    BY <1>9 DEF IInv, TypeOK, VerifyCompare, VerifierInv, RejectHasCause
  <2>3. QED
    BY <1>9, <2>1, <2>2, VerifierOnly DEF VerifyCompare
<1>10. CASE VerifyReject
  <2>1. vi \in 0 .. LEDGER_MAX_BLOCKS /\ vi' = vi
    BY <1>10 DEF IInv, TypeOK, VerifyReject
  <2>2. rolled \/ altered # {}
    <3> SUFFICES ASSUME ~rolled, altered = {} PROVE FALSE
      OBVIOUS
    <3>1. vi >= 1 /\ vi < count /\ vhash = Sha256(Hashed(blocks[vi]))
      BY <1>10 DEF IInv, VerifierInv, VerifyReject
    <3>2. vi \in 0 .. count - 1 /\ vi \in 1 .. count - 1
      BY <2>1, <3>1 DEF IInv, TypeOK
    <3>3. vhash = blocks[vi].block_hash
      BY <3>1, <3>2 DEF IInv, SelfHashed
    <3>4. ParentFound(vi)
      BY <3>2 DEF IInv, ParentsEarlier
    <3>5. QED
      BY <1>10, <3>3, <3>4 DEF VerifyReject
  <2>3. VerifierInv' /\ RejectHasCause'
    BY <1>10, <2>2 DEF VerifyReject, VerifierInv, RejectHasCause
  <2>4. QED
    BY <1>10, <2>1, <2>3, VerifierOnly DEF VerifyReject
<1>11. CASE VerifyAccept
  <2>1. vi \in 0 .. LEDGER_MAX_BLOCKS /\ vi' = vi
    BY <1>11 DEF IInv, TypeOK, VerifyAccept
  <2>2. VerifierInv' /\ RejectHasCause'
    BY <1>11 DEF VerifyAccept, VerifierInv, RejectHasCause
  <2>3. QED
    BY <1>11, <2>1, <2>2, VerifierOnly DEF VerifyAccept
<1>12. ASSUME NEW k \in BlockIndex, Alter(k) PROVE IInv'
  BY <1>12, AlterKeepsIInv
<1>13. CASE UNCHANGED vars
  <2>1. TypeOK'
    BY <1>13 DEF IInv, TypeOK, vars
  <2>2. QED
    BY <1>13, <2>1, ChainUntouched DEF vars, chain, verifier
<1>14. QED
  BY <1>1, <1>2, <1>3, <1>4, <1>5, <1>6, <1>7, <1>8, <1>9, <1>10, <1>11,
     <1>12, <1>13 DEF Next, Verify

LEMMA Inductive == Spec => []IInv
BY InitIInv, StepIInv, PTL DEF Spec

(* The types of the ledger's state; in particular ledger_count and the     *)
(* stream heads stay inside the block array, overflow or not.              *)
THEOREM LedgerTypeCorrect == Spec => []TypeOK
<1>1. IInv => TypeOK
  BY DEF IInv
<1>2. QED
  BY <1>1, Inductive, PTL

(* ledger_verify_chain, interrupted by any number of flushes, rejects the  *)
(* ledger only after an overflow or a change of a block.                   *)
THEOREM LedgerRejectHasCause == Spec => []RejectHasCause
<1>1. IInv => RejectHasCause
  BY DEF IInv
<1>2. QED
  BY <1>1, Inductive, PTL

(* What an append does to the ledger before an overflow. *)
LEMMA AppendFrame ==
  ASSUME IInv, FlushOne, ~rolled
  PROVE  /\ queue \in Seq(Event) /\ queue # << >> /\ queue' = Tail(queue)
         /\ Head(queue) \in Event /\ Head(queue).stream \in Stream
         /\ count \in Nat /\ count >= 1 /\ count' = count + 1
         /\ blocks'[count] = NewBlock(Head(queue), count)
         /\ \A i \in 0 .. count - 1 : blocks'[i] = blocks[i]
         /\ \A s \in Stream : stream_head'[s] = IF s = Head(queue).stream THEN count
                                                ELSE stream_head[s]
         /\ altered' = altered /\ count \notin altered
         /\ count \in BlockIndex
<1>1. TypeOK /\ count \in BlockIndex /\ count \in 1 .. LEDGER_MAX_BLOCKS
  BY BlocksAssumption DEF IInv, TypeOK, FlushOne, BlockIndex
<1>2. queue \in Seq(Event) /\ queue # << >> /\ queue' = Tail(queue)
  BY <1>1 DEF TypeOK, FlushOne, Q!HandOut
<1>3. Head(queue) \in Event /\ Head(queue).stream \in Stream
  <2>1. Head(queue) \in Event
    BY <1>2
  <2>2. QED
    BY <2>1 DEF Event
<1>4. \A i \in 0 .. count - 1 : i \in BlockIndex /\ i # count
  BY <1>1, BlocksAssumption DEF BlockIndex
<1>5. Finalize(Head(queue), count)
  BY DEF FlushOne
<1>6. count \notin altered
  BY <1>1 DEF IInv, ParentsEarlier
<1>7. /\ blocks'[count] = NewBlock(Head(queue), count)
      /\ \A i \in BlockIndex : i # count => blocks'[i] = blocks[i]
      /\ \A s \in Stream : stream_head'[s] = IF s = Head(queue).stream THEN count
                                             ELSE stream_head[s]
      /\ count' = count + 1 /\ altered' = altered \ {count}
  BY <1>1, <1>3, <1>5, FinalizeFrame
<1>8. QED
  BY <1>1, <1>2, <1>3, <1>4, <1>6, <1>7

(* Until the overflow, finalized blocks stay as they are and ledger_count  *)
(* never goes back, whatever interrupts whatever.                          *)
THEOREM LedgerAppendOnly == Spec => AppendOnly
<1> DEFINE A == ~rolled' /\ altered' = altered =>
                  /\ count' >= count
                  /\ \A i \in 0 .. count - 1 : blocks'[i] = blocks[i]
<1>1. IInv /\ [Next]_vars => [A]_vars
  <2> SUFFICES ASSUME IInv, Next, ~rolled', altered' = altered
               PROVE  /\ count' >= count
                      /\ \A i \in 0 .. count - 1 : blocks'[i] = blocks[i]
    BY DEF vars
  <2>1. count \in Nat
    BY BlocksAssumption DEF IInv, TypeOK
  <2>2. CASE FlushOne
    <3>1. ~rolled
      BY <2>2 DEF FlushOne
    <3>2. QED
      BY <2>1, <2>2, <3>1, AppendFrame
  <2>3. CASE FlushOneRollover
    BY <2>3 DEF FlushOneRollover
  <2>4. ASSUME NEW k \in BlockIndex, Alter(k) PROVE FALSE
    BY <2>4 DEF Alter
  <2>5. CASE UNCHANGED chain
    BY <2>1, <2>5 DEF chain
  <2>6. QED
    BY <2>2, <2>3, <2>4, <2>5
       DEF Next, Verify, EnqueueAccepted, EnqueueDropped, FlushBegin, FlushEnd,
           VerifyBegin, VerifyHash, VerifyCompare, VerifyReject, VerifyAccept
<1>2. QED
  BY <1>1, Inductive, PTL DEF Spec, AppendOnly

(* Block k records the k-th accepted event, and the ring the rest: no      *)
(* accepted event is lost, doubled or reordered on its way to the ledger.  *)
THEOREM LedgerEventsInOrder == Spec => []EventsInOrder
<1>1. Init => EventsInOrder
  BY DEF Init, Q!Init, EventsInOrder
<1>2. IInv /\ EventsInOrder /\ [Next]_vars => EventsInOrder'
  <2> SUFFICES ASSUME IInv, EventsInOrder, [Next]_vars, ~rolled'
               PROVE  /\ Len(accepted') = (count' - 1) + Len(queue')
                      /\ \A k \in 1 .. count' - 1 :
                           /\ blocks'[k].stream = accepted'[k].stream
                           /\ k \notin altered' => blocks'[k].what = accepted'[k].what
                      /\ \A k \in 1 .. Len(queue') :
                           queue'[k] = accepted'[count' - 1 + k]
    BY DEF EventsInOrder
  <2>1. /\ queue \in Seq(Event) /\ accepted \in Seq(Event)
        /\ count \in Nat /\ count >= 1 /\ count <= LEDGER_MAX_BLOCKS
    BY BlocksAssumption DEF IInv, TypeOK
  <2>2. ~rolled
    BY DEF Next, Verify, EnqueueAccepted, EnqueueDropped, FlushBegin, FlushOne,
           FlushOneRollover, FlushEnd, VerifyBegin, VerifyHash, VerifyCompare,
           VerifyReject, VerifyAccept, Alter, vars
  <2>3. /\ Len(accepted) = (count - 1) + Len(queue)
        /\ \A k \in 1 .. count - 1 :
             /\ blocks[k].stream = accepted[k].stream
             /\ k \notin altered => blocks[k].what = accepted[k].what
        /\ \A k \in 1 .. Len(queue) : queue[k] = accepted[count - 1 + k]
    BY <2>2 DEF EventsInOrder
  <2>4. ASSUME NEW e \in Event, EnqueueAccepted(e)
        PROVE  /\ Len(accepted') = (count' - 1) + Len(queue')
               /\ \A k \in 1 .. count' - 1 :
                    /\ blocks'[k].stream = accepted'[k].stream
                    /\ k \notin altered' => blocks'[k].what = accepted'[k].what
               /\ \A k \in 1 .. Len(queue') :
                    queue'[k] = accepted'[count' - 1 + k]
    <3>1. /\ queue' = Append(queue, e) /\ accepted' = Append(accepted, e)
          /\ UNCHANGED <<blocks, count, altered>>
      BY <2>4 DEF EnqueueAccepted, Q!Accept, chain
    <3>2. /\ Len(accepted') = (count' - 1) + Len(queue')
          /\ \A k \in 1 .. count' - 1 : accepted'[k] = accepted[k]
      BY <2>1, <2>3, <3>1
    <3>3. ASSUME NEW k \in 1 .. Len(queue')
          PROVE  queue'[k] = accepted'[count' - 1 + k]
      <4>1. CASE k = Len(queue) + 1
        BY <2>1, <2>3, <3>1, <4>1
      <4>2. CASE k \in 1 .. Len(queue)
        <5>1. queue'[k] = queue[k] /\ queue[k] = accepted[count - 1 + k]
          BY <2>1, <2>3, <3>1, <4>2
        <5>2. count - 1 + k \in 1 .. Len(accepted)
          BY <2>1, <2>3, <4>2
        <5>3. accepted'[count - 1 + k] = accepted[count - 1 + k]
          BY <2>1, <3>1, <5>2
        <5>4. QED
          BY <3>1, <5>1, <5>3
      <4>3. Len(queue') = Len(queue) + 1 /\ Len(queue) \in Nat
        BY <2>1, <3>1
      <4>4. k = Len(queue) + 1 \/ k \in 1 .. Len(queue)
        BY <4>3
      <4>5. QED
        BY <4>1, <4>2, <4>4
    <3>4. QED
      BY <2>3, <3>1, <3>2, <3>3
  <2>5. CASE FlushOne
    <3> DEFINE e == Head(queue)
    <3>1. /\ queue # << >> /\ queue' = Tail(queue) /\ e \in Event
          /\ count' = count + 1 /\ count \in BlockIndex
          /\ blocks'[count] = NewBlock(e, count)
          /\ \A i \in 0 .. count - 1 : blocks'[i] = blocks[i]
          /\ altered' = altered /\ accepted' = accepted
      BY <2>2, <2>5, AppendFrame DEF FlushOne
    <3>2. blocks'[count].stream = e.stream /\ blocks'[count].what = e.what
      BY <3>1, NewBlockFields DEF IInv
    <3>3. e = queue[1] /\ queue[1] = accepted[count]
      <4>1. e = queue[1] /\ 1 \in 1 .. Len(queue)
        BY <2>1, <3>1
      <4>2. queue[1] = accepted[count - 1 + 1] /\ count - 1 + 1 = count
        BY <2>1, <2>3, <4>1
      <4>3. QED
        BY <4>1, <4>2
    <3>4. ASSUME NEW k \in 1 .. count' - 1
          PROVE  /\ blocks'[k].stream = accepted'[k].stream
                 /\ k \notin altered' => blocks'[k].what = accepted'[k].what
      <4>1. CASE k = count
        BY <3>1, <3>2, <3>3, <4>1
      <4>2. CASE k # count
        <5>1. k \in 1 .. count - 1 /\ blocks'[k] = blocks[k]
          BY <2>1, <3>1, <4>2
        <5>2. QED
          BY <2>3, <3>1, <5>1
      <4>3. QED
        BY <4>1, <4>2
    <3>5. ASSUME NEW k \in 1 .. Len(queue')
          PROVE  queue'[k] = accepted'[count' - 1 + k]
      <4>1. k + 1 \in 1 .. Len(queue) /\ queue'[k] = queue[k + 1]
        BY <2>1, <3>1
      <4>2. queue[k + 1] = accepted[count - 1 + (k + 1)]
        BY <2>3, <4>1
      <4>3. count' - 1 + k = count - 1 + (k + 1)
        BY <2>1, <3>1
      <4>4. QED
        BY <3>1, <4>1, <4>2, <4>3
    <3>6. Len(accepted') = (count' - 1) + Len(queue')
      BY <2>1, <2>3, <3>1
    <3>7. QED
      BY <3>4, <3>5, <3>6
  <2>6. ASSUME NEW j \in BlockIndex, Alter(j)
        PROVE  /\ Len(accepted') = (count' - 1) + Len(queue')
               /\ \A k \in 1 .. count' - 1 :
                    /\ blocks'[k].stream = accepted'[k].stream
                    /\ k \notin altered' => blocks'[k].what = accepted'[k].what
               /\ \A k \in 1 .. Len(queue') :
                    queue'[k] = accepted'[count' - 1 + k]
    <3>1. /\ UNCHANGED <<queue, accepted, count>> /\ altered = {} /\ altered' = {j}
      BY <2>6 DEF Alter, fifo
    <3>2. blocks = [i \in BlockIndex |-> blocks[i]] /\ IsBlock(blocks[j])
      BY DEF IInv, TypeOK
    <3>3. /\ \A i \in BlockIndex : i # j => blocks'[i] = blocks[i]
          /\ blocks'[j] = [blocks[j] EXCEPT !.what = Damaged]
      BY <2>6, <3>2 DEF Alter
    <3>4. blocks'[j].stream = blocks[j].stream
      BY <3>2, <3>3 DEF IsBlock
    <3>5. \A k \in 1 .. count - 1 : k \in BlockIndex
      BY <2>1, BlocksAssumption DEF BlockIndex
    <3>6. QED
      BY <2>3, <3>1, <3>3, <3>4, <3>5
  <2>7. CASE UNCHANGED <<queue, accepted, count, blocks, altered>>
    BY <2>3, <2>7
  <2>8. CASE FlushOneRollover
    BY <2>8 DEF FlushOneRollover
  <2>9. QED
    BY <2>4, <2>5, <2>6, <2>7, <2>8
       DEF Next, Verify, EnqueueDropped, FlushBegin, FlushEnd, Q!Refuse, Q!FindEmpty,
           VerifyBegin, VerifyHash, VerifyCompare, VerifyReject, VerifyAccept,
           vars, fifo, chain
<1>3. QED
  BY <1>1, <1>2, Inductive, PTL DEF Spec

(* The newest block is a stream's head, and every other block is a parent. *)
(* The first half is what makes the next block name the newest one, as its *)
(* own stream's head or as the other's.                                    *)
NewestInv ==
  ~rolled => /\ \E s \in Stream : stream_head[s] = count - 1
             /\ \A i \in 0 .. count - 2 :
                  \E j \in i + 1 .. count - 1, p \in Stream :
                    /\ p < blocks[j].parent_count
                    /\ blocks[j].prev_hash[p] = blocks[i].block_hash

(* The newest block commits to the whole history: until the overflow every *)
(* other finalized block is named as a parent by a later block.            *)
THEOREM LedgerNewestCoversHistory == Spec => []NewestCoversHistory
<1> DEFINE Covered(i) ==
      \E j \in i + 1 .. count - 1, p \in Stream :
        /\ p < blocks[j].parent_count
        /\ blocks[j].prev_hash[p] = blocks[i].block_hash
<1>0. NewestInv <=> (~rolled => /\ \E s \in Stream : stream_head[s] = count - 1
                                /\ \A i \in 0 .. count - 2 : Covered(i))
  BY DEF NewestInv
<1>1. Init => NewestInv
  BY DEF Init, NewestInv, Stream
<1>2. IInv /\ NewestInv /\ [Next]_vars => NewestInv'
  <2> SUFFICES ASSUME IInv, NewestInv, [Next]_vars, ~rolled'
               PROVE  /\ \E s \in Stream : stream_head'[s] = count' - 1
                      /\ \A i \in 0 .. count' - 2 : Covered(i)'
    BY DEF NewestInv
  <2>1. count \in Nat /\ count >= 1 /\ count <= LEDGER_MAX_BLOCKS /\ TypeOK
    BY BlocksAssumption DEF IInv, TypeOK
  <2>2. ~rolled
    BY DEF Next, Verify, EnqueueAccepted, EnqueueDropped, FlushBegin, FlushOne,
           FlushOneRollover, FlushEnd, VerifyBegin, VerifyHash, VerifyCompare,
           VerifyReject, VerifyAccept, Alter, vars
  <2>3. /\ \E s \in Stream : stream_head[s] = count - 1
        /\ \A i \in 0 .. count - 2 : Covered(i)
    BY <2>2, <1>0
  <2>4. CASE FlushOne
    <3> DEFINE e == Head(queue)
    <3>1. /\ e \in Event /\ e.stream \in Stream
          /\ count' = count + 1 /\ count \in BlockIndex
          /\ blocks'[count] = NewBlock(e, count)
          /\ \A i \in 0 .. count - 1 : blocks'[i] = blocks[i]
          /\ \A s \in Stream : stream_head'[s] = IF s = e.stream THEN count
                                                 ELSE stream_head[s]
      BY <2>2, <2>4, AppendFrame
    <3> HIDE DEF e
    <3>2. \A s \in Stream : stream_head[s] < count /\ stream_head[s] # count
      BY <2>1, <2>2 DEF IInv, ParentsEarlier, TypeOK, BlockIndex
    <3>3. ASSUME NEW i \in 0 .. count - 1, i = count - 1 PROVE Covered(i)'
      <4>1. blocks'[i] = blocks[i] /\ count \in i + 1 .. count' - 1
        BY <2>1, <3>1, <3>3
      <4>2. e.stream \in {0, 1} /\ 1 - e.stream \in {0, 1}
        BY <3>1 DEF Stream
      <4>3. CASE stream_head[e.stream] = i
        <5>1. /\ 0 < blocks'[count].parent_count
              /\ blocks'[count].prev_hash[0] = blocks'[i].block_hash
          BY <2>1, <3>1, <3>2, <4>1, <4>3, NewBlockFields
        <5>2. 0 \in Stream
          BY DEF Stream
        <5>3. QED
          BY <4>1, <5>1, <5>2
      <4>4. CASE stream_head[e.stream] # i
        <5>1. stream_head[1 - e.stream] = i /\ stream_head[0] # stream_head[1]
          BY <2>3, <3>3, <4>2, <4>4 DEF Stream
        <5>2. 1 - e.stream \in Stream
          BY <4>2 DEF Stream
        <5>3. /\ 1 < blocks'[count].parent_count
              /\ blocks'[count].prev_hash[1] = blocks'[i].block_hash
          BY <2>1, <3>1, <3>2, <4>1, <5>1, <5>2, NewBlockFields
        <5>4. 1 \in Stream
          BY DEF Stream
        <5>5. QED
          BY <4>1, <5>3, <5>4
      <4>5. QED
        BY <4>3, <4>4
    <3>4. ASSUME NEW i \in 0 .. count - 2 PROVE Covered(i)'
      <4>1. PICK j \in i + 1 .. count - 1, p \in Stream :
                   /\ p < blocks[j].parent_count
                   /\ blocks[j].prev_hash[p] = blocks[i].block_hash
        BY <2>3
      <4>2. /\ j \in i + 1 .. count' - 1
            /\ blocks'[j] = blocks[j] /\ blocks'[i] = blocks[i]
        BY <2>1, <3>1
      <4>3. QED
        BY <4>1, <4>2
    <3>5. \A i \in 0 .. count' - 2 : i = count - 1 \/ i \in 0 .. count - 2
      BY <2>1, <3>1
    <3>6. stream_head'[e.stream] = count' - 1
      BY <2>1, <3>1
    <3>7. ASSUME NEW i \in 0 .. count' - 2 PROVE Covered(i)'
      <4>1. i = count - 1 \/ i \in 0 .. count - 2
        BY <3>5
      <4>2. i \in 0 .. count - 1
        BY <2>1, <4>1
      <4>3. QED
        BY <3>3, <3>4, <4>1, <4>2
    <3>8. QED
      BY <3>1, <3>6, <3>7
  <2>5. ASSUME NEW k \in BlockIndex, Alter(k)
        PROVE  /\ \E s \in Stream : stream_head'[s] = count' - 1
               /\ \A i \in 0 .. count' - 2 : Covered(i)'
    <3>1. UNCHANGED <<count, stream_head>>
      BY <2>5 DEF Alter
    <3>2. blocks = [i \in BlockIndex |-> blocks[i]] /\ IsBlock(blocks[k])
      BY DEF IInv, TypeOK
    <3>3. /\ \A i \in BlockIndex : i # k => blocks'[i] = blocks[i]
          /\ blocks'[k] = [blocks[k] EXCEPT !.what = Damaged]
      BY <2>5, <3>2 DEF Alter
    <3>4. \A i \in BlockIndex : /\ blocks'[i].parent_count = blocks[i].parent_count
                                /\ blocks'[i].prev_hash = blocks[i].prev_hash
                                /\ blocks'[i].block_hash = blocks[i].block_hash
      BY <3>2, <3>3 DEF IsBlock
    <3>5. \A i \in 0 .. count - 1 : i \in BlockIndex
      BY <2>1, BlocksAssumption DEF BlockIndex
    <3>6. ASSUME NEW i \in 0 .. count - 2 PROVE Covered(i)'
      <4>1. i \in BlockIndex /\ \A j \in i + 1 .. count - 1 : j \in BlockIndex
        BY <2>1, <3>5
      <4>2. Covered(i)
        BY <2>3
      <4>3. QED
        BY <3>1, <3>4, <4>1, <4>2
    <3>7. QED
      BY <2>3, <3>1, <3>6
  <2>6. CASE UNCHANGED <<count, blocks, stream_head>>
    BY <2>3, <2>6
  <2>7. CASE FlushOneRollover
    BY <2>7 DEF FlushOneRollover
  <2>8. QED
    BY <2>4, <2>5, <2>6, <2>7
       DEF Next, Verify, EnqueueAccepted, EnqueueDropped, FlushBegin, FlushEnd,
           VerifyBegin, VerifyHash, VerifyCompare, VerifyReject, VerifyAccept,
           vars, chain
<1>3. NewestInv => NewestCoversHistory
  BY DEF NewestInv, NewestCoversHistory
<1>4. QED
  BY <1>1, <1>2, <1>3, Inductive, PTL DEF Spec
-----------------------------------------------------------------------------
(* What the digest has to do for the verification to mean anything: a      *)
(* damaged block does not hash to what it hashed to before.                *)
DamageChangesDigest ==
  \A b : IsBlock(b) /\ b.what # Damaged =>
           Sha256(Hashed([b EXCEPT !.what = Damaged])) # Sha256(Hashed(b))

(* A changed block no longer carries its own digest, and a verification    *)
(* under way has met none so far; the digest it holds is that of the block *)
(* it is at, if that one is changed: only a flush replaces a block while   *)
(* it runs, and what a flush writes is unchanged.                          *)
AlteredShow ==
  /\ \A i \in altered : blocks[i].block_hash # Sha256(Hashed(blocks[i]))
  /\ vpc # "idle" => \A i \in altered \cap (1 .. count - 1) : i >= vi
  /\ vpc = "compare" /\ vi \in altered => vhash = Sha256(Hashed(blocks[vi]))

AcceptInv == AlteredShow /\ AcceptMeansUnaltered

LEMMA FinalizeKeepsAccept ==
  ASSUME IInv, AcceptInv, NEW e, NEW c \in BlockIndex, Finalize(e, c), c = count \/ c = 1,
         UNCHANGED verifier
  PROVE  AcceptInv'
<1>1. count \in 1 .. LEDGER_MAX_BLOCKS /\ altered \subseteq BlockIndex /\ count' = c + 1
  BY DEF IInv, TypeOK, Finalize
<1>2. altered' = altered \ {c} /\ \A i \in altered' : blocks'[i] = blocks[i]
  BY <1>1 DEF IInv, TypeOK, Finalize
<1>3. \A i \in altered' \cap (1 .. count' - 1) : i \in altered \cap (1 .. count - 1)
  BY <1>1, <1>2, BlocksAssumption DEF BlockIndex
<1>4. UNCHANGED <<vpc, vi, vhash, verdict>>
  BY DEF verifier
<1>5. AlteredShow'
  <2>1. \A i \in altered' : blocks'[i].block_hash # Sha256(Hashed(blocks'[i]))
    BY <1>2 DEF AcceptInv, AlteredShow, Hashed
  <2>2. vpc' # "idle" => \A i \in altered' \cap (1 .. count' - 1) : i >= vi'
    BY <1>3, <1>4 DEF AcceptInv, AlteredShow
  <2>3. vpc' = "compare" /\ vi' \in altered' => vhash' = Sha256(Hashed(blocks'[vi']))
    BY <1>2, <1>4 DEF AcceptInv, AlteredShow, Hashed
  <2>4. QED
    BY <2>1, <2>2, <2>3 DEF AlteredShow, Hashed
<1>6. AcceptMeansUnaltered'
  BY <1>3, <1>4 DEF AcceptInv, AcceptMeansUnaltered
<1>7. QED
  BY <1>5, <1>6 DEF AcceptInv

LEMMA StepAccept ==
  ASSUME DamageChangesDigest, IInv, AcceptInv, [Next]_vars
  PROVE  AcceptInv'
<1>1. /\ count \in 1 .. LEDGER_MAX_BLOCKS /\ vi \in 0 .. LEDGER_MAX_BLOCKS
      /\ altered \subseteq BlockIndex
  BY DEF IInv, TypeOK
<1>2. ASSUME UNCHANGED <<blocks, count, vpc, vi, vhash, verdict, altered>> PROVE AcceptInv'
  BY <1>2 DEF AcceptInv, AlteredShow, AcceptMeansUnaltered, Hashed
<1>3. ASSUME NEW e \in Event, EnqueueAccepted(e) \/ EnqueueDropped(e) PROVE AcceptInv'
  BY <1>2, <1>3 DEF EnqueueAccepted, EnqueueDropped, chain, verifier
<1>4. CASE FlushBegin \/ FlushEnd
  BY <1>2, <1>4 DEF FlushBegin, FlushEnd, chain, verifier
<1>5. CASE FlushOne
  <2>1. count \in BlockIndex
    BY <1>1, <1>5, BlocksAssumption DEF FlushOne, BlockIndex
  <2>2. QED
    BY <1>5, <2>1, FinalizeKeepsAccept DEF FlushOne
<1>6. CASE FlushOneRollover
  <2>1. 1 \in BlockIndex
    BY BlocksAssumption DEF BlockIndex
  <2>2. QED
    BY <1>6, <2>1, FinalizeKeepsAccept DEF FlushOneRollover
<1>7. CASE VerifyBegin
  <2>1. UNCHANGED <<blocks, count, altered>> /\ vpc' = "hash" /\ vi' = 1 /\ verdict' = "none"
    BY <1>7 DEF VerifyBegin, chain
  <2>2. QED
    BY <1>1, <2>1 DEF AcceptInv, AlteredShow, AcceptMeansUnaltered, Hashed
<1>8. CASE VerifyHash
  <2>1. /\ UNCHANGED <<blocks, count, altered, vi, verdict>>
        /\ vpc = "hash" /\ vhash' = Sha256(Hashed(blocks[vi]))
    BY <1>8 DEF VerifyHash, chain
  <2>2. QED
    BY <2>1 DEF AcceptInv, AlteredShow, AcceptMeansUnaltered, Hashed
<1>9. CASE VerifyCompare
  <2>1. /\ UNCHANGED <<blocks, count, altered, verdict>> /\ vi' = vi + 1
        /\ vpc = "compare" /\ vpc' = "hash" /\ vhash = blocks[vi].block_hash
    BY <1>9 DEF VerifyCompare, chain
  <2>2. vi \notin altered
    BY <2>1 DEF AcceptInv, AlteredShow
  <2>3. ASSUME NEW i \in altered \cap (1 .. count - 1) PROVE i >= vi + 1
    <3>1. i >= vi /\ i # vi
      BY <2>1, <2>2 DEF AcceptInv, AlteredShow
    <3>2. QED
      BY <1>1, <3>1
  <2>4. QED
    BY <2>1, <2>3 DEF AcceptInv, AlteredShow, AcceptMeansUnaltered, Hashed
<1>10. CASE VerifyReject
  <2>1. UNCHANGED <<blocks, count, altered>> /\ vpc' = "idle" /\ verdict' = "tampered"
    BY <1>10 DEF VerifyReject, chain
  <2>2. QED
    BY <2>1 DEF AcceptInv, AlteredShow, AcceptMeansUnaltered, Hashed
<1>11. CASE VerifyAccept
  <2>1. /\ UNCHANGED <<blocks, count, altered>> /\ vpc = "hash" /\ vpc' = "idle"
        /\ vi >= count
    BY <1>11 DEF VerifyAccept, chain
  <2>2. altered \cap (1 .. count - 1) = {}
    <3> SUFFICES ASSUME NEW i \in altered \cap (1 .. count - 1) PROVE FALSE
      OBVIOUS
    <3>1. i >= vi
      BY <2>1 DEF AcceptInv, AlteredShow
    <3>2. QED
      BY <1>1, <2>1, <3>1
  <2>3. QED
    BY <2>1, <2>2 DEF AcceptInv, AlteredShow, AcceptMeansUnaltered, Hashed
<1>12. ASSUME NEW k \in BlockIndex, Alter(k) PROVE AcceptInv'
  <2>1. /\ vpc' = "idle" /\ verdict' = "none" /\ altered' = {k} /\ altered = {}
        /\ blocks' = [blocks EXCEPT ![k].what = Damaged]
        /\ k < count /\ blocks[k].what # Damaged
    BY <1>12 DEF Alter
  <2>2. blocks'[k] = [blocks[k] EXCEPT !.what = Damaged] /\ IsBlock(blocks[k])
    BY <2>1 DEF IInv, TypeOK
  <2>3. blocks'[k].block_hash = blocks[k].block_hash
    BY <2>2 DEF IsBlock
  <2>4. blocks[k].block_hash = Sha256(Hashed(blocks[k]))
    <3>1. k \in 0 .. count - 1
      BY <1>1, <2>1 DEF BlockIndex
    <3>2. QED
      BY <2>1, <3>1 DEF IInv, SelfHashed
  <2>5. blocks'[k].block_hash # Sha256(Hashed(blocks'[k]))
    <3>1. Sha256(Hashed([blocks[k] EXCEPT !.what = Damaged])) # Sha256(Hashed(blocks[k]))
      BY <2>1, <2>2 DEF DamageChangesDigest
    <3>2. QED
      BY <2>2, <2>3, <2>4, <3>1
  <2>6. QED
    BY <2>1, <2>5 DEF AcceptInv, AlteredShow, AcceptMeansUnaltered, Hashed
<1>13. CASE UNCHANGED vars
  BY <1>2, <1>13 DEF vars
<1>14. QED
  BY <1>3, <1>4, <1>5, <1>6, <1>7, <1>8, <1>9, <1>10, <1>11, <1>12, <1>13 DEF Next, Verify

(* ledger_verify_chain never accepts a ledger with a changed block past    *)
(* genesis, whatever flushes and overflows fall into its run, as long as   *)
(* the digest tells a damaged block from the original.                     *)
THEOREM LedgerAcceptMeansUnaltered ==
  ASSUME DamageChangesDigest
  PROVE  Spec => []AcceptMeansUnaltered
<1>1. Init => AcceptInv
  BY DEF Init, AcceptInv, AlteredShow, AcceptMeansUnaltered
<1>2. IInv /\ AcceptInv /\ [Next]_vars => AcceptInv'
  BY StepAccept
<1>3. AcceptInv => AcceptMeansUnaltered
  BY DEF AcceptInv
<1>4. QED
  BY <1>1, <1>2, <1>3, Inductive, PTL DEF Spec
=============================================================================
