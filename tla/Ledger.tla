------------------------------- MODULE Ledger -------------------------------
(***************************************************************************)
(* kernel/ledger.c: the DAG ledger.  Task code (VFS, system calls) pushes  *)
(* events into the ring of ledger_queue.c; every tenth timer tick IRQ0     *)
(* drains it and finalizes one hashed block per event; the shell may, in   *)
(* task context, walk the blocks and verify them.                          *)
(*                                                                         *)
(* There is one CPU and IRQ0 runs with interrupts off: while `flushing`,   *)
(* no task code runs.  The verification is interruptible, so a flush may   *)
(* fall between any two of its steps.  The ring is taken at the level of   *)
(* LedgerFifo, which LedgerQueue implements.                               *)
(***************************************************************************)
EXTENDS Integers, Sequences

CONSTANTS Payload,            \* action, target and timestamp of an event
          Damaged,            \* a payload as a memory fault leaves it
          QueueCapacity,      \* LEDGER_QUEUE_SIZE - 1
          LEDGER_MAX_BLOCKS,  \* slots of ledger_blocks
          Sha256(_),          \* the digest of a block's hashed bytes
          ZeroHash,           \* 32 bytes of memset
          Nothing,            \* an empty payload, and what an empty pop leaves
          MaxEvents           \* bound: accepted events

ASSUME BlocksAssumption == LEDGER_MAX_BLOCKS \in Nat \ {0, 1}
ASSUME CapacityAssumption == QueueCapacity \in Nat \ {0}
ASSUME BoundAssumption == MaxEvents \in Nat

VARIABLES queue, pushed, popped,        \* the event ring, as a FIFO
          blocks, count, head_idx,      \* ledger_blocks, ledger_count, ledger_head_idx
          stream_head,                  \* one per stream
          flushing,                     \* IRQ0 is inside ledger_flush_task
          vpc, vi, vhash, verdict,      \* ledger_verify_chain: place, i, recomputed, result
          accepted,                     \* ghost: every event accepted, in order
          rolled,                       \* ghost: the block array has overflowed
          altered                       \* ghost: blocks changed since they were finalized

fifo == <<queue, pushed, popped>>
chain == <<blocks, count, head_idx, stream_head>>
verifier == <<vpc, vi, vhash, verdict>>
vars == <<queue, pushed, popped, blocks, count, head_idx, stream_head,
          flushing, vpc, vi, vhash, verdict, accepted, rolled, altered>>

Stream == {0, 1}
Event == [stream : Stream, what : Payload]
BlockIndex == 0 .. LEDGER_MAX_BLOCKS - 1

Q == INSTANCE LedgerFifo WITH q <- queue, NoEvent <- Nothing,
                              Capacity <- QueueCapacity

(* What the hash covers: every field before block_hash. *)
Hashed(b) == <<b.index, b.what, b.stream, b.parent_count, b.prev_hash>>

ZeroBlock == [index |-> 0, what |-> Nothing, stream |-> 0, parent_count |-> 0,
              prev_hash |-> [p \in Stream |-> ZeroHash], block_hash |-> ZeroHash]

Sealed(b) == [b EXCEPT !.block_hash = Sha256(Hashed(b))]

Genesis == Sealed(ZeroBlock)    \* its target string is the one payload of its kind

Init == /\ Q!Init
        /\ blocks = [i \in BlockIndex |-> IF i = 0 THEN Genesis ELSE ZeroBlock]
        /\ count = 1
        /\ head_idx = 0
        /\ stream_head = [s \in Stream |-> 0]
        /\ flushing = FALSE
        /\ vpc = "idle" /\ vi = 0 /\ vhash = ZeroHash /\ verdict = "none"
        /\ accepted = << >> /\ rolled = FALSE /\ altered = {}
-----------------------------------------------------------------------------
(* ledger_enqueue, and the push at the end of vfs_read and vfs_write: all  *)
(* of them ignore the result of the push, so a refused event is gone.      *)

EnqueueAccepted(e) ==
  /\ ~flushing
  /\ Len(accepted) < MaxEvents
  /\ Q!Accept(e)
  /\ accepted' = Append(accepted, e)
  /\ UNCHANGED <<chain, flushing, verifier, rolled, altered>>

EnqueueDropped(e) ==
  /\ ~flushing
  /\ Q!Refuse(e)
  /\ UNCHANGED <<chain, flushing, verifier, accepted, rolled, altered>>
-----------------------------------------------------------------------------
(* ledger_flush_task, one action per iteration of its loop *)

FlushBeginWhenFull ==   \* mutant: flushes only on a full ring
  /\ ~flushing
  /\ Len(queue) = QueueCapacity
  /\ flushing' = TRUE
  /\ UNCHANGED <<fifo, chain, verifier, accepted, rolled, altered>>

FlushBegin ==
  /\ ~flushing
  /\ flushing' = TRUE
  /\ UNCHANGED <<fifo, chain, verifier, accepted, rolled, altered>>

NewBlockUnmerged(e, c) ==   \* mutant: diverged streams are not merged
  Sealed([index |-> c, what |-> e.what, stream |-> e.stream, parent_count |-> 1,
          prev_hash |-> [p \in Stream |->
              IF p = 0 THEN blocks[stream_head[e.stream]].block_hash ELSE ZeroHash],
          block_hash |-> ZeroHash])

(* The block that event e becomes in slot c.  The slot is cleared before   *)
(* the parents' hashes are read.                                           *)
NewBlock(e, c) ==
  LET sid == e.stream
      hashOf(i) == IF i = c THEN ZeroHash ELSE blocks[i].block_hash
      diverged == stream_head[0] # stream_head[1]
  IN Sealed([index |-> c, what |-> e.what, stream |-> e.stream,
             parent_count |-> IF diverged THEN 2 ELSE 1,
             prev_hash |-> [p \in Stream |->
                 IF p = 0 THEN hashOf(stream_head[sid])
                 ELSE IF diverged THEN hashOf(stream_head[1 - sid])
                 ELSE ZeroHash],
             block_hash |-> ZeroHash])

FinalizeInPlace(e, c) ==    \* mutant: ledger_count is not advanced
  /\ blocks' = [blocks EXCEPT ![c] = NewBlock(e, c)]
  /\ stream_head' = [stream_head EXCEPT ![e.stream] = c]
  /\ head_idx' = c
  /\ count' = c
  /\ altered' = altered \ {c}

Finalize(e, c) ==
  /\ blocks' = [blocks EXCEPT ![c] = NewBlock(e, c)]
  /\ stream_head' = [stream_head EXCEPT ![e.stream] = c]
  /\ head_idx' = c
  /\ count' = c + 1
  /\ altered' = altered \ {c}

FlushOnePastEnd ==  \* mutant: the overflow test lets one block too many in
  /\ flushing
  /\ count <= LEDGER_MAX_BLOCKS
  /\ Q!HandOut
  /\ Finalize(Head(queue), count)
  /\ UNCHANGED <<flushing, verifier, accepted, rolled>>

FlushOneOverHead ==  \* mutant: writes at ledger_head_idx
  /\ flushing
  /\ count < LEDGER_MAX_BLOCKS
  /\ Q!HandOut
  /\ Finalize(Head(queue), head_idx)
  /\ UNCHANGED <<flushing, verifier, accepted, rolled>>

FlushOne ==
  /\ flushing
  /\ count < LEDGER_MAX_BLOCKS
  /\ Q!HandOut
  /\ Finalize(Head(queue), count)
  /\ UNCHANGED <<flushing, verifier, accepted, rolled>>

FlushOneRollover ==     \* "oldest block recycled", genesis kept
  /\ flushing
  /\ count >= LEDGER_MAX_BLOCKS
  /\ Q!HandOut
  /\ Finalize(Head(queue), 1)
  /\ rolled' = TRUE
  /\ UNCHANGED <<flushing, verifier, accepted>>

FlushEnd ==
  /\ flushing
  /\ Q!FindEmpty
  /\ flushing' = FALSE
  /\ UNCHANGED <<chain, verifier, accepted, rolled, altered>>
-----------------------------------------------------------------------------
(* ledger_verify_chain *)

VerifyBegin ==
  /\ ~flushing
  /\ vpc = "idle"
  /\ vpc' = "hash"
  /\ vi' = 1
  /\ verdict' = "none"
  /\ UNCHANGED <<fifo, chain, flushing, vhash, accepted, rolled, altered>>

VerifyHash ==
  /\ ~flushing
  /\ vpc = "hash"
  /\ vi < count
  /\ vpc' = "compare"
  /\ vhash' = Sha256(Hashed(blocks[vi]))
  /\ UNCHANGED <<fifo, chain, flushing, vi, verdict, accepted, rolled, altered>>

ParentFoundPastGenesis(i) ==    \* mutant: the scan starts at 1
  blocks[i].parent_count > 0 =>
     \E j \in 1 .. i - 1 : blocks[j].block_hash = blocks[i].prev_hash[0]

ParentFound(i) ==
  blocks[i].parent_count > 0 =>
     \E j \in 0 .. i - 1 : blocks[j].block_hash = blocks[i].prev_hash[0]

VerifyCompareStuck ==   \* mutant: i is not advanced
  /\ ~flushing
  /\ vpc = "compare"
  /\ vhash = blocks[vi].block_hash
  /\ ParentFound(vi)
  /\ vpc' = "hash"
  /\ UNCHANGED <<fifo, chain, flushing, vi, vhash, verdict, accepted, rolled, altered>>

VerifyCompare ==
  /\ ~flushing
  /\ vpc = "compare"
  /\ vhash = blocks[vi].block_hash
  /\ ParentFound(vi)
  /\ vpc' = "hash"
  /\ vi' = vi + 1
  /\ UNCHANGED <<fifo, chain, flushing, vhash, verdict, accepted, rolled, altered>>

VerifyReject ==
  /\ ~flushing
  /\ vpc = "compare"
  /\ ~(vhash = blocks[vi].block_hash /\ ParentFound(vi))
  /\ vpc' = "idle"
  /\ verdict' = "tampered"
  /\ UNCHANGED <<fifo, chain, flushing, vi, vhash, accepted, rolled, altered>>

VerifyAcceptEarly ==    \* mutant: the loop leaves out the newest block
  /\ ~flushing
  /\ vpc = "hash"
  /\ vi >= count - 1
  /\ vpc' = "idle"
  /\ verdict' = "valid"
  /\ UNCHANGED <<fifo, chain, flushing, vi, vhash, accepted, rolled, altered>>

VerifyAccept ==
  /\ ~flushing
  /\ vpc = "hash"
  /\ vi >= count
  /\ vpc' = "idle"
  /\ verdict' = "valid"
  /\ UNCHANGED <<fifo, chain, flushing, vi, vhash, accepted, rolled, altered>>

Verify == \/ VerifyHash \/ VerifyCompare \/ VerifyReject \/ VerifyAccept
-----------------------------------------------------------------------------
(* The event the verification is there for: the body of one finalized      *)
(* block changes in memory, at most once, between two verifications.       *)
Alter(i) ==
  /\ ~flushing
  /\ vpc = "idle"
  /\ altered = {}
  /\ i < count
  /\ blocks[i].what # Damaged
  /\ blocks' = [blocks EXCEPT ![i].what = Damaged]
  /\ altered' = {i}
  /\ verdict' = "none"
  /\ UNCHANGED <<fifo, count, head_idx, stream_head, flushing, vpc, vi, vhash,
                 accepted, rolled>>

Next == \/ \E e \in Event : EnqueueAccepted(e) \/ EnqueueDropped(e)
        \/ FlushBegin \/ FlushOne \/ FlushOneRollover \/ FlushEnd
        \/ VerifyBegin \/ Verify
        \/ \E i \in BlockIndex : Alter(i)

Spec == Init /\ [][Next]_vars

(* IRQ0 keeps firing, its handler runs to the end, and a verification once *)
(* started is never abandoned: the tick that interrupts it returns to it.  *)
Fairness == /\ WF_vars(FlushBegin)
            /\ WF_vars(FlushOne \/ FlushOneRollover \/ FlushEnd)
            /\ SF_vars(Verify)

FairSpec == Spec /\ Fairness
-----------------------------------------------------------------------------
IsBlock(b) ==
  /\ b = [index |-> b.index, what |-> b.what, stream |-> b.stream,
          parent_count |-> b.parent_count, prev_hash |-> b.prev_hash,
          block_hash |-> b.block_hash]
  /\ b.stream \in Stream
  /\ b.parent_count \in 0 .. 2
  /\ DOMAIN b.prev_hash = Stream

TypeOK ==
  /\ queue \in Seq(Event) /\ Len(queue) <= QueueCapacity
  /\ accepted \in Seq(Event)
  /\ count \in 1 .. LEDGER_MAX_BLOCKS
  /\ head_idx \in BlockIndex
  /\ stream_head \in [Stream -> BlockIndex]
  /\ flushing \in BOOLEAN /\ rolled \in BOOLEAN
  /\ vpc \in {"idle", "hash", "compare"}
  /\ vi \in 0 .. LEDGER_MAX_BLOCKS
  /\ verdict \in {"none", "valid", "tampered"}
  /\ altered \subseteq BlockIndex
  /\ blocks = [i \in BlockIndex |-> blocks[i]]
  /\ \A i \in BlockIndex : IsBlock(blocks[i]) /\ blocks[i].index \in {0, i}

(* Until the block array overflows, every accepted event is either still   *)
(* in the ring or the event of exactly one block, in the order of its      *)
(* acceptance: block k records the k-th accepted event.                    *)
EventsInOrder ==
  ~rolled =>
    /\ Len(accepted) = (count - 1) + Len(queue)
    /\ \A k \in 1 .. count - 1 :
         /\ blocks[k].stream = accepted[k].stream
         /\ k \notin altered => blocks[k].what = accepted[k].what
    /\ \A k \in 1 .. Len(queue) : queue[k] = accepted[count - 1 + k]

(* Until the block array overflows, no fork is left dangling: every        *)
(* finalized block but the newest is a parent of a later one, so that the  *)
(* newest block's hash commits to the whole history of both streams.       *)
NewestCoversHistory ==
  ~rolled =>
    \A i \in 0 .. count - 2 :
      \E j \in i + 1 .. count - 1, p \in Stream :
        /\ p < blocks[j].parent_count
        /\ blocks[j].prev_hash[p] = blocks[i].block_hash

(* ledger_verify_chain returns false only for a reason: a changed block,   *)
(* or an overflow of the block array, however flushes interrupt it.        *)
RejectHasCause == verdict = "tampered" => rolled \/ altered # {}

(* ledger_verify_chain never returns true over a block past genesis that   *)
(* changed before it began, overflow or not.                               *)
AcceptMeansUnaltered == verdict = "valid" => altered \cap (1 .. count - 1) = {}

(* What the verification promises its user: "Tamper detected" is said of   *)
(* tampering.                                                              *)
NoFalseAlarm == verdict = "tampered" => altered # {}

(* Until the block array overflows the ledger only grows: no step but the  *)
(* fault changes a finalized block, and the count never goes back.         *)
AppendOnly ==
  [][~rolled' /\ altered' = altered =>
       /\ count' >= count
       /\ \A i \in 0 .. count - 1 : blocks'[i] = blocks[i]]_vars

(* An event in the ring does not wait forever for its block. *)
QueueDrains == (queue # << >>) ~> (queue = << >>)

(* A verification ends, however many blocks are appended while it runs. *)
VerifyEnds == (vpc # "idle") ~> (vpc = "idle")
=============================================================================
