------------------------------- MODULE Arena --------------------------------
(***************************************************************************)
(* The bump allocator of arena.c, one arena.  `live` is a ghost: the       *)
(* regions given out since the last reset and not released by a restore,   *)
(* in order; each holds the bytes that were asked for.  Checkpoints nest,  *)
(* "like function call frames": `saved` is the stack of those outstanding. *)
(***************************************************************************)
EXTENDS Integers, Sequences

CONSTANTS CAPACITY,         \* bytes of the pool, a multiple of ALIGN
          ALIGN,            \* 8
          SIZE_T            \* values of a size_t (2^32)

ASSUME PoolAssumption == CAPACITY \in Nat /\ ALIGN \in Nat \ {0} /\ SIZE_T \in Nat \ {0}

VARIABLES cursor, high_watermark, alloc_count, oom_count, live, saved

arena == <<cursor, high_watermark, alloc_count, oom_count, live, saved>>

(* arena_init *)
ArenaInit == /\ cursor = 0 /\ high_watermark = 0 /\ alloc_count = 0 /\ oom_count = 0
             /\ live = <<>> /\ saved = <<>>

Aligned(size) == LET up == (size + ALIGN - 1) % SIZE_T IN up - (up % ALIGN)

arena_alloc(size) ==
  IF (cursor + Aligned(size)) % SIZE_T > CAPACITY
  THEN oom_count' = oom_count + 1 /\ UNCHANGED <<cursor, high_watermark, alloc_count, live>>
  ELSE /\ cursor' = (cursor + Aligned(size)) % SIZE_T
       /\ alloc_count' = alloc_count + 1
       /\ high_watermark' = IF cursor' > high_watermark THEN cursor' ELSE high_watermark
       /\ live' = Append(live, [at |-> cursor, size |-> size])
       /\ UNCHANGED oom_count

arena_calloc(count, elem_size) == arena_alloc((count * elem_size) % SIZE_T)
arena_strdup(len) == arena_alloc((len + 1) % SIZE_T)

arena_reset == /\ cursor' = 0 /\ alloc_count' = 0
               /\ live' = <<>> /\ saved' = <<>>
               /\ UNCHANGED <<high_watermark, oom_count>>

arena_save == /\ saved' = Append(saved, [cursor |-> cursor, alloc_count |-> alloc_count])
              /\ UNCHANGED <<cursor, high_watermark, alloc_count, oom_count, live>>

RestoreCursor ==            \* mutant: the count of the checkpoint is forgotten
  /\ saved # <<>>
  /\ LET cp == saved[Len(saved)] IN cursor' = cp.cursor /\ live' = SubSeq(live, 1, cp.alloc_count)
  /\ saved' = SubSeq(saved, 1, Len(saved) - 1)
  /\ UNCHANGED <<high_watermark, alloc_count, oom_count>>

(* arena_restore, by the scope that saved last *)
arena_restore == /\ saved # <<>>
                 /\ LET cp == saved[Len(saved)]
                    IN /\ cursor' = cp.cursor /\ alloc_count' = cp.alloc_count
                       /\ live' = SubSeq(live, 1, cp.alloc_count)
                 /\ saved' = SubSeq(saved, 1, Len(saved) - 1)
                 /\ UNCHANGED <<high_watermark, oom_count>>

arena_remaining == CAPACITY - cursor

(* Live regions lie in the pool below the cursor and do not overlap, and   *)
(* alloc_count is their number, through resets, failed allocations and     *)
(* nested checkpoints; the watermark covers every one of them.             *)
ArenaSafe ==
  /\ \A i \in DOMAIN live : live[i].at >= 0 /\ live[i].at + live[i].size <= cursor
  /\ \A i, j \in DOMAIN live : i < j => live[i].at + live[i].size <= live[j].at
  /\ alloc_count = Len(live)
  /\ arena_remaining >= 0
  /\ cursor <= high_watermark /\ high_watermark <= CAPACITY
=============================================================================
