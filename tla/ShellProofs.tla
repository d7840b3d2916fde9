---------------------------- MODULE ShellProofs -----------------------------
(***************************************************************************)
(* For every size of the buffers, of the pool and of the history, and      *)
(* every session: the arena a script allocates in stays consistent, the    *)
(* fusion of the AI core keeps the rules' word on factual queries, and no  *)
(* line is lost or mixed up between keyboard, history and commands.        *)
(***************************************************************************)
EXTENDS Shell, TLAPS

-----------------------------------------------------------------------------
(* The arena.  ArenaSafe is not inductive: a restore brings back a cursor  *)
(* and a count that a checkpoint took earlier.  Checkpoints nest: each     *)
(* covers the regions it counts, and those taken later cover as much.      *)

Region == [at : Nat, size : Nat]
Checkpoint == [cursor : Nat, alloc_count : Nat]

ArenaTypeOK ==
  /\ cursor \in Nat /\ high_watermark \in Nat /\ alloc_count \in Nat /\ oom_count \in Nat
  /\ live \in Seq(Region)
  /\ saved \in Seq(Checkpoint)

Covers(cp, at, regions) ==
  /\ cp.cursor <= at /\ cp.alloc_count <= Len(regions)
  /\ \A k \in 1 .. cp.alloc_count : regions[k].at + regions[k].size <= cp.cursor

CheckpointsNest ==
  /\ \A i \in DOMAIN saved : Covers(saved[i], cursor, live)
  /\ \A i, j \in DOMAIN saved :
       i < j => /\ saved[i].cursor <= saved[j].cursor
                /\ saved[i].alloc_count <= saved[j].alloc_count

ArenaInv == ArenaTypeOK /\ ArenaSafe /\ CheckpointsNest

(* Rounding up: the block is at least as large as asked for, and no size   *)
(* that leaves room for the rounding wraps.                                *)
LEMMA AlignedUp ==
  ASSUME NEW size \in Nat, size + ALIGN - 1 < SIZE_T
  PROVE  /\ Aligned(size) \in Nat
         /\ size <= Aligned(size) /\ Aligned(size) <= size + ALIGN - 1
<1> DEFINE up == size + ALIGN - 1
<1>1. up \in Nat /\ up % SIZE_T = up
  BY PoolAssumption
<1>2. up % ALIGN \in 0 .. ALIGN - 1 /\ up % ALIGN <= up
  BY <1>1, PoolAssumption
<1>3. Aligned(size) = up - (up % ALIGN)
  BY <1>1 DEF Aligned
<1>4. QED
  BY <1>2, <1>3, PoolAssumption

(* Both ends of arena_alloc keep the invariant. *)
LEMMA AllocKeeps ==
  ASSUME ArenaInv, NEW size \in Nat, CAPACITY + size + ALIGN <= SIZE_T,
         arena_alloc(size), UNCHANGED saved
  PROVE  ArenaInv'
<1>1. /\ cursor \in Nat /\ high_watermark \in Nat /\ alloc_count \in Nat /\ oom_count \in Nat
      /\ live \in Seq(Region) /\ saved \in Seq(Checkpoint)
  BY DEF ArenaInv, ArenaTypeOK
<1>2. cursor <= high_watermark /\ high_watermark <= CAPACITY /\ alloc_count = Len(live)
  BY DEF ArenaInv, ArenaSafe
<1>3. /\ Aligned(size) \in Nat /\ size <= Aligned(size)
      /\ (cursor + Aligned(size)) % SIZE_T = cursor + Aligned(size)
  <2>1. size + ALIGN - 1 < SIZE_T
    BY PoolAssumption
  <2>2. /\ Aligned(size) \in Nat
        /\ size <= Aligned(size) /\ Aligned(size) <= size + ALIGN - 1
    BY <2>1, AlignedUp
  <2>3. cursor + Aligned(size) \in Nat /\ cursor + Aligned(size) < SIZE_T
    BY <1>1, <1>2, <2>2, PoolAssumption
  <2>4. QED
    BY <2>2, <2>3, PoolAssumption
<1>4. CASE cursor + Aligned(size) > CAPACITY
  <2>1. UNCHANGED <<cursor, high_watermark, alloc_count, live, saved>> /\ oom_count' = oom_count + 1
    BY <1>3, <1>4 DEF arena_alloc
  <2>2. QED
    BY <1>1, <2>1 DEF ArenaInv, ArenaTypeOK, ArenaSafe, arena_remaining, CheckpointsNest, Covers
<1>5. CASE ~(cursor + Aligned(size) > CAPACITY)
  <2> DEFINE new == [at |-> cursor, size |-> size]
  <2>1. /\ cursor' = cursor + Aligned(size) /\ alloc_count' = alloc_count + 1
        /\ high_watermark' = IF cursor' > high_watermark THEN cursor' ELSE high_watermark
        /\ live' = Append(live, new) /\ oom_count' = oom_count
    BY <1>3, <1>5 DEF arena_alloc
  <2>2. new \in Region
    BY <1>1 DEF Region
  <2>3. /\ live' \in Seq(Region) /\ Len(live') = Len(live) + 1 /\ Len(live) \in Nat
        /\ DOMAIN live = 1 .. Len(live) /\ DOMAIN live' = 1 .. Len(live) + 1
        /\ \A i \in 1 .. Len(live) : live'[i] = live[i]
        /\ live'[Len(live) + 1] = new
    <3> HIDE DEF new
    <3> QED
      BY <1>1, <2>1, <2>2
  <2>4. \A i \in DOMAIN live' : live'[i].at \in Nat /\ live'[i].size \in Nat
    <3>1. \A i \in DOMAIN live' : live'[i] \in Region
      BY <2>3
    <3>2. QED
      BY <3>1 DEF Region
  <2>5. ArenaTypeOK'
    BY <1>1, <1>3, <2>1, <2>3 DEF ArenaTypeOK
  <2>6. ASSUME NEW i \in DOMAIN live' PROVE live'[i].at >= 0 /\ live'[i].at + live'[i].size <= cursor'
    <3>1. CASE i = Len(live) + 1
      BY <1>1, <1>3, <2>1, <2>3, <3>1
    <3>2. CASE i \in DOMAIN live
      <4>1. live[i].at + live[i].size <= cursor
        BY <3>2 DEF ArenaInv, ArenaSafe
      <4>2. QED
        BY <1>1, <1>3, <2>1, <2>3, <2>4, <3>2, <4>1
    <3>3. QED
      BY <2>3, <3>1, <3>2
  <2>7. ASSUME NEW i \in DOMAIN live', NEW j \in DOMAIN live', i < j
        PROVE  live'[i].at + live'[i].size <= live'[j].at
    <3>1. i \in DOMAIN live
      BY <2>3, <2>7
    <3>2. CASE j = Len(live) + 1
      BY <2>3, <3>1, <3>2 DEF ArenaInv, ArenaSafe
    <3>3. CASE j \in DOMAIN live
      BY <2>3, <2>7, <3>1, <3>3 DEF ArenaInv, ArenaSafe
    <3>4. QED
      BY <2>3, <3>2, <3>3
  <2>8. ArenaSafe'
    <3>1. cursor' <= high_watermark' /\ high_watermark' <= CAPACITY /\ CAPACITY - cursor' >= 0
      <4>1. cursor' \in Nat /\ cursor' <= CAPACITY
        <5>1. cursor \in Nat /\ Aligned(size) \in Nat
          BY <1>1, <1>3
        <5>2. QED
          BY <1>5, <2>1, <5>1, PoolAssumption
      <4>2. high_watermark \in Nat /\ high_watermark <= CAPACITY
        BY <1>1, <1>2
      <4>3. QED
        BY <2>1, <4>1, <4>2, PoolAssumption
    <3>2. alloc_count' = Len(live')
      BY <1>2, <2>1, <2>3
    <3>3. QED
      BY <2>6, <2>7, <3>1, <3>2 DEF ArenaSafe, arena_remaining
  <2>9. CheckpointsNest'
    <3>1. ASSUME NEW i \in DOMAIN saved PROVE Covers(saved'[i], cursor', live')
      <4>1. saved[i] \in Checkpoint
        BY <1>1
      <4>2. Covers(saved[i], cursor, live)
        BY DEF ArenaInv, CheckpointsNest
      <4>3. \A k \in 1 .. saved[i].alloc_count : k \in 1 .. Len(live)
        BY <2>3, <4>1, <4>2 DEF Covers, Checkpoint
      <4>4. QED
        BY <1>1, <1>3, <2>1, <2>3, <4>1, <4>2, <4>3 DEF Covers, Checkpoint
    <3>2. QED
      BY <3>1 DEF ArenaInv, CheckpointsNest
  <2>10. QED
    BY <2>5, <2>8, <2>9 DEF ArenaInv
<1>6. QED
  BY <1>4, <1>5

LEMMA ResetKeeps ==
  ASSUME ArenaInv, arena_reset
  PROVE  ArenaInv'
<1>1. cursor' = 0 /\ alloc_count' = 0 /\ live' = <<>> /\ saved' = <<>> /\ UNCHANGED <<high_watermark, oom_count>>
  BY DEF arena_reset
<1>2. high_watermark \in Nat /\ oom_count \in Nat /\ high_watermark <= CAPACITY
  BY DEF ArenaInv, ArenaTypeOK, ArenaSafe
<1>3. QED
  BY <1>1, <1>2, PoolAssumption DEF ArenaInv, ArenaTypeOK, ArenaSafe, arena_remaining, CheckpointsNest

LEMMA SaveKeeps ==
  ASSUME ArenaInv, arena_save
  PROVE  ArenaInv'
<1> DEFINE cp == [cursor |-> cursor, alloc_count |-> alloc_count]
<1>1. saved' = Append(saved, cp) /\ UNCHANGED <<cursor, high_watermark, alloc_count, oom_count, live>>
  BY DEF arena_save
<1>2. ArenaTypeOK /\ ArenaSafe /\ CheckpointsNest
  BY DEF ArenaInv
<1>3. cp \in Checkpoint /\ Covers(cp, cursor, live)
  <2>1. cursor \in Nat /\ alloc_count \in Nat
    BY <1>2 DEF ArenaTypeOK
  <2>2. /\ alloc_count = Len(live) /\ DOMAIN live = 1 .. alloc_count
        /\ \A i \in DOMAIN live : live[i].at + live[i].size <= cursor
    BY <1>2 DEF ArenaSafe, ArenaTypeOK
  <2>3. QED
    BY <2>1, <2>2 DEF Checkpoint, Covers
<1>4. /\ saved' \in Seq(Checkpoint) /\ DOMAIN saved = 1 .. Len(saved) /\ Len(saved) \in Nat
      /\ DOMAIN saved' = 1 .. Len(saved) + 1
      /\ \A i \in DOMAIN saved : saved'[i] = saved[i]
      /\ saved'[Len(saved) + 1] = cp
  <2>1. saved \in Seq(Checkpoint)
    BY <1>2 DEF ArenaTypeOK
  <2> HIDE DEF cp
  <2> QED
    BY <1>1, <1>3, <2>1
<1>5. \A i \in DOMAIN saved : saved[i].cursor <= cp.cursor /\ saved[i].alloc_count <= cp.alloc_count
  BY <1>2 DEF CheckpointsNest, Covers, ArenaSafe
<1> HIDE DEF cp
<1>6. CheckpointsNest'
  <2>1. ASSUME NEW i \in DOMAIN saved' PROVE Covers(saved'[i], cursor', live')
    <3>1. Covers(saved'[i], cursor, live)
      BY <1>2, <1>3, <1>4 DEF CheckpointsNest
    <3>2. QED
      BY <1>1, <3>1 DEF Covers
  <2>2. ASSUME NEW i \in DOMAIN saved', NEW j \in DOMAIN saved', i < j
        PROVE  saved'[i].cursor <= saved'[j].cursor /\ saved'[i].alloc_count <= saved'[j].alloc_count
    BY <1>2, <1>4, <1>5, <2>2 DEF CheckpointsNest
  <2>3. QED
    BY <2>1, <2>2 DEF CheckpointsNest, Covers
<1>7. QED
  BY <1>1, <1>2, <1>4, <1>6 DEF ArenaInv, ArenaTypeOK, ArenaSafe, arena_remaining

LEMMA RestoreKeeps ==
  ASSUME ArenaInv, arena_restore
  PROVE  ArenaInv'
<1> DEFINE n == Len(saved)
           cp == saved[n]
<1>1. /\ cursor' = cp.cursor /\ alloc_count' = cp.alloc_count
      /\ live' = SubSeq(live, 1, cp.alloc_count) /\ saved' = SubSeq(saved, 1, n - 1)
      /\ UNCHANGED <<high_watermark, oom_count>>
  BY DEF arena_restore
<1>2. ArenaTypeOK /\ ArenaSafe /\ CheckpointsNest
  BY DEF ArenaInv
<1>3. n \in Nat \ {0} /\ DOMAIN saved = 1 .. n
  BY <1>2 DEF arena_restore, ArenaTypeOK
<1>4. cp \in Checkpoint /\ Covers(cp, cursor, live)
  BY <1>2, <1>3 DEF ArenaTypeOK, CheckpointsNest
<1>5. /\ saved' \in Seq(Checkpoint) /\ Len(saved') = n - 1 /\ DOMAIN saved' = 1 .. n - 1
      /\ \A i \in 1 .. n - 1 : saved'[i] = saved[i]
  BY <1>1, <1>2, <1>3 DEF ArenaTypeOK
<1> HIDE DEF cp, n
<1>6. cp.cursor \in Nat /\ cp.alloc_count \in Nat /\ cp.alloc_count <= Len(live) /\ cp.cursor <= cursor
  BY <1>4 DEF Checkpoint, Covers
<1>7. /\ live' \in Seq(Region) /\ Len(live') = cp.alloc_count /\ DOMAIN live' = 1 .. cp.alloc_count
      /\ \A i \in 1 .. cp.alloc_count : live'[i] = live[i] /\ i \in DOMAIN live
  BY <1>1, <1>2, <1>6 DEF ArenaTypeOK
<1>8. ArenaSafe'
  <2>1. \A i \in DOMAIN live' : live'[i].at >= 0 /\ live'[i].at + live'[i].size <= cursor'
    BY <1>1, <1>2, <1>4, <1>7 DEF ArenaSafe, Covers
  <2>2. \A i, j \in DOMAIN live' : i < j => live'[i].at + live'[i].size <= live'[j].at
    BY <1>2, <1>7 DEF ArenaSafe
  <2>3. cursor' <= high_watermark' /\ high_watermark' <= CAPACITY /\ CAPACITY - cursor' >= 0
    BY <1>1, <1>2, <1>6, PoolAssumption DEF ArenaSafe, ArenaTypeOK
  <2>4. QED
    BY <1>1, <1>7, <2>1, <2>2, <2>3 DEF ArenaSafe, arena_remaining
<1>9. CheckpointsNest'
  <2>1. ASSUME NEW i \in DOMAIN saved' PROVE Covers(saved'[i], cursor', live')
    <3>1. saved'[i] = saved[i] /\ i \in DOMAIN saved /\ i < n /\ n \in DOMAIN saved
      BY <1>3, <1>5
    <3>2. /\ saved[i] \in Checkpoint /\ Covers(saved[i], cursor, live)
          /\ saved[i].cursor <= cp.cursor /\ saved[i].alloc_count <= cp.alloc_count
      BY <1>2, <3>1 DEF CheckpointsNest, ArenaTypeOK, cp
    <3>3. \A k \in 1 .. saved[i].alloc_count : k \in 1 .. cp.alloc_count
      BY <1>6, <3>2 DEF Checkpoint
    <3>4. QED
      BY <1>1, <1>7, <3>1, <3>2, <3>3 DEF Covers
  <2>2. QED
    BY <1>2, <1>3, <1>5, <2>1 DEF CheckpointsNest, Covers
<1>10. ArenaTypeOK'
  BY <1>1, <1>2, <1>5, <1>6, <1>7 DEF ArenaTypeOK
<1>11. QED
  BY <1>8, <1>9, <1>10 DEF ArenaInv

LEMMA StepArena == ArenaInv /\ [Next]_vars => ArenaInv'
<1> SUFFICES ASSUME ArenaInv, [Next]_vars PROVE ArenaInv'
  OBVIOUS
<1>1. ASSUME UNCHANGED arena PROVE ArenaInv'
  BY <1>1 DEF arena, ArenaInv, ArenaTypeOK, ArenaSafe, arena_remaining, CheckpointsNest, Covers
<1>2. CASE (\E k \in UNION {Range(line) : line \in session} : Character(k)) \/ Backspace \/ Enter \/ Routed
  BY <1>1, <1>2 DEF Character, Backspace, Enter, Routed
<1>3. CASE Builtin
  BY <1>1, <1>3, ResetKeeps DEF Builtin, Plain, cmd_ai, cmd_run, shutdown
<1>4. CASE ScriptAlloc
  <2>1. PICK r \in Requests : arena_alloc(r) \/ arena_calloc(2, r) \/ arena_strdup(r)
    BY <1>4 DEF ScriptAlloc
  <2>2. /\ r \in Nat /\ CAPACITY + r + ALIGN <= SIZE_T
        /\ (2 * r) % SIZE_T = 2 * r /\ CAPACITY + 2 * r + ALIGN <= SIZE_T
        /\ (r + 1) % SIZE_T = r + 1 /\ CAPACITY + (r + 1) + ALIGN <= SIZE_T
    <3>1. r \in Nat /\ CAPACITY + 2 * r + ALIGN < SIZE_T
      BY RequestAssumption
    <3>2. 2 * r \in Nat /\ 2 * r < SIZE_T /\ r + 1 \in Nat /\ r + 1 < SIZE_T
      BY <3>1, PoolAssumption
    <3>3. (2 * r) % SIZE_T = 2 * r /\ (r + 1) % SIZE_T = r + 1
      BY <3>2, PoolAssumption
    <3>4. QED
      BY <3>1, <3>3, PoolAssumption
  <2>3. QED
    BY <1>4, <2>1, <2>2, AllocKeeps DEF ScriptAlloc, arena_calloc, arena_strdup
<1>5. CASE ScriptScope
  BY <1>5, SaveKeeps, RestoreKeeps DEF ScriptScope
<1>6. CASE ScriptEnd
  BY <1>1, <1>6, ResetKeeps DEF ScriptEnd
<1>7. CASE UNCHANGED vars
  BY <1>1, <1>7 DEF vars
<1>8. QED
  BY <1>2, <1>3, <1>4, <1>5, <1>6, <1>7 DEF Next

(* A script's regions stay apart and inside the pool, and the count of     *)
(* allocations is theirs, through failures, resets and nested checkpoints. *)
THEOREM ShellArenaSafe == Spec => []ArenaSafe
<1>1. Init => ArenaInv
  BY PoolAssumption DEF Init, ArenaInit, ArenaInv, ArenaTypeOK, ArenaSafe, arena_remaining, CheckpointsNest
<1>2. ArenaInv => ArenaSafe
  BY DEF ArenaInv
<1>3. QED
  BY <1>1, <1>2, StepArena, PTL DEF Spec
-----------------------------------------------------------------------------
(* The AI core. *)

TruthOf(r) ==
  /\ r.by = "neural" /\ r.class \in Factual => r.neural > 2 * r.explicit
  /\ r.by = "explicit" /\ r.class \notin Factual => r.explicit + 4 > 2 * r.neural

(* The comparison of the rounded scores, for both pairs of weights. *)
LEMMA Scores ==
  ASSUME NEW ec \in 0 .. 100, NEW nc \in 0 .. 100
  PROVE  /\ ~((ec * 75) \div 100 >= (nc * 25) \div 100) => nc > 2 * ec
         /\ (ec * 25) \div 100 >= (nc * 75) \div 100 => ec + 4 > 2 * nc
OBVIOUS

LEMMA FuseTruth ==
  ASSUME NEW class, NEW ec \in 0 .. 100, NEW nc \in 0 .. 100
  PROVE  TruthOf(Fuse(class, ec, nc))
<1> DEFINE r == Fuse(class, ec, nc)
           rules == (ec * Weights(class).explicit) \div 100 >= (nc * Weights(class).neural) \div 100
<1>1. /\ r.class = class /\ r.explicit = ec /\ r.neural = nc
      /\ r.by = IF rules THEN "explicit" ELSE "neural"
  BY DEF Fuse
<1>2. /\ class \in Factual => (rules <=> (ec * 75) \div 100 >= (nc * 25) \div 100)
      /\ class \notin Factual => (rules <=> (ec * 25) \div 100 >= (nc * 75) \div 100)
  BY DEF Weights
<1> HIDE DEF r, rules
<1>3. r.by = "neural" <=> ~rules
  BY <1>1
<1>4. /\ class \in Factual /\ ~rules => nc > 2 * ec
      /\ class \notin Factual /\ rules => ec + 4 > 2 * nc
  BY <1>2, Scores
<1>5. TruthOf(r)
  BY <1>1, <1>3, <1>4 DEF TruthOf
<1>6. QED
  BY <1>5 DEF r

(* Whatever confidences the two engines report, the neural core overrules  *)
(* the rules on a factual query only when it is more than twice as sure,   *)
(* and the rules overrule it on another only when about that much surer.   *)
THEOREM ShellGroundTruth == Spec => []GroundTruth
<1>1. Init => GroundTruth
  BY DEF Init, NoResponse, GroundTruth, Factual
<1>2. GroundTruth /\ [Next]_vars => GroundTruth'
  <2> SUFFICES ASSUME GroundTruth, [Next]_vars PROVE GroundTruth'
    OBVIOUS
  <2>1. CASE UNCHANGED response
    BY <2>1 DEF GroundTruth
  <2>2. ASSUME NEW query, ai_query(query) PROVE GroundTruth'
    <3>1. PICK ec \in Confidences, nc \in Confidences : response' = Fuse(classify_query(query), ec, nc)
      BY <2>2 DEF ai_query
    <3>2. TruthOf(response')
      BY <3>1, FuseTruth, ConfidenceAssumption
    <3>3. QED
      BY <3>2 DEF TruthOf, GroundTruth
  <2>3. UNCHANGED response \/ \E query : ai_query(query)
    BY DEF Next, vars, Character, Backspace, Enter, Routed, Builtin, Plain, cmd_ai, cmd_run, shutdown,
           ScriptAlloc, ScriptScope, ScriptEnd, Scripting
  <2>4. QED
    BY <2>1, <2>2, <2>3
<1>3. QED
  BY <1>1, <1>2, PTL DEF Spec
-----------------------------------------------------------------------------
(* Lines.  A line is a sequence of words that are neither NUL nor JUNK. *)

IsLine(line) == /\ line \in Seq(Range(line)) /\ Len(line) \in 1 .. SHELL_BUF_LEN - 1
                /\ NUL \notin Range(line) /\ JUNK \notin Range(line)

(* What copies of it, and copies of those, may read as: the line itself,   *)
(* or for a line that fills the copy, all of it but the last word, which   *)
(* the stack may lengthen and follow.                                      *)
Agrees(s, line) ==
  /\ s \in Seq(Range(line) \cup {JUNK})
  /\ Len(line) < SHELL_BUF_LEN - 1 => s = line
  /\ Len(line) = SHELL_BUF_LEN - 1 =>
       Len(s) >= SHELL_BUF_LEN - 1 /\ \A i \in 1 .. SHELL_BUF_LEN - 2 : s[i] = line[i]

LEMMA LineFacts ==
  ASSUME NEW line, IsLine(line)
  PROVE  /\ Len(line) \in Nat /\ DOMAIN line = 1 .. Len(line)
         /\ \A i \in 1 .. Len(line) : line[i] # NUL /\ line[i] # JUNK
<1>1. Len(line) \in Nat /\ DOMAIN line = 1 .. Len(line)
  BY DEF IsLine
<1>2. \A i \in DOMAIN line : line[i] \in Range(line)
  BY DEF Range
<1>3. QED
  BY <1>1, <1>2 DEF IsLine

(* Two sequences with the same elements are the same. *)
LEMMA SameLine ==
  ASSUME NEW S, NEW T, NEW s \in Seq(S), NEW t \in Seq(T), Len(s) = Len(t),
         \A i \in 1 .. Len(s) : s[i] = t[i]
  PROVE  s = t
OBVIOUS

(* The string in a buffer ends at its first NUL. *)
LEMMA TextEnds ==
  ASSUME NEW n \in Nat, NEW W, NEW b \in [1 .. n -> W],
         NEW L, NEW line \in Seq(L), Len(line) < n, b[Len(line) + 1] = NUL,
         \A j \in 1 .. Len(line) : b[j] = line[j] /\ line[j] # NUL
  PROVE  Text(b) = line
<1> DEFINE k == Len(line) + 1
           ends == {i \in DOMAIN b : b[i] = NUL}
           first == CHOOSE i \in ends : \A j \in ends : i <= j
<1>1. k \in ends /\ \A j \in ends : k <= j
  OBVIOUS
<1>2. first \in ends /\ \A j \in ends : first <= j
  BY <1>1
<1>3. first = k
  BY <1>1, <1>2
<1>4. Text(b) = SubSeq(b, 1, k - 1)
  BY <1>3 DEF Text
<1>5. b \in Seq(W) /\ Len(b) = n
  OBVIOUS
<1>6. /\ SubSeq(b, 1, k - 1) \in Seq(W) /\ Len(SubSeq(b, 1, k - 1)) = k - 1
      /\ \A j \in 1 .. k - 1 : SubSeq(b, 1, k - 1)[j] = b[j]
  BY <1>5
<1>7. QED
  BY <1>4, <1>6, SameLine

(* A line that fits is read back from a buffer that ends in NUL. *)
LEMMA StrncpyText ==
  ASSUME NEW line, IsLine(line), NEW W, NEW b \in [1 .. SHELL_BUF_LEN -> W], b[SHELL_BUF_LEN] = NUL
  PROVE  /\ Text(Strncpy(b, line)) = line
         /\ Strncpy(b, line)[SHELL_BUF_LEN] = NUL
<1> DEFINE c == Strncpy(b, line)
<1>1. /\ SHELL_BUF_LEN \in Nat /\ Len(line) + 1 \in 1 .. SHELL_BUF_LEN
  BY ShellAssumption DEF IsLine
<1>2. DOMAIN c = 1 .. SHELL_BUF_LEN /\ c[SHELL_BUF_LEN] = NUL
  BY <1>1 DEF Strncpy
<1>3. c \in [1 .. SHELL_BUF_LEN -> Range(c)]
  BY <1>2 DEF Strncpy, Range
<1>4. c[Len(line) + 1] = NUL /\ \A j \in 1 .. Len(line) : c[j] = line[j]
  BY <1>1 DEF Strncpy
<1>5. \A j \in 1 .. Len(line) : line[j] # NUL
  BY LineFacts
<1>6. line \in Seq(Range(line)) /\ Len(line) < SHELL_BUF_LEN
  BY <1>1, LineFacts DEF IsLine
<1> HIDE DEF c
<1>7. Text(c) = line
  BY <1>1, <1>3, <1>4, <1>5, <1>6, TextEnds
<1>8. QED
  BY <1>2, <1>7 DEF c

LEMMA LineAgrees == ASSUME NEW line, IsLine(line) PROVE Agrees(line, line)
<1>1. /\ SHELL_BUF_LEN \in Nat \ {0, 1, 2} /\ line \in Seq(Range(line))
      /\ Len(line) \in 1 .. SHELL_BUF_LEN - 1
  BY ShellAssumption DEF IsLine
<1>2. line \in Seq(Range(line) \cup {JUNK})
  BY <1>1
<1>3. QED
  BY <1>1, <1>2 DEF Agrees

LEMMA Behind ==
  ASSUME NEW S, NEW a \in Seq(S), NEW b \in Seq(S)
  PROVE  a \o b \in Seq(S) /\ Len(a \o b) = Len(a) + Len(b) /\ \A i \in 1 .. Len(a) : (a \o b)[i] = a[i]
OBVIOUS

(* A copy of a copy agrees with the line as well. *)
LEMMA CopyAgrees ==
  ASSUME NEW line, IsLine(line), NEW s, Agrees(s, line), NEW c \in Copies(s)
  PROVE  Agrees(c, line)
<1> DEFINE n == SHELL_BUF_LEN
           S == Range(line) \cup {JUNK}
<1>1. n \in Nat \ {0, 1, 2} /\ MAX_ARGS \in Nat /\ Len(line) \in 1 .. n - 1 /\ s \in Seq(S) /\ Len(s) \in Nat
  BY ShellAssumption DEF IsLine, Agrees
<1>2. CASE Len(line) < n - 1
  <2>1. s = line
    BY <1>2 DEF Agrees
  <2>2. Copies(s) = {s}
    BY <1>2, <2>1 DEF Copies
  <2>3. QED
    BY <2>2
<1>3. CASE Len(line) = n - 1
  <2>1. Len(s) >= n - 1 /\ \A i \in 1 .. n - 2 : s[i] = line[i]
    BY <1>3 DEF Agrees
  <2>2. ~(Len(s) < n - 1)
    BY <1>1, <2>1
  <2>3. PICK last \in {s[n - 1], JUNK}, k \in 0 .. MAX_ARGS :
          c = RunOn(s, last, k)
    BY <2>2 DEF Copies
  <2> DEFINE a == SubSeq(s, 1, n - 2)
             b == Append(a, last)
             j == [i \in 1 .. k |-> JUNK]
  <2>4. n - 2 \in Nat /\ k \in Nat
    BY <1>1
  <2>5. c = b \o j
    BY <2>3 DEF RunOn
  <2>6. last \in S
    BY <1>1, <2>1
  <2>7. a \in Seq(S) /\ Len(a) = n - 2 /\ \A i \in 1 .. n - 2 : a[i] = s[i]
    BY <1>1, <2>1
  <2> HIDE DEF a
  <2>8. b \in Seq(S) /\ Len(b) = n - 1 /\ \A i \in 1 .. n - 2 : b[i] = a[i]
    BY <1>1, <2>6, <2>7
  <2>9. j \in Seq(S) /\ Len(j) = k
    <3>1. j \in [1 .. k -> S]
      OBVIOUS
    <3> HIDE DEF j, S
    <3>2. QED
      BY <2>4, <3>1
  <2> HIDE DEF b, j, S
  <2>10. c \in Seq(S) /\ Len(c) = (n - 1) + k /\ \A i \in 1 .. n - 2 : c[i] = b[i]
    <3>1. c \in Seq(S) /\ Len(c) = Len(b) + Len(j) /\ \A i \in 1 .. Len(b) : c[i] = b[i]
      BY <2>5, <2>8, <2>9, Behind
    <3>2. \A i \in 1 .. n - 2 : i \in 1 .. n - 1
      BY <1>1
    <3> HIDE DEF n
    <3>3. QED
      BY <2>8, <2>9, <3>1, <3>2
  <2>11. Len(c) >= n - 1
    BY <1>1, <2>4, <2>10
  <2>12. \A i \in 1 .. n - 2 : c[i] = line[i]
    BY <2>1, <2>7, <2>8, <2>10
  <2>13. c \in Seq(Range(line) \cup {JUNK}) /\ ~(Len(line) < n - 1)
    BY <1>1, <1>3, <2>10 DEF S
  <2> HIDE DEF n
  <2>14. QED
    BY <2>11, <2>12, <2>13 DEF Agrees, n
<1>4. QED
  BY <1>1, <1>2, <1>3

(* What tokenize keeps of a sequence. *)
LEMMA Tokens ==
  ASSUME NEW S, NEW s \in Seq(S)
  PROVE  \E k \in Nat : /\ k <= Len(s) /\ k <= MAX_ARGS - 1
                        /\ \A i \in Nat : i <= Len(s) /\ i <= MAX_ARGS - 1 => i <= k
                        /\ DOMAIN tokenize(s) = 1 .. k
                        /\ \A i \in 1 .. k : tokenize(s)[i] = s[i]
<1> DEFINE k == IF Len(s) < MAX_ARGS - 1 THEN Len(s) ELSE MAX_ARGS - 1
<1>1. MAX_ARGS - 1 \in Nat /\ Len(s) \in Nat
  BY ShellAssumption
<1>2. /\ k \in Nat /\ k <= Len(s) /\ k <= MAX_ARGS - 1
      /\ \A i \in Nat : i <= Len(s) /\ i <= MAX_ARGS - 1 => i <= k
  BY <1>1
<1>3. tokenize(s) = SubSeq(s, 1, k)
  BY DEF tokenize
<1> HIDE DEF k
<1>4. DOMAIN SubSeq(s, 1, k) = 1 .. k /\ \A i \in 1 .. k : SubSeq(s, 1, k)[i] = s[i]
  BY <1>1, <1>2
<1>5. QED
  BY <1>2, <1>3, <1>4

(* The words of such a copy follow the line. *)
LEMMA WordsFollow ==
  ASSUME NEW line, IsLine(line), NEW c, Agrees(c, line)
  PROVE  Follows(tokenize(c), line)
<1> DEFINE n == SHELL_BUF_LEN
<1>1. n \in Nat \ {0, 1, 2} /\ Len(line) \in 1 .. n - 1 /\ line \in Seq(Range(line))
  BY ShellAssumption DEF IsLine
<1>2. PICK k \in Nat : /\ k <= Len(line) /\ k <= MAX_ARGS - 1
                       /\ DOMAIN tokenize(line) = 1 .. k
                       /\ \A i \in 1 .. k : tokenize(line)[i] = line[i]
  BY <1>1, Tokens
<1>3. CASE Len(line) < n - 1
  <2>1. c = line
    BY <1>3 DEF Agrees
  <2>2. QED
    BY <1>2, <2>1 DEF Follows
<1>4. CASE Len(line) = n - 1
  <2>1. /\ c \in Seq(Range(line) \cup {JUNK}) /\ Len(c) >= n - 1
        /\ \A i \in 1 .. n - 2 : c[i] = line[i]
    BY <1>4 DEF Agrees
  <2>2. PICK m \in Nat : /\ \A i \in Nat : i <= Len(c) /\ i <= MAX_ARGS - 1 => i <= m
                         /\ DOMAIN tokenize(c) = 1 .. m
                         /\ \A i \in 1 .. m : tokenize(c)[i] = c[i]
    BY <2>1, Tokens
  <2>3. ASSUME NEW i \in DOMAIN tokenize(line), i < n - 1
        PROVE  i \in DOMAIN tokenize(c) /\ tokenize(c)[i] = line[i]
    <3>1. i \in Nat \ {0} /\ i <= MAX_ARGS - 1 /\ i \in 1 .. n - 2 /\ i <= Len(c)
      BY <1>1, <1>2, <2>1, <2>3, ShellAssumption
    <3>2. i <= m
      BY <2>2, <3>1
    <3>3. QED
      BY <2>1, <2>2, <3>1, <3>2
  <2>4. QED
    BY <1>1, <1>4, <2>3 DEF Follows
<1>5. QED
  BY <1>1, <1>3, <1>4

(* Lines entered less than a turn of the ring apart have different slots. *)
LEMMA SlotsDiffer ==
  ASSUME NEW a \in Nat, NEW b \in Nat, a < b, b - a < HISTORY_DEPTH
  PROVE  a % HISTORY_DEPTH # b % HISTORY_DEPTH
<1> DEFINE n == HISTORY_DEPTH
<1>1. n \in Nat \ {0}
  BY ShellAssumption
<1>2. /\ a = n * (a \div n) + (a % n) /\ a \div n \in Int
      /\ b = n * (b \div n) + (b % n) /\ b \div n \in Int
      /\ a % n \in Int /\ b % n \in Int
  BY <1>1
<1>3. SUFFICES ASSUME a % n = b % n PROVE FALSE
  OBVIOUS
<1>4. b - a = n * (b \div n) - n * (a \div n)
  BY <1>1, <1>2, <1>3
<1> DEFINE q == (b \div n) - (a \div n)
<1>5. q \in Int /\ b - a = n * q
  BY <1>1, <1>2, <1>4
<1> HIDE DEF q, n
<1>6. n * q > 0 /\ n * q < n
  BY <1>5 DEF n
<1>7. CASE q >= 1
  BY <1>1, <1>5, <1>6, <1>7
<1>8. CASE q <= 0
  BY <1>1, <1>5, <1>6, <1>8
<1>9. QED
  BY <1>5, <1>7, <1>8

English == \E line \in Range(entered) : is_english_intent(line)

(* The lines a command may have come from. *)
Origins == Range(entered) \cup (IF English THEN NlpLines ELSE {})

Buffer == [1 .. SHELL_BUF_LEN -> Words \cup {NUL}]

KeyboardInv ==
  /\ typed \in Seq(Words) /\ cursor_pos \in 0 .. SHELL_BUF_LEN - 1 /\ Len(typed) = cursor_pos
  /\ input_buf \in Buffer
  /\ \A i \in 1 .. cursor_pos : input_buf[i] = typed[i]
  /\ cursor_pos > 0 => input_buf[cursor_pos + 1] = NUL

HistoryInv ==
  /\ entered \in Seq(Seq(Words)) /\ \A i \in DOMAIN entered : IsLine(entered[i])
  /\ hist_count = Len(entered)
  /\ history \in [0 .. HISTORY_DEPTH - 1 -> Buffer]
  /\ \A k \in 0 .. HISTORY_DEPTH - 1 : history[k][SHELL_BUF_LEN] = NUL
  /\ \A i \in DOMAIN entered :
       i > hist_count - HISTORY_DEPTH => Text(history[(i - 1) % HISTORY_DEPTH]) = entered[i]

ExecInv == /\ exec # NoLine => \E line \in Origins : Agrees(exec, line)
           /\ argv # <<>> => \E line \in Origins : Follows(argv, line)

LinesInv == session \in Sessions /\ KeyboardInv /\ HistoryInv /\ ExecInv

LEMMA OriginIsLine ==
  ASSUME HistoryInv, NEW line \in Origins
  PROVE  IsLine(line)
<1>1. CASE line \in Range(entered)
  BY <1>1 DEF HistoryInv, Range
<1>2. CASE line \in NlpLines
  BY <1>2, LineAssumption DEF IsLine
<1>3. QED
  BY <1>1, <1>2 DEF Origins

LEMMA LinesFollow == LinesInv => LinesKept
<1> SUFFICES ASSUME LinesInv PROVE LinesKept
  OBVIOUS
<1>1. KeyboardInv /\ HistoryInv /\ ExecInv
  BY DEF LinesInv
<1>2. Len(typed) = cursor_pos /\ cursor_pos < SHELL_BUF_LEN
  BY <1>1, ShellAssumption DEF KeyboardInv
<1>3. SubSeq(input_buf, 1, cursor_pos) = typed
  <2>1. typed \in Seq(Words) /\ cursor_pos \in 0 .. SHELL_BUF_LEN - 1 /\ Len(typed) = cursor_pos
    BY <1>1 DEF KeyboardInv
  <2>2. input_buf \in Seq(Words \cup {NUL}) /\ Len(input_buf) = SHELL_BUF_LEN
    BY <1>1, ShellAssumption DEF KeyboardInv, Buffer
  <2>3. /\ SubSeq(input_buf, 1, cursor_pos) \in Seq(Words \cup {NUL})
        /\ Len(SubSeq(input_buf, 1, cursor_pos)) = cursor_pos
        /\ \A i \in 1 .. cursor_pos : SubSeq(input_buf, 1, cursor_pos)[i] = input_buf[i]
    BY <2>1, <2>2, ShellAssumption
  <2>4. \A i \in 1 .. cursor_pos : SubSeq(input_buf, 1, cursor_pos)[i] = typed[i]
    BY <1>1, <2>3 DEF KeyboardInv
  <2>5. QED
    BY <2>1, <2>3, <2>4, SameLine
<1>4. ASSUME argv # <<>>
      PROVE  \/ \E line \in Range(entered) : Follows(argv, line)
             \/ /\ \E line \in NlpLines : Follows(argv, line)
                /\ \E line \in Range(entered) : is_english_intent(line)
  <2>1. PICK line \in Origins : Follows(argv, line)
    BY <1>1, <1>4 DEF ExecInv
  <2>2. QED
    BY <2>1 DEF Origins, English
<1>5. QED
  BY <1>1, <1>2, <1>3, <1>4 DEF LinesKept, KeyboardInv, HistoryInv

(* A step that enters no line leaves the origins alone. *)
LEMMA OriginsSame == UNCHANGED entered => UNCHANGED Origins
BY DEF Origins, English

LEMMA CharacterLines ==
  ASSUME LinesInv, NEW k \in UNION {Range(line) : line \in session}, Character(k), UNCHANGED session
  PROVE  LinesInv'
<1>1. /\ typed \in Seq(Words) /\ cursor_pos \in 0 .. SHELL_BUF_LEN - 1 /\ Len(typed) = cursor_pos
      /\ input_buf \in Buffer /\ SHELL_BUF_LEN \in Nat
  BY ShellAssumption DEF LinesInv, KeyboardInv
<1>2. k \in Words
  BY DEF Words, LinesInv
<1>3. KeyboardInv'
  <2>1. CASE cursor_pos < SHELL_BUF_LEN - 1
    <3>1. /\ input_buf' = [input_buf EXCEPT ![cursor_pos + 1] = k, ![cursor_pos + 2] = NUL]
          /\ cursor_pos' = cursor_pos + 1 /\ typed' = Append(typed, k)
      BY <2>1 DEF Character
    <3>2. /\ cursor_pos + 1 \in 1 .. SHELL_BUF_LEN /\ cursor_pos + 2 \in 1 .. SHELL_BUF_LEN
          /\ cursor_pos' \in 0 .. SHELL_BUF_LEN - 1
      BY <1>1, <2>1, <3>1
    <3>3. /\ input_buf' \in Buffer /\ input_buf'[cursor_pos + 1] = k /\ input_buf'[cursor_pos + 2] = NUL
          /\ \A i \in 1 .. cursor_pos : input_buf'[i] = input_buf[i]
      BY <1>1, <1>2, <3>1, <3>2 DEF Buffer
    <3>4. /\ typed' \in Seq(Words) /\ Len(typed') = cursor_pos + 1 /\ typed'[cursor_pos + 1] = k
          /\ \A i \in 1 .. cursor_pos : typed'[i] = typed[i]
      BY <1>1, <1>2, <3>1
    <3>5. ASSUME NEW i \in 1 .. cursor_pos' PROVE input_buf'[i] = typed'[i]
      <4>1. i \in 1 .. cursor_pos \/ i = cursor_pos + 1
        BY <1>1, <3>1
      <4>2. \A j \in 1 .. cursor_pos : input_buf[j] = typed[j]
        BY DEF LinesInv, KeyboardInv
      <4>3. QED
        BY <3>3, <3>4, <4>1, <4>2
    <3>6. input_buf'[cursor_pos' + 1] = NUL
      BY <1>1, <3>1, <3>3
    <3>7. QED
      BY <3>1, <3>2, <3>3, <3>4, <3>5, <3>6 DEF KeyboardInv
  <2>2. CASE ~(cursor_pos < SHELL_BUF_LEN - 1)
    <3>1. UNCHANGED <<input_buf, cursor_pos, typed>>
      BY <2>2 DEF Character
    <3>2. QED
      BY <3>1 DEF LinesInv, KeyboardInv
  <2>3. QED
    BY <2>1, <2>2
<1>4. UNCHANGED <<history, hist_count, entered, exec, argv, session>>
  BY DEF Character
<1>5. HistoryInv' /\ ExecInv'
  BY <1>4, OriginsSame DEF LinesInv, HistoryInv, ExecInv
<1>6. QED
  BY <1>3, <1>4, <1>5 DEF LinesInv

LEMMA BackspaceLines ==
  ASSUME LinesInv, Backspace, UNCHANGED session
  PROVE  LinesInv'
<1>1. /\ typed \in Seq(Words) /\ cursor_pos \in 1 .. SHELL_BUF_LEN - 1 /\ Len(typed) = cursor_pos
      /\ input_buf \in Buffer /\ SHELL_BUF_LEN \in Nat
  BY ShellAssumption DEF LinesInv, KeyboardInv, Backspace
<1>2. /\ cursor_pos' = cursor_pos - 1 /\ input_buf' = [input_buf EXCEPT ![cursor_pos] = NUL]
      /\ typed' = SubSeq(typed, 1, cursor_pos - 1)
  BY <1>1 DEF Backspace, Front
<1>3. /\ input_buf' \in Buffer /\ input_buf'[cursor_pos] = NUL
      /\ \A i \in 1 .. cursor_pos - 1 : input_buf'[i] = input_buf[i]
  BY <1>1, <1>2 DEF Buffer
<1>4. /\ typed' \in Seq(Words) /\ Len(typed') = cursor_pos - 1
      /\ \A i \in 1 .. cursor_pos - 1 : typed'[i] = typed[i]
  BY <1>1, <1>2
<1>5. /\ cursor_pos' \in 0 .. SHELL_BUF_LEN - 1 /\ input_buf'[cursor_pos' + 1] = NUL
      /\ \A i \in 1 .. cursor_pos' : input_buf'[i] = typed'[i]
  BY <1>1, <1>2, <1>3, <1>4 DEF LinesInv, KeyboardInv
<1>6. KeyboardInv'
  BY <1>2, <1>3, <1>4, <1>5 DEF KeyboardInv
<1>7. UNCHANGED <<history, hist_count, entered, exec, argv, session>>
  BY DEF Backspace
<1>8. HistoryInv' /\ ExecInv'
  BY <1>7, OriginsSame DEF LinesInv, HistoryInv, ExecInv
<1>9. QED
  BY <1>6, <1>7, <1>8 DEF LinesInv

(* What is typed is a line once there is a word, and Enter reads it back   *)
(* from the buffer.                                                        *)
LEMMA EnteredLine ==
  ASSUME LinesInv, Enter, cursor_pos > 0
  PROVE  /\ typed \in Seq(Words) /\ IsLine(typed) /\ Text(input_buf') = typed
         /\ typed # NoLine
<1>1. /\ typed \in Seq(Words) /\ cursor_pos \in 1 .. SHELL_BUF_LEN - 1 /\ Len(typed) = cursor_pos
      /\ input_buf \in Buffer /\ SHELL_BUF_LEN \in Nat
      /\ \A i \in 1 .. cursor_pos : input_buf[i] = typed[i]
  BY ShellAssumption DEF LinesInv, KeyboardInv
<1>2. /\ typed \in Seq(Range(typed)) /\ Range(typed) \subseteq Words
  BY <1>1 DEF Range
<1>3. IsLine(typed)
  BY <1>1, <1>2, LineAssumption DEF IsLine
<1>4. \A i \in 1 .. cursor_pos : typed[i] # NUL
  BY <1>1, <1>3, LineFacts
<1>5. /\ input_buf' \in [1 .. SHELL_BUF_LEN -> Words \cup {NUL}] /\ input_buf'[cursor_pos + 1] = NUL
      /\ \A i \in 1 .. cursor_pos : input_buf'[i] = typed[i]
  <2> DEFINE c == cursor_pos + 1
             b == input_buf'
  <2>1. b = [input_buf EXCEPT ![c] = NUL]
    BY DEF Enter
  <2>2. c \in 1 .. SHELL_BUF_LEN /\ \A i \in 1 .. cursor_pos : i \in 1 .. SHELL_BUF_LEN /\ i # c
    BY <1>1
  <2>3. input_buf \in [1 .. SHELL_BUF_LEN -> Words \cup {NUL}]
    BY <1>1 DEF Buffer
  <2> HIDE DEF b, c
  <2>4. b \in [1 .. SHELL_BUF_LEN -> Words \cup {NUL}] /\ b[c] = NUL
    BY <2>1, <2>2, <2>3
  <2>5. \A i \in 1 .. cursor_pos : b[i] = typed[i]
    BY <1>1, <2>1, <2>2, <2>3
  <2>6. QED
    BY <2>4, <2>5 DEF b, c
<1>6. Text(input_buf') = typed
  <2>1. /\ Len(typed) < SHELL_BUF_LEN /\ input_buf'[Len(typed) + 1] = NUL
        /\ \A j \in 1 .. Len(typed) : input_buf'[j] = typed[j] /\ typed[j] # NUL
    BY <1>1, <1>4, <1>5
  <2> DEFINE b == input_buf'
  <2>2. b \in [1 .. SHELL_BUF_LEN -> Words \cup {NUL}]
    BY <1>5
  <2>3. /\ Len(typed) < SHELL_BUF_LEN /\ b[Len(typed) + 1] = NUL
        /\ \A j \in 1 .. Len(typed) : b[j] = typed[j] /\ typed[j] # NUL
    BY <2>1
  <2> HIDE DEF b
  <2>4. Text(b) = typed
    BY <1>1, <2>2, <2>3, TextEnds
  <2>5. QED
    BY <2>4 DEF b
<1>7. typed # NoLine
  <2>1. 1 \in 1 .. cursor_pos /\ NoLine[1] = NUL
    BY <1>1 DEF NoLine
  <2>2. QED
    BY <1>4, <2>1
<1>8. QED
  BY <1>1, <1>3, <1>6, <1>7

LEMMA EnterLines ==
  ASSUME LinesInv, Enter, UNCHANGED session
  PROVE  LinesInv'
<1>1. /\ cursor_pos' = 0 /\ typed' = <<>> /\ argv' = argv
      /\ input_buf' = [input_buf EXCEPT ![cursor_pos + 1] = NUL]
  BY DEF Enter
<1>2. KeyboardInv'
  <2>1. input_buf' \in Buffer
    BY <1>1, ShellAssumption DEF LinesInv, KeyboardInv, Buffer
  <2>2. QED
    BY <1>1, <2>1, ShellAssumption DEF KeyboardInv
<1>3. KeyboardInv /\ HistoryInv /\ ExecInv /\ session' \in Sessions
  BY DEF LinesInv
<1>4. CASE ~(cursor_pos > 0)
  <2>1. UNCHANGED <<history, hist_count, exec, entered>>
    BY <1>4 DEF Enter
  <2>2. HistoryInv' /\ ExecInv'
    BY <1>1, <1>3, <2>1, OriginsSame DEF HistoryInv, ExecInv
  <2>3. QED
    BY <1>2, <1>3, <2>2 DEF LinesInv
<1>5. CASE cursor_pos > 0
  <2> DEFINE n == HISTORY_DEPTH
             slot == hist_count % n
             line == typed
  <2>1. /\ line \in Seq(Words) /\ IsLine(line) /\ Text(input_buf') = line /\ line # NoLine
    BY <1>5, EnteredLine
  <2>2. /\ history' = [history EXCEPT ![slot] = Strncpy(@, line)] /\ hist_count' = hist_count + 1
        /\ exec' = line /\ entered' = Append(entered, line)
    BY <1>5, <2>1 DEF Enter, Remember
  <2>3. /\ entered \in Seq(Seq(Words)) /\ hist_count = Len(entered) /\ hist_count \in Nat
        /\ history \in [0 .. n - 1 -> Buffer] /\ n \in Nat \ {0}
        /\ \A k \in 0 .. n - 1 : history[k][SHELL_BUF_LEN] = NUL
    BY <1>3, ShellAssumption DEF HistoryInv
  <2>4. slot \in 0 .. n - 1
    BY <2>3
  <2> HIDE DEF slot, n, line
  <2>5. /\ entered' \in Seq(Seq(Words)) /\ Len(entered') = hist_count + 1
        /\ DOMAIN entered = 1 .. hist_count /\ DOMAIN entered' = 1 .. hist_count + 1
        /\ \A i \in 1 .. hist_count : entered'[i] = entered[i]
        /\ entered'[hist_count + 1] = line
    BY <2>1, <2>2, <2>3
  <2>6. ASSUME NEW i \in DOMAIN entered' PROVE IsLine(entered'[i])
    <3>1. i \in 1 .. hist_count \/ i = hist_count + 1
      BY <2>3, <2>5
    <3>2. \A j \in 1 .. hist_count : IsLine(entered[j])
      BY <1>3, <2>5 DEF HistoryInv
    <3>3. QED
      BY <2>1, <2>5, <3>1, <3>2
  <2>7. /\ Text(history'[slot]) = line /\ history'[slot][SHELL_BUF_LEN] = NUL /\ history'[slot] \in Buffer
    <3>1. history[slot] \in [1 .. SHELL_BUF_LEN -> Words \cup {NUL}] /\ history[slot][SHELL_BUF_LEN] = NUL
      BY <2>3, <2>4 DEF Buffer
    <3>2. history'[slot] = Strncpy(history[slot], line)
      BY <2>2, <2>3, <2>4
    <3>3. \A i \in 1 .. Len(line) : line[i] \in Words
      BY <2>1
    <3>4. Strncpy(history[slot], line) \in Buffer
      BY <2>1, <3>1, <3>3 DEF Strncpy, Buffer, IsLine
    <3>5. QED
      BY <2>1, <3>1, <3>2, <3>4, StrncpyText
  <2>8. /\ history' \in [0 .. n - 1 -> Buffer]
        /\ \A k \in 0 .. n - 1 : k # slot => history'[k] = history[k]
    BY <2>2, <2>3, <2>4, <2>7
  <2>9. ASSUME NEW i \in DOMAIN entered', i > hist_count' - n
        PROVE  Text(history'[(i - 1) % n]) = entered'[i]
    <3>1. CASE i = hist_count + 1
      <4>1. (i - 1) % n = slot
        BY <2>3, <3>1 DEF slot
      <4>2. QED
        BY <2>5, <2>7, <3>1, <4>1
    <3>2. CASE i \in 1 .. hist_count
      <4>1. i - 1 \in Nat /\ i - 1 < hist_count /\ hist_count - (i - 1) < n
        BY <2>2, <2>3, <2>9, <3>2
      <4>2. (i - 1) % n # slot
        BY <2>3, <4>1, SlotsDiffer DEF slot, n
      <4>3. (i - 1) % n \in 0 .. n - 1
        BY <2>3, <4>1
      <4>4. i > hist_count - n /\ i \in DOMAIN entered
        BY <2>2, <2>3, <2>5, <2>9, <3>2
      <4>5. Text(history[(i - 1) % n]) = entered[i]
        BY <1>3, <4>4 DEF HistoryInv, n
      <4>6. QED
        BY <2>5, <2>8, <3>2, <4>2, <4>3, <4>5
    <3>3. i \in 1 .. hist_count \/ i = hist_count + 1
      BY <2>3, <2>5
    <3>4. QED
      BY <3>1, <3>2, <3>3
  <2>10. HistoryInv'
    BY <2>2, <2>3, <2>5, <2>6, <2>7, <2>8, <2>9 DEF HistoryInv, n
  <2>11. Range(entered) \subseteq Range(entered') /\ line \in Range(entered')
    <3>1. ASSUME NEW x \in Range(entered) PROVE x \in Range(entered')
      <4>1. PICK i \in 1 .. hist_count : x = entered[i]
        BY <2>5 DEF Range
      <4>2. i \in DOMAIN entered' /\ x = entered'[i]
        BY <2>3, <2>5, <4>1
      <4>3. QED
        BY <4>2 DEF Range
    <3>2. hist_count + 1 \in DOMAIN entered'
      BY <2>3, <2>5
    <3>3. QED
      BY <2>5, <3>1, <3>2 DEF Range
  <2>12. Origins \subseteq Origins' /\ line \in Origins'
    BY <2>11 DEF Origins, English
  <2>13. ExecInv'
    BY <1>1, <1>3, <2>1, <2>2, <2>12, LineAgrees DEF ExecInv
  <2>14. QED
    BY <1>2, <1>3, <2>10, <2>13 DEF LinesInv
<1>6. QED
  BY <1>4, <1>5

LEMMA RoutedLines ==
  ASSUME LinesInv, Routed
  PROVE  ExecInv'
<1>1. PICK mapped \in NlpLines : exec' \in Copies(mapped)
  BY DEF Routed
<1>2. UNCHANGED <<entered, argv>> /\ exec # NoLine /\ is_english_intent(exec)
  BY DEF Routed, Executing, shell
<1>3. PICK line \in Origins : Agrees(exec, line)
  BY <1>2 DEF LinesInv, ExecInv
<1>4. IsLine(line)
  BY OriginIsLine DEF LinesInv
<1>5. English
  <2>1. CASE line \in Range(entered)
    <3>1. exec[1] = line[1] /\ (Len(exec) > 1 => Len(line) > 1)
      BY <1>3, <1>4, ShellAssumption DEF Agrees, IsLine
    <3>2. QED
      BY <1>2, <2>1, <3>1 DEF English, is_english_intent
  <2>2. CASE line \notin Range(entered)
    BY <2>2 DEF Origins
  <2>3. QED
    BY <2>1, <2>2
<1>6. mapped \in Origins'
  BY <1>2, <1>5 DEF Origins, English
<1>7. IsLine(mapped)
  BY LineAssumption DEF IsLine
<1>8. Agrees(exec', mapped)
  BY <1>1, <1>7, LineAgrees, CopyAgrees
<1>9. QED
  BY <1>2, <1>6, <1>8, OriginsSame DEF LinesInv, ExecInv

LEMMA BuiltinLines ==
  ASSUME LinesInv, Builtin
  PROVE  ExecInv'
<1>1. PICK copy \in Copies(exec) : argv' = tokenize(copy)
  BY DEF Builtin
<1>2. exec # NoLine /\ UNCHANGED entered /\ (exec' = NoLine \/ exec' = exec)
  BY DEF Builtin, Executing, shell, Plain, cmd_ai, cmd_run, shutdown, Done
<1>3. PICK line \in Origins : Agrees(exec, line)
  BY <1>2 DEF LinesInv, ExecInv
<1>4. IsLine(line)
  BY OriginIsLine DEF LinesInv
<1>5. Follows(argv', line)
  BY <1>1, <1>3, <1>4, CopyAgrees, WordsFollow
<1>6. Origins' = Origins
  BY <1>2, OriginsSame
<1>7. QED
  BY <1>2, <1>3, <1>5, <1>6 DEF ExecInv

LEMMA StepLines == LinesInv /\ [Next]_vars => LinesInv'
<1> SUFFICES ASSUME LinesInv, [Next]_vars PROVE LinesInv'
  OBVIOUS
<1>1. CASE \E k \in UNION {Range(line) : line \in session} : Character(k)
  <2>1. UNCHANGED session
    BY <1>1 DEF Next, vars
  <2>2. QED
    BY <1>1, <2>1, CharacterLines
<1>2. CASE Backspace
  <2>1. UNCHANGED session
    BY <1>2 DEF Next, vars
  <2>2. QED
    BY <1>2, <2>1, BackspaceLines
<1>3. CASE Enter
  <2>1. UNCHANGED session
    BY <1>3 DEF Next, vars
  <2>2. QED
    BY <1>3, <2>1, EnterLines
<1>4. ASSUME UNCHANGED shell, ExecInv' PROVE LinesInv'
  <2>1. UNCHANGED <<input_buf, cursor_pos, history, hist_count, typed, entered, session>>
    BY <1>4 DEF shell, Next, vars
  <2>2. QED
    BY <1>4, <2>1 DEF LinesInv, KeyboardInv, HistoryInv
<1>5. CASE Routed
  <2>1. UNCHANGED shell
    BY <1>5 DEF Routed
  <2>2. QED
    BY <1>4, <1>5, <2>1, RoutedLines
<1>6. CASE Builtin
  <2>1. UNCHANGED shell
    BY <1>6 DEF Builtin
  <2>2. QED
    BY <1>4, <1>6, <2>1, BuiltinLines
<1>7. CASE ScriptAlloc \/ ScriptScope \/ ScriptEnd \/ UNCHANGED vars
  <2>1. UNCHANGED shell /\ UNCHANGED argv /\ (exec' = exec \/ exec' = NoLine)
    BY <1>7 DEF ScriptAlloc, ScriptScope, ScriptEnd, Scripting, Done, vars
  <2>2. Origins' = Origins
    BY <2>1, OriginsSame DEF shell
  <2>3. ExecInv'
    BY <2>1, <2>2 DEF LinesInv, ExecInv
  <2>4. QED
    BY <1>4, <2>1, <2>3
<1>8. QED
  BY <1>1, <1>2, <1>3, <1>5, <1>6, <1>7 DEF Next

LEMMA InitLines == Init => LinesInv
<1> SUFFICES ASSUME Init PROVE LinesInv
  OBVIOUS
<1>1. KeyboardInv
  BY ShellAssumption DEF Init, KeyboardInv, Buffer
<1>2. /\ entered = <<>> /\ hist_count = 0
      /\ history = [i \in 0 .. HISTORY_DEPTH - 1 |-> [j \in 1 .. SHELL_BUF_LEN |-> NUL]]
  BY DEF Init
<1>3. history \in [0 .. HISTORY_DEPTH - 1 -> Buffer]
      /\ \A k \in 0 .. HISTORY_DEPTH - 1 : history[k][SHELL_BUF_LEN] = NUL
  BY <1>2, ShellAssumption DEF Buffer
<1>4. HistoryInv
  <2>1. entered \in Seq(Seq(Words)) /\ Len(entered) = 0 /\ DOMAIN entered = {}
    BY <1>2
  <2>2. QED
    BY <1>2, <1>3, <2>1 DEF HistoryInv
<1>5. ExecInv
  BY DEF Init, ExecInv
<1>6. QED
  BY <1>1, <1>4, <1>5 DEF Init, LinesInv

(* The line buffer is what the user sees, the history ring holds the last  *)
(* lines entered, and a command runs with the words of a line entered or   *)
(* of the router's answer to one, but for the last of a line that leaves   *)
(* no terminator in its copy (shell_on_key, execute_line), for every size  *)
(* of the buffers.                                                         *)
THEOREM ShellLinesKept == Spec => []LinesKept
<1>1. LinesInv => LinesKept
  BY LinesFollow
<1>2. QED
  BY <1>1, InitLines, StepLines, PTL DEF Spec
=============================================================================
