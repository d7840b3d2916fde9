----------------------------- MODULE PmmProofs ------------------------------
(***************************************************************************)
(* For every size of memory, every map without overlapping areas and every *)
(* set of clients, the allocator's counter is exact and no frame is in two *)
(* hands; if the areas begin on frame boundaries, a frame in a hand is     *)
(* usable.                                                                 *)
(***************************************************************************)
EXTENDS Pmm, FiniteSetTheorems, TLAPS

(* The frames that the entries read so far have freed. *)
Opened == UNION {EntryFrames(mmap[i]) : i \in 1 .. entry - 1}

(* The frames in circulation come from the entries read so far, each of    *)
(* which was counted once.  Before pmm_init is done nobody holds a frame,  *)
(* and nothing has panicked.                                               *)
OpenedInv == /\ Free \subseteq Opened
             /\ \A c \in Client : held[c] \subseteq Opened
             /\ total_frames = Cardinality(Opened)
             /\ ~booted => panic = "no" /\ \A c \in Client : held[c] = {}

IInv == TypeOK /\ FreeCountExact /\ OpenedInv /\ HeldExclusive /\ PanicHonest

LEMMA MapType == \A m \in MemoryMaps : Len(m) \in Nat /\ DOMAIN m = 1 .. Len(m)
<1> SUFFICES ASSUME NEW m \in MemoryMaps
             PROVE  Len(m) \in Nat /\ DOMAIN m = 1 .. Len(m)
  OBVIOUS
<1>1. m \in Seq([base : Nat, len : Nat, available : BOOLEAN])
  BY MapAssumption
<1>2. QED
  BY <1>1

LEMMA FrameFinite == /\ IsFiniteSet(Frame) /\ Cardinality(Frame) = FRAMES_TOTAL
                     /\ \A S \in SUBSET Frame : /\ IsFiniteSet(S)
                                                /\ Cardinality(S) \in 0 .. FRAMES_TOTAL
<1>1. IsFiniteSet(Frame) /\ Cardinality(Frame) = FRAMES_TOTAL
  <2>1. 0 \in Int /\ FRAMES_TOTAL - 1 \in Int
    BY SizeAssumption
  <2>2. QED
    BY <2>1, FS_Interval, SizeAssumption DEF Frame
<1>2. ASSUME NEW S \in SUBSET Frame
      PROVE  IsFiniteSet(S) /\ Cardinality(S) \in 0 .. FRAMES_TOTAL
  <2>1. IsFiniteSet(S) /\ Cardinality(S) <= FRAMES_TOTAL
    BY <1>1, FS_Subset
  <2>2. Cardinality(S) \in Nat
    BY <2>1, FS_CardinalityType
  <2>3. QED
    BY <2>1, <2>2, SizeAssumption
<1>3. QED
  BY <1>1, <1>2

(* Entries free only frames of the bitmap, and so do all of them together. *)
LEMMA EntrySubset == /\ \A e : EntryFrames(e) \subseteq Frame
                     /\ KernelFrames \subseteq Frame
                     /\ Opened \subseteq Frame
BY DEF EntryFrames, KernelFrames, Opened

(* Taking frames out of circulation lowers the number of clear bits by as  *)
(* many.                                                                   *)
LEMMA TakeCount ==
  ASSUME used \subseteq Frame, NEW S \in SUBSET Free
  PROVE  /\ Frame \ (used \cup S) = Free \ S
         /\ Cardinality(Free \ S) = Cardinality(Free) - Cardinality(S)
         /\ Cardinality(S) <= Cardinality(Free)
<1>1. Free \in SUBSET Frame /\ S \in SUBSET Frame /\ Free \cap S = S
  BY DEF Free
<1>2. IsFiniteSet(Free)
  BY <1>1, FrameFinite
<1>3. Cardinality(Free \ S) = Cardinality(Free) - Cardinality(Free \cap S)
  BY <1>2, FS_Difference
<1>4. Cardinality(S) <= Cardinality(Free)
  BY <1>2, FS_Subset
<1>5. QED
  BY <1>1, <1>3, <1>4 DEF Free

(* Putting frames back raises it by as many. *)
LEMMA GiveCount ==
  ASSUME used \subseteq Frame, NEW S \in SUBSET used
  PROVE  /\ Frame \ (used \ S) = Free \cup S
         /\ Cardinality(Free \cup S) = Cardinality(Free) + Cardinality(S)
<1>1. Free \in SUBSET Frame /\ S \in SUBSET Frame /\ Free \cap S = {}
  BY DEF Free
<1>2. IsFiniteSet(Free) /\ IsFiniteSet(S)
  BY <1>1, FrameFinite
<1>3. Cardinality(Free \cup S)
        = Cardinality(Free) + Cardinality(S) - Cardinality(Free \cap S)
  BY <1>2, FS_Union
<1>4. Cardinality(Free) \in Nat /\ Cardinality(S) \in Nat
  BY <1>2, FS_CardinalityType
<1>5. QED
  BY <1>1, <1>3, <1>4, FS_EmptySet DEF Free

LEMMA InitIInv == Init => IInv
<1> SUFFICES ASSUME Init PROVE IInv
  OBVIOUS
<1>1. Free = {} /\ Opened = {}
  BY DEF Init, Free, Opened
<1>2. FreeCountExact /\ OpenedInv
  BY <1>1, FS_EmptySet DEF Init, FreeCountExact, OpenedInv
<1>3. mmap \in MemoryMaps /\ Len(mmap) \in Nat
  BY MapType DEF Init
<1>4. TypeOK
  <2>1. /\ entry \in 1 .. Len(mmap) + 1 /\ free_frames \in 0 .. FRAMES_TOTAL
        /\ last_alloc \in 0 .. FRAMES_TOTAL /\ total_frames \in Nat
    BY <1>3, SizeAssumption DEF Init
  <2>2. held \in [Client -> SUBSET Frame] /\ used \subseteq Frame
    BY DEF Init
  <2>3. QED
    BY <1>3, <2>1, <2>2 DEF Init, TypeOK
<1>5. QED
  BY <1>2, <1>4 DEF Init, IInv, HeldExclusive, PanicHonest

(* The counters are numbers, in order. *)
LEMMA CountType ==
  ASSUME IInv
  PROVE  free_frames \in Int /\ total_frames \in Int /\ free_frames <= total_frames
<1>1. free_frames \in 0 .. FRAMES_TOTAL /\ total_frames \in Nat
  BY DEF IInv, TypeOK
<1>2. free_frames <= total_frames
  BY DEF IInv, FreeCountExact
<1>3. QED
  BY <1>1, <1>2, SizeAssumption

LEMMA InitEntryStep == IInv /\ InitEntry => IInv'
<1> SUFFICES ASSUME IInv, InitEntry PROVE IInv'
  OBVIOUS
<1> DEFINE fs == EntryFrames(mmap[entry])
<1>1. /\ mmap \in MemoryMaps /\ Len(mmap) \in Nat /\ entry \in 1 .. Len(mmap)
      /\ DOMAIN mmap = 1 .. Len(mmap)
  <2>1. mmap \in MemoryMaps /\ entry \in 1 .. Len(mmap) + 1 /\ entry <= Len(mmap)
    BY DEF IInv, TypeOK, InitEntry
  <2>2. Len(mmap) \in Nat /\ DOMAIN mmap = 1 .. Len(mmap)
    BY <2>1, MapType
  <2>3. QED
    BY <2>1, <2>2
<1>2. fs \subseteq Frame /\ used \subseteq Frame /\ Opened \subseteq Frame
  BY EntrySubset DEF IInv, TypeOK
<1>3. fs \cap Opened = {}
  <2> SUFFICES ASSUME NEW i \in 1 .. entry - 1
               PROVE  fs \cap EntryFrames(mmap[i]) = {}
    BY DEF Opened
  <2>1. i \in DOMAIN mmap /\ entry \in DOMAIN mmap /\ i # entry
    BY <1>1
  <2>2. QED
    BY <1>1, <2>1, MapAssumption
<1>4. Opened' = Opened \cup fs
  <2>1. mmap' = mmap /\ entry' = entry + 1
    BY DEF InitEntry
  <2>2. 1 .. entry' - 1 = (1 .. entry - 1) \cup {entry}
    BY <1>1, <2>1
  <2>3. QED
    BY <2>1, <2>2 DEF Opened
<1>5. fs \subseteq used
  BY <1>2, <1>3 DEF IInv, OpenedInv, Free
<1> HIDE DEF fs
<1>6. /\ Free' = Free \cup fs
      /\ Cardinality(Free') = Cardinality(Free) + Cardinality(fs)
  BY <1>2, <1>5, GiveCount DEF InitEntry, Free, fs
<1>7. /\ Cardinality(Opened') = Cardinality(Opened) + Cardinality(fs)
      /\ Cardinality(fs) \in Nat /\ Cardinality(Opened) \in Nat
  <2>1. IsFiniteSet(fs) /\ IsFiniteSet(Opened)
    BY <1>2, FrameFinite
  <2>2. Cardinality(Opened \cup fs)
          = Cardinality(Opened) + Cardinality(fs) - Cardinality(Opened \cap fs)
    BY <2>1, FS_Union
  <2>3. Cardinality(fs) \in Nat /\ Cardinality(Opened) \in Nat
    BY <2>1, FS_CardinalityType
  <2>4. Opened \cap fs = {}
    BY <1>3
  <2>5. QED
    BY <1>4, <2>2, <2>3, <2>4, FS_EmptySet
<1>8. free_frames' = free_frames + Cardinality(fs) /\ total_frames' = total_frames + Cardinality(fs)
  BY DEF InitEntry, fs
<1>9. FreeCountExact'
  <2>1. free_frames' = Cardinality(Free')
    BY <1>6, <1>8 DEF IInv, FreeCountExact
  <2>2. free_frames' <= total_frames'
    <3>1. free_frames \in Int /\ total_frames \in Int /\ free_frames <= total_frames
      BY CountType
    <3>2. QED
      BY <1>7, <1>8, <3>1
  <2>3. QED
    BY <2>1, <2>2 DEF FreeCountExact
<1>10. OpenedInv'
  <2>1. Free' \subseteq Opened'
    BY <1>4, <1>6 DEF IInv, OpenedInv
  <2>2. total_frames' = Cardinality(Opened')
    BY <1>7, <1>8 DEF IInv, OpenedInv
  <2>3. panic' = "no" /\ \A c \in Client : held'[c] = {}
    BY DEF IInv, OpenedInv, InitEntry
  <2>4. QED
    BY <2>1, <2>2, <2>3 DEF OpenedInv
<1>11. TypeOK'
  <2>1. used' \subseteq Frame
    BY <1>2 DEF InitEntry
  <2>2. free_frames' \in 0 .. FRAMES_TOTAL
    BY <2>1, <1>9, FrameFinite DEF FreeCountExact, Free
  <2>3. total_frames' \in Nat
    <3>1. total_frames \in Nat
      BY DEF IInv, TypeOK
    <3>2. QED
      BY <1>7, <1>8, <3>1
  <2>4. mmap' \in MemoryMaps /\ entry' \in 1 .. Len(mmap') + 1
    BY <1>1 DEF InitEntry
  <2>5. QED
    BY <2>1, <2>2, <2>3, <2>4 DEF IInv, TypeOK, InitEntry
<1>12. HeldExclusive' /\ PanicHonest'
  <2>1. \A c \in Client : held'[c] = {}
    BY DEF IInv, OpenedInv, InitEntry
  <2>2. panic' = "no"
    BY DEF IInv, OpenedInv, InitEntry
  <2>3. QED
    BY <2>1, <2>2 DEF IInv, HeldExclusive, PanicHonest
<1>13. QED
  BY <1>9, <1>10, <1>11, <1>12 DEF IInv

LEMMA InitKernelStep == IInv /\ InitKernel => IInv'
<1> SUFFICES ASSUME IInv, InitKernel PROVE IInv'
  OBVIOUS
<1> DEFINE S == KernelFrames \ used
<1>1. used \subseteq Frame /\ S \in SUBSET Free /\ used' = used \cup S
  BY EntrySubset DEF IInv, TypeOK, InitKernel, Free
<1> HIDE DEF S
<1>2. Free' = Free \ S /\ Cardinality(Free') = Cardinality(Free) - Cardinality(S)
  BY <1>1, TakeCount DEF Free
<1>3. free_frames' = free_frames - Cardinality(S) /\ Cardinality(S) \in Nat
  <2>1. S \in SUBSET Frame
    BY <1>1 DEF Free
  <2>2. IsFiniteSet(S)
    BY <2>1, FrameFinite
  <2>3. QED
    BY <2>2, FS_CardinalityType DEF InitKernel, S
<1>4. used' \subseteq Frame
  BY <1>1 DEF Free
<1>5. FreeCountExact'
  <2>1. free_frames \in Int /\ total_frames \in Int /\ free_frames <= total_frames
    BY CountType
  <2>2. total_frames' = total_frames /\ free_frames' <= total_frames
    BY <1>3, <2>1 DEF InitKernel
  <2>3. QED
    BY <1>2, <1>3, <2>2 DEF IInv, FreeCountExact
<1>6. free_frames' \in 0 .. FRAMES_TOTAL
  BY <1>4, <1>5, FrameFinite DEF FreeCountExact, Free
<1>7. TypeOK'
  BY <1>4, <1>6 DEF IInv, TypeOK, InitKernel
<1>8. OpenedInv'
  BY <1>2 DEF IInv, OpenedInv, InitKernel, Opened
<1>9. HeldExclusive' /\ PanicHonest'
  <2>1. panic' = "no" /\ \A c \in Client : held'[c] = {}
    BY DEF IInv, OpenedInv, InitKernel
  <2>2. QED
    BY <2>1 DEF HeldExclusive, PanicHonest
<1>10. QED
  BY <1>5, <1>7, <1>8, <1>9 DEF IInv

(* A client takes a set of free frames: the common part of both            *)
(* allocations.                                                            *)
LEMMA TakeStep ==
  ASSUME IInv, Running, NEW c \in Client, NEW S \in SUBSET Free,
         used' = used \cup S,
         free_frames' = free_frames - Cardinality(S),
         held' = [held EXCEPT ![c] = @ \cup S],
         last_alloc' \in 0 .. FRAMES_TOTAL,
         UNCHANGED <<mmap, entry, booted, total_frames, panic>>
  PROVE  IInv'
<1>1. used \subseteq Frame /\ S \subseteq Frame /\ used' \subseteq Frame
  BY DEF IInv, TypeOK, Free
<1>2. Free' = Free \ S /\ Cardinality(Free') = Cardinality(Free) - Cardinality(S)
  BY <1>1, TakeCount DEF Free
<1>3. Cardinality(S) \in Nat
  <2>1. IsFiniteSet(S)
    BY <1>1, FrameFinite
  <2>2. QED
    BY <2>1, FS_CardinalityType
<1>4. FreeCountExact'
  <2>1. free_frames \in Int /\ total_frames \in Int /\ free_frames <= total_frames
    BY CountType
  <2>2. free_frames' <= total_frames'
    BY <1>3, <2>1
  <2>3. QED
    BY <1>2, <2>2 DEF IInv, FreeCountExact
<1>5. free_frames' \in 0 .. FRAMES_TOTAL
  BY <1>1, <1>4, FrameFinite DEF FreeCountExact, Free
<1>6. held \in [Client -> SUBSET Frame] /\ held' \in [Client -> SUBSET Frame]
  BY <1>1 DEF IInv, TypeOK
<1>7. TypeOK'
  BY <1>1, <1>5, <1>6 DEF IInv, TypeOK
<1>8. OpenedInv'
  <2>1. Opened' = Opened /\ booted'
    BY DEF Opened, Running
  <2>2. \A d \in Client : held'[d] \subseteq held[d] \cup S
    BY <1>6
  <2>3. QED
    BY <1>2, <2>1, <2>2 DEF IInv, OpenedInv
<1>9. HeldExclusive'
  <2>1. \A d \in Client : held'[d] = IF d = c THEN held[c] \cup S ELSE held[d]
    BY <1>6
  <2>2. \A d \in Client : held[d] \subseteq used /\ S \cap held[d] = {}
    BY DEF IInv, HeldExclusive, Free
  <2>3. \A d \in Client : held'[d] \subseteq used'
    BY <2>1, <2>2
  <2>4. \A d1, d2 \in Client : d1 # d2 => held'[d1] \cap held'[d2] = {}
    BY <2>1, <2>2 DEF IInv, HeldExclusive
  <2>5. QED
    BY <2>3, <2>4 DEF HeldExclusive
<1>10. PanicHonest'
  BY DEF Running, PanicHonest
<1>11. QED
  BY <1>4, <1>7, <1>8, <1>9, <1>10 DEF IInv

(* The next-fit search takes a single free frame. *)
LEMMA AllocFrameStep ==
  ASSUME IInv, NEW c \in Client, pmm_alloc_frame(c)
  PROVE  IInv'
<1>1. PICK f \in Frame :
        /\ Running /\ NextFit(f)
        /\ used' = used \cup {f}
        /\ free_frames' = free_frames - 1
        /\ last_alloc' = f + 1
        /\ held' = [held EXCEPT ![c] = @ \cup {f}]
        /\ UNCHANGED <<mmap, entry, booted, total_frames, panic>>
  BY DEF pmm_alloc_frame
<1>2. {f} \in SUBSET Free /\ Cardinality({f}) = 1
  BY <1>1, FS_Singleton DEF NextFit, Free
<1>3. last_alloc' \in 0 .. FRAMES_TOTAL
  BY <1>1, SizeAssumption DEF Frame
<1>4. QED
  BY <1>1, <1>2, <1>3, TakeStep

(* The first-fit search takes a run of free frames. *)
LEMMA AllocFramesStep ==
  ASSUME IInv, NEW c \in Client, NEW n \in 0 .. MaxRun, pmm_alloc_frames(c, n)
  PROVE  IInv'
<1>1. PICK start \in Frame :
        /\ Running /\ Fits(start, n)
        /\ used' = used \cup (start .. start + n - 1)
        /\ free_frames' = free_frames - n
        /\ held' = [held EXCEPT ![c] = @ \cup (start .. start + n - 1)]
        /\ UNCHANGED <<mmap, entry, booted, total_frames, last_alloc, panic>>
  BY DEF pmm_alloc_frames
<1>2. n \in Nat /\ n > 0 /\ start \in Nat /\ start + n <= FRAMES_TOTAL
  BY <1>1, RunAssumption, SizeAssumption DEF Fits, Frame
<1>3. (start .. start + n - 1) \in SUBSET Free
  BY <1>1, <1>2, SizeAssumption DEF Fits, Free, Frame
<1>4. Cardinality(start .. start + n - 1) = n
  <2>1. start \in Int /\ start + n - 1 \in Int
    BY <1>2
  <2>2. QED
    BY <1>2, <2>1, FS_Interval
<1>5. last_alloc' \in 0 .. FRAMES_TOTAL
  BY <1>1 DEF IInv, TypeOK
<1>6. QED
  BY <1>1, <1>3, <1>4, <1>5, TakeStep

(* A freed frame goes back to the areas it came from. *)
LEMMA FreeFrameStep ==
  ASSUME IInv, NEW c \in Client, NEW f \in 0 .. FRAMES_TOTAL, pmm_free_frame(c, f)
  PROVE  IInv'
<1>1. used \subseteq Frame /\ f \in used /\ f \in Frame /\ f < FRAMES_TOTAL
  BY DEF IInv, TypeOK, pmm_free_frame
<1>2. f \in held[c]
  <2>1. f \notin Free
    BY <1>1 DEF Free
  <2>2. f # FRAMES_TOTAL
    BY <1>1, SizeAssumption DEF Frame
  <2>3. QED
    BY <2>1, <2>2 DEF pmm_free_frame, FreeArgument
<1>3. Free' = Free \cup {f} /\ Cardinality(Free') = Cardinality(Free) + 1
  <2>1. {f} \in SUBSET used /\ Cardinality({f}) = 1
    BY <1>1, FS_Singleton
  <2>2. used' = used \ {f}
    BY DEF pmm_free_frame
  <2>3. QED
    BY <1>1, <2>1, <2>2, GiveCount DEF Free
<1>4. held \in [Client -> SUBSET Frame] /\ held' \in [Client -> SUBSET Frame]
  BY DEF IInv, TypeOK, pmm_free_frame
<1>5. \A d \in Client : held'[d] = IF d = c THEN held[c] \ {f} ELSE held[d]
  BY <1>4 DEF pmm_free_frame
<1>6. Opened' = Opened /\ total_frames' = total_frames
  BY DEF Opened, pmm_free_frame
<1>7. OpenedInv'
  <2>1. Free' \subseteq Opened
    BY <1>2, <1>3 DEF IInv, OpenedInv
  <2>2. \A d \in Client : held'[d] \subseteq Opened
    BY <1>5 DEF IInv, OpenedInv
  <2>3. booted'
    BY DEF pmm_free_frame, Running
  <2>4. QED
    BY <1>6, <2>1, <2>2, <2>3 DEF IInv, OpenedInv
<1>8. FreeCountExact'
  <2>1. free_frames' = Cardinality(Free')
    BY <1>3 DEF IInv, FreeCountExact, pmm_free_frame
  <2>2. Free' \subseteq Opened /\ Opened \in SUBSET Frame
    BY <1>6, <1>7, EntrySubset DEF OpenedInv
  <2>3. Cardinality(Free') <= Cardinality(Opened)
    BY <2>2, FrameFinite, FS_Subset
  <2>4. QED
    BY <1>6, <2>1, <2>3 DEF IInv, OpenedInv, FreeCountExact
<1>9. used' \subseteq Frame
  BY <1>1 DEF pmm_free_frame
<1>10. free_frames' \in 0 .. FRAMES_TOTAL
  BY <1>8, <1>9, FrameFinite DEF FreeCountExact, Free
<1>11. TypeOK'
  BY <1>4, <1>9, <1>10 DEF IInv, TypeOK, pmm_free_frame
<1>12. HeldExclusive'
  <2>1. \A d \in Client : d # c => f \notin held[d]
    BY <1>2 DEF IInv, HeldExclusive
  <2>2. \A d \in Client : held'[d] \subseteq used \ {f}
    BY <1>5, <2>1 DEF IInv, HeldExclusive
  <2>3. \A d1, d2 \in Client : d1 # d2 => held'[d1] \cap held'[d2] = {}
    BY <1>5 DEF IInv, HeldExclusive
  <2>4. QED
    BY <2>2, <2>3 DEF HeldExclusive, pmm_free_frame
<1>13. PanicHonest'
  BY DEF pmm_free_frame, Running, PanicHonest
<1>14. QED
  BY <1>7, <1>8, <1>11, <1>12, <1>13 DEF IInv

(* A panic changes only the message; the counter decides which one, and    *)
(* the counter is right.                                                   *)
LEMMA PanicStep ==
  ASSUME IInv, AllocFramePanic \/ \E n \in 0 .. MaxRun : AllocFramesNone(n)
  PROVE  IInv'
<1>1. UNCHANGED <<mmap, entry, booted, used, free_frames, total_frames, last_alloc, held>>
  BY DEF AllocFramePanic, AllocFramesNone
<1>2. Running
  BY DEF AllocFramePanic, AllocFramesNone
<1>3. panic' \in {"no", "PMM: Out of physical memory", "PMM: Bitmap inconsistent",
                 "PMM: No contiguous frames"}
  BY DEF AllocFramePanic, AllocFramesNone
<1>4. TypeOK'
  BY <1>1, <1>3 DEF IInv, TypeOK
<1>5. FreeCountExact' /\ HeldExclusive'
  BY <1>1 DEF IInv, FreeCountExact, HeldExclusive, Free
<1>6. OpenedInv'
  BY <1>1, <1>2 DEF IInv, OpenedInv, Opened, Free, Running
<1>7. PanicHonest'
  <2>1. CASE AllocFramePanic
    <3>1. free_frames = 0 <=> Free = {}
      <4>1. Free \in SUBSET Frame
        BY DEF Free
      <4>2. IsFiniteSet(Free)
        BY <4>1, FrameFinite
      <4>3. Cardinality(Free) = 0 <=> Free = {}
        BY <4>2, FS_EmptySet
      <4>4. QED
        BY <4>3 DEF IInv, FreeCountExact
    <3>2. panic' = "PMM: Out of physical memory" /\ Free' = {}
      BY <1>1, <2>1, <3>1 DEF AllocFramePanic, Free
    <3>3. QED
      BY <3>2 DEF PanicHonest
  <2>2. CASE \E n \in 0 .. MaxRun : AllocFramesNone(n)
    BY <2>2 DEF AllocFramesNone, PanicHonest
  <2>3. QED
    BY <2>1, <2>2
<1>8. QED
  BY <1>4, <1>5, <1>6, <1>7 DEF IInv

LEMMA StepIInv == IInv /\ [Next]_vars => IInv'
<1> SUFFICES ASSUME IInv, [Next]_vars PROVE IInv'
  OBVIOUS
<1>1. CASE InitEntry
  BY <1>1, InitEntryStep
<1>2. CASE InitKernel
  BY <1>2, InitKernelStep
<1>3. CASE \E c \in Client : pmm_alloc_frame(c)
  BY <1>3, AllocFrameStep
<1>4. CASE \E c \in Client, n \in 0 .. MaxRun : pmm_alloc_frames(c, n)
  BY <1>4, AllocFramesStep
<1>5. CASE \E c \in Client, f \in 0 .. FRAMES_TOTAL : pmm_free_frame(c, f)
  BY <1>5, FreeFrameStep
<1>6. CASE AllocFramePanic \/ \E n \in 0 .. MaxRun : AllocFramesNone(n)
  BY <1>6, PanicStep
<1>7. CASE UNCHANGED vars
  BY <1>7 DEF vars, IInv, TypeOK, FreeCountExact, OpenedInv, Opened, Free, HeldExclusive,
              PanicHonest
<1>8. QED
  BY <1>1, <1>2, <1>3, <1>4, <1>5, <1>6, <1>7 DEF Next

LEMMA Inductive == Spec => []IInv
BY InitIInv, StepIInv, PTL DEF Spec

(* The allocator's state keeps its type: in particular the unsigned         *)
(* counter free_frames never goes below zero nor above the bitmap.         *)
THEOREM PmmTypeCorrect == Spec => []TypeOK
<1>1. IInv => TypeOK
  BY DEF IInv
<1>2. QED
  BY <1>1, Inductive, PTL

(* The counter kept by pmm_init, pmm_alloc_frame, pmm_alloc_frames and     *)
(* pmm_free_frame is the number of clear bits, at most total_frames.       *)
THEOREM PmmFreeCountExact == Spec => []FreeCountExact
<1>1. IInv => FreeCountExact
  BY DEF IInv
<1>2. QED
  BY <1>1, Inductive, PTL

(* Neither search of the allocator hands out a frame that someone holds.   *)
THEOREM PmmHeldExclusive == Spec => []HeldExclusive
<1>1. IInv => HeldExclusive
  BY DEF IInv
<1>2. QED
  BY <1>1, Inductive, PTL

(* "Bitmap inconsistent" is unreachable and "Out of physical memory" is    *)
(* true when pmm_alloc_frame says it.                                      *)
THEOREM PmmPanicHonest == Spec => []PanicHonest
<1>1. IInv => PanicHonest
  BY DEF IInv
<1>2. QED
  BY <1>1, Inductive, PTL
-----------------------------------------------------------------------------
(* Rounding down to frames and back. *)
LEMMA FrameRounding ==
  ASSUME NEW a \in Nat
  PROVE  /\ (a \div FRAME_SIZE) \in Nat
         /\ (a \div FRAME_SIZE) * FRAME_SIZE <= a
         /\ a % FRAME_SIZE = 0 => (a \div FRAME_SIZE) * FRAME_SIZE = a
BY SizeAssumption

LEMMA FrameOrder ==
  ASSUME NEW f \in Nat, NEW g \in Nat, f <= g
  PROVE  f * FRAME_SIZE <= g * FRAME_SIZE
BY SizeAssumption

LEMMA EntryType ==
  ASSUME NEW m \in MemoryMaps, NEW i \in DOMAIN m
  PROVE  m[i].base \in Nat /\ m[i].len \in Nat
<1> DEFINE Entry == [base : Nat, len : Nat, available : BOOLEAN]
<1>1. m \in Seq(Entry) /\ i \in 1 .. Len(m)
  BY MapType, MapAssumption
<1>2. m[i] \in Entry
  <2> HIDE DEF Entry
  <2> QED
    BY <1>1
<1>3. QED
  BY <1>2

(* The frames freed for an area whose usable part begins on a frame        *)
(* boundary lie in that part.                                              *)
LEMMA EntryUsable ==
  ASSUME AlignedMaps, NEW m \in MemoryMaps, NEW i \in DOMAIN m, NEW f \in EntryFrames(m[i])
  PROVE  /\ m[i].available
         /\ f * FRAME_SIZE >= OneMB
         /\ m[i].base <= f * FRAME_SIZE
         /\ (f + 1) * FRAME_SIZE <= m[i].base + m[i].len
<1> DEFINE e == m[i]
           first == e.base + Skip(e)
           rest == e.len - Skip(e)
<1>1. e.base \in Nat /\ e.len \in Nat /\ OneMB \in Nat
  BY EntryType, LayoutAssumption
<1>2. e.available /\ f \in Frame
  BY DEF EntryFrames
<1>3. /\ first \in Nat /\ rest \in Nat /\ first >= OneMB /\ first >= e.base
      /\ first + rest = e.base + e.len
  <2>1. Skip(e) \in Nat /\ ~(Skip(e) > 0 /\ Skip(e) >= e.len)
    BY <1>1 DEF EntryFrames, Skip
  <2>2. QED
    BY <1>1, <2>1 DEF Skip
<1>4. first % FRAME_SIZE = 0
  <2>1. CASE e.base < OneMB
    <3>1. first = OneMB
      BY <1>1, <2>1 DEF Skip
    <3>2. QED
      BY <3>1 DEF AlignedMaps
  <2>2. CASE e.base >= OneMB
    <3>1. first = e.base
      BY <1>1, <2>2 DEF Skip
    <3>2. e.base % FRAME_SIZE = 0
      BY <1>2, <2>2 DEF AlignedMaps
    <3>3. QED
      BY <3>1, <3>2
  <2>3. QED
    BY <1>1, <2>1, <2>2
<1> DEFINE start == first \div FRAME_SIZE
           number == rest \div FRAME_SIZE
<1>5. start <= f /\ f < start + number
  BY DEF EntryFrames
<1> HIDE DEF e, first, rest
<1>6. /\ start \in Nat /\ start * FRAME_SIZE = first
      /\ number \in Nat /\ number * FRAME_SIZE <= rest
  BY <1>3, <1>4, FrameRounding
<1> HIDE DEF start, number
<1>7. f \in Nat
  BY <1>2, SizeAssumption DEF Frame
<1>8. first <= f * FRAME_SIZE
  BY <1>5, <1>6, <1>7, FrameOrder
<1>9. (f + 1) * FRAME_SIZE <= first + rest
  <2>1. (f + 1) * FRAME_SIZE <= (start + number) * FRAME_SIZE
    BY <1>5, <1>6, <1>7, FrameOrder
  <2>2. (start + number) * FRAME_SIZE = start * FRAME_SIZE + number * FRAME_SIZE
    BY <1>6, SizeAssumption
  <2>3. number * FRAME_SIZE \in Nat /\ (f + 1) * FRAME_SIZE \in Nat
    BY <1>6, <1>7, SizeAssumption
  <2>4. QED
    BY <1>3, <1>6, <2>1, <2>2, <2>3
<1>10. f * FRAME_SIZE \in Nat
  BY <1>7, SizeAssumption
<1>11. QED
  BY <1>1, <1>2, <1>3, <1>8, <1>9, <1>10 DEF e

(* Once pmm_init is done the kernel's frames are out of circulation: not   *)
(* free, and in nobody's hands.                                            *)
KernelKept ==
  booted => /\ Free \cap KernelFrames = {}
            /\ \A c \in Client : held[c] \cap KernelFrames = {}

LEMMA StepKernelKept == IInv /\ KernelKept /\ [Next]_vars => KernelKept'
<1> SUFFICES ASSUME IInv, KernelKept, [Next]_vars PROVE KernelKept'
  OBVIOUS
<1>1. CASE InitEntry
  BY <1>1 DEF InitEntry, KernelKept
<1>2. CASE InitKernel
  BY <1>2 DEF InitKernel, KernelKept, IInv, OpenedInv, Free
<1>3. ASSUME NEW c \in Client, NEW S \in SUBSET Free, Running, used' = used \cup S,
             held' = [held EXCEPT ![c] = @ \cup S]
      PROVE  KernelKept'
  <2>1. held \in [Client -> SUBSET Frame]
    BY DEF IInv, TypeOK
  <2>2. QED
    BY <1>3, <2>1 DEF KernelKept, Running, Free
<1>4. CASE \E c \in Client : pmm_alloc_frame(c)
  <2>1. PICK c \in Client : pmm_alloc_frame(c)
    BY <1>4
  <2>2. PICK f \in Frame : /\ Running /\ NextFit(f)
                           /\ used' = used \cup {f}
                           /\ held' = [held EXCEPT ![c] = @ \cup {f}]
    BY <2>1 DEF pmm_alloc_frame
  <2>3. {f} \in SUBSET Free
    BY <2>2 DEF NextFit, Free
  <2>4. QED
    BY <1>3, <2>2, <2>3
<1>5. CASE \E c \in Client, n \in 0 .. MaxRun : pmm_alloc_frames(c, n)
  <2>1. PICK c \in Client, n \in 0 .. MaxRun : pmm_alloc_frames(c, n)
    BY <1>5
  <2>2. PICK start \in Frame : /\ Running /\ Fits(start, n)
                               /\ used' = used \cup (start .. start + n - 1)
                               /\ held' = [held EXCEPT ![c] = @ \cup (start .. start + n - 1)]
    BY <2>1 DEF pmm_alloc_frames
  <2>3. (start .. start + n - 1) \in SUBSET Free
    BY <2>2, RunAssumption, SizeAssumption DEF Fits, Free, Frame
  <2>4. QED
    BY <1>3, <2>2, <2>3
<1>6. ASSUME NEW c \in Client, NEW f \in 0 .. FRAMES_TOTAL, pmm_free_frame(c, f)
      PROVE  KernelKept'
  <2>1. /\ held' = [held EXCEPT ![c] = @ \ {f}] /\ used' = used \ {f}
        /\ Running /\ f \in used /\ f \in FreeArgument(c) /\ f < FRAMES_TOTAL
    BY <1>6 DEF pmm_free_frame
  <2>2. f \in held[c]
    BY <2>1, SizeAssumption DEF FreeArgument, Free
  <2>3. held \in [Client -> SUBSET Frame]
    BY DEF IInv, TypeOK
  <2>4. QED
    BY <2>1, <2>2, <2>3 DEF KernelKept, Running, Free
<1>7. CASE AllocFramePanic \/ (\E n \in 0 .. MaxRun : AllocFramesNone(n)) \/ UNCHANGED vars
  BY <1>7 DEF AllocFramePanic, AllocFramesNone, vars, KernelKept, Free
<1>8. QED
  BY <1>1, <1>2, <1>4, <1>5, <1>6, <1>7 DEF Next

LEMMA UsableFollows ==
  ASSUME AlignedMaps, IInv, KernelKept
  PROVE  HeldUsable
<1> SUFFICES ASSUME NEW c \in Client, NEW f \in held[c]
             PROVE  /\ f \notin KernelFrames
                    /\ f * FRAME_SIZE >= OneMB
                    /\ \E i \in DOMAIN mmap : /\ mmap[i].available
                                              /\ mmap[i].base <= f * FRAME_SIZE
                                              /\ (f + 1) * FRAME_SIZE <= mmap[i].base + mmap[i].len
  BY DEF HeldUsable
<1>1. booted
  BY DEF IInv, OpenedInv
<1>2. f \notin KernelFrames
  BY <1>1 DEF KernelKept
<1>3. PICK i \in 1 .. entry - 1 : f \in EntryFrames(mmap[i])
  BY DEF IInv, OpenedInv, Opened
<1>4. mmap \in MemoryMaps /\ i \in DOMAIN mmap
  <2>1. mmap \in MemoryMaps /\ entry \in 1 .. Len(mmap) + 1
    BY DEF IInv, TypeOK
  <2>2. Len(mmap) \in Nat /\ DOMAIN mmap = 1 .. Len(mmap)
    BY <2>1, MapType
  <2>3. QED
    BY <2>1, <2>2
<1>5. QED
  BY <1>2, <1>3, <1>4, EntryUsable

(* Every frame the allocator hands out lies wholly in an available area,   *)
(* above the first megabyte and outside the kernel image, for every map    *)
(* whose areas begin on a frame boundary.                                  *)
THEOREM PmmHeldUsable ==
  ASSUME AlignedMaps
  PROVE  Spec => []HeldUsable
<1>1. Init => KernelKept
  BY DEF Init, KernelKept
<1>2. IInv /\ KernelKept => HeldUsable
  BY UsableFollows
<1>3. QED
  BY <1>1, <1>2, StepKernelKept, Inductive, PTL DEF Spec
=============================================================================
