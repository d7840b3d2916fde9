-------------------------------- MODULE Pmm ---------------------------------
(***************************************************************************)
(* kernel/pmm.c: the bitmap allocator of physical frames.  The bitmap is   *)
(* the set `used` of the frames whose bit is 1; physical addresses are     *)
(* frame numbers from the moment the memory map has been read.             *)
(*                                                                         *)
(* The clients are the callers of the allocator (page tables, stacks,      *)
(* shared surfaces): each frees frames it holds, and may free a frame      *)
(* again that is free.  No caller runs in the middle of another's call:    *)
(* system calls run with interrupts off and the rest happens at boot.      *)
(***************************************************************************)
EXTENDS Integers, FiniteSets, Sequences

CONSTANTS FRAMES_TOTAL,     \* frames the bitmap covers
          FRAME_SIZE,       \* bytes per frame
          OneMB,            \* 0x100000
          KernelEnd,        \* the linker's __kernel_end_phys
          MemoryMaps,       \* the multiboot2 maps the loader may hand over
          Client,           \* the callers of the allocator
          MaxRun            \* bound: frames asked of pmm_alloc_frames

ASSUME SizeAssumption == FRAMES_TOTAL \in Nat \ {0} /\ FRAME_SIZE \in Nat \ {0}
ASSUME LayoutAssumption == OneMB \in Nat /\ KernelEnd \in Nat
ASSUME RunAssumption == MaxRun \in Nat

Frame == 0 .. FRAMES_TOTAL - 1

(* The part of an entry above the first megabyte. *)
Skip(e) == IF e.base < OneMB THEN OneMB - e.base ELSE 0

(* The frames that pmm_init frees for one entry of the map. *)
EntryFrames(e) ==
  IF ~e.available \/ (Skip(e) > 0 /\ Skip(e) >= e.len) THEN {}
  ELSE LET frame_start == (e.base + Skip(e)) \div FRAME_SIZE
           frame_count == (e.len - Skip(e)) \div FRAME_SIZE
       IN {f \in Frame : frame_start <= f /\ f < frame_start + frame_count}

KernelFrames ==
  {f \in Frame : /\ OneMB \div FRAME_SIZE <= f
                 /\ f <= (KernelEnd + FRAME_SIZE - 1) \div FRAME_SIZE}

(* What a loader guarantees of its map: available areas do not overlap. *)
ASSUME MapAssumption ==
  \A m \in MemoryMaps :
    /\ m \in Seq([base : Nat, len : Nat, available : BOOLEAN])
    /\ \A i, j \in DOMAIN m : i # j => EntryFrames(m[i]) \cap EntryFrames(m[j]) = {}

(* The available areas begin on a frame boundary once the first megabyte   *)
(* is cut off: pmm_init rounds their base down.                            *)
AlignedMaps ==
  /\ OneMB % FRAME_SIZE = 0
  /\ \A m \in MemoryMaps : \A i \in DOMAIN m :
       m[i].available /\ m[i].base >= OneMB => m[i].base % FRAME_SIZE = 0

VARIABLES mmap,             \* the loader's map
          entry,            \* pmm_init: the entry it is at; past the end, it is done
          booted,           \* pmm_init has returned
          used,             \* the set bits of the bitmap
          free_frames, total_frames, last_alloc,
          held,             \* ghost: the frames each client has and has not freed
          panic             \* the message of the kernel_panic that stopped it, or "no"

vars == <<mmap, entry, booted, used, free_frames, total_frames, last_alloc, held, panic>>

Free == Frame \ used

Init == /\ mmap \in MemoryMaps
        /\ entry = 1
        /\ booted = FALSE
        /\ used = Frame
        /\ free_frames = 0 /\ total_frames = 0 /\ last_alloc = 0
        /\ held = [c \in Client |-> {}]
        /\ panic = "no"
-----------------------------------------------------------------------------
(* pmm_init *)

InitEntry ==
  /\ ~booted
  /\ entry <= Len(mmap)
  /\ LET fs == EntryFrames(mmap[entry])
     IN /\ used' = used \ fs
        /\ free_frames' = free_frames + Cardinality(fs)
        /\ total_frames' = total_frames + Cardinality(fs)
  /\ entry' = entry + 1
  /\ UNCHANGED <<mmap, booted, last_alloc, held, panic>>

InitKernelUncounted ==  \* mutant: free_frames is not taken back
  /\ ~booted
  /\ entry > Len(mmap)
  /\ used' = used \cup KernelFrames
  /\ booted' = TRUE
  /\ UNCHANGED <<mmap, entry, free_frames, total_frames, last_alloc, held, panic>>

InitKernelForgotten ==  \* mutant: the kernel's own frames stay free
  /\ ~booted
  /\ entry > Len(mmap)
  /\ booted' = TRUE
  /\ UNCHANGED <<mmap, entry, used, free_frames, total_frames, last_alloc, held, panic>>

InitKernel ==
  /\ ~booted
  /\ entry > Len(mmap)
  /\ used' = used \cup KernelFrames
  /\ free_frames' = free_frames - Cardinality(KernelFrames \ used)
  /\ booted' = TRUE
  /\ UNCHANGED <<mmap, entry, total_frames, last_alloc, held, panic>>
-----------------------------------------------------------------------------
Running == booted /\ panic = "no"

(* f is the first free frame met when counting up from last_alloc, around  *)
(* the end.                                                                *)
NextFit(f) ==
  \E i \in Frame :
    /\ f = (last_alloc + i) % FRAMES_TOTAL
    /\ f \notin used
    /\ \A j \in 0 .. i - 1 : (last_alloc + j) % FRAMES_TOTAL \in used

pmm_alloc_frame(c) ==
  \E f \in Frame :
    /\ Running
    /\ free_frames # 0
    /\ NextFit(f)
    /\ used' = used \cup {f}
    /\ free_frames' = free_frames - 1
    /\ last_alloc' = f + 1
    /\ held' = [held EXCEPT ![c] = @ \cup {f}]
    /\ UNCHANGED <<mmap, entry, booted, total_frames, panic>>

(* The two panics of pmm_alloc_frame: the counter says there is nothing    *)
(* left, or the search finds nothing although it says there is.            *)
AllocFramePanic ==
  /\ Running
  /\ free_frames = 0 \/ Free = {}
  /\ panic' = IF free_frames = 0 THEN "PMM: Out of physical memory"
              ELSE "PMM: Bitmap inconsistent"
  /\ UNCHANGED <<mmap, entry, booted, used, free_frames, total_frames, last_alloc, held>>

FitsShort(start, n) ==  \* mutant: the run is one frame shorter than asked
  /\ n > 0
  /\ start + n <= FRAMES_TOTAL
  /\ \A k \in start .. start + n - 2 : k \notin used

(* n free frames in a row begin at start; a run of none is never complete. *)
Fits(start, n) ==
  /\ n > 0
  /\ start + n <= FRAMES_TOTAL
  /\ \A k \in start .. start + n - 1 : k \notin used

pmm_alloc_frames(c, n) ==
  \E start \in Frame :
    /\ Running
    /\ Fits(start, n)
    /\ \A s \in 0 .. start - 1 : ~Fits(s, n)
    /\ used' = used \cup (start .. start + n - 1)
    /\ free_frames' = free_frames - n
    /\ held' = [held EXCEPT ![c] = @ \cup (start .. start + n - 1)]
    /\ UNCHANGED <<mmap, entry, booted, total_frames, last_alloc, panic>>

AllocFramesNone(n) ==
  /\ Running
  /\ \A s \in Frame : ~Fits(s, n)
  /\ panic' = "PMM: No contiguous frames"
  /\ UNCHANGED <<mmap, entry, booted, used, free_frames, total_frames, last_alloc, held>>

(* What a caller may pass: a frame it holds, one that is free, or one past *)
(* the end of the bitmap.                                                  *)
FreeArgument(c) == held[c] \cup Free \cup {FRAMES_TOTAL}

FreeFrameUnguarded(c, f) == \* mutant: no double-free guard
  /\ Running
  /\ f \in FreeArgument(c)
  /\ f < FRAMES_TOTAL
  /\ used' = used \ {f}
  /\ free_frames' = free_frames + 1
  /\ held' = [held EXCEPT ![c] = @ \ {f}]
  /\ UNCHANGED <<mmap, entry, booted, total_frames, last_alloc, panic>>

pmm_free_frame(c, f) ==     \* otherwise it returns and nothing changes
  /\ Running
  /\ f \in FreeArgument(c)
  /\ f < FRAMES_TOTAL
  /\ f \in used
  /\ used' = used \ {f}
  /\ free_frames' = free_frames + 1
  /\ held' = [held EXCEPT ![c] = @ \ {f}]
  /\ UNCHANGED <<mmap, entry, booted, total_frames, last_alloc, panic>>

Next == \/ InitEntry \/ InitKernel
        \/ \E c \in Client : pmm_alloc_frame(c)
        \/ AllocFramePanic
        \/ \E c \in Client, n \in 0 .. MaxRun : pmm_alloc_frames(c, n)
        \/ \E n \in 0 .. MaxRun : AllocFramesNone(n)
        \/ \E c \in Client, f \in 0 .. FRAMES_TOTAL : pmm_free_frame(c, f)

Spec == Init /\ [][Next]_vars
-----------------------------------------------------------------------------
TypeOK ==
  /\ mmap \in MemoryMaps
  /\ entry \in 1 .. Len(mmap) + 1
  /\ booted \in BOOLEAN
  /\ used \subseteq Frame
  /\ free_frames \in 0 .. FRAMES_TOTAL
  /\ total_frames \in Nat
  /\ last_alloc \in 0 .. FRAMES_TOTAL
  /\ held \in [Client -> SUBSET Frame]
  /\ panic \in {"no", "PMM: Out of physical memory", "PMM: Bitmap inconsistent",
                "PMM: No contiguous frames"}

(* free_frames is the number of clear bits after any sequence of           *)
(* allocations, runs, frees and repeated frees, and it never exceeds what  *)
(* pmm_total_frames reports.                                               *)
FreeCountExact == /\ free_frames = Cardinality(Free)
                  /\ free_frames <= total_frames

(* A frame is never in two hands: what a client holds is marked used and   *)
(* no other client holds it.                                               *)
HeldExclusive ==
  /\ \A c \in Client : held[c] \subseteq used
  /\ \A c, d \in Client : c # d => held[c] \cap held[d] = {}

(* Nobody is given memory that is not there to be given: every held frame  *)
(* lies wholly in an available area of the map, above the first megabyte   *)
(* and outside the kernel image.                                           *)
HeldUsable ==
  \A c \in Client : \A f \in held[c] :
    /\ f \notin KernelFrames
    /\ f * FRAME_SIZE >= OneMB
    /\ \E i \in DOMAIN mmap : /\ mmap[i].available
                              /\ mmap[i].base <= f * FRAME_SIZE
                              /\ (f + 1) * FRAME_SIZE <= mmap[i].base + mmap[i].len

(* pmm_alloc_frame gives up only when every bit is set, and the search     *)
(* never contradicts the counter ("Bitmap inconsistent").                  *)
PanicHonest ==
  /\ panic # "PMM: Bitmap inconsistent"
  /\ panic = "PMM: Out of physical memory" => Free = {}
=============================================================================
