-------------------------------- MODULE Vmm ---------------------------------
(***************************************************************************)
(* kernel/vmm.c: page directories and page tables in physical frames, over *)
(* the frame allocator as its callers see it.  Functions of the kernel     *)
(* call one another here (a heap growth maps pages, a mapping takes        *)
(* frames), so each is an operator from a memory to a memory; the modules  *)
(* that extend this one make them actions on `mem`.                        *)
(*                                                                         *)
(* A kernel_panic stops the machine: an operator that meets one returns    *)
(* the memory with `panic` set, and the rest of the call does not happen.  *)
(*                                                                         *)
(* Tables are reached at their physical address plus 0xC0000000.  boot.asm *)
(* maps the first DIRECT frames there; an access above them is a page      *)
(* fault, and the fault a panic.  vmm_init loads a directory without any   *)
(* entry, with which nothing would run: the mapping is taken as inherited, *)
(* the way the comment of vmm_init and all that follows it take it.        *)
(***************************************************************************)
EXTENDS Integers, FiniteSets, FiniteSetsExt

CONSTANTS FRAMES,           \* frames of the allocator
          ENTRIES,          \* entries of a directory or table (1024)
          KERNEL_PDE,       \* first directory entry of the kernel's half (768)
          DIRECT            \* frames that boot.asm maps there (2048)

ASSUME FrameAssumption == /\ FRAMES \in Nat \ {0} /\ ENTRIES \in Nat \ {0}
                          /\ KERNEL_PDE \in 0 .. ENTRIES - 1
                          /\ DIRECT \in Nat \ {0}

VARIABLE mem    \* used, last_alloc: the allocator; table: frames read as tables;
                \* panic: the message of the kernel_panic, or "no"

Frame == 0 .. FRAMES - 1
Index == 0 .. ENTRIES - 1

(* A directory or table entry: the frame and the PAGE_USER flag. *)
Absent == [frame |-> -1, user |-> FALSE]
NoTable == [i \in Index |-> Absent]

Panicked(m, message) == [m EXCEPT !.panic = message]

(* r, if frame f can be read and written at its address + 0xC0000000. *)
Reaching(m, f, r) == IF f < DIRECT THEN r ELSE Panicked(m, "Page Fault")
-----------------------------------------------------------------------------
(* The allocator: next fit for one frame, first fit for a run. *)

Probe(m, i) == (m.last_alloc + i) % FRAMES
NextFit(m) == Probe(m, Min({i \in Frame : Probe(m, i) \notin m.used}))

TakeFrame(m) ==
  IF m.used = Frame THEN Panicked(m, "Out of physical memory")
  ELSE [m EXCEPT !.used = @ \cup {NextFit(m)}, !.last_alloc = NextFit(m) + 1]

RunsShort(m, n) ==      \* mutant: the last frame of the run is not looked at
  {b \in Frame : n > 0 /\ b + n <= FRAMES /\ (b .. b + n - 2) \cap m.used = {}}

Runs(m, n) == {b \in Frame : n > 0 /\ b + n <= FRAMES /\ (b .. b + n - 1) \cap m.used = {}}

TakeRun(m, n) ==
  IF Runs(m, n) = {} THEN Panicked(m, "No contiguous frames")
  ELSE [m EXCEPT !.used = @ \cup (Min(Runs(m, n)) .. Min(Runs(m, n)) + n - 1)]
-----------------------------------------------------------------------------
(* A page is numbered from address 0; its directory and table index. *)
PD_INDEX(page) == page \div ENTRIES
PT_INDEX(page) == page % ENTRIES

kernel_pd == 0              \* vmm_init takes the first frame

vmm_init(m) == [TakeFrame(m) EXCEPT !.table[NextFit(m)] = NoTable]

(* Entry pt of the table behind page; `new` when there is no table yet. *)
Mapped(m, pd, page, frame, user, new, pt) ==
  [m EXCEPT !.table[pt] = [(IF new THEN NoTable ELSE @) EXCEPT ![PT_INDEX(page)] = [frame |-> frame, user |-> user]],
            !.table[pd][PD_INDEX(page)] = IF new THEN [frame |-> pt, user |-> user] ELSE @]

MapPageUser(m, pd, page, frame, user) ==    \* mutant: PAGE_USER is always set
  LET new == m.table[pd][PD_INDEX(page)] = Absent
      a   == IF new THEN TakeFrame(m) ELSE m
      pt  == IF new THEN NextFit(m) ELSE m.table[pd][PD_INDEX(page)].frame
  IN IF a.panic # "no" THEN a
     ELSE Reaching(m, pt, Mapped(a, pd, page, frame, TRUE, new, pt))

vmm_map_page(m, pd, page, frame, user) ==
  LET new == m.table[pd][PD_INDEX(page)] = Absent
      a   == IF new THEN TakeFrame(m) ELSE m
      pt  == IF new THEN NextFit(m) ELSE m.table[pd][PD_INDEX(page)].frame
  IN IF a.panic # "no" THEN a
     ELSE Reaching(m, pt, Mapped(a, pd, page, frame, user, new, pt))

(* The loop of process_spawn_ring3 over the pages of a run of frames. *)
MapUser(m, pd, page, base, n) ==
  LET mapped[i \in 0 .. n] ==
        IF i = 0 THEN m
        ELSE IF mapped[i - 1].panic # "no" THEN mapped[i - 1]
        ELSE vmm_map_page(mapped[i - 1], pd, page + i - 1, base + i - 1, TRUE)
  IN mapped[n]

vmm_unmap_page(m, pd, page) ==
  IF m.table[pd][PD_INDEX(page)] = Absent THEN m
  ELSE LET pt == m.table[pd][PD_INDEX(page)].frame
       IN Reaching(m, pt, [m EXCEPT !.table[pt][PT_INDEX(page)] = Absent])

vmm_create_user_pd(m) ==
  IF m.used = Frame THEN TakeFrame(m)
  ELSE Reaching(m, NextFit(m), [TakeFrame(m) EXCEPT
         !.table[NextFit(m)] = [i \in Index |-> IF i >= KERNEL_PDE THEN m.table[kernel_pd][i] ELSE Absent]])

(* The frame behind a page, or -1. *)
vmm_virt_to_phys(m, pd, page) ==
  IF m.table[pd][PD_INDEX(page)] = Absent THEN -1
  ELSE m.table[m.table[pd][PD_INDEX(page)].frame][PT_INDEX(page)].frame
-----------------------------------------------------------------------------
Pages == 0 .. ENTRIES * ENTRIES - 1

(* The frame the kernel reads at a page, or -1 for a page fault. *)
KernelReads(page) ==
  LET f == page - KERNEL_PDE * ENTRIES
  IN IF f \in 0 .. DIRECT - 1 THEN f ELSE vmm_virt_to_phys(mem, kernel_pd, page)

(* What code in Ring 3 can reach: both flags must be set. *)
UserFrames(pd) ==
  {vmm_virt_to_phys(mem, pd, page) : page \in
     {g \in Pages : LET pde == mem.table[pd][PD_INDEX(g)]
                    IN pde.user /\ mem.table[pde.frame][PT_INDEX(g)].user}}

MemTypeOK ==
  /\ mem.used \subseteq Frame
  /\ mem.last_alloc \in 0 .. FRAMES
  /\ mem.table \in [Frame -> [Index -> [frame : -1 .. FRAMES - 1, user : BOOLEAN]]]
=============================================================================
