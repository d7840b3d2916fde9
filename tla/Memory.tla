------------------------------- MODULE Memory -------------------------------
(***************************************************************************)
(* The users of physical memory together: page tables, the kernel heap,    *)
(* processes with their stacks and address spaces, and shared surfaces     *)
(* draw on one frame allocator.  Each call runs to its end before the next *)
(* one starts: no handler that runs with interrupts on allocates.          *)
(***************************************************************************)
EXTENDS Heap, Process, Surface

CONSTANTS SURFACE_PAGES,    \* user pages a surface is mapped in
          MaxCalls          \* bound: calls in a behaviour

(* Surfaces are mapped below the stack. *)
ASSUME RoomAssumption ==
  /\ SURFACE_PAGES \in Nat /\ MAX_SURFACES * SURFACE_PAGES + USTACK < KERNEL_PDE * ENTRIES
  /\ \A r \in Requests : PagesNeeded(r[2], r[3]) <= SURFACE_PAGES

VARIABLE calls          \* ghost: calls made

vars == <<calls, mem, heap, process_table, pid_counter, surfaces, next_surface_id, windows>>

processVars == <<process_table, pid_counter>>
surfaceVars == <<surfaces, next_surface_id, windows>>

Blank == [used |-> {}, last_alloc |-> 0, table |-> [f \in Frame |-> NoTable], panic |-> "no"]

(* kmain, steps 6 to 8 and 15, on a machine whose frames are all usable. *)
Init == /\ LET k == heap_init(vmm_init(Blank)) IN mem = k.mem /\ heap = k.heap
        /\ ProcessInit
        /\ SurfaceInit
        /\ calls = 0

Running == mem.panic = "no" /\ calls < MaxCalls

HeapCall == Running /\ (k_malloc \/ k_free \/ k_realloc \/ StoreMagic) /\ UNCHANGED <<processVars, surfaceVars>>

ProcessCall ==
  /\ Running
  /\ \/ process_create
     \/ process_spawn_ring3
     \/ \E pid \in 0 .. pid_counter - 1 : process_kill(pid)
     \/ Reap
     \/ \E s \in Slot : Unmap(s)
  /\ UNCHANGED <<heap, surfaceVars>>

SurfaceCall ==
  /\ Running
  /\ \/ \E r \in Requests : surface_create(r[1], r[2], r[3])
     \/ \E id \in 1 .. next_surface_id - 1 : surface_destroy(id)
     \/ \E i \in WindowSlot, j \in SurfaceSlot : OpenWindow(i, j)
  /\ UNCHANGED <<heap, processVars>>

(* Where surface_map_to_process maps the surface in slot i.  The function  *)
(* is called and defined nowhere: it is taken to map every frame of the    *)
(* surface for Ring 3, as the comments of shared_surface say.              *)
SurfacePage(i) == i * SURFACE_PAGES

SurfaceMapped(s, n) ==
  LET m == TakeRun(mem, n)
  IN IF m.panic # "no" THEN m
     ELSE MapUser(m, process_table[s].page_dir, SurfacePage(Min(Idle)), Min(Runs(mem, n)), n)

(* The system call of the Ring 3 process in slot s. *)
sys_map_surface(s, w, h) ==
  LET n == PagesNeeded(w, h)
      m == SurfaceMapped(s, n)
  IN /\ MakeSurface(m, process_table[s].pid, w, h)
     /\ process_table' = IF m.panic # "no" THEN process_table
                         ELSE [process_table EXCEPT ![s].granted = @ \cup Run(mem, n)]

Processes == {s \in Slot : process_table[s].pid # 0 /\ process_table[s].state # "DEAD"}
UserProcesses == {s \in Processes : process_table[s].ring = 3}

SystemCall ==
  /\ Running
  /\ \E s \in UserProcesses, r \in Requests : sys_map_surface(s, r[2], r[3])
  /\ UNCHANGED <<heap, pid_counter>>

Next == (HeapCall \/ ProcessCall \/ SurfaceCall \/ SystemCall) /\ calls' = calls + 1

Spec == Init /\ [][Next]_vars
-----------------------------------------------------------------------------
TypeOK == MemTypeOK /\ HeapTypeOK /\ ProcessTypeOK /\ SurfaceTypeOK

(* The frames of the tables in one part of a directory. *)
TablesOf(pd, part) == {mem.table[pd][i].frame : i \in {j \in part : mem.table[pd][j] # Absent}}

HeapFrames(page) == {vmm_virt_to_phys(mem, kernel_pd, HEAP_VIRT_BASE + page)}

(* Every use of a frame the kernel knows of, each with its frames. *)
Uses ==
  {<<"directory", {kernel_pd}>>, <<"kernel tables", TablesOf(kernel_pd, Index)>>}
  \cup {<<"heap", g, HeapFrames(g)>> : g \in 0 .. heap.cursor - 1}
  \cup {<<"kernel stack", s, process_table[s].kstack>> : s \in Processes}
  \cup {<<"user stack", s, process_table[s].ustack>> : s \in Processes}
  \cup {<<"user directory", s, {process_table[s].page_dir}>> : s \in UserProcesses}
  \cup {<<"user tables", s, TablesOf(process_table[s].page_dir, 0 .. KERNEL_PDE - 1)>> : s \in UserProcesses}
  \cup {<<"surface", i, FramesOf(surfaces[i])>> : i \in {j \in SurfaceSlot : surfaces[j].active}}

(* Whatever the order of growth, creation, destruction and wrap of sizes,  *)
(* no frame has two uses at a time and every frame in use is marked used:  *)
(* a surface never lies on a page table, a stack never on the heap.        *)
FramesOwnedOnce ==
  \A u \in Uses : /\ u[Len(u)] \subseteq mem.used
                  /\ \A v \in Uses \ {u} : u[Len(u)] \cap v[Len(v)] = {}

(* Objects handed out by k_malloc are mapped, do not overlap, and no node  *)
(* of a free list lies in one or is listed twice, although k_free puts     *)
(* every object on a list it guesses from the address.                     *)
HeapDisjoint ==
  LET Nodes == UNION {{c} \X DOMAIN heap.free_list[c] : c \in Cache}
      Node(n) == Units(heap.free_list[n[1]][n[2]], SLAB_SIZES[n[1]])
  IN /\ \A o \in heap.live : /\ Units(o.ptr, o.size) \subseteq 0 .. heap.cursor * PAGE_UNITS - 1
                             /\ \A q \in heap.live \ {o} : Units(o.ptr, o.size) \cap Units(q.ptr, q.size) = {}
                             /\ \A n \in Nodes : Units(o.ptr, o.size) \cap Node(n) = {}
     /\ \A n \in Nodes : \A k \in Nodes \ {n} : Node(n) \cap Node(k) = {}

(* A process's directory may lack tables the kernel has added since it was *)
(* made, but what it has of the kernel's half is the kernel's; and Ring 3  *)
(* reaches no frame but those of the process's own stack and of surfaces   *)
(* that were mapped for it.                                                *)
SpacesSeparate ==
  \A s \in UserProcesses :
    LET pd == process_table[s].page_dir
    IN /\ \A i \in KERNEL_PDE .. ENTRIES - 1 :
            mem.table[pd][i] \in {Absent, mem.table[kernel_pd][i]}
       /\ UserFrames(pd) \subseteq process_table[s].ustack \cup process_table[s].granted

(* A window whose surface was destroyed shows nothing, never the surface   *)
(* that took its slot; and a surface whose size in bytes has not wrapped   *)
(* is read in its own frames, or rendering it ends in a page fault: where  *)
(* 0xC0000000 is no longer mapped, the read meets no page of the heap.     *)
WindowShowsOwn ==
  \A i \in WindowSlot : \A s \in Shown(i) :
    /\ s.owner_pid = windows[i].for
    /\ s.width * s.height < PIXEL_WRAP => FramesRead(s) \subseteq FramesOf(s) \cup {-1}
=============================================================================
