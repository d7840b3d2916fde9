------------------------------ MODULE Surface -------------------------------
(***************************************************************************)
(* ipc/shared_surface.c and compositor/compositor.c: pixel buffers in      *)
(* contiguous frames, and the windows that show them.  A pixel has 4       *)
(* bytes, so w * h * 4 modulo 2^32 is 4 times the pixels modulo 2^30.      *)
(***************************************************************************)
EXTENDS Vmm

CONSTANTS MAX_SURFACES, MAX_WINDOWS,
          Requests,         \* <<pid, width, height>> asked for
          PAGE_PIXELS       \* pixels per frame (1024)

ASSUME PixelAssumption == /\ MAX_SURFACES \in Nat /\ MAX_WINDOWS \in Nat
                          /\ Requests \subseteq Nat \X Nat \X Nat
                          /\ PAGE_PIXELS \in Nat \ {0}

VARIABLES surfaces, next_surface_id,
          windows           \* surface_id (0: not active); for: ghost, the pid it was opened for

SurfaceSlot == 0 .. MAX_SURFACES - 1
WindowSlot == 0 .. MAX_WINDOWS - 1

NoSurface == [id |-> 0, owner_pid |-> 0, width |-> 0, height |-> 0, phys_base |-> 0, active |-> FALSE]

SurfaceInit ==
  /\ surfaces = [i \in SurfaceSlot |-> NoSurface]
  /\ next_surface_id = 1
  /\ windows = [i \in WindowSlot |-> [surface_id |-> 0, for |-> 0]]

PIXEL_WRAP == ENTRIES * ENTRIES * PAGE_PIXELS       \* pixels whose bytes make 2^32

PagesNeeded(w, h) == (((w * h) % PIXEL_WRAP) + PAGE_PIXELS - 1) \div PAGE_PIXELS

FramesOf(s) == s.phys_base .. s.phys_base + PagesNeeded(s.width, s.height) - 1

Idle == {i \in SurfaceSlot : ~surfaces[i].active}

NewIdOfSlot(i) == i + 1     \* mutant: the slot is the id

(* s->id = next_surface_id++ *)
NewId(i) == next_surface_id

(* The surface in memory m, which has its frames taken or has panicked. *)
MakeSurface(m, pid, w, h) ==
  /\ Idle # {}
  /\ LET i == Min(Idle)
     IN IF m.panic # "no" THEN mem' = Panicked(mem, m.panic) /\ UNCHANGED <<surfaces, next_surface_id>>
        ELSE /\ mem' = m
             /\ surfaces' = [surfaces EXCEPT ![i] =
                  [id |-> NewId(i), owner_pid |-> pid, width |-> w, height |-> h,
                   phys_base |-> Min(Runs(mem, PagesNeeded(w, h))), active |-> TRUE]]
             /\ next_surface_id' = next_surface_id + 1
  /\ UNCHANGED windows

surface_create(pid, w, h) == MakeSurface(TakeRun(mem, PagesNeeded(w, h)), pid, w, h)

surface_get(id) == {i \in SurfaceSlot : surfaces[i].active /\ surfaces[i].id = id}

(* The fields of a slot that is not active are never read. *)
surface_destroy(id) ==
  /\ surface_get(id) # {}
  /\ LET i == Min(surface_get(id))
     IN /\ mem' = [mem EXCEPT !.used = @ \ FramesOf(surfaces[i])]
        /\ surfaces' = [surfaces EXCEPT ![i] = NoSurface]
  /\ UNCHANGED <<next_surface_id, windows>>

(* No function of the repository fills `windows` yet: a window is opened   *)
(* for a surface that exists, by its owner.                                *)
OpenWindow(i, j) ==
  /\ surfaces[j].active
  /\ windows' = [windows EXCEPT ![i] = [surface_id |-> surfaces[j].id, for |-> surfaces[j].owner_pid]]
  /\ UNCHANGED <<mem, surfaces, next_surface_id>>

(* The surface compositor_render copies for a window, and the frames it    *)
(* reads (-1: a page fault): pixel wy * width + wx for every row and       *)
(* column, from virt_addr_kernel = phys_base + 0xC0000000, modulo 2^32.    *)
Shown(i) == IF windows[i].surface_id = 0 THEN {} ELSE {surfaces[j] : j \in surface_get(windows[i].surface_id)}
FramesRead(s) ==
  {KernelReads((KERNEL_PDE * ENTRIES + s.phys_base + (p \div PAGE_PIXELS)) % (ENTRIES * ENTRIES)) :
     p \in 0 .. s.width * s.height - 1}

SurfaceTypeOK ==
  /\ surfaces \in [SurfaceSlot -> [id : Nat, owner_pid : Nat, width : Nat, height : Nat,
                                   phys_base : Frame, active : BOOLEAN]]
  /\ next_surface_id \in Nat
  /\ windows \in [WindowSlot -> [surface_id : Nat, for : Nat]]
=============================================================================
