-------------------------------- MODULE Heap --------------------------------
(***************************************************************************)
(* kernel/heap.c: slab caches with threaded free lists, and large blocks   *)
(* with a header, in pages mapped above HEAP_VIRT_BASE.                    *)
(*                                                                         *)
(* The unit of address and size is 8 bytes, the smallest slab object and   *)
(* the size of LargeHdr; address 0 is HEAP_VIRT_BASE.  A free list is the  *)
(* sequence of its nodes.  Of the contents of memory the model keeps which *)
(* units hold the word LARGE_MAGIC: k_free reads it in front of whatever   *)
(* it is given.  The counters total and used are never read; left out.     *)
(***************************************************************************)
EXTENDS Vmm, Sequences

CONSTANTS HEAP_PDE,         \* directory entry of HEAP_VIRT_BASE (832)
          SLAB_SIZES,       \* object sizes, ascending, in units
          SLAB_PAGES,       \* pages per slab
          PAGE_UNITS,       \* units per page
          RequestSizes,     \* sizes asked of k_malloc
          MaxLive,          \* bound: objects alive at a time
          MaxPages          \* bound: the heap stops asking at this many pages

ASSUME SlabAssumption ==
  /\ SLAB_PAGES \in Nat \ {0} /\ PAGE_UNITS \in Nat \ {0}
  /\ SLAB_SIZES \in Seq(Nat \ {0}) /\ Len(SLAB_SIZES) > 0 /\ SLAB_SIZES[1] = 1
  /\ \A c \in DOMAIN SLAB_SIZES : SLAB_SIZES[c] <= SLAB_PAGES * PAGE_UNITS

(* The heap is in the kernel's half of the address space, stays there, and *)
(* begins above every physical address + 0xC0000000.                       *)
ASSUME GrowthAssumption ==
  LET room == (ENTRIES - HEAP_PDE) * ENTRIES
  IN /\ HEAP_PDE \in KERNEL_PDE .. ENTRIES - 1
     /\ FRAMES <= (HEAP_PDE - KERNEL_PDE) * ENTRIES    \* 256 MB of memory: `make run` has -m 256M
     /\ RequestSizes \subseteq Nat /\ MaxPages \in Nat
     /\ Len(SLAB_SIZES) * SLAB_PAGES <= room
     /\ MaxPages + SLAB_PAGES <= room
     /\ \A size \in RequestSizes : MaxPages + ((size + PAGE_UNITS) \div PAGE_UNITS) <= room

VARIABLE heap   \* cursor: the next page; free_list; magic; live: ghost, [ptr, size] of the
                \* objects handed out and not freed

HEAP_VIRT_BASE == HEAP_PDE * ENTRIES    \* its page number
Cache == DOMAIN SLAB_SIZES

(* A kernel state, for functions that call one another. *)
Kernel(m, h) == [mem |-> m, heap |-> h]

Advanced(k, m) ==
  IF m.panic # "no" THEN [k EXCEPT !.mem = m] ELSE [k EXCEPT !.mem = m, !.heap.cursor = @ + 1]

OnePage(k) ==
  LET a == TakeFrame(k.mem)
  IN IF a.panic # "no" THEN [k EXCEPT !.mem = a]
     ELSE Advanced(k, vmm_map_page(a, kernel_pd, HEAP_VIRT_BASE + k.heap.cursor, NextFit(k.mem), FALSE))

heap_alloc_pages(k, n) ==
  LET grown[i \in 0 .. n] ==
        IF i = 0 THEN k
        ELSE IF grown[i - 1].mem.panic # "no" THEN grown[i - 1] ELSE OnePage(grown[i - 1])
  IN grown[n]

(* The objects of a new slab as they come off the list: the last one first. *)
Threaded(base, obj) ==
  LET count == (SLAB_PAGES * PAGE_UNITS) \div obj
  IN [j \in 1 .. count |-> base + (count - j) * obj]

Listed(g, c, objects) ==
  IF g.mem.panic # "no" THEN g
  ELSE [g EXCEPT !.heap.free_list[c] = objects \o @,
                 !.heap.magic = @ \ {objects[j] : j \in DOMAIN objects}]

AddSlab(k, c) ==
  Listed(heap_alloc_pages(k, SLAB_PAGES), c, Threaded(k.heap.cursor * PAGE_UNITS, SLAB_SIZES[c]))

heap_init(m) ==
  LET empty == [cursor |-> 0, free_list |-> [c \in Cache |-> <<>>], magic |-> {}, live |-> {}]
      up[c \in 0 .. Len(SLAB_SIZES)] ==
        IF c = 0 THEN Kernel(m, empty)
        ELSE IF up[c - 1].mem.panic # "no" THEN up[c - 1] ELSE AddSlab(up[c - 1], c)
  IN up[Len(SLAB_SIZES)]
-----------------------------------------------------------------------------
Units(ptr, size) == ptr .. ptr + size - 1

Fitting(size) == {c \in Cache : size <= SLAB_SIZES[c]}

Popped(s, c) ==
  LET obj == Head(s.heap.free_list[c])
  IN IF s.mem.panic # "no" THEN [ptr |-> -1, k |-> s]
     ELSE [ptr |-> obj,
           k |-> [s EXCEPT !.heap.free_list[c] = Tail(@), !.heap.magic = @ \ Units(obj, SLAB_SIZES[c])]]

FromSlab(k, c) == Popped(IF k.heap.free_list[c] = <<>> THEN AddSlab(k, c) ELSE k, c)

Large(k, size) ==
  LET base == k.heap.cursor * PAGE_UNITS
      g == heap_alloc_pages(k, (size + 1 + PAGE_UNITS - 1) \div PAGE_UNITS)
  IN [ptr |-> base + 1, k |-> [g EXCEPT !.heap.magic = @ \cup {base}]]

(* The pointer (-1 for NULL) and the state k_malloc leaves. *)
Malloc(k, size) ==
  LET a == IF size = 0 THEN [ptr |-> -1, k |-> k]
           ELSE IF Fitting(size) # {} THEN FromSlab(k, Min(Fitting(size)))
           ELSE Large(k, size)
  IN IF size = 0 THEN a ELSE [a EXCEPT !.k.heap.live = @ \cup {[ptr |-> a.ptr, size |-> size]}]

MatchLargest(ptr) ==    \* mutant: the largest size that divides the address
  Max({c \in Cache : ptr % SLAB_SIZES[c] = 0})

(* k_free's guess at the cache an object came from. *)
Match(ptr) == Min({c \in Cache : ptr % SLAB_SIZES[c] = 0})

Unlisted(k, ptr) == [k EXCEPT !.heap.live = {o \in @ : o.ptr # ptr}]

(* The header is read 8 bytes in front of the object: for the first object *)
(* of the heap, in front of its first page.                                *)
Free(k, ptr) ==
  IF ptr = -1 THEN k
  ELSE IF ptr = 0 THEN [k EXCEPT !.mem = Panicked(@, "Page Fault")]
  ELSE IF ptr - 1 \in k.heap.magic THEN [Unlisted(k, ptr) EXCEPT !.heap.magic = @ \ {ptr - 1}]
  ELSE [Unlisted(k, ptr) EXCEPT !.heap.free_list[Match(ptr)] = <<ptr>> \o @, !.heap.magic = @ \ {ptr}]

(* The copy reads new_size bytes, whatever the size of the old object. *)
ReadsMapped(k, ptr, size) == ptr + size <= k.heap.cursor * PAGE_UNITS

Copied(k, from, to, size) ==
  [k EXCEPT !.heap.magic =
     (@ \ Units(to, size)) \cup {to + i : i \in {j \in 0 .. size - 1 : from + j \in k.heap.magic}}]

Realloc(k, ptr, size) ==
  IF ptr = -1 THEN Malloc(k, size).k
  ELSE IF size = 0 THEN Free(k, ptr)
  ELSE LET a == Malloc(k, size)
       IN IF a.k.mem.panic # "no" THEN a.k
          ELSE IF ~ReadsMapped(a.k, ptr, size) THEN [a.k EXCEPT !.mem = Panicked(@, "Page Fault")]
          ELSE Free(Copied(a.k, ptr, a.ptr, size), ptr)
-----------------------------------------------------------------------------
(* A call that returns, or ends in a panic. *)
Returns(k) ==
  IF k.mem.panic # "no" THEN mem' = Panicked(mem, k.mem.panic) /\ UNCHANGED heap
  ELSE mem' = k.mem /\ heap' = k.heap

Room == heap.cursor < MaxPages

k_malloc == /\ Room
            /\ Cardinality(heap.live) < MaxLive
            /\ \E size \in RequestSizes : Returns(Malloc(Kernel(mem, heap), size).k)

(* Callers free what they were handed, once, or NULL (no effect). *)
k_free == \E o \in heap.live : Returns(Free(Kernel(mem, heap), o.ptr))

k_realloc == /\ Room
             /\ \E o \in heap.live, size \in RequestSizes :
                  Returns(Realloc(Kernel(mem, heap), o.ptr, size))

(* The owner of an object stores the value of LARGE_MAGIC in it; only its  *)
(* last unit is ever in front of another object.                           *)
StoreMagic == \E o \in heap.live :
                /\ heap' = [heap EXCEPT !.magic = @ \cup {o.ptr + o.size - 1}]
                /\ UNCHANGED mem

HeapTypeOK ==
  /\ heap.cursor \in 0 .. ENTRIES * ENTRIES
  /\ heap.free_list \in [Cache -> Seq(Nat)]
  /\ heap.magic \subseteq Nat
  /\ heap.live \subseteq [ptr : Nat, size : Nat]
=============================================================================
