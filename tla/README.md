# Luna OS: TLA+ models, checks and proofs

Luna OS is a small 32-bit x86 kernel: one processor, no SMP, interrupts driven by
the 8259 PIC and a 1000 Hz PIT. This directory models the parts of it that keep
state and can go wrong in an order nobody tests, model-checks them on small
instances with TLC, and proves the safety results for every size with TLAPS.
Paths below are relative to the repository root.

## 1. Inventory

| Component | State | Operations | Interacts with |
|---|---|---|---|
| event queue `kernel/ledger_queue.c` | `lq.events/head/tail` | init, push, pop, depth | pushed by VFS and system calls in task context, popped by IRQ0 |
| DAG ledger `kernel/ledger.c` | `ledger_blocks`, `ledger_count`, `ledger_head_idx`, `stream_head[2]` | init, enqueue, flush, verify, get | flush called from the timer IRQ every 10 ticks; verify from the shell |
| frame allocator `kernel/pmm.c` | bitmap, `free_frames`, `total_frames`, `last_alloc` | init, alloc one, alloc run, free | page tables, heap, stacks, shared surfaces |
| scheduler `kernel/scheduler.c` | `run_queues[16]`, `p->next`, `p->state`, `p->ticks_run`, `current_process` | add, remove, start, tick, yield, block, unblock | called from the timer IRQ; writes CR3 and the TSS |
| interrupt path `arch/x86/{idt,pic,timer}.c`, `interrupts.asm` | handler table, `system_ticks`, PIC in-service and mask bits | register, dispatch, EOI, sleep | everything asynchronous |
| process table `kernel/process.c` | `process_table`, `pid_counter`, `current_proc` | create, spawn, kill, lookup | scheduler, PMM, VMM |
| VMM `kernel/vmm.c` | `kernel_pd`, page directories and tables | map, unmap, create, switch, lookup | PMM, heap, process |
| heap `kernel/heap.c` | slab free lists, `heap_cursor` | malloc, free, realloc | PMM, VMM |
| arenas `kernel/arena.c` | cursor, high-water mark, counters | alloc, calloc, strdup, reset, save, restore | lexer, AI core |
| shared surfaces `ipc/`, compositor `compositor/` | surface slots, windows | create, get, destroy, render | PMM, system calls |
| system calls `kernel/syscall.c` | the frame on the kernel stack | dispatch, 14 handlers | all of the above |
| strings, hashes `kernel/{string,hash}.c` | none | pure functions | everywhere |
| shell, lexer, parser `user/` | line buffer, history, token position | edit, dispatch, scan | ledger, arenas, AI core |
| AI core `kernel/ai/` | counters, rule table | query | shell, system calls |
| VFS `kernel/vfs.c` | `fs_root` | read, write, open, close | ledger queue |
| boot, GDT, drivers, tools | hardware set-up | straight-line I/O | |

**What is hard.** One processor, but three kinds of asynchrony: the timer IRQ
interrupts task code anywhere interrupts are on (`kmain` enables them at
`kernel/main.c:190`); `scheduler_tick`
changes the execution flow in the middle of an interrupt handler; and the
lock-free queue is shared between the two contexts. Beyond that: array and
counter limits (ring full, block array full, bitmap exhausted), unsigned
counters that wrap, pointer-linked rings and free lists edited in every order,
five subsystems that share one frame allocator, hardware state (CR3, TSS,
in-service bits) that is written only conditionally, and frames that assembly
builds and C reads. The full
list, each at its line, is under `hazards` in `PROJECT.json`.

**What makes each modelled component correct.**

* queue: accepted events come out complete, once, in order; a push is refused
  only when the ring is full; no torn copy; what goes in comes out eventually.
* ledger: blocks record the accepted events in order and are never rewritten;
  the newest block commits to the history of both streams; a verification interrupted
  at will neither cries wolf nor overlooks a change, and it ends.
* PMM: the counter equals the bitmap; no frame in two hands; no frame that is
  reserved, below 1 MB or part of the kernel; panics are truthful.
* scheduler: run queues are rings of exactly the queued processes; one RUNNING
  process; no flow resumed twice; address space and kernel stack follow the
  current process; the dead are not switched to; nobody of the top level starves.
* memory together: no frame has two uses; heap objects do not overlap; Ring 3
  reaches its own stack and its surfaces, as long as they exist; a window shows
  only the surface it was opened for, from that surface's frames.
* interrupts: a handler runs for its own line and acknowledges only its own
  line; no line is left blocked; a result reaches the caller's EAX; a sleep is
  not shorter than asked. (The first and the third do not hold, sections 3 and 6.)
* library: copies, comparisons, searches, tokens, numbers and padding are what
  their definitions say, at every boundary.
* shell, arena, AI core: lines, history and arguments are what was typed;
  regions of the arena do not overlap; rules take precedence on facts.

## 2. Modules

| Module | Models | Proofs | Instance |
|---|---|---|---|
| `LedgerFifo` | what the queue promises (abstract) | | |
| `LedgerQueue` | `ledger_queue.c` | `LedgerQueueProofs` | `MCLedgerQueue` |
| `Ledger` (uses `LedgerFifo`) | `ledger.c`, the push in `vfs.c`, the flush tick of `timer.c` | `LedgerProofs` | `MCLedger` |
| `Pmm` | `pmm.c` | `PmmProofs` | `MCPmm` |
| `Scheduler` | `scheduler.c`, IRQ0 in `idt.c`/`timer.c`, `process.c` as far as the scheduler and the TSS see it | `SchedulerProofs` | `MCScheduler` |
| `Vmm` | `vmm.c` over the allocator of `pmm.c` | (lemmas in `MemoryProofs`) | |
| `Heap`, `Process`, `Surface` (each extends `Vmm`) | `heap.c`; `process.c`; `shared_surface.c` and `compositor.c` | | |
| `Memory` (composes the three) | `kmain`'s order, every call, `sys_map_surface` | `MemoryProofs` | `MCMemory` |
| `Machine` | `interrupts.asm`, `idt.c`, `pic.c`, `timer_sleep_ms`, `syscall.c`, the keyboard and mouse handlers | `MachineProofs` | `MCMachine` |
| `Text` | `string.c`, SHA-256 padding, `tokenize`, `lexer.c` | `TextProofs` | `MCText` |
| `Arena`, `AiCore` | `arena.c`; `ai_core.c` | | |
| `Shell` (composes the two) | `shell.c` | `ShellProofs` | `MCShell` |

`PROJECT.json` maps every definition to the lines it stands for. Operators marked
`mutant` in the modules are faulty variants of the definition that follows them;
no specification uses them. Each shows that one property can be broken.

### LedgerQueue

`head`, `tail` and `events` are the static `lq`. Each access to a shared word is
an action: `PushReadHead` (line 31), the test of `tail` (`PushFull`/`PushRoom`,
34), the store of `head` (`PushAdvance`, 44), and likewise for pop. The struct
copy is not atomic and takes two actions; a slot is `Torn` in between, and a
reader whose slot changes during its copy ends up with `Torn`. The two sides
interleave freely, which is more than one processor with one IRQ can do (there
the consumer's steps are not interrupted by the producer) and covers it. Steps
of one side stay in program order: the compiler barriers are there for the
stores, and x86 keeps store order. `pending` is a ghost: events appended when
`head` moves and removed when `tail` moves. `LedgerFifo` is the abstract
specification, reached by `q <- pending`; `Ledger` builds on it.

### Ledger

Task code (`EnqueueAccepted`/`EnqueueDropped`, `Verify*`) and IRQ0 (`Flush*`)
alternate: while `flushing`, no task step is possible because IRQ0 runs with
interrupts off. The one caller of the verification in the repository is the
shell, from the keyboard IRQ and so with interrupts off; the model lets flushes
interrupt it, as a caller in task context would, which covers that case. Each iteration of the flush loop is one action, the overflow
branch (85-89) a separate one. Verification has a step that reads the count and
hashes block `i` and a step that compares and looks for the parent, so a flush,
including one that overflows and rewrites the block in hand, may come between
them. The parent scan (153-159) is one step with the comparison: short of an
overflow a flush only appends above `i`, and after one the properties that
remain do not depend on where in the scan it lands. Clearing the slot before the
parents' hashes are read is kept (`hashOf`): after an overflow a stream head may
be that very slot. `Sha256` is a constant operator; TLC's instance makes the
digest the tagged content, deterministic and collision-free. `Alter` is the
event the verification exists for: a finalized block's body changes in memory,
at most once, not during a verification.

The stream of an event is 0 or 1, the two ids the headers define.

### Pmm

The bitmap is the set `used`. `pmm_init` is one action per memory-map entry and
one for taking back the kernel's frames; it keeps the byte arithmetic (skip
below 1 MB, rounding down, the break at the end of the bitmap). `held` is a
ghost: which caller was handed which frame and has not freed it. Callers free
frames they hold, frames that are already free, and addresses past the bitmap
(`FreeArgument`). Each panic message is a value of `panic`, after which nothing
happens: the kernel halts, hence no deadlock check. A run of length 0 is never
found, as in the code, where `++run == n` cannot hold for it.

### Scheduler

`run_queues` and `next` are the pointers themselves. `Chain(l)` is what a walk
along `next` from the head of level `l` meets: the least set closed under the
links. `Remove` has the branches of the C loop, the faulty one for the head
included. `pick_next` advances the head of every list it looks at, also those
it then skips because the head is not READY (`LookedAt`, `Advance`).

`cpu` is the flow that runs and `ctx[p]` the one saved in `p->ctx`; at first
`ctx[p]` is the flow that starts at `p`'s entry point. `scheduler_start` only
sets `current_process`, so the flow of `kmain` goes on under the first process's
name and is saved into its context at the first switch: what that process was
meant to run is lost, which the model shows as `ctx` and `cpu` holding `Kernel`.
`in_service` is the PIC's bit: set while an IRQ0 is not acknowledged. A handler
that returns sends the EOI; so does a flow that resumes inside `scheduler_tick`;
a flow that starts at its entry point does not. `scheduler_yield` enters through
`int $0x20`, which the PIC knows nothing of, but its EOI clears the bit.

A descriptor begins DEAD. `process_create` and `process_spawn_ring3` make it
READY; the latter also writes its kernel stack into the TSS, whoever runs. `tss`
is then the new process, and `SpaceFollows` says what still holds: the stack is
the running process's own or one that no process has used yet. It need not be the
running process's own, against what `process.c:85` has it for.

Nothing in the repository calls add, start, block or unblock yet (`kmain` calls
`scheduler_init` only), so the module models the interface. The functions have no
`cli` of their own; the model calls them with interrupts off. They test no state
and neither does the model: a zombie may be blocked, and a killed process that is
in no list may be unblocked, which makes it READY again. Callers respect: a
process is created before it is used, added or unblocked only while it is in no
list (a second insertion would cut the ring), and started once. `KeepsRing` in
`Next` excludes blocking the head of a list with other members; `AnyBlockSpec` is
`Next` without that restriction. `context_switch` is declared in
`scheduler.c:71` and not in the repository; it is modelled from that declaration
and its comment.

### Vmm, Heap, Process, Surface, Memory

These functions call one another: a `k_malloc` may take frames, which may need a
page table, which takes a frame. So each is an operator from a memory to a memory
(`mem`: allocator, tables, `panic`), and the actions of `Memory` are whole calls.
A panic ends the machine: an operator that meets one goes no further, the memory
of the call is dropped and only the message kept.

`Vmm` takes the allocator as its callers see it, next fit for one frame and first
fit for a run; `Pmm` has its detail and its proofs. A directory or table is a
function of its index to a frame and the user flag; which frames hold tables is
not recorded by the code either, so a table that lay on a surface or a stack
would be overwritten like one in memory. `kernel_pd` is frame 0, the first
`vmm_init` takes.

Every table, stack and surface is reached at its physical address plus
0xC0000000. `boot.asm:75-77` maps the first 8 MB there (`DIRECT` frames); an
access above them is a page fault, in the kernel a panic (`Reaching`). `vmm_init`
then loads a directory without any entry, so the mapping is gone. Nothing behind
`vmm_init` would run, so the model takes the mapping as inherited, as the comment
of `vmm_init` and every caller do, and keeps the bound. This is a premise of the
`memory` run and of `MemoryProofs`. `KernelReads` is what the kernel reads at an address: the frame
itself within the mapping, else what the page tables say. Memory ends below the
heap's range (`GrowthAssumption`): the emulator is given 256 MB
(`Makefile:234`), and at 0xC0000000 plus 256 MB the heap begins.

`Heap` counts in units of 8 bytes, the smallest object and the size of the
header of a large block. Its pages begin at directory entry `HEAP_PDE`, in the
kernel's half. The code lets `heap_cursor` grow without a limit; `MaxPages` keeps
it below the end of the address space, 768 MB above its base. Free lists are sequences of nodes, in the order the code
pops them. `magic` is the set of units that hold the word `0xDEADBEEF`: `k_free`
reads it in front of whatever it is given, owners may store it (`StoreMagic`),
`k_malloc` clears it and `k_realloc` copies it. `Free` has the heuristic of line
139 as it stands (`Match`), and its read in front of the first page as a page
fault.

`Process` starts as the code does, with a table of zeros, that is, of READY
processes: until some slot is DEAD every creation panics, and nothing in the
repository writes PROC_DEAD. `Reap` stands for that missing code. Only
`process_create` with ring 0 is modelled, as its comment says. What a context
holds is left out; the TSS writes are in `Scheduler`. `granted` is a ghost: the
frames of the surfaces mapped for the process.

`Surface` keeps the product `w * h * 4` modulo 2^32, as pixels modulo `PIXEL_WRAP`.
`windows[i].for` is a ghost: for whom the window was opened (`OpenWindow` is
external; nothing fills the table yet). `compositor_render` changes nothing; the
frames it reads, through `KernelReads` and modulo 2^32, are `FramesRead`.

`sys_map_surface` creates a surface for the calling Ring 3 process and maps it
there. It calls `surface_create` with two of its three arguments, and
`surface_map_to_process`, which is declared nowhere: the model passes the
caller's pid and takes the second to map every frame of the surface with the user
flag, at an address of its own per slot (external), as `shared_surface.h:9` says
it is. The caller is taken to be the process the scheduler runs. `surface_destroy`
undoes none of it.

### Machine

`stack` is the stack of handlers under way. An entry holds the words the stub
pushed; C code reads them through `CPU_Regs` (`Field`), `popa` and `iret` through
their real position (`Restored`). The stubs push four segment registers
(`SegmentWords`) that `CPU_Regs` does not have, so that `regs->int_no` is the
interrupted code's EBX, `regs->cs` its EAX and `regs->eax` the saved stack
pointer. Tasks have any of the given values in these registers (`Compute`). All
runs and theorems are about this frame: the handler that runs and the PICs that
are acknowledged are whatever EBX names. `Scheduler` and `Ledger` are about what
happens once the timer's handler does run.

The two PICs are request, mask and in-service bits in fully nested mode
(external, as the code programs them); a non-specific EOI clears the highest
bit in service. The keyboard and mouse handlers and then `irq_handler` send it.
`pic_remap` writes back the masks it found, so the keyboard's, the mouse's and the
cascade's may be anything. `timer_sleep_ms` reads the 64-bit counter in two
steps. The page fault of a Ring 3 process returns to the faulting instruction, if
it is recognised as one. `syscall_dispatch` takes the stack pointer for the call's
number, so no handler of the table is ever called: `Results` has what each would
return, and what `sys_exit` and `sys_sleep` would do besides is left out. The
stub's `popa` restores EAX whatever `syscall_dispatch` returns.

### Text

One action per family of functions applies each C function, as an operator on
buffers, to every small input; the invariants compare the result with a
definition that has no loops. A read past the end of a buffer is an evaluation
error of TLC, so the runs also show there is none. The loops of the code are
recursive functions over their turns, so that `TextProofs` can reason about them
for every length. `luna_strncmp` and blank-padded `%d` differ
from the standard's; the properties say where (section 6). `%X`, the 64-bit
`%lu`, `%lx` and `%ld`, and a format that ends in a lone `%`, are left out.

### Arena, AiCore, Shell

`Shell` works on words; `Text` has `tokenize` at character level. `shell_on_key`
is one action per kind of key; `Enter` hands the line to `execute_line`, whose
routing, recursion and commands are steps during which no key arrives (the handler
runs a line to its end). A line that fills a local copy is not terminated there,
and the string runs on into the stack up to some zero byte: `Copies` is what may
come of it, the last word whole or lengthened (`JUNK`) and any number of words
behind it. `LinesKept` promises the words before that. The NLP
router, the file calls and the script interpreter are not in the repository: they
answer anything, and a script allocates and opens scopes at will in `Arena`.
Scopes nest and end with the script, as the comment of `arena_save` describes.
The two engines behind `ai_query` report any confidence.

## 3. Runs

| Run | Result | What it shows |
|---|---|---|
| `ledger_queue` | pass | `RingHoldsPending`, `CopiesDisjoint`, refinement with liveness `FifoLive` |
| `ledger` | pass | `EventsInOrder`, `NewestCoversHistory`, `RejectHasCause`, `AcceptMeansUnaltered`, `AppendOnly`, `QueueDrains`, `VerifyEnds` |
| `pmm` | pass | `FreeCountExact`, `HeldExclusive`, `HeldUsable`, `PanicHonest` |
| `scheduler` | pass | `RingsIntact`, `OneRunning`, `FlowsDistinct`, `SpaceFollows`, `DeadNotPicked`, `RoundRobin` |
| `memory` | pass | `FramesOwnedOnce`, `HeapDisjoint`, `SpacesSeparate`, `WindowShowsOwn` |
| `machine` | pass | `AckOwn`, `SleepHonest`, `IrqServed` |
| `text` | pass | `MemoryExact`, `StringsAgree`, `LinesSplit`, `FormatFits`, `NumbersParse`, `PaddingExact` |
| `shell` | pass | `LinesKept`, `ArenaSafe`, `GroundTruth` |
| `ledger_rollover` | violation | after the block array overflows, verification reports tampering without any |
| `scheduler_block_head` | violation | removing the head of a longer list breaks the ring |
| `scheduler_preemption` | violation | the switch to a fresh process leaves IRQ0 unacknowledged and stops preemption |
| `machine_frame` | violation | C handlers read the stubs' frames four words too low |

The first three passing runs also check `TypeOK`. `scheduler` and `memory` leave
theirs to the theorems; in the others the properties themselves read every
variable at its type.

What the passing runs show, beyond the obvious: `k_free`'s guess from the address
always picks the smallest cache, so objects only move to lists of smaller objects
and never overlap; a wrapped surface size is at least consistent between creation
and destruction; a doubled EOI never reaches another line of the master, whatever
line EBX names, because handlers run with interrupts off and only one line is in
service there at a time (the slave's bit does stay behind when a mouse interrupt
is dispatched as a lower line: it gets no EOI); a torn read of the clock can
shorten a sleep only when the low word wraps, which `SleepHonest` excepts because
the code does nothing against it.

### Bounds

* queue: 4 slots, 2 events. Three usable slots let the indices wrap, the ring
  fill and empty, and both sides be anywhere; 2 distinct events tell order.
* ledger: ring of 2, 4 block slots (genesis and 3), 5 accepted events, one
  payload, two streams. Five events fill the array, overflow it and go on for a
  block more. `MaxEvents` bounds acceptance only; flushing and verifying go on.
* PMM: 10 frames of 2 bytes, megabyte at frame 2, kernel in frames 2 and 3; runs
  up to 3 frames; 2 callers; four maps (below and across the megabyte, ending
  inside a frame, past the bitmap, out of order).
* scheduler: 3 processes (one Ring 0, two Ring 3), slices 1 and 3, tick counter
  modulo 4, so the wrap cuts a slice short as 2^32 does for slices that are not
  powers of two; two levels, the kernel task on the lower one and a ring of two
  above it, in which one may be dead and the other must still get its turn.
  Longer rings are covered by the proofs (safety only).
* memory: 16 frames, the last two above the boot mapping, directories of 6 entries
  (five of them the kernel's, the heap in the last two), two slab sizes, large
  blocks that reach the second heap table, 4 live objects, 2 process slots, one
  surface slot and one window, behaviours of 8 calls. The frames run out, an
  access faults above the mapping, the kernel gains a table after a directory was
  copied, a surface is mapped where a destroyed one was, surfaces of two processes
  follow one another in a slot, one of them with a wrapped size.
* machine: three lines (timer, keyboard, mouse on the slave), one task in either
  ring, values of EBX that name each handler and none, of EAX that pass for either
  code segment, 4 ticks with a low word of 3 values, sleeps of 0 and 2.
* text: 7 bytes of memory and words of 2, strings up to 3 of 3 letters (two of
  them the same letter in two cases), lines up to 6 characters, an 8-bit
  `uint32_t` with every value, at most 3 arguments, field widths 0 and 4, buffers
  of 0, 1, 3, 4 and 12 bytes (the last holds every text whole), SHA-256 blocks of 8 bytes with a length field of 2
  and messages up to 20 bytes.
* shell: a buffer of 3 words, 2 history slots, 3 lines, 3 sessions; an arena of 12
  bytes aligned to 4 with 3 live regions and 2 nested scopes; confidences at 0, 1,
  33, 34, 60 and 100.

### Fairness

* queue: weak fairness of each side's steps: the flush polls every 10 ms and a
  push has no loop. New pushes are not fair.
* ledger: weak fairness of the tick and of the handler's steps (IRQ0 keeps
  firing: the scheduler is never started, so every tick reaches the flush), and
  strong fairness of verification steps, which each tick disables and re-enables
  and which the processor returns to after every interrupt.
* scheduler: weak fairness of `TimerIrq` only. `RoundRobin` holds under two
  explicit hypotheses in its statement: interrupts are acknowledged again and
  again, and from some time on no yield resets a slice. Without the first it
  fails (`scheduler_preemption`).
* machine: weak fairness of handlers and of the sleeper's steps (the processor
  goes on), strong fairness of taking a pending interrupt, which the task's
  system calls disable and re-enable: the processor looks at every instruction
  boundary with IF set. The devices and the task are not fair. `IrqServed`
  is stated for lines above which all is silent from some time on: the 8259
  starves the mouse under a constant timer.

## 4. Proofs

All theorems are of the form `Spec => []Inv` (or `[][A]_vars`, or the abstract
`Spec`) for every value of the constants that satisfies the named assumptions.

* **LedgerQueueProofs** (assumes the size is a power of two, at least 2). The
  ring property alone is not inductive: a producer past its test must still be
  entitled to its slot. `IInv` adds `ProducerInv` (its local `phead` is `head`,
  its `pnext` is not `tail` once it has passed the test, what it wrote is there)
  and `ConsumerInv` (its `ctail` is `tail`, the ring is not empty under it, its
  copy is whole). `CopiesDisjoint` follows: `phead = head # tail = ctail`.
  `QueueImplementsFifo` proves the safety part of the refinement from it.
* **LedgerProofs** (assumes at least 2 block slots). `IInv` adds `SelfHashed`
  (an unaltered block's hash is that of its content), `ParentsEarlier` (before
  the overflow, its first parent is at a lower index) and `VerifierInv` (the
  digest in hand is that of the block it was taken from). From it
  `RejectHasCause` without any assumption on the hash function, `AppendOnly`,
  and by inductions of their own on top of it `EventsInOrder` and
  `NewestCoversHistory`; the latter needs `NewestInv`, that the newest block is
  the head of some stream, so that the next block names it.
* **PmmProofs** (assumes available areas do not overlap). `IInv` joins
  `FreeCountExact`, `HeldExclusive` and `PanicHonest` with `OpenedInv`: what is
  free or held was opened by an entry already read, `total_frames` is the number
  of frames opened, and nothing happens before boot is over. Cardinality facts
  come from `FiniteSetTheorems`. The non-overlap assumption is needed: the code
  counts a frame twice if two entries contain it.
* **SchedulerProofs**. The shape of a list is stated without recursion: a set
  closed under `next`, on which `next` is injective and onto, and which is the
  only closed subset of itself that contains the head. `IInv` says each level is such a ring through its
  members, with `OneRunning` and `MachineInv` (`FlowsDistinct`, `SpaceFollows`
  and the facts that hold before the first switch). `DeadNotPicked` follows from
  it, since a process that is picked is READY.
* **MemoryProofs** (assumes what the headers fix: sizes are positive, the smallest slab object is one unit and every object
  fits a slab, a user stack lies below the kernel's half, and
  `GrowthAssumption`: the heap stays inside the kernel's half and physical memory,
  seen from 0xC0000000, below the heap; `RoomAssumption`: surfaces are mapped below
  the stack). `MemoryOwned` is
  the inductive invariant `MemInv`; `TypeOK` and the four properties of the
  run follow from it.
  It has three parts.
  *Ownership* (`Owns`): there is a function `o` that gives every frame in use one
  owner, a kind and a number, such that the kernel's directory, its tables, every
  heap page, the stacks, directory and tables of every live process and the
  frames of every active surface are in use and have the owner they should. An
  allocation extends `o`; what a call leaves of the others is `Extends`. Stating
  `FramesOwnedOnce` by pairs of uses would need a case for every pair in every
  action; with owners each action shows only its own. `DirectoryOK` carries what
  `SpacesSeparate` needs: entries of the kernel's half are absent or the kernel's,
  a user entry points into the process's stack or a surface granted to it, and
  `KernelOK` that no kernel entry has the user flag and that none lies below the
  heap's range, so that a read above the boot mapping faults.
  *Lists* (`ListsOK`): objects and nodes are pairwise `Apart`, as inequalities
  between addresses rather than disjoint sets, and below the cursor. Here it
  matters that an object of any cache has room for a node of the one `k_free`
  picks, which is always the first.
  *Identifiers* (`WindowInv`, `PidInv`): ids of active surfaces are distinct and
  in the past, and so are those windows hold; every Ring 3 descriptor has a pid.
  The loops (`heap_alloc_pages`, `heap_init`, `MapUser`) are recursive functions
  of the model; one induction (`LoopExists`, by the least counterexample) gives
  their equations, and `SetInduction` the facts about each round.
* **MachineProofs**. `MachineSleepHonest` needs `NapInv`, which relates the
  half-read clock to the present one. `MachineAckOwn` needs `StackInv`: handlers do
  not nest, interrupts are off in them, and the master's bits in service are those
  of the handler's own line; it makes no use of which handler EBX selects. That is
  why the second EOI and the one for a wrong line are harmless on the master.
* **ShellProofs** (assumes buffers of at least 3, that words are not terminators,
  that the router's answers fit the shell's buffers, and that no allocation
  request wraps `size_t`). `ArenaInv` adds to `ArenaSafe`, which a restore could
  break, that checkpoints nest and that each covers the regions it counts
  (`CheckpointsNest`). `GroundTruth` is arithmetic on the rounded scores.
  `LinesInv` says of the line buffer, the history ring and the line in execution
  what each holds (`KeyboardInv`, `HistoryInv`, `ExecInv`), in particular that the
  last byte of every history slot stays a terminator, which the code never writes
  and relies on.
* **TextProofs** (assumes `TextAssumption`: word, block and unit sizes are
  positive, letters are bytes other than the terminator, the length field fits a
  block, a `uint32_t` holds at least a byte, and `tokenize` has room for one
  argument). Every behaviour of `Text` is one call, so the theorems are about what
  the functions compute, for buffers, strings, lines, words and messages of any
  length. The provers cannot instantiate a theorem that takes an operator, so the
  loops are listed as data (`Advance` gives the turn of each) and one induction, by
  the least counterexample, gives the equations of them all (`LoopExists`,
  `LoopEquations`); each then has the invariant a reader of the C loop would
  write. *Memory*: `Filled` and `Moved`, what is written so far and what is not yet
  overwritten, which for `luna_memmove` depends on the direction. *Strings*:
  `Diverge`, the first place where two strings differ. *Lines*: `Lexed`, and `Split`
  within `TokInv` for `luna_strtok`, whose static pointer is part of the state.
  *Padding*: `Laid` and `Message`, what the blocks handed on and the partial one
  hold together. *Numbers*: `Spells` (digits and value, by recursion on the
  quotient) against `Reads` (the parser's fold over the same digits). *Formats*:
  `FullText` is the text without a limit; every write appends to the front of it
  that fits (`WriteIs`, `ConvertIs`, `PrintIs`), so a smaller buffer gets a front of
  what a larger one gets.

`LedgerAcceptMeansUnaltered` has the hypothesis `DamageChangesDigest`: the digest
tells a damaged block from the original. It is not an assumption of the module,
since no other theorem needs it; TLC's digest satisfies it. Its invariant
`AlteredShow` says where a running verification can still meet the change.
`PmmHeldUsable` has the hypothesis `AlignedMaps` (areas above 1 MB begin on frame
boundaries), which `MCPmm` evaluates on its maps: `pmm_init` rounds a base down
and would otherwise free a frame that is only partly available.

**Only model-checked**: liveness (`FifoLive`'s fairness part, `QueueDrains`,
`VerifyEnds`, `RoundRobin`, `IrqServed`), which is out of the prover's reach. Every
invariant and every action property of a passing run is a theorem.

## 5. Not modelled

* The compression function of SHA-256 and FNV-1a (`kernel/hash.c:18-112`): 32- and
  64-bit arithmetic that TLC can only replay on fixed vectors.
* Boot, GDT, paging set-up, framebuffer, font, UART and PS/2 port I/O:
  straight-line hardware access; its result is the initial state of the models.
* `parse_multiboot2` (`kernel/main.c:49`): its result is `Pmm`'s memory map.
* The neural core, the NLP, the script interpreter and a file system: the code
  calls them and the repository does not have them. Their answers are
  nondeterministic. `explicit_ai_query` (`kernel/ai/explicit/rule_table.c:9`)
  has another name, signature and set of classes than the `explicit_evaluate` that
  `ai_core.c` calls, and no code calls it.
* What the handlers of the system-call table do (`syscall.c:20-121`), but for
  `sys_map_surface`: with the stubs' frame none of them is ever called.
* `lexer_identify_intent`, `luna_atoll`, `luna_sprintf`: unused, or a copy of what
  is modelled. The tools are placeholders.

## 6. Observations

Met while modelling. The first item lists the `findings`, each with a run. The next
two list what the models also have and a comment contradicts, without a run: the
properties of the passing runs are stated so that they hold of the code as it is.
The rest is behaviour nothing in the repository speaks of, or lies outside the
inputs a caller may use, unless a comment is named.

* Ledger: false tamper alarm after the overflow. Scheduler: broken ring when the
  head is blocked, no EOI on a first switch. Interrupts: the frame is misread.
* Contradicted by a comment, and in the models:
  * `process_spawn_ring3` sets the TSS to the new process's stack while another may
    run (`process.c:119`), though that stack is there for the "Ring 3 → Ring 0
    transitions" of its own process (`process.c:85`). `SpaceFollows` allows for it.
  * System calls return nothing: `popa` restores the EAX of the call, although
    `syscall.c:3` says "Return value in EAX (set by handler)" and
    `interrupts.asm:179` "EAX from C function becomes the return value"; an
    undefined call does not return -1 either (`syscall.c:123-125`).
  * A surface is not mapped into the kernel (`shared_surface.c:32` says "Map into
    Kernel space (so Compositor can read it)"): above the boot mapping rendering it
    faults, and one whose size wrapped is rendered from frames it does not own.
    `WindowShowsOwn` allows the fault and is stated for sizes that do not wrap.
  * A destroyed surface stays mapped in its process, across the "Ring 0 / Ring 3
    Window Sandbox Boundary" of `shared_surface.h:1`. `SpacesSeparate` bounds what
    Ring 3 reaches by what was ever mapped for it.
  * The weights of the fusion are 75/25 and 25/75, not the 0.7/0.3 and 0.2/0.8 of
    `ai_core.c:11`; on general and language queries rules that are 100% sure are
    outvoted, though the repository's `README.md:60` has them "overriding the Neural
    Core"; and a rule confidence of 0, which `rule_table.c:25` uses for "Defers to
    LLM", is answered with `[CONSTRAINT BLOCKED]`. `GroundTruth` is what the weights
    of the code and those of the header have in common.
* Contradicted by a comment, and left out as a premise: `vmm_init` loads an empty
  directory into CR3 although `vmm.c:42` says the boot mapping is inherited.
* `ledger_queue_push` is called "interrupt context safe" (`ledger_queue.c:29`): a
  push inside another would use the same head and be overwritten or skipped
  although it returned true. No handler pushes today.
* Boot: `process_init` leaves no DEAD slot, so the first `process_create` panics.
  Nothing opens the keyboard's, the mouse's or the cascade's line.
* Processes: the frames of killed processes are never freed (`process.c:129` has it
  as a TODO); a killed process that is blocked and unblocked is READY again; nobody
  sets `current_proc`, so `sys_exit` would read through NULL and `sys_getpid` return 0.
* System calls, were they reached: `sys_sleep` halts with interrupts off and never
  wakes; `sys_map_surface` calls `surface_create` with two arguments; `max_len` 0
  wraps in `sys_ai_query` (`syscall.c:110`).
* Heap: freeing the very first object reads in front of the heap; an object behind
  a word `0xDEADBEEF` is leaked; `k_realloc` reads `new_size` bytes of the old
  object; `size + 8` may wrap.
* Strings: `luna_strncmp` misses a difference at the last of the `n` characters and
  judges equal prefixes by what follows; `luna_snprintf` knows neither `-` nor a
  precision (`shell.c:212,257,274` use both), prints `-  5` for a blank-padded
  negative number, and the smallest int as a 64-bit number; `luna_strrchr` does
  not find the terminator.
* Shell: no recall of history although its header promises it; a line or an answer
  of the router that fills its copy is not terminated (`shell.c:156,163`); an answer of the
  router that is itself prose recurses without bound; `cat` writes one byte past
  its buffer for a file of 1024 bytes or more; `reboot` is known and not
  implemented; `shell_printf` drops its arguments.
* AI core: the `[Verified]` branch (135-140) cannot be reached, because a neural
  confidence above 60 outweighs any rule on a language query.
* Lexer: the newline test inside the loop over blanks cannot succeed, so every
  token is on line 1.
