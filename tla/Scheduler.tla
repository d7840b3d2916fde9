------------------------------ MODULE Scheduler ------------------------------
(***************************************************************************)
(* kernel/scheduler.c with what it is driven by: the IRQ0 path of          *)
(* arch/x86/idt.c and timer.c, and what kernel/process.c does to a         *)
(* descriptor and to the TSS: creation, process_kill.                      *)
(*                                                                         *)
(* The run queues are modelled at the level of their pointers: run_queues  *)
(* holds the heads and `next` the links.  An execution flow is what a      *)
(* CPUContext holds: each process has the one that starts at its entry     *)
(* point, and the kernel has the one that runs kmain.                      *)
(*                                                                         *)
(* A descriptor that has not been created yet is DEAD, as alloc_slot asks  *)
(* for (how slots come to be DEAD is in module Process).                   *)
(*                                                                         *)
(* The operations are called by whatever flow is on the processor, with    *)
(* interrupts off, so that each is one step; a timer interrupt comes       *)
(* between two of them, unless the PIC still waits for the EOI of the      *)
(* last one.                                                               *)
(***************************************************************************)
EXTENDS Integers, FiniteSets

CONSTANTS Proc,             \* process descriptors
          NULL,             \* the null Process*
          Kernel,           \* kmain: its flow, its page directory, its stack
          Ring3,            \* the processes of process_spawn_ring3
          NUM_PRIO,         \* run queues
          priority,         \* p->priority
          ticks_alloc,      \* p->ticks_alloc
          TicksWrap         \* the modulus of p->ticks_run: 2^32 in the code

ASSUME ProcAssumption == /\ NULL \notin Proc /\ Kernel \notin Proc /\ NULL # Kernel
                         /\ Ring3 \subseteq Proc
ASSUME PrioAssumption == NUM_PRIO \in Nat \ {0} /\ priority \in [Proc -> Nat]
ASSUME SliceAssumption == /\ ticks_alloc \in [Proc -> Nat \ {0}]
                          /\ TicksWrap \in Nat \ {0}

Level == 0 .. NUM_PRIO - 1
prio(p) == priority[p] % NUM_PRIO
page_dir(p) == IF p \in Ring3 THEN p ELSE Kernel

VARIABLES run_queues,       \* the head of each level's list, or NULL
          next,             \* p->next
          state,            \* p->state
          ticks_run,        \* p->ticks_run
          current_process, scheduler_active,
          cpu,              \* the flow that is running
          ctx,              \* p->ctx: the flow saved there
          started,          \* ghost: the processes whose own flow has run
          cr3, tss,         \* the page directory loaded, whose stack the TSS names
          in_service,       \* the PIC's in-service bit of IRQ0
          queued,           \* ghost: added and not removed since
          panic             \* scheduler_start found no process

vars == <<run_queues, next, state, ticks_run, current_process, scheduler_active,
          cpu, ctx, started, cr3, tss, in_service, queued, panic>>

machine == <<cpu, ctx, started, cr3, tss, in_service>>

Init == /\ run_queues = [l \in Level |-> NULL]
        /\ next = [p \in Proc |-> NULL]
        /\ state = [p \in Proc |-> "DEAD"]
        /\ ticks_run = [p \in Proc |-> 0]
        /\ current_process = NULL /\ scheduler_active = FALSE
        /\ cpu = Kernel
        /\ ctx = [p \in Proc |-> p]
        /\ started = {}
        /\ cr3 = Kernel /\ tss = NULL
        /\ in_service = FALSE
        /\ queued = {}
        /\ panic = FALSE
-----------------------------------------------------------------------------
(* The lists *)

Closed(S) == \A q \in S : next[q] \in S \cup {NULL}

(* The processes a walk along `next` from the head of level l meets. *)
Chain(l) == {p \in Proc : run_queues[l] # NULL /\
               \A S \in SUBSET Proc : run_queues[l] \in S /\ Closed(S) => p \in S}

AddAtHead(p) ==             \* mutant: the tail is not found and relinked
  IF run_queues[prio(p)] = NULL
  THEN /\ run_queues' = [run_queues EXCEPT ![prio(p)] = p]
       /\ next' = [next EXCEPT ![p] = p]
  ELSE /\ next' = [next EXCEPT ![p] = run_queues[prio(p)]]
       /\ run_queues' = [run_queues EXCEPT ![prio(p)] = p]

(* scheduler_add's insertion: an empty list becomes a ring of one; else p  *)
(* goes between the tail, found by walking from the head, and the head.    *)
Add(p) ==
  LET head == run_queues[prio(p)]
  IN \/ /\ head = NULL
        /\ run_queues' = [run_queues EXCEPT ![prio(p)] = p]
        /\ next' = [next EXCEPT ![p] = p]
     \/ \E tail \in Chain(prio(p)) :
          /\ next[tail] = head
          /\ next' = [next EXCEPT ![tail] = p, ![p] = head]
          /\ UNCHANGED run_queues

(* scheduler_remove: p is unlinked from its predecessor on the walk, which *)
(* has none when it starts at p; a process that the walk does not meet     *)
(* stays as it is.                                                         *)
Remove(p) ==
  LET head == run_queues[prio(p)]
  IN \/ /\ p \notin Chain(prio(p))
        /\ UNCHANGED <<run_queues, next>>
     \/ /\ p \in Chain(prio(p)) /\ next[p] = p
        /\ run_queues' = [run_queues EXCEPT ![prio(p)] = NULL]
        /\ next' = [next EXCEPT ![p] = NULL]
     \/ /\ p = head /\ next[p] # p
        /\ run_queues' = [run_queues EXCEPT ![prio(p)] = next[p]]
        /\ next' = [next EXCEPT ![p] = NULL]
     \/ /\ p # head /\ next[p] # p
        /\ \E prev \in Chain(prio(p)) :
             /\ next[prev] = p
             /\ next' = [next EXCEPT ![prev] = next[p], ![p] = NULL]
        /\ UNCHANGED run_queues

(* pick_next goes down the levels to the first whose head is READY, and    *)
(* advances the head of every list it looks at.                            *)
ReadyAtAny(l) == run_queues[l] # NULL       \* mutant: the state is not looked at
ReadyAt(l) == run_queues[l] # NULL /\ state[run_queues[l]] = "READY"

LookedAt(l) == run_queues[l] # NULL /\ \A m \in Level : m > l => ~ReadyAt(m)

AdvanceNot == UNCHANGED run_queues          \* mutant: the head is not advanced
Advance == run_queues' = [l \in Level |-> IF LookedAt(l) THEN next[run_queues[l]]
                                          ELSE run_queues[l]]

Picks(p) == \E l \in Level : ReadyAt(l) /\ LookedAt(l) /\ run_queues[l] = p
PicksNone == \A l \in Level : ~ReadyAt(l)
-----------------------------------------------------------------------------
(* process_create, for Ring 0 tasks. *)
process_create(p) ==
  /\ ~panic
  /\ p \notin Ring3 /\ state[p] = "DEAD"
  /\ state' = [state EXCEPT ![p] = "READY"]
  /\ UNCHANGED <<run_queues, next, ticks_run, current_process, scheduler_active,
                 machine, queued, panic>>

(* The last statement tells the TSS about the new process's stack, whoever *)
(* has the processor.                                                      *)
process_spawn_ring3(p) ==
  /\ ~panic
  /\ p \in Ring3 /\ state[p] = "DEAD"
  /\ state' = [state EXCEPT ![p] = "READY"]
  /\ tss' = p
  /\ UNCHANGED <<run_queues, next, ticks_run, current_process, scheduler_active,
                 cpu, ctx, started, cr3, in_service, queued, panic>>

scheduler_add(p) ==
  /\ ~panic
  /\ Add(p)
  /\ state' = [state EXCEPT ![p] = "READY"]
  /\ queued' = queued \cup {p}
  /\ UNCHANGED <<ticks_run, current_process, scheduler_active, machine, panic>>

scheduler_start ==
  /\ ~panic
  /\ ~scheduler_active
  /\ scheduler_active' = TRUE
  /\ Advance
  /\ \/ \E p \in Proc : /\ Picks(p)
                        /\ current_process' = p
                        /\ state' = [state EXCEPT ![p] = "RUNNING"]
                        /\ UNCHANGED panic
     \/ /\ PicksNone
        /\ current_process' = NULL
        /\ panic' = TRUE
        /\ UNCHANGED state
  /\ UNCHANGED <<next, ticks_run, machine, queued>>

scheduler_block(p) ==
  /\ ~panic
  /\ state' = [state EXCEPT ![p] = "BLOCKED"]
  /\ Remove(p)
  /\ queued' = queued \ {p}
  /\ UNCHANGED <<ticks_run, current_process, scheduler_active, machine, panic>>

(* It sets the state that scheduler_add sets again. *)
scheduler_unblock(p) == scheduler_add(p)

process_kill(p) ==
  /\ ~panic
  /\ state[p] # "DEAD"
  /\ state' = [state EXCEPT ![p] = "ZOMBIE"]
  /\ UNCHANGED <<run_queues, next, ticks_run, current_process, scheduler_active,
                 machine, queued, panic>>
-----------------------------------------------------------------------------
(* scheduler_tick, called from irq_handler.  `run` is ticks_run when it is *)
(* entered.  When the handler returns, irq_handler sends the EOI; a flow   *)
(* that was saved here resumes here and sends it as well, but a flow that  *)
(* begins at its entry point does not.                                     *)

Ticked(run) == [run EXCEPT ![current_process] = (@ + 1) % TicksWrap]

Expired(run) == Ticked(run)[current_process] % ticks_alloc[current_process] = 0

EndOfInterrupt == in_service' = FALSE

Scheduling == scheduler_active /\ current_process # NULL

TickIdle(run) ==
  /\ ~Scheduling
  /\ ticks_run' = run
  /\ EndOfInterrupt
  /\ UNCHANGED <<run_queues, state, current_process, cpu, ctx, started, cr3, tss>>

TickInSlice(run) ==
  /\ Scheduling
  /\ ~Expired(run)
  /\ ticks_run' = Ticked(run)
  /\ EndOfInterrupt
  /\ UNCHANGED <<run_queues, state, current_process, cpu, ctx, started, cr3, tss>>

TickKeep(run) ==
  /\ Scheduling
  /\ Expired(run)
  /\ PicksNone \/ Picks(current_process)
  /\ ticks_run' = Ticked(run)
  /\ Advance
  /\ EndOfInterrupt
  /\ UNCHANGED <<state, current_process, cpu, ctx, started, cr3, tss>>

SwitchStatesKeep(p) ==      \* mutant: the old process is not put back
  state' = [state EXCEPT ![p] = "RUNNING"]

(* prev goes back to READY unless it was blocked, unblocked or killed      *)
(* while it had the processor.                                             *)
SwitchStates(p) ==
  state' = [state EXCEPT ![p] = "RUNNING",
                         ![current_process] = IF @ = "RUNNING" THEN "READY" ELSE @]

SwitchSpaceIfUser(p) ==     \* mutant: a kernel task keeps the old page directory
  /\ tss' = IF p \in Ring3 THEN p ELSE tss
  /\ cr3' = IF p \in Ring3 THEN page_dir(p) ELSE cr3

SwitchSpace(p) ==
  /\ tss' = IF p \in Ring3 THEN p ELSE tss
  /\ cr3' = IF page_dir(current_process) # page_dir(p) THEN page_dir(p) ELSE cr3

ContextSwitchSwapped(p) ==  \* mutant: from and to are exchanged
  /\ cpu' = ctx[current_process]
  /\ ctx' = [ctx EXCEPT ![p] = cpu]

(* context_switch(&prev->ctx, &next->ctx) *)
ContextSwitch(p) ==
  /\ cpu' = ctx[p]
  /\ ctx' = [ctx EXCEPT ![current_process] = cpu]

TickSwitch(run, unacknowledged) ==
  /\ Scheduling
  /\ Expired(run)
  /\ ticks_run' = Ticked(run)
  /\ Advance
  /\ \E p \in Proc \ {current_process} :
       /\ Picks(p)
       /\ current_process' = p
       /\ SwitchStates(p)
       /\ SwitchSpace(p)
       /\ ContextSwitch(p)
       /\ started' = started \cup ({ctx[p]} \cap Proc)
       /\ in_service' = (unacknowledged /\ ctx[p] \in Proc \ started)

scheduler_tick(run, unacknowledged) ==
  /\ ~panic
  /\ TickIdle(run) \/ TickInSlice(run) \/ TickKeep(run) \/ TickSwitch(run, unacknowledged)
  /\ UNCHANGED <<next, scheduler_active, queued, panic>>

(* The PIT's interrupt: taken once the last one has been acknowledged. *)
TimerIrq == ~in_service /\ scheduler_tick(ticks_run, TRUE)

(* int $0x20 runs the same handler and sends the same EOI, but the PIC has *)
(* raised nothing.                                                         *)
scheduler_yield ==
  scheduler_tick(IF current_process = NULL THEN ticks_run
                 ELSE [ticks_run EXCEPT ![current_process] = 0],
                 in_service)
-----------------------------------------------------------------------------
(* What callers do.  They pass processes that have been created, and add   *)
(* or unblock one that is in no list: the functions test neither.  They    *)
(* block, unblock and kill in any order, the dead included.  Blocking the  *)
(* head of a list that has other members breaks the list (AnyBlockSpec);   *)
(* here nobody does.                                                       *)
Created(p) == state[p] # "DEAD"
KeepsRing(p) == run_queues[prio(p)] # p \/ next[p] = p

Next == \/ TimerIrq
        \/ scheduler_yield
        \/ scheduler_start
        \/ \E p \in Proc : process_create(p)
        \/ \E p \in Proc : process_spawn_ring3(p)
        \/ \E p \in Proc : p \notin queued /\ state[p] = "READY" /\ scheduler_add(p)
        \/ \E p \in Proc : Created(p) /\ KeepsRing(p) /\ scheduler_block(p)
        \/ \E p \in Proc : Created(p) /\ p \notin queued /\ scheduler_unblock(p)
        \/ \E p \in Proc : process_kill(p)

Spec == Init /\ [][Next]_vars

(* The PIT keeps firing. *)
FairSpec == Spec /\ WF_vars(TimerIrq)

AnyBlockSpec == Init /\ [][Next \/ \E p \in Proc : Created(p) /\ scheduler_block(p)]_vars
-----------------------------------------------------------------------------
ProcOrNull == Proc \cup {NULL}
Flow == Proc \cup {Kernel}

TypeOK ==
  /\ run_queues \in [Level -> ProcOrNull]
  /\ next \in [Proc -> ProcOrNull]
  /\ state \in [Proc -> {"DEAD", "READY", "RUNNING", "BLOCKED", "ZOMBIE"}]
  /\ ticks_run \in [Proc -> 0 .. TicksWrap - 1]
  /\ current_process \in ProcOrNull
  /\ scheduler_active \in BOOLEAN
  /\ cpu \in Flow /\ ctx \in [Proc -> Flow] /\ started \subseteq Proc
  /\ cr3 \in Flow /\ tss \in ProcOrNull
  /\ in_service \in BOOLEAN
  /\ queued \subseteq Proc
  /\ panic \in BOOLEAN

Members(l) == {p \in queued : prio(p) = l}

(* "heads of circular lists": after any sequence of insertions, removals   *)
(* and rotations the list of each level is a ring through exactly the      *)
(* processes that were added at that level and not blocked since.          *)
RingsIntact ==
  \A l \in Level : /\ Chain(l) = Members(l)
                   /\ {next[p] : p \in Members(l)} = Members(l)
                   /\ \A p, q \in Members(l) : next[p] = next[q] => p = q

(* Only the process that scheduler_current returns is ever RUNNING,        *)
(* whatever is killed, blocked or unblocked while it has the processor.    *)
OneRunning == \A p \in Proc : state[p] = "RUNNING" => p = current_process

(* A killed process may finish the slice it is in, but no tick, yield or   *)
(* start switches to it or gives it another state, however long it stays   *)
(* in its ring.  Only the two calls that write a state without a test do:  *)
(* scheduler_block, which takes it out of its list, and scheduler_unblock  *)
(* (scheduler_add) of one that is in none, which revives it.               *)
DeadNotPicked ==
  [][\A p \in Proc : state[p] = "ZOMBIE" =>
       /\ current_process' = p => current_process = p
       /\ \/ state'[p] = "ZOMBIE"
          \/ state'[p] = "BLOCKED" /\ p \notin queued'
          \/ state'[p] = "READY" /\ p \in queued' \ queued]_vars

FlowOf(p) == IF p = current_process THEN cpu ELSE ctx[p]

(* No flow is resumed on behalf of two processes: what runs and what is    *)
(* saved in the contexts of the other processes are all different.         *)
FlowsDistinct == \A p, q \in Proc : p # q => FlowOf(p) # FlowOf(q)

(* From the first context switch on, the processor is in the address space *)
(* of the current process, although CR3 is only written when it "changes"; *)
(* and a Ring 3 process enters the kernel on its own kernel stack, or on   *)
(* that of a process spawned since which has not run: never on a stack     *)
(* that another process uses.                                              *)
SpaceFollows ==
  started # {} => /\ cr3 = page_dir(current_process)
                  /\ current_process \in Ring3 => tss = current_process \/ tss \notin started

(* p can run and nothing of a higher level can. *)
Contends(p) == /\ Scheduling
               /\ p \in queued /\ state[p] \in {"READY", "RUNNING"}
               /\ \A q \in queued : prio(q) > prio(p) => state[q] = "ZOMBIE"

Turns == \A p \in Proc : <>[]Contends(p) => []<>(current_process = p)

(* From some time on no yield sets a slice back. *)
SlicesRun == <>[][\A p \in Proc :
                    ticks_run'[p] \in {ticks_run[p], (ticks_run[p] + 1) % TicksWrap}]_vars

(* "Round-robin within priority levels": while interrupts are acknowledged *)
(* and slices are left to run out, every process that stays able to run at *)
(* the highest occupied level gets the processor again and again, although *)
(* others are killed, blocked, unblocked and added around it, and dead     *)
(* processes stay in the rings.                                            *)
RoundRobin == SlicesRun /\ []<>~in_service => Turns

(* "Context switch on every PIT tick": preemption goes on by itself, with  *)
(* no process yielding.                                                    *)
PreemptionLasts == SlicesRun => Turns
=============================================================================
