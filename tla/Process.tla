------------------------------ MODULE Process -------------------------------
(***************************************************************************)
(* kernel/process.c: the process table and the memory a process is given.  *)
(* What the scheduler does with a descriptor is in module Scheduler.       *)
(*                                                                         *)
(* process_init clears the table, and 0 is PROC_READY, so every slot is    *)
(* taken by a "process" 0; alloc_slot looks for PROC_DEAD, which nothing   *)
(* in the repository writes.  Reap stands for the missing code that would  *)
(* (process_kill: "TODO: free page dir, stacks"); until it has run,        *)
(* creating a process panics, as it does in the code.                      *)
(***************************************************************************)
EXTENDS Vmm

CONSTANTS MAX_PROCESSES,
          KSTACK,           \* frames of a kernel stack (4)
          USTACK            \* frames of a user stack (PROCESS_STACK_SIZE / 4096)

ASSUME StackAssumption == /\ MAX_PROCESSES \in Nat /\ KSTACK \in Nat /\ USTACK \in Nat
                          /\ USTACK < KERNEL_PDE * ENTRIES

VARIABLES process_table,    \* granted: ghost, the frames of the surfaces mapped for a process
          pid_counter

Slot == 0 .. MAX_PROCESSES - 1

(* luna_memset(p, 0): state 0 is PROC_READY. *)
Cleared == [pid |-> 0, state |-> "READY", ring |-> 0, page_dir |-> -1, kstack |-> {}, ustack |-> {}, granted |-> {}]

ProcessInit == process_table = [s \in Slot |-> Cleared] /\ pid_counter = 1

Dead == {s \in Slot : process_table[s].state = "DEAD"}

(* process_get_by_pid: the first slot that is not DEAD and has the pid. *)
ByPid(pid) == {s \in Slot : process_table[s].state # "DEAD" /\ process_table[s].pid = pid}

StackPage(i) == KERNEL_PDE * ENTRIES - 1 - USTACK + i       \* below 0xBFFFF000

Run(m, n) == Min(Runs(m, n)) .. Min(Runs(m, n)) + n - 1

(* The memories process_create and process_spawn_ring3 go through. *)
TaskMem == TakeRun(mem, KSTACK)
SpawnPd == vmm_create_user_pd(mem)
SpawnKstack == TakeRun(SpawnPd, KSTACK)
SpawnUstack == TakeRun(SpawnKstack, USTACK)
SpawnMapped == MapUser(SpawnUstack, NextFit(mem), StackPage(0), Min(Runs(SpawnKstack, USTACK)), USTACK)
SpawnMem ==
  IF SpawnPd.panic # "no" THEN SpawnPd
  ELSE IF SpawnKstack.panic # "no" THEN SpawnKstack
  ELSE IF SpawnUstack.panic # "no" THEN SpawnUstack
  ELSE IF SpawnMapped.panic # "no" THEN SpawnMapped
  ELSE Reaching(SpawnMapped, Max(Run(SpawnPd, KSTACK)), SpawnMapped)     \* the iret frame

Create(m, descriptor) ==
  IF Dead = {} THEN /\ mem' = Panicked(mem, "process table full")
                    /\ UNCHANGED <<process_table, pid_counter>>
  ELSE IF m.panic # "no" THEN /\ mem' = Panicked(mem, m.panic)
                              /\ UNCHANGED <<process_table, pid_counter>>
  ELSE /\ mem' = m
       /\ process_table' = [process_table EXCEPT ![Min(Dead)] = descriptor]
       /\ pid_counter' = pid_counter + 1

process_create ==
  /\ Create(TaskMem, [pid |-> pid_counter, state |-> "READY", ring |-> 0, page_dir |-> kernel_pd,
                      kstack |-> Run(mem, KSTACK), ustack |-> {}, granted |-> {}])

process_spawn_ring3 ==
  /\ Create(SpawnMem, [pid |-> pid_counter, state |-> "READY", ring |-> 3, page_dir |-> NextFit(mem),
                       kstack |-> Run(SpawnPd, KSTACK), ustack |-> Run(SpawnKstack, USTACK),
                       granted |-> {}])

process_kill(pid) ==
  /\ ByPid(pid) # {}
  /\ process_table' = [process_table EXCEPT ![Min(ByPid(pid))].state = "ZOMBIE"]
  /\ UNCHANGED <<mem, pid_counter>>

(* Not in the repository: the slots of zombies are made available. *)
Reap ==
  /\ \E s \in Slot : process_table[s].state = "ZOMBIE"
  /\ process_table' = [s \in Slot |->
       IF process_table[s].state = "ZOMBIE" THEN [process_table[s] EXCEPT !.state = "DEAD"] ELSE process_table[s]]
  /\ UNCHANGED <<mem, pid_counter>>

(* A caller takes a page out of a process's address space. *)
Unmap(s) ==
  /\ process_table[s].ring = 3 /\ process_table[s].state # "DEAD"
  /\ \E i \in 0 .. USTACK - 1 : mem' = vmm_unmap_page(mem, process_table[s].page_dir, StackPage(i))
  /\ UNCHANGED <<process_table, pid_counter>>

ProcessTypeOK ==
  /\ process_table \in [Slot -> [pid : Nat, state : {"READY", "ZOMBIE", "DEAD"}, ring : {0, 3},
                                 page_dir : -1 .. FRAMES - 1, kstack : SUBSET Frame, ustack : SUBSET Frame,
                                 granted : SUBSET Frame]]
  /\ pid_counter \in Nat
=============================================================================
