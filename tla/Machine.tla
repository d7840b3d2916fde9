------------------------------ MODULE Machine -------------------------------
(***************************************************************************)
(* The interrupt path: the two 8259 PICs (pic.c), the stubs that build a   *)
(* frame (interrupts.asm), dispatch and acknowledgement (idt.c), the       *)
(* timer, keyboard and mouse handlers, the system-call gate (syscall.c)    *)
(* and timer_sleep_ms.  What a tick starts behind the timer handler is in  *)
(* modules Scheduler and Ledger.                                           *)
(*                                                                         *)
(* `stack` is the stack of handlers under way, <<>> while a task runs.     *)
(* Each entry holds the words its stub pushed; the C code reads them as    *)
(* the fields of CPU_Regs (idt.h), the last instructions of the stub as    *)
(* registers.  The stubs push four segment registers that CPU_Regs has no  *)
(* fields for, so that the two readings are four words apart: regs->int_no *)
(* is the interrupted code's EBX, regs->cs its EAX and regs->eax the saved *)
(* stack pointer, which popa does not load.                                *)
(***************************************************************************)
EXTENDS Integers, Sequences, FiniteSets, SequencesExt

CONSTANTS EaxValues, EbxValues,     \* what tasks have in these registers
          StackPointer,     \* what pusha saves of ESP
          LOW,              \* values of the low word of system_ticks (2^32)
          Naps,             \* milliseconds asked of timer_sleep_ms
          MaxTicks          \* bound: the timer stops at about this many ticks

ASSUME NumberAssumption == /\ EaxValues \subseteq Nat /\ EbxValues \subseteq Nat
                           /\ StackPointer \in Nat /\ StackPointer >= 4096
                           /\ LOW \in Nat \ {0} /\ Naps \subseteq Nat

Line == {0, 1, 12}          \* timer, keyboard, mouse
SYSCALL_COUNT == 14

VARIABLES irr, mask,        \* requests latched and lines masked
          master, slave,    \* in-service bits; the slave is line 2 of the master
          iflag,            \* EFLAGS.IF
          eax, ebx,         \* the registers of the code that runs, as far as they matter
          ring,             \* and its privilege level
          stack,
          ticks,            \* system_ticks
          nap,              \* timer_sleep_ms: pc, target, lo; ghosts start, ms
          panic

pic == <<irr, mask, master, slave>>
code == <<eax, ebx, ring>>
vars == <<pic, iflag, code, stack, ticks, nap, panic>>

Awake == [pc |-> "no", target |-> 0, lo |-> 0, start |-> 0, ms |-> 0]

(* pic_remap writes back the masks it found, that of the cascade (line 2)  *)
(* included; timer_init opens line 0, and nothing opens another.           *)
Init == /\ mask \in SUBSET {1, 2, 12}
        /\ irr = {} /\ master = {} /\ slave = {}
        /\ iflag = TRUE
        /\ eax \in EaxValues /\ ebx \in EbxValues /\ ring \in {0, 3}
        /\ stack = <<>> /\ ticks = 0 /\ nap = Awake /\ panic = FALSE
-----------------------------------------------------------------------------
(* The 8259 in fully nested mode: a request waits for every line of the    *)
(* same or a higher priority that is in service.  A slave's line passes    *)
(* through the master's line 2.                                            *)

OnMaster(l) == IF l < 8 THEN l ELSE 2

Deliverable(l) == /\ l \in irr \ mask
                  /\ OnMaster(l) \notin mask
                  /\ \A m \in master : m > OnMaster(l)
                  /\ l >= 8 => \A s \in slave : s > l

Highest(bits) == {b \in bits : \A c \in bits : b <= c}

EndOfOne(n) == IF n >= 8    \* mutant: one EOI, to the PIC of the line
               THEN slave' = slave \ Highest(slave) /\ master' = master
               ELSE master' = master \ Highest(master) /\ slave' = slave

(* pic_send_eoi, and the end of irq_handler: a non-specific EOI clears the *)
(* in-service bit of the highest priority, whichever that is.              *)
EndOfInterrupt(n) == /\ slave' = IF n >= 8 THEN slave \ Highest(slave) ELSE slave
                     /\ master' = master \ Highest(master)

Raise(l) ==
  /\ l \notin irr
  /\ ticks < MaxTicks
  /\ irr' = irr \cup {l}
  /\ UNCHANGED <<mask, master, slave, iflag, code, stack, ticks, nap, panic>>
-----------------------------------------------------------------------------
(* Frames.  From the lowest address: the segment registers, pusha, the two *)
(* words of the stub, what the processor pushed.                           *)
CPU_Regs == <<"edi", "esi", "ebp", "esp", "ebx", "edx", "ecx", "eax", "int_no", "err_code", "eip", "cs">>
FieldAt(name) == CHOOSE i \in DOMAIN CPU_Regs : CPU_Regs[i] = name

SegmentWords == 4           \* ds, es, fs, gs

Pushed(int_no) ==
  [i \in 1 .. SegmentWords |-> 16] \o
  [i \in DOMAIN CPU_Regs |->
     CASE CPU_Regs[i] = "eax" -> eax
       [] CPU_Regs[i] = "ebx" -> ebx
       [] CPU_Regs[i] = "int_no" -> int_no
       [] CPU_Regs[i] = "esp" -> StackPointer
       [] CPU_Regs[i] = "cs" -> IF ring = 3 THEN 27 ELSE 8
       [] OTHER -> 4096]

Top == stack[1]
Field(name) == Top.words[FieldAt(name)]             \* regs->name
Restored(name) == Top.words[SegmentWords + FieldAt(name)]

IfAfterTrap(l) == iflag     \* mutant: trap gates, and no cli in the stubs

(* idt_install: every gate but the breakpoint's is an interrupt gate, and  *)
(* the first instruction of every stub is cli.                             *)
IfAfterGate(l) == FALSE

(* The processor enters a gate: line -1 for exceptions and int. *)
Frame(kind, int_no, l) ==
  [kind |-> kind, words |-> Pushed(int_no), pc |-> "call", line |-> l, iflag |-> iflag,
   num |-> int_no, called |-> -1]

Enter(kind, int_no, l) == stack' = <<Frame(kind, int_no, l)>> \o stack /\ iflag' = IfAfterGate(l)

Step(pc) == stack' = [stack EXCEPT ![1].pc = pc]

Accept(l) ==
  /\ ~panic /\ iflag
  /\ Deliverable(l)
  /\ \A k \in Line : Deliverable(k) => l <= k
  /\ irr' = irr \ {l}
  /\ master' = master \cup {OnMaster(l)}
  /\ slave' = IF l >= 8 THEN slave \cup {l} ELSE slave
  /\ Enter("irq", 32 + l, l)
  /\ UNCHANGED <<mask, code, ticks, nap, panic>>

(* iret: the registers come back from the frame. *)
Iret ==
  /\ stack # <<>> /\ Top.pc = "iret"
  /\ stack' = Tail(stack)
  /\ iflag' = Top.iflag
  /\ eax' = Restored("eax")
  /\ nap' = IF nap.pc = "halt" /\ Len(stack) = 1 THEN [nap EXCEPT !.pc = "lo"] ELSE nap
  /\ UNCHANGED <<pic, ebx, ring, ticks, panic>>

CallHandler ==
  /\ stack # <<>> /\ Top.kind = "irq" /\ Top.pc = "call"
  /\ LET irq == (Field("int_no") - 32) % 256
     IN /\ stack' = [stack EXCEPT ![1].pc = "eoi", ![1].called = irq]
        /\ ticks' = IF irq = 0 THEN ticks + 1 ELSE ticks
        /\ IF irq \in {1, 12} THEN EndOfInterrupt(irq) ELSE UNCHANGED <<master, slave>>
  /\ UNCHANGED <<irr, mask, iflag, code, nap, panic>>

IrqEnd ==
  /\ stack # <<>> /\ Top.kind = "irq" /\ Top.pc = "eoi"
  /\ EndOfInterrupt((Field("int_no") - 32) % 256)
  /\ Step("iret")
  /\ UNCHANGED <<irr, mask, iflag, code, ticks, nap, panic>>

(* isr_handler: Ring 3 page faults and the reserved exceptions return, to  *)
(* the faulting instruction; everything else stops the machine.            *)
IsrHandler ==
  /\ stack # <<>> /\ Top.kind = "fault" /\ Top.pc = "call"
  /\ IF (Field("int_no") = 14 /\ Field("cs") = 27) \/ Field("int_no") >= 21
     THEN Step("iret") /\ UNCHANGED panic
     ELSE panic' = TRUE /\ UNCHANGED stack
  /\ UNCHANGED <<pic, iflag, code, ticks, nap>>
-----------------------------------------------------------------------------
(* syscall_dispatch.  The number it reads is the saved stack pointer, so   *)
(* that no handler of the table is ever called; they are given by what     *)
(* they would return.                                                      *)

Results(num) ==
  CASE num >= SYSCALL_COUNT -> {-1}         \* sys_undefined
    [] num = 0 -> {Field("ebx")}            \* exit: its argument
    [] num \in {1, 4, 5, 8, 9, 10, 11} -> {0}      \* stubs, getpid, sleep
    [] num = 2 -> {Field("edx")}            \* write: its length argument
    [] num = 3 -> {0, -1}                   \* open: found or not
    [] num = 6 -> {-1}                      \* fork
    [] num = 7 -> {4096, -1}                \* map_surface: a pointer
    [] OTHER -> {0, 64}                     \* ai_query, ledger_read: what was copied

(* regs->eax is written for a call of the table; the value returned in EAX *)
(* is lost to the popa of the stub.                                        *)
Dispatch ==
  /\ stack # <<>> /\ Top.kind = "gate" /\ Top.pc = "call"
  /\ LET num == Field("eax")
     IN \E value \in Results(num) :
          stack' = [stack EXCEPT ![1].pc = "iret",
                      ![1].words[FieldAt("eax")] = IF num < SYSCALL_COUNT THEN value ELSE @]
  /\ UNCHANGED <<pic, iflag, code, ticks, nap, panic>>
-----------------------------------------------------------------------------
(* timer_sleep_ms.  system_ticks has 64 bits and is read low word first;   *)
(* where interrupts are on, a tick may come between the words.             *)

Sleeper == nap.pc # "no" /\ stack = <<>> /\ ~panic

Read64 == (ticks \div LOW) * LOW + nap.lo

NapTarget == /\ Sleeper /\ nap.pc = "target"
             /\ nap' = [nap EXCEPT !.pc = "lo", !.target = Read64 + nap.ms]
             /\ UNCHANGED <<pic, iflag, code, stack, ticks, panic>>

NapLo == /\ Sleeper /\ nap.pc = "lo"
         /\ nap' = [nap EXCEPT !.pc = "hi", !.lo = ticks % LOW]
         /\ UNCHANGED <<pic, iflag, code, stack, ticks, panic>>

NapHiOnce == /\ Sleeper /\ nap.pc = "hi"    \* mutant: any interrupt ends the sleep
             /\ nap' = IF Read64 < nap.target /\ ticks = nap.start THEN [nap EXCEPT !.pc = "halt"] ELSE Awake
             /\ UNCHANGED <<pic, iflag, code, stack, ticks, panic>>

NapHi == /\ Sleeper /\ nap.pc = "hi"
         /\ nap' = IF Read64 < nap.target THEN [nap EXCEPT !.pc = "halt"] ELSE Awake
         /\ UNCHANGED <<pic, iflag, code, stack, ticks, panic>>

Sleeping == NapTarget \/ NapLo \/ NapHi
-----------------------------------------------------------------------------
(* What the running task does. *)

TaskRuns == stack = <<>> /\ nap.pc = "no" /\ ~panic

Sleep == /\ TaskRuns /\ ring = 0
         /\ \E ms \in Naps : nap' = [Awake EXCEPT !.pc = "target", !.start = ticks, !.ms = ms, !.lo = ticks % LOW]
         /\ UNCHANGED <<pic, iflag, code, stack, ticks, panic>>

Compute == /\ TaskRuns
           /\ eax' \in EaxValues /\ ebx' \in EbxValues
           /\ UNCHANGED <<pic, iflag, ring, stack, ticks, nap, panic>>

SystemCall == /\ TaskRuns
              /\ Enter("gate", 128, -1)
              /\ UNCHANGED <<pic, code, ticks, nap, panic>>

Fault == /\ TaskRuns
         /\ \E n \in {13, 14, 21} : Enter("fault", n, -1)
         /\ UNCHANGED <<pic, code, ticks, nap, panic>>

(* int $0x20 of scheduler_yield: IRQ0's gate without a request. *)
Yield == /\ TaskRuns /\ ring = 0 /\ ticks < MaxTicks
         /\ Enter("irq", 32, -1)
         /\ UNCHANGED <<pic, code, ticks, nap, panic>>

Handler == CallHandler \/ IrqEnd \/ IsrHandler \/ Dispatch \/ Iret
Task == Sleep \/ Compute \/ SystemCall \/ Fault \/ Yield

Next == \/ \E l \in Line : Raise(l) \/ Accept(l)
        \/ Handler
        \/ Sleeping
        \/ Task

(* The processor takes a pending interrupt at an instruction boundary with *)
(* IF set, whatever the code does in between.                              *)
Fairness == /\ WF_vars(Handler) /\ WF_vars(Sleeping)
            /\ \A l \in Line : SF_vars(Accept(l))

Spec == Init /\ [][Next]_vars /\ Fairness
-----------------------------------------------------------------------------
(* A handler is called only for its own line: irq_handlers[n] runs while   *)
(* line n is being serviced (or for scheduler_yield's int $0x20).          *)
DispatchMatches ==
  \A i \in DOMAIN stack : stack[i].called # -1 => stack[i].called = stack[i].num - 32

(* An interrupt is acknowledged once or twice, by the keyboard or mouse    *)
(* handler and by irq_handler, for a line number that is whatever EBX      *)
(* held.  No EOI ever acknowledges another line of the master: an          *)
(* in-service bit is cleared only while its own line is being serviced.    *)
AckOwn == [][\A b \in master \ master' : b = OnMaster(Top.line)]_vars

(* timer_sleep_ms does not return before its ticks have passed, unless the *)
(* last of its reads was torn: its low word is older than a wrap that its  *)
(* high word has seen.                                                     *)
SleepHonest ==
  [][nap.pc = "hi" /\ nap'.pc = "no" =>
       ticks >= nap.start + nap.ms \/ nap.lo > ticks % LOW]_vars

(* A request of a line of the master that is not masked is taken by the    *)
(* processor, if the lines of higher priority fall silent, unless the      *)
(* machine has panicked: whichever handler EBX selects, no in-service bit  *)
(* of the master is left behind.                                           *)
IrqServed ==
  \A l \in {k \in Line : k < 8} :
    <>[](\A k \in irr : k >= l) => (l \in irr \ mask ~> l \notin irr \/ panic)
=============================================================================
