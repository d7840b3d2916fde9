--------------------------- MODULE MachineProofs ----------------------------
(***************************************************************************)
(* timer_sleep_ms keeps its word for every width of the counter's low word *)
(* and every nap, but for a torn last read; and interrupts do not nest, so *)
(* that no EOI reaches another line of the master, whatever EBX held and   *)
(* whichever handlers it selected.                                         *)
(***************************************************************************)
EXTENDS Machine, TLAPS

-----------------------------------------------------------------------------
(* The sleep.  The target is the start plus the delay or, when the low     *)
(* word wrapped between the two reads of the call, later.                  *)

Nap == [pc : {"no", "target", "lo", "hi", "halt"}, target : Int, lo : Nat, start : Nat, ms : Nat]

NapInv ==
  /\ ticks \in Nat
  /\ nap \in Nap
  /\ nap.start <= ticks
  /\ nap.pc = "target" => nap.lo = nap.start % LOW
  /\ nap.pc \in {"lo", "hi", "halt"} => nap.target >= nap.start + nap.ms

LEMMA DivMod ==
  ASSUME NEW t \in Nat
  PROVE  /\ t \div LOW \in Nat /\ t % LOW \in 0 .. LOW - 1 /\ t = LOW * (t \div LOW) + (t % LOW)
BY NumberAssumption

(* The high word never goes back. *)
LEMMA HighWord ==
  ASSUME NEW t \in Nat, NEW s \in Nat, s <= t
  PROVE  s <= (t \div LOW) * LOW + (s % LOW)
<1> DEFINE a == s \div LOW  b == t \div LOW  x == s % LOW  y == t % LOW
<1>1. /\ a \in Nat /\ x \in 0 .. LOW - 1 /\ s = LOW * a + x
      /\ b \in Nat /\ y \in 0 .. LOW - 1 /\ t = LOW * b + y
  BY DivMod
<1>2. LOW \in Nat \ {0}
  BY NumberAssumption
<1> HIDE DEF a, b, x, y
<1>3. ~(b < a)
  <2>1. SUFFICES ASSUME b + 1 <= a PROVE FALSE
    BY <1>1
  <2>2. LOW * (b + 1) <= LOW * a
    BY <1>1, <1>2, <2>1
  <2>3. LOW * (b + 1) = LOW * b + LOW
    BY <1>1, <1>2
  <2>4. QED
    BY <1>1, <1>2, <2>2, <2>3
<1>4. LOW * a <= LOW * b
  BY <1>1, <1>2, <1>3
<1>5. b * LOW = LOW * b
  BY <1>1, <1>2
<1>6. s <= b * LOW + x
  BY <1>1, <1>2, <1>4, <1>5
<1>7. QED
  BY <1>6 DEF b, x

(* A step of the sleeper, or of the counter, keeps NapInv. *)
LEMMA StepNap == NapInv /\ [Next]_vars => NapInv'
<1> SUFFICES ASSUME NapInv, [Next]_vars PROVE NapInv'
  OBVIOUS
<1>1. /\ ticks \in Nat /\ nap \in Nap /\ nap.start <= ticks
      /\ LOW \in Nat \ {0} /\ Naps \subseteq Nat
  BY NumberAssumption DEF NapInv
<1>2. ASSUME UNCHANGED <<nap, ticks>> PROVE NapInv'
  BY <1>2 DEF NapInv
<1>3. CASE CallHandler
  <2>1. UNCHANGED nap /\ (ticks' = ticks + 1 \/ ticks' = ticks)
    BY <1>3 DEF CallHandler
  <2>2. ticks' \in Nat /\ nap'.start <= ticks'
    BY <1>1, <2>1 DEF Nap
  <2>3. QED
    BY <2>1, <2>2 DEF NapInv
<1>4. CASE NapTarget
  <2>1. nap.pc = "target" /\ nap' = [nap EXCEPT !.pc = "lo", !.target = Read64 + nap.ms] /\ ticks' = ticks
    BY <1>4 DEF NapTarget
  <2>2. /\ nap.lo = nap.start % LOW /\ nap.start \in Nat /\ nap.ms \in Nat /\ nap.lo \in Nat
        /\ ticks \div LOW \in Nat
    BY <1>1, <2>1, DivMod DEF NapInv, Nap
  <2>3. Read64 \in Int /\ nap.start <= Read64
    BY <1>1, <2>2, HighWord DEF Read64
  <2> DEFINE v == Read64 + nap.ms
  <2>4. v \in Int /\ v >= nap.start + nap.ms
    BY <2>2, <2>3
  <2> HIDE DEF v
  <2>5. nap' = [nap EXCEPT !.pc = "lo", !.target = v]
    BY <2>1 DEF v
  <2>6. nap' \in Nap /\ nap'.start = nap.start /\ nap'.ms = nap.ms /\ nap'.pc = "lo" /\ nap'.target = v
    BY <1>1, <2>4, <2>5 DEF Nap
  <2>7. QED
    BY <1>1, <2>1, <2>4, <2>6 DEF NapInv
<1>5. CASE NapLo
  <2>1. nap.pc = "lo" /\ nap' = [nap EXCEPT !.pc = "hi", !.lo = ticks % LOW] /\ ticks' = ticks
    BY <1>5 DEF NapLo
  <2>2. ticks % LOW \in Nat
    BY <1>1, DivMod
  <2>3. /\ nap' \in Nap /\ nap'.start = nap.start /\ nap'.ms = nap.ms /\ nap'.target = nap.target
        /\ nap'.pc = "hi" /\ nap'.lo = ticks % LOW
    BY <1>1, <2>1, <2>2 DEF Nap
  <2>4. QED
    BY <1>1, <2>1, <2>2, <2>3 DEF NapInv
<1>6. Awake \in Nap
  BY DEF Awake, Nap
<1>7. CASE NapHi
  <2>1. nap.pc = "hi" /\ ticks' = ticks /\ (nap' = [nap EXCEPT !.pc = "halt"] \/ nap' = Awake)
    BY <1>7 DEF NapHi
  <2>2. CASE nap' = [nap EXCEPT !.pc = "halt"]
    <3>1. /\ nap' \in Nap /\ nap'.start = nap.start /\ nap'.ms = nap.ms /\ nap'.target = nap.target
          /\ nap'.pc = "halt"
      BY <1>1, <2>2 DEF Nap
    <3>2. QED
      BY <1>1, <2>1, <3>1 DEF NapInv
  <2>3. CASE nap' = Awake
    BY <1>1, <1>6, <2>1, <2>3 DEF NapInv, Awake
  <2>4. QED
    BY <2>1, <2>2, <2>3
<1>8. CASE Sleep
  <2>1. PICK ms \in Naps :
          nap' = [Awake EXCEPT !.pc = "target", !.start = ticks, !.ms = ms, !.lo = ticks % LOW]
    BY <1>8 DEF Sleep
  <2>2. ticks % LOW \in Nat /\ ms \in Nat /\ ticks' = ticks
    BY <1>1, <1>8, DivMod DEF Sleep
  <2>3. nap' \in Nap /\ nap'.pc = "target" /\ nap'.start = ticks /\ nap'.lo = ticks % LOW
    <3>1. nap' = [pc |-> "target", target |-> 0, lo |-> ticks % LOW, start |-> ticks, ms |-> ms]
      BY <2>1 DEF Awake
    <3>2. QED
      BY <1>1, <2>2, <3>1 DEF Nap
  <2>4. QED
    BY <1>1, <2>2, <2>3 DEF NapInv
<1>9. CASE Iret
  <2>1. ticks' = ticks /\ (UNCHANGED nap \/ (nap.pc = "halt" /\ nap' = [nap EXCEPT !.pc = "lo"]))
    BY <1>9 DEF Iret
  <2>2. CASE nap.pc = "halt" /\ nap' = [nap EXCEPT !.pc = "lo"]
    <3>1. /\ nap' \in Nap /\ nap'.start = nap.start /\ nap'.ms = nap.ms /\ nap'.target = nap.target
          /\ nap'.pc = "lo"
      BY <1>1, <2>2 DEF Nap
    <3>2. QED
      BY <1>1, <2>1, <2>2, <3>1 DEF NapInv
  <2>3. QED
    BY <1>2, <2>1, <2>2
<1>10. CASE \/ \E l \in Line : Raise(l) \/ Accept(l)
            \/ IrqEnd \/ IsrHandler \/ Dispatch \/ Compute \/ SystemCall \/ Fault \/ Yield \/ UNCHANGED vars
  <2>1. UNCHANGED <<nap, ticks>>
    BY <1>10 DEF Raise, Accept, IrqEnd, IsrHandler, Dispatch, Compute, SystemCall, Fault, Yield, vars
  <2>2. QED
    BY <1>2, <2>1
<1>11. QED
  BY <1>3, <1>4, <1>5, <1>7, <1>8, <1>9, <1>10 DEF Next, Handler, Sleeping, Task

LEMMA InitNap == Init => NapInv
BY DEF Init, NapInv, Awake, Nap

LEMMA NapEnds ==
  ASSUME NapInv, [Next]_vars, nap.pc = "hi", nap'.pc = "no"
  PROVE  ticks >= nap.start + nap.ms \/ nap.lo > ticks % LOW
<1>1. ticks \in Nat /\ nap \in Nap /\ LOW \in Nat \ {0}
  BY NumberAssumption DEF NapInv
<1>2. ~(Read64 < nap.target)
  <2>1. nap' # nap
    OBVIOUS
  <2>2. CASE NapHi
    <3>1. ~(nap' = [nap EXCEPT !.pc = "halt"])
      BY <1>1 DEF Nap
    <3>2. QED
      BY <2>2, <3>1 DEF NapHi
  <2>3. CASE Sleep
    <3>1. PICK ms \in Naps : nap' = [Awake EXCEPT !.pc = "target", !.start = ticks, !.ms = ms, !.lo = ticks % LOW]
      BY <2>3 DEF Sleep
    <3>2. nap'.pc = "target"
      BY <3>1 DEF Awake
    <3>3. QED
      BY <3>2
  <2>4. QED
    BY <2>1, <2>2, <2>3
       DEF Next, Handler, Sleeping, Task, Raise, Accept, CallHandler, IrqEnd, IsrHandler, Dispatch, Iret,
           NapTarget, NapLo, Compute, SystemCall, Fault, Yield, vars
<1>3. SUFFICES ASSUME ~(nap.lo > ticks % LOW) PROVE ticks >= nap.start + nap.ms
  OBVIOUS
<1>4. nap.target >= nap.start + nap.ms /\ nap.target \in Int /\ nap.lo \in Nat /\ nap.start + nap.ms \in Nat
  BY <1>1 DEF NapInv, Nap
<1>5. ticks = LOW * (ticks \div LOW) + (ticks % LOW) /\ ticks \div LOW \in Nat /\ ticks % LOW \in Nat
  BY <1>1, DivMod
<1> DEFINE q == ticks \div LOW  r == ticks % LOW
<1>6. Read64 = LOW * q + nap.lo
  BY <1>1, <1>4, <1>5 DEF Read64
<1> HIDE DEF q, r
<1>7. nap.lo <= r /\ q \in Nat /\ r \in Nat /\ ticks = LOW * q + r
  BY <1>3, <1>4, <1>5 DEF q, r
<1>8. Read64 <= ticks /\ Read64 \in Int
  BY <1>1, <1>4, <1>6, <1>7
<1>9. QED
  BY <1>1, <1>2, <1>4, <1>8

(* timer_sleep_ms does not return early, unless the read it ends on was    *)
(* torn, whatever interrupts come between its reads.                       *)
THEOREM MachineSleepHonest == Spec => SleepHonest
<1>1. NapInv /\ [Next]_vars =>
        [nap.pc = "hi" /\ nap'.pc = "no" =>
           ticks >= nap.start + nap.ms \/ nap.lo > ticks % LOW]_vars
  BY NapEnds
<1>2. QED
  BY <1>1, InitNap, StepNap, PTL DEF Spec, SleepHonest

-----------------------------------------------------------------------------
(* With interrupts off in every handler there is at most one under way,    *)
(* and the only bit of the master that may be in service is its line's:    *)
(* none is once irq_handler has sent its EOI.                              *)

Shaped(f) == {"kind", "pc", "line"} \subseteq DOMAIN f

Serving(f) == /\ Shaped(f)
              /\ f.kind \in {"irq", "fault", "gate"}
              /\ f.line \in Line \cup {-1}
              /\ master \subseteq {OnMaster(f.line)}
              /\ f.line = -1 \/ f.pc = "iret" => master = {}
              /\ f.line # -1 => f.kind = "irq"

StackInv == \/ stack = <<>> /\ master = {}
            \/ stack = <<stack[1]>> /\ ~iflag /\ Serving(stack[1])

LEMMA NotEmpty == ASSUME NEW f PROVE <<f>> # <<>>
OBVIOUS

LEMMA TopServing ==
  ASSUME StackInv, stack # <<>>
  PROVE  stack = <<Top>> /\ ~iflag /\ Serving(Top)
BY DEF StackInv, Top

(* A gate entered while no handler is under way. *)
LEMMA EnterStack ==
  ASSUME stack = <<>>, NEW kind \in {"irq", "fault", "gate"}, NEW n, NEW l \in Line \cup {-1},
         Enter(kind, n, l), master' \subseteq {OnMaster(l)}, l = -1 => master' = {},
         l # -1 => kind = "irq"
  PROVE  StackInv'
<1> DEFINE f == Frame(kind, n, l)
<1>1. Shaped(f) /\ f.kind = kind /\ f.line = l /\ f.pc = "call"
  BY DEF Shaped, Frame
<1>2. stack' = <<f>> \o stack /\ iflag' = FALSE
  BY DEF Enter, IfAfterGate
<1> HIDE DEF f
<1>3. stack' = <<f>>
  <2>1. <<f>> \o <<>> = <<f>>
    OBVIOUS
  <2>2. QED
    BY <1>2, <2>1
<1>4. stack'[1] = f
  BY <1>3
<1>5. QED
  BY <1>1, <1>2, <1>3, <1>4 DEF StackInv, Serving

(* The handler under way goes on. *)
LEMMA GoesOn ==
  ASSUME StackInv, stack # <<>>, UNCHANGED iflag,
         NEW h, stack' = [stack EXCEPT ![1] = h],
         Shaped(h), h.kind = Top.kind, h.line = Top.line,
         master' \subseteq master, h.pc = "iret" => master' = {}
  PROVE  StackInv'
<1>1. stack = <<Top>> /\ ~iflag /\ Serving(Top)
  BY TopServing
<1> DEFINE t == Top
<1>2. stack = <<t>>
  BY <1>1
<1> HIDE DEF t
<1>3. stack' = <<h>>
  <2>1. [<<t>> EXCEPT ![1] = h] = <<h>>
    OBVIOUS
  <2>2. QED
    BY <1>2, <2>1
<1>4. stack'[1] = h
  BY <1>3
<1>5. QED
  BY <1>1, <1>3, <1>4 DEF StackInv, Serving

LEMMA Lines ==
  /\ \A l \in Line \cup {-1} : OnMaster(l) \in Int
  /\ Line = {0, 1, 12}
BY DEF Line, OnMaster

(* An EOI on a master with one line in service. *)
LEMMA OneEoi ==
  ASSUME NEW l \in Line \cup {-1}, master \subseteq {OnMaster(l)}, NEW n, EndOfInterrupt(n)
  PROVE  master' = {}
BY Lines DEF EndOfInterrupt, Highest

LEMMA CallHandlerStack ==
  ASSUME StackInv, CallHandler
  PROVE  StackInv'
<1> DEFINE f == Top
           irq == (Field("int_no") - 32) % 256
           h == [f EXCEPT !.pc = "eoi", !.called = irq]
<1>1. /\ stack # <<>> /\ UNCHANGED iflag
      /\ stack' = [stack EXCEPT ![1].pc = "eoi", ![1].called = irq]
      /\ EndOfInterrupt(irq) \/ UNCHANGED master
  BY DEF CallHandler
<1>2. stack = <<f>> /\ Serving(f)
  BY <1>1, TopServing
<1>3. stack' = [stack EXCEPT ![1] = h]
  BY <1>1, <1>2 DEF Top
<1>4. master' \subseteq master
  BY <1>1 DEF EndOfInterrupt
<1> HIDE DEF irq
<1>5. Shaped(h) /\ h.kind = f.kind /\ h.line = f.line /\ h.pc = "eoi"
  <2>1. Shaped(f)
    BY <1>2 DEF Serving
  <2> HIDE DEF f
  <2>2. QED
    BY <2>1 DEF Shaped
<1> HIDE DEF h
<1>6. QED
  BY <1>1, <1>3, <1>4, <1>5, GoesOn

(* A handler that is done, with nothing in service. *)
LEMMA DoneStack ==
  ASSUME StackInv, stack # <<>>, UNCHANGED iflag, Step("iret"), master' = {}
  PROVE  StackInv'
<1> DEFINE f == Top
           h == [f EXCEPT !.pc = "iret"]
<1>1. stack = <<f>> /\ Serving(f)
  BY TopServing
<1>2. stack' = [stack EXCEPT ![1] = h]
  BY <1>1 DEF Top, Step
<1>3. Shaped(h) /\ h.kind = f.kind /\ h.line = f.line
  <2>1. Shaped(f)
    BY <1>1 DEF Serving
  <2> HIDE DEF f
  <2>2. QED
    BY <2>1 DEF Shaped
<1> HIDE DEF h
<1>4. QED
  BY <1>2, <1>3, GoesOn

LEMMA IrqEndStack ==
  ASSUME StackInv, IrqEnd
  PROVE  StackInv'
<1>1. /\ stack # <<>> /\ Step("iret") /\ UNCHANGED iflag
      /\ EndOfInterrupt((Field("int_no") - 32) % 256)
  BY DEF IrqEnd
<1>2. Top.line \in Line \cup {-1} /\ master \subseteq {OnMaster(Top.line)}
  BY <1>1, TopServing DEF Serving
<1>3. master' = {}
  BY <1>1, <1>2, OneEoi
<1>4. QED
  BY <1>1, <1>3, DoneStack

LEMMA IsrHandlerStack ==
  ASSUME StackInv, IsrHandler
  PROVE  StackInv'
<1>1. stack # <<>> /\ Top.kind = "fault" /\ UNCHANGED <<iflag, master>>
  BY DEF IsrHandler, pic
<1>2. master = {}
  BY <1>1, TopServing DEF Serving
<1>3. CASE Step("iret")
  BY <1>1, <1>2, <1>3, DoneStack
<1>4. CASE UNCHANGED stack
  BY <1>1, <1>4 DEF StackInv, Serving
<1>5. QED
  BY <1>3, <1>4 DEF IsrHandler

LEMMA DispatchStack ==
  ASSUME StackInv, Dispatch
  PROVE  StackInv'
<1> DEFINE f == Top
           num == Field("eax")
           w(value) == [f.words EXCEPT ![FieldAt("eax")] = IF num < SYSCALL_COUNT THEN value ELSE @]
           h(value) == [f EXCEPT !.pc = "iret",
                                 !.words[FieldAt("eax")] = IF num < SYSCALL_COUNT THEN value ELSE @]
<1>1. stack # <<>> /\ f.kind = "gate" /\ UNCHANGED <<iflag, master>>
  BY DEF Dispatch, pic
<1>2. stack = <<f>> /\ Serving(f)
  BY <1>1, TopServing
<1>3. PICK value : stack' = [stack EXCEPT ![1].pc = "iret",
                      ![1].words[FieldAt("eax")] = IF num < SYSCALL_COUNT THEN value ELSE @]
  BY DEF Dispatch
<1>4. stack' = [stack EXCEPT ![1] = h(value)]
  BY <1>2, <1>3 DEF Top
<1>5. master' = {}
  BY <1>1, <1>2 DEF Serving
<1> HIDE DEF num
<1>6. Shaped(h(value)) /\ h(value).kind = f.kind /\ h(value).line = f.line
  <2>1. Shaped(f)
    BY <1>2 DEF Serving
  <2> HIDE DEF f
  <2>2. QED
    BY <2>1 DEF Shaped
<1> HIDE DEF h
<1>7. QED
  BY <1>1, <1>4, <1>5, <1>6, GoesOn

LEMMA IretStack ==
  ASSUME StackInv, Iret
  PROVE  StackInv'
<1>1. stack # <<>> /\ Top.pc = "iret" /\ stack' = Tail(stack) /\ UNCHANGED master
  BY DEF Iret, pic
<1>2. stack = <<Top>> /\ master = {}
  BY <1>1, TopServing DEF Serving
<1> DEFINE t == Top
<1>3. stack = <<t>>
  BY <1>2
<1> HIDE DEF t
<1>4. Tail(<<t>>) = <<>>
  OBVIOUS
<1>5. QED
  BY <1>1, <1>2, <1>3, <1>4 DEF StackInv

LEMMA AcceptStack ==
  ASSUME StackInv, NEW l \in Line, Accept(l)
  PROVE  StackInv'
<1>1. stack = <<>> /\ master = {}
  BY DEF Accept, StackInv
<1>2. master' = {OnMaster(l)} /\ Enter("irq", 32 + l, l) /\ l # -1
  BY <1>1, Lines DEF Accept
<1>3. QED
  BY <1>1, <1>2, EnterStack

LEMMA TaskStack ==
  ASSUME StackInv, SystemCall \/ Fault \/ Yield
  PROVE  StackInv'
<1>1. stack = <<>> /\ UNCHANGED master
  BY DEF SystemCall, Fault, Yield, TaskRuns, pic
<1>2. master' = {} /\ -1 \in Line \cup {-1}
  BY <1>1, NotEmpty DEF StackInv
<1>3. \E kind \in {"irq", "fault", "gate"} : \E n : Enter(kind, n, -1)
  BY DEF SystemCall, Fault, Yield
<1>4. QED
  BY <1>1, <1>2, <1>3, EnterStack

LEMMA StepHandlers == StackInv /\ [Next]_vars => StackInv'
<1> SUFFICES ASSUME StackInv, [Next]_vars PROVE StackInv'
  OBVIOUS
<1>1. CASE \E l \in Line : Accept(l)
  BY <1>1, AcceptStack
<1>2. CASE Handler
  BY <1>2, CallHandlerStack, IrqEndStack, IsrHandlerStack, DispatchStack, IretStack DEF Handler
<1>3. CASE SystemCall \/ Fault \/ Yield
  BY <1>3, TaskStack
<1>4. CASE (\E l \in Line : Raise(l)) \/ Sleeping \/ Sleep \/ Compute \/ UNCHANGED vars
  <2>1. UNCHANGED <<stack, master, iflag>>
    BY <1>4 DEF Raise, Sleeping, NapTarget, NapLo, NapHi, Sleep, Compute, vars, pic
  <2>2. QED
    BY <2>1 DEF StackInv, Serving
<1>5. QED
  BY <1>1, <1>2, <1>3, <1>4 DEF Next, Task

LEMMA InitHandlers == Init => StackInv
BY DEF Init, StackInv

(* Only CallHandler and IrqEnd clear in-service bits, and the only one set *)
(* is that of the line being serviced.                                     *)
LEMMA StepAck ==
  ASSUME StackInv, [Next]_vars, NEW b \in master \ master'
  PROVE  b = OnMaster(Top.line)
<1>1. stack # <<>>
  BY DEF StackInv
<1>2. QED
  BY <1>1, TopServing DEF Serving

(* No EOI of the keyboard or mouse handler or of irq_handler acknowledges  *)
(* another line of the master.                                             *)
THEOREM MachineAckOwn == Spec => AckOwn
<1>1. StackInv /\ [Next]_vars => [\A b \in master \ master' : b = OnMaster(Top.line)]_vars
  BY StepAck
<1>2. QED
  BY <1>1, InitHandlers, StepHandlers, PTL DEF Spec, AckOwn
=============================================================================
