-------------------------- MODULE SchedulerProofs ---------------------------
(***************************************************************************)
(* For every set of processes, any number of levels and any priorities and *)
(* slices: the run queues stay rings, one process runs, a killed process   *)
(* stays dead, and contexts, address spaces and stacks follow it.          *)
(***************************************************************************)
EXTENDS Scheduler, TLAPS

(* nx is a ring through M, entered at h: a permutation of M of which no    *)
(* proper part with h is closed.  No ring is entered at NULL.              *)
IsRing(nx, h, M) ==
  /\ M = {} <=> h = NULL
  /\ M # {} => h \in M
  /\ \A p \in M : nx[p] \in M /\ \E q \in M : nx[q] = p
  /\ \A p, q \in M : nx[p] = nx[q] => p = q
  /\ \A S \in SUBSET M : h \in S /\ (\A q \in S : nx[q] \in S) => S = M

Links == [Proc -> ProcOrNull]

(* What a walk along nx from h meets. *)
Reach(nx, h) ==
  {p \in Proc : h # NULL /\
     \A S \in SUBSET Proc : h \in S /\ (\A q \in S : nx[q] \in S \cup {NULL}) => p \in S}

(* The invariant's form of a ring and the walk's agree. *)
LEMMA RingForm ==
  ASSUME NEW nx \in Links, NEW h \in ProcOrNull, NEW M \in SUBSET Proc
  PROVE  IsRing(nx, h, M) <=> /\ Reach(nx, h) = M
                              /\ {nx[p] : p \in M} = M
                              /\ \A p, q \in M : nx[p] = nx[q] => p = q
<1>1. NULL \notin Proc
  BY ProcAssumption
<1>2. ASSUME IsRing(nx, h, M) PROVE Reach(nx, h) = M
  <2>1. CASE h = NULL
    BY <1>2, <2>1 DEF IsRing, Reach
  <2>2. CASE h # NULL
    <3>1. h \in M /\ \A q \in M : nx[q] \in M
      BY <1>2, <2>2 DEF IsRing
    <3>2. Reach(nx, h) \subseteq M
      BY <3>1 DEF Reach
    <3>3. ASSUME NEW p \in M, NEW S \in SUBSET Proc, h \in S,
                 \A q \in S : nx[q] \in S \cup {NULL}
          PROVE  p \in S
      <4>1. \A q \in S \cap M : nx[q] \in S \cap M
        BY <1>1, <3>1, <3>3
      <4>2. S \cap M \in SUBSET M /\ h \in S \cap M
        BY <3>1, <3>3
      <4>3. S \cap M = M
        BY <1>2, <4>1, <4>2 DEF IsRing
      <4>4. QED
        BY <4>3
    <3>4. M \subseteq Reach(nx, h)
      BY <2>2, <3>3 DEF Reach
    <3>5. QED
      BY <3>2, <3>4
  <2>3. QED
    BY <2>1, <2>2
<1>3. ASSUME Reach(nx, h) = M, {nx[p] : p \in M} = M,
             \A p, q \in M : nx[p] = nx[q] => p = q
      PROVE  IsRing(nx, h, M)
  <2>1. \A p \in M : nx[p] \in M /\ \E q \in M : nx[q] = p
    BY <1>3
  <2>2. h # NULL => h \in M
    BY <1>3 DEF ProcOrNull, Reach
  <2>3. h = NULL => M = {}
    BY <1>3 DEF Reach
  <2>4. ASSUME NEW S \in SUBSET M, h \in S, \A q \in S : nx[q] \in S
        PROVE  S = M
    <3>1. S \in SUBSET Proc /\ \A q \in S : nx[q] \in S \cup {NULL}
      BY <2>4
    <3>2. M \subseteq S
      BY <1>3, <2>4, <3>1 DEF Reach
    <3>3. QED
      BY <3>2
  <2>5. QED
    BY <1>1, <1>3, <2>1, <2>2, <2>3, <2>4 DEF IsRing
<1>4. IsRing(nx, h, M) => /\ {nx[p] : p \in M} = M
                          /\ \A p, q \in M : nx[p] = nx[q] => p = q
  BY DEF IsRing
<1>5. QED
  BY <1>2, <1>3, <1>4

LEMMA RingFrame ==
  ASSUME NEW nx, NEW nx2, NEW h, NEW M, IsRing(nx, h, M), \A p \in M : nx2[p] = nx[p]
  PROVE  IsRing(nx2, h, M)
<1>1. \A S \in SUBSET M : (\A q \in S : nx2[q] \in S) => \A q \in S : nx[q] \in S
  OBVIOUS
<1>2. \A p \in M : nx2[p] \in M /\ \E q \in M : nx2[q] = p
  BY DEF IsRing
<1>3. \A S \in SUBSET M : h \in S /\ (\A q \in S : nx2[q] \in S) => S = M
  BY <1>1 DEF IsRing
<1>4. QED
  BY <1>2, <1>3 DEF IsRing

LEMMA RingSingle ==
  ASSUME NEW nx \in Links, NEW p \in Proc
  PROVE  IsRing([nx EXCEPT ![p] = p], p, {p})
BY ProcAssumption DEF IsRing, Links

(* pick_next enters a ring one link further. *)
LEMMA RingRotate ==
  ASSUME NEW nx \in Links, NEW h \in Proc, NEW M \in SUBSET Proc, IsRing(nx, h, M)
  PROVE  IsRing(nx, nx[h], M)
<1>1. h \in M /\ nx[h] \in M /\ NULL \notin Proc /\ M # {}
  BY ProcAssumption DEF IsRing
<1>2. ASSUME NEW S \in SUBSET M, nx[h] \in S, \A q \in S : nx[q] \in S
      PROVE  S = M
  <2>1. S \cup {h} = M
    <3>1. S \cup {h} \in SUBSET M /\ h \in S \cup {h} /\ \A q \in S \cup {h} : nx[q] \in S \cup {h}
      BY <1>1, <1>2
    <3>2. QED
      BY <3>1 DEF IsRing
  <2>2. PICK q \in M : nx[q] = h
    BY <1>1 DEF IsRing
  <2>3. h \in S
    BY <1>2, <2>1, <2>2
  <2>4. QED
    BY <2>1, <2>3
<1>3. QED
  BY <1>1, <1>2 DEF IsRing

(* scheduler_add links a process between the tail and the head. *)
LEMMA RingInsert ==
  ASSUME NEW nx \in Links, NEW h \in Proc, NEW M \in SUBSET Proc, IsRing(nx, h, M),
         NEW t \in M, nx[t] = h, NEW p \in Proc \ M
  PROVE  IsRing([nx EXCEPT ![t] = p, ![p] = h], h, M \cup {p})
<1> DEFINE nx2 == [nx EXCEPT ![t] = p, ![p] = h]
<1>1. /\ nx2[t] = p /\ nx2[p] = h
      /\ \A q \in M : q # t => nx2[q] = nx[q]
  BY DEF Links
<1> HIDE DEF nx2
<1>2. h \in M /\ \A q \in M : nx[q] \in M
  BY ProcAssumption DEF IsRing
<1>3. ASSUME NEW r \in M \cup {p}
      PROVE  nx2[r] \in M \cup {p} /\ \E q \in M \cup {p} : nx2[q] = r
  <2>1. nx2[r] \in M \cup {p}
    BY <1>1, <1>2
  <2>2. CASE r = p
    BY <1>1, <2>1, <2>2
  <2>3. CASE r \in M
    <3>1. PICK q \in M : nx[q] = r
      BY <2>3 DEF IsRing
    <3>2. CASE q = t
      BY <1>1, <2>1, <3>1, <3>2
    <3>3. CASE q # t
      BY <1>1, <2>1, <3>1, <3>3
    <3>4. QED
      BY <3>2, <3>3
  <2>4. QED
    BY <2>2, <2>3
<1>4. ASSUME NEW q \in M \cup {p}, NEW r \in M \cup {p}, nx2[q] = nx2[r] PROVE q = r
  <2>1. \A x, y \in M : nx[x] = nx[y] => x = y
    BY DEF IsRing
  <2>2. QED
    BY <1>1, <1>2, <1>4, <2>1
<1>5. ASSUME NEW S \in SUBSET (M \cup {p}), h \in S, \A q \in S : nx2[q] \in S
      PROVE  S = M \cup {p}
  <2> DEFINE T == S \ {p}
  <2>1. T \in SUBSET M /\ h \in T
    BY <1>2, <1>5
  <2>2. \A q \in T : nx[q] \in T
    BY <1>1, <1>2, <1>5
  <2>3. T = M
    BY <2>1, <2>2 DEF IsRing
  <2>4. p \in S
    BY <1>1, <1>5, <2>3
  <2>5. QED
    BY <2>3, <2>4
<1>6. QED
  BY <1>2, <1>3, <1>4, <1>5, ProcAssumption DEF IsRing, nx2

(* scheduler_remove of a process other than the head, of which there is a  *)
(* predecessor to relink.                                                  *)
LEMMA RingUnlink ==
  ASSUME NEW nx \in Links, NEW h \in Proc, NEW M \in SUBSET Proc, IsRing(nx, h, M),
         NEW v \in M, NEW p \in M, nx[v] = p, p # h, nx[p] # p
  PROVE  IsRing([nx EXCEPT ![v] = nx[p], ![p] = NULL], h, M \ {p})
<1> DEFINE nx2 == [nx EXCEPT ![v] = nx[p], ![p] = NULL]
<1>1. /\ v # p /\ nx2[v] = nx[p]
      /\ \A q \in M \ {p} : q # v => nx2[q] = nx[q]
  BY DEF Links
<1> HIDE DEF nx2
<1>2. /\ h \in M \ {p} /\ \A q \in M : nx[q] \in M
      /\ \A x, y \in M : nx[x] = nx[y] => x = y
  BY ProcAssumption DEF IsRing
<1>3. ASSUME NEW r \in M \ {p}
      PROVE  nx2[r] \in M \ {p} /\ \E q \in M \ {p} : nx2[q] = r
  <2>1. nx2[r] \in M \ {p}
    BY <1>1, <1>2
  <2>2. PICK q \in M : nx[q] = r
    BY DEF IsRing
  <2>3. CASE q = p
    BY <1>1, <2>1, <2>2, <2>3
  <2>4. CASE q # p
    BY <1>1, <2>1, <2>2, <2>4
  <2>5. QED
    BY <2>3, <2>4
<1>4. ASSUME NEW q \in M \ {p}, NEW r \in M \ {p}, nx2[q] = nx2[r] PROVE q = r
  BY <1>1, <1>2, <1>4
<1>5. ASSUME NEW S \in SUBSET (M \ {p}), h \in S, \A q \in S : nx2[q] \in S
      PROVE  S = M \ {p}
  <2>1. CASE v \in S
    <3>1. /\ S \cup {p} \in SUBSET M /\ h \in S \cup {p}
          /\ \A q \in S \cup {p} : nx[q] \in S \cup {p}
      BY <1>1, <1>2, <1>5, <2>1
    <3>2. S \cup {p} = M
      BY <3>1 DEF IsRing
    <3>3. QED
      BY <1>5, <3>2
  <2>2. CASE v \notin S
    <3>1. S \in SUBSET M /\ \A q \in S : nx[q] \in S
      BY <1>1, <1>5, <2>2
    <3>2. S = M
      BY <1>5, <3>1 DEF IsRing
    <3>3. QED
      BY <2>2, <3>2
  <2>3. QED
    BY <2>1, <2>2
<1>6. QED
  BY <1>2, <1>3, <1>4, <1>5, ProcAssumption DEF IsRing, nx2

(* A process linked to itself is alone in its ring. *)
LEMMA RingOfOne ==
  ASSUME NEW nx \in Links, NEW h, NEW M \in SUBSET Proc, IsRing(nx, h, M),
         NEW p \in M, nx[p] = p
  PROVE  M = {p} /\ h = p
<1>1. h \in M
  BY DEF IsRing
<1>2. CASE h = p
  <2>1. {p} \in SUBSET M /\ h \in {p} /\ \A q \in {p} : nx[q] \in {p}
    BY <1>2
  <2>2. QED
    BY <1>2, <2>1 DEF IsRing
<1>3. CASE h # p
  <2>1. M \ {p} \in SUBSET M /\ h \in M \ {p}
    BY <1>1, <1>3
  <2>2. \A q \in M \ {p} : nx[q] \in M \ {p}
    BY DEF IsRing
  <2>3. M \ {p} = M
    BY <2>1, <2>2 DEF IsRing
  <2>4. QED
    BY <2>3
<1>4. QED
  BY <1>2, <1>3
-----------------------------------------------------------------------------
(* RingsIntact in terms of IsRing, now and after a step. *)
Rings == \A l \in Level : IsRing(next, run_queues[l], Members(l))

LEMMA RingsForm == TypeOK => (RingsIntact <=> Rings)
<1> SUFFICES ASSUME TypeOK PROVE RingsIntact <=> Rings
  OBVIOUS
<1>1. ASSUME NEW l \in Level
      PROVE  /\ Chain(l) = Reach(next, run_queues[l])
             /\ next \in Links /\ run_queues[l] \in ProcOrNull /\ Members(l) \in SUBSET Proc
  BY DEF Chain, Closed, Reach, TypeOK, Links, Members
<1>2. ASSUME NEW l \in Level
      PROVE  IsRing(next, run_queues[l], Members(l))
               <=> /\ Chain(l) = Members(l)
                   /\ {next[p] : p \in Members(l)} = Members(l)
                   /\ \A p, q \in Members(l) : next[p] = next[q] => p = q
  BY <1>1, RingForm
<1>3. QED
  BY <1>2 DEF RingsIntact, Rings

LEMMA PrioLevel == \A p \in Proc : prio(p) \in Level
<1> SUFFICES ASSUME NEW p \in Proc PROVE prio(p) \in Level
  OBVIOUS
<1>1. priority[p] \in Nat /\ NUM_PRIO \in Nat \ {0}
  BY PrioAssumption
<1>2. QED
  BY <1>1 DEF prio, Level

(* What the ring of level l is before a step. *)
LEMMA RingFacts ==
  ASSUME TypeOK, Rings, NEW l \in Level
  PROVE  /\ next \in Links /\ Members(l) \in SUBSET Proc /\ run_queues[l] \in ProcOrNull
         /\ IsRing(next, run_queues[l], Members(l))
         /\ run_queues[l] # NULL => run_queues[l] \in Proc
         /\ Chain(l) = Members(l)
<1>1. /\ next \in Links /\ Members(l) \in SUBSET Proc /\ run_queues[l] \in ProcOrNull
      /\ IsRing(next, run_queues[l], Members(l))
  BY DEF Rings, TypeOK, Links, Members
<1>2. Chain(l) = Members(l)
  BY RingsForm DEF RingsIntact
<1>3. QED
  BY <1>1, <1>2 DEF ProcOrNull

LEMMA AddRings ==
  ASSUME TypeOK, Rings, NEW p \in Proc, p \notin queued, Add(p), queued' = queued \cup {p}
  PROVE  Rings' /\ next' \in Links /\ run_queues' \in [Level -> ProcOrNull]
<1> DEFINE m == prio(p)
<1>1. m \in Level /\ p \notin Members(m) /\ run_queues \in [Level -> ProcOrNull] /\ next \in Links
  BY PrioLevel DEF TypeOK, Members, Links
<1>2. /\ Members(m)' = Members(m) \cup {p}
      /\ \A l \in Level : l # m => Members(l)' = Members(l)
  BY DEF Members
<1>3. next' \in Links /\ run_queues' \in [Level -> ProcOrNull]
  <2>1. run_queues[m] \in ProcOrNull
    BY <1>1
  <2>2. QED
    BY <1>1, <2>1 DEF Add, Links, ProcOrNull
<1>4. IsRing(next', run_queues'[m], Members(m)')
  <2>1. CASE run_queues[m] = NULL
    <3>1. Members(m) = {}
      BY <1>1, <2>1, RingFacts DEF IsRing
    <3>2. run_queues' = [run_queues EXCEPT ![m] = p] /\ next' = [next EXCEPT ![p] = p]
      <4>1. Chain(m) = {}
        BY <2>1 DEF Chain
      <4>2. QED
        BY <4>1 DEF Add
    <3>3. IsRing([next EXCEPT ![p] = p], p, {p})
      BY <1>1, RingSingle
    <3>4. run_queues'[m] = p /\ Members(m)' = {p}
      BY <1>1, <1>2, <3>1, <3>2
    <3>5. QED
      BY <3>2, <3>3, <3>4
  <2>2. CASE run_queues[m] # NULL
    <3>1. PICK t \in Chain(m) : /\ next[t] = run_queues[m]
                                /\ next' = [next EXCEPT ![t] = p, ![p] = run_queues[m]]
                                /\ run_queues' = run_queues
      BY <2>2 DEF Add
    <3>2. t \in Members(m)
      BY <1>1, <3>1, RingFacts
    <3>3. p \in Proc \ Members(m)
      BY <1>1
    <3>4. IsRing([next EXCEPT ![t] = p, ![p] = run_queues[m]], run_queues[m],
                 Members(m) \cup {p})
      BY <1>1, <2>2, <3>1, <3>2, <3>3, RingFacts, RingInsert
    <3>5. QED
      BY <1>2, <3>1, <3>4
  <2>3. QED
    BY <2>1, <2>2
<1>5. ASSUME NEW l \in Level, l # m PROVE IsRing(next', run_queues'[l], Members(l)')
  <2>1. run_queues'[l] = run_queues[l]
    BY <1>1, <1>5 DEF Add
  <2>2. ASSUME NEW q \in Members(l) PROVE next'[q] = next[q]
    <3>1. q \in Proc /\ q # p /\ q \notin Chain(m)
      BY <1>1, <1>5, RingFacts DEF Members, TypeOK
    <3>2. QED
      BY <1>1, <3>1 DEF Add, Links
  <2>3. IsRing(next', run_queues[l], Members(l))
    BY <2>2, RingFacts, RingFrame
  <2>4. QED
    BY <1>2, <1>5, <2>1, <2>3
<1>6. QED
  BY <1>3, <1>4, <1>5 DEF Rings

LEMMA RemoveRings ==
  ASSUME TypeOK, Rings, NEW p \in Proc, KeepsRing(p), Remove(p), queued' = queued \ {p}
  PROVE  Rings' /\ next' \in Links /\ run_queues' \in [Level -> ProcOrNull]
<1> DEFINE m == prio(p)
<1>1. m \in Level /\ run_queues \in [Level -> ProcOrNull] /\ next \in Links
  BY PrioLevel DEF TypeOK, Links
<1>2. /\ Members(m)' = Members(m) \ {p}
      /\ \A l \in Level : l # m => Members(l)' = Members(l)
  BY DEF Members
<1>3. next' \in Links /\ run_queues' \in [Level -> ProcOrNull]
  <2>1. next[p] \in ProcOrNull /\ NULL \in ProcOrNull
    BY <1>1 DEF Links, ProcOrNull
  <2>2. QED
    BY <1>1, <2>1 DEF Remove, Links
<1>4. IsRing(next', run_queues'[m], Members(m)')
  <2>1. CASE p \notin Chain(m) /\ UNCHANGED <<run_queues, next>>
    <3>1. Members(m)' = Members(m)
      BY <1>1, <1>2, <2>1, RingFacts
    <3>2. QED
      BY <1>1, <2>1, <3>1, RingFacts
  <2>2. CASE /\ p \in Chain(m) /\ next[p] = p
             /\ run_queues' = [run_queues EXCEPT ![m] = NULL]
             /\ next' = [next EXCEPT ![p] = NULL]
    <3>1. Members(m) = {p}
      BY <1>1, <2>2, RingFacts, RingOfOne
    <3>2. Members(m)' = {} /\ run_queues'[m] = NULL
      BY <1>1, <1>2, <2>2, <3>1
    <3>3. QED
      BY <3>2 DEF IsRing
  <2>3. CASE /\ p # run_queues[m] /\ next[p] # p
             /\ \E prev \in Chain(m) :
                  /\ next[prev] = p
                  /\ next' = [next EXCEPT ![prev] = next[p], ![p] = NULL]
             /\ UNCHANGED run_queues
    <3>1. PICK v \in Chain(m) : /\ next[v] = p
                                /\ next' = [next EXCEPT ![v] = next[p], ![p] = NULL]
      BY <2>3
    <3>2. v \in Members(m) /\ p \in Members(m) /\ run_queues[m] \in Proc
      <4>1. v \in Members(m)
        BY <1>1, <3>1, RingFacts
      <4>2. p \in Members(m) /\ run_queues[m] # NULL
        BY <1>1, <3>1, <4>1, RingFacts DEF IsRing
      <4>3. QED
        BY <1>1, <4>1, <4>2, RingFacts
    <3>3. IsRing([next EXCEPT ![v] = next[p], ![p] = NULL], run_queues[m], Members(m) \ {p})
      BY <1>1, <2>3, <3>1, <3>2, RingFacts, RingUnlink
    <3>4. QED
      BY <1>2, <2>3, <3>1, <3>3
  <2>4. QED
    BY <2>1, <2>2, <2>3 DEF Remove, KeepsRing
<1>5. ASSUME NEW l \in Level, l # m PROVE IsRing(next', run_queues'[l], Members(l)')
  <2>1. run_queues'[l] = run_queues[l]
    BY <1>1, <1>5 DEF Remove
  <2>2. ASSUME NEW q \in Members(l) PROVE next'[q] = next[q]
    <3>1. q \in Proc /\ q # p /\ q \notin Chain(m)
      BY <1>1, <1>5, RingFacts DEF Members, TypeOK
    <3>2. QED
      BY <1>1, <3>1 DEF Remove, Links
  <2>3. IsRing(next', run_queues[l], Members(l))
    BY <2>2, RingFacts, RingFrame
  <2>4. QED
    BY <1>2, <1>5, <2>1, <2>3
<1>6. QED
  BY <1>3, <1>4, <1>5 DEF Rings

(* However many levels pick_next looks at, each ring is only entered one   *)
(* link further.                                                           *)
LEMMA AdvanceRings ==
  ASSUME TypeOK, Rings, Advance, UNCHANGED <<next, queued>>
  PROVE  Rings' /\ run_queues' \in [Level -> ProcOrNull]
<1>1. ASSUME NEW l \in Level PROVE Members(l)' = Members(l)
  BY DEF Members
<1>2. ASSUME NEW l \in Level
      PROVE  /\ IsRing(next', run_queues'[l], Members(l)')
             /\ run_queues'[l] \in ProcOrNull
  <2>1. CASE LookedAt(l)
    <3>1. run_queues'[l] = next[run_queues[l]] /\ run_queues[l] # NULL
      BY <2>1 DEF Advance, LookedAt
    <3>2. IsRing(next, next[run_queues[l]], Members(l)) /\ run_queues[l] \in Proc
      BY <3>1, RingFacts, RingRotate
    <3>3. next[run_queues[l]] \in ProcOrNull
      BY <3>2 DEF TypeOK
    <3>4. QED
      BY <1>1, <3>1, <3>2, <3>3
  <2>2. CASE ~LookedAt(l)
    <3>1. run_queues'[l] = run_queues[l]
      BY <2>2 DEF Advance
    <3>2. QED
      BY <1>1, <3>1, RingFacts
  <2>3. QED
    BY <2>1, <2>2
<1>3. run_queues' \in [Level -> ProcOrNull]
  BY <1>2 DEF Advance
<1>4. QED
  BY <1>2, <1>3 DEF Rings
-----------------------------------------------------------------------------
(* Until the first context switch the kernel's page directory is loaded    *)
(* and every saved flow is a process's own; until scheduler_start there is *)
(* no current process and kmain is what runs.                              *)
BeforeSwitch ==
  /\ started = {} => cr3 = Kernel /\ \A q \in Proc : ctx[q] \in Proc
  /\ current_process = NULL => started = {} /\ cpu = Kernel
  /\ ~scheduler_active => current_process = NULL

(* A process's flow is its own or kmain's, which one process has taken     *)
(* over, and only a process that has been created has run: the TSS never   *)
(* names the stack of a process that runs without being told so.           *)
OwnFlows ==
  /\ \A q \in Proc : ctx[q] \in {q, Kernel}
  /\ current_process # NULL => cpu \in {current_process, Kernel}
  /\ \A q \in started : state[q] # "DEAD"

MachineInv == FlowsDistinct /\ SpaceFollows /\ BeforeSwitch /\ OwnFlows

IInv == TypeOK /\ Rings /\ OneRunning /\ MachineInv

TickCounts == [Proc -> 0 .. TicksWrap - 1]

LEMMA InitIInv == Init => IInv
<1> SUFFICES ASSUME Init PROVE IInv
  OBVIOUS
<1>1. TypeOK
  <2>1. ticks_run \in [Proc -> 0 .. TicksWrap - 1]
    BY SliceAssumption DEF Init
  <2>2. run_queues \in [Level -> ProcOrNull] /\ next \in [Proc -> ProcOrNull]
    BY DEF Init, ProcOrNull
  <2>3. /\ cpu \in Flow /\ ctx \in [Proc -> Flow] /\ started \subseteq Proc
        /\ cr3 \in Flow /\ tss \in ProcOrNull
    BY ProcAssumption DEF Init, Flow, ProcOrNull
  <2>4. QED
    BY <2>1, <2>2, <2>3 DEF Init, TypeOK, ProcOrNull
<1>2. Rings
  BY DEF Init, Rings, IsRing, Members
<1>3. OneRunning
  BY DEF Init, OneRunning
<1>4. MachineInv
  BY ProcAssumption
    DEF Init, MachineInv, FlowsDistinct, FlowOf, SpaceFollows, BeforeSwitch, OwnFlows
<1>5. QED
  BY <1>1, <1>2, <1>3, <1>4 DEF IInv

(* Steps that leave the machine and the current process alone, and destroy *)
(* no process.                                                             *)
LEMMA MachineFrame ==
  ASSUME MachineInv, started \subseteq Proc,
         UNCHANGED <<cpu, ctx, started, cr3, tss, current_process, scheduler_active>>,
         \A q \in Proc : state[q] # "DEAD" => state'[q] # "DEAD"
  PROVE  MachineInv'
BY DEF MachineInv, FlowsDistinct, FlowOf, SpaceFollows, BeforeSwitch, OwnFlows

LEMMA CreateStep ==
  ASSUME IInv, NEW p \in Proc, process_create(p)
  PROVE  IInv'
<1>1. Rings'
  BY DEF IInv, Rings, Members, process_create
<1>2. TypeOK'
  BY DEF IInv, TypeOK, process_create, machine
<1>3. OneRunning'
  BY DEF IInv, TypeOK, OneRunning, process_create
<1>4. MachineInv'
  BY MachineFrame DEF IInv, TypeOK, process_create, machine
<1>5. QED
  BY <1>1, <1>2, <1>3, <1>4 DEF IInv

(* The process whose stack the TSS gets has not run. *)
LEMMA SpawnStep ==
  ASSUME IInv, NEW p \in Proc, process_spawn_ring3(p)
  PROVE  IInv'
<1>1. Rings'
  BY DEF IInv, Rings, Members, process_spawn_ring3
<1>2. TypeOK'
  BY DEF IInv, TypeOK, process_spawn_ring3, ProcOrNull
<1>3. OneRunning'
  BY DEF IInv, TypeOK, OneRunning, process_spawn_ring3
<1>4. p \notin started
  BY DEF IInv, MachineInv, OwnFlows, process_spawn_ring3
<1>5. SpaceFollows'
  BY <1>4 DEF IInv, MachineInv, SpaceFollows, process_spawn_ring3
<1>6. FlowsDistinct' /\ BeforeSwitch'
  BY DEF IInv, MachineInv, FlowsDistinct, FlowOf, BeforeSwitch, process_spawn_ring3
<1>7. OwnFlows'
  BY DEF IInv, TypeOK, MachineInv, OwnFlows, process_spawn_ring3
<1>8. QED
  BY <1>1, <1>2, <1>3, <1>5, <1>6, <1>7 DEF IInv, MachineInv

LEMMA AddStep ==
  ASSUME IInv, NEW p \in Proc, p \notin queued, scheduler_add(p)
  PROVE  IInv'
<1>1. Rings' /\ next' \in [Proc -> ProcOrNull] /\ run_queues' \in [Level -> ProcOrNull]
  BY AddRings DEF IInv, scheduler_add, Links
<1>2. TypeOK'
  BY <1>1 DEF IInv, TypeOK, scheduler_add, machine
<1>3. OneRunning'
  BY DEF IInv, TypeOK, OneRunning, scheduler_add
<1>4. MachineInv'
  BY MachineFrame DEF IInv, TypeOK, scheduler_add, machine
<1>5. QED
  BY <1>1, <1>2, <1>3, <1>4 DEF IInv

LEMMA BlockStep ==
  ASSUME IInv, NEW p \in Proc, KeepsRing(p), scheduler_block(p)
  PROVE  IInv'
<1>1. Rings' /\ next' \in [Proc -> ProcOrNull] /\ run_queues' \in [Level -> ProcOrNull]
  BY RemoveRings DEF IInv, scheduler_block, Links
<1>2. TypeOK'
  BY <1>1 DEF IInv, TypeOK, scheduler_block, machine
<1>3. OneRunning'
  BY DEF IInv, TypeOK, OneRunning, scheduler_block
<1>4. MachineInv'
  BY MachineFrame DEF IInv, TypeOK, scheduler_block, machine
<1>5. QED
  BY <1>1, <1>2, <1>3, <1>4 DEF IInv

LEMMA KillStep ==
  ASSUME IInv, NEW p \in Proc, process_kill(p)
  PROVE  IInv'
<1>1. Rings'
  BY DEF IInv, Rings, Members, process_kill
<1>2. TypeOK'
  BY DEF IInv, TypeOK, process_kill, machine
<1>3. OneRunning'
  BY DEF IInv, TypeOK, OneRunning, process_kill
<1>4. MachineInv'
  BY MachineFrame DEF IInv, TypeOK, process_kill, machine
<1>5. QED
  BY <1>1, <1>2, <1>3, <1>4 DEF IInv

(* pick_next returns a process that is READY. *)
LEMMA PicksReady ==
  ASSUME TypeOK, NEW p, Picks(p)
  PROVE  p \in Proc /\ state[p] = "READY"
BY DEF TypeOK, Picks, ReadyAt, ProcOrNull

LEMMA StartStep ==
  ASSUME IInv, scheduler_start
  PROVE  IInv'
<1>1. Rings' /\ run_queues' \in [Level -> ProcOrNull]
  BY AdvanceRings DEF IInv, scheduler_start
<1>2. current_process = NULL /\ started = {} /\ cpu = Kernel /\ \A q \in Proc : ctx[q] \in Proc
  BY DEF IInv, MachineInv, BeforeSwitch, scheduler_start
<1>3. CASE \E p \in Proc : /\ Picks(p)
                           /\ current_process' = p
                           /\ state' = [state EXCEPT ![p] = "RUNNING"]
                           /\ UNCHANGED panic
  <2>1. PICK p \in Proc : /\ Picks(p)
                          /\ current_process' = p
                          /\ state' = [state EXCEPT ![p] = "RUNNING"]
                          /\ UNCHANGED panic
    BY <1>3
  <2>2. TypeOK'
    BY <1>1, <2>1 DEF IInv, TypeOK, scheduler_start, machine, ProcOrNull
  <2>3. OneRunning'
    BY <1>2, <2>1, ProcAssumption DEF IInv, TypeOK, OneRunning
  <2>4. FlowsDistinct'
    <3>1. \A q \in Proc : FlowOf(q)' = IF q = p THEN Kernel ELSE FlowOf(q)
      BY <1>2, <2>1, ProcAssumption DEF FlowOf, scheduler_start, machine
    <3>2. \A q \in Proc : FlowOf(q) # Kernel
      BY <1>2, ProcAssumption DEF FlowOf
    <3>3. QED
      BY <3>1, <3>2 DEF IInv, MachineInv, FlowsDistinct
  <2>5. SpaceFollows' /\ BeforeSwitch'
    BY <1>2, <2>1, ProcAssumption
      DEF IInv, MachineInv, SpaceFollows, BeforeSwitch, scheduler_start, machine
  <2>6. OwnFlows'
    BY <1>2, <2>1 DEF IInv, MachineInv, OwnFlows, scheduler_start, machine
  <2>7. QED
    BY <1>1, <2>2, <2>3, <2>4, <2>5, <2>6 DEF IInv, MachineInv
<1>4. CASE PicksNone /\ current_process' = NULL /\ panic' = TRUE /\ UNCHANGED state
  <2>1. TypeOK'
    <3>1. panic' \in BOOLEAN /\ scheduler_active' \in BOOLEAN /\ current_process' \in ProcOrNull
      BY <1>4 DEF scheduler_start, ProcOrNull
    <3>2. UNCHANGED <<next, state, ticks_run, cpu, ctx, started, cr3, tss, in_service, queued>>
      BY <1>4 DEF scheduler_start, machine
    <3>3. QED
      BY <1>1, <3>1, <3>2 DEF IInv, TypeOK
  <2>2. OneRunning'
    BY <1>2, <1>4 DEF IInv, OneRunning
  <2>3. FlowsDistinct'
    BY <1>2, <1>4 DEF IInv, MachineInv, FlowsDistinct, FlowOf, scheduler_start, machine
  <2>4. SpaceFollows' /\ BeforeSwitch'
    BY <1>2, <1>4 DEF IInv, MachineInv, SpaceFollows, BeforeSwitch, scheduler_start, machine
  <2>5. OwnFlows'
    BY <1>2, <1>4 DEF IInv, MachineInv, OwnFlows, scheduler_start, machine
  <2>6. QED
    BY <1>1, <2>1, <2>2, <2>3, <2>4, <2>5 DEF IInv, MachineInv
<1>5. QED
  BY <1>3, <1>4 DEF scheduler_start

LEMMA TickedType ==
  ASSUME NEW run \in TickCounts, current_process \in Proc
  PROVE  Ticked(run) \in TickCounts
<1>1. run[current_process] \in 0 .. TicksWrap - 1
  BY DEF TickCounts
<1>2. (run[current_process] + 1) % TicksWrap \in 0 .. TicksWrap - 1
  BY <1>1, SliceAssumption
<1>3. QED
  BY <1>2 DEF Ticked, TickCounts

(* A context switch moves flows from one place to another and neither      *)
(* copies nor drops one: what each process stands for is unchanged.        *)
LEMMA SwitchStep ==
  ASSUME IInv, NEW run \in TickCounts, NEW unacknowledged \in BOOLEAN,
         TickSwitch(run, unacknowledged), UNCHANGED <<next, scheduler_active, queued, panic>>
  PROVE  IInv'
<1>1. PICK p \in Proc \ {current_process} :
        /\ Picks(p)
        /\ current_process' = p
        /\ SwitchStates(p) /\ SwitchSpace(p) /\ ContextSwitch(p)
        /\ started' = started \cup ({ctx[p]} \cap Proc)
        /\ in_service' = (unacknowledged /\ ctx[p] \in Proc \ started)
  BY DEF TickSwitch
<1>2. current_process \in Proc /\ scheduler_active
  BY DEF IInv, TypeOK, TickSwitch, Scheduling, ProcOrNull
<1>3. Rings' /\ run_queues' \in [Level -> ProcOrNull]
  BY AdvanceRings DEF IInv, TickSwitch
<1>4. ticks_run' \in [Proc -> 0 .. TicksWrap - 1]
  BY <1>2, TickedType DEF TickSwitch, TickCounts
<1>5. state \in [Proc -> {"DEAD", "READY", "RUNNING", "BLOCKED", "ZOMBIE"}]
  BY DEF IInv, TypeOK
<1>6. state' \in [Proc -> {"DEAD", "READY", "RUNNING", "BLOCKED", "ZOMBIE"}]
  BY <1>1, <1>2, <1>5 DEF SwitchStates
<1>7. ctx \in [Proc -> Flow] /\ cpu \in Flow /\ cr3 \in Flow /\ tss \in ProcOrNull /\ started \subseteq Proc
  BY DEF IInv, TypeOK
<1>8. /\ cpu' \in Flow /\ ctx' \in [Proc -> Flow] /\ started' \subseteq Proc
      /\ cr3' \in Flow /\ tss' \in ProcOrNull
  BY <1>1, <1>7 DEF ContextSwitch, SwitchSpace, page_dir, Flow, ProcOrNull
<1>9. in_service' \in BOOLEAN
  BY <1>1
<1>10. TypeOK'
  BY <1>1, <1>3, <1>4, <1>6, <1>8, <1>9 DEF IInv, TypeOK, ProcOrNull
<1>11. OneRunning'
  BY <1>1, <1>2, <1>5 DEF IInv, OneRunning, SwitchStates
<1>12. FlowsDistinct'
  <2>1. \A q \in Proc : FlowOf(q)' = FlowOf(q)
    BY <1>1, <1>2, <1>7 DEF FlowOf, ContextSwitch
  <2>2. QED
    BY <2>1 DEF IInv, MachineInv, FlowsDistinct
<1>13. cr3' = page_dir(p)
  <2>1. CASE started = {}
    BY <1>1, <1>2, <2>1 DEF IInv, MachineInv, BeforeSwitch, SwitchSpace, page_dir
  <2>2. CASE started # {}
    BY <1>1, <2>2 DEF IInv, MachineInv, SpaceFollows, SwitchSpace
  <2>3. QED
    BY <2>1, <2>2
<1>14. SpaceFollows'
  BY <1>1, <1>13 DEF SpaceFollows, SwitchSpace, page_dir
<1>15. BeforeSwitch'
  <2>1. started' # {}
    <3>1. CASE started = {}
      BY <1>1, <3>1 DEF IInv, MachineInv, BeforeSwitch
    <3>2. CASE started # {}
      BY <1>1, <3>2
    <3>3. QED
      BY <3>1, <3>2
  <2>2. current_process' # NULL /\ scheduler_active'
    BY <1>1, <1>2, ProcAssumption
  <2>3. QED
    BY <2>1, <2>2 DEF BeforeSwitch
<1>16. OwnFlows'
  <2>1. /\ \A q \in Proc : ctx[q] \in {q, Kernel}
        /\ cpu \in {current_process, Kernel}
        /\ \A q \in started : state[q] # "DEAD"
    BY <1>2, ProcAssumption DEF IInv, MachineInv, OwnFlows
  <2>2. (\A q \in Proc : ctx[q] \in {q, Kernel})'
    BY <1>1, <1>2, <1>7, <2>1 DEF ContextSwitch
  <2>3. cpu' \in {p, Kernel}
    BY <1>1, <2>1 DEF ContextSwitch
  <2>4. ASSUME NEW q \in started' PROVE state'[q] # "DEAD"
    <3>1. q = p \/ q \in started
      BY <1>1, <2>1, <2>4, ProcAssumption
    <3>2. CASE q = p
      BY <1>1, <1>2, <1>5, <3>2 DEF SwitchStates
    <3>3. CASE q # p
      BY <1>1, <1>2, <1>5, <1>7, <2>1, <3>1, <3>3 DEF SwitchStates
    <3>4. QED
      BY <3>2, <3>3
  <2>5. QED
    BY <1>1, <2>2, <2>3, <2>4 DEF OwnFlows
<1>17. QED
  BY <1>3, <1>10, <1>11, <1>12, <1>14, <1>15, <1>16 DEF IInv, MachineInv

LEMMA TickStep ==
  ASSUME IInv, NEW run \in TickCounts, NEW unacknowledged \in BOOLEAN,
         scheduler_tick(run, unacknowledged)
  PROVE  IInv'
<1>1. UNCHANGED <<next, scheduler_active, queued, panic>>
  BY DEF scheduler_tick
<1>2. CASE TickSwitch(run, unacknowledged)
  BY <1>1, <1>2, SwitchStep
<1>3. CASE TickIdle(run) \/ TickInSlice(run) \/ TickKeep(run)
  <2>1. UNCHANGED <<state, current_process, cpu, ctx, started, cr3, tss>> /\ in_service' = FALSE
    BY <1>3 DEF TickIdle, TickInSlice, TickKeep, EndOfInterrupt
  <2>2. ticks_run' \in [Proc -> 0 .. TicksWrap - 1]
    <3>1. CASE TickIdle(run)
      BY <3>1 DEF TickIdle, TickCounts
    <3>2. CASE TickInSlice(run) \/ TickKeep(run)
      <4>1. current_process \in Proc /\ ticks_run' = Ticked(run)
        BY <3>2 DEF IInv, TypeOK, TickInSlice, TickKeep, Scheduling, ProcOrNull
      <4>2. QED
        BY <4>1, TickedType DEF TickCounts
    <3>3. QED
      BY <1>3, <3>1, <3>2
  <2>3. Rings' /\ run_queues' \in [Level -> ProcOrNull]
    <3>1. CASE UNCHANGED run_queues
      BY <1>1, <3>1 DEF IInv, TypeOK, Rings, Members
    <3>2. CASE Advance
      BY <1>1, <3>2, AdvanceRings DEF IInv
    <3>3. QED
      BY <1>3, <3>1, <3>2 DEF TickIdle, TickInSlice, TickKeep
  <2>4. TypeOK'
    BY <1>1, <2>1, <2>2, <2>3 DEF IInv, TypeOK
  <2>5. OneRunning'
    BY <2>1 DEF IInv, OneRunning
  <2>6. MachineInv'
    BY <1>1, <2>1, MachineFrame DEF IInv, TypeOK
  <2>7. QED
    BY <2>3, <2>4, <2>5, <2>6 DEF IInv
<1>4. QED
  BY <1>2, <1>3 DEF scheduler_tick

LEMMA TimerStep ==
  ASSUME IInv, TimerIrq \/ scheduler_yield
  PROVE  IInv'
<1>1. ticks_run \in TickCounts /\ in_service \in BOOLEAN
  BY DEF IInv, TypeOK, TickCounts
<1>2. CASE TimerIrq
  <2>1. scheduler_tick(ticks_run, TRUE)
    BY <1>2 DEF TimerIrq
  <2>2. QED
    BY <1>1, <2>1, TickStep
<1>3. CASE scheduler_yield
  <2> DEFINE run == IF current_process = NULL THEN ticks_run
                    ELSE [ticks_run EXCEPT ![current_process] = 0]
  <2>1. scheduler_tick(run, in_service)
    BY <1>3 DEF scheduler_yield
  <2>2. run \in TickCounts
    <3>1. 0 \in 0 .. TicksWrap - 1
      BY SliceAssumption
    <3>2. QED
      BY <1>1, <3>1 DEF TickCounts
  <2> HIDE DEF run
  <2>3. QED
    BY <1>1, <2>1, <2>2, TickStep
<1>4. QED
  BY <1>2, <1>3

LEMMA StepIInv == IInv /\ [Next]_vars => IInv'
<1> SUFFICES ASSUME IInv, [Next]_vars PROVE IInv'
  OBVIOUS
<1>1. CASE TimerIrq \/ scheduler_yield
  BY <1>1, TimerStep
<1>2. CASE scheduler_start
  BY <1>2, StartStep
<1>3. CASE \E p \in Proc : p \notin queued /\ scheduler_add(p)
  BY <1>3, AddStep
<1>4. CASE \E p \in Proc : KeepsRing(p) /\ scheduler_block(p)
  BY <1>4, BlockStep
<1>5. CASE \E p \in Proc : process_kill(p)
  BY <1>5, KillStep
<1>6. CASE \E p \in Proc : process_create(p)
  BY <1>6, CreateStep
<1>7. CASE \E p \in Proc : process_spawn_ring3(p)
  BY <1>7, SpawnStep
<1>8. CASE UNCHANGED vars
  <2>1. TypeOK' /\ Rings' /\ OneRunning'
    BY <1>8 DEF vars, IInv, TypeOK, Rings, Members, OneRunning
  <2>2. MachineInv'
    BY <1>8, MachineFrame DEF vars, IInv, TypeOK
  <2>3. QED
    BY <2>1, <2>2 DEF IInv
<1>9. QED
  BY <1>1, <1>2, <1>3, <1>4, <1>5, <1>6, <1>7, <1>8 DEF Next, scheduler_unblock

LEMMA Inductive == Spec => []IInv
BY InitIInv, StepIInv, PTL DEF Spec

(* The scheduler's state keeps its type; the tick counters wrap at their   *)
(* width.                                                                  *)
THEOREM SchedulerTypeCorrect == Spec => []TypeOK
<1>1. IInv => TypeOK
  BY DEF IInv
<1>2. QED
  BY <1>1, Inductive, PTL

(* The pointer surgery of scheduler_add, scheduler_remove and pick_next    *)
(* keeps every level's list a ring through exactly its members, as long as *)
(* nobody blocks the head of a list with other members.                    *)
THEOREM SchedulerRingsIntact == Spec => []RingsIntact
<1>1. IInv => RingsIntact
  BY RingsForm DEF IInv
<1>2. QED
  BY <1>1, Inductive, PTL

(* scheduler_tick and scheduler_start leave no second process RUNNING.     *)
THEOREM SchedulerOneRunning == Spec => []OneRunning
<1>1. IInv => OneRunning
  BY DEF IInv
<1>2. QED
  BY <1>1, Inductive, PTL

(* context_switch is always called so that no flow is duplicated.          *)
THEOREM SchedulerFlowsDistinct == Spec => []FlowsDistinct
<1>1. IInv => FlowsDistinct
  BY DEF IInv, MachineInv
<1>2. QED
  BY <1>1, Inductive, PTL

(* The conditional loads of CR3 and of the TSS in scheduler_tick are       *)
(* enough for every later switch, and process_spawn_ring3, which writes    *)
(* the TSS while another process has the processor, never names a stack    *)
(* that a process has run on.                                              *)
THEOREM SchedulerSpaceFollows == Spec => []SpaceFollows
<1>1. IInv => SpaceFollows
  BY DEF IInv, MachineInv
<1>2. QED
  BY <1>1, Inductive, PTL

(* No tick, yield or start switches to a killed process; block and unblock *)
(* change its state and take it out of its list or put it into one.        *)
THEOREM SchedulerDeadNotPicked == Spec => DeadNotPicked
<1> DEFINE Dead(p) == state[p] = "ZOMBIE" =>
                        /\ current_process' = p => current_process = p
                        /\ \/ state'[p] = "ZOMBIE"
                           \/ state'[p] = "BLOCKED" /\ p \notin queued'
                           \/ state'[p] = "READY" /\ p \in queued' \ queued
<1>1. ASSUME IInv, [Next]_vars, NEW p \in Proc PROVE Dead(p)
  <2>1. state \in [Proc -> {"DEAD", "READY", "RUNNING", "BLOCKED", "ZOMBIE"}]
    BY <1>1 DEF IInv, TypeOK
  <2>2. CASE UNCHANGED <<state, current_process>>
    BY <2>2
  <2>3. CASE \E q \in Proc : \/ process_create(q)
                             \/ process_spawn_ring3(q)
                             \/ q \notin queued /\ scheduler_add(q)
                             \/ scheduler_block(q)
                             \/ process_kill(q)
    BY <2>1, <2>3
      DEF process_create, process_spawn_ring3, scheduler_add, scheduler_block, process_kill
  <2>4. CASE \E q \in Proc : Picks(q) /\ current_process' = q
                            /\ (state' = [state EXCEPT ![q] = "RUNNING"] \/ SwitchStates(q))
    <3>1. PICK q \in Proc : /\ Picks(q) /\ current_process' = q
                            /\ state' = [state EXCEPT ![q] = "RUNNING"] \/ SwitchStates(q)
      BY <2>4
    <3>2. state[q] = "READY"
      BY <1>1, <3>1, PicksReady DEF IInv
    <3>3. QED
      BY <2>1, <3>1, <3>2 DEF SwitchStates
  <2>5. CASE PicksNone /\ current_process' = NULL /\ UNCHANGED state
    BY <2>5, ProcAssumption
  <2>6. ASSUME NEW run, NEW u, scheduler_tick(run, u) PROVE Dead(p)
    BY <2>2, <2>4, <2>6 DEF scheduler_tick, TickIdle, TickInSlice, TickKeep, TickSwitch
  <2>7. CASE scheduler_start
    BY <2>4, <2>5, <2>7 DEF scheduler_start
  <2>8. CASE TimerIrq \/ scheduler_yield
    BY <2>6, <2>8 DEF TimerIrq, scheduler_yield
  <2>9. CASE UNCHANGED vars
    BY <2>2, <2>9 DEF vars
  <2>10. QED
    BY <1>1, <2>3, <2>7, <2>8, <2>9 DEF Next, scheduler_unblock
<1>2. IInv /\ [Next]_vars
        => [\A p \in Proc : state[p] = "ZOMBIE" =>
               /\ current_process' = p => current_process = p
               /\ \/ state'[p] = "ZOMBIE"
                  \/ state'[p] = "BLOCKED" /\ p \notin queued'
                  \/ state'[p] = "READY" /\ p \in queued' \ queued]_vars
  BY <1>1
<1>3. QED
  BY <1>2, Inductive, PTL DEF Spec, DeadNotPicked
=============================================================================
