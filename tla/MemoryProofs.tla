---------------------------- MODULE MemoryProofs ----------------------------
(***************************************************************************)
(* For every number of frames, sizes of tables, slabs, stacks and          *)
(* surfaces: no frame has two uses, heap objects do not overlap, address   *)
(* spaces stay apart, and a window shows the surface it was opened for.    *)
(***************************************************************************)
EXTENDS Memory, WellFoundedInduction, TLAPS

(* The operators of module Vmm: which frames an allocation takes and which  *)
(* entries a mapping changes.                                              *)

(* A set of naturals has a least element, which is what Min returns.       *)
LEMMA LeastElement ==
  ASSUME NEW T \in SUBSET Nat, T # {}
  PROVE  \E x \in T : \A y \in T : x <= y
<1> DEFINE R == {ss \in Nat \X Nat : ss[1] < ss[2]}
<1>1. IsWellFoundedOn(R, Nat)
  BY NatLessThanWellFounded, Zenon DEF OpToRel
<1>2. PICK x \in T : \A y \in T : ~ (<<y, x>> \in R)
  <2> HIDE DEF R
  <2> QED BY <1>1, WFMin
<1>3. ASSUME NEW y \in T PROVE x <= y
  <2>1. <<y, x>> \in Nat \X Nat
    OBVIOUS
  <2>2. ~(y < x)
    BY <1>2, <2>1
  <2>3. QED
    BY <2>2
<1>4. QED
  BY <1>3

LEMMA QuotientIsNat ==
  ASSUME NEW a \in Nat, NEW b \in Nat \ {0}
  PROVE  a \div b \in Nat
OBVIOUS

LEMMA SetInduction ==
  ASSUME NEW n \in Nat, NEW S, 0 \in S, \A i \in 0 .. n - 1 : i \in S => i + 1 \in S
  PROVE  \A i \in 0 .. n : i \in S
<1> DEFINE T == {i \in 0 .. n : i \notin S}
<1>1. SUFFICES ASSUME T # {} PROVE FALSE
  OBVIOUS
<1>2. T \in SUBSET Nat
  OBVIOUS
<1>3. PICK x \in T : \A y \in T : x <= y
  <2> HIDE DEF T
  <2>1. QED
    BY <1>1, <1>2, LeastElement
<1>4. x \in 0 .. n /\ x \notin S /\ x # 0
  OBVIOUS
<1>5. x - 1 \in 0 .. n - 1 /\ x - 1 \in 0 .. n /\ ~(x <= x - 1) /\ (x - 1) + 1 = x
  BY <1>4
<1>6. x - 1 \in S
  BY <1>3, <1>5
<1>7. QED
  BY <1>4, <1>5, <1>6

LEMMA MinIsLeast ==
  ASSUME NEW T \in SUBSET Nat, T # {}
  PROVE  Min(T) \in T /\ \A y \in T : Min(T) <= y
<1>1. \E x \in T : \A y \in T : x <= y
  BY LeastElement
<1>2. QED
  BY <1>1 DEF Min

Messages == {"no", "Out of physical memory", "No contiguous frames", "Page Fault", "process table full"}
Entry == [frame : -1 .. FRAMES - 1, user : BOOLEAN]
Table == [Index -> Entry]
MemoryType == [used : SUBSET Frame, last_alloc : 0 .. FRAMES, table : [Frame -> Table], panic : Messages]

LEMMA FieldsOf ==
  ASSUME NEW m \in MemoryType
  PROVE  m.used \in SUBSET Frame /\ m.last_alloc \in 0 .. FRAMES /\ m.table \in [Frame -> Table] /\ m.panic \in Messages
BY DEF MemoryType

LEMMA PanickedType ==
  ASSUME NEW m \in MemoryType, NEW message \in Messages
  PROVE  /\ Panicked(m, message) \in MemoryType
         /\ Panicked(m, message).panic = message /\ Panicked(m, message).used = m.used
         /\ Panicked(m, message).table = m.table /\ Panicked(m, message).last_alloc = m.last_alloc
BY DEF Panicked, MemoryType

(* The probing visits every frame, whatever the hint: while one is free,   *)
(* the next fit is a free frame.                                           *)
LEMMA NextFitFree ==
  ASSUME NEW m \in MemoryType, m.used # Frame
  PROVE  NextFit(m) \in Frame /\ NextFit(m) \notin m.used
<1> DEFINE P == {i \in Frame : Probe(m, i) \notin m.used}
<1>1. m.last_alloc \in 0 .. FRAMES /\ m.used \subseteq Frame /\ FRAMES \in Nat \ {0}
  BY FrameAssumption, FieldsOf
<1>2. PICK f \in Frame : f \notin m.used
  BY <1>1
<1>3. P # {}
  <2>1. CASE f >= m.last_alloc
    <3>1. f - m.last_alloc \in Frame /\ m.last_alloc + (f - m.last_alloc) = f /\ f % FRAMES = f
      BY <1>1, <1>2, <2>1 DEF Frame
    <3>2. Probe(m, f - m.last_alloc) = f
      BY <3>1 DEF Probe
    <3>3. QED
      BY <1>2, <3>1, <3>2
  <2>2. CASE f < m.last_alloc
    <3> DEFINE i == f + FRAMES - m.last_alloc
    <3>1. i \in Frame /\ m.last_alloc + i = f + FRAMES /\ (f + FRAMES) % FRAMES = f
      BY <1>1, <1>2, <2>2 DEF Frame
    <3> HIDE DEF i
    <3>2. Probe(m, i) = f
      BY <3>1 DEF Probe
    <3>3. QED
      BY <1>2, <3>1, <3>2
  <2>3. QED
    BY <1>1, <1>2, <2>1, <2>2 DEF Frame
<1>4. Min(P) \in P
  <2>1. P \in SUBSET Nat
    BY <1>1 DEF Frame
  <2> HIDE DEF P
  <2>2. QED
    BY <1>3, <2>1, MinIsLeast
<1>5. NextFit(m) = Probe(m, Min(P)) /\ Min(P) \in Frame /\ Probe(m, Min(P)) \notin m.used
  BY <1>4 DEF NextFit
<1> HIDE DEF P
<1>6. Probe(m, Min(P)) \in Frame
  BY <1>1, <1>5 DEF Probe, Frame
<1>7. QED
  BY <1>5, <1>6

LEMMA TakeFrameTakes ==
  ASSUME NEW m \in MemoryType, m.panic = "no"
  PROVE  LET t == TakeFrame(m)
         IN /\ t \in MemoryType /\ t.table = m.table
            /\ t.panic = "no" => /\ NextFit(m) \in Frame \ m.used
                                 /\ t.used = m.used \cup {NextFit(m)}
            /\ t.panic # "no" => t.used = m.used
<1>1. CASE m.used = Frame
  <2>1. TakeFrame(m) = Panicked(m, "Out of physical memory")
    BY <1>1 DEF TakeFrame
  <2> DEFINE message == "Out of physical memory"
             p == Panicked(m, message)
  <2>2. message \in Messages /\ message # "no"
    BY DEF Messages
  <2> HIDE DEF message
  <2>3. p \in MemoryType /\ p.panic = message /\ p.table = m.table /\ p.used = m.used
    BY <2>2, PanickedType
  <2> HIDE DEF p
  <2>4. QED
    BY <2>1, <2>2, <2>3 DEF p, message
<1>2. CASE m.used # Frame
  <2> DEFINE f == NextFit(m)
             t == [m EXCEPT !.used = @ \cup {f}, !.last_alloc = f + 1]
  <2>1. f \in Frame \ m.used
    BY <1>2, NextFitFree
  <2>2. TakeFrame(m) = t
    BY <1>2 DEF TakeFrame
  <2> HIDE DEF f
  <2>3. f + 1 \in 0 .. FRAMES /\ m.used \cup {f} \in SUBSET Frame
    BY <2>1, FieldsOf, FrameAssumption DEF Frame
  <2>4. t \in MemoryType /\ t.table = m.table /\ t.panic = m.panic /\ t.used = m.used \cup {f}
    BY <2>3 DEF MemoryType
  <2>5. QED
    BY <2>1, <2>2, <2>4 DEF f
<1>3. QED
  BY <1>1, <1>2

LEMMA TakeRunTakes ==
  ASSUME NEW m \in MemoryType, m.panic = "no", NEW n \in Nat
  PROVE  LET t == TakeRun(m, n)
             b == Min(Runs(m, n))
         IN /\ t \in MemoryType /\ t.table = m.table
            /\ t.panic = "no" => /\ b \in Frame /\ n > 0 /\ b + n <= FRAMES
                                 /\ b .. b + n - 1 \subseteq Frame
                                 /\ (b .. b + n - 1) \cap m.used = {}
                                 /\ t.used = m.used \cup (b .. b + n - 1)
<1>1. CASE Runs(m, n) = {}
  <2>1. TakeRun(m, n) = Panicked(m, "No contiguous frames")
    BY <1>1 DEF TakeRun
  <2> DEFINE message == "No contiguous frames"
             p == Panicked(m, message)
  <2>2. message \in Messages /\ message # "no"
    BY DEF Messages
  <2> HIDE DEF message
  <2>3. p \in MemoryType /\ p.panic = message /\ p.table = m.table
    BY <2>2, PanickedType
  <2> HIDE DEF p
  <2>4. QED
    BY <2>1, <2>2, <2>3 DEF p, message
<1>2. CASE Runs(m, n) # {}
  <2> DEFINE b == Min(Runs(m, n))
             N == b .. b + n - 1
             t == [m EXCEPT !.used = @ \cup N]
  <2>1. b \in Runs(m, n)
    <3>1. Runs(m, n) \in SUBSET Nat
      BY FrameAssumption DEF Runs, Frame
    <3>2. QED
      BY <1>2, <3>1, MinIsLeast
  <2>2. b \in Frame /\ n > 0 /\ b + n <= FRAMES /\ N \cap m.used = {}
    BY <2>1 DEF Runs
  <2>3. TakeRun(m, n) = t
    BY <1>2 DEF TakeRun
  <2> HIDE DEF b
  <2>4. N \subseteq Frame
    BY <2>2, FrameAssumption DEF Frame
  <2>5. m.used \cup N \in SUBSET Frame
    BY <2>4, FieldsOf
  <2>6. t \in MemoryType /\ t.table = m.table /\ t.panic = m.panic /\ t.used = m.used \cup N
    <3> HIDE DEF N
    <3>1. QED
      BY <2>5 DEF MemoryType
  <2>7. QED
    BY <2>2, <2>3, <2>4, <2>6 DEF b
<1>3. QED
  BY <1>1, <1>2
-----------------------------------------------------------------------------
(* A page is where its two indices say. *)
LEMMA PageIndices ==
  ASSUME NEW page \in Pages
  PROVE  /\ PD_INDEX(page) \in Index /\ PT_INDEX(page) \in Index
         /\ page = ENTRIES * PD_INDEX(page) + PT_INDEX(page)
<1> DEFINE d == page \div ENTRIES  t == page % ENTRIES
<1>1. ENTRIES \in Nat \ {0} /\ page \in Nat /\ page < ENTRIES * ENTRIES
  BY FrameAssumption DEF Pages
<1>2. d \in Nat /\ t \in 0 .. ENTRIES - 1 /\ page = ENTRIES * d + t
  BY <1>1
<1> HIDE DEF d, t
<1>3. d < ENTRIES
  <2>1. SUFFICES ASSUME ENTRIES <= d PROVE FALSE
    BY <1>1, <1>2
  <2>2. ENTRIES * ENTRIES <= ENTRIES * d
    BY <1>1, <1>2, <2>1
  <2>3. QED
    BY <1>1, <1>2, <2>2
<1>4. QED
  BY <1>1, <1>2, <1>3 DEF PD_INDEX, PT_INDEX, Index, d, t

LEMMA PagesDiffer ==
  ASSUME NEW p \in Pages, NEW q \in Pages, PD_INDEX(p) = PD_INDEX(q), PT_INDEX(p) = PT_INDEX(q)
  PROVE  p = q
<1>1. p = ENTRIES * PD_INDEX(p) + PT_INDEX(p)
  BY PageIndices
<1>2. q = ENTRIES * PD_INDEX(q) + PT_INDEX(q)
  BY PageIndices
<1>3. QED
  BY <1>1, <1>2

LEMMA EntryType == /\ Absent \in Entry /\ NoTable \in Table
                   /\ \A f \in Frame, u \in BOOLEAN : [frame |-> f, user |-> u] \in Entry
BY FrameAssumption DEF Absent, NoTable, Entry, Table, Frame

(* r is m with one more entry in table pt, and one in directory pd if the  *)
(* table is new.                                                           *)
MapsTo(r, m, pd, page, frame, user, new, pt) ==
  LET d == PD_INDEX(page)
      t == PT_INDEX(page)
  IN /\ r \in MemoryType /\ r.used = m.used /\ r.panic = m.panic
     /\ \A f \in Frame \ {pd, pt} : r.table[f] = m.table[f]
     /\ \A i \in Index \ {d} : r.table[pd][i] = m.table[pd][i]
     /\ r.table[pd][d] = IF new THEN [frame |-> pt, user |-> user] ELSE m.table[pd][d]
     /\ \A j \in Index \ {t} : r.table[pt][j] = IF new THEN Absent ELSE m.table[pt][j]
     /\ r.table[pt][t] = [frame |-> frame, user |-> user]

LEMMA MappedEntries ==
  ASSUME NEW m \in MemoryType, NEW pd \in Frame, NEW pt \in Frame, pd # pt, NEW page \in Pages,
         NEW frame \in Frame, NEW user \in BOOLEAN, NEW new \in BOOLEAN
  PROVE  MapsTo(Mapped(m, pd, page, frame, user, new, pt), m, pd, page, frame, user, new, pt)
<1> DEFINE d == PD_INDEX(page)
           t == PT_INDEX(page)
           tb == m.table
           e == [frame |-> frame, user |-> user]
           below == [(IF new THEN NoTable ELSE tb[pt]) EXCEPT ![t] = e]
           above == [tb[pd] EXCEPT ![d] = IF new THEN [frame |-> pt, user |-> user] ELSE tb[pd][d]]
           tb2 == [tb EXCEPT ![pt] = below, ![pd] = above]
           r == [m EXCEPT !.table = tb2]
<1>1. d \in Index /\ t \in Index /\ tb \in [Frame -> Table] /\ e \in Entry /\ [frame |-> pt, user |-> user] \in Entry
  BY PageIndices, FieldsOf, EntryType
<1>2. Mapped(m, pd, page, frame, user, new, pt) = r
  <2>1. tb[pd] = [tb EXCEPT ![pt] = below][pd]
    BY <1>1
  <2>2. QED
    BY <1>1, <2>1 DEF Mapped
<1> HIDE DEF d, t, tb, e
<1>3. below \in Table /\ above \in Table
  BY <1>1, EntryType DEF Table
<1>4. /\ below[t] = e /\ \A j \in Index \ {t} : below[j] = IF new THEN Absent ELSE tb[pt][j]
  BY <1>1, EntryType DEF Table, NoTable
<1>5. /\ above[d] = (IF new THEN [frame |-> pt, user |-> user] ELSE tb[pd][d])
      /\ \A i \in Index \ {d} : above[i] = tb[pd][i]
  BY <1>1 DEF Table
<1> HIDE DEF below, above
<1>6. /\ tb2 \in [Frame -> Table] /\ tb2[pt] = below /\ tb2[pd] = above
      /\ \A f \in Frame \ {pd, pt} : tb2[f] = tb[f]
  BY <1>1, <1>3
<1> HIDE DEF tb2
<1>7. r \in MemoryType /\ r.used = m.used /\ r.panic = m.panic /\ r.table = tb2
  BY <1>6 DEF MemoryType
<1> HIDE DEF r
<1>8. QED
  BY <1>2, <1>4, <1>5, <1>6, <1>7 DEF MapsTo, d, t, tb, e

LEMMA FaultType ==
  ASSUME NEW m \in MemoryType
  PROVE  LET r == Panicked(m, "Page Fault")
         IN r \in MemoryType /\ r.used = m.used /\ r.table = m.table /\ r.panic = "Page Fault"
<1>1. "Page Fault" \in Messages
  BY DEF Messages
<1>2. QED
  BY <1>1, PanickedType

(* A mapping takes at most a frame for the table, and changes one entry of *)
(* the directory and one of the table.                                     *)
LEMMA MapPageMaps ==
  ASSUME NEW m \in MemoryType, m.panic = "no", NEW pd \in m.used, NEW page \in Pages,
         NEW frame \in Frame, NEW user \in BOOLEAN,
         m.table[pd][PD_INDEX(page)] # Absent => m.table[pd][PD_INDEX(page)].frame \in m.used \ {pd}
  PROVE  /\ vmm_map_page(m, pd, page, frame, user) \in MemoryType
         /\ vmm_map_page(m, pd, page, frame, user).panic # "no" =>
              /\ vmm_map_page(m, pd, page, frame, user).used = m.used
              /\ vmm_map_page(m, pd, page, frame, user).table = m.table
         /\ vmm_map_page(m, pd, page, frame, user).panic = "no" =>
              \/ /\ m.table[pd][PD_INDEX(page)] = Absent
                 /\ TakeFrame(m).panic = "no"
                 /\ NextFit(m) \in Frame \ m.used
                 /\ TakeFrame(m).used = m.used \cup {NextFit(m)} /\ TakeFrame(m).table = m.table
                 /\ MapsTo(vmm_map_page(m, pd, page, frame, user), TakeFrame(m), pd, page, frame, user, TRUE, NextFit(m))
              \/ /\ m.table[pd][PD_INDEX(page)] # Absent
                 /\ MapsTo(vmm_map_page(m, pd, page, frame, user), m, pd, page, frame, user, FALSE,
                           m.table[pd][PD_INDEX(page)].frame)
<1> DEFINE pde == m.table[pd][PD_INDEX(page)]
           r == vmm_map_page(m, pd, page, frame, user)
<1>1. m.used \subseteq Frame /\ pd \in Frame
  BY FieldsOf
<1>2. CASE pde = Absent
  <2> DEFINE a == TakeFrame(m)
             pt == NextFit(m)
             q == Mapped(a, pd, page, frame, user, TRUE, pt)
             fault == Panicked(m, "Page Fault")
  <2>1. /\ a \in MemoryType /\ a.table = m.table
        /\ a.panic = "no" => pt \in Frame \ m.used /\ a.used = m.used \cup {pt}
        /\ a.panic # "no" => a.used = m.used
    BY TakeFrameTakes
  <2>2. r = IF a.panic # "no" THEN a ELSE IF pt < DIRECT THEN q ELSE fault
    BY <1>2 DEF vmm_map_page, Reaching
  <2>3. CASE a.panic # "no"
    <3>1. r = a
      BY <2>2, <2>3
    <3> HIDE DEF a, r
    <3>2. QED
      BY <2>1, <2>3, <3>1 DEF r
  <2>4. CASE a.panic = "no" /\ pt < DIRECT
    <3>1. r = q /\ pt \in Frame /\ pd # pt
      BY <2>1, <2>2, <2>4
    <3> HIDE DEF a, r, pt
    <3>2. MapsTo(q, a, pd, page, frame, user, TRUE, pt)
      <4>1. a \in MemoryType /\ pd \in Frame /\ pt \in Frame /\ pd # pt /\ TRUE \in BOOLEAN
        BY <1>1, <2>1, <3>1
      <4> HIDE DEF pde
      <4>2. QED
        BY <4>1, MappedEntries, Zenon
    <3> HIDE DEF q
    <3>3. q \in MemoryType /\ q.panic = "no"
      BY <2>4, <3>2 DEF MapsTo
    <3>4. QED
      BY <1>2, <2>1, <2>4, <3>1, <3>2, <3>3 DEF r, a, pt
  <2>5. CASE a.panic = "no" /\ ~(pt < DIRECT)
    <3>1. r = fault
      BY <2>2, <2>5
    <3> HIDE DEF r
    <3>2. QED
      BY <3>1, FaultType DEF r
  <2>6. QED
    BY <2>3, <2>4, <2>5
<1>3. CASE pde # Absent
  <2> DEFINE pt == pde.frame
             q == Mapped(m, pd, page, frame, user, FALSE, pt)
             fault == Panicked(m, "Page Fault")
  <2>0. r = (IF pt < DIRECT THEN q ELSE fault) /\ pt \in Frame /\ pd # pt
    BY <1>1, <1>3 DEF vmm_map_page, Reaching
  <2> HIDE DEF r, pt
  <2>a. CASE ~(pt < DIRECT)
    <3>1. r = fault
      BY <2>0, <2>a
    <3>2. QED
      BY <3>1, FaultType DEF r
  <2>1. SUFFICES ASSUME pt < DIRECT, r = q, pt \in Frame, pd # pt
                 PROVE  /\ r \in MemoryType
                        /\ r.panic # "no" => r.used = m.used /\ r.table = m.table
                        /\ r.panic = "no" => MapsTo(r, m, pd, page, frame, user, FALSE, pt)
    BY <1>3, <2>0, <2>a DEF r, pt
  <2>2. MapsTo(q, m, pd, page, frame, user, FALSE, pt)
    BY <1>1, <2>1, MappedEntries
  <2> HIDE DEF q
  <2>3. q \in MemoryType /\ q.panic = "no"
    BY <2>2 DEF MapsTo
  <2>4. QED
    BY <2>1, <2>2, <2>3
<1>4. QED
  BY <1>2, <1>3

(* A new directory has the kernel's half and nothing else. *)
LEMMA CreatePdCopies ==
  ASSUME NEW m \in MemoryType, m.panic = "no"
  PROVE  LET r == vmm_create_user_pd(m)
             pd == NextFit(m)
         IN /\ r \in MemoryType
            /\ r.panic = "no" =>
                 /\ pd \in Frame \ m.used /\ r.used = m.used \cup {pd}
                 /\ \A f \in Frame \ {pd} : r.table[f] = m.table[f]
                 /\ \A i \in Index : r.table[pd][i] = IF i >= KERNEL_PDE THEN m.table[kernel_pd][i] ELSE Absent
<1> DEFINE r == vmm_create_user_pd(m)
           a == TakeFrame(m)
           pd == NextFit(m)
           half == [i \in Index |-> IF i >= KERNEL_PDE THEN m.table[kernel_pd][i] ELSE Absent]
           q == [a EXCEPT !.table[pd] = half]
<1>1. /\ a \in MemoryType /\ a.table = m.table
      /\ a.panic = "no" => pd \in Frame \ m.used /\ a.used = m.used \cup {pd}
  BY TakeFrameTakes
<1>2. half \in Table
  <2>1. kernel_pd \in Frame
    BY FrameAssumption DEF kernel_pd, Frame
  <2>2. m.table[kernel_pd] \in Table
    BY <2>1, FieldsOf
  <2>3. QED
    BY <2>2, EntryType DEF Table
<1>3. CASE m.used = Frame
  <2>1. r = a /\ a.panic = "Out of physical memory"
    <3>1. a = Panicked(m, "Out of physical memory") /\ r = a
      BY <1>3 DEF TakeFrame, vmm_create_user_pd
    <3>2. "Out of physical memory" \in Messages
      BY DEF Messages
    <3>3. QED
      BY <3>1, <3>2, PanickedType
  <2> HIDE DEF r, a
  <2>2. QED
    BY <1>1, <2>1 DEF r
<1>4. CASE m.used # Frame
  <2>0. r = IF pd < DIRECT THEN q ELSE Panicked(m, "Page Fault")
    BY <1>4 DEF vmm_create_user_pd, Reaching
  <2>a. CASE ~(pd < DIRECT)
    <3> DEFINE fault == Panicked(m, "Page Fault")
    <3>1. r = fault
      BY <2>0, <2>a
    <3>2. fault \in MemoryType /\ fault.panic = "Page Fault"
      BY FaultType
    <3> HIDE DEF r, fault
    <3>3. QED
      BY <3>1, <3>2 DEF r
  <2>b. SUFFICES ASSUME pd < DIRECT
                 PROVE  /\ r \in MemoryType
                        /\ r.panic = "no" =>
                             /\ pd \in Frame \ m.used /\ r.used = m.used \cup {pd}
                             /\ \A f \in Frame \ {pd} : r.table[f] = m.table[f]
                             /\ \A i \in Index : r.table[pd][i] = IF i >= KERNEL_PDE THEN m.table[kernel_pd][i] ELSE Absent
    BY <2>a
  <2>1. r = q
    BY <2>0, <2>b
  <2>2. a.panic = "no"
    BY <1>4 DEF TakeFrame, MemoryType
  <2> HIDE DEF r, a, pd, half
  <2>3. a.table \in [Frame -> Table] /\ pd \in Frame
    BY <1>1, <2>2, FieldsOf
  <2> DEFINE tb == a.table
             tb2 == [tb EXCEPT ![pd] = half]
  <2>4. tb2 \in [Frame -> Table] /\ tb2[pd] = half /\ \A f \in Frame \ {pd} : tb2[f] = tb[f]
    BY <1>2, <2>3
  <2>5. q = [a EXCEPT !.table = tb2]
    BY <1>1 DEF MemoryType
  <2> HIDE DEF tb2
  <2>6. q \in MemoryType /\ q.used = a.used /\ q.panic = a.panic /\ q.table = tb2
    BY <1>1, <2>4, <2>5 DEF MemoryType
  <2> HIDE DEF q
  <2>7. \A i \in Index : half[i] = IF i >= KERNEL_PDE THEN m.table[kernel_pd][i] ELSE Absent
    BY DEF half
  <2>8. QED
    BY <1>1, <2>1, <2>2, <2>4, <2>6, <2>7 DEF r, pd
<1>5. QED
  BY <1>3, <1>4

LEMMA UnmapClears ==
  ASSUME NEW m \in MemoryType, NEW pd \in Frame, NEW page \in Pages,
         m.table[pd][PD_INDEX(page)] # Absent => m.table[pd][PD_INDEX(page)].frame \in Frame
  PROVE  LET r == vmm_unmap_page(m, pd, page)
             pde == m.table[pd][PD_INDEX(page)]
         IN /\ r \in MemoryType /\ r.used = m.used
            /\ \A f \in Frame : (pde # Absent => f # pde.frame) => r.table[f] = m.table[f]
            /\ \A f \in Frame, j \in Index : r.table[f][j] \in {Absent, m.table[f][j]}
<1> DEFINE pde == m.table[pd][PD_INDEX(page)]
           r == vmm_unmap_page(m, pd, page)
<1>1. CASE pde = Absent
  <2>1. r = m
    BY <1>1 DEF vmm_unmap_page
  <2>2. QED
    BY <2>1
<1>2. CASE pde # Absent
  <2> DEFINE pt == pde.frame
             t == PT_INDEX(page)
             tb == m.table
             cleared == [tb[pt] EXCEPT ![t] = Absent]
             tb2 == [tb EXCEPT ![pt] = cleared]
  <2>1. pt \in Frame /\ t \in Index /\ tb \in [Frame -> Table]
    BY <1>2, PageIndices, FieldsOf
  <2>a. r = IF pt < DIRECT THEN [m EXCEPT !.table = tb2] ELSE Panicked(m, "Page Fault")
    BY <1>2 DEF vmm_unmap_page, Reaching
  <2>b. CASE ~(pt < DIRECT)
    <3>1. r \in MemoryType /\ r.used = m.used /\ r.table = m.table
      BY <2>a, <2>b, FaultType
    <3>2. QED
      BY <3>1
  <2>c. SUFFICES ASSUME pt < DIRECT
                 PROVE  /\ r \in MemoryType /\ r.used = m.used
                        /\ \A f \in Frame : (pde # Absent => f # pde.frame) => r.table[f] = m.table[f]
                        /\ \A f \in Frame, j \in Index : r.table[f][j] \in {Absent, m.table[f][j]}
    BY <2>b
  <2>2. r = [m EXCEPT !.table = tb2]
    BY <2>a, <2>c
  <2> HIDE DEF pt, t, tb, pde
  <2>3. cleared \in Table /\ \A j \in Index : cleared[j] \in {Absent, tb[pt][j]}
    BY <2>1, EntryType DEF Table
  <2> HIDE DEF cleared
  <2>4. tb2 \in [Frame -> Table] /\ tb2[pt] = cleared /\ \A f \in Frame : f # pt => tb2[f] = tb[f]
    BY <2>1, <2>3
  <2> HIDE DEF tb2, r
  <2>5. r \in MemoryType /\ r.used = m.used /\ r.panic = m.panic /\ r.table = tb2
    BY <2>2, <2>4 DEF MemoryType
  <2>6. \A f \in Frame, j \in Index : tb2[f][j] \in {Absent, tb[f][j]}
    <3> SUFFICES ASSUME NEW f \in Frame, NEW j \in Index PROVE tb2[f][j] \in {Absent, tb[f][j]}
      OBVIOUS
    <3>1. CASE f = pt
      BY <2>3, <2>4, <3>1
    <3>2. CASE f # pt
      BY <2>4, <3>2
    <3>3. QED
      BY <3>1, <3>2
  <2>7. QED
    BY <1>2, <2>4, <2>5, <2>6 DEF r, pt, tb, pde
<1>3. QED
  BY <1>1, <1>2

-----------------------------------------------------------------------------
(* Loops.  The recursive functions of heap_alloc_pages, heap_init and      *)
(* MapUser satisfy their equations.                                       *)

GrowStep(k) == IF k.mem.panic # "no" THEN k ELSE OnePage(k)
SlabStep(k, c) == IF k.mem.panic # "no" THEN k ELSE AddSlab(k, c)
MapStep(m, pd, page, base, i) ==
  IF m.panic # "no" THEN m ELSE vmm_map_page(m, pd, page + i - 1, base + i - 1, TRUE)

Advance(loop, x, i) == IF loop[1] = "pages" THEN GrowStep(x)
                       ELSE IF loop[1] = "slabs" THEN SlabStep(x, i)
                       ELSE MapStep(x, loop[2], loop[3], loop[4], i)

Loop(loop, x, n) == CHOOSE g : g = [i \in 0 .. n |-> IF i = 0 THEN x ELSE Advance(loop, g[i - 1], i)]

LEMMA LoopExists ==
  ASSUME NEW loop, NEW k, NEW n \in Nat
  PROVE  \E g : g = [i \in 0 .. n |-> IF i = 0 THEN k ELSE Advance(loop, g[i - 1], i)]
<1> DEFINE P(m) == \E g : g = [i \in 0 .. m |-> IF i = 0 THEN k ELSE Advance(loop, g[i - 1], i)]
           T == {m \in Nat : ~P(m)}
<1>1. SUFFICES ASSUME T # {} PROVE FALSE
  OBVIOUS
<1>2. PICK x \in T : \A y \in T : x <= y
  <2>1. T \in SUBSET Nat
    OBVIOUS
  <2> HIDE DEF T
  <2>2. QED
    BY <1>1, <2>1, LeastElement
<1>3. CASE x = 0
  <2> DEFINE g == [i \in 0 .. 0 |-> k]
  <2>1. g = [i \in 0 .. 0 |-> IF i = 0 THEN k ELSE Advance(loop, g[i - 1], i)]
    OBVIOUS
  <2>2. P(0)
    BY <2>1
  <2>3. QED
    BY <1>2, <1>3, <2>2
<1>4. CASE x # 0
  <2>1. x \in Nat /\ x - 1 \in Nat /\ ~(x <= x - 1)
    BY <1>2, <1>4
  <2>2. P(x - 1)
    BY <1>2, <2>1
  <2>3. PICK g : g = [i \in 0 .. x - 1 |-> IF i = 0 THEN k ELSE Advance(loop, g[i - 1], i)]
    BY <2>2
  <2> DEFINE h == [i \in 0 .. x |-> IF i = x THEN Advance(loop, g[x - 1], x) ELSE g[i]]
  <2>4. ASSUME NEW i \in 0 .. x
        PROVE  h[i] = IF i = 0 THEN k ELSE Advance(loop, h[i - 1], i)
    <3>1. CASE i = x
      <4>1. h[i] = Advance(loop, g[x - 1], x)
        BY <3>1
      <4>2. x - 1 \in 0 .. x /\ x - 1 # x
        BY <2>1
      <4>3. h[x - 1] = g[x - 1]
        BY <4>2
      <4>4. QED
        BY <1>4, <3>1, <4>1, <4>3
    <3>2. CASE i # x /\ i # 0
      <4>1. i \in 0 .. x - 1 /\ i - 1 \in 0 .. x /\ i - 1 # x
        BY <2>1, <3>2
      <4>2. h[i] = g[i] /\ h[i - 1] = g[i - 1]
        BY <3>2, <4>1
      <4>3. g[i] = Advance(loop, g[i - 1], i)
        BY <2>3, <3>2, <4>1
      <4>4. QED
        BY <3>2, <4>2, <4>3
    <3>3. CASE i = 0
      <4>1. h[0] = g[0] /\ 0 \in 0 .. x - 1
        BY <1>4, <2>1, <3>3
      <4>2. g[0] = k
        BY <2>3, <4>1
      <4>3. QED
        BY <3>3, <4>1, <4>2
    <3>4. QED
      BY <3>1, <3>2, <3>3
  <2>5. h = [i \in 0 .. x |-> IF i = 0 THEN k ELSE Advance(loop, h[i - 1], i)]
    <3>1. h = [i \in 0 .. x |-> h[i]]
      OBVIOUS
    <3> HIDE DEF h
    <3>2. QED
      BY <2>4, <3>1
  <2>6. P(x)
    BY <2>5
  <2>7. QED
    BY <1>2, <2>6
<1>5. QED
  BY <1>3, <1>4

LEMMA LoopEquations ==
  ASSUME NEW loop, NEW k, NEW n \in Nat
  PROVE  /\ Loop(loop, k, n)[0] = k
         /\ \A i \in 1 .. n : Loop(loop, k, n)[i] = Advance(loop, Loop(loop, k, n)[i - 1], i)
<1> DEFINE g == Loop(loop, k, n)
<1>1. g = [i \in 0 .. n |-> IF i = 0 THEN k ELSE Advance(loop, g[i - 1], i)]
  BY LoopExists DEF Loop
<1> HIDE DEF g
<1>2. g[0] = k
  BY <1>1
<1>3. \A i \in 1 .. n : g[i] = Advance(loop, g[i - 1], i)
  BY <1>1
<1>4. QED
  BY <1>2, <1>3 DEF g

LEMMA PagesAreLoop ==
  ASSUME NEW k, NEW n
  PROVE  heap_alloc_pages(k, n) = Loop(<<"pages">>, k, n)[n]
<1>1. heap_alloc_pages(k, n) = (CHOOSE g : g = [i \in 0 .. n |-> IF i = 0 THEN k ELSE GrowStep(g[i - 1])])[n]
  BY DEF heap_alloc_pages, GrowStep
<1>2. \A x, i : Advance(<<"pages">>, x, i) = GrowStep(x)
  BY DEF Advance
<1>3. Loop(<<"pages">>, k, n) = CHOOSE g : g = [i \in 0 .. n |-> IF i = 0 THEN k ELSE GrowStep(g[i - 1])]
  BY <1>2 DEF Loop
<1>4. QED
  BY <1>1, <1>3

LEMMA MapUserIsLoop ==
  ASSUME NEW m, NEW pd, NEW page, NEW base, NEW n
  PROVE  MapUser(m, pd, page, base, n) = Loop(<<"map", pd, page, base>>, m, n)[n]
<1>1. MapUser(m, pd, page, base, n) =
        (CHOOSE g : g = [i \in 0 .. n |-> IF i = 0 THEN m ELSE MapStep(g[i - 1], pd, page, base, i)])[n]
  BY DEF MapUser, MapStep
<1>2. \A x, i : Advance(<<"map", pd, page, base>>, x, i) = MapStep(x, pd, page, base, i)
  BY DEF Advance
<1>3. Loop(<<"map", pd, page, base>>, m, n) =
        CHOOSE g : g = [i \in 0 .. n |-> IF i = 0 THEN m ELSE MapStep(g[i - 1], pd, page, base, i)]
  BY <1>2 DEF Loop
<1>4. QED
  BY <1>1, <1>3

EmptyHeap == [cursor |-> 0, free_list |-> [c \in Cache |-> <<>>], magic |-> {}, live |-> {}]

LEMMA SlabsAreLoop ==
  ASSUME NEW m
  PROVE  heap_init(m) = Loop(<<"slabs">>, Kernel(m, EmptyHeap), Len(SLAB_SIZES))[Len(SLAB_SIZES)]
<1> DEFINE k == Kernel(m, EmptyHeap)
           n == Len(SLAB_SIZES)
<1>1. heap_init(m) = (CHOOSE g : g = [c \in 0 .. n |-> IF c = 0 THEN k ELSE SlabStep(g[c - 1], c)])[n]
  BY DEF heap_init, SlabStep, EmptyHeap
<1> HIDE DEF k, n
<1>2. \A x, i : Advance(<<"slabs">>, x, i) = SlabStep(x, i)
  BY DEF Advance
<1>3. Loop(<<"slabs">>, k, n) = CHOOSE g : g = [c \in 0 .. n |-> IF c = 0 THEN k ELSE SlabStep(g[c - 1], c)]
  BY <1>2 DEF Loop
<1>4. QED
  BY <1>1, <1>3 DEF k, n
-----------------------------------------------------------------------------
(* Owners.  A frame has one owner, given by a function o from frames to    *)
(* keys; each part of memory says that its frames are in use and have its  *)
(* key, so that two parts share none.                                      *)

(* An owner is a kind of use and which one of that kind. *)
Is(owner, kind, number) == owner.kind = kind /\ owner.at = number

(* The pages the heap may grow to. *)
HeapRoom == (ENTRIES - HEAP_PDE) * ENTRIES

LEMMA HeapEntry == HEAP_PDE \in Nat /\ HEAP_PDE < ENTRIES /\ ENTRIES \in Nat \ {0}
BY FrameAssumption, GrowthAssumption

LEMMA HeapPageIsPage ==
  ASSUME NEW g \in 0 .. HeapRoom - 1
  PROVE  HEAP_VIRT_BASE + g \in Pages
<1>1. ENTRIES \in Nat \ {0} /\ HEAP_PDE \in Nat /\ HEAP_PDE < ENTRIES
  BY HeapEntry
<1>2. HeapRoom = ENTRIES * ENTRIES - HEAP_PDE * ENTRIES /\ HEAP_PDE * ENTRIES \in Nat /\ ENTRIES * ENTRIES \in Nat
  BY <1>1 DEF HeapRoom
<1>3. HeapRoom \in Int /\ g \in Int /\ 0 <= g /\ g < HeapRoom
  BY <1>2
<1>4. QED
  BY <1>2, <1>3 DEF HEAP_VIRT_BASE, Pages

(* Pages from the heap's first on have the heap's entries, those below it  *)
(* others, and the same for the kernel's half.                             *)
LEMMA EntryOfPage ==
  ASSUME NEW page \in Pages
  PROVE  /\ page >= HEAP_PDE * ENTRIES => PD_INDEX(page) >= HEAP_PDE
         /\ page < HEAP_PDE * ENTRIES => PD_INDEX(page) < HEAP_PDE
         /\ page < KERNEL_PDE * ENTRIES => PD_INDEX(page) < KERNEL_PDE
<1> DEFINE d == PD_INDEX(page)
           t == PT_INDEX(page)
<1>1. ENTRIES \in Nat \ {0} /\ KERNEL_PDE \in Nat /\ HEAP_PDE \in Nat
  BY FrameAssumption, HeapEntry
<1>2. d \in Index /\ t \in Index /\ page = ENTRIES * d + t
  BY PageIndices
<1> HIDE DEF d, t
<1>3. d \in Nat /\ t \in Nat /\ t < ENTRIES
  BY <1>1, <1>2 DEF Index
<1>4. ASSUME NEW e \in Nat PROVE e <= d => e * ENTRIES <= page
  <2>1. e <= d => e * ENTRIES <= ENTRIES * d
    BY <1>1, <1>3
  <2>2. ENTRIES * d \in Nat /\ e * ENTRIES \in Nat
    BY <1>1, <1>3
  <2>3. QED
    BY <1>2, <1>3, <2>1, <2>2
<1>5. ASSUME NEW e \in Nat PROVE d < e => page < e * ENTRIES
  <2>1. d < e => ENTRIES * d + ENTRIES <= e * ENTRIES
    BY <1>1, <1>3
  <2>2. ENTRIES * d \in Nat /\ e * ENTRIES \in Nat
    BY <1>1, <1>3
  <2>3. QED
    BY <1>1, <1>2, <1>3, <2>1, <2>2
<1>6. page \in Nat
  BY <1>1 DEF Pages
<1>7. HEAP_PDE * ENTRIES \in Nat /\ KERNEL_PDE * ENTRIES \in Nat
  BY <1>1
<1>8. QED
  BY <1>1, <1>3, <1>4, <1>5, <1>6, <1>7 DEF d

KernelOK(m, o) ==
  /\ kernel_pd \in m.used /\ Is(o[kernel_pd], "directory", 0)
  /\ \A i \in Index : m.table[kernel_pd][i] # Absent =>
       /\ m.table[kernel_pd][i].frame \in m.used
       /\ Is(o[m.table[kernel_pd][i].frame], "kernel tables", i)
       /\ ~m.table[kernel_pd][i].user
       /\ i >= HEAP_PDE

HeapPage(m, g) == vmm_virt_to_phys(m, kernel_pd, HEAP_VIRT_BASE + g)

HeapPagesOK(m, n, o) ==
  \A g \in 0 .. n - 1 : HeapPage(m, g) \in m.used /\ Is(o[HeapPage(m, g)], "heap", g)

DirectoryOK(m, s, pd, ustack, o) ==
  /\ pd \in m.used /\ Is(o[pd], "user directory", s)
  /\ \A i \in Index : i >= KERNEL_PDE => m.table[pd][i] \in {Absent, m.table[kernel_pd][i]}
  /\ \A i \in Index : i < KERNEL_PDE /\ m.table[pd][i] # Absent =>
       /\ m.table[pd][i].frame \in m.used
       /\ Is(o[m.table[pd][i].frame], "user tables", s)
       /\ \A j \in Index : m.table[m.table[pd][i].frame][j].user => m.table[m.table[pd][i].frame][j].frame \in ustack

FramesOK(m, frames, kind, number, o) == \A f \in frames : f \in m.used /\ Is(o[f], kind, number)

ProcessOK(m, s, p, o) ==
  /\ FramesOK(m, p.kstack, "kernel stack", s, o)
  /\ FramesOK(m, p.ustack, "user stack", s, o)
  /\ p.ring = 3 => DirectoryOK(m, s, p.page_dir, p.ustack \cup p.granted, o)

(* m2 keeps every frame that m uses, and the tables of every process but   *)
(* that in slot x; the kernel's directory may gain entries.                *)
Extends(m, o, m2, o2, x) ==
  /\ \A f \in m.used : f \in m2.used /\ o2[f] = o[f]
  /\ \A f \in m.used : o[f].kind \in {"user directory", "user tables"} /\ o[f].at # x => m2.table[f] = m.table[f]
  /\ \A i \in Index : m.table[kernel_pd][i] # Absent => m2.table[kernel_pd][i] = m.table[kernel_pd][i]

LEMMA ExtendsSelf ==
  ASSUME NEW m, NEW o, NEW x
  PROVE  Extends(m, o, m, o, x)
BY DEF Extends

LEMMA ExtendsTransitive ==
  ASSUME NEW a, NEW oa, NEW b, NEW ob, NEW c, NEW oc, NEW x,
         Extends(a, oa, b, ob, x), Extends(b, ob, c, oc, x)
  PROVE  Extends(a, oa, c, oc, x)
<1>1. \A f \in a.used : f \in c.used /\ oc[f] = oa[f]
  BY DEF Extends
<1>2. \A f \in a.used : oa[f].kind \in {"user directory", "user tables"} /\ oa[f].at # x => c.table[f] = a.table[f]
  <2> SUFFICES ASSUME NEW f \in a.used, oa[f].kind \in {"user directory", "user tables"}, oa[f].at # x
               PROVE  c.table[f] = a.table[f]
    OBVIOUS
  <2>1. f \in b.used /\ ob[f] = oa[f] /\ b.table[f] = a.table[f]
    BY DEF Extends
  <2>2. c.table[f] = b.table[f]
    BY <2>1 DEF Extends
  <2>3. QED
    BY <2>1, <2>2
<1>3. \A i \in Index : a.table[kernel_pd][i] # Absent => c.table[kernel_pd][i] = a.table[kernel_pd][i]
  BY DEF Extends
<1>4. QED
  BY <1>1, <1>2, <1>3 DEF Extends

LEMMA DirectoryExtends ==
  ASSUME NEW m, NEW o, NEW m2, NEW o2, NEW x, Extends(m, o, m2, o2, x),
         NEW s, s # x, NEW pd, NEW u, DirectoryOK(m, s, pd, u, o)
  PROVE  DirectoryOK(m2, s, pd, u, o2)
<1>1. pd \in m.used /\ Is(o[pd], "user directory", s)
  BY DEF DirectoryOK
<1>2. o[pd].kind = "user directory" /\ o[pd].at # x
  BY <1>1 DEF Is
<1>3. pd \in m2.used /\ Is(o2[pd], "user directory", s) /\ m2.table[pd] = m.table[pd]
  BY <1>1, <1>2 DEF Extends
<1>4. \A i \in Index : i >= KERNEL_PDE => m2.table[pd][i] \in {Absent, m2.table[kernel_pd][i]}
  BY <1>3 DEF DirectoryOK, Extends
<1>5. ASSUME NEW i \in Index, i < KERNEL_PDE, m2.table[pd][i] # Absent
      PROVE  /\ m2.table[pd][i].frame \in m2.used
             /\ Is(o2[m2.table[pd][i].frame], "user tables", s)
             /\ \A j \in Index : m2.table[m2.table[pd][i].frame][j].user => m2.table[m2.table[pd][i].frame][j].frame \in u
  <2> DEFINE f == m.table[pd][i].frame
  <2>1. m2.table[pd][i].frame = f
    BY <1>3
  <2>2. f \in m.used /\ Is(o[f], "user tables", s) /\ \A j \in Index : m.table[f][j].user => m.table[f][j].frame \in u
    BY <1>3, <1>5 DEF DirectoryOK
  <2> HIDE DEF f
  <2>3. o[f].kind = "user tables" /\ o[f].at # x
    BY <2>2 DEF Is
  <2>4. f \in m2.used /\ Is(o2[f], "user tables", s) /\ m2.table[f] = m.table[f]
    BY <2>2, <2>3 DEF Extends
  <2>5. QED
    BY <2>1, <2>2, <2>4
<1>6. QED
  BY <1>3, <1>4, <1>5 DEF DirectoryOK

LEMMA ProcessExtends ==
  ASSUME NEW m, NEW o, NEW m2, NEW o2, NEW x, Extends(m, o, m2, o2, x),
         NEW s, s # x, NEW p, ProcessOK(m, s, p, o)
  PROVE  ProcessOK(m2, s, p, o2)
<1>1. FramesOK(m2, p.kstack, "kernel stack", s, o2) /\ FramesOK(m2, p.ustack, "user stack", s, o2)
  BY DEF ProcessOK, FramesOK, Extends
<1>2. ASSUME p.ring = 3 PROVE DirectoryOK(m2, s, p.page_dir, p.ustack \cup p.granted, o2)
  <2> DEFINE pd == p.page_dir
             u == p.ustack \cup p.granted
  <2>1. DirectoryOK(m, s, pd, u, o)
    BY <1>2 DEF ProcessOK
  <2> HIDE DEF pd, u
  <2>2. DirectoryOK(m2, s, pd, u, o2)
    BY <2>1, DirectoryExtends
  <2>3. QED
    BY <2>2 DEF pd, u
<1>3. QED
  BY <1>1, <1>2 DEF ProcessOK

LEMMA FramesExtend ==
  ASSUME NEW m, NEW o, NEW m2, NEW o2, NEW x, Extends(m, o, m2, o2, x), NEW F, NEW kind, NEW n, FramesOK(m, F, kind, n, o)
  PROVE  FramesOK(m2, F, kind, n, o2)
BY DEF FramesOK, Extends

(* Every frame in use keeps its owner and, of those that hold kernel       *)
(* tables or of all, its content.                                          *)
KernelKept(m, o, m2, o2) ==
  \A f \in m.used : /\ f \in m2.used /\ o2[f] = o[f]
                    /\ o[f].kind \in {"directory", "kernel tables"} => m2.table[f] = m.table[f]

Kept(m, o, m2, o2) == \A f \in m.used : f \in m2.used /\ o2[f] = o[f] /\ m2.table[f] = m.table[f]

LEMMA KernelStays ==
  ASSUME NEW m, NEW o, NEW m2, NEW o2, KernelOK(m, o), NEW n \in 0 .. HeapRoom, HeapPagesOK(m, n, o),
         KernelKept(m, o, m2, o2), m.used \subseteq Frame
  PROVE  KernelOK(m2, o2) /\ HeapPagesOK(m2, n, o2) /\ m2.table[kernel_pd] = m.table[kernel_pd]
<1>1. kernel_pd \in m.used /\ m2.table[kernel_pd] = m.table[kernel_pd] /\ -1 \notin m.used
  <2>1. -1 \notin Frame
    BY FrameAssumption DEF Frame
  <2>2. QED
    BY <2>1 DEF KernelOK, KernelKept, Is
<1>2. KernelOK(m2, o2)
  BY <1>1 DEF KernelOK, KernelKept
<1>3. ASSUME NEW g \in 0 .. n - 1 PROVE HeapPage(m2, g) = HeapPage(m, g)
  <2> DEFINE page == HEAP_VIRT_BASE + g
             e == m.table[kernel_pd][PD_INDEX(page)]
  <2>1. HeapPage(m, g) \in m.used
    BY DEF HeapPagesOK
  <2>2. e # Absent
    BY <1>1, <2>1 DEF HeapPage, vmm_virt_to_phys
  <2>3. PD_INDEX(page) \in Index
    <3>1. g \in 0 .. HeapRoom - 1
      BY HeapEntry DEF HeapRoom
    <3>2. QED
      BY <3>1, HeapPageIsPage, PageIndices
  <2>4. e.frame \in m.used /\ o[e.frame].kind = "kernel tables"
    BY <2>2, <2>3 DEF KernelOK, Is
  <2>5. m2.table[e.frame] = m.table[e.frame]
    BY <2>4 DEF KernelKept
  <2>6. QED
    BY <1>1, <2>2, <2>5 DEF HeapPage, vmm_virt_to_phys
<1>4. HeapPagesOK(m2, n, o2)
  BY <1>3 DEF HeapPagesOK, KernelKept
<1>5. QED
  BY <1>1, <1>2, <1>4

LEMMA KernelExtends ==
  ASSUME NEW m, NEW o, NEW m2, NEW o2, KernelOK(m, o), NEW n \in 0 .. HeapRoom, HeapPagesOK(m, n, o),
         Kept(m, o, m2, o2), m.used \subseteq Frame, NEW x
  PROVE  KernelOK(m2, o2) /\ HeapPagesOK(m2, n, o2) /\ Extends(m, o, m2, o2, x)
<1>1. KernelKept(m, o, m2, o2)
  BY DEF Kept, KernelKept
<1>2. KernelOK(m2, o2) /\ HeapPagesOK(m2, n, o2)
  BY <1>1, KernelStays
<1>3. kernel_pd \in m.used
  BY DEF KernelOK
<1>4. Extends(m, o, m2, o2, x)
  BY <1>3 DEF Kept, Extends
<1>5. QED
  BY <1>2, <1>4

LEMMA KernelSame ==
  ASSUME NEW m, NEW o, NEW m2, KernelOK(m, o), NEW n \in 0 .. HeapRoom, HeapPagesOK(m, n, o),
         m.used \subseteq m2.used, m2.table = m.table, m.used \subseteq Frame, NEW x
  PROVE  KernelOK(m2, o) /\ HeapPagesOK(m2, n, o) /\ Extends(m, o, m2, o, x)
<1>1. Kept(m, o, m2, o)
  BY DEF Kept
<1>2. QED
  BY <1>1, KernelExtends
-----------------------------------------------------------------------------
(* The heap's next page: one frame, and one more if its table is new. *)
LEMMA PageMapped ==
  ASSUME NEW m \in MemoryType, m.panic = "no", NEW n \in 0 .. HeapRoom - 1, NEW o, NEW x,
         KernelOK(m, o), HeapPagesOK(m, n, o),
         NEW a, a = TakeFrame(m), a.panic = "no",
         NEW b, b = vmm_map_page(a, kernel_pd, HEAP_VIRT_BASE + n, NextFit(m), FALSE)
  PROVE  /\ b \in MemoryType
         /\ b.panic # "no" => KernelOK(b, o) /\ HeapPagesOK(b, n, o) /\ Extends(m, o, b, o, x)
         /\ b.panic = "no" => \E o2 : KernelOK(b, o2) /\ HeapPagesOK(b, n + 1, o2) /\ Extends(m, o, b, o2, x)
<1> DEFINE f0 == NextFit(m)
           page == HEAP_VIRT_BASE + n
           d == PD_INDEX(page)
           t == PT_INDEX(page)
<1>1. /\ a \in MemoryType /\ a.table = m.table /\ f0 \in Frame \ m.used /\ a.used = m.used \cup {f0}
  BY TakeFrameTakes
<1>2. m.used \subseteq Frame /\ a.used \subseteq Frame /\ m.table \in [Frame -> Table]
  BY <1>1, FieldsOf
<1>3. page \in Pages /\ d \in Index /\ t \in Index
  BY HeapPageIsPage, PageIndices
<1>3a. d >= HEAP_PDE
  <2>1. page \in Pages /\ page >= HEAP_PDE * ENTRIES
    BY <1>3, HeapEntry DEF HEAP_VIRT_BASE, HeapRoom
  <2> HIDE DEF page
  <2>2. QED
    BY <2>1, EntryOfPage
<1>4. kernel_pd \in m.used /\ Is(o[kernel_pd], "directory", 0)
  BY DEF KernelOK
<1> HIDE DEF f0
<1>5. m.table[kernel_pd][d] # Absent =>
        /\ m.table[kernel_pd][d].frame \in m.used /\ Is(o[m.table[kernel_pd][d].frame], "kernel tables", d)
        /\ ~m.table[kernel_pd][d].user /\ m.table[kernel_pd][d].frame # kernel_pd
  BY <1>3, <1>4 DEF KernelOK, Is
<1>6. a.table[kernel_pd][d] # Absent => a.table[kernel_pd][d].frame \in a.used \ {kernel_pd}
  BY <1>1, <1>5
<1>7. /\ b \in MemoryType
      /\ b.panic # "no" => b.used = a.used /\ b.table = a.table
      /\ b.panic = "no" =>
           \/ /\ a.table[kernel_pd][d] = Absent
              /\ NextFit(a) \in Frame \ a.used
              /\ TakeFrame(a).used = a.used \cup {NextFit(a)} /\ TakeFrame(a).table = a.table
              /\ MapsTo(b, TakeFrame(a), kernel_pd, page, f0, FALSE, TRUE, NextFit(a))
           \/ /\ a.table[kernel_pd][d] # Absent
              /\ MapsTo(b, a, kernel_pd, page, f0, FALSE, FALSE, a.table[kernel_pd][d].frame)
  <2>1. a \in MemoryType /\ kernel_pd \in a.used /\ f0 \in Frame /\ FALSE \in BOOLEAN /\ page \in Pages
    BY <1>1, <1>3, <1>4
  <2>2. b = vmm_map_page(a, kernel_pd, page, f0, FALSE)
    BY DEF f0
  <2>3. a.table[kernel_pd][PD_INDEX(page)] # Absent => a.table[kernel_pd][PD_INDEX(page)].frame \in a.used \ {kernel_pd}
    BY <1>6
  <2> DEFINE c == vmm_map_page(a, kernel_pd, page, f0, FALSE)
  <2> HIDE DEF page
  <2>4. /\ c \in MemoryType
        /\ c.panic # "no" => c.used = a.used /\ c.table = a.table
        /\ c.panic = "no" =>
             \/ /\ a.table[kernel_pd][PD_INDEX(page)] = Absent
                /\ TakeFrame(a).panic = "no"
                /\ NextFit(a) \in Frame \ a.used
                /\ TakeFrame(a).used = a.used \cup {NextFit(a)} /\ TakeFrame(a).table = a.table
                /\ MapsTo(c, TakeFrame(a), kernel_pd, page, f0, FALSE, TRUE, NextFit(a))
             \/ /\ a.table[kernel_pd][PD_INDEX(page)] # Absent
                /\ MapsTo(c, a, kernel_pd, page, f0, FALSE, FALSE, a.table[kernel_pd][PD_INDEX(page)].frame)
    BY <2>1, <2>3, MapPageMaps, Zenon
  <2>5. QED
    BY <2>2, <2>4
<1>7a. ASSUME b.panic # "no" PROVE KernelOK(b, o) /\ HeapPagesOK(b, n, o) /\ Extends(m, o, b, o, x)
  <2>1. m.used \subseteq b.used /\ b.table = m.table
    BY <1>1, <1>7, <1>7a
  <2>2. m.used \subseteq Frame /\ n \in 0 .. HeapRoom
    BY <1>2, HeapEntry DEF HeapRoom
  <2>3. QED
    BY <2>1, <2>2, KernelSame
<1>8. SUFFICES ASSUME b.panic = "no"
               PROVE  \E o2 : KernelOK(b, o2) /\ HeapPagesOK(b, n + 1, o2) /\ Extends(m, o, b, o2, x)
  BY <1>7, <1>7a
<1> DEFINE new == m.table[kernel_pd][d] = Absent
           pt == IF new THEN NextFit(a) ELSE m.table[kernel_pd][d].frame
           o2 == [f \in Frame |-> IF f = f0 THEN [kind |-> "heap", at |-> n]
                                  ELSE IF f = pt /\ new THEN [kind |-> "kernel tables", at |-> d]
                                  ELSE o[f]]
<1>9. /\ pt \in Frame /\ pt # kernel_pd /\ pt # f0
      /\ new => pt \notin m.used
      /\ ~new => pt \in m.used /\ Is(o[pt], "kernel tables", d)
  BY <1>1, <1>2, <1>4, <1>5, <1>7, <1>8
<1>10. /\ b.used = IF new THEN m.used \cup {f0, pt} ELSE m.used \cup {f0}
       /\ \A f \in Frame \ {kernel_pd, pt} : b.table[f] = m.table[f]
       /\ \A i \in Index \ {d} : b.table[kernel_pd][i] = m.table[kernel_pd][i]
       /\ b.table[kernel_pd][d] = IF new THEN [frame |-> pt, user |-> FALSE] ELSE m.table[kernel_pd][d]
       /\ \A j \in Index \ {t} : b.table[pt][j] = IF new THEN Absent ELSE m.table[pt][j]
       /\ b.table[pt][t] = [frame |-> f0, user |-> FALSE]
  <2>1. CASE new
    <3>1. /\ MapsTo(b, TakeFrame(a), kernel_pd, page, f0, FALSE, TRUE, pt)
          /\ TakeFrame(a).used = a.used \cup {pt} /\ TakeFrame(a).table = m.table
      BY <1>1, <1>7, <1>8, <2>1
    <3> HIDE DEF pt, d, t
    <3>2. QED
      BY <1>1, <2>1, <3>1 DEF MapsTo, d, t
  <2>2. CASE ~new
    <3>1. MapsTo(b, a, kernel_pd, page, f0, FALSE, FALSE, pt)
      BY <1>1, <1>7, <1>8, <2>2
    <3> HIDE DEF pt, d, t
    <3>2. QED
      BY <1>1, <2>2, <3>1 DEF MapsTo, d, t
  <2>3. QED
    BY <2>1, <2>2
<1>11. /\ \A f \in m.used : f \in b.used /\ f # f0 /\ o2[f] = o[f]
       /\ f0 \in b.used /\ Is(o2[f0], "heap", n)
       /\ pt \in b.used /\ Is(o2[pt], "kernel tables", d)
  <2> HIDE DEF pt
  <2>1. \A f \in m.used : f \in b.used /\ f # f0 /\ f \in Frame /\ ~(f = pt /\ new)
    BY <1>1, <1>2, <1>9, <1>10
  <2>2. \A f \in m.used : o2[f] = o[f]
    BY <2>1
  <2>3. f0 \in b.used /\ Is(o2[f0], "heap", n)
    BY <1>1, <1>10 DEF Is
  <2>4. CASE new
    BY <1>9, <1>10, <2>1, <2>2, <2>3, <2>4 DEF Is
  <2>5. CASE ~new
    BY <1>9, <1>10, <2>1, <2>2, <2>3, <2>5
  <2>6. QED
    BY <2>1, <2>2, <2>3, <2>4, <2>5
<1>12. b.table[kernel_pd][d] # Absent /\ b.table[kernel_pd][d].frame = pt /\ ~b.table[kernel_pd][d].user
  <2>1. CASE new
    <3>1. b.table[kernel_pd][d] = [frame |-> pt, user |-> FALSE]
      BY <1>10, <2>1
    <3> HIDE DEF pt, d, new, o2
    <3>2. pt # -1
      <4>1. pt \in Frame
        BY <1>9
      <4>2. QED
        BY <4>1, FrameAssumption DEF Frame
    <3> DEFINE e == b.table[kernel_pd][d]
    <3> HIDE DEF e
    <3>3. e = [frame |-> pt, user |-> FALSE]
      BY <3>1 DEF e
    <3>4. e # Absent /\ e.frame = pt /\ ~e.user
      BY <3>2, <3>3 DEF Absent
    <3>5. QED
      BY <3>4 DEF e
  <2>2. CASE ~new
    BY <1>5, <1>10, <2>2
  <2>3. QED
    BY <2>1, <2>2
<1> HIDE DEF o2, pt, d, t
<1>13. KernelOK(b, o2)
  <2>1. kernel_pd \in b.used /\ Is(o2[kernel_pd], "directory", 0)
    BY <1>4, <1>11
  <2>2. ASSUME NEW i \in Index, b.table[kernel_pd][i] # Absent
        PROVE  /\ b.table[kernel_pd][i].frame \in b.used
               /\ Is(o2[b.table[kernel_pd][i].frame], "kernel tables", i)
               /\ ~b.table[kernel_pd][i].user
               /\ i >= HEAP_PDE
    <3>1. CASE i = d
      BY <1>3a, <1>11, <1>12, <3>1
    <3>2. CASE i # d
      <4>1. b.table[kernel_pd][i] = m.table[kernel_pd][i]
        BY <1>10, <3>2
      <4>2. QED
        BY <1>11, <2>2, <4>1 DEF KernelOK
    <3>3. QED
      BY <3>1, <3>2
  <2>3. QED
    BY <2>1, <2>2 DEF KernelOK
<1>14. HeapPagesOK(b, n + 1, o2)
  <2> SUFFICES ASSUME NEW g \in 0 .. n PROVE HeapPage(b, g) \in b.used /\ Is(o2[HeapPage(b, g)], "heap", g)
    <3>1. n \in Nat
      BY HeapEntry DEF HeapRoom
    <3>2. 0 .. (n + 1) - 1 = 0 .. n
      BY <3>1
    <3>3. QED
      BY <3>2 DEF HeapPagesOK
  <2>1. CASE g = n
    <3>1. HeapPage(b, g) = b.table[pt][t].frame
      BY <1>12, <2>1 DEF HeapPage, vmm_virt_to_phys, d, t
    <3>2. HeapPage(b, g) = f0
      <4> DEFINE e == b.table[pt][t]
      <4>1. e = [frame |-> f0, user |-> FALSE]
        BY <1>10
      <4> HIDE DEF e
      <4>2. e.frame = f0
        BY <4>1
      <4>3. QED
        BY <3>1, <4>2 DEF e
    <3>3. QED
      BY <1>11, <2>1, <3>2
  <2>2. CASE g # n
    <3> DEFINE pg == HEAP_VIRT_BASE + g
               dg == PD_INDEX(pg)
               tg == PT_INDEX(pg)
               q == m.table[kernel_pd][dg].frame
    <3>1. g \in 0 .. n - 1 /\ g \in 0 .. HeapRoom - 1
      BY <2>2, HeapEntry DEF HeapRoom
    <3>2. pg \in Pages /\ dg \in Index /\ tg \in Index
      BY <3>1, HeapPageIsPage, PageIndices
    <3>3. HeapPage(m, g) \in m.used /\ Is(o[HeapPage(m, g)], "heap", g)
      BY <3>1 DEF HeapPagesOK
    <3>4. m.table[kernel_pd][dg] # Absent /\ HeapPage(m, g) = m.table[q][tg].frame
      <4>1. -1 \notin m.used
        BY <1>2 DEF Frame
      <4>2. QED
        BY <3>3, <4>1 DEF HeapPage, vmm_virt_to_phys
    <3>5. q \in m.used /\ Is(o[q], "kernel tables", dg) /\ q # kernel_pd
      BY <1>4, <3>2, <3>4 DEF KernelOK, Is
    <3>6. b.table[kernel_pd][dg] = m.table[kernel_pd][dg]
      <4>1. CASE dg = d
        BY <1>10, <3>4, <4>1
      <4>2. CASE dg # d
        BY <1>10, <3>2, <4>2
      <4>3. QED
        BY <4>1, <4>2
    <3>7. b.table[q][tg] = m.table[q][tg]
      <4>1. CASE q # pt
        BY <1>2, <1>10, <3>5, <4>1
      <4>2. CASE q = pt
        <5>1. ~new /\ d = dg
          BY <1>9, <3>5, <4>2 DEF Is
        <5>2. tg # t
          <6>1. pg # page
            BY <2>2, HeapEntry DEF HEAP_VIRT_BASE
          <6>2. QED
            BY <1>3, <3>2, <5>1, <6>1, PagesDiffer DEF d, t
        <5>3. QED
          BY <1>10, <3>2, <4>2, <5>1, <5>2
      <4>3. QED
        BY <4>1, <4>2
    <3>8. HeapPage(b, g) = HeapPage(m, g)
      BY <3>4, <3>6, <3>7 DEF HeapPage, vmm_virt_to_phys
    <3>9. QED
      BY <1>11, <3>3, <3>8
  <2>3. QED
    BY <2>1, <2>2
<1>15. Extends(m, o, b, o2, x)
  <2>1. ASSUME NEW f \in m.used, o[f].kind \in {"user directory", "user tables"} PROVE b.table[f] = m.table[f]
    <3>1. f # kernel_pd /\ f # pt /\ f \in Frame
      BY <1>2, <1>4, <1>9, <2>1 DEF Is
    <3>2. QED
      BY <1>10, <3>1
  <2>2. \A i \in Index : m.table[kernel_pd][i] # Absent => b.table[kernel_pd][i] = m.table[kernel_pd][i]
    BY <1>10
  <2>3. QED
    BY <1>11, <2>1, <2>2 DEF Extends
<1>16. QED
  BY <1>13, <1>14, <1>15
-----------------------------------------------------------------------------
HeapType == [cursor : 0 .. HeapRoom, free_list : [Cache -> Seq(Nat)],
             magic : SUBSET Nat, live : SUBSET [ptr : Nat, size : Nat]]
KernelType == [mem : MemoryType, heap : HeapType]

LEMMA HeapFields ==
  ASSUME NEW h \in HeapType
  PROVE  /\ h.cursor \in 0 .. HeapRoom /\ h.free_list \in [Cache -> Seq(Nat)]
         /\ h.magic \in SUBSET Nat /\ h.live \in SUBSET [ptr : Nat, size : Nat]
BY DEF HeapType

LEMMA KernelFields ==
  ASSUME NEW k \in KernelType
  PROVE  k.mem \in MemoryType /\ k.heap \in HeapType
BY DEF KernelType

LEMMA RoomIsNat == HeapRoom \in Nat
BY HeapEntry DEF HeapRoom

(* The heap with a cursor further on. *)
Grown(h, j) == [h EXCEPT !.cursor = @ + j]

LEMMA GrownFields ==
  ASSUME NEW h \in HeapType, NEW j \in Nat, h.cursor + j <= HeapRoom
  PROVE  /\ Grown(h, j) \in HeapType /\ Grown(h, j).cursor = h.cursor + j
         /\ Grown(h, j).free_list = h.free_list /\ Grown(h, j).magic = h.magic /\ Grown(h, j).live = h.live
<1>1. h.cursor + j \in 0 .. HeapRoom
  BY HeapFields, RoomIsNat
<1>2. QED
  BY <1>1 DEF HeapType, Grown

LEMMA GrownNone ==
  ASSUME NEW h \in HeapType
  PROVE  Grown(h, 0) = h
<1>1. h.cursor + 0 = h.cursor
  BY HeapFields, RoomIsNat
<1>2. [h EXCEPT !.cursor = h.cursor] = h
  BY DEF HeapType
<1>3. QED
  BY <1>1, <1>2 DEF Grown

LEMMA GrownTwice ==
  ASSUME NEW h \in HeapType, NEW j \in Nat, h.cursor + j + 1 <= HeapRoom
  PROVE  Grown(Grown(h, j), 1) = Grown(h, j + 1)
<1>1. h.cursor \in Nat /\ (h.cursor + j) + 1 = h.cursor + (j + 1) /\ h.cursor + j <= HeapRoom
  BY HeapFields, RoomIsNat
<1>2. Grown(h, j).cursor = h.cursor + j
  BY <1>1, GrownFields
<1>3. Grown(Grown(h, j), 1) = [Grown(h, j) EXCEPT !.cursor = h.cursor + (j + 1)]
  BY <1>1, <1>2 DEF Grown
<1>4. [[h EXCEPT !.cursor = h.cursor + j] EXCEPT !.cursor = h.cursor + (j + 1)] = [h EXCEPT !.cursor = h.cursor + (j + 1)]
  BY DEF HeapType
<1>5. QED
  BY <1>3, <1>4 DEF Grown

(* The owners of memory m2 with n2 pages of heap, after those of m. *)
Reaches(m, o, m2, n2, x) == \E o2 : KernelOK(m2, o2) /\ HeapPagesOK(m2, n2, o2) /\ Extends(m, o, m2, o2, x)

LEMMA ReachesTransitive ==
  ASSUME NEW a, NEW oa, NEW b, NEW nb, NEW x, NEW c, NEW nc,
         Reaches(a, oa, b, nb, x),
         \A ob : KernelOK(b, ob) /\ HeapPagesOK(b, nb, ob) => Reaches(b, ob, c, nc, x)
  PROVE  Reaches(a, oa, c, nc, x)
<1>1. PICK ob : KernelOK(b, ob) /\ HeapPagesOK(b, nb, ob) /\ Extends(a, oa, b, ob, x)
  BY DEF Reaches
<1>2. Reaches(b, ob, c, nc, x)
  BY <1>1
<1>3. PICK oc : KernelOK(c, oc) /\ HeapPagesOK(c, nc, oc) /\ Extends(b, ob, c, oc, x)
  BY <1>2 DEF Reaches
<1>4. Extends(a, oa, c, oc, x)
  BY <1>1, <1>3, ExtendsTransitive
<1>5. QED
  BY <1>3, <1>4 DEF Reaches

LEMMA OnePageGrows ==
  ASSUME NEW k \in KernelType, k.mem.panic = "no", k.heap.cursor < HeapRoom, NEW o, NEW x,
         KernelOK(k.mem, o), HeapPagesOK(k.mem, k.heap.cursor, o)
  PROVE  LET r == OnePage(k)
         IN /\ r \in KernelType
            /\ r.heap = IF r.mem.panic = "no" THEN Grown(k.heap, 1) ELSE k.heap
            /\ Reaches(k.mem, o, r.mem, r.heap.cursor, x)
<1> DEFINE m == k.mem
           h == k.heap
           n == k.heap.cursor
           a == TakeFrame(m)
           b == vmm_map_page(a, kernel_pd, HEAP_VIRT_BASE + n, NextFit(m), FALSE)
           r == OnePage(k)
<1>1. m \in MemoryType /\ h \in HeapType /\ n \in 0 .. HeapRoom - 1 /\ n \in 0 .. HeapRoom /\ m.used \subseteq Frame
  BY KernelFields, HeapFields, RoomIsNat, FieldsOf
<1>2. KernelOK(m, o) /\ HeapPagesOK(m, n, o) /\ m.panic = "no"
  OBVIOUS
<1>3. Grown(h, 1) \in HeapType /\ Grown(h, 1).cursor = n + 1
  <2>1. h.cursor + 1 <= HeapRoom /\ h.cursor = n
    BY <1>1, RoomIsNat
  <2> HIDE DEF h, n
  <2>2. QED
    BY <1>1, <2>1, GrownFields
<1>4. a \in MemoryType /\ a.table = m.table /\ m.used \subseteq a.used
  <2> HIDE DEF m
  <2>1. QED
    BY <1>1, <1>2, TakeFrameTakes
<1>5. r = IF a.panic # "no" THEN [k EXCEPT !.mem = a]
          ELSE IF b.panic # "no" THEN [k EXCEPT !.mem = b]
          ELSE [k EXCEPT !.mem = b, !.heap.cursor = @ + 1]
  BY DEF OnePage, Advanced
<1>6. CASE a.panic # "no"
  <2>1. r = [k EXCEPT !.mem = a]
    BY <1>5, <1>6
  <2> HIDE DEF a, r
  <2>2. r \in KernelType /\ r.mem = a /\ r.heap = h
    BY <1>4, <2>1 DEF KernelType
  <2>3. KernelOK(a, o) /\ HeapPagesOK(a, n, o) /\ Extends(m, o, a, o, x)
    <3> HIDE DEF m, n
    <3>1. QED
      BY <1>1, <1>2, <1>4, KernelSame
  <2>4. Reaches(m, o, r.mem, r.heap.cursor, x)
    BY <2>2, <2>3 DEF Reaches
  <2>5. QED
    BY <1>6, <2>2, <2>4 DEF r
<1>7. CASE a.panic = "no"
  <2> HIDE DEF m, n, h
  <2>1. /\ b \in MemoryType
        /\ b.panic # "no" => KernelOK(b, o) /\ HeapPagesOK(b, n, o) /\ Extends(m, o, b, o, x)
        /\ b.panic = "no" => \E o2 : KernelOK(b, o2) /\ HeapPagesOK(b, n + 1, o2) /\ Extends(m, o, b, o2, x)
    BY <1>1, <1>2, <1>7, PageMapped
  <2>2. CASE b.panic # "no"
    <3>1. r = [k EXCEPT !.mem = b]
      BY <1>5, <1>7, <2>2
    <3> HIDE DEF a, b, r
    <3>2. r \in KernelType /\ r.mem = b /\ r.heap = h
      BY <2>1, <3>1 DEF KernelType, h
    <3>3. Reaches(m, o, r.mem, r.heap.cursor, x)
      BY <2>1, <2>2, <3>2 DEF Reaches, n, h
    <3>4. QED
      BY <2>2, <3>2, <3>3 DEF r, h, m
  <2>3. CASE b.panic = "no"
    <3>1. r = [k EXCEPT !.mem = b, !.heap = Grown(h, 1)]
      <4>1. r = [k EXCEPT !.mem = b, !.heap.cursor = @ + 1]
        BY <1>5, <1>7, <2>3
      <4> HIDE DEF a, b, r
      <4>2. QED
        BY <4>1 DEF KernelType, Grown, h, HeapType
    <3> HIDE DEF a, b, r
    <3>2. r \in KernelType /\ r.mem = b /\ r.heap = Grown(h, 1)
      BY <1>3, <2>1, <3>1 DEF KernelType, h
    <3>3. Reaches(m, o, r.mem, r.heap.cursor, x)
      BY <1>3, <2>1, <2>3, <3>2 DEF Reaches
    <3>4. QED
      BY <2>3, <3>2, <3>3 DEF r, h, m
  <2>4. QED
    BY <2>2, <2>3
<1>8. QED
  BY <1>6, <1>7

(* The kernel state r after some of n pages were asked for in state k. *)
PagesAdded(k, o, x, r, n) ==
  /\ r \in KernelType
  /\ \E j \in 0 .. n : /\ r.heap = Grown(k.heap, j)
                       /\ r.mem.panic = "no" => j = n
  /\ Reaches(k.mem, o, r.mem, r.heap.cursor, x)

LEMMA AllocPagesGrows ==
  ASSUME NEW k \in KernelType, k.mem.panic = "no", NEW n \in Nat, k.heap.cursor + n <= HeapRoom, NEW o, NEW x,
         KernelOK(k.mem, o), HeapPagesOK(k.mem, k.heap.cursor, o)
  PROVE  PagesAdded(k, o, x, heap_alloc_pages(k, n), n)
<1> DEFINE g == Loop(<<"pages">>, k, n)
           S == {i \in 0 .. n : PagesAdded(k, o, x, g[i], i)}
<1>1. g[0] = k /\ \A i \in 1 .. n : g[i] = GrowStep(g[i - 1])
  <2>1. \A y, i : Advance(<<"pages">>, y, i) = GrowStep(y)
    BY DEF Advance
  <2>2. QED
    BY <2>1, LoopEquations
<1> HIDE DEF g
<1>2. k.heap \in HeapType /\ k.heap.cursor \in 0 .. HeapRoom /\ HeapRoom \in Nat
  BY KernelFields, HeapFields, RoomIsNat
<1>3. 0 \in S
  <2>1. Grown(k.heap, 0) = k.heap
    BY <1>2, GrownNone
  <2>2. Reaches(k.mem, o, k.mem, k.heap.cursor, x)
    BY ExtendsSelf DEF Reaches
  <2>3. 0 \in 0 .. 0 /\ 0 \in 0 .. n
    OBVIOUS
  <2>4. QED
    BY <1>1, <2>1, <2>2, <2>3 DEF PagesAdded
<1>4. ASSUME NEW i \in 0 .. n - 1, i \in S PROVE i + 1 \in S
  <2> DEFINE r == g[i]
             q == g[i + 1]
  <2>1. PagesAdded(k, o, x, r, i) /\ i + 1 \in 1 .. n /\ i + 1 \in 0 .. n /\ i \in Nat
    BY <1>4
  <2>2. q = GrowStep(r)
    <3>1. (i + 1) - 1 = i
      BY <2>1
    <3>2. QED
      BY <1>1, <2>1, <3>1
  <2> HIDE DEF r, q
  <2>3. PICK j \in 0 .. i : r.heap = Grown(k.heap, j) /\ (r.mem.panic = "no" => j = i)
    BY <2>1 DEF PagesAdded
  <2>4. CASE r.mem.panic # "no"
    <3>1. q = r
      BY <2>2, <2>4 DEF GrowStep
    <3>2. j \in 0 .. i + 1
      BY <2>1
    <3>3. PagesAdded(k, o, x, q, i + 1)
      BY <2>1, <2>3, <2>4, <3>1, <3>2 DEF PagesAdded
    <3>4. QED
      BY <2>1, <3>3 DEF q
  <2>5. CASE r.mem.panic = "no"
    <3>1. q = OnePage(r)
      BY <2>2, <2>5 DEF GrowStep
    <3>2. r \in KernelType /\ r.heap = Grown(k.heap, i) /\ Reaches(k.mem, o, r.mem, r.heap.cursor, x)
      BY <2>1, <2>3, <2>5 DEF PagesAdded
    <3>3. r.heap.cursor = k.heap.cursor + i /\ k.heap.cursor + i + 1 <= HeapRoom /\ r.heap.cursor < HeapRoom
      <4>1. k.heap.cursor + i <= HeapRoom /\ k.heap.cursor + i + 1 <= HeapRoom /\ k.heap.cursor + i < HeapRoom
        BY <1>2, <2>1
      <4>2. Grown(k.heap, i).cursor = k.heap.cursor + i
        BY <1>2, <2>1, <4>1, GrownFields
      <4>3. QED
        BY <3>2, <4>1, <4>2
    <3>4. \A ob : KernelOK(r.mem, ob) /\ HeapPagesOK(r.mem, r.heap.cursor, ob) =>
            /\ q \in KernelType
            /\ q.heap = IF q.mem.panic = "no" THEN Grown(r.heap, 1) ELSE r.heap
            /\ Reaches(r.mem, ob, q.mem, q.heap.cursor, x)
      BY <2>5, <3>1, <3>2, <3>3, OnePageGrows
    <3>5. /\ q \in KernelType
          /\ q.heap = IF q.mem.panic = "no" THEN Grown(r.heap, 1) ELSE r.heap
      BY <3>2, <3>4 DEF Reaches
    <3>6. Reaches(k.mem, o, q.mem, q.heap.cursor, x)
      BY <3>2, <3>4, ReachesTransitive
    <3>7. Grown(r.heap, 1) = Grown(k.heap, i + 1)
      BY <1>2, <2>1, <3>2, <3>3, GrownTwice
    <3>8. \E l \in 0 .. i + 1 : q.heap = Grown(k.heap, l) /\ (q.mem.panic = "no" => l = i + 1)
      <4>1. CASE q.mem.panic = "no"
        BY <2>1, <3>5, <3>7, <4>1
      <4>2. CASE q.mem.panic # "no"
        <5>1. q.heap = Grown(k.heap, i) /\ i \in 0 .. i + 1
          BY <2>1, <3>2, <3>5, <4>2
        <5>2. QED
          BY <4>2, <5>1
      <4>3. QED
        BY <4>1, <4>2
    <3>9. PagesAdded(k, o, x, q, i + 1)
      BY <3>5, <3>6, <3>8 DEF PagesAdded
    <3>10. QED
      BY <2>1, <3>9 DEF q
  <2>6. QED
    BY <2>4, <2>5
<1>5. n \in S
  <2> HIDE DEF S
  <2>1. QED
    BY <1>3, <1>4, SetInduction
<1>6. QED
  BY <1>5, PagesAreLoop DEF g
-----------------------------------------------------------------------------
(* Objects and free lists. *)

Apart(p, a, q, b) == p + a <= q \/ q + b <= p

(* The first address that is not mapped. *)
End(cursor) == cursor * PAGE_UNITS

ListsOK(cursor, lists, live) ==
  /\ \A o \in live : o.size > 0 /\ o.ptr + o.size <= End(cursor)
  /\ \A c \in Cache : \A i \in DOMAIN lists[c] : lists[c][i] + SLAB_SIZES[c] <= End(cursor)
  /\ \A o, q \in live : o = q \/ Apart(o.ptr, o.size, q.ptr, q.size)
  /\ \A o \in live, c \in Cache : \A i \in DOMAIN lists[c] : Apart(o.ptr, o.size, lists[c][i], SLAB_SIZES[c])
  /\ \A c, d \in Cache : \A i \in DOMAIN lists[c], j \in DOMAIN lists[d] :
       (c = d /\ i = j) \/ Apart(lists[c][i], SLAB_SIZES[c], lists[d][j], SLAB_SIZES[d])

HeapOK(h) == h \in HeapType /\ ListsOK(h.cursor, h.free_list, h.live)

LEMMA SlabSizes == /\ \A c \in Cache : SLAB_SIZES[c] \in Nat \ {0} /\ SLAB_SIZES[c] <= SLAB_PAGES * PAGE_UNITS
                   /\ 1 \in Cache /\ SLAB_SIZES[1] = 1 /\ Cache \in SUBSET Nat /\ Cache = 1 .. Len(SLAB_SIZES)
                   /\ SLAB_PAGES \in Nat \ {0} /\ PAGE_UNITS \in Nat \ {0}
BY SlabAssumption DEF Cache

LEMMA EndGrows ==
  ASSUME NEW c \in Nat, NEW j \in Nat
  PROVE  End(c + j) = End(c) + End(j) /\ End(c) \in Nat /\ End(j) \in Nat
BY SlabAssumption DEF End

LEMMA ApartSymmetric ==
  ASSUME NEW p, NEW a, NEW q, NEW b, Apart(p, a, q, b)
  PROVE  Apart(q, b, p, a)
BY DEF Apart

(* More mapped pages and fewer objects do no harm. *)
LEMMA ListsShrink ==
  ASSUME NEW c \in Nat, NEW j \in Nat, NEW lists \in [Cache -> Seq(Nat)], NEW live \in SUBSET [ptr : Nat, size : Nat],
         ListsOK(c, lists, live), NEW kept \in SUBSET live
  PROVE  ListsOK(c + j, lists, kept)
<1>1. End(c) \in Nat /\ End(j) \in Nat /\ End(c + j) = End(c) + End(j)
  BY EndGrows
<1>2. \A o \in kept : o \in live /\ o.ptr \in Nat /\ o.size \in Nat
  OBVIOUS
<1>3. \A o \in kept : o.size > 0 /\ o.ptr + o.size <= End(c + j)
  <2> SUFFICES ASSUME NEW o \in kept PROVE o.size > 0 /\ o.ptr + o.size <= End(c + j)
    OBVIOUS
  <2>1. o.size > 0 /\ o.ptr + o.size <= End(c) /\ o.ptr \in Nat /\ o.size \in Nat
    BY <1>2 DEF ListsOK
  <2>2. QED
    BY <1>1, <2>1
<1>4. \A d \in Cache : \A i \in DOMAIN lists[d] : lists[d][i] + SLAB_SIZES[d] <= End(c + j)
  <2> SUFFICES ASSUME NEW d \in Cache, NEW i \in DOMAIN lists[d] PROVE lists[d][i] + SLAB_SIZES[d] <= End(c + j)
    OBVIOUS
  <2>1. lists[d][i] + SLAB_SIZES[d] <= End(c) /\ lists[d][i] \in Nat /\ SLAB_SIZES[d] \in Nat
    BY SlabSizes DEF ListsOK
  <2>2. QED
    BY <1>1, <2>1
<1>5. QED
  BY <1>2, <1>3, <1>4 DEF ListsOK

(* Nodes added in front of one list. *)
LEMMA ListsPrepended ==
  ASSUME NEW n \in Nat, NEW lists \in [Cache -> Seq(Nat)], NEW live \in SUBSET [ptr : Nat, size : Nat],
         ListsOK(n, lists, live),
         NEW c \in Cache, NEW new \in Seq(Nat),
         \A i \in DOMAIN new : new[i] + SLAB_SIZES[c] <= End(n),
         \A i, j \in DOMAIN new : i = j \/ Apart(new[i], SLAB_SIZES[c], new[j], SLAB_SIZES[c]),
         \A i \in DOMAIN new, o \in live : Apart(o.ptr, o.size, new[i], SLAB_SIZES[c]),
         \A i \in DOMAIN new, d \in Cache : \A j \in DOMAIN lists[d] : Apart(new[i], SLAB_SIZES[c], lists[d][j], SLAB_SIZES[d])
  PROVE  /\ [lists EXCEPT ![c] = new \o @] \in [Cache -> Seq(Nat)]
         /\ ListsOK(n, [lists EXCEPT ![c] = new \o @], live)
<1> DEFINE old == lists[c]
           s == new \o old
           ls == [lists EXCEPT ![c] = s]
           k == Len(new)
<1>1. old \in Seq(Nat) /\ s \in Seq(Nat) /\ k \in Nat
  OBVIOUS
<1>2. ASSUME NEW i \in DOMAIN s
      PROVE  \/ i \in DOMAIN new /\ s[i] = new[i] /\ i <= k
             \/ i - k \in DOMAIN old /\ s[i] = old[i - k] /\ i > k
  BY <1>1
<1> HIDE DEF s, old, k
<1>3. ls \in [Cache -> Seq(Nat)] /\ ls[c] = s /\ \A d \in Cache \ {c} : ls[d] = lists[d]
  BY <1>1
<1> HIDE DEF ls
<1>4. ASSUME NEW d \in Cache, NEW i \in DOMAIN ls[d]
      PROVE  \/ d = c /\ i \in DOMAIN new /\ ls[d][i] = new[i] /\ i \in Nat /\ i <= k
             \/ d = c /\ i - k \in DOMAIN lists[d] /\ ls[d][i] = lists[d][i - k] /\ i \in Nat /\ i > k
             \/ d # c /\ i \in DOMAIN lists[d] /\ ls[d][i] = lists[d][i]
  <2>1. CASE d = c
    <3>1. i \in DOMAIN s /\ ls[d][i] = s[i] /\ i \in Nat
      BY <1>1, <1>3, <2>1
    <3>2. QED
      BY <1>2, <2>1, <3>1 DEF old
  <2>2. CASE d # c
    BY <1>3, <2>2
  <2>3. QED
    BY <2>1, <2>2
<1>5. \A d \in Cache : \A i \in DOMAIN ls[d] : ls[d][i] + SLAB_SIZES[d] <= End(n)
  BY <1>4 DEF ListsOK
<1>6. \A o \in live, d \in Cache : \A i \in DOMAIN ls[d] : Apart(o.ptr, o.size, ls[d][i], SLAB_SIZES[d])
  BY <1>4 DEF ListsOK
<1>7. ASSUME NEW d \in Cache, NEW e \in Cache, NEW i \in DOMAIN ls[d], NEW j \in DOMAIN ls[e], ~(d = e /\ i = j)
      PROVE  Apart(ls[d][i], SLAB_SIZES[d], ls[e][j], SLAB_SIZES[e])
  <2>1. CASE d = c /\ i \in DOMAIN new /\ ls[d][i] = new[i] /\ i \in Nat /\ i <= k
    <3>1. CASE e = c /\ j \in DOMAIN new /\ ls[e][j] = new[j]
      BY <1>7, <2>1, <3>1
    <3>2. CASE e = c /\ j - k \in DOMAIN lists[e] /\ ls[e][j] = lists[e][j - k]
      BY <2>1, <3>2
    <3>3. CASE e # c /\ j \in DOMAIN lists[e] /\ ls[e][j] = lists[e][j]
      BY <2>1, <3>3
    <3>4. QED
      BY <1>4, <3>1, <3>2, <3>3
  <2>2. CASE d = c /\ i - k \in DOMAIN lists[d] /\ ls[d][i] = lists[d][i - k] /\ i \in Nat /\ i > k
    <3>1. CASE e = c /\ j \in DOMAIN new /\ ls[e][j] = new[j]
      BY <2>2, <3>1, ApartSymmetric
    <3>2. CASE e = c /\ j - k \in DOMAIN lists[e] /\ ls[e][j] = lists[e][j - k] /\ j \in Nat
      <4>1. i - k # j - k
        BY <1>1, <1>7, <2>2, <3>2
      <4>2. QED
        BY <2>2, <3>2, <4>1 DEF ListsOK
    <3>3. CASE e # c /\ j \in DOMAIN lists[e] /\ ls[e][j] = lists[e][j]
      BY <2>2, <3>3 DEF ListsOK
    <3>4. QED
      BY <1>4, <3>1, <3>2, <3>3
  <2>3. CASE d # c /\ i \in DOMAIN lists[d] /\ ls[d][i] = lists[d][i]
    <3>1. CASE e = c /\ j \in DOMAIN new /\ ls[e][j] = new[j]
      BY <2>3, <3>1, ApartSymmetric
    <3>2. CASE e = c /\ j - k \in DOMAIN lists[e] /\ ls[e][j] = lists[e][j - k]
      BY <2>3, <3>2 DEF ListsOK
    <3>3. CASE e # c /\ j \in DOMAIN lists[e] /\ ls[e][j] = lists[e][j]
      BY <1>7, <2>3, <3>3 DEF ListsOK
    <3>4. QED
      BY <1>4, <3>1, <3>2, <3>3
  <2>4. QED
    BY <1>4, <2>1, <2>2, <2>3
<1>8. ListsOK(n, ls, live)
  BY <1>5, <1>6, <1>7 DEF ListsOK
<1>9. QED
  BY <1>3, <1>8 DEF ls, s, old

(* A live object of its own in mapped, free units. *)
LEMMA ListsHandOut ==
  ASSUME NEW n \in Nat, NEW lists \in [Cache -> Seq(Nat)], NEW live \in SUBSET [ptr : Nat, size : Nat],
         ListsOK(n, lists, live), NEW ptr \in Nat, NEW size \in Nat \ {0}, ptr + size <= End(n),
         \A o \in live : Apart(o.ptr, o.size, ptr, size),
         \A c \in Cache : \A i \in DOMAIN lists[c] : Apart(ptr, size, lists[c][i], SLAB_SIZES[c])
  PROVE  LET all == live \cup {[ptr |-> ptr, size |-> size]}
         IN all \in SUBSET [ptr : Nat, size : Nat] /\ ListsOK(n, lists, all)
<1> DEFINE new == [ptr |-> ptr, size |-> size]
           all == live \cup {new}
<1>1. new.ptr = ptr /\ new.size = size /\ new \in [ptr : Nat, size : Nat]
  OBVIOUS
<1> HIDE DEF new
<1>2. \A o \in all : o.size > 0 /\ o.ptr + o.size <= End(n)
  BY <1>1 DEF ListsOK
<1>3. \A o, q \in all : o = q \/ Apart(o.ptr, o.size, q.ptr, q.size)
  BY <1>1, ApartSymmetric DEF ListsOK
<1>4. \A o \in all, c \in Cache : \A i \in DOMAIN lists[c] : Apart(o.ptr, o.size, lists[c][i], SLAB_SIZES[c])
  BY <1>1 DEF ListsOK
<1>5. all \in SUBSET [ptr : Nat, size : Nat]
  BY <1>1
<1>6. ListsOK(n, lists, all)
  <2> HIDE DEF all
  <2>1. QED
    BY <1>2, <1>3, <1>4 DEF ListsOK
<1>7. QED
  BY <1>5, <1>6 DEF new

(* The first node of a list taken off it. *)
LEMMA ListsPop ==
  ASSUME NEW n \in Nat, NEW lists \in [Cache -> Seq(Nat)], NEW live \in SUBSET [ptr : Nat, size : Nat],
         ListsOK(n, lists, live), NEW c \in Cache, lists[c] # <<>>
  PROVE  LET ls == [lists EXCEPT ![c] = Tail(@)]
             ptr == Head(lists[c])
         IN /\ ls \in [Cache -> Seq(Nat)] /\ ListsOK(n, ls, live)
            /\ ptr \in Nat /\ ptr + SLAB_SIZES[c] <= End(n)
            /\ \A o \in live : Apart(o.ptr, o.size, ptr, SLAB_SIZES[c])
            /\ \A d \in Cache : \A i \in DOMAIN ls[d] : Apart(ptr, SLAB_SIZES[c], ls[d][i], SLAB_SIZES[d])
<1> DEFINE old == lists[c]
           s == Tail(old)
           ls == [lists EXCEPT ![c] = s]
           ptr == Head(old)
<1>1. old \in Seq(Nat) /\ s \in Seq(Nat) /\ ptr = old[1] /\ 1 \in DOMAIN old /\ ptr \in Nat
  OBVIOUS
<1>2. \A i \in DOMAIN s : i \in Nat /\ i + 1 \in DOMAIN old /\ s[i] = old[i + 1] /\ i + 1 # 1
  BY <1>1
<1> HIDE DEF s, old, ptr
<1>3. ls \in [Cache -> Seq(Nat)] /\ ls[c] = s /\ \A d \in Cache \ {c} : ls[d] = lists[d]
  BY <1>1
<1>4. ASSUME NEW d \in Cache, NEW i \in DOMAIN ls[d]
      PROVE  \/ d = c /\ i + 1 \in DOMAIN lists[d] /\ ls[d][i] = lists[d][i + 1] /\ i \in Nat /\ i + 1 # 1
             \/ d # c /\ i \in DOMAIN lists[d] /\ ls[d][i] = lists[d][i]
  BY <1>2, <1>3 DEF old
<1> HIDE DEF ls
<1>5. \A d \in Cache : \A i \in DOMAIN ls[d] : ls[d][i] + SLAB_SIZES[d] <= End(n)
  BY <1>4 DEF ListsOK
<1>6. \A o \in live, d \in Cache : \A i \in DOMAIN ls[d] : Apart(o.ptr, o.size, ls[d][i], SLAB_SIZES[d])
  BY <1>4 DEF ListsOK
<1>7. ASSUME NEW d \in Cache, NEW e \in Cache, NEW i \in DOMAIN ls[d], NEW j \in DOMAIN ls[e], ~(d = e /\ i = j)
      PROVE  Apart(ls[d][i], SLAB_SIZES[d], ls[e][j], SLAB_SIZES[e])
  <2>1. CASE d = c /\ i + 1 \in DOMAIN lists[d] /\ ls[d][i] = lists[d][i + 1] /\ i \in Nat
    <3>1. CASE e = c /\ j + 1 \in DOMAIN lists[e] /\ ls[e][j] = lists[e][j + 1] /\ j \in Nat
      <4>1. i + 1 # j + 1
        BY <1>7, <2>1, <3>1
      <4>2. QED
        BY <2>1, <3>1, <4>1 DEF ListsOK
    <3>2. CASE e # c /\ j \in DOMAIN lists[e] /\ ls[e][j] = lists[e][j]
      BY <2>1, <3>2 DEF ListsOK
    <3>3. QED
      BY <1>4, <3>1, <3>2
  <2>2. CASE d # c /\ i \in DOMAIN lists[d] /\ ls[d][i] = lists[d][i]
    <3>1. CASE e = c /\ j + 1 \in DOMAIN lists[e] /\ ls[e][j] = lists[e][j + 1] /\ j \in Nat
      BY <2>2, <3>1 DEF ListsOK
    <3>2. CASE e # c /\ j \in DOMAIN lists[e] /\ ls[e][j] = lists[e][j]
      BY <1>7, <2>2, <3>2 DEF ListsOK
    <3>3. QED
      BY <1>4, <3>1, <3>2
  <2>3. QED
    BY <1>4, <2>1, <2>2
<1>8. ListsOK(n, ls, live)
  BY <1>5, <1>6, <1>7 DEF ListsOK
<1>9. ptr + SLAB_SIZES[c] <= End(n) /\ \A o \in live : Apart(o.ptr, o.size, ptr, SLAB_SIZES[c])
  BY <1>1 DEF ListsOK, old
<1>10. ASSUME NEW d \in Cache, NEW i \in DOMAIN ls[d] PROVE Apart(ptr, SLAB_SIZES[c], ls[d][i], SLAB_SIZES[d])
  <2>1. 1 \in DOMAIN lists[c] /\ ptr = lists[c][1]
    BY <1>1 DEF old
  <2>2. QED
    BY <1>4, <2>1 DEF ListsOK
<1>11. QED
  BY <1>1, <1>3, <1>8, <1>9, <1>10 DEF ls, s, old, ptr

(* The objects of a slab fill its pages one after the other. *)
LEMMA ThreadedApart ==
  ASSUME NEW base \in Nat, NEW c \in Cache
  PROVE  LET objects == Threaded(base, SLAB_SIZES[c])
             size == SLAB_SIZES[c]
         IN /\ objects \in Seq(Nat) /\ objects # <<>>
            /\ \A i \in DOMAIN objects : base <= objects[i] /\ objects[i] + size <= base + End(SLAB_PAGES)
            /\ \A i, j \in DOMAIN objects : i = j \/ Apart(objects[i], size, objects[j], size)
<1> DEFINE size == SLAB_SIZES[c]
           total == SLAB_PAGES * PAGE_UNITS
           count == total \div size
           objects == [j \in 1 .. count |-> base + (count - j) * size]
<1>1. size \in Nat \ {0} /\ total \in Nat /\ size <= total
  BY SlabSizes
<1> HIDE DEF size, total
<1>2. count \in Nat /\ count >= 1 /\ count * size <= total
  <2>1. count \in Nat /\ total % size \in 0 .. size - 1 /\ total = size * count + (total % size)
    BY <1>1
  <2> DEFINE rem == total % size
  <2> HIDE DEF count, rem
  <2>2. rem \in 0 .. size - 1 /\ total = size * count + rem
    BY <2>1 DEF rem
  <2>3. count # 0
    <3>1. SUFFICES ASSUME count = 0 PROVE FALSE
      OBVIOUS
    <3>2. size * count = 0
      BY <1>1, <3>1
    <3>3. QED
      BY <1>1, <2>2, <3>2
  <2>4. size * count = count * size /\ size * count \in Nat
    BY <1>1, <2>1
  <2>5. QED
    BY <1>1, <2>1, <2>2, <2>3, <2>4
<1> HIDE DEF count
<1>3. ASSUME NEW x \in Nat, NEW y \in Nat, x <= y PROVE x * size <= y * size /\ x * size \in Nat /\ y * size \in Nat
  BY <1>1, <1>3
<1>4. ASSUME NEW i \in 1 .. count
      PROVE  base + (count - i) * size \in Nat /\ base <= base + (count - i) * size
             /\ base + (count - i) * size + size <= base + total
  <2>1. count - i \in Nat /\ (count - i) + 1 \in Nat /\ (count - i) + 1 <= count
    BY <1>2
  <2>2. (count - i) * size \in Nat /\ ((count - i) + 1) * size = (count - i) * size + size
    BY <1>1, <2>1
  <2>3. ((count - i) + 1) * size <= count * size
    BY <1>2, <1>3, <2>1
  <2>4. QED
    BY <1>1, <1>2, <2>2, <2>3
<1>5. ASSUME NEW i \in 1 .. count, NEW j \in 1 .. count, i < j
      PROVE  base + (count - j) * size + size <= base + (count - i) * size
  <2>1. (count - j) + 1 \in Nat /\ count - j \in Nat /\ count - i \in Nat /\ (count - j) + 1 <= count - i
    BY <1>2, <1>5
  <2>2. (count - j) * size \in Nat /\ (count - i) * size \in Nat /\ ((count - j) + 1) * size = (count - j) * size + size
    BY <1>1, <2>1
  <2>3. ((count - j) + 1) * size <= (count - i) * size
    BY <1>3, <2>1
  <2>4. QED
    BY <1>1, <2>2, <2>3
<1>6. objects \in Seq(Nat) /\ DOMAIN objects = 1 .. count /\ objects # <<>>
  BY <1>2, <1>4
<1>7. \A i \in DOMAIN objects : base <= objects[i] /\ objects[i] + size <= base + total
  BY <1>4, <1>6
<1>8. ASSUME NEW i \in DOMAIN objects, NEW j \in DOMAIN objects, i # j PROVE Apart(objects[i], size, objects[j], size)
  <2>1. CASE i < j
    BY <1>5, <1>6, <2>1 DEF Apart
  <2>2. CASE j < i
    BY <1>5, <1>6, <2>2 DEF Apart
  <2>3. QED
    BY <1>2, <1>6, <1>8, <2>1, <2>2
<1>9. objects = Threaded(base, SLAB_SIZES[c])
  BY DEF Threaded, count, total, size
<1> HIDE DEF objects
<1>10. QED
  BY <1>6, <1>7, <1>8, <1>9 DEF size, total, End

LEMMA AddSlabAdds ==
  ASSUME NEW k \in KernelType, k.mem.panic = "no", NEW c \in Cache, k.heap.cursor + SLAB_PAGES <= HeapRoom,
         HeapOK(k.heap), NEW o, NEW x, KernelOK(k.mem, o), HeapPagesOK(k.mem, k.heap.cursor, o)
  PROVE  LET r == AddSlab(k, c)
         IN /\ r \in KernelType /\ HeapOK(r.heap) /\ r.heap.live = k.heap.live
            /\ r.heap.cursor <= k.heap.cursor + SLAB_PAGES
            /\ r.mem.panic = "no" => r.heap.free_list[c] # <<>>
            /\ Reaches(k.mem, o, r.mem, r.heap.cursor, x)
<1> DEFINE g == heap_alloc_pages(k, SLAB_PAGES)
           h == k.heap
           base == k.heap.cursor * PAGE_UNITS
           objects == Threaded(base, SLAB_SIZES[c])
           r == AddSlab(k, c)
<1>1. SLAB_PAGES \in Nat
  BY SlabSizes
<1>2. PagesAdded(k, o, x, g, SLAB_PAGES)
  BY <1>1, AllocPagesGrows
<1>3. r = IF g.mem.panic # "no" THEN g
          ELSE [g EXCEPT !.heap.free_list[c] = objects \o @, !.heap.magic = @ \ {objects[j] : j \in DOMAIN objects}]
  BY DEF AddSlab, Listed
<1> HIDE DEF g, r
<1>4. PICK j \in 0 .. SLAB_PAGES : g.heap = Grown(h, j) /\ (g.mem.panic = "no" => j = SLAB_PAGES)
  BY <1>2 DEF PagesAdded
<1>5. /\ h \in HeapType /\ h.cursor \in Nat /\ h.free_list \in [Cache -> Seq(Nat)] /\ h.live \in SUBSET [ptr : Nat, size : Nat]
      /\ ListsOK(h.cursor, h.free_list, h.live)
  BY HeapFields, RoomIsNat DEF HeapOK
<1>6. h.cursor + j <= HeapRoom /\ h.cursor + j <= h.cursor + SLAB_PAGES /\ j \in Nat
  BY <1>1, <1>4, <1>5, RoomIsNat
<1> HIDE DEF h
<1>7. /\ g \in KernelType /\ g.heap \in HeapType /\ g.heap.cursor = h.cursor + j
      /\ g.heap.free_list = h.free_list /\ g.heap.live = h.live
  <2>1. /\ Grown(h, j) \in HeapType /\ Grown(h, j).cursor = h.cursor + j
        /\ Grown(h, j).free_list = h.free_list /\ Grown(h, j).live = h.live
    BY <1>5, <1>6, GrownFields
  <2>2. QED
    BY <1>2, <1>4, <2>1 DEF PagesAdded
<1>8. ListsOK(g.heap.cursor, g.heap.free_list, g.heap.live)
  <2>1. ListsOK(h.cursor + j, h.free_list, h.live)
    BY <1>5, <1>6, ListsShrink
  <2>2. QED
    BY <1>7, <2>1
<1>9. Reaches(k.mem, o, g.mem, g.heap.cursor, x)
  BY <1>2 DEF PagesAdded
<1>10. CASE g.mem.panic # "no"
  <2>1. r = g
    BY <1>3, <1>10
  <2>2. QED
    BY <1>6, <1>7, <1>8, <1>9, <1>10, <2>1 DEF HeapOK, r, h
<1>11. CASE g.mem.panic = "no"
  <2>1. j = SLAB_PAGES
    BY <1>4, <1>11
  <2>2. base = End(h.cursor) /\ base \in Nat /\ End(g.heap.cursor) = base + End(SLAB_PAGES) /\ End(SLAB_PAGES) \in Nat
    BY <1>1, <1>5, <1>7, <2>1, EndGrows DEF End, h
  <2> HIDE DEF base
  <2>3. /\ objects \in Seq(Nat) /\ objects # <<>>
        /\ \A i \in DOMAIN objects : base <= objects[i] /\ objects[i] + SLAB_SIZES[c] <= base + End(SLAB_PAGES)
        /\ \A i, l \in DOMAIN objects : i = l \/ Apart(objects[i], SLAB_SIZES[c], objects[l], SLAB_SIZES[c])
    BY <2>2, ThreadedApart
  <2> HIDE DEF objects
  <2> DEFINE lists == [g.heap.free_list EXCEPT ![c] = objects \o @]
             magic == g.heap.magic \ {objects[l] : l \in DOMAIN objects}
  <2>4. /\ lists \in [Cache -> Seq(Nat)] /\ ListsOK(g.heap.cursor, lists, g.heap.live)
    <3> DEFINE n == g.heap.cursor
               fl == g.heap.free_list
               live == g.heap.live
    <3>1. n \in Nat /\ fl \in [Cache -> Seq(Nat)] /\ live \in SUBSET [ptr : Nat, size : Nat] /\ ListsOK(n, fl, live)
      BY <1>5, <1>6, <1>7, <1>8
    <3>2. \A i \in DOMAIN objects : objects[i] + SLAB_SIZES[c] <= End(n)
      BY <2>2, <2>3
    <3>3. \A i \in DOMAIN objects, q \in live : Apart(q.ptr, q.size, objects[i], SLAB_SIZES[c])
      <4> SUFFICES ASSUME NEW i \in DOMAIN objects, NEW q \in live PROVE Apart(q.ptr, q.size, objects[i], SLAB_SIZES[c])
        OBVIOUS
      <4>1. q.ptr + q.size <= base /\ q.ptr \in Nat /\ q.size \in Nat
        BY <1>5, <1>7, <2>2 DEF ListsOK
      <4>2. base <= objects[i] /\ objects[i] \in Nat
        BY <2>3
      <4>3. QED
        BY <2>2, <4>1, <4>2 DEF Apart
    <3>4. \A i \in DOMAIN objects, d \in Cache : \A l \in DOMAIN fl[d] :
            Apart(objects[i], SLAB_SIZES[c], fl[d][l], SLAB_SIZES[d])
      <4> SUFFICES ASSUME NEW i \in DOMAIN objects, NEW d \in Cache, NEW l \in DOMAIN fl[d]
                   PROVE  Apart(objects[i], SLAB_SIZES[c], fl[d][l], SLAB_SIZES[d])
        OBVIOUS
      <4>1. fl[d][l] + SLAB_SIZES[d] <= base /\ fl[d][l] \in Nat /\ SLAB_SIZES[d] \in Nat
        <5>1. fl = h.free_list /\ fl[d] \in Seq(Nat)
          BY <1>5, <1>7
        <5> HIDE DEF fl
        <5>2. fl[d][l] + SLAB_SIZES[d] <= base
          BY <1>5, <2>2, <5>1 DEF ListsOK
        <5>3. QED
          BY <5>1, <5>2, SlabSizes
      <4>2. base <= objects[i] /\ objects[i] \in Nat
        BY <2>3
      <4>3. QED
        BY <2>2, <4>1, <4>2 DEF Apart
    <3> HIDE DEF n, fl, live
    <3>5. [fl EXCEPT ![c] = objects \o @] \in [Cache -> Seq(Nat)] /\ ListsOK(n, [fl EXCEPT ![c] = objects \o @], live)
      BY <2>3, <3>1, <3>2, <3>3, <3>4, ListsPrepended
    <3>6. QED
      BY <3>5 DEF n, fl, live
  <2>5. lists[c] # <<>>
    <3>1. lists[c] = objects \o h.free_list[c] /\ h.free_list[c] \in Seq(Nat)
      BY <1>5, <1>7
    <3>2. QED
      BY <2>3, <3>1
  <2>6. magic \in SUBSET Nat
    BY <1>7, HeapFields
  <2> DEFINE h2 == [g.heap EXCEPT !.free_list = lists, !.magic = magic]
  <2>7. r = [g EXCEPT !.heap = h2]
    <3>1. r = [g EXCEPT !.heap.free_list[c] = objects \o @, !.heap.magic = @ \ {objects[l] : l \in DOMAIN objects}]
      BY <1>3, <1>11
    <3>2. QED
      BY <1>7, <3>1 DEF KernelType, HeapType
  <2> HIDE DEF lists, magic
  <2>8. h2 \in HeapType /\ h2.cursor = g.heap.cursor /\ h2.free_list = lists /\ h2.live = g.heap.live
    BY <1>7, <2>4, <2>6 DEF HeapType
  <2> HIDE DEF h2
  <2>9. r \in KernelType /\ r.mem = g.mem /\ r.heap = h2
    BY <1>7, <2>7, <2>8 DEF KernelType
  <2>10. QED
    BY <1>6, <1>7, <1>9, <2>1, <2>4, <2>5, <2>8, <2>9 DEF HeapOK, r, h
<1>12. QED
  BY <1>10, <1>11

(* State r after a call of the heap in state k. *)
HeapStep(k, o, x, r) == r \in KernelType /\ HeapOK(r.heap) /\ Reaches(k.mem, o, r.mem, r.heap.cursor, x)

(* State r with room for size units at ptr, which nothing else holds. *)
Found(k, o, x, ptr, size, r) ==
  /\ HeapStep(k, o, x, r) /\ r.heap.live = k.heap.live
  /\ ptr \in Nat /\ ptr + size <= End(r.heap.cursor)
  /\ \A q \in r.heap.live : Apart(q.ptr, q.size, ptr, size)
  /\ \A c \in Cache : \A i \in DOMAIN r.heap.free_list[c] : Apart(ptr, size, r.heap.free_list[c][i], SLAB_SIZES[c])

LEMMA FromSlabFinds ==
  ASSUME NEW k \in KernelType, k.mem.panic = "no", NEW c \in Cache, k.heap.cursor + SLAB_PAGES <= HeapRoom,
         HeapOK(k.heap), NEW o, NEW x, KernelOK(k.mem, o), HeapPagesOK(k.mem, k.heap.cursor, o)
  PROVE  LET f == FromSlab(k, c)
         IN /\ f.k \in KernelType
            /\ f.k.mem.panic = "no" => Found(k, o, x, f.ptr, SLAB_SIZES[c], f.k)
<1> DEFINE s == IF k.heap.free_list[c] = <<>> THEN AddSlab(k, c) ELSE k
           fl == s.heap.free_list
           obj == Head(fl[c])
           lists == [fl EXCEPT ![c] = Tail(@)]
           magic == s.heap.magic \ Units(obj, SLAB_SIZES[c])
           f == FromSlab(k, c)
<1>1. /\ HeapStep(k, o, x, s) /\ s.heap.live = k.heap.live
      /\ s.mem.panic = "no" => fl[c] # <<>>
  <2>1. CASE k.heap.free_list[c] = <<>>
    <3> DEFINE t == AddSlab(k, c)
    <3>1. /\ t \in KernelType /\ HeapOK(t.heap) /\ t.heap.live = k.heap.live
          /\ t.mem.panic = "no" => t.heap.free_list[c] # <<>>
          /\ Reaches(k.mem, o, t.mem, t.heap.cursor, x)
      BY AddSlabAdds
    <3>2. s = t
      BY <2>1
    <3> HIDE DEF t, s
    <3>3. QED
      BY <3>1, <3>2 DEF HeapStep
  <2>2. CASE k.heap.free_list[c] # <<>>
    <3>1. s = k
      BY <2>2
    <3>2. Reaches(k.mem, o, k.mem, k.heap.cursor, x)
      BY ExtendsSelf DEF Reaches
    <3>3. QED
      BY <2>2, <3>1, <3>2 DEF HeapStep
  <2>3. QED
    BY <2>1, <2>2
<1>2. f = IF s.mem.panic # "no" THEN [ptr |-> -1, k |-> s]
          ELSE [ptr |-> obj, k |-> [s EXCEPT !.heap.free_list[c] = Tail(@), !.heap.magic = @ \ Units(obj, SLAB_SIZES[c])]]
  BY DEF FromSlab, Popped
<1> HIDE DEF s, f
<1>3. /\ s \in KernelType /\ s.mem \in MemoryType /\ s.heap \in HeapType /\ s.heap.cursor \in Nat /\ fl \in [Cache -> Seq(Nat)]
      /\ s.heap.magic \in SUBSET Nat
      /\ s.heap.live \in SUBSET [ptr : Nat, size : Nat] /\ ListsOK(s.heap.cursor, fl, s.heap.live)
      /\ Reaches(k.mem, o, s.mem, s.heap.cursor, x)
  BY <1>1, HeapFields, KernelFields, RoomIsNat DEF HeapStep, HeapOK
<1>4. CASE s.mem.panic # "no"
  <2>1. f = [ptr |-> -1, k |-> s]
    BY <1>2, <1>4
  <2>2. f.k = s
    BY <2>1
  <2>3. QED
    BY <1>3, <1>4, <2>2 DEF f
<1>5. CASE s.mem.panic = "no"
  <2> DEFINE n == s.heap.cursor
             live == s.heap.live
  <2>1. fl[c] # <<>>
    BY <1>1, <1>5
  <2> HIDE DEF fl, n, live
  <2>2. /\ lists \in [Cache -> Seq(Nat)] /\ ListsOK(n, lists, live)
        /\ obj \in Nat /\ obj + SLAB_SIZES[c] <= End(n)
        /\ \A q \in live : Apart(q.ptr, q.size, obj, SLAB_SIZES[c])
        /\ \A d \in Cache : \A i \in DOMAIN lists[d] : Apart(obj, SLAB_SIZES[c], lists[d][i], SLAB_SIZES[d])
    <3>1. n \in Nat /\ fl \in [Cache -> Seq(Nat)] /\ live \in SUBSET [ptr : Nat, size : Nat] /\ ListsOK(n, fl, live)
      BY <1>3 DEF n, live
    <3>2. QED
      BY <2>1, <3>1, ListsPop
  <2>3. magic \in SUBSET Nat
    BY <1>3
  <2> DEFINE h2 == [s.heap EXCEPT !.free_list = lists, !.magic = magic]
             r == [s EXCEPT !.heap = h2]
  <2>4. f = [ptr |-> obj, k |-> r]
    <3>1. r = [s EXCEPT !.heap.free_list[c] = Tail(@), !.heap.magic = @ \ Units(obj, SLAB_SIZES[c])]
      BY <1>3 DEF KernelType, HeapType, fl
    <3> HIDE DEF r
    <3>2. QED
      BY <1>2, <1>5, <3>1
  <2> HIDE DEF lists, magic, obj
  <2>5. h2 \in HeapType /\ h2.cursor = n /\ h2.free_list = lists /\ h2.live = live
    BY <1>3, <2>2, <2>3 DEF HeapType, n, live
  <2> HIDE DEF h2
  <2>6. r \in KernelType /\ r.mem = s.mem /\ r.heap = h2
    BY <1>3, <2>5 DEF KernelType
  <2> HIDE DEF r
  <2>7. f.ptr = obj /\ f.k = r
    BY <2>4
  <2>8. HeapStep(k, o, x, r)
    BY <1>3, <2>2, <2>5, <2>6 DEF HeapStep, HeapOK, n
  <2>9. Found(k, o, x, obj, SLAB_SIZES[c], r)
    BY <1>1, <2>2, <2>5, <2>6, <2>8 DEF Found, live
  <2>10. QED
    BY <1>3, <2>6, <2>7, <2>9 DEF f
<1>6. QED
  BY <1>4, <1>5

LEMMA LargeFinds ==
  ASSUME NEW k \in KernelType, k.mem.panic = "no", NEW size \in Nat \ {0},
         k.heap.cursor + ((size + PAGE_UNITS) \div PAGE_UNITS) <= HeapRoom,
         HeapOK(k.heap), NEW o, NEW x, KernelOK(k.mem, o), HeapPagesOK(k.mem, k.heap.cursor, o)
  PROVE  LET f == Large(k, size)
         IN /\ f.k \in KernelType
            /\ f.k.mem.panic = "no" => Found(k, o, x, f.ptr, size, f.k)
<1> DEFINE n == (size + PAGE_UNITS) \div PAGE_UNITS
           h == k.heap
           base == h.cursor * PAGE_UNITS
           g == heap_alloc_pages(k, n)
           f == Large(k, size)
           r == [g EXCEPT !.heap.magic = @ \cup {base}]
<1>1. PAGE_UNITS \in Nat \ {0}
  BY SlabSizes
<1>2. n \in Nat /\ size + 1 <= End(n)
  <2> DEFINE rem == (size + PAGE_UNITS) % PAGE_UNITS
  <2>1. n \in Nat /\ rem \in 0 .. PAGE_UNITS - 1 /\ size + PAGE_UNITS = PAGE_UNITS * n + rem
    BY <1>1
  <2> HIDE DEF rem, n
  <2>2. End(n) = PAGE_UNITS * n /\ PAGE_UNITS * n \in Nat
    BY <1>1, <2>1 DEF End
  <2>3. QED
    BY <1>1, <2>1, <2>2
<1>3. f = [ptr |-> base + 1, k |-> r]
  <2>1. size + 1 + PAGE_UNITS - 1 = size + PAGE_UNITS
    BY <1>1
  <2>2. QED
    BY <2>1 DEF Large
<1> HIDE DEF n
<1>4. PagesAdded(k, o, x, g, n)
  <2>1. k.heap.cursor + n <= HeapRoom
    BY DEF n
  <2>2. QED
    BY <1>2, <2>1, AllocPagesGrows
<1> HIDE DEF g, f
<1>5. PICK j \in 0 .. n : g.heap = Grown(h, j) /\ (g.mem.panic = "no" => j = n)
  BY <1>4 DEF PagesAdded
<1>6. /\ h \in HeapType /\ h.cursor \in Nat /\ h.free_list \in [Cache -> Seq(Nat)] /\ h.live \in SUBSET [ptr : Nat, size : Nat]
      /\ ListsOK(h.cursor, h.free_list, h.live)
  BY HeapFields, RoomIsNat DEF HeapOK
<1>7. h.cursor + j <= HeapRoom /\ j \in Nat
  <2>1. h.cursor + n <= HeapRoom
    BY DEF n
  <2>2. QED
    BY <1>2, <1>5, <1>6, <2>1, RoomIsNat
<1> HIDE DEF h
<1>8. /\ g \in KernelType /\ g.heap \in HeapType /\ g.heap.cursor = h.cursor + j
      /\ g.heap.free_list = h.free_list /\ g.heap.live = h.live
      /\ Reaches(k.mem, o, g.mem, g.heap.cursor, x)
  <2>1. /\ Grown(h, j) \in HeapType /\ Grown(h, j).cursor = h.cursor + j
        /\ Grown(h, j).free_list = h.free_list /\ Grown(h, j).live = h.live
    BY <1>6, <1>7, GrownFields
  <2>2. QED
    BY <1>4, <1>5, <2>1 DEF PagesAdded
<1>9. ListsOK(g.heap.cursor, g.heap.free_list, g.heap.live)
  <2>1. ListsOK(h.cursor + j, h.free_list, h.live)
    BY <1>6, <1>7, ListsShrink
  <2>2. QED
    BY <1>8, <2>1
<1>10. base \in Nat /\ base = End(h.cursor) /\ End(h.cursor + n) = base + End(n) /\ End(n) \in Nat
  BY <1>2, <1>6, EndGrows DEF End
<1> HIDE DEF base
<1> DEFINE magic == g.heap.magic \cup {base}
           h2 == [g.heap EXCEPT !.magic = magic]
<1>11. magic \in SUBSET Nat
  BY <1>8, <1>10, HeapFields
<1>12. r = [g EXCEPT !.heap = h2]
  BY <1>8 DEF KernelType, HeapType
<1> HIDE DEF magic, r
<1>13. h2 \in HeapType /\ h2.cursor = g.heap.cursor /\ h2.free_list = g.heap.free_list /\ h2.live = g.heap.live
  BY <1>8, <1>11 DEF HeapType
<1> HIDE DEF h2
<1>14. r \in KernelType /\ r.mem = g.mem /\ r.heap = h2
  BY <1>8, <1>12, <1>13 DEF KernelType
<1>15. f.ptr = base + 1 /\ f.k = r /\ r.mem \in MemoryType
  BY <1>3, <1>14, KernelFields
<1>16. ASSUME r.mem.panic = "no" PROVE Found(k, o, x, base + 1, size, r)
  <2>1. j = n
    BY <1>5, <1>14, <1>16
  <2>2. HeapStep(k, o, x, r)
    BY <1>8, <1>9, <1>13, <1>14 DEF HeapStep, HeapOK
  <2>3. base + 1 \in Nat /\ (base + 1) + size <= End(r.heap.cursor)
    <3>1. End(r.heap.cursor) = base + End(n)
      BY <1>8, <1>10, <1>13, <1>14, <2>1
    <3>2. QED
      BY <1>2, <1>10, <3>1
  <2>4. \A q \in h.live : Apart(q.ptr, q.size, base + 1, size)
    <3> SUFFICES ASSUME NEW q \in h.live PROVE Apart(q.ptr, q.size, base + 1, size)
      OBVIOUS
    <3>1. q.ptr + q.size <= base /\ q.ptr \in Nat /\ q.size \in Nat
      BY <1>6, <1>10 DEF ListsOK
    <3>2. QED
      BY <1>10, <3>1 DEF Apart
  <2>5. \A c \in Cache : \A i \in DOMAIN h.free_list[c] : Apart(base + 1, size, h.free_list[c][i], SLAB_SIZES[c])
    <3> SUFFICES ASSUME NEW c \in Cache, NEW i \in DOMAIN h.free_list[c]
                 PROVE  Apart(base + 1, size, h.free_list[c][i], SLAB_SIZES[c])
      OBVIOUS
    <3>1. h.free_list[c] \in Seq(Nat) /\ h.free_list[c][i] + SLAB_SIZES[c] <= base /\ SLAB_SIZES[c] \in Nat
      BY <1>6, <1>10, SlabSizes DEF ListsOK
    <3>2. h.free_list[c][i] \in Nat
      BY <3>1
    <3>3. QED
      BY <1>10, <3>1, <3>2 DEF Apart
  <2>6. r.heap.live = h.live /\ r.heap.free_list = h.free_list
    BY <1>8, <1>13, <1>14
  <2>7. QED
    BY <2>2, <2>3, <2>4, <2>5, <2>6 DEF Found, h
<1>17. QED
  BY <1>14, <1>15, <1>16 DEF f

LEMMA MallocHandsOut ==
  ASSUME NEW k \in KernelType, k.mem.panic = "no", NEW size \in RequestSizes, k.heap.cursor < MaxPages,
         HeapOK(k.heap), NEW o, NEW x, KernelOK(k.mem, o), HeapPagesOK(k.mem, k.heap.cursor, o)
  PROVE  LET a == Malloc(k, size)
         IN /\ a.k.mem \in MemoryType
            /\ a.k.mem.panic = "no" => /\ HeapStep(k, o, x, a.k) /\ k.heap.live \subseteq a.k.heap.live
                                       /\ size # 0 => a.ptr \in Nat
<1> DEFINE a == Malloc(k, size)
           f == IF Fitting(size) # {} THEN FromSlab(k, Min(Fitting(size))) ELSE Large(k, size)
<1>1. size \in Nat /\ k.heap.cursor \in Nat
  BY GrowthAssumption, KernelFields, HeapFields, RoomIsNat
<1>2. CASE size = 0
  <2>1. a = [ptr |-> -1, k |-> k]
    BY <1>2 DEF Malloc
  <2>2. a.k = k
    BY <2>1
  <2>3. HeapStep(k, o, x, k)
    BY ExtendsSelf DEF HeapStep, Reaches
  <2> HIDE DEF a
  <2>4. QED
    BY <1>2, <2>2, <2>3, KernelFields DEF a
<1>3. CASE size # 0
  <2>1. a = [f EXCEPT !.k.heap.live = @ \cup {[ptr |-> f.ptr, size |-> size]}]
    BY <1>3 DEF Malloc
  <2>2. f = [ptr |-> f.ptr, k |-> f.k] /\ f.k \in KernelType /\ (f.k.mem.panic = "no" => Found(k, o, x, f.ptr, size, f.k))
    <3>1. CASE Fitting(size) # {}
      <4> DEFINE c == Min(Fitting(size))
                 p == FromSlab(k, c)
      <4>1. c \in Cache /\ size <= SLAB_SIZES[c]
        <5>1. Fitting(size) \in SUBSET Nat
          BY SlabSizes DEF Fitting
        <5>2. c \in Fitting(size)
          BY <3>1, <5>1, MinIsLeast
        <5>3. QED
          BY <5>2 DEF Fitting
      <4> HIDE DEF c
      <4>2. k.heap.cursor + SLAB_PAGES <= HeapRoom
        <5>1. MaxPages + SLAB_PAGES <= HeapRoom /\ MaxPages \in Nat
          BY GrowthAssumption DEF HeapRoom
        <5>2. QED
          BY <1>1, <5>1, SlabSizes, RoomIsNat
      <4>3. /\ p.k \in KernelType
            /\ p.k.mem.panic = "no" => Found(k, o, x, p.ptr, SLAB_SIZES[c], p.k)
        BY <4>1, <4>2, FromSlabFinds
      <4>4. p = [ptr |-> p.ptr, k |-> p.k]
        BY DEF FromSlab, Popped
      <4>5. f = p
        BY <3>1 DEF c
      <4> HIDE DEF p, f
      <4>6. ASSUME p.k.mem.panic = "no" PROVE Found(k, o, x, p.ptr, size, p.k)
        <5> DEFINE r == p.k
                   ptr == p.ptr
        <5>1. Found(k, o, x, ptr, SLAB_SIZES[c], r)
          BY <4>3, <4>6
        <5> HIDE DEF r, ptr
        <5>2. /\ ptr \in Nat /\ SLAB_SIZES[c] \in Nat /\ End(r.heap.cursor) \in Nat
              /\ r.heap.live \in SUBSET [ptr : Nat, size : Nat] /\ r.heap.free_list \in [Cache -> Seq(Nat)]
          <6>1. r.heap \in HeapType /\ ptr \in Nat
            BY <5>1 DEF Found, HeapStep, HeapOK
          <6>2. r.heap.cursor \in Nat
            BY <6>1, HeapFields, RoomIsNat
          <6>3. QED
            BY <4>1, <6>1, <6>2, HeapFields, EndGrows, SlabSizes
        <5>3. ptr + size <= End(r.heap.cursor)
          <6>1. ptr + SLAB_SIZES[c] <= End(r.heap.cursor)
            BY <5>1 DEF Found
          <6>2. QED
            BY <1>1, <4>1, <5>2, <6>1
        <5>4. ASSUME NEW q \in r.heap.live PROVE Apart(q.ptr, q.size, ptr, size)
          <6>1. Apart(q.ptr, q.size, ptr, SLAB_SIZES[c]) /\ q.ptr \in Nat /\ q.size \in Nat
            BY <5>1, <5>2 DEF Found
          <6>2. QED
            BY <1>1, <4>1, <5>2, <6>1 DEF Apart
        <5>5. ASSUME NEW d \in Cache, NEW i \in DOMAIN r.heap.free_list[d]
              PROVE  Apart(ptr, size, r.heap.free_list[d][i], SLAB_SIZES[d])
          <6>1. r.heap.free_list[d] \in Seq(Nat) /\ SLAB_SIZES[d] \in Nat
            BY <5>2, SlabSizes
          <6>2. r.heap.free_list[d][i] \in Nat
            BY <6>1
          <6>3. Apart(ptr, SLAB_SIZES[c], r.heap.free_list[d][i], SLAB_SIZES[d])
            BY <5>1 DEF Found
          <6>4. QED
            BY <1>1, <4>1, <5>2, <6>1, <6>2, <6>3 DEF Apart
        <5>6. Found(k, o, x, ptr, size, r)
          BY <5>1, <5>3, <5>4, <5>5 DEF Found
        <5>7. QED
          BY <5>6 DEF r, ptr
      <4>7. QED
        BY <4>3, <4>4, <4>5, <4>6
    <3>2. CASE Fitting(size) = {}
      <4> DEFINE p == Large(k, size)
      <4>1. k.heap.cursor + ((size + PAGE_UNITS) \div PAGE_UNITS) <= HeapRoom
        <5> DEFINE n == (size + PAGE_UNITS) \div PAGE_UNITS
        <5>1. MaxPages + n <= HeapRoom /\ MaxPages \in Nat
          BY GrowthAssumption DEF HeapRoom
        <5>2. n \in Nat
          <6>1. size + PAGE_UNITS \in Nat /\ PAGE_UNITS \in Nat \ {0}
            BY <1>1, SlabSizes
          <6>2. QED
            BY <6>1, QuotientIsNat
        <5> HIDE DEF n
        <5>3. k.heap.cursor + n <= HeapRoom
          BY <1>1, <5>1, <5>2, RoomIsNat
        <5>4. QED
          BY <5>3 DEF n
      <4>2. p.k \in KernelType /\ (p.k.mem.panic = "no" => Found(k, o, x, p.ptr, size, p.k))
        BY <1>1, <1>3, <4>1, LargeFinds
      <4>3. p = [ptr |-> p.ptr, k |-> p.k]
        BY DEF Large
      <4>4. f = p
        BY <3>2
      <4> HIDE DEF p, f
      <4>5. QED
        BY <4>2, <4>3, <4>4
    <3>3. QED
      BY <3>1, <3>2
  <2> HIDE DEF f, a
  <2> DEFINE r == f.k
             ptr == f.ptr
             all == r.heap.live \cup {[ptr |-> ptr, size |-> size]}
             q == [r EXCEPT !.heap.live = all]
  <2>3. a.k = q /\ a.ptr = ptr
    <3>1. f = [ptr |-> ptr, k |-> r]
      BY <2>2
    <3>2. a = [ptr |-> ptr, k |-> q]
      BY <2>1, <3>1
    <3> HIDE DEF q
    <3>3. QED
      BY <3>2
  <2> HIDE DEF r, ptr
  <2>4. r \in KernelType /\ r.mem \in MemoryType /\ (r.mem.panic = "no" => Found(k, o, x, ptr, size, r))
    BY <2>2, KernelFields DEF r, ptr
  <2>5. q.mem = r.mem
    <3> HIDE DEF all
    <3>1. QED
      BY <2>4 DEF KernelType
  <2>6. ASSUME r.mem.panic = "no" PROVE HeapStep(k, o, x, q) /\ k.heap.live \subseteq q.heap.live /\ ptr \in Nat
    <3> DEFINE h == r.heap
    <3>1. Found(k, o, x, ptr, size, r)
      BY <2>4, <2>6
    <3>2. r \in KernelType /\ h \in HeapType /\ ListsOK(h.cursor, h.free_list, h.live) /\ h.live = k.heap.live
      BY <3>1 DEF Found, HeapStep, HeapOK
    <3>3. /\ h.cursor \in Nat /\ h.free_list \in [Cache -> Seq(Nat)] /\ h.live \in SUBSET [ptr : Nat, size : Nat]
          /\ ptr \in Nat /\ ptr + size <= End(h.cursor)
          /\ \A y \in h.live : Apart(y.ptr, y.size, ptr, size)
          /\ \A c \in Cache : \A i \in DOMAIN h.free_list[c] : Apart(ptr, size, h.free_list[c][i], SLAB_SIZES[c])
      BY <3>1, <3>2, HeapFields, RoomIsNat DEF Found
    <3>4. all \in SUBSET [ptr : Nat, size : Nat] /\ ListsOK(h.cursor, h.free_list, all)
      <4> DEFINE n == h.cursor
                 fl == h.free_list
                 live == h.live
                 everything == live \cup {[ptr |-> ptr, size |-> size]}
      <4>1. /\ n \in Nat /\ fl \in [Cache -> Seq(Nat)] /\ live \in SUBSET [ptr : Nat, size : Nat] /\ ListsOK(n, fl, live)
            /\ ptr \in Nat /\ size \in Nat \ {0} /\ ptr + size <= End(n)
            /\ \A y \in live : Apart(y.ptr, y.size, ptr, size)
            /\ \A c \in Cache : \A i \in DOMAIN fl[c] : Apart(ptr, size, fl[c][i], SLAB_SIZES[c])
        BY <1>1, <1>3, <3>2, <3>3
      <4> HIDE DEF n, fl, live
      <4>2. everything \in SUBSET [ptr : Nat, size : Nat] /\ ListsOK(n, fl, everything)
        BY <4>1, ListsHandOut
      <4>3. QED
        BY <4>2 DEF n, fl, live
    <3> DEFINE h2 == [h EXCEPT !.live = all]
    <3>5. q = [r EXCEPT !.heap = h2] /\ k.heap.live \subseteq all
      BY <3>2 DEF KernelType, HeapType
    <3> HIDE DEF all, q
    <3>6. h2 \in HeapType /\ h2.cursor = h.cursor /\ h2.free_list = h.free_list /\ h2.live = all
      BY <3>2, <3>4 DEF HeapType
    <3> HIDE DEF h2
    <3>7. q \in KernelType /\ q.mem = r.mem /\ q.heap = h2
      BY <3>2, <3>5, <3>6 DEF KernelType
    <3>8. HeapStep(k, o, x, q)
      BY <3>1, <3>4, <3>6, <3>7 DEF Found, HeapStep, HeapOK
    <3>9. QED
      BY <3>3, <3>5, <3>6, <3>7, <3>8
  <2> HIDE DEF q
  <2>7. QED
    BY <2>3, <2>4, <2>5, <2>6 DEF a
<1>4. QED
  BY <1>2, <1>3

(* What Free leaves alone. *)
SameMemory(k, r) == r.mem.used = k.mem.used /\ r.mem.table = k.mem.table /\ r.heap.cursor = k.heap.cursor

LEMMA FreeGivesBack ==
  ASSUME NEW k \in KernelType, NEW o \in k.heap.live, HeapOK(k.heap)
  PROVE  LET r == Free(k, o.ptr) IN r \in KernelType /\ HeapOK(r.heap) /\ SameMemory(k, r)
<1> DEFINE ptr == o.ptr
           h == k.heap
           live == {q \in h.live : q.ptr # ptr}
           h1 == [h EXCEPT !.live = live]
           r == Free(k, ptr)
<1>1. /\ h \in HeapType /\ h.cursor \in Nat /\ h.free_list \in [Cache -> Seq(Nat)] /\ h.magic \in SUBSET Nat
      /\ h.live \in SUBSET [ptr : Nat, size : Nat] /\ ListsOK(h.cursor, h.free_list, h.live) /\ k.mem \in MemoryType
  BY HeapFields, KernelFields, RoomIsNat DEF HeapOK
<1>2. ptr \in Nat /\ ptr # -1 /\ o \in h.live /\ o.size \in Nat
  BY <1>1
<1>3. Unlisted(k, ptr) = [k EXCEPT !.heap = h1]
  BY DEF Unlisted, KernelType, HeapType
<1>4. r = IF ptr = 0 THEN [k EXCEPT !.mem = Panicked(@, "Page Fault")]
          ELSE IF ptr - 1 \in h.magic THEN [Unlisted(k, ptr) EXCEPT !.heap.magic = @ \ {ptr - 1}]
          ELSE [Unlisted(k, ptr) EXCEPT !.heap.free_list[Match(ptr)] = <<ptr>> \o @, !.heap.magic = @ \ {ptr}]
  BY <1>2 DEF Free
<1> HIDE DEF h, ptr, r
<1>5. live \in SUBSET [ptr : Nat, size : Nat] /\ live \in SUBSET h.live
  BY <1>1
<1>6. ListsOK(h.cursor, h.free_list, live)
  <2>1. ListsOK(h.cursor + 0, h.free_list, live)
    <3> HIDE DEF live
    <3>1. QED
      BY <1>1, <1>5, ListsShrink
  <2>2. QED
    BY <1>1, <2>1
<1> HIDE DEF live
<1>7. CASE ptr = 0
  <2> DEFINE p == Panicked(k.mem, "Page Fault")
  <2>1. p \in MemoryType /\ p.used = k.mem.used /\ p.table = k.mem.table
    <3>1. "Page Fault" \in Messages
      BY DEF Messages
    <3>2. QED
      BY <1>1, <3>1, PanickedType
  <2>2. r = [k EXCEPT !.mem = p]
    BY <1>4, <1>7
  <2> HIDE DEF p
  <2>3. r \in KernelType /\ r.mem = p /\ r.heap = h
    BY <2>1, <2>2 DEF KernelType, h
  <2>4. QED
    BY <1>1, <2>1, <2>3 DEF SameMemory, HeapOK, r, ptr, h
<1>8. CASE ptr # 0 /\ ptr - 1 \in h.magic
  <2> DEFINE h2 == [h EXCEPT !.live = live, !.magic = h.magic \ {ptr - 1}]
  <2>1. r = [Unlisted(k, ptr) EXCEPT !.heap.magic = @ \ {ptr - 1}]
    BY <1>4, <1>8
  <2>2. r = [k EXCEPT !.heap = h2]
    BY <1>1, <1>3, <2>1 DEF KernelType, HeapType, h
  <2>3. h2 \in HeapType /\ h2.cursor = h.cursor /\ h2.free_list = h.free_list /\ h2.live = live
    BY <1>1, <1>5 DEF HeapType
  <2> HIDE DEF h2
  <2>4. r \in KernelType /\ r.mem = k.mem /\ r.heap = h2
    BY <2>2, <2>3 DEF KernelType
  <2>5. QED
    BY <1>6, <2>3, <2>4 DEF SameMemory, HeapOK, r, ptr, h
<1>9. CASE ptr # 0 /\ ptr - 1 \notin h.magic
  <2> DEFINE c == Match(ptr)
             fl == h.free_list
             new == <<ptr>>
             lists == [fl EXCEPT ![c] = new \o @]
             h2 == [h EXCEPT !.live = live, !.free_list = lists, !.magic = h.magic \ {ptr}]
  <2>1. c \in Cache /\ SLAB_SIZES[c] = 1
    <3> DEFINE M == {d \in Cache : ptr % SLAB_SIZES[d] = 0}
    <3>1. 1 \in M
      <4>1. ptr % 1 = 0
        BY <1>2
      <4>2. QED
        BY <4>1, SlabSizes
    <3>2. M \in SUBSET Nat /\ c = Min(M) /\ \A d \in M : d \in Cache /\ d >= 1
      BY SlabSizes DEF Match
    <3> HIDE DEF M, c
    <3>3. c \in M /\ c <= 1
      BY <3>1, <3>2, MinIsLeast
    <3>4. c = 1
      BY <3>2, <3>3
    <3>5. QED
      BY <3>4, SlabSizes
  <2>2. r = [Unlisted(k, ptr) EXCEPT !.heap.free_list[c] = new \o @, !.heap.magic = @ \ {ptr}]
    BY <1>4, <1>9
  <2> HIDE DEF c
  <2>3. r = [k EXCEPT !.heap = h2]
    BY <1>1, <1>3, <2>1, <2>2 DEF KernelType, HeapType, h
  <2>4. lists \in [Cache -> Seq(Nat)] /\ ListsOK(h.cursor, lists, live)
    <3> DEFINE n == h.cursor
    <3>1. new \in Seq(Nat) /\ DOMAIN new = {1} /\ new[1] = ptr
      BY <1>2
    <3>2. n \in Nat /\ fl \in [Cache -> Seq(Nat)] /\ live \in SUBSET [ptr : Nat, size : Nat] /\ ListsOK(n, fl, live)
      BY <1>1, <1>5, <1>6
    <3>3. o.size > 0 /\ o.ptr + o.size <= End(n) /\ End(n) \in Nat
      BY <1>1, <1>2, <3>2, EndGrows DEF ListsOK
    <3>4. \A i \in DOMAIN new : new[i] + SLAB_SIZES[c] <= End(n)
      BY <1>2, <2>1, <3>1, <3>3 DEF ptr
    <3>5. \A i, j \in DOMAIN new : i = j \/ Apart(new[i], SLAB_SIZES[c], new[j], SLAB_SIZES[c])
      BY <3>1
    <3>6. \A i \in DOMAIN new, q \in live : Apart(q.ptr, q.size, new[i], SLAB_SIZES[c])
      <4> SUFFICES ASSUME NEW q \in live PROVE Apart(q.ptr, q.size, ptr, 1)
        BY <2>1, <3>1
      <4>1. q \in h.live /\ q # o /\ q.ptr \in Nat /\ q.size \in Nat
        BY <1>1, <1>5 DEF live, ptr
      <4>2. Apart(q.ptr, q.size, o.ptr, o.size)
        BY <1>1, <1>2, <4>1 DEF ListsOK
      <4>3. QED
        BY <1>2, <3>3, <4>1, <4>2 DEF Apart, ptr
    <3>7. \A i \in DOMAIN new, d \in Cache : \A j \in DOMAIN fl[d] : Apart(new[i], SLAB_SIZES[c], fl[d][j], SLAB_SIZES[d])
      <4> SUFFICES ASSUME NEW d \in Cache, NEW j \in DOMAIN fl[d] PROVE Apart(ptr, 1, fl[d][j], SLAB_SIZES[d])
        BY <2>1, <3>1
      <4>1. fl[d] \in Seq(Nat) /\ SLAB_SIZES[d] \in Nat
        BY <3>2, SlabSizes
      <4>2. fl[d][j] \in Nat
        BY <4>1
      <4>3. Apart(o.ptr, o.size, fl[d][j], SLAB_SIZES[d])
        BY <1>1, <1>2 DEF ListsOK
      <4>4. QED
        BY <1>2, <3>3, <4>1, <4>2, <4>3 DEF Apart, ptr
    <3> HIDE DEF n, fl, new
    <3>8. lists \in [Cache -> Seq(Nat)] /\ ListsOK(n, lists, live)
      BY <2>1, <3>1, <3>2, <3>4, <3>5, <3>6, <3>7, ListsPrepended
    <3>9. QED
      BY <3>8 DEF n
  <2> HIDE DEF lists
  <2>5. h2 \in HeapType /\ h2.cursor = h.cursor /\ h2.free_list = lists /\ h2.live = live
    BY <1>1, <1>5, <2>4 DEF HeapType
  <2> HIDE DEF h2
  <2>6. r \in KernelType /\ r.mem = k.mem /\ r.heap = h2
    BY <2>3, <2>5 DEF KernelType
  <2>7. QED
    BY <2>4, <2>5, <2>6 DEF SameMemory, HeapOK, r, ptr, h
<1>10. QED
  BY <1>7, <1>8, <1>9 DEF r

LEMMA ReallocMoves ==
  ASSUME NEW k \in KernelType, k.mem.panic = "no", NEW size \in RequestSizes, k.heap.cursor < MaxPages,
         HeapOK(k.heap), NEW p \in k.heap.live, NEW o, NEW x, KernelOK(k.mem, o), HeapPagesOK(k.mem, k.heap.cursor, o)
  PROVE  LET r == Realloc(k, p.ptr, size)
         IN r.mem \in MemoryType /\ (r.mem.panic = "no" => HeapStep(k, o, x, r))
<1> DEFINE ptr == p.ptr
           a == Malloc(k, size)
           r == Realloc(k, ptr, size)
<1>1. ptr \in Nat /\ ptr # -1 /\ size \in Nat
  BY GrowthAssumption, KernelFields, HeapFields
<1>2. CASE size = 0
  <2>1. r = Free(k, ptr)
    BY <1>1, <1>2 DEF Realloc
  <2>2. r \in KernelType /\ HeapOK(r.heap) /\ SameMemory(k, r)
    BY <2>1, FreeGivesBack
  <2> HIDE DEF r
  <2>3. KernelOK(r.mem, o) /\ HeapPagesOK(r.mem, r.heap.cursor, o) /\ Extends(k.mem, o, r.mem, o, x)
    <3> DEFINE m == k.mem
               m2 == r.mem
               n == k.heap.cursor
    <3>1. m.used \subseteq m2.used /\ m2.table = m.table /\ m.used \subseteq Frame /\ n \in 0 .. HeapRoom
      BY <2>2, KernelFields, HeapFields, FieldsOf DEF SameMemory
    <3>2. KernelOK(m, o) /\ HeapPagesOK(m, n, o)
      OBVIOUS
    <3> HIDE DEF m, m2, n
    <3>3. KernelOK(m2, o) /\ HeapPagesOK(m2, n, o) /\ Extends(m, o, m2, o, x)
      BY <3>1, <3>2, KernelSame
    <3>4. QED
      BY <2>2, <3>3 DEF m, m2, n, SameMemory
  <2>4. QED
    BY <2>2, <2>3, KernelFields DEF HeapStep, Reaches, r
<1>3. CASE size # 0
  <2> DEFINE b == a.k
             to == a.ptr
             d == Copied(b, ptr, to, size)
  <2>1. /\ b.mem \in MemoryType
        /\ b.mem.panic = "no" => HeapStep(k, o, x, b) /\ k.heap.live \subseteq b.heap.live /\ to \in Nat
    BY <1>3, MallocHandsOut
  <2>2. r = IF b.mem.panic # "no" THEN b
            ELSE IF ~ReadsMapped(b, ptr, size) THEN [b EXCEPT !.mem = Panicked(@, "Page Fault")]
            ELSE Free(d, ptr)
    BY <1>1, <1>3 DEF Realloc
  <2> HIDE DEF a, b, to, r
  <2>3. CASE b.mem.panic # "no"
    <3>1. r = b
      BY <2>2, <2>3
    <3>2. QED
      BY <2>1, <2>3, <3>1 DEF r
  <2>4. CASE b.mem.panic = "no" /\ ~ReadsMapped(b, ptr, size)
    <3> DEFINE m == Panicked(b.mem, "Page Fault")
    <3>1. m \in MemoryType /\ m.panic = "Page Fault"
      <4>1. "Page Fault" \in Messages
        BY DEF Messages
      <4>2. QED
        BY <2>1, <4>1, PanickedType
    <3>2. r = [b EXCEPT !.mem = m]
      BY <2>2, <2>4
    <3>3. b \in KernelType
      BY <2>1, <2>4 DEF HeapStep
    <3> HIDE DEF m
    <3>4. r.mem = m
      BY <3>2, <3>3 DEF KernelType
    <3>5. QED
      BY <3>1, <3>4 DEF r
  <2>5. CASE b.mem.panic = "no" /\ ReadsMapped(b, ptr, size)
    <3> DEFINE h == b.heap
               magic == (h.magic \ Units(to, size)) \cup {to + i : i \in {j \in 0 .. size - 1 : ptr + j \in h.magic}}
               h2 == [h EXCEPT !.magic = magic]
    <3>1. /\ b \in KernelType /\ HeapOK(h) /\ h \in HeapType /\ to \in Nat /\ k.heap.live \subseteq h.live
          /\ Reaches(k.mem, o, b.mem, h.cursor, x)
      BY <2>1, <2>5 DEF HeapStep, HeapOK
    <3>2. magic \in SUBSET Nat
      BY <1>1, <3>1, HeapFields
    <3>3. d = [b EXCEPT !.heap = h2]
      BY <3>1 DEF Copied, KernelType, HeapType
    <3> HIDE DEF magic, d
    <3>4. h2 \in HeapType /\ h2.cursor = h.cursor /\ h2.free_list = h.free_list /\ h2.live = h.live
      BY <3>1, <3>2 DEF HeapType
    <3> HIDE DEF h2
    <3>5. d \in KernelType /\ d.mem = b.mem /\ d.heap = h2
      BY <3>1, <3>3, <3>4 DEF KernelType
    <3>6. HeapOK(d.heap) /\ p \in d.heap.live
      BY <3>1, <3>4, <3>5 DEF HeapOK
    <3>7. r = Free(d, ptr)
      BY <2>2, <2>5
    <3>8. r \in KernelType /\ HeapOK(r.heap) /\ SameMemory(d, r)
      BY <3>5, <3>6, <3>7, FreeGivesBack
    <3>9. Reaches(k.mem, o, r.mem, r.heap.cursor, x)
      <4>1. PICK o2 : KernelOK(b.mem, o2) /\ HeapPagesOK(b.mem, h.cursor, o2) /\ Extends(k.mem, o, b.mem, o2, x)
        BY <3>1 DEF Reaches
      <4> DEFINE m == b.mem
                 m2 == r.mem
                 n == h.cursor
      <4>2. /\ m.used \subseteq m2.used /\ m2.table = m.table /\ m.used \subseteq Frame /\ n \in 0 .. HeapRoom
            /\ r.heap.cursor = n
        BY <3>1, <3>4, <3>5, <3>8, KernelFields, HeapFields, FieldsOf DEF SameMemory
      <4>3. KernelOK(m, o2) /\ HeapPagesOK(m, n, o2) /\ Extends(k.mem, o, m, o2, x)
        BY <4>1
      <4> HIDE DEF m, m2, n
      <4>4. KernelOK(m2, o2) /\ HeapPagesOK(m2, n, o2) /\ Extends(m, o2, m2, o2, x)
        BY <4>2, <4>3, KernelSame
      <4>5. Extends(k.mem, o, m2, o2, x)
        BY <4>3, <4>4, ExtendsTransitive
      <4>6. QED
        BY <4>2, <4>4, <4>5 DEF Reaches, m2
    <3>10. QED
      BY <3>8, <3>9, KernelFields DEF HeapStep, r
  <2>6. QED
    BY <2>3, <2>4, <2>5
<1>4. QED
  BY <1>2, <1>3

LEMMA HeapInitMaps ==
  ASSUME NEW m \in MemoryType, m.panic = "no", NEW o, NEW x, KernelOK(m, o)
  PROVE  HeapStep(Kernel(m, EmptyHeap), o, x, heap_init(m))
<1> DEFINE k == Kernel(m, EmptyHeap)
           L == Len(SLAB_SIZES)
           g == Loop(<<"slabs">>, k, L)
           S == {i \in 0 .. L : HeapStep(k, o, x, g[i]) /\ g[i].heap.cursor <= i * SLAB_PAGES}
<1>1. L \in Nat /\ SLAB_PAGES \in Nat /\ L * SLAB_PAGES <= HeapRoom /\ Cache = 1 .. L
  <2>1. L * SLAB_PAGES <= HeapRoom
    BY GrowthAssumption DEF HeapRoom
  <2>2. QED
    BY <2>1, SlabAssumption, SlabSizes
<1>2. g[0] = k /\ \A i \in 1 .. L : g[i] = SlabStep(g[i - 1], i)
  <2>1. \A y, i : Advance(<<"slabs">>, y, i) = SlabStep(y, i)
    BY DEF Advance
  <2> HIDE DEF k, L
  <2>2. QED
    BY <1>1, <2>1, LoopEquations
<1>3. HeapStep(k, o, x, k) /\ k.heap.cursor = 0
  <2> DEFINE lists == [c \in Cache |-> <<>>]
  <2>1. lists \in [Cache -> Seq(Nat)] /\ \A c \in Cache : DOMAIN lists[c] = {}
    OBVIOUS
  <2>2. EmptyHeap = [cursor |-> 0, free_list |-> lists, magic |-> {}, live |-> {}]
    BY DEF EmptyHeap
  <2> HIDE DEF lists
  <2>3. EmptyHeap \in HeapType /\ EmptyHeap.cursor = 0 /\ EmptyHeap.free_list = lists /\ EmptyHeap.live = {}
    BY <2>1, <2>2, RoomIsNat DEF HeapType
  <2>4. HeapOK(EmptyHeap)
    BY <2>1, <2>3 DEF HeapOK, ListsOK
  <2>5. k \in KernelType /\ k.mem = m /\ k.heap = EmptyHeap
    BY <2>3 DEF Kernel, KernelType
  <2> HIDE DEF k
  <2>6. HeapPagesOK(m, 0, o)
    BY DEF HeapPagesOK
  <2>7. QED
    BY <2>3, <2>4, <2>5, <2>6, ExtendsSelf DEF HeapStep, Reaches
<1> HIDE DEF g, L, k
<1>4. 0 \in S
  BY <1>1, <1>2, <1>3
<1>5. ASSUME NEW i \in 0 .. L - 1, i \in S PROVE i + 1 \in S
  <2> DEFINE r == g[i]
             c == i + 1
             q == g[c]
  <2>1. HeapStep(k, o, x, r) /\ r.heap.cursor <= i * SLAB_PAGES
    BY <1>5
  <2>2. i \in Nat /\ c \in 1 .. L /\ c \in 0 .. L /\ c \in Cache /\ c - 1 = i
    BY <1>1
  <2>3. c * SLAB_PAGES = i * SLAB_PAGES + SLAB_PAGES /\ i * SLAB_PAGES \in Nat /\ c * SLAB_PAGES <= L * SLAB_PAGES
    BY <1>1, <2>2
  <2>4. q = SlabStep(r, c)
    BY <1>2, <2>2
  <2> HIDE DEF r, q, c
  <2>5. /\ r \in KernelType /\ HeapOK(r.heap) /\ Reaches(k.mem, o, r.mem, r.heap.cursor, x) /\ r.heap.cursor \in Nat
        /\ r.heap.cursor + SLAB_PAGES <= HeapRoom /\ r.heap.cursor + SLAB_PAGES <= c * SLAB_PAGES
        /\ r.heap.cursor <= c * SLAB_PAGES
    <3>1. r \in KernelType /\ r.heap.cursor \in Nat
      BY <2>1, KernelFields, HeapFields, RoomIsNat DEF HeapStep
    <3>2. L * SLAB_PAGES \in Nat /\ c * SLAB_PAGES \in Nat
      BY <1>1, <2>2
    <3>3. QED
      BY <1>1, <2>1, <2>3, <3>1, <3>2, RoomIsNat DEF HeapStep
  <2>6. HeapStep(k, o, x, q) /\ q.heap.cursor <= c * SLAB_PAGES
    <3>1. CASE r.mem.panic # "no"
      <4>1. q = r
        BY <2>4, <3>1 DEF SlabStep
      <4>2. QED
        BY <2>1, <2>5, <4>1
    <3>2. CASE r.mem.panic = "no"
      <4>1. q = AddSlab(r, c)
        BY <2>4, <3>2 DEF SlabStep
      <4>2. \A ob : KernelOK(r.mem, ob) /\ HeapPagesOK(r.mem, r.heap.cursor, ob) =>
              /\ q \in KernelType /\ HeapOK(q.heap)
              /\ q.heap.cursor <= r.heap.cursor + SLAB_PAGES
              /\ Reaches(r.mem, ob, q.mem, q.heap.cursor, x)
        BY <2>2, <2>5, <3>2, <4>1, AddSlabAdds
      <4>3. q \in KernelType /\ HeapOK(q.heap) /\ q.heap.cursor <= r.heap.cursor + SLAB_PAGES
        BY <2>5, <4>2 DEF Reaches
      <4>4. Reaches(k.mem, o, q.mem, q.heap.cursor, x)
        BY <2>5, <4>2, ReachesTransitive
      <4>5. q.heap.cursor \in Nat
        BY <4>3, KernelFields, HeapFields, RoomIsNat
      <4>6. q.heap.cursor <= c * SLAB_PAGES
        <5>1. c * SLAB_PAGES \in Nat
          BY <1>1, <2>2
        <5>2. QED
          BY <1>1, <2>5, <4>3, <4>5, <5>1
      <4>7. QED
        BY <4>3, <4>4, <4>6 DEF HeapStep
    <3>3. QED
      BY <3>1, <3>2
  <2>7. QED
    BY <2>2, <2>6 DEF q, c
<1>6. L \in S
  <2> HIDE DEF S
  <2>1. L \in Nat /\ 0 \in S /\ \A i \in 0 .. L - 1 : i \in S => i + 1 \in S
    BY <1>1, <1>4, <1>5
  <2>2. \A i \in 0 .. L : i \in S
    BY <2>1, SetInduction
  <2>3. QED
    BY <2>1, <2>2
<1>7. heap_init(m) = g[L]
  BY SlabsAreLoop DEF g, L, k
<1>8. QED
  BY <1>6, <1>7 DEF k

(* The first frame is the kernel's directory. *)
LEMMA VmmInitOwns ==
  LET m == vmm_init(Blank)
      o == [f \in Frame |-> [kind |-> "directory", at |-> 0]]
  IN m \in MemoryType /\ m.panic = "no" /\ KernelOK(m, o)
<1> DEFINE b == Blank
           m == vmm_init(b)
           tb == [f \in Frame |-> NoTable]
           o == [f \in Frame |-> [kind |-> "directory", at |-> 0]]
           a == TakeFrame(b)
<1>1. tb \in [Frame -> Table] /\ \A f \in Frame : tb[f] = NoTable
  BY EntryType
<1>2. b = [used |-> {}, last_alloc |-> 0, table |-> tb, panic |-> "no"]
  BY DEF Blank
<1> HIDE DEF tb, b
<1>3. b \in MemoryType /\ b.used = {} /\ b.last_alloc = 0 /\ b.table = tb /\ b.panic = "no"
  BY <1>1, <1>2, FrameAssumption DEF MemoryType, Messages
<1>4. 0 \in Frame /\ b.used # Frame
  BY <1>3, FrameAssumption DEF Frame
<1>5. NextFit(b) = 0
  <2> DEFINE P == {i \in Frame : Probe(b, i) \notin b.used}
  <2>1. 0 \in P /\ P \in SUBSET Nat
    BY <1>3, <1>4, FrameAssumption DEF Frame
  <2> HIDE DEF P
  <2>2. Min(P) \in P /\ Min(P) <= 0
    BY <2>1, MinIsLeast
  <2>3. Min(P) = 0
    <3> DEFINE least == Min(P)
    <3>1. least \in Nat /\ least <= 0
      BY <2>1, <2>2
    <3> HIDE DEF least
    <3>2. least = 0
      BY <3>1
    <3>3. QED
      BY <3>2 DEF least
  <2>4. (0 + 0) % FRAMES = 0
    BY FrameAssumption
  <2>5. QED
    BY <1>3, <2>3, <2>4 DEF NextFit, Probe, P
<1>6. a \in MemoryType /\ a.table = tb /\ a.used = {0} /\ a.panic = "no"
  <2>1. a.panic = "no"
    BY <1>3, <1>4 DEF TakeFrame, MemoryType
  <2>2. QED
    BY <1>3, <1>5, <2>1, TakeFrameTakes
<1> DEFINE tb2 == [tb EXCEPT ![0] = NoTable]
<1>7. tb2 \in [Frame -> Table] /\ tb2[0] = NoTable
  BY <1>1, <1>4, EntryType
<1>8. m = [a EXCEPT !.table = tb2]
  <2>1. m = [a EXCEPT !.table[0] = NoTable]
    BY <1>5 DEF vmm_init
  <2> HIDE DEF a, m
  <2>2. QED
    BY <1>6, <2>1 DEF MemoryType
<1> HIDE DEF a, m, tb2
<1>9. m \in MemoryType /\ m.used = {0} /\ m.panic = "no" /\ m.table = tb2
  BY <1>6, <1>7, <1>8 DEF MemoryType
<1>10. Is(o[0], "directory", 0)
  BY <1>4 DEF Is
<1>11. \A i \in Index : m.table[0][i] = Absent
  BY <1>7, <1>9 DEF NoTable
<1> HIDE DEF o
<1>12. KernelOK(m, o)
  BY <1>9, <1>10, <1>11 DEF KernelOK, kernel_pd
<1>13. QED
  BY <1>9, <1>12 DEF m, o, b
-----------------------------------------------------------------------------
(* Processes. *)

LEMMA RunTaken ==
  ASSUME NEW m \in MemoryType, m.panic = "no", NEW n \in Nat, NEW o, NEW c \in 0 .. HeapRoom,
         KernelOK(m, o), HeapPagesOK(m, c, o), NEW kind, NEW number, TakeRun(m, n).panic = "no"
  PROVE  LET t == TakeRun(m, n)
             F == Min(Runs(m, n)) .. Min(Runs(m, n)) + n - 1
         IN /\ t \in MemoryType /\ F \in SUBSET Frame /\ Min(Runs(m, n)) \in Frame
            /\ \E o2 : /\ KernelOK(t, o2) /\ HeapPagesOK(t, c, o2) /\ Kept(m, o, t, o2)
                       /\ FramesOK(t, F, kind, number, o2)
<1> DEFINE t == TakeRun(m, n)
           b == Min(Runs(m, n))
           F == b .. b + n - 1
           o2 == [f \in Frame |-> IF f \in F THEN [kind |-> kind, at |-> number] ELSE o[f]]
<1>1. /\ t \in MemoryType /\ t.table = m.table
      /\ b \in Frame /\ F \subseteq Frame /\ F \cap m.used = {} /\ t.used = m.used \cup F
  BY TakeRunTakes
<1>2. m.used \subseteq Frame
  BY FieldsOf
<1> HIDE DEF t, F, b
<1>3. Kept(m, o, t, o2)
  <2> SUFFICES ASSUME NEW f \in m.used PROVE f \in t.used /\ o2[f] = o[f] /\ t.table[f] = m.table[f]
    BY DEF Kept
  <2>1. f \in Frame /\ f \notin F
    BY <1>1, <1>2
  <2>2. QED
    BY <1>1, <2>1
<1>4. FramesOK(t, F, kind, number, o2)
  <2> SUFFICES ASSUME NEW f \in F PROVE f \in t.used /\ Is(o2[f], kind, number)
    BY DEF FramesOK
  <2>1. f \in Frame /\ f \in t.used
    BY <1>1
  <2>2. o2[f] = [kind |-> kind, at |-> number]
    BY <2>1
  <2>3. QED
    BY <2>1, <2>2 DEF Is
<1> HIDE DEF o2
<1>5. KernelOK(t, o2) /\ HeapPagesOK(t, c, o2)
  <2>1. KernelKept(m, o, t, o2)
    BY <1>3 DEF Kept, KernelKept
  <2>2. QED
    BY <1>2, <2>1, KernelStays
<1>6. QED
  BY <1>1, <1>3, <1>4, <1>5 DEF t, F, b

LEMMA KeptExtends ==
  ASSUME NEW m, NEW o, NEW m2, NEW o2, NEW x, Kept(m, o, m2, o2), kernel_pd \in m.used
  PROVE  Extends(m, o, m2, o2, x)
BY DEF Kept, Extends

LEMMA DirectoryMade ==
  ASSUME NEW m \in MemoryType, m.panic = "no", NEW o, NEW c \in 0 .. HeapRoom,
         KernelOK(m, o), HeapPagesOK(m, c, o), NEW s, NEW u, vmm_create_user_pd(m).panic = "no"
  PROVE  LET t == vmm_create_user_pd(m)
             pd == NextFit(m)
         IN /\ t \in MemoryType /\ pd \in Frame
            /\ \E o2 : /\ KernelOK(t, o2) /\ HeapPagesOK(t, c, o2) /\ Kept(m, o, t, o2)
                       /\ DirectoryOK(t, s, pd, u, o2)
<1> DEFINE t == vmm_create_user_pd(m)
           pd == NextFit(m)
           o2 == [f \in Frame |-> IF f = pd THEN [kind |-> "user directory", at |-> s] ELSE o[f]]
<1>1. /\ t \in MemoryType /\ pd \in Frame \ m.used /\ t.used = m.used \cup {pd}
      /\ \A f \in Frame \ {pd} : t.table[f] = m.table[f]
      /\ \A i \in Index : t.table[pd][i] = IF i >= KERNEL_PDE THEN m.table[kernel_pd][i] ELSE Absent
  BY CreatePdCopies
<1>2. m.used \subseteq Frame /\ kernel_pd \in m.used
  BY FieldsOf DEF KernelOK
<1> HIDE DEF t, pd
<1>3. Kept(m, o, t, o2)
  <2> SUFFICES ASSUME NEW f \in m.used PROVE f \in t.used /\ o2[f] = o[f] /\ t.table[f] = m.table[f]
    BY DEF Kept
  <2>1. f \in Frame /\ f # pd
    BY <1>1, <1>2
  <2>2. QED
    BY <1>1, <2>1
<1>4. pd \in t.used /\ Is(o2[pd], "user directory", s)
  BY <1>1 DEF Is
<1> HIDE DEF o2
<1>5. KernelOK(t, o2) /\ HeapPagesOK(t, c, o2) /\ t.table[kernel_pd] = m.table[kernel_pd]
  <2>1. KernelKept(m, o, t, o2)
    BY <1>3 DEF Kept, KernelKept
  <2>2. QED
    BY <1>2, <2>1, KernelStays
<1>6. DirectoryOK(t, s, pd, u, o2)
  <2>1. \A i \in Index : i >= KERNEL_PDE => t.table[pd][i] = t.table[kernel_pd][i]
    BY <1>1, <1>5
  <2>2. \A i \in Index : i < KERNEL_PDE => t.table[pd][i] = Absent
    <3>1. \A i \in Index : i < KERNEL_PDE => ~(i >= KERNEL_PDE)
      BY FrameAssumption DEF Index
    <3>2. QED
      BY <1>1, <3>1
  <2>3. QED
    BY <1>4, <2>1, <2>2 DEF DirectoryOK
<1>7. QED
  BY <1>1, <1>3, <1>5, <1>6 DEF t, pd

(* A page of the user's half. *)
UserPage(page) == page \in Nat /\ page < KERNEL_PDE * ENTRIES

LEMMA UserPageIsUser ==
  ASSUME NEW page, UserPage(page)
  PROVE  page \in Pages /\ PD_INDEX(page) < KERNEL_PDE
<1>1. ENTRIES \in Nat \ {0} /\ KERNEL_PDE \in Nat /\ KERNEL_PDE < ENTRIES
  BY FrameAssumption
<1>2. KERNEL_PDE * ENTRIES \in Nat /\ KERNEL_PDE * ENTRIES <= ENTRIES * ENTRIES /\ ENTRIES * ENTRIES \in Nat
  BY <1>1
<1>3. page \in Pages
  BY <1>2 DEF Pages, UserPage
<1>4. QED
  BY <1>3, EntryOfPage DEF UserPage

LEMMA StackPageIsUser ==
  ASSUME NEW i \in 0 .. USTACK - 1
  PROVE  StackPage(i) = StackPage(0) + i /\ UserPage(StackPage(0) + i) /\ StackPage(0) \in Nat
<1>1. /\ ENTRIES \in Nat /\ KERNEL_PDE \in Nat /\ USTACK \in Nat /\ USTACK < KERNEL_PDE * ENTRIES
      /\ KERNEL_PDE * ENTRIES \in Nat
  BY FrameAssumption, StackAssumption
<1> DEFINE top == KERNEL_PDE * ENTRIES
<1>2. top \in Nat /\ USTACK < top
  BY <1>1
<1>3. StackPage(i) = top - 1 - USTACK + i /\ StackPage(0) = top - 1 - USTACK + 0
  BY DEF StackPage
<1> HIDE DEF top
<1>4. StackPage(i) = StackPage(0) + i /\ StackPage(0) + i \in Nat /\ StackPage(0) + i < top /\ StackPage(0) \in Nat
  BY <1>1, <1>2, <1>3
<1>5. QED
  BY <1>4 DEF UserPage, top

(* A page mapped for the user: as for the heap, but in the process's       *)
(* directory.                                                              *)
LEMMA UserPageMapped ==
  ASSUME NEW m \in MemoryType, m.panic = "no", NEW c \in 0 .. HeapRoom, NEW o, KernelOK(m, o), HeapPagesOK(m, c, o),
         NEW s, NEW pd, NEW u, DirectoryOK(m, s, pd, u, o), NEW page, UserPage(page), NEW frame \in u, frame \in Frame,
         NEW b, b = vmm_map_page(m, pd, page, frame, TRUE)
  PROVE  /\ b \in MemoryType
         /\ b.panic = "no" => \E o2 : /\ KernelOK(b, o2) /\ HeapPagesOK(b, c, o2)
                                      /\ DirectoryOK(b, s, pd, u, o2) /\ Extends(m, o, b, o2, s)
<1> DEFINE d == PD_INDEX(page)
           t == PT_INDEX(page)
           e == m.table[pd][d]
           new == e = Absent
           pt == IF new THEN NextFit(m) ELSE e.frame
           o2 == [f \in Frame |-> IF f = pt /\ new THEN [kind |-> "user tables", at |-> s] ELSE o[f]]
<1>1. page \in Pages /\ d \in Index /\ t \in Index /\ d < KERNEL_PDE
  BY UserPageIsUser, PageIndices
<1>2. m.used \subseteq Frame /\ m.table \in [Frame -> Table]
  BY FieldsOf
<1>3. pd \in m.used /\ Is(o[pd], "user directory", s) /\ kernel_pd \in m.used /\ Is(o[kernel_pd], "directory", 0) /\ pd # kernel_pd
  BY DEF DirectoryOK, KernelOK, Is
<1>4. e # Absent => /\ e.frame \in m.used /\ Is(o[e.frame], "user tables", s)
                    /\ e.frame # pd /\ e.frame # kernel_pd
                    /\ \A j \in Index : m.table[e.frame][j].user => m.table[e.frame][j].frame \in u
  BY <1>1, <1>3 DEF DirectoryOK, Is
<1>5. /\ b \in MemoryType
      /\ b.panic = "no" =>
           \/ /\ m.table[pd][PD_INDEX(page)] = Absent
              /\ TakeFrame(m).panic = "no"
              /\ NextFit(m) \in Frame \ m.used
              /\ TakeFrame(m).used = m.used \cup {NextFit(m)} /\ TakeFrame(m).table = m.table
              /\ MapsTo(b, TakeFrame(m), pd, page, frame, TRUE, TRUE, NextFit(m))
           \/ /\ m.table[pd][PD_INDEX(page)] # Absent
              /\ MapsTo(b, m, pd, page, frame, TRUE, FALSE, m.table[pd][PD_INDEX(page)].frame)
  <2>1. m.table[pd][PD_INDEX(page)] # Absent => m.table[pd][PD_INDEX(page)].frame \in m.used \ {pd}
    BY <1>4
  <2>2. b = vmm_map_page(m, pd, page, frame, TRUE) /\ TRUE \in BOOLEAN /\ page \in Pages /\ pd \in m.used
    BY <1>1, <1>3
  <2> DEFINE r == vmm_map_page(m, pd, page, frame, TRUE)
  <2>3. /\ r \in MemoryType
        /\ r.panic = "no" =>
             \/ /\ m.table[pd][PD_INDEX(page)] = Absent
                /\ TakeFrame(m).panic = "no"
                /\ NextFit(m) \in Frame \ m.used
                /\ TakeFrame(m).used = m.used \cup {NextFit(m)} /\ TakeFrame(m).table = m.table
                /\ MapsTo(r, TakeFrame(m), pd, page, frame, TRUE, TRUE, NextFit(m))
             \/ /\ m.table[pd][PD_INDEX(page)] # Absent
                /\ MapsTo(r, m, pd, page, frame, TRUE, FALSE, m.table[pd][PD_INDEX(page)].frame)
    BY <2>1, <2>2, MapPageMaps, Zenon
  <2>4. QED
    BY <2>2, <2>3
<1>6. SUFFICES ASSUME b.panic = "no"
               PROVE  \E o3 : /\ KernelOK(b, o3) /\ HeapPagesOK(b, c, o3)
                              /\ DirectoryOK(b, s, pd, u, o3) /\ Extends(m, o, b, o3, s)
  BY <1>5
<1>7. /\ pt \in Frame /\ pt # kernel_pd /\ pt # pd
      /\ new => pt \notin m.used
      /\ ~new => pt \in m.used /\ Is(o[pt], "user tables", s)
  BY <1>2, <1>3, <1>4, <1>5, <1>6
<1>8. /\ b.used = IF new THEN m.used \cup {pt} ELSE m.used
      /\ \A f \in Frame \ {pd, pt} : b.table[f] = m.table[f]
      /\ \A i \in Index \ {d} : b.table[pd][i] = m.table[pd][i]
      /\ b.table[pd][d] = IF new THEN [frame |-> pt, user |-> TRUE] ELSE m.table[pd][d]
      /\ \A j \in Index \ {t} : b.table[pt][j] = IF new THEN Absent ELSE m.table[pt][j]
      /\ b.table[pt][t] = [frame |-> frame, user |-> TRUE]
  <2>1. CASE new
    <3>1. /\ MapsTo(b, TakeFrame(m), pd, page, frame, TRUE, TRUE, pt)
          /\ TakeFrame(m).used = m.used \cup {pt} /\ TakeFrame(m).table = m.table
      BY <1>5, <1>6, <2>1
    <3> HIDE DEF pt, d, t
    <3>2. QED
      BY <2>1, <3>1 DEF MapsTo, d, t
  <2>2. CASE ~new
    <3>1. MapsTo(b, m, pd, page, frame, TRUE, FALSE, pt)
      BY <1>5, <1>6, <2>2
    <3> HIDE DEF pt, d, t
    <3>2. QED
      BY <2>2, <3>1 DEF MapsTo, d, t
  <2>3. QED
    BY <2>1, <2>2
<1> HIDE DEF pt, d, t
<1>9. /\ \A f \in m.used : f \in b.used /\ f \in Frame /\ o2[f] = o[f] /\ (f = pt => ~new)
      /\ pt \in b.used /\ Is(o2[pt], "user tables", s)
  <2>1. \A f \in m.used : f \in b.used /\ f \in Frame /\ ~(f = pt /\ new)
    BY <1>2, <1>7, <1>8
  <2>2. \A f \in m.used : o2[f] = o[f]
    BY <2>1
  <2>3. CASE new
    BY <1>7, <1>8, <2>1, <2>2, <2>3 DEF Is
  <2>4. CASE ~new
    BY <1>7, <1>8, <2>1, <2>2, <2>4
  <2>5. QED
    BY <2>1, <2>2, <2>3, <2>4
<1>10. b.table[pd][d].frame = pt
  <2>1. CASE new
    <3> DEFINE z == b.table[pd][d]
    <3>1. z = [frame |-> pt, user |-> TRUE]
      BY <1>8, <2>1
    <3> HIDE DEF z
    <3>2. z.frame = pt
      BY <3>1
    <3>3. QED
      BY <3>2 DEF z
  <2>2. CASE ~new
    BY <1>8, <2>2 DEF pt
  <2>3. QED
    BY <2>1, <2>2
<1>11. ASSUME NEW j \in Index, b.table[pt][j].user PROVE b.table[pt][j].frame \in u
  <2>1. CASE j = t
    <3> DEFINE z == b.table[pt][t]
    <3>1. z = [frame |-> frame, user |-> TRUE]
      BY <1>8
    <3> HIDE DEF z
    <3>2. z.frame = frame
      BY <3>1
    <3>3. QED
      BY <2>1, <3>2 DEF z
  <2>2. CASE j # t
    <3>1. b.table[pt][j] = IF new THEN Absent ELSE m.table[pt][j]
      BY <1>8, <2>2
    <3>2. CASE new
      <4>1. b.table[pt][j] = Absent /\ ~Absent.user
        BY <3>1, <3>2 DEF Absent
      <4>2. QED
        BY <1>11, <4>1
    <3>3. CASE ~new
      BY <1>4, <1>11, <3>1, <3>3 DEF pt
    <3>4. QED
      BY <3>2, <3>3
  <2>3. QED
    BY <2>1, <2>2
<1> HIDE DEF o2, e
<1>12. KernelOK(b, o2) /\ HeapPagesOK(b, c, o2) /\ b.table[kernel_pd] = m.table[kernel_pd]
  <2>1. KernelKept(m, o, b, o2)
    <3> SUFFICES ASSUME NEW f \in m.used
                 PROVE  /\ f \in b.used /\ o2[f] = o[f]
                        /\ o[f].kind \in {"directory", "kernel tables"} => b.table[f] = m.table[f]
      BY DEF KernelKept
    <3>1. ASSUME o[f].kind \in {"directory", "kernel tables"} PROVE b.table[f] = m.table[f]
      <4>1. f # pd /\ f # pt
        BY <1>3, <1>7, <1>9, <3>1 DEF Is
      <4>2. QED
        BY <1>8, <1>9, <4>1
    <3>2. QED
      BY <1>9, <3>1
  <2>2. m.used \subseteq Frame
    BY <1>2
  <2>3. ASSUME NEW m2, NEW o3, KernelKept(m, o, m2, o3)
        PROVE  KernelOK(m2, o3) /\ HeapPagesOK(m2, c, o3) /\ m2.table[kernel_pd] = m.table[kernel_pd]
    BY <2>2, <2>3, KernelStays
  <2>4. QED
    BY <2>1, <2>3
<1>13. DirectoryOK(b, s, pd, u, o2)
  <2>1. pd \in b.used /\ Is(o2[pd], "user directory", s)
    BY <1>3, <1>9
  <2>2. \A i \in Index : i >= KERNEL_PDE => b.table[pd][i] \in {Absent, b.table[kernel_pd][i]}
    <3> SUFFICES ASSUME NEW i \in Index, i >= KERNEL_PDE PROVE b.table[pd][i] \in {Absent, b.table[kernel_pd][i]}
      OBVIOUS
    <3>1. i # d
      BY <1>1, FrameAssumption DEF Index
    <3>2. QED
      BY <1>8, <1>12, <3>1 DEF DirectoryOK
  <2>3. ASSUME NEW i \in Index, i < KERNEL_PDE, b.table[pd][i] # Absent
        PROVE  /\ b.table[pd][i].frame \in b.used
               /\ Is(o2[b.table[pd][i].frame], "user tables", s)
               /\ \A j \in Index : b.table[b.table[pd][i].frame][j].user => b.table[b.table[pd][i].frame][j].frame \in u
    <3> DEFINE q == b.table[pd][i].frame
    <3>1. CASE q = pt
      BY <1>9, <1>11, <3>1
    <3>2. CASE q # pt
      <4>1. i # d
        BY <1>10, <3>2
      <4>2. b.table[pd][i] = m.table[pd][i]
        BY <1>8, <4>1
      <4>3. q \in m.used /\ Is(o[q], "user tables", s) /\ \A j \in Index : m.table[q][j].user => m.table[q][j].frame \in u
        BY <2>3, <4>2 DEF DirectoryOK
      <4> HIDE DEF q
      <4>4. q # pd
        BY <1>3, <4>3 DEF Is
      <4>5. b.table[q] = m.table[q] /\ q \in b.used /\ o2[q] = o[q]
        BY <1>8, <1>9, <3>2, <4>3, <4>4
      <4>6. QED
        BY <4>3, <4>5 DEF q
    <3>3. QED
      BY <3>1, <3>2
  <2>4. QED
    BY <2>1, <2>2, <2>3 DEF DirectoryOK
<1>14. Extends(m, o, b, o2, s)
  <2>1. ASSUME NEW f \in m.used, o[f].at # s PROVE b.table[f] = m.table[f]
    <3>1. f # pd /\ f # pt
      BY <1>3, <1>7, <1>9, <2>1 DEF Is
    <3>2. QED
      BY <1>8, <1>9, <3>1
  <2>2. QED
    BY <1>9, <1>12, <2>1 DEF Extends
<1>15. QED
  BY <1>12, <1>13, <1>14

(* Memory r in which some frames have been mapped for the user. *)
MapsUser(m, o, c, s, pd, u, r) ==
  /\ r \in MemoryType
  /\ r.panic = "no" => \E o2 : /\ KernelOK(r, o2) /\ HeapPagesOK(r, c, o2)
                               /\ DirectoryOK(r, s, pd, u, o2) /\ Extends(m, o, r, o2, s)

LEMMA UserMapped ==
  ASSUME NEW m \in MemoryType, m.panic = "no", NEW c \in 0 .. HeapRoom, NEW o, KernelOK(m, o), HeapPagesOK(m, c, o),
         NEW s, NEW pd, NEW base \in Nat, NEW u \in SUBSET Frame, DirectoryOK(m, s, pd, u, o),
         NEW page, NEW z \in Nat, base .. base + z - 1 \subseteq u, \A l \in 0 .. z - 1 : UserPage(page + l), page \in Nat
  PROVE  MapsUser(m, o, c, s, pd, u, MapUser(m, pd, page, base, z))
<1> DEFINE loop == <<"map", pd, page, base>>
           g == Loop(loop, m, z)
           S == {i \in 0 .. z : MapsUser(m, o, c, s, pd, u, g[i])}
<1>1. z \in Nat
  OBVIOUS
<1>2. g[0] = m /\ \A i \in 1 .. z : g[i] = MapStep(g[i - 1], pd, page, base, i)
  <2>1. \A y, i : Advance(loop, y, i) = MapStep(y, pd, page, base, i)
    BY DEF Advance
  <2> HIDE DEF loop, S
  <2>2. /\ Loop(loop, m, z)[0] = m
        /\ \A i \in 1 .. z : Loop(loop, m, z)[i] = Advance(loop, Loop(loop, m, z)[i - 1], i)
    <3>1. ASSUME NEW lp, NEW k
          PROVE  /\ Loop(lp, k, z)[0] = k
                 /\ \A i \in 1 .. z : Loop(lp, k, z)[i] = Advance(lp, Loop(lp, k, z)[i - 1], i)
      BY <1>1, LoopEquations
    <3> HIDE DEF g
    <3>2. QED
      BY <3>1
  <2>3. QED
    BY <2>1, <2>2
<1> HIDE DEF g
<1>3. 0 \in S
  <2>1. MapsUser(m, o, c, s, pd, u, m)
    BY ExtendsSelf DEF MapsUser
  <2>2. QED
    BY <1>1, <1>2, <2>1
<1>4. ASSUME NEW i \in 0 .. z - 1, i \in S PROVE i + 1 \in S
  <2> DEFINE r == g[i]
             l == i + 1
             q == g[l]
             frame == base + l - 1
  <2>1. MapsUser(m, o, c, s, pd, u, r)
    BY <1>4
  <2>2. i \in Nat /\ l \in 1 .. z /\ l \in 0 .. z /\ l - 1 = i /\ frame = base + i
    BY <1>1
  <2>3. frame \in u /\ frame \in Frame
    BY <1>1, <2>2
  <2>4. q = MapStep(r, pd, page, base, l)
    BY <1>2, <2>2
  <2> HIDE DEF r, q, l, frame
  <2>5. MapsUser(m, o, c, s, pd, u, q)
    <3>1. CASE r.panic # "no"
      <4>1. q = r
        BY <2>4, <3>1 DEF MapStep
      <4>2. QED
        BY <2>1, <4>1
    <3>2. CASE r.panic = "no"
      <4>1. q = vmm_map_page(r, pd, page + i, frame, TRUE) /\ UserPage(page + i)
        <5>1. page + l - 1 = page + i
          BY <2>2
        <5>2. QED
          BY <2>2, <2>4, <3>2, <5>1 DEF MapStep, frame
      <4>2. PICK ob : KernelOK(r, ob) /\ HeapPagesOK(r, c, ob) /\ DirectoryOK(r, s, pd, u, ob) /\ Extends(m, o, r, ob, s)
        BY <2>1, <3>2 DEF MapsUser
      <4>3. r \in MemoryType
        BY <2>1 DEF MapsUser
      <4>4. /\ q \in MemoryType
            /\ q.panic = "no" => \E oc : /\ KernelOK(q, oc) /\ HeapPagesOK(q, c, oc)
                                         /\ DirectoryOK(q, s, pd, u, oc) /\ Extends(r, ob, q, oc, s)
        BY <2>3, <3>2, <4>1, <4>2, <4>3, UserPageMapped
      <4>5. ASSUME q.panic = "no"
            PROVE  \E oc : /\ KernelOK(q, oc) /\ HeapPagesOK(q, c, oc)
                           /\ DirectoryOK(q, s, pd, u, oc) /\ Extends(m, o, q, oc, s)
        <5>1. PICK oc : KernelOK(q, oc) /\ HeapPagesOK(q, c, oc) /\ DirectoryOK(q, s, pd, u, oc) /\ Extends(r, ob, q, oc, s)
          BY <4>4, <4>5
        <5>2. Extends(m, o, q, oc, s)
          BY <4>2, <5>1, ExtendsTransitive
        <5>3. QED
          BY <5>1, <5>2
      <4>6. QED
        BY <4>4, <4>5 DEF MapsUser
    <3>3. QED
      BY <3>1, <3>2
  <2>6. QED
    BY <2>2, <2>5 DEF q, l
<1>5. z \in S
  <2> HIDE DEF S
  <2>1. \A i \in 0 .. z - 1 : i \in S => i + 1 \in S
    BY <1>4
  <2>2. \A i \in 0 .. z : i \in S
    BY <1>1, <1>3, <2>1, SetInduction
  <2>3. QED
    BY <1>1, <2>2
<1>6. MapUser(m, pd, page, base, z) = g[z]
  BY MapUserIsLoop DEF g
<1>7. QED
  BY <1>5, <1>6

(* A page taken out of the stack: the table loses an entry. *)
LEMMA StackPageUnmapped ==
  ASSUME NEW m \in MemoryType, NEW c \in 0 .. HeapRoom, NEW o, KernelOK(m, o), HeapPagesOK(m, c, o),
         NEW s, NEW pd, NEW u, DirectoryOK(m, s, pd, u, o), NEW l \in 0 .. USTACK - 1
  PROVE  LET r == vmm_unmap_page(m, pd, StackPage(l))
         IN /\ r \in MemoryType /\ r.used = m.used
            /\ KernelOK(r, o) /\ HeapPagesOK(r, c, o) /\ DirectoryOK(r, s, pd, u, o) /\ Extends(m, o, r, o, s)
<1> DEFINE page == StackPage(l)
           e == m.table[pd][PD_INDEX(page)]
           r == vmm_unmap_page(m, pd, page)
<1>1. page \in Pages /\ PD_INDEX(page) \in Index /\ PD_INDEX(page) < KERNEL_PDE
  <2>1. UserPage(page)
    BY StackPageIsUser
  <2> HIDE DEF page
  <2>2. QED
    BY <2>1, UserPageIsUser, PageIndices
<1>2. m.used \subseteq Frame
  BY FieldsOf
<1>3. pd \in m.used /\ Is(o[pd], "user directory", s) /\ kernel_pd \in m.used
  BY DEF DirectoryOK, KernelOK
<1>4. e # Absent => e.frame \in m.used /\ Is(o[e.frame], "user tables", s) /\ e.frame # pd
  BY <1>1, <1>3 DEF DirectoryOK, Is
<1> HIDE DEF page
<1>5. /\ r \in MemoryType /\ r.used = m.used
      /\ \A f \in Frame : (e # Absent => f # e.frame) => r.table[f] = m.table[f]
      /\ \A f \in Frame, j \in Index : r.table[f][j] \in {Absent, m.table[f][j]}
  BY <1>1, <1>2, <1>3, <1>4, UnmapClears
<1> HIDE DEF e, r
<1>6. \A f \in m.used : ~Is(o[f], "user tables", s) => r.table[f] = m.table[f]
  BY <1>2, <1>4, <1>5
<1>7. KernelOK(r, o) /\ HeapPagesOK(r, c, o) /\ r.table[kernel_pd] = m.table[kernel_pd]
  <2>1. KernelKept(m, o, r, o)
    BY <1>5, <1>6 DEF KernelKept, Is
  <2>2. QED
    BY <1>2, <2>1, KernelStays
<1>8. r.table[pd] = m.table[pd]
  BY <1>3, <1>6 DEF Is
<1>9. DirectoryOK(r, s, pd, u, o)
  <2>1. \A i \in Index : i >= KERNEL_PDE => r.table[pd][i] \in {Absent, r.table[kernel_pd][i]}
    BY <1>7, <1>8 DEF DirectoryOK
  <2>2. ASSUME NEW i \in Index, i < KERNEL_PDE, r.table[pd][i] # Absent
        PROVE  /\ r.table[pd][i].frame \in r.used
               /\ Is(o[r.table[pd][i].frame], "user tables", s)
               /\ \A j \in Index : r.table[r.table[pd][i].frame][j].user => r.table[r.table[pd][i].frame][j].frame \in u
    <3> DEFINE q == m.table[pd][i].frame
    <3>1. /\ r.table[pd][i].frame = q /\ q \in m.used /\ Is(o[q], "user tables", s)
          /\ \A j \in Index : m.table[q][j].user => m.table[q][j].frame \in u
      BY <1>8, <2>2 DEF DirectoryOK
    <3> HIDE DEF q
    <3>2. ASSUME NEW j \in Index, r.table[q][j].user PROVE r.table[q][j].frame \in u
      <4>1. ~Absent.user
        BY DEF Absent
      <4>2. r.table[q][j] \in {Absent, m.table[q][j]}
        BY <1>2, <1>5, <3>1
      <4>3. QED
        BY <3>1, <3>2, <4>1, <4>2
    <3>3. QED
      BY <1>5, <3>1, <3>2
  <2>3. QED
    BY <1>3, <1>5, <2>1, <2>2 DEF DirectoryOK
<1>10. Extends(m, o, r, o, s)
  BY <1>5, <1>6, <1>7 DEF Extends, Is
<1>11. QED
  BY <1>5, <1>7, <1>9, <1>10 DEF r, page
-----------------------------------------------------------------------------
(* The inductive invariant: there are owners for all that is in use. *)

Live(pt) == {s \in Slot : pt[s].pid # 0 /\ pt[s].state # "DEAD"}

Owns(m, n, pt, sf, o) ==
  /\ KernelOK(m, o) /\ HeapPagesOK(m, n, o)
  /\ \A s \in Live(pt) : ProcessOK(m, s, pt[s], o)
  /\ \A i \in SurfaceSlot : sf[i].active => FramesOK(m, FramesOf(sf[i]), "surface", i, o)

(* An identifier is never given twice, and a window has one of the past. *)
WindowInv ==
  /\ next_surface_id > 0
  /\ \A i \in SurfaceSlot : surfaces[i].active => surfaces[i].id > 0 /\ surfaces[i].id < next_surface_id
  /\ \A i, j \in SurfaceSlot : surfaces[i].active /\ surfaces[j].active /\ surfaces[i].id = surfaces[j].id => i = j
  /\ \A w \in WindowSlot : windows[w].surface_id < next_surface_id
  /\ \A w \in WindowSlot, i \in SurfaceSlot :
       surfaces[i].active /\ surfaces[i].id = windows[w].surface_id => surfaces[i].owner_pid = windows[w].for

PidInv == pid_counter > 0 /\ \A s \in Slot : process_table[s].ring = 3 => process_table[s].pid # 0

MemInv ==
  /\ mem \in MemoryType /\ HeapOK(heap) /\ ProcessTypeOK /\ SurfaceTypeOK
  /\ PidInv /\ WindowInv
  /\ \E o : Owns(mem, heap.cursor, process_table, surfaces, o)

LEMMA OwnsExtends ==
  ASSUME NEW m, NEW n, NEW pt, NEW sf, NEW o, Owns(m, n, pt, sf, o),
         NEW m2, NEW n2, Reaches(m, o, m2, n2, -1)
  PROVE  \E o2 : Owns(m2, n2, pt, sf, o2)
<1>1. PICK o2 : KernelOK(m2, o2) /\ HeapPagesOK(m2, n2, o2) /\ Extends(m, o, m2, o2, -1)
  BY DEF Reaches
<1>2. ASSUME NEW s \in Live(pt) PROVE ProcessOK(m2, s, pt[s], o2)
  <2>1. s # -1
    BY StackAssumption DEF Live, Slot
  <2>2. ProcessOK(m, s, pt[s], o)
    BY DEF Owns
  <2>3. QED
    BY <1>1, <2>1, <2>2, ProcessExtends
<1>3. ASSUME NEW i \in SurfaceSlot, sf[i].active PROVE FramesOK(m2, FramesOf(sf[i]), "surface", i, o2)
  BY <1>1, <1>3, FramesExtend DEF Owns
<1>4. Owns(m2, n2, pt, sf, o2)
  BY <1>1, <1>2, <1>3 DEF Owns
<1>5. QED
  BY <1>4

(* A panic leaves memory as it was. *)
LEMMA OwnsPanicked ==
  ASSUME MemInv, NEW message \in Messages
  PROVE  /\ Panicked(mem, message) \in MemoryType
         /\ \E o : Owns(Panicked(mem, message), heap.cursor, process_table, surfaces, o)
<1> DEFINE m2 == Panicked(mem, message)
           n == heap.cursor
<1>1. m2 \in MemoryType /\ m2.used = mem.used /\ m2.table = mem.table
  BY PanickedType DEF MemInv
<1>2. PICK o : Owns(mem, n, process_table, surfaces, o)
  BY DEF MemInv
<1>3. n \in 0 .. HeapRoom /\ mem.used \subseteq Frame
  BY HeapFields, FieldsOf DEF MemInv, HeapOK
<1> HIDE DEF m2, n
<1>4. KernelOK(mem, o) /\ HeapPagesOK(mem, n, o)
  BY <1>2 DEF Owns
<1>5. KernelOK(m2, o) /\ HeapPagesOK(m2, n, o) /\ Extends(mem, o, m2, o, -1)
  BY <1>1, <1>3, <1>4, KernelSame
<1>6. Reaches(mem, o, m2, n, -1)
  BY <1>5 DEF Reaches
<1>7. \E o2 : Owns(m2, n, process_table, surfaces, o2)
  BY <1>2, <1>6, OwnsExtends
<1>8. QED
  BY <1>1, <1>7 DEF m2, n

LEMMA InitOwns == Init => MemInv
<1> SUFFICES ASSUME Init PROVE MemInv
  OBVIOUS
<1> DEFINE m == vmm_init(Blank)
           o == [f \in Frame |-> [kind |-> "directory", at |-> 0]]
           k0 == Kernel(m, EmptyHeap)
           k == heap_init(m)
<1>1. m \in MemoryType /\ m.panic = "no" /\ KernelOK(m, o)
  BY VmmInitOwns
<1>2. mem = k.mem /\ heap = k.heap /\ ProcessInit /\ SurfaceInit
  BY DEF Init
<1> HIDE DEF m, o
<1>3. HeapStep(k0, o, -1, k)
  BY <1>1, HeapInitMaps
<1> HIDE DEF k0, k
<1>4. mem \in MemoryType /\ HeapOK(heap) /\ Reaches(k0.mem, o, mem, heap.cursor, -1)
  BY <1>2, <1>3, KernelFields DEF HeapStep
<1>5. PICK o2 : KernelOK(mem, o2) /\ HeapPagesOK(mem, heap.cursor, o2)
  BY <1>4 DEF Reaches
<1>6. \A s \in Slot : process_table[s] = Cleared
  BY <1>2 DEF ProcessInit
<1>7. \A i \in SurfaceSlot : surfaces[i] = NoSurface
  BY <1>2 DEF SurfaceInit
<1>8. Cleared.pid = 0 /\ Cleared.ring = 0 /\ ~NoSurface.active
  BY DEF Cleared, NoSurface
<1>9. Owns(mem, heap.cursor, process_table, surfaces, o2)
  BY <1>5, <1>6, <1>7, <1>8 DEF Owns, Live
<1>10. ProcessTypeOK /\ PidInv
  <2>1. Cleared \in [pid : Nat, state : {"READY", "ZOMBIE", "DEAD"}, ring : {0, 3},
                     page_dir : -1 .. FRAMES - 1, kstack : SUBSET Frame, ustack : SUBSET Frame,
                     granted : SUBSET Frame]
    BY FrameAssumption DEF Cleared
  <2>2. process_table = [s \in Slot |-> Cleared] /\ pid_counter = 1
    BY <1>2 DEF ProcessInit
  <2>3. QED
    BY <1>6, <1>8, <2>1, <2>2 DEF ProcessTypeOK, PidInv
<1>11. SurfaceTypeOK /\ WindowInv
  <2>1. NoSurface \in [id : Nat, owner_pid : Nat, width : Nat, height : Nat, phys_base : Frame, active : BOOLEAN]
    BY FrameAssumption DEF NoSurface, Frame
  <2> DEFINE none == [surface_id |-> 0, for |-> 0]
  <2>2. none \in [surface_id : Nat, for : Nat] /\ none.surface_id = 0
    OBVIOUS
  <2>3. surfaces = [i \in SurfaceSlot |-> NoSurface] /\ next_surface_id = 1 /\ windows = [i \in WindowSlot |-> none]
    BY <1>2 DEF SurfaceInit
  <2> HIDE DEF none
  <2>4. SurfaceTypeOK
    BY <2>1, <2>2, <2>3 DEF SurfaceTypeOK
  <2>5. \A w \in WindowSlot : windows[w].surface_id = 0
    BY <2>2, <2>3
  <2>6. QED
    BY <1>7, <1>8, <2>3, <2>4, <2>5 DEF WindowInv
<1>12. QED
  BY <1>4, <1>9, <1>10, <1>11 DEF MemInv

(* The parts of the invariant that are not about memory. *)
Others == ProcessTypeOK /\ SurfaceTypeOK /\ PidInv /\ WindowInv

LEMMA OthersStay ==
  ASSUME Others, UNCHANGED <<processVars, surfaceVars>>
  PROVE  Others'
BY DEF Others, processVars, surfaceVars, ProcessTypeOK, SurfaceTypeOK, PidInv, WindowInv

LEMMA ReturnsKeeps ==
  ASSUME MemInv, NEW STATE k, k.mem \in MemoryType, Returns(k), UNCHANGED <<processVars, surfaceVars>>,
         k.mem.panic = "no" => \A o : Owns(mem, heap.cursor, process_table, surfaces, o) =>
                                        HeapStep(Kernel(mem, heap), o, -1, k)
  PROVE  MemInv'
<1> DEFINE k0 == Kernel(mem, heap)
<1>1. k0.mem = mem /\ k0.heap = heap
  BY DEF Kernel
<1> HIDE DEF k0
<1>2. Others'
  BY OthersStay DEF MemInv, Others
<1>3. process_table' = process_table /\ surfaces' = surfaces
  BY DEF processVars, surfaceVars
<1>4. CASE k.mem.panic # "no"
  <2>1. mem' = Panicked(mem, k.mem.panic) /\ heap' = heap
    BY <1>4 DEF Returns
  <2>2. k.mem.panic \in Messages
    BY FieldsOf
  <2>3. mem' \in MemoryType /\ \E o : Owns(mem', heap.cursor, process_table, surfaces, o)
    BY <2>1, <2>2, OwnsPanicked
  <2>4. HeapOK(heap')
    BY <2>1 DEF MemInv
  <2>5. QED
    BY <1>2, <1>3, <2>1, <2>3, <2>4 DEF MemInv, Others
<1>5. CASE k.mem.panic = "no"
  <2>1. mem' = k.mem /\ heap' = k.heap
    BY <1>5 DEF Returns
  <2>2. PICK o : Owns(mem, heap.cursor, process_table, surfaces, o)
    BY DEF MemInv
  <2>3. HeapStep(k0, o, -1, k)
    BY <1>5, <2>2 DEF k0
  <2>4. HeapOK(heap') /\ Reaches(mem, o, mem', heap'.cursor, -1)
    BY <1>1, <2>1, <2>3 DEF HeapStep
  <2>5. \E o2 : Owns(mem', heap'.cursor, process_table, surfaces, o2)
    <3> DEFINE m2 == mem'
               n2 == heap'.cursor
    <3>1. Reaches(mem, o, m2, n2, -1)
      BY <2>4
    <3> HIDE DEF m2, n2
    <3>2. \E o2 : Owns(m2, n2, process_table, surfaces, o2)
      BY <2>2, <3>1, OwnsExtends
    <3>3. QED
      BY <3>2 DEF m2, n2
  <2>6. QED
    BY <1>2, <1>3, <2>1, <2>4, <2>5 DEF MemInv, Others
<1>6. QED
  BY <1>4, <1>5

LEMMA HeapKeeps ==
  ASSUME MemInv, HeapCall
  PROVE  MemInv'
<1> DEFINE k == Kernel(mem, heap)
<1>1. mem.panic = "no" /\ UNCHANGED <<processVars, surfaceVars>>
  BY DEF HeapCall, Running
<1>2. k \in KernelType /\ k.mem = mem /\ k.heap = heap
  BY DEF MemInv, HeapOK, Kernel, KernelType
<1>3. HeapOK(heap) /\ \A o : Owns(mem, heap.cursor, process_table, surfaces, o) =>
                                KernelOK(mem, o) /\ HeapPagesOK(mem, heap.cursor, o)
  BY DEF MemInv, Owns
<1> HIDE DEF k
<1>4. CASE k_malloc
  <2>1. PICK size \in RequestSizes : Returns(Malloc(k, size).k)
    BY <1>4 DEF k_malloc, k
  <2>2. k.heap.cursor < MaxPages /\ k.mem.panic = "no" /\ HeapOK(k.heap)
    BY <1>1, <1>2, <1>3, <1>4 DEF k_malloc, Room
  <2> DEFINE r == Malloc(k, size).k
  <2>3. ASSUME NEW o, Owns(mem, heap.cursor, process_table, surfaces, o)
        PROVE  r.mem \in MemoryType /\ (r.mem.panic = "no" => HeapStep(k, o, -1, r))
    <3>1. KernelOK(k.mem, o) /\ HeapPagesOK(k.mem, k.heap.cursor, o)
      BY <1>2, <1>3, <2>3
    <3>2. QED
      BY <1>2, <2>2, <3>1, MallocHandsOut
  <2> HIDE DEF r
  <2>4. r.mem \in MemoryType
    BY <2>3 DEF MemInv
  <2>5. Returns(r)
    BY <2>1 DEF r
  <2>6. QED
    BY <1>1, <2>3, <2>4, <2>5, ReturnsKeeps DEF k
<1>5. CASE k_free
  <2>1. PICK q \in heap.live : Returns(Free(k, q.ptr))
    BY <1>5 DEF k_free, k
  <2> DEFINE r == Free(k, q.ptr)
  <2>2. r \in KernelType /\ HeapOK(r.heap) /\ SameMemory(k, r)
    BY <1>2, <1>3, FreeGivesBack
  <2>3. Returns(r)
    BY <2>1
  <2> HIDE DEF r
  <2>4. ASSUME NEW o, Owns(mem, heap.cursor, process_table, surfaces, o) PROVE HeapStep(k, o, -1, r)
    <3> DEFINE m == mem
               m2 == r.mem
               n == heap.cursor
    <3>1. m.used \subseteq m2.used /\ m2.table = m.table /\ m.used \subseteq Frame /\ n \in 0 .. HeapRoom /\ r.heap.cursor = n
      BY <1>2, <1>3, <2>2, KernelFields, HeapFields, FieldsOf DEF SameMemory
    <3>2. KernelOK(m, o) /\ HeapPagesOK(m, n, o)
      BY <1>3, <2>4
    <3> HIDE DEF m, m2, n
    <3>3. KernelOK(m2, o) /\ HeapPagesOK(m2, n, o) /\ Extends(m, o, m2, o, -1)
      BY <3>1, <3>2, KernelSame
    <3>4. QED
      BY <1>2, <2>2, <3>1, <3>3 DEF HeapStep, Reaches, m, m2, n
  <2>5. r.mem \in MemoryType
    BY <2>2, KernelFields
  <2>6. QED
    BY <1>1, <2>3, <2>4, <2>5, ReturnsKeeps DEF k
<1>6. CASE k_realloc
  <2>1. PICK q \in heap.live, size \in RequestSizes : Returns(Realloc(k, q.ptr, size))
    BY <1>6 DEF k_realloc, k
  <2>2. k.heap.cursor < MaxPages /\ k.mem.panic = "no" /\ HeapOK(k.heap) /\ q \in k.heap.live
    BY <1>1, <1>2, <1>3, <1>6 DEF k_realloc, Room
  <2> DEFINE r == Realloc(k, q.ptr, size)
  <2>3. ASSUME NEW o, Owns(mem, heap.cursor, process_table, surfaces, o)
        PROVE  r.mem \in MemoryType /\ (r.mem.panic = "no" => HeapStep(k, o, -1, r))
    <3>1. KernelOK(k.mem, o) /\ HeapPagesOK(k.mem, k.heap.cursor, o)
      BY <1>2, <1>3, <2>3
    <3>2. QED
      BY <1>2, <2>2, <3>1, ReallocMoves
  <2>4. Returns(r)
    BY <2>1
  <2> HIDE DEF r
  <2>5. r.mem \in MemoryType
    BY <2>3 DEF MemInv
  <2>6. QED
    BY <1>1, <2>3, <2>4, <2>5, ReturnsKeeps DEF k
<1>7. CASE StoreMagic
  <2>1. PICK q \in heap.live : heap' = [heap EXCEPT !.magic = @ \cup {q.ptr + q.size - 1}] /\ mem' = mem
    BY <1>7 DEF StoreMagic
  <2>2. heap \in HeapType /\ ListsOK(heap.cursor, heap.free_list, heap.live)
    BY <1>3 DEF HeapOK
  <2>3. q.ptr + q.size - 1 \in Nat
    <3>1. q.ptr \in Nat /\ q.size \in Nat /\ q.size > 0
      BY <2>2, HeapFields DEF ListsOK
    <3>2. QED
      BY <3>1
  <2>4. /\ heap' \in HeapType /\ heap'.cursor = heap.cursor /\ heap'.free_list = heap.free_list
        /\ heap'.live = heap.live
    <3> DEFINE u == q.ptr + q.size - 1
    <3>1. u \in Nat
      BY <2>3
    <3>2. heap' = [heap EXCEPT !.magic = @ \cup {u}]
      BY <2>1
    <3> HIDE DEF u
    <3>3. QED
      BY <2>2, <3>1, <3>2 DEF HeapType
  <2>5. HeapOK(heap')
    BY <2>2, <2>4 DEF HeapOK
  <2>6. Others' /\ process_table' = process_table /\ surfaces' = surfaces
    BY <1>1, OthersStay DEF MemInv, Others, processVars, surfaceVars
  <2>7. mem' \in MemoryType /\ \E o : Owns(mem', heap'.cursor, process_table', surfaces', o)
    BY <2>1, <2>4, <2>6 DEF MemInv
  <2>8. QED
    BY <2>5, <2>6, <2>7 DEF MemInv, Others
<1>8. QED
  BY <1>4, <1>5, <1>6, <1>7 DEF HeapCall

ProcessType == [pid : Nat, state : {"READY", "ZOMBIE", "DEAD"}, ring : {0, 3},
                page_dir : -1 .. FRAMES - 1, kstack : SUBSET Frame, ustack : SUBSET Frame,
                granted : SUBSET Frame]

(* Memory m2 has what process p in slot s needs, and the rest as before. *)
Made(m, n, o, s, p, m2) ==
  \E o2 : KernelOK(m2, o2) /\ HeapPagesOK(m2, n, o2) /\ Extends(m, o, m2, o2, s) /\ ProcessOK(m2, s, p, o2)

LEMMA MadeOwns ==
  ASSUME NEW m, NEW n, NEW pt, NEW sf, NEW o, Owns(m, n, pt, sf, o), NEW s \in Slot, NEW p, NEW m2, Made(m, n, o, s, p, m2),
         NEW pt2, pt2[s] = p, \A z \in Slot \ {s} : pt2[z] = pt[z]
  PROVE  \E o2 : Owns(m2, n, pt2, sf, o2)
<1>1. PICK o2 : KernelOK(m2, o2) /\ HeapPagesOK(m2, n, o2) /\ Extends(m, o, m2, o2, s) /\ ProcessOK(m2, s, p, o2)
  BY DEF Made
<1>2. ASSUME NEW z \in Live(pt2) PROVE ProcessOK(m2, z, pt2[z], o2)
  <2>1. CASE z = s
    BY <1>1, <2>1
  <2>2. CASE z # s
    <3>1. z \in Slot /\ pt2[z] = pt[z] /\ z \in Live(pt)
      BY <2>2 DEF Live
    <3>2. ProcessOK(m, z, pt[z], o)
      BY <3>1 DEF Owns
    <3>3. ProcessOK(m2, z, pt[z], o2)
      BY <1>1, <2>2, <3>2, ProcessExtends
    <3>4. QED
      BY <3>1, <3>3
  <2>3. QED
    BY <2>1, <2>2
<1>3. ASSUME NEW i \in SurfaceSlot, sf[i].active PROVE FramesOK(m2, FramesOf(sf[i]), "surface", i, o2)
  BY <1>1, <1>3, FramesExtend DEF Owns
<1>4. Owns(m2, n, pt2, sf, o2)
  BY <1>1, <1>2, <1>3 DEF Owns
<1>5. QED
  BY <1>4

LEMMA SurfacesStay ==
  ASSUME MemInv, UNCHANGED surfaceVars
  PROVE  SurfaceTypeOK' /\ WindowInv'
BY DEF MemInv, surfaceVars, SurfaceTypeOK, WindowInv

LEMMA CreateKeeps ==
  ASSUME MemInv, NEW STATE m, m \in MemoryType, NEW STATE p, p \in ProcessType, p.pid = pid_counter,
         m.panic = "no" => \A o : \A s \in Slot : Owns(mem, heap.cursor, process_table, surfaces, o) =>
                                                Made(mem, heap.cursor, o, s, p, m),
         Create(m, p), UNCHANGED <<heap, surfaceVars>>
  PROVE  MemInv'
<1> DEFINE s == Min(Dead)
<1>1. heap' = heap /\ UNCHANGED surfaceVars /\ surfaces' = surfaces /\ HeapOK(heap')
  BY DEF MemInv, surfaceVars
<1>2. SurfaceTypeOK' /\ WindowInv'
  BY <1>1, SurfacesStay
<1>3. ASSUME NEW message \in Messages, mem' = Panicked(mem, message), UNCHANGED <<process_table, pid_counter>>
      PROVE  MemInv'
  <2>1. mem' \in MemoryType /\ \E o : Owns(mem', heap.cursor, process_table, surfaces, o)
    BY <1>3, OwnsPanicked
  <2>2. ProcessTypeOK' /\ PidInv'
    BY <1>3 DEF MemInv, ProcessTypeOK, PidInv
  <2>3. QED
    BY <1>1, <1>2, <1>3, <2>1, <2>2 DEF MemInv
<1>4. CASE Dead = {}
  <2>1. mem' = Panicked(mem, "process table full") /\ UNCHANGED <<process_table, pid_counter>>
    BY <1>4 DEF Create
  <2>2. "process table full" \in Messages
    BY DEF Messages
  <2>3. QED
    BY <1>3, <2>1, <2>2
<1>5. CASE Dead # {} /\ m.panic # "no"
  <2>1. mem' = Panicked(mem, m.panic) /\ UNCHANGED <<process_table, pid_counter>>
    BY <1>5 DEF Create
  <2>2. m.panic \in Messages
    BY FieldsOf
  <2>3. QED
    BY <1>3, <2>1, <2>2
<1>6. CASE Dead # {} /\ m.panic = "no"
  <2>1. mem' = m /\ process_table' = [process_table EXCEPT ![s] = p] /\ pid_counter' = pid_counter + 1
    BY <1>6 DEF Create
  <2>2. s \in Slot
    <3>1. Dead \in SUBSET Nat /\ Dead \subseteq Slot
      BY StackAssumption DEF Dead, Slot
    <3>2. QED
      BY <1>6, <3>1, MinIsLeast
  <2> HIDE DEF s
  <2>3. process_table \in [Slot -> ProcessType] /\ pid_counter \in Nat /\ pid_counter > 0
    BY DEF MemInv, ProcessTypeOK, PidInv, ProcessType
  <2>4. /\ process_table' \in [Slot -> ProcessType] /\ process_table'[s] = p
        /\ \A z \in Slot \ {s} : process_table'[z] = process_table[z]
    BY <2>1, <2>2, <2>3
  <2>5. ProcessTypeOK'
    BY <2>1, <2>3, <2>4 DEF ProcessTypeOK, ProcessType
  <2>6. PidInv'
    <3>1. p.pid # 0 /\ pid_counter' > 0
      BY <2>1, <2>3
    <3>2. QED
      BY <2>4, <3>1 DEF MemInv, PidInv
  <2>7. PICK o : Owns(mem, heap.cursor, process_table, surfaces, o)
    BY DEF MemInv
  <2>8. Made(mem, heap.cursor, o, s, p, m)
    BY <1>6, <2>2, <2>7
  <2>9. \E o2 : Owns(m, heap.cursor, process_table', surfaces, o2)
    <3> DEFINE pt2 == process_table'
    <3>1. pt2[s] = p /\ \A z \in Slot \ {s} : pt2[z] = process_table[z]
      BY <2>4
    <3> HIDE DEF pt2
    <3>2. \E o2 : Owns(m, heap.cursor, pt2, surfaces, o2)
      BY <2>2, <2>7, <2>8, <3>1, MadeOwns
    <3>3. QED
      BY <3>2 DEF pt2
  <2>10. QED
    BY <1>1, <1>2, <2>1, <2>5, <2>6, <2>9 DEF MemInv
<1>7. QED
  BY <1>4, <1>5, <1>6

LEMMA TaskKeeps ==
  ASSUME MemInv, mem.panic = "no", process_create, UNCHANGED <<heap, surfaceVars>>
  PROVE  MemInv'
<1> DEFINE m == TakeRun(mem, KSTACK)
           F == Min(Runs(mem, KSTACK)) .. Min(Runs(mem, KSTACK)) + KSTACK - 1
           p == [pid |-> pid_counter, state |-> "READY", ring |-> 0, page_dir |-> kernel_pd,
                 kstack |-> F, ustack |-> {}, granted |-> {}]
<1>1. KSTACK \in Nat /\ mem \in MemoryType /\ pid_counter \in Nat /\ heap.cursor \in 0 .. HeapRoom
  BY StackAssumption, HeapFields DEF MemInv, ProcessTypeOK, HeapOK
<1>2. Create(m, p)
  BY DEF process_create, TaskMem, Run
<1>3. m \in MemoryType /\ (m.panic = "no" => F \in SUBSET Frame)
  BY <1>1, TakeRunTakes
<1>4. CASE m.panic = "no"
  <2>1. F \in SUBSET Frame
    BY <1>3, <1>4
  <2>2. \A o : \A s \in Slot : Owns(mem, heap.cursor, process_table, surfaces, o) =>
           \E o2 : /\ KernelOK(m, o2) /\ HeapPagesOK(m, heap.cursor, o2) /\ Kept(mem, o, m, o2)
                   /\ FramesOK(m, F, "kernel stack", s, o2)
    <3> SUFFICES ASSUME NEW s \in Slot, NEW o, Owns(mem, heap.cursor, process_table, surfaces, o)
                 PROVE  \E o2 : /\ KernelOK(m, o2) /\ HeapPagesOK(m, heap.cursor, o2) /\ Kept(mem, o, m, o2)
                                /\ FramesOK(m, F, "kernel stack", s, o2)
      OBVIOUS
    <3>1. KernelOK(mem, o) /\ HeapPagesOK(mem, heap.cursor, o)
      BY DEF Owns
    <3>2. QED
      BY <1>1, <1>4, <3>1, RunTaken
  <2> HIDE DEF m, F
  <2>3. p \in ProcessType /\ p.pid = pid_counter /\ p.ring = 0 /\ p.kstack = F /\ p.ustack = {}
    BY <1>1, <2>1, FrameAssumption DEF ProcessType, kernel_pd
  <2> HIDE DEF p
  <2>4. \A o : \A s \in Slot : Owns(mem, heap.cursor, process_table, surfaces, o) => Made(mem, heap.cursor, o, s, p, m)
    <3> SUFFICES ASSUME NEW s \in Slot, NEW o, Owns(mem, heap.cursor, process_table, surfaces, o)
                 PROVE  Made(mem, heap.cursor, o, s, p, m)
      OBVIOUS
    <3>1. PICK o2 : /\ KernelOK(m, o2) /\ HeapPagesOK(m, heap.cursor, o2) /\ Kept(mem, o, m, o2)
                    /\ FramesOK(m, F, "kernel stack", s, o2)
      BY <2>2
    <3>2. kernel_pd \in mem.used
      BY DEF Owns, KernelOK
    <3>3. Extends(mem, o, m, o2, s)
      BY <3>1, <3>2, KeptExtends
    <3>4. ProcessOK(m, s, p, o2)
      <4>1. FramesOK(m, {}, "user stack", s, o2)
        BY DEF FramesOK
      <4>2. p.ring # 3
        BY <2>3
      <4>3. QED
        BY <2>3, <3>1, <4>1, <4>2 DEF ProcessOK
    <3>5. QED
      BY <3>1, <3>3, <3>4 DEF Made
  <2>5. QED
    BY <1>2, <1>3, <2>3, <2>4, CreateKeeps
<1>5. CASE m.panic # "no"
  <2> DEFINE q == [pid |-> pid_counter, state |-> "READY", ring |-> 0, page_dir |-> kernel_pd, kstack |-> {}, ustack |-> {}, granted |-> {}]
  <2>1. Create(m, q)
    BY <1>2, <1>5 DEF Create
  <2> HIDE DEF m
  <2>2. q \in ProcessType /\ q.pid = pid_counter
    BY <1>1, FrameAssumption DEF ProcessType, kernel_pd
  <2> HIDE DEF q
  <2>3. QED
    BY <1>3, <1>5, <2>1, <2>2, CreateKeeps
<1>6. QED
  BY <1>4, <1>5

(* The memory process_spawn_ring3 leaves, and what it holds of the new     *)
(* process.                                                                *)
LEMMA SpawnMakes ==
  ASSUME MemInv, mem.panic = "no"
  PROVE  /\ SpawnMem \in MemoryType
         /\ SpawnMem.panic = "no" =>
              LET p == [pid |-> pid_counter, state |-> "READY", ring |-> 3, page_dir |-> NextFit(mem),
                        kstack |-> Run(SpawnPd, KSTACK), ustack |-> Run(SpawnKstack, USTACK), granted |-> {}]
              IN /\ p \in ProcessType /\ p.pid = pid_counter
                 /\ \A o : \A s \in Slot : Owns(mem, heap.cursor, process_table, surfaces, o) =>
                                         Made(mem, heap.cursor, o, s, p, SpawnMem)
<1> DEFINE a == SpawnPd
           b == SpawnKstack
           d == SpawnUstack
           pd == NextFit(mem)
           K == Run(a, KSTACK)
           base == Min(Runs(b, USTACK))
           U == Run(b, USTACK)
           e == MapUser(d, pd, StackPage(0), base, USTACK)
           top == Max(K)
           n == heap.cursor
<1>1. /\ KSTACK \in Nat /\ USTACK \in Nat /\ mem \in MemoryType /\ pid_counter \in Nat /\ n \in 0 .. HeapRoom
  BY StackAssumption, HeapFields DEF MemInv, ProcessTypeOK, HeapOK
<1>2. SpawnMem = IF a.panic # "no" THEN a ELSE IF b.panic # "no" THEN b ELSE IF d.panic # "no" THEN d
                ELSE IF e.panic # "no" THEN e ELSE IF top < DIRECT THEN e ELSE Panicked(e, "Page Fault")
  BY DEF SpawnMem, SpawnMapped, Reaching
<1>3. a \in MemoryType /\ a = vmm_create_user_pd(mem)
  BY <1>1, CreatePdCopies DEF SpawnPd
<1>4. CASE a.panic # "no"
  BY <1>2, <1>3, <1>4
<1>5. CASE a.panic = "no"
  <2> HIDE DEF a, n
  <2>1. b \in MemoryType /\ b = TakeRun(a, KSTACK)
    BY <1>1, <1>3, <1>5, TakeRunTakes DEF SpawnKstack, a
  <2>2. CASE b.panic # "no"
    BY <1>2, <1>5, <2>1, <2>2
  <2>3. CASE b.panic = "no"
    <3> HIDE DEF b
    <3>1. d \in MemoryType /\ d = TakeRun(b, USTACK)
      BY <1>1, <2>1, <2>3, TakeRunTakes DEF SpawnUstack, b
    <3>2. CASE d.panic # "no"
      BY <1>2, <1>5, <2>3, <3>1, <3>2
    <3>3. CASE d.panic = "no"
      <4> HIDE DEF d
      <4>1. SpawnMem = e \/ SpawnMem = Panicked(e, "Page Fault")
        BY <1>2, <1>5, <2>3, <3>3
      <4>2. ASSUME NEW s, NEW o, Owns(mem, n, process_table, surfaces, o)
            PROVE  /\ pd \in Frame /\ K \in SUBSET Frame /\ U \in SUBSET Frame /\ e \in MemoryType
                   /\ e.panic = "no" =>
                        \E o4 : /\ KernelOK(e, o4) /\ HeapPagesOK(e, n, o4) /\ Extends(mem, o, e, o4, s)
                                /\ FramesOK(e, K, "kernel stack", s, o4) /\ FramesOK(e, U, "user stack", s, o4)
                                /\ DirectoryOK(e, s, pd, U, o4)
        <5>1. KernelOK(mem, o) /\ HeapPagesOK(mem, n, o)
          BY <4>2 DEF Owns
        <5>2. /\ pd \in Frame
              /\ \E o1 : KernelOK(a, o1) /\ HeapPagesOK(a, n, o1) /\ Kept(mem, o, a, o1) /\ DirectoryOK(a, s, pd, U, o1)
          <6> HIDE DEF U
          <6>1. vmm_create_user_pd(mem).panic = "no"
            BY <1>3, <1>5
          <6>2. QED
            BY <1>1, <1>3, <5>1, <6>1, DirectoryMade
        <5>3. PICK o1 : KernelOK(a, o1) /\ HeapPagesOK(a, n, o1) /\ Kept(mem, o, a, o1) /\ DirectoryOK(a, s, pd, U, o1)
          BY <5>2
        <5>4. /\ K \in SUBSET Frame
              /\ \E o2 : KernelOK(b, o2) /\ HeapPagesOK(b, n, o2) /\ Kept(a, o1, b, o2) /\ FramesOK(b, K, "kernel stack", s, o2)
          <6>1. TakeRun(a, KSTACK).panic = "no"
            BY <2>1, <2>3
          <6>2. QED
            BY <1>1, <1>3, <1>5, <2>1, <5>3, <6>1, RunTaken DEF Run
        <5>5. PICK o2 : KernelOK(b, o2) /\ HeapPagesOK(b, n, o2) /\ Kept(a, o1, b, o2) /\ FramesOK(b, K, "kernel stack", s, o2)
          BY <5>4
        <5>6. /\ U \in SUBSET Frame /\ base \in Frame
              /\ \E o3 : KernelOK(d, o3) /\ HeapPagesOK(d, n, o3) /\ Kept(b, o2, d, o3) /\ FramesOK(d, U, "user stack", s, o3)
          <6>1. TakeRun(b, USTACK).panic = "no"
            BY <3>1, <3>3
          <6>2. QED
            BY <1>1, <2>1, <2>3, <3>1, <5>5, <6>1, RunTaken DEF Run
        <5>7. PICK o3 : KernelOK(d, o3) /\ HeapPagesOK(d, n, o3) /\ Kept(b, o2, d, o3) /\ FramesOK(d, U, "user stack", s, o3)
          BY <5>6
        <5> DEFINE other == CHOOSE y : y # s
        <5>8. other # s
          <6>1. \E y : y # s
            <7>1. 0 # 1
              OBVIOUS
            <7>2. QED
              BY <7>1
          <6>2. QED
            BY <6>1
        <5> HIDE DEF other, K, U, pd
        <5>9. kernel_pd \in mem.used /\ kernel_pd \in a.used /\ kernel_pd \in b.used
          BY <5>1, <5>3, <5>5 DEF KernelOK
        <5>10. \A x : Extends(mem, o, a, o1, x) /\ Extends(a, o1, b, o2, x) /\ Extends(b, o2, d, o3, x)
          BY <5>3, <5>5, <5>7, <5>9, KeptExtends
        <5>11. DirectoryOK(b, s, pd, U, o2)
          BY <5>3, <5>8, <5>10, DirectoryExtends
        <5>12. DirectoryOK(d, s, pd, U, o3)
          BY <5>8, <5>10, <5>11, DirectoryExtends
        <5>13. FramesOK(d, K, "kernel stack", s, o3)
          BY <5>5, <5>10, FramesExtend
        <5>14. Extends(mem, o, d, o3, s)
          <6>1. Extends(mem, o, b, o2, s)
            BY <5>10, ExtendsTransitive
          <6>2. QED
            BY <5>10, <6>1, ExtendsTransitive
        <5>15. MapsUser(d, o3, n, s, pd, U, e)
          <6>1. U = base .. base + USTACK - 1
            BY DEF U, Run
          <6>2. U \in SUBSET Frame /\ base \in Frame
            BY <5>6
          <6> HIDE DEF base
          <6>3. base \in Nat
            BY <6>2, FrameAssumption DEF Frame
          <6>4. \A l \in 0 .. USTACK - 1 : UserPage(StackPage(0) + l)
            BY StackPageIsUser
          <6>5. StackPage(0) \in Nat
            BY FrameAssumption, StackAssumption DEF StackPage
          <6>6. QED
            BY <1>1, <3>1, <3>3, <5>7, <5>12, <6>1, <6>2, <6>3, <6>4, <6>5, UserMapped
        <5> HIDE DEF e
        <5>16. ASSUME e.panic = "no"
               PROVE  \E o4 : /\ KernelOK(e, o4) /\ HeapPagesOK(e, n, o4) /\ Extends(mem, o, e, o4, s)
                              /\ FramesOK(e, K, "kernel stack", s, o4) /\ FramesOK(e, U, "user stack", s, o4)
                              /\ DirectoryOK(e, s, pd, U, o4)
          <6>1. PICK o4 : KernelOK(e, o4) /\ HeapPagesOK(e, n, o4) /\ DirectoryOK(e, s, pd, U, o4) /\ Extends(d, o3, e, o4, s)
            BY <5>15, <5>16 DEF MapsUser
          <6>2. Extends(mem, o, e, o4, s)
            BY <5>14, <6>1, ExtendsTransitive
          <6>3. FramesOK(e, K, "kernel stack", s, o4)
            BY <5>13, <6>1, FramesExtend
          <6>4. FramesOK(e, U, "user stack", s, o4)
            BY <5>7, <6>1, FramesExtend
          <6>5. QED
            BY <6>1, <6>2, <6>3, <6>4
        <5>17. e \in MemoryType
          BY <5>15 DEF MapsUser
        <5>18. QED
          BY <5>2, <5>4, <5>6, <5>16, <5>17
      <4> HIDE DEF K, U, pd, e
      <4>3. \E o : Owns(mem, n, process_table, surfaces, o)
        BY DEF MemInv, n
      <4>4. pd \in Frame /\ K \in SUBSET Frame /\ U \in SUBSET Frame /\ e \in MemoryType
        BY <4>2, <4>3
      <4> DEFINE p == [pid |-> pid_counter, state |-> "READY", ring |-> 3, page_dir |-> pd, kstack |-> K, ustack |-> U,
                      granted |-> {}]
      <4>5. p \in ProcessType /\ p.pid = pid_counter /\ p.page_dir = pd /\ p.kstack = K /\ p.ustack = U /\ p.granted = {}
        BY <1>1, <4>4, FrameAssumption DEF ProcessType, Frame
      <4> HIDE DEF p
      <4>6. ASSUME e.panic = "no", NEW s \in Slot, NEW o, Owns(mem, n, process_table, surfaces, o)
            PROVE  Made(mem, n, o, s, p, e)
        <5>1. PICK o4 : /\ KernelOK(e, o4) /\ HeapPagesOK(e, n, o4) /\ Extends(mem, o, e, o4, s)
                        /\ FramesOK(e, K, "kernel stack", s, o4) /\ FramesOK(e, U, "user stack", s, o4)
                        /\ DirectoryOK(e, s, pd, U, o4)
          BY <4>2, <4>6
        <5>2. ProcessOK(e, s, p, o4)
          <6>1. U = p.ustack \cup p.granted
            BY <4>5
          <6>2. QED
            BY <4>5, <5>1, <6>1 DEF ProcessOK
        <5>3. QED
          BY <5>1, <5>2 DEF Made
      <4>7. CASE SpawnMem = Panicked(e, "Page Fault")
        BY <4>4, <4>7, FaultType
      <4>8. CASE SpawnMem = e
        BY <4>4, <4>5, <4>6, <4>8 DEF p, K, U, pd, n, a, b
      <4>9. QED
        BY <4>1, <4>7, <4>8
    <3>4. QED
      BY <3>2, <3>3
  <2>4. QED
    BY <2>2, <2>3
<1>6. QED
  BY <1>4, <1>5

LEMMA SpawnKeeps ==
  ASSUME MemInv, mem.panic = "no", process_spawn_ring3, UNCHANGED <<heap, surfaceVars>>
  PROVE  MemInv'
<1> DEFINE m == SpawnMem
           p == [pid |-> pid_counter, state |-> "READY", ring |-> 3, page_dir |-> NextFit(mem),
                 kstack |-> Run(SpawnPd, KSTACK), ustack |-> Run(SpawnKstack, USTACK), granted |-> {}]
<1>1. m \in MemoryType
  BY SpawnMakes
<1>2. Create(m, p)
  BY DEF process_spawn_ring3
<1>3. CASE m.panic = "no"
  <2>1. /\ p \in ProcessType /\ p.pid = pid_counter
        /\ \A o : \A s \in Slot : Owns(mem, heap.cursor, process_table, surfaces, o) => Made(mem, heap.cursor, o, s, p, m)
    BY <1>3, SpawnMakes
  <2> HIDE DEF m, p
  <2>2. QED
    BY <1>1, <1>2, <2>1, CreateKeeps
<1>4. CASE m.panic # "no"
  <2> DEFINE q == [pid |-> pid_counter, state |-> "READY", ring |-> 0, page_dir |-> kernel_pd, kstack |-> {}, ustack |-> {}, granted |-> {}]
  <2>1. Create(m, q)
    BY <1>2, <1>4 DEF Create
  <2> HIDE DEF m
  <2>2. q \in ProcessType /\ q.pid = pid_counter
    BY FrameAssumption DEF ProcessType, kernel_pd, MemInv, ProcessTypeOK
  <2> HIDE DEF q
  <2>3. QED
    BY <1>1, <1>4, <2>1, <2>2, CreateKeeps
<1>5. QED
  BY <1>3, <1>4

(* A step that changes only states, and brings no dead process back. *)
LEMMA StatesKeep ==
  ASSUME MemInv, UNCHANGED <<mem, heap, pid_counter, surfaceVars>>,
         process_table' \in [Slot -> ProcessType],
         \A s \in Slot : /\ process_table'[s].pid = process_table[s].pid
                         /\ process_table'[s].ring = process_table[s].ring
                         /\ process_table'[s].page_dir = process_table[s].page_dir
                         /\ process_table'[s].kstack = process_table[s].kstack
                         /\ process_table'[s].ustack = process_table[s].ustack
                         /\ process_table'[s].granted = process_table[s].granted
                         /\ process_table[s].state = "DEAD" => process_table'[s].state = "DEAD"
  PROVE  MemInv'
<1>1. mem' = mem /\ heap' = heap /\ surfaces' = surfaces /\ UNCHANGED surfaceVars
  BY DEF surfaceVars
<1>2. SurfaceTypeOK' /\ WindowInv'
  BY <1>1, SurfacesStay
<1>3. ProcessTypeOK' /\ PidInv'
  <2>1. ProcessTypeOK'
    BY DEF MemInv, ProcessTypeOK, ProcessType
  <2>2. PidInv'
    BY DEF MemInv, PidInv
  <2>3. QED
    BY <2>1, <2>2
<1>4. PICK o : Owns(mem, heap.cursor, process_table, surfaces, o)
  BY DEF MemInv
<1>5. Owns(mem, heap.cursor, process_table', surfaces, o)
  <2> DEFINE pt2 == process_table'
  <2>1. \A s \in Slot : /\ pt2[s].pid = process_table[s].pid /\ pt2[s].ring = process_table[s].ring
                        /\ pt2[s].page_dir = process_table[s].page_dir /\ pt2[s].kstack = process_table[s].kstack
                        /\ pt2[s].ustack = process_table[s].ustack /\ pt2[s].granted = process_table[s].granted
                        /\ process_table[s].state = "DEAD" => pt2[s].state = "DEAD"
    OBVIOUS
  <2> HIDE DEF pt2
  <2>2. ASSUME NEW s \in Live(pt2) PROVE ProcessOK(mem, s, pt2[s], o)
    <3>1. s \in Slot /\ s \in Live(process_table)
      BY <2>1 DEF Live
    <3>2. ProcessOK(mem, s, process_table[s], o)
      BY <1>4, <3>1 DEF Owns
    <3>3. QED
      BY <2>1, <3>1, <3>2 DEF ProcessOK
  <2>3. Owns(mem, heap.cursor, pt2, surfaces, o)
    BY <1>4, <2>2 DEF Owns
  <2>4. QED
    BY <2>3 DEF pt2
<1>6. \E o2 : Owns(mem', heap'.cursor, process_table', surfaces', o2)
  BY <1>1, <1>5
<1>7. QED
  BY <1>1, <1>2, <1>3, <1>6 DEF MemInv

LEMMA KillKeeps ==
  ASSUME MemInv, NEW pid \in Nat, process_kill(pid), UNCHANGED <<heap, surfaceVars>>
  PROVE  MemInv'
<1> DEFINE x == Min(ByPid(pid))
<1>1. /\ ByPid(pid) # {} /\ UNCHANGED <<mem, pid_counter>>
      /\ process_table' = [process_table EXCEPT ![x].state = "ZOMBIE"]
  BY DEF process_kill
<1>2. x \in Slot /\ process_table[x].state # "DEAD"
  <2>1. ByPid(pid) \in SUBSET Nat
    BY StackAssumption DEF ByPid, Slot
  <2>2. x \in ByPid(pid)
    BY <1>1, <2>1, MinIsLeast
  <2>3. QED
    BY <2>2 DEF ByPid
<1> HIDE DEF x
<1>3. process_table \in [Slot -> ProcessType]
  BY DEF MemInv, ProcessTypeOK, ProcessType
<1>4. process_table[x] \in ProcessType
  BY <1>2, <1>3
<1> DEFINE p == [process_table[x] EXCEPT !.state = "ZOMBIE"]
<1>5. /\ p \in ProcessType /\ p.pid = process_table[x].pid /\ p.ring = process_table[x].ring
      /\ p.page_dir = process_table[x].page_dir /\ p.kstack = process_table[x].kstack /\ p.ustack = process_table[x].ustack
      /\ p.granted = process_table[x].granted
  BY <1>4 DEF ProcessType
<1>6. process_table' = [process_table EXCEPT ![x] = p]
  BY <1>1
<1> HIDE DEF p
<1>7. /\ process_table' \in [Slot -> ProcessType] /\ process_table'[x] = p
      /\ \A s \in Slot \ {x} : process_table'[s] = process_table[s]
  BY <1>2, <1>3, <1>5, <1>6
<1>8. QED
  BY <1>1, <1>2, <1>5, <1>7, StatesKeep

LEMMA ReapKeeps ==
  ASSUME MemInv, Reap, UNCHANGED <<heap, surfaceVars>>
  PROVE  MemInv'
<1>1. process_table \in [Slot -> ProcessType]
  BY DEF MemInv, ProcessTypeOK, ProcessType
<1>2. ASSUME NEW s \in Slot
      PROVE  LET p == [process_table[s] EXCEPT !.state = "DEAD"]
             IN /\ p \in ProcessType /\ p.pid = process_table[s].pid /\ p.ring = process_table[s].ring
                /\ p.page_dir = process_table[s].page_dir /\ p.kstack = process_table[s].kstack
                /\ p.ustack = process_table[s].ustack /\ p.granted = process_table[s].granted /\ p.state = "DEAD"
  <2>1. process_table[s] \in ProcessType
    BY <1>1
  <2>2. QED
    BY <2>1 DEF ProcessType
<1> DEFINE Reaped(s) == [process_table[s] EXCEPT !.state = "DEAD"]
<1>3. /\ UNCHANGED <<mem, pid_counter>>
      /\ process_table' = [s \in Slot |-> IF process_table[s].state = "ZOMBIE" THEN Reaped(s) ELSE process_table[s]]
  BY DEF Reap
<1>4. \A s \in Slot : /\ Reaped(s) \in ProcessType /\ Reaped(s).pid = process_table[s].pid
                      /\ Reaped(s).ring = process_table[s].ring /\ Reaped(s).page_dir = process_table[s].page_dir
                      /\ Reaped(s).kstack = process_table[s].kstack /\ Reaped(s).ustack = process_table[s].ustack
                      /\ Reaped(s).granted = process_table[s].granted /\ Reaped(s).state = "DEAD"
  BY <1>2
<1> HIDE DEF Reaped
<1>5. /\ process_table' \in [Slot -> ProcessType]
      /\ \A s \in Slot : process_table'[s] = Reaped(s) \/ process_table'[s] = process_table[s]
  BY <1>1, <1>3, <1>4
<1>6. QED
  BY <1>3, <1>4, <1>5, StatesKeep

LEMMA UnmapKeeps ==
  ASSUME MemInv, NEW s \in Slot, Unmap(s), UNCHANGED <<heap, surfaceVars>>
  PROVE  MemInv'
<1>1. PICK l \in 0 .. USTACK - 1 : mem' = vmm_unmap_page(mem, process_table[s].page_dir, StackPage(l))
  BY DEF Unmap
<1>2. UNCHANGED <<process_table, pid_counter>> /\ process_table[s].ring = 3 /\ process_table[s].state # "DEAD"
  BY DEF Unmap
<1>3. heap' = heap /\ UNCHANGED surfaceVars /\ surfaces' = surfaces
  BY DEF surfaceVars
<1>4. SurfaceTypeOK' /\ WindowInv' /\ ProcessTypeOK' /\ PidInv'
  <2>1. SurfaceTypeOK' /\ WindowInv'
    BY <1>3, SurfacesStay
  <2>2. ProcessTypeOK' /\ PidInv'
    BY <1>2 DEF MemInv, ProcessTypeOK, PidInv
  <2>3. QED
    BY <2>1, <2>2
<1>5. PICK o : Owns(mem, heap.cursor, process_table, surfaces, o)
  BY DEF MemInv
<1> DEFINE n == heap.cursor
           p == process_table[s]
           pd == p.page_dir
           u == p.ustack \cup p.granted
           r == vmm_unmap_page(mem, pd, StackPage(l))
<1>6. n \in 0 .. HeapRoom /\ mem \in MemoryType
  BY HeapFields DEF MemInv, HeapOK
<1>7. s \in Live(process_table)
  BY <1>2 DEF MemInv, PidInv, Live
<1>8. KernelOK(mem, o) /\ HeapPagesOK(mem, n, o) /\ ProcessOK(mem, s, p, o)
  BY <1>5, <1>7 DEF Owns
<1>9. DirectoryOK(mem, s, pd, u, o)
  BY <1>2, <1>8 DEF ProcessOK
<1> HIDE DEF n, pd, u
<1>10. /\ r \in MemoryType /\ KernelOK(r, o) /\ HeapPagesOK(r, n, o) /\ DirectoryOK(r, s, pd, u, o)
       /\ Extends(mem, o, r, o, s)
  BY <1>6, <1>8, <1>9, StackPageUnmapped
<1>11. mem' = r
  BY <1>1 DEF pd
<1> HIDE DEF r
<1>12. ProcessOK(r, s, p, o)
  <2>1. FramesOK(mem, p.kstack, "kernel stack", s, o) /\ FramesOK(mem, p.ustack, "user stack", s, o)
    BY <1>8 DEF ProcessOK
  <2>2. ASSUME NEW F, NEW kind, FramesOK(mem, F, kind, s, o) PROVE FramesOK(r, F, kind, s, o)
    BY <1>10, <2>2, FramesExtend
  <2>3. FramesOK(r, p.kstack, "kernel stack", s, o) /\ FramesOK(r, p.ustack, "user stack", s, o)
    BY <2>1, <2>2
  <2>4. QED
    BY <1>10, <2>3 DEF ProcessOK, pd, u
<1>13. Made(mem, n, o, s, p, r)
  BY <1>10, <1>12 DEF Made
<1>14. \E o2 : Owns(r, n, process_table, surfaces, o2)
  <2>1. Owns(mem, n, process_table, surfaces, o)
    BY <1>5 DEF n
  <2>2. QED
    BY <1>13, <2>1, MadeOwns
<1>15. QED
  BY <1>2, <1>3, <1>4, <1>10, <1>11, <1>14 DEF MemInv, n

LEMMA ProcessKeeps ==
  ASSUME MemInv, ProcessCall
  PROVE  MemInv'
<1>1. mem.panic = "no" /\ UNCHANGED <<heap, surfaceVars>>
  BY DEF ProcessCall, Running
<1>2. CASE process_create
  BY <1>1, <1>2, TaskKeeps
<1>3. CASE process_spawn_ring3
  BY <1>1, <1>3, SpawnKeeps
<1>4. ASSUME NEW pid \in 0 .. pid_counter - 1, process_kill(pid) PROVE MemInv'
  BY <1>1, <1>4, KillKeeps DEF MemInv, ProcessTypeOK
<1>5. CASE Reap
  BY <1>1, <1>5, ReapKeeps
<1>6. ASSUME NEW s \in Slot, Unmap(s) PROVE MemInv'
  BY <1>1, <1>6, UnmapKeeps
<1>7. QED
  BY <1>2, <1>3, <1>4, <1>5, <1>6 DEF ProcessCall
-----------------------------------------------------------------------------
(* Surfaces. *)

SurfaceType == [id : Nat, owner_pid : Nat, width : Nat, height : Nat, phys_base : Frame, active : BOOLEAN]

LEMMA WrapIsNat == PIXEL_WRAP \in Nat \ {0}
<1>1. ENTRIES \in Nat \ {0} /\ PAGE_PIXELS \in Nat \ {0}
  BY FrameAssumption, PixelAssumption
<1>2. ENTRIES * ENTRIES \in Nat \ {0}
  BY <1>1
<1> DEFINE n == ENTRIES * ENTRIES
<1>3. n \in Nat \ {0}
  BY <1>2
<1> HIDE DEF n
<1>4. n * PAGE_PIXELS \in Nat \ {0}
  BY <1>1, <1>3
<1>5. QED
  BY <1>4 DEF PIXEL_WRAP, n

LEMMA PagesNeededNat ==
  ASSUME NEW w \in Nat, NEW h \in Nat
  PROVE  PagesNeeded(w, h) \in Nat
<1> DEFINE p == (w * h) % PIXEL_WRAP
<1>1. w * h \in Nat /\ PIXEL_WRAP \in Nat \ {0} /\ PAGE_PIXELS \in Nat \ {0}
  BY PixelAssumption, WrapIsNat
<1> DEFINE a == w * h
<1>2. p \in Nat
  <2> HIDE DEF a
  <2>1. a % PIXEL_WRAP \in Nat
    BY <1>1 DEF a
  <2>2. QED
    BY <2>1 DEF a
<1> HIDE DEF p
<1>3. p + PAGE_PIXELS - 1 \in Nat
  BY <1>1, <1>2
<1> DEFINE b == p + PAGE_PIXELS - 1
<1>4. b \div PAGE_PIXELS \in Nat
  <2> HIDE DEF b
  <2> QED
    BY <1>1, <1>3 DEF b
<1>5. QED
  BY <1>4 DEF PagesNeeded, p

LEMMA ProcessesStay ==
  ASSUME MemInv, UNCHANGED processVars
  PROVE  ProcessTypeOK' /\ PidInv' /\ process_table' = process_table
BY DEF MemInv, processVars, ProcessTypeOK, PidInv

(* A run of frames taken for the surface in slot i. *)
LEMMA SurfaceOwns ==
  ASSUME NEW m \in MemoryType, m.panic = "no", NEW n \in 0 .. HeapRoom, NEW pt, NEW sf, NEW o, Owns(m, n, pt, sf, o),
         NEW w \in Nat, NEW h \in Nat, NEW i \in SurfaceSlot, TakeRun(m, PagesNeeded(w, h)).panic = "no",
         NEW sf2, \A j \in SurfaceSlot \ {i} : sf2[j] = sf[j],
         sf2[i].width = w, sf2[i].height = h, sf2[i].phys_base = Min(Runs(m, PagesNeeded(w, h)))
  PROVE  /\ Min(Runs(m, PagesNeeded(w, h))) \in Frame
         /\ \E o2 : Owns(TakeRun(m, PagesNeeded(w, h)), n, pt, sf2, o2)
<1> DEFINE c == PagesNeeded(w, h)
           b == Min(Runs(m, c))
           F == b .. b + c - 1
           t == TakeRun(m, c)
<1>1. c \in Nat
  BY PagesNeededNat
<1>2. KernelOK(m, o) /\ HeapPagesOK(m, n, o) /\ kernel_pd \in m.used
  BY DEF Owns, KernelOK
<1>3. FramesOf(sf2[i]) = F
  BY DEF FramesOf
<1>4. t.panic = "no" /\ sf2[i].phys_base = b
  OBVIOUS
<1> HIDE DEF c
<1>5. /\ b \in Frame
      /\ \E o2 : /\ KernelOK(t, o2) /\ HeapPagesOK(t, n, o2) /\ Kept(m, o, t, o2)
                 /\ FramesOK(t, F, "surface", i, o2)
  BY <1>1, <1>2, <1>4, RunTaken
<1> HIDE DEF b, F, t
<1>6. PICK o2 : /\ KernelOK(t, o2) /\ HeapPagesOK(t, n, o2) /\ Kept(m, o, t, o2)
                /\ FramesOK(t, F, "surface", i, o2)
  BY <1>5
<1>7. Extends(m, o, t, o2, -1)
  BY <1>2, <1>6, KeptExtends
<1>8. ASSUME NEW s \in Live(pt) PROVE ProcessOK(t, s, pt[s], o2)
  <2>1. s # -1
    BY StackAssumption DEF Live, Slot
  <2>2. ProcessOK(m, s, pt[s], o)
    BY DEF Owns
  <2>3. QED
    BY <1>7, <2>1, <2>2, ProcessExtends
<1>9. ASSUME NEW j \in SurfaceSlot, sf2[j].active PROVE FramesOK(t, FramesOf(sf2[j]), "surface", j, o2)
  <2>1. CASE j = i
    BY <1>3, <1>6, <2>1
  <2>2. CASE j # i
    <3>1. sf2[j] = sf[j]
      BY <2>2
    <3>2. FramesOK(m, FramesOf(sf[j]), "surface", j, o)
      BY <1>9, <3>1 DEF Owns
    <3>3. FramesOK(t, FramesOf(sf[j]), "surface", j, o2)
      BY <1>7, <3>2, FramesExtend
    <3>4. QED
      BY <3>1, <3>3
  <2>3. QED
    BY <2>1, <2>2
<1>10. Owns(t, n, pt, sf2, o2)
  BY <1>6, <1>8, <1>9 DEF Owns
<1>11. QED
  BY <1>5, <1>10 DEF b, t, c

(* The frames of the surface in slot i given back: nobody else has one. *)
LEMMA SurfaceGone ==
  ASSUME NEW m, NEW n, NEW pt, NEW sf, NEW o, Owns(m, n, pt, sf, o), NEW i \in SurfaceSlot, sf[i].active,
         NEW m2, m2.used = m.used \ FramesOf(sf[i]), m2.table = m.table,
         NEW sf2, \A j \in SurfaceSlot \ {i} : sf2[j] = sf[j], ~sf2[i].active
  PROVE  Owns(m2, n, pt, sf2, o)
<1>1. \A f \in m.used : ~Is(o[f], "surface", i) => f \in m2.used
  BY DEF Owns, FramesOK
<1>2. \A f \in m.used : o[f].kind # "surface" => f \in m2.used
  BY <1>1 DEF Is
<1>3. KernelOK(m2, o)
  BY <1>2 DEF Owns, KernelOK, Is
<1>4. HeapPagesOK(m2, n, o)
  <2>1. \A g : HeapPage(m2, g) = HeapPage(m, g)
    BY DEF HeapPage, vmm_virt_to_phys
  <2>2. QED
    BY <1>2, <2>1 DEF Owns, HeapPagesOK, Is
<1>5. ASSUME NEW s \in Live(pt) PROVE ProcessOK(m2, s, pt[s], o)
  <2>1. ProcessOK(m, s, pt[s], o)
    BY DEF Owns
  <2>2. ASSUME NEW F, NEW kind, kind # "surface", FramesOK(m, F, kind, s, o) PROVE FramesOK(m2, F, kind, s, o)
    BY <1>2, <2>2 DEF FramesOK, Is
  <2>3. ASSUME NEW pd, NEW u, DirectoryOK(m, s, pd, u, o) PROVE DirectoryOK(m2, s, pd, u, o)
    BY <1>2, <2>3 DEF DirectoryOK, Is
  <2>4. QED
    BY <2>1, <2>2, <2>3 DEF ProcessOK
<1>6. ASSUME NEW j \in SurfaceSlot, sf2[j].active PROVE FramesOK(m2, FramesOf(sf2[j]), "surface", j, o)
  <2>1. j # i /\ sf2[j] = sf[j]
    BY <1>6
  <2>2. FramesOK(m, FramesOf(sf[j]), "surface", j, o)
    BY <1>6, <2>1 DEF Owns
  <2>3. FramesOK(m2, FramesOf(sf[j]), "surface", j, o)
    BY <1>1, <2>1, <2>2 DEF FramesOK, Is
  <2>4. QED
    BY <2>1, <2>3
<1>7. QED
  BY <1>3, <1>4, <1>5, <1>6 DEF Owns

(* A surface made in slot i: the others stay, and its number is new. *)
LEMMA SurfaceMade ==
  ASSUME MemInv, NEW STATE m, m.panic = "no", NEW STATE pid, pid \in Nat, NEW w \in Nat, NEW h \in Nat,
         MakeSurface(m, pid, w, h), Min(Runs(mem, PagesNeeded(w, h))) \in Frame
  PROVE  /\ mem' = m /\ Min(Idle) \in SurfaceSlot
         /\ surfaces'[Min(Idle)].width = w /\ surfaces'[Min(Idle)].height = h
         /\ surfaces'[Min(Idle)].phys_base = Min(Runs(mem, PagesNeeded(w, h)))
         /\ \A j \in SurfaceSlot \ {Min(Idle)} : surfaces'[j] = surfaces[j]
         /\ SurfaceTypeOK' /\ WindowInv'
<1> DEFINE i == Min(Idle)
           b == Min(Runs(mem, PagesNeeded(w, h)))
           s == [id |-> next_surface_id, owner_pid |-> pid, width |-> w, height |-> h, phys_base |-> b, active |-> TRUE]
<1>1. /\ mem' = m /\ surfaces' = [surfaces EXCEPT ![i] = s] /\ next_surface_id' = next_surface_id + 1
      /\ windows' = windows
  BY DEF MakeSurface, NewId
<1>2. i \in SurfaceSlot /\ ~surfaces[i].active
  <2>1. Idle \in SUBSET Nat /\ Idle # {}
    BY PixelAssumption DEF MakeSurface, Idle, SurfaceSlot
  <2>2. i \in Idle
    BY <2>1, MinIsLeast
  <2>3. QED
    BY <2>2 DEF Idle
<1>3. b \in Frame
  OBVIOUS
<1>4. /\ surfaces \in [SurfaceSlot -> SurfaceType] /\ next_surface_id \in Nat
      /\ windows \in [WindowSlot -> [surface_id : Nat, for : Nat]]
  BY DEF MemInv, SurfaceTypeOK, SurfaceType
<1> HIDE DEF i, b
<1>5. /\ s \in SurfaceType /\ s.id = next_surface_id /\ s.owner_pid = pid /\ s.width = w /\ s.height = h
      /\ s.phys_base = b /\ s.active
  BY <1>3, <1>4 DEF SurfaceType
<1> HIDE DEF s
<1>6. /\ surfaces' \in [SurfaceSlot -> SurfaceType] /\ surfaces'[i] = s
      /\ \A j \in SurfaceSlot \ {i} : surfaces'[j] = surfaces[j]
  BY <1>1, <1>2, <1>4, <1>5
<1>7. SurfaceTypeOK'
  BY <1>1, <1>4, <1>6 DEF SurfaceTypeOK, SurfaceType
<1>8. WindowInv'
  <2> DEFINE sf == surfaces'
  <2>1. WindowInv
    BY DEF MemInv
  <2>2. sf[i] = s /\ \A j \in SurfaceSlot \ {i} : sf[j] = surfaces[j]
    BY <1>6
  <2>3. \A j \in SurfaceSlot : surfaces[j].id \in Nat
    BY <1>4 DEF SurfaceType
  <2>4. \A v \in WindowSlot : windows[v].surface_id \in Nat
    BY <1>4
  <2> HIDE DEF sf
  <2>5. next_surface_id + 1 > 0 /\ \A j \in SurfaceSlot : sf[j].active => sf[j].id > 0 /\ sf[j].id < next_surface_id + 1
    BY <1>4, <1>5, <2>1, <2>2, <2>3 DEF WindowInv
  <2>6. \A j, l \in SurfaceSlot : sf[j].active /\ sf[l].active /\ sf[j].id = sf[l].id => j = l
    BY <1>4, <1>5, <2>1, <2>2, <2>3 DEF WindowInv
  <2>7. \A v \in WindowSlot : windows[v].surface_id < next_surface_id + 1
    BY <1>4, <2>1, <2>4 DEF WindowInv
  <2>8. \A v \in WindowSlot, j \in SurfaceSlot :
          sf[j].active /\ sf[j].id = windows[v].surface_id => sf[j].owner_pid = windows[v].for
    BY <1>4, <1>5, <2>1, <2>2, <2>3, <2>4 DEF WindowInv
  <2>9. QED
    BY <1>1, <2>5, <2>6, <2>7, <2>8 DEF WindowInv, sf
<1>9. QED
  BY <1>1, <1>2, <1>5, <1>6, <1>7, <1>8 DEF i, b

LEMMA SurfacePanics ==
  ASSUME MemInv, NEW STATE m, m \in MemoryType, m.panic # "no", NEW STATE pid, NEW w, NEW h,
         MakeSurface(m, pid, w, h), UNCHANGED <<heap, process_table, pid_counter>>
  PROVE  MemInv'
<1>1. m.panic \in Messages
  BY FieldsOf
<1>2. /\ mem' = Panicked(mem, m.panic) /\ surfaces' = surfaces /\ next_surface_id' = next_surface_id
      /\ windows' = windows
  BY DEF MakeSurface
<1>3. mem' \in MemoryType /\ \E o : Owns(mem', heap.cursor, process_table, surfaces, o)
  BY <1>1, <1>2, OwnsPanicked
<1>4. SurfaceTypeOK' /\ WindowInv' /\ ProcessTypeOK' /\ PidInv'
  BY <1>2 DEF MemInv, SurfaceTypeOK, WindowInv, ProcessTypeOK, PidInv
<1>5. QED
  BY <1>2, <1>3, <1>4 DEF MemInv

LEMMA SurfaceCreateKeeps ==
  ASSUME MemInv, mem.panic = "no", NEW pid \in Nat, NEW w \in Nat, NEW h \in Nat, surface_create(pid, w, h),
         UNCHANGED <<heap, processVars>>
  PROVE  MemInv'
<1> DEFINE n == PagesNeeded(w, h)
           m == TakeRun(mem, n)
           i == Min(Idle)
<1>1. /\ heap' = heap /\ HeapOK(heap') /\ process_table' = process_table /\ pid_counter' = pid_counter
      /\ ProcessTypeOK' /\ PidInv'
  BY ProcessesStay DEF MemInv, processVars
<1>2. mem \in MemoryType /\ heap.cursor \in 0 .. HeapRoom /\ n \in Nat
  BY HeapFields, PagesNeededNat DEF MemInv, HeapOK
<1>3. m \in MemoryType /\ MakeSurface(m, pid, w, h)
  BY <1>2, TakeRunTakes DEF surface_create
<1>4. CASE m.panic # "no"
  <2> HIDE DEF m
  <2> QED
    BY <1>1, <1>3, <1>4, SurfacePanics
<1>5. CASE m.panic = "no"
  <2>1. Min(Runs(mem, n)) \in Frame
    BY <1>2, <1>5, TakeRunTakes
  <2>2. /\ mem' = m /\ i \in SurfaceSlot
        /\ surfaces'[i].width = w /\ surfaces'[i].height = h /\ surfaces'[i].phys_base = Min(Runs(mem, n))
        /\ \A j \in SurfaceSlot \ {i} : surfaces'[j] = surfaces[j]
        /\ SurfaceTypeOK' /\ WindowInv'
    <3> HIDE DEF m
    <3> QED
      BY <1>3, <1>5, <2>1, SurfaceMade
  <2>3. PICK o : Owns(mem, heap.cursor, process_table, surfaces, o)
    BY DEF MemInv
  <2>4. \E o2 : Owns(m, heap.cursor, process_table, surfaces', o2)
    <3> DEFINE sf2 == surfaces'
               c == heap.cursor
    <3>1. /\ \A j \in SurfaceSlot \ {i} : sf2[j] = surfaces[j]
          /\ sf2[i].width = w /\ sf2[i].height = h /\ sf2[i].phys_base = Min(Runs(mem, PagesNeeded(w, h)))
      BY <2>2
    <3>2. TakeRun(mem, PagesNeeded(w, h)).panic = "no" /\ Owns(mem, c, process_table, surfaces, o) /\ c \in 0 .. HeapRoom
      BY <1>2, <1>5, <2>3
    <3> HIDE DEF sf2, c, i
    <3>3. \E o2 : Owns(TakeRun(mem, PagesNeeded(w, h)), c, process_table, sf2, o2)
      BY <1>2, <2>2, <3>1, <3>2, SurfaceOwns
    <3>4. QED
      BY <3>3 DEF sf2, c
  <2>5. QED
    BY <1>1, <1>3, <2>2, <2>4 DEF MemInv
<1>6. QED
  BY <1>4, <1>5

LEMMA SurfaceDestroyKeeps ==
  ASSUME MemInv, NEW id \in Nat, surface_destroy(id), UNCHANGED <<heap, processVars>>
  PROVE  MemInv'
<1> DEFINE i == Min(surface_get(id))
           F == FramesOf(surfaces[i])
<1>1. /\ heap' = heap /\ HeapOK(heap') /\ process_table' = process_table /\ ProcessTypeOK' /\ PidInv'
  BY ProcessesStay DEF MemInv, processVars
<1>2. /\ surface_get(id) # {} /\ mem' = [mem EXCEPT !.used = @ \ F] /\ surfaces' = [surfaces EXCEPT ![i] = NoSurface]
      /\ next_surface_id' = next_surface_id /\ windows' = windows
  BY DEF surface_destroy
<1>3. i \in SurfaceSlot /\ surfaces[i].active
  <2>1. surface_get(id) \in SUBSET Nat
    BY PixelAssumption DEF surface_get, SurfaceSlot
  <2>2. i \in surface_get(id)
    BY <1>2, <2>1, MinIsLeast
  <2>3. QED
    BY <2>2 DEF surface_get
<1> HIDE DEF i
<1>4. mem' \in MemoryType /\ mem'.used = mem.used \ F /\ mem'.table = mem.table
  <2>1. mem \in MemoryType
    BY DEF MemInv
  <2> HIDE DEF F
  <2>2. QED
    BY <1>2, <2>1 DEF MemoryType
<1>5. NoSurface \in SurfaceType /\ ~NoSurface.active
  BY FrameAssumption DEF NoSurface, SurfaceType, Frame
<1>6. surfaces \in [SurfaceSlot -> SurfaceType]
  BY DEF MemInv, SurfaceTypeOK, SurfaceType
<1>7. /\ surfaces' \in [SurfaceSlot -> SurfaceType] /\ ~surfaces'[i].active
      /\ \A j \in SurfaceSlot \ {i} : surfaces'[j] = surfaces[j]
  BY <1>2, <1>3, <1>5, <1>6
<1>8. SurfaceTypeOK'
  BY <1>2, <1>7 DEF MemInv, SurfaceTypeOK, SurfaceType
<1>9. WindowInv'
  <2>1. \A j \in SurfaceSlot : surfaces'[j].active => j # i /\ surfaces'[j] = surfaces[j] /\ surfaces[j].active
    BY <1>7
  <2>2. QED
    BY <1>2, <2>1 DEF MemInv, WindowInv
<1>10. PICK o : Owns(mem, heap.cursor, process_table, surfaces, o)
  BY DEF MemInv
<1>11. Owns(mem', heap.cursor, process_table, surfaces', o)
  <2> DEFINE m2 == mem'
             sf2 == surfaces'
  <2>1. /\ m2.used = mem.used \ FramesOf(surfaces[i]) /\ m2.table = mem.table
        /\ \A j \in SurfaceSlot \ {i} : sf2[j] = surfaces[j]
        /\ ~sf2[i].active
    BY <1>4, <1>7
  <2> HIDE DEF m2, sf2
  <2>2. Owns(m2, heap.cursor, process_table, sf2, o)
    BY <1>3, <1>10, <2>1, SurfaceGone
  <2>3. QED
    BY <2>2 DEF m2, sf2
<1>12. QED
  BY <1>1, <1>4, <1>8, <1>9, <1>11 DEF MemInv

LEMMA OpenWindowKeeps ==
  ASSUME MemInv, NEW v \in WindowSlot, NEW j \in SurfaceSlot, OpenWindow(v, j), UNCHANGED <<heap, processVars>>
  PROVE  MemInv'
<1> DEFINE wd == [surface_id |-> surfaces[j].id, for |-> surfaces[j].owner_pid]
<1>1. /\ heap' = heap /\ HeapOK(heap') /\ process_table' = process_table /\ ProcessTypeOK' /\ PidInv'
  BY ProcessesStay DEF MemInv, processVars
<1>2. /\ surfaces[j].active /\ windows' = [windows EXCEPT ![v] = wd]
      /\ mem' = mem /\ surfaces' = surfaces /\ next_surface_id' = next_surface_id
  BY DEF OpenWindow
<1>3. wd \in [surface_id : Nat, for : Nat] /\ wd.surface_id = surfaces[j].id /\ wd.for = surfaces[j].owner_pid
  BY DEF MemInv, SurfaceTypeOK
<1> HIDE DEF wd
<1>4. /\ windows' \in [WindowSlot -> [surface_id : Nat, for : Nat]] /\ windows'[v] = wd
      /\ \A x \in WindowSlot \ {v} : windows'[x] = windows[x]
  BY <1>2, <1>3 DEF MemInv, SurfaceTypeOK
<1>5. SurfaceTypeOK'
  BY <1>2, <1>4 DEF MemInv, SurfaceTypeOK
<1>6. WindowInv'
  BY <1>2, <1>3, <1>4 DEF MemInv, WindowInv
<1>7. \E o : Owns(mem', heap'.cursor, process_table', surfaces', o)
  BY <1>1, <1>2 DEF MemInv
<1>8. QED
  BY <1>1, <1>2, <1>5, <1>6, <1>7 DEF MemInv

LEMMA SurfaceKeeps ==
  ASSUME MemInv, SurfaceCall
  PROVE  MemInv'
<1>1. mem.panic = "no" /\ UNCHANGED <<heap, processVars>>
  BY DEF SurfaceCall, Running
<1>2. ASSUME NEW r \in Requests, surface_create(r[1], r[2], r[3]) PROVE MemInv'
  <2>1. r[1] \in Nat /\ r[2] \in Nat /\ r[3] \in Nat
    BY PixelAssumption
  <2>2. QED
    BY <1>1, <1>2, <2>1, SurfaceCreateKeeps
<1>3. ASSUME NEW id \in 1 .. next_surface_id - 1, surface_destroy(id) PROVE MemInv'
  BY <1>1, <1>3, SurfaceDestroyKeeps DEF MemInv, SurfaceTypeOK
<1>4. ASSUME NEW i \in WindowSlot, NEW j \in SurfaceSlot, OpenWindow(i, j) PROVE MemInv'
  BY <1>1, <1>4, OpenWindowKeeps
<1>5. QED
  BY <1>2, <1>3, <1>4 DEF SurfaceCall
-----------------------------------------------------------------------------
(* The system call: frames for the surface in slot i, mapped for the       *)
(* process in slot s.                                                      *)

LEMMA DirectoryWider ==
  ASSUME NEW m, NEW s, NEW pd, NEW u, NEW o, DirectoryOK(m, s, pd, u, o), NEW v, u \subseteq v
  PROVE  DirectoryOK(m, s, pd, v, o)
BY DEF DirectoryOK

LEMMA BothOwn ==
  ASSUME NEW m, NEW n, NEW pt, NEW sf, NEW o, Owns(m, n, pt, sf, o), NEW s \in Slot, NEW i \in SurfaceSlot,
         NEW m2, NEW o2, KernelOK(m2, o2), HeapPagesOK(m2, n, o2), Extends(m, o, m2, o2, s),
         NEW pt2, ProcessOK(m2, s, pt2[s], o2), \A z \in Slot \ {s} : pt2[z] = pt[z],
         NEW sf2, FramesOK(m2, FramesOf(sf2[i]), "surface", i, o2), \A j \in SurfaceSlot \ {i} : sf2[j] = sf[j]
  PROVE  Owns(m2, n, pt2, sf2, o2)
<1>1. ASSUME NEW z \in Live(pt2) PROVE ProcessOK(m2, z, pt2[z], o2)
  <2>1. CASE z = s
    BY <2>1
  <2>2. CASE z # s
    <3>1. z \in Slot /\ pt2[z] = pt[z] /\ z \in Live(pt)
      BY <2>2 DEF Live
    <3>2. ProcessOK(m, z, pt[z], o)
      BY <3>1 DEF Owns
    <3>3. ProcessOK(m2, z, pt[z], o2)
      BY <2>2, <3>2, ProcessExtends
    <3>4. QED
      BY <3>1, <3>3
  <2>3. QED
    BY <2>1, <2>2
<1>2. ASSUME NEW j \in SurfaceSlot, sf2[j].active PROVE FramesOK(m2, FramesOf(sf2[j]), "surface", j, o2)
  <2>1. CASE j = i
    BY <2>1
  <2>2. CASE j # i
    <3>1. sf2[j] = sf[j] /\ sf[j].active
      BY <1>2, <2>2
    <3>2. FramesOK(m, FramesOf(sf[j]), "surface", j, o)
      BY <3>1 DEF Owns
    <3>3. FramesOK(m2, FramesOf(sf[j]), "surface", j, o2)
      BY <3>2, FramesExtend
    <3>4. QED
      BY <3>1, <3>3
  <2>3. QED
    BY <2>1, <2>2
<1>3. QED
  BY <1>1, <1>2 DEF Owns

LEMMA SurfacePageIsUser ==
  ASSUME NEW i \in SurfaceSlot, NEW l \in Nat, l < SURFACE_PAGES
  PROVE  UserPage(SurfacePage(i) + l) /\ SurfacePage(i) \in Nat
<1> DEFINE q == i * SURFACE_PAGES
           all == MAX_SURFACES * SURFACE_PAGES
           half == KERNEL_PDE * ENTRIES
<1>1. i \in Nat /\ i + 1 <= MAX_SURFACES /\ MAX_SURFACES \in Nat /\ SURFACE_PAGES \in Nat
  BY PixelAssumption, RoomAssumption DEF SurfaceSlot
<1>2. q \in Nat /\ all \in Nat
  BY <1>1
<1>3. q + SURFACE_PAGES <= all
  <2>1. (i + 1) * SURFACE_PAGES <= MAX_SURFACES * SURFACE_PAGES
    BY <1>1
  <2>2. (i + 1) * SURFACE_PAGES = i * SURFACE_PAGES + SURFACE_PAGES
    BY <1>1
  <2>3. QED
    BY <2>1, <2>2
<1>4. half \in Nat /\ all + USTACK < half /\ USTACK \in Nat
  BY FrameAssumption, RoomAssumption, StackAssumption
<1>5. SurfacePage(i) = q
  BY DEF SurfacePage
<1> HIDE DEF q, all, half
<1>6. q + l \in Nat /\ q + l < half
  BY <1>1, <1>2, <1>3, <1>4
<1>7. QED
  BY <1>2, <1>5, <1>6 DEF UserPage, half

(* What the mapping leaves: memory e, in which slot s holds the frames F    *)
(* of surface i besides what it held.                                       *)
MapsSurface(m, c, pt, sf, o, s, i, n, t, base, F, e) ==
  /\ e \in MemoryType /\ F \in SUBSET Frame /\ base \in Frame
  /\ e.panic = "no" =>
       \E o2 : /\ KernelOK(e, o2) /\ HeapPagesOK(e, c, o2) /\ Extends(m, o, e, o2, s)
               /\ FramesOK(e, pt[s].kstack, "kernel stack", s, o2)
               /\ FramesOK(e, pt[s].ustack, "user stack", s, o2)
               /\ DirectoryOK(e, s, pt[s].page_dir, pt[s].ustack \cup (pt[s].granted \cup F), o2)
               /\ FramesOK(e, F, "surface", i, o2)

(* The memory of the call, and what is owned in it. *)
LEMMA MappedOwns ==
  ASSUME NEW m \in MemoryType, m.panic = "no", NEW c \in 0 .. HeapRoom, NEW pt, NEW sf, NEW o, Owns(m, c, pt, sf, o),
         NEW s \in Live(pt), pt[s].ring = 3, pt[s].ustack \in SUBSET Frame, pt[s].granted \in SUBSET Frame,
         NEW i \in SurfaceSlot, NEW n \in Nat, n <= SURFACE_PAGES,
         NEW t, t = TakeRun(m, n), t.panic = "no",
         NEW base, base = Min(Runs(m, n)), NEW F, F = base .. base + n - 1,
         NEW e, e = MapUser(t, pt[s].page_dir, SurfacePage(i), base, n)
  PROVE  MapsSurface(m, c, pt, sf, o, s, i, n, t, base, F, e)
<1> DEFINE pd == pt[s].page_dir
           u == pt[s].ustack \cup pt[s].granted
           v == pt[s].ustack \cup (pt[s].granted \cup F)
<1>1. KernelOK(m, o) /\ HeapPagesOK(m, c, o) /\ ProcessOK(m, s, pt[s], o) /\ kernel_pd \in m.used
  BY DEF Owns, KernelOK
<1>2. DirectoryOK(m, s, pd, u, o) /\ FramesOK(m, pt[s].kstack, "kernel stack", s, o)
      /\ FramesOK(m, pt[s].ustack, "user stack", s, o)
  BY <1>1 DEF ProcessOK
<1>3. /\ t \in MemoryType /\ F \in SUBSET Frame /\ base \in Frame
      /\ \E o1 : KernelOK(t, o1) /\ HeapPagesOK(t, c, o1) /\ Kept(m, o, t, o1) /\ FramesOK(t, F, "surface", i, o1)
  BY <1>1, RunTaken
<1>4. PICK o1 : KernelOK(t, o1) /\ HeapPagesOK(t, c, o1) /\ Kept(m, o, t, o1) /\ FramesOK(t, F, "surface", i, o1)
  BY <1>3
<1> DEFINE other == s + 1
<1>5. other # s
  BY StackAssumption DEF Live, Slot
<1> HIDE DEF other
<1>6. \A x : Extends(m, o, t, o1, x)
  BY <1>1, <1>4, KeptExtends
<1>7. DirectoryOK(t, s, pd, v, o1)
  <2>1. DirectoryOK(t, s, pd, u, o1)
    <3> HIDE DEF pd, u
    <3> QED
      BY <1>2, <1>5, <1>6, DirectoryExtends
  <2>2. u \subseteq v
    OBVIOUS
  <2> HIDE DEF pd, u, v
  <2>3. QED
    BY <2>1, <2>2, DirectoryWider
<1>8. v \in SUBSET Frame /\ F \subseteq v /\ base \in Nat
  BY <1>3, FrameAssumption DEF Frame
<1>9. MapsUser(t, o1, c, s, pd, v, e)
  <2>1. \A l \in 0 .. n - 1 : UserPage(SurfacePage(i) + l)
    <3> SUFFICES ASSUME NEW l \in 0 .. n - 1 PROVE UserPage(SurfacePage(i) + l)
      OBVIOUS
    <3>1. l \in Nat /\ l < SURFACE_PAGES
      BY RoomAssumption
    <3>2. QED
      BY <3>1, SurfacePageIsUser
  <2>2. SurfacePage(i) \in Nat
    BY PixelAssumption, RoomAssumption DEF SurfacePage, SurfaceSlot
  <2> HIDE DEF pd, v
  <2>3. e = MapUser(t, pd, SurfacePage(i), base, n)
    BY DEF pd
  <2>4. base .. base + n - 1 \subseteq v
    BY <1>8
  <2>5. QED
    BY <1>3, <1>4, <1>7, <1>8, <2>1, <2>2, <2>3, <2>4, UserMapped
<1> HIDE DEF pd, u, v
<1>10. ASSUME e.panic = "no"
       PROVE  \E o2 : /\ KernelOK(e, o2) /\ HeapPagesOK(e, c, o2) /\ Extends(m, o, e, o2, s)
                      /\ FramesOK(e, pt[s].kstack, "kernel stack", s, o2)
                      /\ FramesOK(e, pt[s].ustack, "user stack", s, o2)
                      /\ DirectoryOK(e, s, pd, v, o2)
                      /\ FramesOK(e, F, "surface", i, o2)
  <2>1. PICK o2 : KernelOK(e, o2) /\ HeapPagesOK(e, c, o2) /\ DirectoryOK(e, s, pd, v, o2) /\ Extends(t, o1, e, o2, s)
    BY <1>9, <1>10 DEF MapsUser
  <2>2. Extends(m, o, e, o2, s)
    BY <1>6, <2>1, ExtendsTransitive
  <2>3. FramesOK(e, pt[s].kstack, "kernel stack", s, o2) /\ FramesOK(e, pt[s].ustack, "user stack", s, o2)
    <3>1. ASSUME NEW G, NEW kind, FramesOK(m, G, kind, s, o) PROVE FramesOK(e, G, kind, s, o2)
      BY <2>2, <3>1, FramesExtend
    <3>2. QED
      BY <1>2, <3>1
  <2>4. FramesOK(e, F, "surface", i, o2)
    BY <1>4, <2>1, FramesExtend
  <2>5. QED
    BY <2>1, <2>2, <2>3, <2>4
<1>11. e \in MemoryType
  BY <1>9 DEF MapsUser
<1>12. QED
  BY <1>3, <1>10, <1>11 DEF pd, v, MapsSurface

LEMMA MapSurfaceKeeps ==
  ASSUME MemInv, mem.panic = "no", NEW s \in UserProcesses, NEW w \in Nat, NEW h \in Nat,
         PagesNeeded(w, h) <= SURFACE_PAGES, sys_map_surface(s, w, h), UNCHANGED <<heap, pid_counter>>
  PROVE  MemInv'
<1> DEFINE n == PagesNeeded(w, h)
           t == TakeRun(mem, n)
           i == Min(Idle)
           base == Min(Runs(mem, n))
           F == base .. base + n - 1
           p == process_table[s]
           e == MapUser(t, p.page_dir, SurfacePage(i), base, n)
           m == SurfaceMapped(s, n)
<1>1. mem \in MemoryType /\ heap.cursor \in 0 .. HeapRoom /\ n \in Nat /\ heap' = heap /\ HeapOK(heap')
  BY HeapFields, PagesNeededNat DEF MemInv, HeapOK
<1>2. /\ MakeSurface(m, p.pid, w, h)
      /\ process_table' = IF m.panic # "no" THEN process_table
                          ELSE [process_table EXCEPT ![s].granted = @ \cup F]
  BY DEF sys_map_surface, Run
<1>3. m = IF t.panic # "no" THEN t ELSE e
  BY DEF SurfaceMapped
<1>4. t \in MemoryType
  BY <1>1, TakeRunTakes
<1>5. process_table \in [Slot -> ProcessType] /\ s \in Slot /\ s \in Live(process_table) /\ p.ring = 3
  BY DEF MemInv, ProcessTypeOK, ProcessType, UserProcesses, Processes, Live
<1>6. p \in ProcessType /\ p.pid \in Nat /\ p.ustack \in SUBSET Frame /\ p.granted \in SUBSET Frame
  <2>1. p \in ProcessType
    BY <1>5
  <2> HIDE DEF p
  <2>2. QED
    BY <2>1 DEF ProcessType
<1>7. Idle # {} /\ i \in SurfaceSlot
  <2>1. Idle \in SUBSET Nat /\ Idle # {}
    BY <1>2, PixelAssumption DEF MakeSurface, Idle, SurfaceSlot
  <2>2. i \in Idle
    BY <2>1, MinIsLeast
  <2>3. QED
    BY <2>1, <2>2 DEF Idle
<1>8. ASSUME m \in MemoryType, m.panic # "no" PROVE MemInv'
  <2>1. UNCHANGED <<heap, process_table, pid_counter>>
    BY <1>2, <1>8
  <2> HIDE DEF m, p
  <2>2. QED
    BY <1>2, <1>8, <2>1, SurfacePanics
<1>9. CASE t.panic # "no"
  BY <1>3, <1>4, <1>8, <1>9
<1>10. SUFFICES ASSUME t.panic = "no" PROVE MemInv'
  BY <1>9
<1>11. PICK o : Owns(mem, heap.cursor, process_table, surfaces, o)
  BY DEF MemInv
<1>12. /\ e \in MemoryType /\ F \in SUBSET Frame /\ base \in Frame
       /\ e.panic = "no" =>
            \E o2 : /\ KernelOK(e, o2) /\ HeapPagesOK(e, heap.cursor, o2) /\ Extends(mem, o, e, o2, s)
                    /\ FramesOK(e, p.kstack, "kernel stack", s, o2)
                    /\ FramesOK(e, p.ustack, "user stack", s, o2)
                    /\ DirectoryOK(e, s, p.page_dir, p.ustack \cup (p.granted \cup F), o2)
                    /\ FramesOK(e, F, "surface", i, o2)
  <2> DEFINE pt == process_table
             c == heap.cursor
  <2>1. c \in 0 .. HeapRoom /\ Owns(mem, c, pt, surfaces, o) /\ s \in Live(pt) /\ pt[s].ring = 3
        /\ pt[s].ustack \in SUBSET Frame /\ pt[s].granted \in SUBSET Frame /\ n <= SURFACE_PAGES
    BY <1>1, <1>5, <1>6, <1>11
  <2>2. t = TakeRun(mem, n) /\ base = Min(Runs(mem, n)) /\ F = base .. base + n - 1
        /\ e = MapUser(t, pt[s].page_dir, SurfacePage(i), base, n)
    OBVIOUS
  <2> HIDE DEF t, base, F, e, i, n, c, pt
  <2>3. MapsSurface(mem, c, pt, surfaces, o, s, i, n, t, base, F, e)
    BY <1>1, <1>7, <1>10, <2>1, <2>2, MappedOwns
  <2>4. QED
    BY <2>3 DEF c, pt, MapsSurface
<1>13. m = e
  BY <1>3, <1>10
<1>14. CASE e.panic # "no"
  BY <1>8, <1>12, <1>13, <1>14
<1>15. CASE e.panic = "no"
  <2> DEFINE q == [p EXCEPT !.granted = p.granted \cup F]
  <2>1. process_table' = [process_table EXCEPT ![s] = q]
    BY <1>2, <1>13, <1>15
  <2>2. /\ q \in ProcessType /\ q.pid = p.pid /\ q.ring = p.ring /\ q.page_dir = p.page_dir
        /\ q.kstack = p.kstack /\ q.ustack = p.ustack /\ q.granted = p.granted \cup F
    <3> HIDE DEF p, F
    <3> QED
      BY <1>6, <1>12 DEF ProcessType
  <2> HIDE DEF q
  <2>3. /\ process_table' \in [Slot -> ProcessType] /\ process_table'[s] = q
        /\ \A z \in Slot \ {s} : process_table'[z] = process_table[z]
    BY <1>5, <2>1, <2>2
  <2>4. ProcessTypeOK' /\ PidInv'
    <3>1. pid_counter' = pid_counter
      OBVIOUS
    <3>2. \A z \in Slot : process_table'[z].ring = 3 => process_table'[z].pid # 0
      BY <2>2, <2>3 DEF MemInv, PidInv
    <3>3. QED
      BY <2>3, <3>1, <3>2 DEF MemInv, ProcessTypeOK, ProcessType, PidInv
  <2>5. /\ mem' = e /\ i \in SurfaceSlot
        /\ surfaces'[i].width = w /\ surfaces'[i].height = h /\ surfaces'[i].phys_base = base
        /\ \A j \in SurfaceSlot \ {i} : surfaces'[j] = surfaces[j]
        /\ SurfaceTypeOK' /\ WindowInv'
    <3> DEFINE pid == p.pid
    <3>1. pid \in Nat /\ MakeSurface(e, pid, w, h)
      BY <1>2, <1>6, <1>13
    <3> HIDE DEF e, pid
    <3>2. Min(Runs(mem, PagesNeeded(w, h))) \in Frame
      BY <1>12
    <3>3. QED
      BY <1>15, <3>1, <3>2, SurfaceMade
  <2>6. FramesOf(surfaces'[i]) = F
    BY <2>5 DEF FramesOf
  <2>7. PICK o2 : /\ KernelOK(e, o2) /\ HeapPagesOK(e, heap.cursor, o2) /\ Extends(mem, o, e, o2, s)
                  /\ FramesOK(e, p.kstack, "kernel stack", s, o2)
                  /\ FramesOK(e, p.ustack, "user stack", s, o2)
                  /\ DirectoryOK(e, s, p.page_dir, p.ustack \cup (p.granted \cup F), o2)
                  /\ FramesOK(e, F, "surface", i, o2)
    BY <1>12, <1>15
  <2>8. ProcessOK(e, s, q, o2)
    <3> HIDE DEF e, p, F
    <3> QED
      BY <2>2, <2>7 DEF ProcessOK
  <2>9. Owns(e, heap.cursor, process_table', surfaces', o2)
    <3> DEFINE pt2 == process_table'
               sf2 == surfaces'
               c == heap.cursor
    <3>1. /\ ProcessOK(e, s, pt2[s], o2) /\ \A z \in Slot \ {s} : pt2[z] = process_table[z]
          /\ FramesOK(e, FramesOf(sf2[i]), "surface", i, o2) /\ \A j \in SurfaceSlot \ {i} : sf2[j] = surfaces[j]
      BY <2>3, <2>5, <2>6, <2>7, <2>8
    <3>2. KernelOK(e, o2) /\ HeapPagesOK(e, c, o2) /\ Extends(mem, o, e, o2, s) /\ Owns(mem, c, process_table, surfaces, o)
      BY <1>11, <2>7
    <3> HIDE DEF pt2, sf2, c, e, i
    <3>3. Owns(e, c, pt2, sf2, o2)
      BY <1>5, <1>7, <3>1, <3>2, BothOwn
    <3>4. QED
      BY <3>3 DEF pt2, sf2, c
  <2>10. QED
    BY <1>1, <1>12, <2>4, <2>5, <2>9 DEF MemInv
<1>16. QED
  BY <1>14, <1>15

LEMMA SystemKeeps ==
  ASSUME MemInv, SystemCall
  PROVE  MemInv'
<1>1. mem.panic = "no" /\ UNCHANGED <<heap, pid_counter>>
  BY DEF SystemCall, Running
<1>2. PICK s \in UserProcesses, r \in Requests : sys_map_surface(s, r[2], r[3])
  BY DEF SystemCall
<1>3. r[2] \in Nat /\ r[3] \in Nat /\ PagesNeeded(r[2], r[3]) <= SURFACE_PAGES
  BY PixelAssumption, RoomAssumption
<1>4. QED
  BY <1>1, <1>2, <1>3, MapSurfaceKeeps
-----------------------------------------------------------------------------
LEMMA MemInvKept ==
  ASSUME MemInv, [Next]_vars
  PROVE  MemInv'
<1>1. CASE HeapCall
  BY <1>1, HeapKeeps
<1>2. CASE ProcessCall
  BY <1>2, ProcessKeeps
<1>3. CASE SurfaceCall
  BY <1>3, SurfaceKeeps
<1>4. CASE UNCHANGED vars
  <2>1. mem' = mem /\ heap' = heap /\ process_table' = process_table /\ surfaces' = surfaces
        /\ UNCHANGED <<processVars, surfaceVars>>
    BY <1>4 DEF vars, processVars, surfaceVars
  <2>2. Others'
    BY <2>1, OthersStay DEF MemInv, Others
  <2>3. QED
    BY <2>1, <2>2 DEF MemInv, Others
<1>5. CASE SystemCall
  BY <1>5, SystemKeeps
<1>6. QED
  BY <1>1, <1>2, <1>3, <1>4, <1>5 DEF Next

(* Page tables, heap, processes and surfaces: the frames they use have     *)
(* owners, and the heap's lists and the identifiers are in order.          *)
THEOREM MemoryOwned == Spec => []MemInv
<1>1. Init => MemInv
  BY InitOwns
<1>2. MemInv /\ [Next]_vars => MemInv'
  BY MemInvKept
<1>3. QED
  BY <1>1, <1>2, PTL DEF Spec

LEMMA TypesOK == MemInv => TypeOK
<1> SUFFICES ASSUME MemInv PROVE TypeOK
  OBVIOUS
<1>1. MemTypeOK
  <2>1. mem \in MemoryType
    BY DEF MemInv
  <2>2. QED
    BY <2>1, FieldsOf DEF MemTypeOK, Table, Entry
<1>2. HeapTypeOK
  <2>1. heap \in HeapType
    BY DEF MemInv, HeapOK
  <2>2. HeapRoom <= ENTRIES * ENTRIES /\ HeapRoom \in Nat /\ ENTRIES * ENTRIES \in Nat
    <3>1. ENTRIES \in Nat /\ HEAP_PDE \in Nat
      BY HeapEntry
    <3>2. HeapRoom = ENTRIES * ENTRIES - HEAP_PDE * ENTRIES /\ HEAP_PDE * ENTRIES \in Nat /\ ENTRIES * ENTRIES \in Nat
      BY <3>1 DEF HeapRoom
    <3>3. QED
      BY <3>2, RoomIsNat
  <2>3. heap.cursor \in 0 .. ENTRIES * ENTRIES
    <3>1. heap.cursor \in Int /\ 0 <= heap.cursor /\ heap.cursor <= HeapRoom
      BY <2>1, <2>2, HeapFields
    <3>2. QED
      BY <2>2, <3>1
  <2>4. QED
    BY <2>1, <2>3, HeapFields DEF HeapTypeOK
<1>3. QED
  BY <1>1, <1>2 DEF TypeOK, MemInv

(* No call, whatever it does before a panic, leaves a frame number, a      *)
(* table entry, a list node or a descriptor out of range.                  *)
THEOREM MemoryTypeOK == Spec => []TypeOK
BY MemoryOwned, TypesOK, PTL

LEMMA ApartUnits ==
  ASSUME NEW p \in Nat, NEW a \in Nat, NEW q \in Nat, NEW b \in Nat, Apart(p, a, q, b)
  PROVE  Units(p, a) \cap Units(q, b) = {}
BY DEF Apart, Units

LEMMA HeapIsDisjoint == MemInv => HeapDisjoint
<1> SUFFICES ASSUME MemInv PROVE HeapDisjoint
  OBVIOUS
<1> DEFINE lists == heap.free_list
           Nodes == UNION {{c} \X DOMAIN heap.free_list[c] : c \in Cache}
           Node(n) == Units(heap.free_list[n[1]][n[2]], SLAB_SIZES[n[1]])
<1>1. heap \in HeapType /\ ListsOK(heap.cursor, lists, heap.live)
  BY DEF MemInv, HeapOK
<1>2. heap.cursor \in Nat /\ lists \in [Cache -> Seq(Nat)] /\ heap.live \in SUBSET [ptr : Nat, size : Nat]
  BY <1>1, HeapFields, RoomIsNat
<1>3. ASSUME NEW n \in Nodes
      PROVE  /\ n[1] \in Cache /\ n[2] \in DOMAIN lists[n[1]] /\ n = <<n[1], n[2]>>
             /\ lists[n[1]][n[2]] \in Nat /\ SLAB_SIZES[n[1]] \in Nat
  <2>1. PICK c \in Cache : n \in {c} \X DOMAIN lists[c]
    BY <1>3
  <2>2. n = <<n[1], n[2]>> /\ n[1] = c /\ n[2] \in DOMAIN lists[c]
    BY <2>1
  <2>3. lists[c] \in Seq(Nat)
    BY <1>2
  <2>4. lists[c][n[2]] \in Nat
    BY <2>2, <2>3
  <2>5. QED
    BY <2>1, <2>2, <2>4, SlabSizes
<1>4. ASSUME NEW q \in heap.live PROVE q.ptr \in Nat /\ q.size \in Nat
  BY <1>2
<1> HIDE DEF Nodes, lists
<1>5. ASSUME NEW q \in heap.live
      PROVE  Units(q.ptr, q.size) \subseteq 0 .. heap.cursor * PAGE_UNITS - 1
  <2>1. q.ptr + q.size <= End(heap.cursor)
    BY <1>1 DEF ListsOK
  <2>2. End(heap.cursor) \in Nat /\ End(heap.cursor) = heap.cursor * PAGE_UNITS
    BY <1>2, SlabAssumption DEF End
  <2> DEFINE e == heap.cursor * PAGE_UNITS
             p == q.ptr
             z == q.size
  <2>3. e \in Nat /\ p + z <= e /\ p \in Nat /\ z \in Nat
    BY <1>4, <2>1, <2>2
  <2> HIDE DEF e, p, z
  <2>4. p .. p + z - 1 \subseteq 0 .. e - 1
    BY <2>3
  <2>5. QED
    BY <2>4 DEF e, p, z, Units
<1>6. ASSUME NEW q \in heap.live, NEW r \in heap.live \ {q}
      PROVE  Units(q.ptr, q.size) \cap Units(r.ptr, r.size) = {}
  <2>1. Apart(q.ptr, q.size, r.ptr, r.size)
    BY <1>1 DEF ListsOK
  <2>2. QED
    BY <1>4, <2>1, ApartUnits
<1>7. ASSUME NEW q \in heap.live, NEW n \in Nodes
      PROVE  Units(q.ptr, q.size) \cap Node(n) = {}
  <2> DEFINE a == lists[n[1]][n[2]]
             z == SLAB_SIZES[n[1]]
  <2>1. Apart(q.ptr, q.size, a, z)
    BY <1>1, <1>3 DEF ListsOK
  <2>2. a \in Nat /\ z \in Nat /\ Node(n) = Units(a, z)
    BY <1>3 DEF lists
  <2> HIDE DEF a, z
  <2>3. QED
    BY <1>4, <2>1, <2>2, ApartUnits
<1>8. ASSUME NEW n \in Nodes, NEW k \in Nodes \ {n}
      PROVE  Node(n) \cap Node(k) = {}
  <2> DEFINE a == lists[n[1]][n[2]]
             y == SLAB_SIZES[n[1]]
             b == lists[k[1]][k[2]]
             z == SLAB_SIZES[k[1]]
  <2>1. ~(n[1] = k[1] /\ n[2] = k[2])
    BY <1>3
  <2>2. Apart(a, y, b, z)
    BY <1>1, <1>3, <2>1 DEF ListsOK
  <2>3. a \in Nat /\ y \in Nat /\ b \in Nat /\ z \in Nat /\ Node(n) = Units(a, y) /\ Node(k) = Units(b, z)
    BY <1>3 DEF lists
  <2> HIDE DEF a, b, y, z
  <2>4. QED
    BY <2>2, <2>3, ApartUnits
<1>9. QED
  BY <1>5, <1>6, <1>7, <1>8 DEF HeapDisjoint, Nodes

(* Although k_free guesses the list an object goes to, objects and free    *)
(* nodes never overlap, whatever the sizes asked for.                      *)
THEOREM MemoryHeapDisjoint == Spec => []HeapDisjoint
BY MemoryOwned, HeapIsDisjoint, PTL

LEMMA SpacesAreSeparate == MemInv => SpacesSeparate
<1> SUFFICES ASSUME MemInv, NEW s \in UserProcesses
             PROVE  LET pd == process_table[s].page_dir
                    IN /\ \A i \in KERNEL_PDE .. ENTRIES - 1 : mem.table[pd][i] \in {Absent, mem.table[kernel_pd][i]}
                       /\ UserFrames(pd) \subseteq process_table[s].ustack \cup process_table[s].granted
  BY DEF SpacesSeparate
<1> DEFINE pd == process_table[s].page_dir
           u == process_table[s].ustack \cup process_table[s].granted
<1>1. PICK o : Owns(mem, heap.cursor, process_table, surfaces, o)
  BY DEF MemInv
<1>2. s \in Live(process_table) /\ process_table[s].ring = 3
  BY DEF UserProcesses, Processes, Live
<1>3. DirectoryOK(mem, s, pd, u, o) /\ KernelOK(mem, o)
  BY <1>1, <1>2 DEF Owns, ProcessOK
<1> HIDE DEF pd, u
<1>4. \A i \in KERNEL_PDE .. ENTRIES - 1 : mem.table[pd][i] \in {Absent, mem.table[kernel_pd][i]}
  <2>1. \A i \in KERNEL_PDE .. ENTRIES - 1 : i \in Index /\ i >= KERNEL_PDE
    BY FrameAssumption DEF Index
  <2>2. QED
    BY <1>3, <2>1 DEF DirectoryOK
<1>5. ASSUME NEW f \in UserFrames(pd) PROVE f \in u
  <2>1. PICK g \in Pages : /\ mem.table[pd][PD_INDEX(g)].user
                           /\ mem.table[mem.table[pd][PD_INDEX(g)].frame][PT_INDEX(g)].user
                           /\ f = vmm_virt_to_phys(mem, pd, g)
    BY <1>5 DEF UserFrames
  <2> DEFINE i == PD_INDEX(g)
             j == PT_INDEX(g)
             e == mem.table[pd][i]
  <2>2. i \in Index /\ j \in Index
    BY PageIndices
  <2>3. ~Absent.user
    BY DEF Absent
  <2>4. e # Absent /\ f = mem.table[e.frame][j].frame
    BY <2>1, <2>3 DEF vmm_virt_to_phys
  <2>5. e.user /\ mem.table[e.frame][j].user
    BY <2>1
  <2> HIDE DEF i, j
  <2>6. CASE i >= KERNEL_PDE
    <3>1. e = mem.table[kernel_pd][i]
      BY <1>3, <2>2, <2>4, <2>6 DEF DirectoryOK
    <3>2. ~mem.table[kernel_pd][i].user
      BY <1>3, <2>2, <2>4, <3>1 DEF KernelOK
    <3>3. QED
      BY <2>5, <3>1, <3>2
  <2>7. CASE i < KERNEL_PDE
    BY <1>3, <2>2, <2>4, <2>5, <2>7 DEF DirectoryOK
  <2>8. QED
    BY <2>2, <2>6, <2>7, FrameAssumption DEF Index
<1>6. QED
  BY <1>4, <1>5 DEF pd, u

(* Whatever tables are added on either side after a directory was copied,  *)
(* Ring 3 reaches its own stack and the surfaces mapped for it.            *)
THEOREM MemorySpacesSeparate == Spec => []SpacesSeparate
BY MemoryOwned, SpacesAreSeparate, PTL

(* The pages cover the pixels. *)
LEMMA PixelInPage ==
  ASSUME NEW a \in Nat, NEW p \in 0 .. a - 1
  PROVE  p \div PAGE_PIXELS \in 0 .. ((a + PAGE_PIXELS - 1) \div PAGE_PIXELS) - 1
<1> DEFINE pp == PAGE_PIXELS
           q == p \div pp
           b == a + pp - 1
           r == b \div pp
<1>1. pp \in Nat \ {0} /\ p \in Nat /\ b \in Nat /\ p <= a - 1
  BY PixelAssumption
<1> HIDE DEF pp, b
<1>2. q \in Nat /\ q * pp <= p
  BY <1>1
<1>3. r \in Nat /\ b < r * pp + pp
  BY <1>1
<1> HIDE DEF q, r
<1>4. q * pp < r * pp /\ q * pp \in Nat /\ r * pp \in Nat
  <2>1. q * pp \in Nat /\ r * pp \in Nat
    BY <1>1, <1>2, <1>3
  <2> DEFINE x == q * pp
             y == r * pp
  <2>2. x \in Nat /\ y \in Nat /\ x <= p /\ b < y + pp /\ b = a + pp - 1
    BY <1>2, <1>3, <2>1 DEF b
  <2> HIDE DEF x, y
  <2>3. x < y
    BY <1>1, <2>2
  <2>4. QED
    BY <2>1, <2>3 DEF x, y
<1>5. q < r
  <2>1. SUFFICES ASSUME r <= q PROVE FALSE
    BY <1>2, <1>3
  <2>2. r * pp <= q * pp
    BY <1>1, <1>2, <1>3, <2>1
  <2>3. QED
    BY <1>4, <2>2
<1>6. q \in 0 .. r - 1
  BY <1>2, <1>3, <1>5
<1>7. QED
  BY <1>6 DEF q, r, b, pp

(* A frame in use is read at its own address, or the read faults: above    *)
(* boot.asm's mapping and below the heap the kernel has no table.          *)
LEMMA FrameReads ==
  ASSUME MemInv, NEW f \in Frame
  PROVE  KernelReads((KERNEL_PDE * ENTRIES + f) % (ENTRIES * ENTRIES)) \in {f, -1}
<1> DEFINE k == KERNEL_PDE * ENTRIES
           hp == HEAP_PDE * ENTRIES
           all == ENTRIES * ENTRIES
           page == k + f
           e == mem.table[kernel_pd][PD_INDEX(page)]
<1>1. /\ ENTRIES \in Nat \ {0} /\ KERNEL_PDE \in Nat /\ HEAP_PDE \in Nat /\ HEAP_PDE < ENTRIES
      /\ FRAMES <= (HEAP_PDE - KERNEL_PDE) * ENTRIES /\ FRAMES \in Nat /\ DIRECT \in Nat
  BY FrameAssumption, GrowthAssumption
<1>2. (HEAP_PDE - KERNEL_PDE) * ENTRIES = hp - k /\ k \in Nat /\ hp \in Nat /\ all \in Nat /\ hp <= all
  BY <1>1
<1>3. f \in Nat /\ f < FRAMES
  BY <1>1 DEF Frame
<1> HIDE DEF k, hp, all
<1>4. page \in Nat /\ page < hp /\ page < all
  BY <1>1, <1>2, <1>3
<1>5. page % all = page
  BY <1>2, <1>4
<1>6. page \in Pages /\ PD_INDEX(page) \in Index /\ PD_INDEX(page) < HEAP_PDE
  <2>1. page \in Pages
    BY <1>2, <1>4 DEF Pages, all
  <2>2. page < HEAP_PDE * ENTRIES
    BY <1>4 DEF hp
  <2> HIDE DEF page
  <2>3. QED
    BY <2>1, <2>2, EntryOfPage, PageIndices
<1>7. page - k = f
  BY <1>2, <1>3
<1> HIDE DEF page
<1>8. CASE f \in 0 .. DIRECT - 1
  <2>1. KernelReads(page) = f
    BY <1>7, <1>8 DEF KernelReads, k
  <2>2. QED
    BY <1>5, <2>1 DEF page, k, all
<1>9. CASE f \notin 0 .. DIRECT - 1
  <2>1. KernelReads(page) = vmm_virt_to_phys(mem, kernel_pd, page)
    BY <1>7, <1>9 DEF KernelReads, k
  <2>2. e = Absent
    <3>1. PICK o : KernelOK(mem, o)
      BY DEF MemInv, Owns
    <3>2. ~(PD_INDEX(page) >= HEAP_PDE)
      BY <1>1, <1>6 DEF Index
    <3>3. QED
      BY <1>6, <3>1, <3>2 DEF KernelOK
  <2>3. KernelReads(page) = -1
    BY <2>1, <2>2 DEF vmm_virt_to_phys
  <2>4. QED
    BY <1>5, <2>3 DEF page, k, all
<1>10. QED
  BY <1>8, <1>9

LEMMA WindowsShowOwn == MemInv => WindowShowsOwn
<1> SUFFICES ASSUME MemInv, NEW i \in WindowSlot, NEW s \in Shown(i)
             PROVE  /\ s.owner_pid = windows[i].for
                    /\ s.width * s.height < PIXEL_WRAP => FramesRead(s) \subseteq FramesOf(s) \cup {-1}
  BY DEF WindowShowsOwn
<1>1. PICK j \in SurfaceSlot : surfaces[j].active /\ surfaces[j].id = windows[i].surface_id /\ s = surfaces[j]
  BY DEF Shown, surface_get
<1>2. s.owner_pid = windows[i].for
  BY <1>1 DEF MemInv, WindowInv
<1>3. s \in SurfaceType /\ FramesOf(s) \subseteq Frame
  <2>1. PICK o : Owns(mem, heap.cursor, process_table, surfaces, o)
    BY DEF MemInv
  <2>2. FramesOf(s) \subseteq mem.used
    BY <1>1, <2>1 DEF Owns, FramesOK
  <2>3. mem.used \subseteq Frame
    BY FieldsOf DEF MemInv
  <2>4. QED
    BY <1>1, <2>2, <2>3 DEF MemInv, SurfaceTypeOK, SurfaceType
<1>4. ASSUME s.width * s.height < PIXEL_WRAP PROVE FramesRead(s) \subseteq FramesOf(s) \cup {-1}
  <2> DEFINE a == s.width * s.height
             pb == s.phys_base
             r == (a + PAGE_PIXELS - 1) \div PAGE_PIXELS
  <2>1. s.width \in Nat /\ s.height \in Nat /\ pb \in Frame
    BY <1>3 DEF SurfaceType
  <2>2. a \in Nat /\ pb \in Nat
    BY <2>1, FrameAssumption DEF Frame
  <2>3. PagesNeeded(s.width, s.height) = r
    <3> DEFINE b == s.width * s.height
    <3>1. b \in Nat /\ b < PIXEL_WRAP /\ PIXEL_WRAP \in Nat \ {0}
      BY <1>4, <2>2, WrapIsNat
    <3> HIDE DEF b
    <3>2. b % PIXEL_WRAP = b
      BY <3>1
    <3>3. QED
      BY <3>2 DEF PagesNeeded, b
  <2>4. /\ FramesRead(s) = {KernelReads((KERNEL_PDE * ENTRIES + pb + (p \div PAGE_PIXELS)) % (ENTRIES * ENTRIES)) :
                              p \in 0 .. a - 1}
        /\ FramesOf(s) = pb .. pb + r - 1
    BY <2>3 DEF FramesRead, FramesOf
  <2> HIDE DEF a, pb
  <2>5. r \in Nat
    BY <2>2, PixelAssumption
  <2>6. ASSUME NEW p \in 0 .. a - 1
        PROVE  KernelReads((KERNEL_PDE * ENTRIES + pb + (p \div PAGE_PIXELS)) % (ENTRIES * ENTRIES)) \in FramesOf(s) \cup {-1}
    <3> DEFINE q == p \div PAGE_PIXELS
               f == pb + q
               k == KERNEL_PDE * ENTRIES
    <3>1. q \in 0 .. r - 1
      BY <2>2, PixelInPage
    <3>2. k \in Nat
      BY FrameAssumption
    <3> HIDE DEF q, r, k
    <3>3. f \in pb .. pb + r - 1 /\ k + pb + q = k + f
      BY <2>2, <2>5, <3>1, <3>2
    <3>4. f \in FramesOf(s) /\ f \in Frame
      BY <1>3, <2>4, <3>3 DEF r
    <3> HIDE DEF f
    <3>5. KernelReads((k + f) % (ENTRIES * ENTRIES)) \in {f, -1}
      BY <3>4, FrameReads DEF k
    <3>6. QED
      BY <3>3, <3>4, <3>5 DEF q, k
  <2>7. QED
    BY <2>4, <2>6
<1>5. QED
  BY <1>2, <1>4

(* However slots are destroyed and taken again, a window shows a surface   *)
(* of the process it was opened for, and rendering one whose size has not  *)
(* wrapped reads its frames or faults.                                     *)
THEOREM MemoryWindowShowsOwn == Spec => []WindowShowsOwn
BY MemoryOwned, WindowsShowOwn, PTL
-----------------------------------------------------------------------------
(* A use of frames is told by its kind and number, and its frames have     *)
(* that owner.                                                             *)
Use(kind, n) ==
  CASE kind = "directory" -> <<kind, {kernel_pd}>>
    [] kind = "kernel tables" -> <<kind, TablesOf(kernel_pd, Index)>>
    [] kind = "heap" -> <<kind, n, HeapFrames(n)>>
    [] kind = "kernel stack" -> <<kind, n, process_table[n].kstack>>
    [] kind = "user stack" -> <<kind, n, process_table[n].ustack>>
    [] kind = "user directory" -> <<kind, n, {process_table[n].page_dir}>>
    [] kind = "user tables" -> <<kind, n, TablesOf(process_table[n].page_dir, 0 .. KERNEL_PDE - 1)>>
    [] kind = "surface" -> <<kind, n, FramesOf(surfaces[n])>>

Single == {"directory", "kernel tables"}

Claims(u, o, kind, n) ==
  /\ u = Use(kind, n)
  /\ \A f \in u[Len(u)] : f \in mem.used /\ o[f].kind = kind /\ (kind \notin Single => o[f].at = n)

LEMMA UseFrames ==
  ASSUME NEW a, NEW b, NEW c
  PROVE  /\ <<a, b>>[Len(<<a, b>>)] = b
         /\ <<a, b, c>>[Len(<<a, b, c>>)] = c
OBVIOUS

LEMMA UseClaims ==
  ASSUME NEW o, Owns(mem, heap.cursor, process_table, surfaces, o), NEW u \in Uses
  PROVE  \E kind, n : Claims(u, o, kind, n)
<1>1. KernelOK(mem, o) /\ HeapPagesOK(mem, heap.cursor, o)
  BY DEF Owns
<1>2. \A s \in Processes : ProcessOK(mem, s, process_table[s], o)
  BY DEF Owns, Processes, Live
<1>3. \A s \in UserProcesses : DirectoryOK(mem, s, process_table[s].page_dir,
                                          process_table[s].ustack \cup process_table[s].granted, o)
  BY <1>2 DEF UserProcesses, ProcessOK
<1>4. ASSUME NEW kind, NEW F, NEW n, u = <<kind, F>>, u = Use(kind, n), kind \in Single,
             \A f \in F : f \in mem.used /\ o[f].kind = kind
      PROVE  Claims(u, o, kind, n)
  <2>1. u[Len(u)] = F
    BY <1>4, UseFrames
  <2>2. QED
    BY <1>4, <2>1 DEF Claims
<1>5. ASSUME NEW kind, NEW F, NEW n, u = <<kind, n, F>>, u = Use(kind, n), FramesOK(mem, F, kind, n, o)
      PROVE  Claims(u, o, kind, n)
  <2>1. u[Len(u)] = F
    BY <1>5, UseFrames
  <2>2. QED
    BY <1>5, <2>1 DEF Claims, FramesOK, Is
<1>6. CASE u = <<"directory", {kernel_pd}>>
  <2>1. u = Use("directory", 0)
    BY <1>6 DEF Use
  <2>2. \A f \in {kernel_pd} : f \in mem.used /\ o[f].kind = "directory"
    BY <1>1 DEF KernelOK, Is
  <2>3. "directory" \in Single
    BY DEF Single
  <2>4. Claims(u, o, "directory", 0)
    BY <1>4, <1>6, <2>1, <2>2, <2>3
  <2>5. QED
    BY <2>4
<1>7. CASE u = <<"kernel tables", TablesOf(kernel_pd, Index)>>
  <2>1. u = Use("kernel tables", 0)
    BY <1>7 DEF Use
  <2>2. ASSUME NEW f \in TablesOf(kernel_pd, Index) PROVE f \in mem.used /\ o[f].kind = "kernel tables"
    <3>1. PICK i \in Index : mem.table[kernel_pd][i] # Absent /\ f = mem.table[kernel_pd][i].frame
      BY DEF TablesOf
    <3>2. f \in mem.used /\ Is(o[f], "kernel tables", i)
      BY <1>1, <3>1 DEF KernelOK
    <3>3. QED
      BY <3>2 DEF Is
  <2>3. "kernel tables" \in Single
    BY DEF Single
  <2>4. Claims(u, o, "kernel tables", 0)
    BY <1>4, <1>7, <2>1, <2>2, <2>3
  <2>5. QED
    BY <2>4
<1>8. ASSUME NEW g \in 0 .. heap.cursor - 1, u = <<"heap", g, HeapFrames(g)>> PROVE Claims(u, o, "heap", g)
  <2>1. u = Use("heap", g)
    BY <1>8 DEF Use
  <2>2. FramesOK(mem, HeapFrames(g), "heap", g, o)
    BY <1>1 DEF HeapPagesOK, HeapPage, HeapFrames, FramesOK
  <2>3. QED
    BY <1>5, <1>8, <2>1, <2>2
<1>9. ASSUME NEW s \in Processes, u = <<"kernel stack", s, process_table[s].kstack>> PROVE Claims(u, o, "kernel stack", s)
  <2>1. u = Use("kernel stack", s)
    BY <1>9 DEF Use
  <2>2. FramesOK(mem, process_table[s].kstack, "kernel stack", s, o)
    BY <1>2 DEF ProcessOK
  <2>3. QED
    BY <1>5, <1>9, <2>1, <2>2
<1>10. ASSUME NEW s \in Processes, u = <<"user stack", s, process_table[s].ustack>> PROVE Claims(u, o, "user stack", s)
  <2>1. u = Use("user stack", s)
    BY <1>10 DEF Use
  <2>2. FramesOK(mem, process_table[s].ustack, "user stack", s, o)
    BY <1>2 DEF ProcessOK
  <2>3. QED
    BY <1>5, <1>10, <2>1, <2>2
<1>11. ASSUME NEW s \in UserProcesses, u = <<"user directory", s, {process_table[s].page_dir}>>
       PROVE  Claims(u, o, "user directory", s)
  <2>1. u = Use("user directory", s)
    BY <1>11 DEF Use
  <2>2. FramesOK(mem, {process_table[s].page_dir}, "user directory", s, o)
    BY <1>3 DEF DirectoryOK, FramesOK
  <2>3. QED
    BY <1>5, <1>11, <2>1, <2>2
<1>12. ASSUME NEW s \in UserProcesses, u = <<"user tables", s, TablesOf(process_table[s].page_dir, 0 .. KERNEL_PDE - 1)>>
       PROVE  Claims(u, o, "user tables", s)
  <2> DEFINE pd == process_table[s].page_dir
  <2>1. u = Use("user tables", s)
    BY <1>12 DEF Use
  <2>2. \A i \in 0 .. KERNEL_PDE - 1 : i \in Index /\ i < KERNEL_PDE
    BY FrameAssumption DEF Index
  <2>3. FramesOK(mem, TablesOf(pd, 0 .. KERNEL_PDE - 1), "user tables", s, o)
    BY <1>3, <2>2 DEF DirectoryOK, FramesOK, TablesOf
  <2>4. QED
    BY <1>5, <1>12, <2>1, <2>3
<1>13. ASSUME NEW i \in SurfaceSlot, surfaces[i].active, u = <<"surface", i, FramesOf(surfaces[i])>>
       PROVE  Claims(u, o, "surface", i)
  <2>1. u = Use("surface", i)
    BY <1>13 DEF Use
  <2>2. FramesOK(mem, FramesOf(surfaces[i]), "surface", i, o)
    BY <1>13 DEF Owns
  <2>3. QED
    BY <1>5, <1>13, <2>1, <2>2
<1>14. QED
  BY <1>4, <1>6, <1>7, <1>8, <1>9, <1>10, <1>11, <1>12, <1>13 DEF Uses

LEMMA FramesAreOwnedOnce == MemInv => FramesOwnedOnce
<1> SUFFICES ASSUME MemInv, NEW u \in Uses
             PROVE  /\ u[Len(u)] \subseteq mem.used
                    /\ \A v \in Uses \ {u} : u[Len(u)] \cap v[Len(v)] = {}
  BY DEF FramesOwnedOnce
<1>1. PICK o : Owns(mem, heap.cursor, process_table, surfaces, o)
  BY DEF MemInv
<1>2. PICK kind, n : Claims(u, o, kind, n)
  BY <1>1, UseClaims
<1>3. u[Len(u)] \subseteq mem.used
  BY <1>2 DEF Claims
<1>4. ASSUME NEW v \in Uses \ {u}, NEW f, f \in u[Len(u)], f \in v[Len(v)] PROVE FALSE
  <2>1. PICK kind2, n2 : Claims(v, o, kind2, n2)
    BY <1>1, UseClaims
  <2>2. kind2 = kind /\ (kind \notin Single => n2 = n)
    BY <1>2, <1>4, <2>1 DEF Claims
  <2>3. u = Use(kind, n) /\ v = Use(kind, n2)
    BY <1>2, <2>1, <2>2 DEF Claims
  <2>4. CASE kind = "directory"
    BY <2>3, <2>4 DEF Use
  <2>5. CASE kind = "kernel tables"
    BY <2>3, <2>5 DEF Use
  <2>6. CASE kind \notin Single
    BY <2>2, <2>3, <2>6
  <2>7. QED
    BY <2>4, <2>5, <2>6 DEF Single
<1>5. QED
  BY <1>3, <1>4

(* Whatever the order of growth, creation, destruction and of sizes that   *)
(* wrap, and wherever a call runs out of memory, no frame has two uses.    *)
THEOREM MemoryFramesOwnedOnce == Spec => []FramesOwnedOnce
BY MemoryOwned, FramesAreOwnedOnce, PTL
=============================================================================
