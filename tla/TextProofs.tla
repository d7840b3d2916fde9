----------------------------- MODULE TextProofs -----------------------------
(***************************************************************************)
(* For every size of the word, of the memory, of the strings, of the       *)
(* printed fields and of the blocks: what the loops of string.c and of the *)
(* padding of SHA-256 compute.                                             *)
(***************************************************************************)
EXTENDS Text, SequenceTheorems, WellFoundedInduction, TLAPS

(* A set of naturals has a least element, which is what Min returns.       *)
LEMMA LeastElement ==
  ASSUME NEW T \in SUBSET Nat, T # {}
  PROVE  \E x \in T : \A y \in T : x <= y
<1> DEFINE R == {ss \in Nat \X Nat : ss[1] < ss[2]}
<1>1. IsWellFoundedOn(R, Nat)
  BY NatLessThanWellFounded, Zenon DEF OpToRel
<1>2. PICK x \in T : \A y \in T : ~ (<<y, x>> \in R)
  <2> HIDE DEF R
  <2> QED BY <1>1, WFMin
<1>3. ASSUME NEW y \in T PROVE x <= y
  <2>1. <<y, x>> \in Nat \X Nat
    OBVIOUS
  <2>2. ~(y < x)
    BY <1>2, <2>1
  <2>3. QED
    BY <2>2
<1>4. QED
  BY <1>3

LEMMA QuotientIsNat ==
  ASSUME NEW a \in Nat, NEW b \in Nat \ {0}
  PROVE  a \div b \in Nat
OBVIOUS

LEMMA SetInduction ==
  ASSUME NEW n \in Nat, NEW S, 0 \in S, \A i \in 0 .. n - 1 : i \in S => i + 1 \in S
  PROVE  \A i \in 0 .. n : i \in S
<1> DEFINE T == {i \in 0 .. n : i \notin S}
<1>1. SUFFICES ASSUME T # {} PROVE FALSE
  OBVIOUS
<1>2. T \in SUBSET Nat
  OBVIOUS
<1>3. PICK x \in T : \A y \in T : x <= y
  <2> HIDE DEF T
  <2>1. QED
    BY <1>1, <1>2, LeastElement
<1>4. x \in 0 .. n /\ x \notin S /\ x # 0
  OBVIOUS
<1>5. x - 1 \in 0 .. n - 1 /\ x - 1 \in 0 .. n /\ ~(x <= x - 1) /\ (x - 1) + 1 = x
  BY <1>4
<1>6. x - 1 \in S
  BY <1>3, <1>5
<1>7. QED
  BY <1>4, <1>5, <1>6

-----------------------------------------------------------------------------
(* Loops.  The recursive functions of the memory functions satisfy their   *)
(* equations.                                                              *)

SetTurn(t, p, v, n) == LET w == Width(p + t.done, n - t.done)
                       IN [mem |-> Store(t.mem, p + t.done, [k \in 1 .. w |-> v]), done |-> t.done + w]
CopyTurn(t, d, s, n) ==
  LET w == Width(d + t.done, n - t.done)
  IN [mem |-> Store(t.mem, d + t.done, SubSeq(t.mem, s + t.done + 1, s + t.done + w)), done |-> t.done + w]
UpTurn(m, d, s, k) == Store(m, d + k - 1, <<At(m, s + k - 1)>>)
DownTurn(m, d, s, n, k) == Store(m, d + n - k, <<At(m, s + n - k)>>)
TokTurn(l) == IF l.t.tok = NULL THEN l
              ELSE [t |-> NextToken(l.t.buf, l.t.save), argv |-> Append(l.argv, l.t.tok)]

(* What luna_snprintf writes of an item when there is room. *)
Numeral(val, base, width, pad) == Pad(width, Len(Digits(val, base)), pad) \o Digits(val, base)
Magnitude(v) == (IF v = -(WORD \div 2) THEN v ELSE -v) % (WORD * WORD)
ItemText(f) == CASE f.conv = "lit" -> <<f.arg>>
                 [] f.conv = "s" -> Pad(f.width, Len(f.arg), SPACE) \o f.arg
                 [] f.conv = "d" -> IF f.arg < 0 THEN <<MINUS>> \o Numeral(Magnitude(f.arg), 10, f.width, f.pad)
                                    ELSE Numeral(f.arg, 10, f.width, f.pad)
                 [] f.conv = "u" -> Numeral(f.arg % WORD, 10, f.width, f.pad)
                 [] f.conv = "x" -> Numeral(f.arg % WORD, 16, f.width, f.pad)
                 [] f.conv = "p" -> <<48, 120>> \o Numeral(f.arg % WORD, 16, 8, 48)
                 [] OTHER -> <<63>>
PrintTurn(x, size, f) == IF Len(x) < size - 1 THEN Convert(x, size, f) ELSE x
ValueTurn(x, b, p, base, i) == (x * base + Digit(At(b, p + i - 1))) % WORD

Advance(loop, x, i) == IF loop[1] = "set" THEN SetTurn(x, loop[2], loop[3], loop[4])
                       ELSE IF loop[1] = "copy" THEN CopyTurn(x, loop[2], loop[3], loop[4])
                       ELSE IF loop[1] = "up" THEN UpTurn(x, loop[2], loop[3], i)
                       ELSE IF loop[1] = "down" THEN DownTurn(x, loop[2], loop[3], loop[4], i)
                       ELSE IF loop[1] = "lex" THEN lexer_next_token(loop[2], x)
                       ELSE IF loop[1] = "write" THEN write_char(x, loop[2], loop[3][i])
                       ELSE IF loop[1] = "print" THEN PrintTurn(x, loop[2], loop[3][i])
                       ELSE IF loop[1] = "text" THEN x \o ItemText(loop[2][i])
                       ELSE IF loop[1] = "value" THEN ValueTurn(x, loop[2], loop[3], loop[4], i)
                       ELSE TokTurn(x)

Loop(loop, x, n) == CHOOSE g : g = [i \in 0 .. n |-> IF i = 0 THEN x ELSE Advance(loop, g[i - 1], i)]

LEMMA LoopExists ==
  ASSUME NEW loop, NEW k, NEW n \in Nat
  PROVE  \E g : g = [i \in 0 .. n |-> IF i = 0 THEN k ELSE Advance(loop, g[i - 1], i)]
<1> DEFINE P(m) == \E g : g = [i \in 0 .. m |-> IF i = 0 THEN k ELSE Advance(loop, g[i - 1], i)]
           T == {m \in Nat : ~P(m)}
<1>1. SUFFICES ASSUME T # {} PROVE FALSE
  OBVIOUS
<1>2. PICK x \in T : \A y \in T : x <= y
  <2>1. T \in SUBSET Nat
    OBVIOUS
  <2> HIDE DEF T
  <2>2. QED
    BY <1>1, <2>1, LeastElement
<1>3. CASE x = 0
  <2> DEFINE g == [i \in 0 .. 0 |-> k]
  <2>1. g = [i \in 0 .. 0 |-> IF i = 0 THEN k ELSE Advance(loop, g[i - 1], i)]
    OBVIOUS
  <2>2. P(0)
    BY <2>1
  <2>3. QED
    BY <1>2, <1>3, <2>2
<1>4. CASE x # 0
  <2>1. x \in Nat /\ x - 1 \in Nat /\ ~(x <= x - 1)
    BY <1>2, <1>4
  <2>2. P(x - 1)
    BY <1>2, <2>1
  <2>3. PICK g : g = [i \in 0 .. x - 1 |-> IF i = 0 THEN k ELSE Advance(loop, g[i - 1], i)]
    BY <2>2
  <2> DEFINE h == [i \in 0 .. x |-> IF i = x THEN Advance(loop, g[x - 1], x) ELSE g[i]]
  <2>4. ASSUME NEW i \in 0 .. x
        PROVE  h[i] = IF i = 0 THEN k ELSE Advance(loop, h[i - 1], i)
    <3>1. CASE i = x
      <4>1. h[i] = Advance(loop, g[x - 1], x)
        BY <3>1
      <4>2. x - 1 \in 0 .. x /\ x - 1 # x
        BY <2>1
      <4>3. h[x - 1] = g[x - 1]
        BY <4>2
      <4>4. QED
        BY <1>4, <3>1, <4>1, <4>3
    <3>2. CASE i # x /\ i # 0
      <4>1. i \in 0 .. x - 1 /\ i - 1 \in 0 .. x /\ i - 1 # x
        BY <2>1, <3>2
      <4>2. h[i] = g[i] /\ h[i - 1] = g[i - 1]
        BY <3>2, <4>1
      <4>3. g[i] = Advance(loop, g[i - 1], i)
        BY <2>3, <3>2, <4>1
      <4>4. QED
        BY <3>2, <4>2, <4>3
    <3>3. CASE i = 0
      <4>1. h[0] = g[0] /\ 0 \in 0 .. x - 1
        BY <1>4, <2>1, <3>3
      <4>2. g[0] = k
        BY <2>3, <4>1
      <4>3. QED
        BY <3>3, <4>1, <4>2
    <3>4. QED
      BY <3>1, <3>2, <3>3
  <2>5. h = [i \in 0 .. x |-> IF i = 0 THEN k ELSE Advance(loop, h[i - 1], i)]
    <3>1. h = [i \in 0 .. x |-> h[i]]
      OBVIOUS
    <3> HIDE DEF h
    <3>2. QED
      BY <2>4, <3>1
  <2>6. P(x)
    BY <2>5
  <2>7. QED
    BY <1>2, <2>6
<1>5. QED
  BY <1>3, <1>4

LEMMA LoopEquations ==
  ASSUME NEW loop, NEW k, NEW n \in Nat
  PROVE  /\ Loop(loop, k, n)[0] = k
         /\ \A i \in 1 .. n : Loop(loop, k, n)[i] = Advance(loop, Loop(loop, k, n)[i - 1], i)
<1> DEFINE g == Loop(loop, k, n)
<1>1. g = [i \in 0 .. n |-> IF i = 0 THEN k ELSE Advance(loop, g[i - 1], i)]
  BY LoopExists DEF Loop
<1> HIDE DEF g
<1>2. g[0] = k
  BY <1>1
<1>3. \A i \in 1 .. n : g[i] = Advance(loop, g[i - 1], i)
  BY <1>1
<1>4. QED
  BY <1>2, <1>3 DEF g


LEMMA SetIsLoop ==
  ASSUME NEW b, NEW p, NEW v, NEW n
  PROVE  luna_memset(b, p, v, n) = Loop(<<"set", p, v, n>>, [mem |-> b, done |-> 0], n)[n].mem
<1>1. luna_memset(b, p, v, n) =
        (CHOOSE g : g = [i \in 0 .. n |-> IF i = 0 THEN [mem |-> b, done |-> 0] ELSE SetTurn(g[i - 1], p, v, n)])[n].mem
  BY DEF luna_memset, Turns, SetTurn
<1>2. \A x, i : Advance(<<"set", p, v, n>>, x, i) = SetTurn(x, p, v, n)
  BY DEF Advance
<1>3. Loop(<<"set", p, v, n>>, [mem |-> b, done |-> 0], n) =
        CHOOSE g : g = [i \in 0 .. n |-> IF i = 0 THEN [mem |-> b, done |-> 0] ELSE SetTurn(g[i - 1], p, v, n)]
  BY <1>2 DEF Loop
<1>4. QED
  BY <1>1, <1>3

LEMMA CopyIsLoop ==
  ASSUME NEW b, NEW d, NEW s, NEW n
  PROVE  luna_memcpy(b, d, s, n) = Loop(<<"copy", d, s, n>>, [mem |-> b, done |-> 0], n)[n].mem
<1>1. luna_memcpy(b, d, s, n) =
        (CHOOSE g : g = [i \in 0 .. n |-> IF i = 0 THEN [mem |-> b, done |-> 0] ELSE CopyTurn(g[i - 1], d, s, n)])[n].mem
  BY DEF luna_memcpy, Turns, CopyTurn
<1>2. \A x, i : Advance(<<"copy", d, s, n>>, x, i) = CopyTurn(x, d, s, n)
  BY DEF Advance
<1>3. Loop(<<"copy", d, s, n>>, [mem |-> b, done |-> 0], n) =
        CHOOSE g : g = [i \in 0 .. n |-> IF i = 0 THEN [mem |-> b, done |-> 0] ELSE CopyTurn(g[i - 1], d, s, n)]
  BY <1>2 DEF Loop
<1>4. QED
  BY <1>1, <1>3

LEMMA ForwardIsLoop ==
  ASSUME NEW b, NEW d, NEW s, NEW n
  PROVE  Forward(b, d, s, n) = Loop(<<"up", d, s>>, b, n)[n]
<1>1. Forward(b, d, s, n) = (CHOOSE g : g = [i \in 0 .. n |-> IF i = 0 THEN b ELSE UpTurn(g[i - 1], d, s, i)])[n]
  BY DEF Forward, UpTurn
<1>2. \A x, i : Advance(<<"up", d, s>>, x, i) = UpTurn(x, d, s, i)
  BY DEF Advance
<1>3. Loop(<<"up", d, s>>, b, n) = CHOOSE g : g = [i \in 0 .. n |-> IF i = 0 THEN b ELSE UpTurn(g[i - 1], d, s, i)]
  BY <1>2 DEF Loop
<1>4. QED
  BY <1>1, <1>3

LEMMA BackwardIsLoop ==
  ASSUME NEW b, NEW d, NEW s, NEW n
  PROVE  Backward(b, d, s, n) = Loop(<<"down", d, s, n>>, b, n)[n]
<1>1. Backward(b, d, s, n) = (CHOOSE g : g = [i \in 0 .. n |-> IF i = 0 THEN b ELSE DownTurn(g[i - 1], d, s, n, i)])[n]
  BY DEF Backward, DownTurn
<1>2. \A x, i : Advance(<<"down", d, s, n>>, x, i) = DownTurn(x, d, s, n, i)
  BY DEF Advance
<1>3. Loop(<<"down", d, s, n>>, b, n) = CHOOSE g : g = [i \in 0 .. n |-> IF i = 0 THEN b ELSE DownTurn(g[i - 1], d, s, n, i)]
  BY <1>2 DEF Loop
<1>4. QED
  BY <1>1, <1>3
-----------------------------------------------------------------------------
(* Memory functions. *)

LEMMA StoreBytes ==
  ASSUME NEW S, NEW b \in Seq(S), NEW s \in Seq(S), NEW p \in Nat
  PROVE  /\ Store(b, p, s) \in Seq(S) /\ Len(Store(b, p, s)) = Len(b)
         /\ \A i \in 1 .. Len(b) : Store(b, p, s)[i] = IF p < i /\ i <= p + Len(s) THEN s[i - p] ELSE b[i]
<1> DEFINE r == [i \in 1 .. Len(b) |-> IF i - 1 \in p .. p + Len(s) - 1 THEN s[i - p] ELSE b[i]]
<1>1. Store(b, p, s) = r
  BY DEF Store
<1>2. Len(b) \in Nat /\ Len(s) \in Nat
  OBVIOUS
<1>3. ASSUME NEW i \in 1 .. Len(b)
      PROVE  r[i] = (IF p < i /\ i <= p + Len(s) THEN s[i - p] ELSE b[i]) /\ r[i] \in S
  <2>1. i - 1 \in p .. p + Len(s) - 1 <=> p < i /\ i <= p + Len(s)
    BY <1>2
  <2>2. r[i] = IF p < i /\ i <= p + Len(s) THEN s[i - p] ELSE b[i]
    BY <2>1
  <2>3. CASE p < i /\ i <= p + Len(s)
    <3>1. i - p \in 1 .. Len(s)
      BY <1>2, <2>3
    <3>2. s[i - p] \in S
      BY <3>1, ElementOfSeq
    <3>3. QED
      BY <2>2, <2>3, <3>2
  <2>4. CASE ~(p < i /\ i <= p + Len(s))
    <3>1. b[i] \in S
      BY ElementOfSeq
    <3>2. QED
      BY <2>2, <2>4, <3>1
  <2>5. QED
    BY <2>3, <2>4
<1>4. r \in [1 .. Len(b) -> S]
  BY <1>3
<1> HIDE DEF r
<1>5. r \in Seq(S) /\ Len(r) = Len(b)
  BY <1>2, <1>4
<1>6. QED
  BY <1>1, <1>3, <1>5

LEMMA WidthFits ==
  ASSUME NEW p \in Nat, NEW n \in Nat
  PROVE  Width(p, n) \in 0 .. n /\ (n > 0 => Width(p, n) > 0)
BY TextAssumption DEF Width

(* `done` of n bytes at d are those of `from` moved by s - d, the others are as before. *)
Moved(m, b, d, s, done) ==
  /\ m \in Seq(Int) /\ Len(m) = Len(b)
  /\ \A i \in 1 .. Len(b) : m[i] = IF d < i /\ i <= d + done THEN b[i - d + s] ELSE b[i]

Filled(m, b, p, v, done) ==
  /\ m \in Seq(Int) /\ Len(m) = Len(b)
  /\ \A i \in 1 .. Len(b) : m[i] = IF p < i /\ i <= p + done THEN v ELSE b[i]

LEMMA SetTurnFills ==
  ASSUME NEW b \in Seq(Int), NEW p \in Nat, NEW v \in Int, NEW n \in Nat, p + n <= Len(b),
         NEW m, NEW done \in 0 .. n, Filled(m, b, p, v, done)
  PROVE  \E w \in 0 .. n - done, r \in Seq(Int) :
           /\ SetTurn([mem |-> m, done |-> done], p, v, n) = [mem |-> r, done |-> done + w]
           /\ done < n => w > 0
           /\ Filled(r, b, p, v, done + w)
<1> DEFINE w == Width(p + done, n - done)
           word == [k \in 1 .. w |-> v]
           r == Store(m, p + done, word)
<1>1. p + done \in Nat /\ n - done \in Nat
  OBVIOUS
<1>2. w \in 0 .. n - done /\ (done < n => w > 0)
  <2>1. w \in 0 .. n - done /\ (n - done > 0 => w > 0)
    <3> DEFINE x == p + done
               y == n - done
    <3> HIDE DEF x, y
    <3>1. Width(x, y) \in 0 .. y /\ (y > 0 => Width(x, y) > 0)
      BY <1>1, WidthFits DEF x, y
    <3>2. QED
      BY <3>1 DEF x, y
  <2> HIDE DEF w
  <2>2. QED
    BY <2>1
<1>3. SetTurn([mem |-> m, done |-> done], p, v, n) = [mem |-> r, done |-> done + w]
  BY DEF SetTurn
<1> HIDE DEF w
<1>4. word \in Seq(Int) /\ Len(word) = w /\ \A k \in 1 .. w : word[k] = v
  BY <1>2
<1>5. m \in Seq(Int) /\ Len(m) = Len(b) /\ Len(b) \in Nat
  BY DEF Filled
<1> HIDE DEF word
<1>6. /\ r \in Seq(Int) /\ Len(r) = Len(m)
      /\ \A i \in 1 .. Len(m) : r[i] = IF p + done < i /\ i <= p + done + Len(word) THEN word[i - (p + done)] ELSE m[i]
  BY <1>1, <1>4, <1>5, StoreBytes
<1> HIDE DEF r
<1>7. ASSUME NEW i \in 1 .. Len(b)
      PROVE  r[i] = IF p < i /\ i <= p + (done + w) THEN v ELSE b[i]
  <2>1. CASE p + done < i /\ i <= p + done + w
    <3>1. i - (p + done) \in 1 .. w
      BY <1>2, <2>1
    <3>2. r[i] = v
      BY <1>4, <1>5, <1>6, <2>1, <3>1
    <3>3. p < i /\ i <= p + (done + w)
      BY <1>2, <2>1
    <3>4. QED
      BY <3>2, <3>3
  <2>2. CASE ~(p + done < i /\ i <= p + done + w)
    <3>1. r[i] = m[i]
      BY <1>4, <1>5, <1>6, <2>2
    <3>2. m[i] = IF p < i /\ i <= p + done THEN v ELSE b[i]
      BY DEF Filled
    <3>3. (p < i /\ i <= p + done) <=> (p < i /\ i <= p + (done + w))
      BY <1>2, <2>2
    <3>4. QED
      BY <3>1, <3>2, <3>3
  <2>3. QED
    BY <2>1, <2>2
<1>8. Filled(r, b, p, v, done + w)
  BY <1>5, <1>6, <1>7 DEF Filled
<1>9. QED
  BY <1>2, <1>3, <1>6, <1>8

(* The turns of luna_memset fill its n bytes. *)
LEMMA MemsetFills ==
  ASSUME NEW b \in Seq(Int), NEW p \in Nat, NEW v \in Int, NEW n \in Nat, p + n <= Len(b)
  PROVE  Filled(luna_memset(b, p, v, n), b, p, v, n)
<1> DEFINE lp == <<"set", p, v, n>>
           g == Loop(lp, [mem |-> b, done |-> 0], n)
           Inv(i) == \E done \in i .. n, m \in Seq(Int) :
                       g[i] = [mem |-> m, done |-> done] /\ Filled(m, b, p, v, done)
           S == {i \in 0 .. n : Inv(i)}
<1>1. g[0] = [mem |-> b, done |-> 0] /\ \A i \in 1 .. n : g[i] = Advance(lp, g[i - 1], i)
  BY LoopEquations
<1>2. luna_memset(b, p, v, n) = g[n].mem
  BY SetIsLoop
<1>3. \A x, i : Advance(lp, x, i) = SetTurn(x, p, v, n)
  BY DEF Advance
<1> HIDE DEF g, lp
<1>4. 0 \in S
  <2>1. Filled(b, b, p, v, 0)
    <3>1. \A i \in 1 .. Len(b) : ~(p < i /\ i <= p + 0)
      OBVIOUS
    <3>2. QED
      BY <3>1 DEF Filled
  <2>2. 0 \in 0 .. n
    OBVIOUS
  <2>3. Inv(0)
    BY <1>1, <2>1, <2>2
  <2> HIDE DEF Inv
  <2>4. QED
    BY <2>2, <2>3
<1>5. ASSUME NEW i \in 0 .. n - 1, i \in S PROVE i + 1 \in S
  <2>1. PICK done \in i .. n, m \in Seq(Int) : g[i] = [mem |-> m, done |-> done] /\ Filled(m, b, p, v, done)
    BY <1>5
  <2>2. i + 1 \in 1 .. n /\ (i + 1) - 1 = i /\ i + 1 \in 0 .. n /\ done \in 0 .. n
    OBVIOUS
  <2>3. g[i + 1] = SetTurn([mem |-> m, done |-> done], p, v, n)
    BY <1>1, <1>3, <2>1, <2>2
  <2>4. PICK w \in 0 .. n - done, r \in Seq(Int) :
           /\ SetTurn([mem |-> m, done |-> done], p, v, n) = [mem |-> r, done |-> done + w]
           /\ done < n => w > 0
           /\ Filled(r, b, p, v, done + w)
    BY <2>1, <2>2, SetTurnFills
  <2>5. done + w \in i + 1 .. n
    BY <2>1, <2>2, <2>4
  <2>6. Inv(i + 1)
    BY <2>3, <2>4, <2>5
  <2>7. QED
    BY <2>2, <2>6
<1>6. Inv(n)
  <2>1. \A i \in 0 .. n - 1 : i \in S => i + 1 \in S
    BY <1>5
  <2> HIDE DEF S
  <2>2. \A i \in 0 .. n : i \in S
    BY <1>4, <2>1, SetInduction
  <2>3. n \in S
    BY <2>2
  <2>4. QED
    BY <2>3 DEF S
<1>7. PICK done \in n .. n, m \in Seq(Int) : g[n] = [mem |-> m, done |-> done] /\ Filled(m, b, p, v, done)
  BY <1>6
<1>8. QED
  BY <1>2, <1>7

(* w elements from offset p on. *)
LEMMA Piece ==
  ASSUME NEW S, NEW b \in Seq(S), NEW p \in Nat, NEW w \in Nat, p + w <= Len(b)
  PROVE  /\ SubSeq(b, p + 1, p + w) \in Seq(S) /\ Len(SubSeq(b, p + 1, p + w)) = w
         /\ \A k \in 1 .. w : SubSeq(b, p + 1, p + w)[k] = b[p + k]
<1> DEFINE x == p + 1
           y == p + w
<1>1. x \in Int /\ y \in Int /\ \A i \in x .. y : i \in 1 .. Len(b)
  OBVIOUS
<1>2. \A i \in x .. y : b[i] \in S
  BY <1>1, ElementOfSeq
<1>3. y - x + 1 = w /\ (x <= y <=> w > 0) /\ \A k \in 1 .. w : x + k - 1 = p + k
  OBVIOUS
<1> HIDE DEF x, y
<1>4. /\ SubSeq(b, x, y) \in Seq(S)
      /\ Len(SubSeq(b, x, y)) = IF x <= y THEN y - x + 1 ELSE 0
      /\ \A i \in 1 .. y - x + 1 : SubSeq(b, x, y)[i] = b[x + i - 1]
  BY <1>1, <1>2, SubSeqProperties
<1> DEFINE q == SubSeq(b, x, y)
<1> HIDE DEF q
<1>5. q \in Seq(S) /\ Len(q) = (IF w > 0 THEN w ELSE 0) /\ \A i \in 1 .. w : q[i] = b[x + i - 1]
  BY <1>3, <1>4 DEF q
<1>6. q \in Seq(S) /\ Len(q) = w /\ \A i \in 1 .. w : q[i] = b[p + i]
  BY <1>3, <1>5
<1>7. QED
  BY <1>6 DEF q, x, y

LEMMA PieceMoves ==
  ASSUME NEW b \in Seq(Int), NEW d \in Nat, NEW s \in Nat, NEW done \in Nat, NEW m, Moved(m, b, d, s, done),
         NEW x \in Seq(Int), \A k \in 1 .. Len(x) : x[k] = b[s + done + k]
  PROVE  Moved(Store(m, d + done, x), b, d, s, done + Len(x))
<1> DEFINE r == Store(m, d + done, x)
           w == Len(x)
<1>1. d + done \in Nat /\ w \in Nat
  OBVIOUS
<1>2. m \in Seq(Int) /\ Len(m) = Len(b) /\ Len(b) \in Nat
  BY DEF Moved
<1>3. /\ r \in Seq(Int) /\ Len(r) = Len(m)
      /\ \A i \in 1 .. Len(m) : r[i] = IF d + done < i /\ i <= d + done + w THEN x[i - (d + done)] ELSE m[i]
  BY <1>1, <1>2, StoreBytes
<1>4. \A k \in 1 .. w : x[k] = b[s + done + k]
  OBVIOUS
<1> HIDE DEF r, w
<1>5. ASSUME NEW i \in 1 .. Len(b)
      PROVE  r[i] = IF d < i /\ i <= d + (done + w) THEN b[i - d + s] ELSE b[i]
  <2>1. CASE d + done < i /\ i <= d + done + w
    <3>1. i - (d + done) \in 1 .. w /\ s + done + (i - (d + done)) = i - d + s
      BY <1>1, <2>1
    <3>2. r[i] = x[i - (d + done)]
      BY <1>2, <1>3, <2>1
    <3>3. x[i - (d + done)] = b[i - d + s]
      BY <1>4, <3>1
    <3>4. d < i /\ i <= d + (done + w)
      BY <1>1, <2>1
    <3>5. QED
      BY <3>2, <3>3, <3>4
  <2>2. CASE ~(d + done < i /\ i <= d + done + w)
    <3>1. r[i] = m[i]
      BY <1>2, <1>3, <2>2
    <3>2. m[i] = IF d < i /\ i <= d + done THEN b[i - d + s] ELSE b[i]
      BY DEF Moved
    <3>3. (d < i /\ i <= d + done) <=> (d < i /\ i <= d + (done + w))
      BY <1>1, <2>2
    <3>4. QED
      BY <3>1, <3>2, <3>3
  <2>3. QED
    BY <2>1, <2>2
<1>6. Moved(r, b, d, s, done + w)
  BY <1>2, <1>3, <1>5 DEF Moved
<1>7. QED
  BY <1>6 DEF r, w

(* The w bytes read when done bytes after address p are copied. *)
(* The w bytes of m behind p + done. *)
ReadsWord(word, m, p, done, w) ==
  word \in Seq(Int) /\ Len(word) = w /\ \A k \in 1 .. w : word[k] = m[p + done + k]

LEMMA WordRead ==
  ASSUME NEW m \in Seq(Int), NEW p \in Nat, NEW done \in Nat, NEW w \in Nat, p + done + w <= Len(m)
  PROVE  ReadsWord(SubSeq(m, p + done + 1, p + done + w), m, p, done, w)
<1> DEFINE q == p + done
<1>1. q \in Nat /\ q + w <= Len(m)
  OBVIOUS
<1> HIDE DEF q
<1>2. /\ SubSeq(m, q + 1, q + w) \in Seq(Int) /\ Len(SubSeq(m, q + 1, q + w)) = w
      /\ \A k \in 1 .. w : SubSeq(m, q + 1, q + w)[k] = m[q + k]
  BY <1>1, Piece
<1>3. QED
  BY <1>2 DEF q, ReadsWord

(* A word is read from bytes that the copy has not changed, the two being apart. *)
LEMMA CopyTurnMoves ==
  ASSUME NEW b \in Seq(Int), NEW d \in Nat, NEW s \in Nat, NEW n \in Nat, d + n <= Len(b), s + n <= Len(b),
         d + n <= s \/ s + n <= d,
         NEW m, NEW done \in 0 .. n, Moved(m, b, d, s, done)
  PROVE  \E w \in 0 .. n - done, r \in Seq(Int) :
           /\ CopyTurn([mem |-> m, done |-> done], d, s, n) = [mem |-> r, done |-> done + w]
           /\ done < n => w > 0
           /\ Moved(r, b, d, s, done + w)
<1> DEFINE w == Width(d + done, n - done)
           word == SubSeq(m, s + done + 1, s + done + w)
           r == Store(m, d + done, word)
<1>1. d + done \in Nat /\ n - done \in Nat
  OBVIOUS
<1>2. w \in 0 .. n - done /\ (done < n => w > 0)
  <2>1. w \in 0 .. n - done /\ (n - done > 0 => w > 0)
    <3> DEFINE x == d + done
               y == n - done
    <3> HIDE DEF x, y
    <3>1. Width(x, y) \in 0 .. y /\ (y > 0 => Width(x, y) > 0)
      BY <1>1, WidthFits DEF x, y
    <3>2. QED
      BY <3>1 DEF x, y
  <2> HIDE DEF w
  <2>2. QED
    BY <2>1
<1>3. CopyTurn([mem |-> m, done |-> done], d, s, n) = [mem |-> r, done |-> done + w]
  BY DEF CopyTurn
<1> HIDE DEF w
<1>4. m \in Seq(Int) /\ Len(m) = Len(b) /\ Len(b) \in Nat
  BY DEF Moved
<1> HIDE DEF r
<1>5. word \in Seq(Int) /\ Len(word) = w /\ \A k \in 1 .. w : word[k] = m[s + done + k]
  <2>1. done \in Nat /\ w \in Nat /\ s + done + w <= Len(m)
    BY <1>2, <1>4
  <2>2. m \in Seq(Int)
    BY <1>4
  <2>3. ReadsWord(word, m, s, done, w)
    BY <2>1, <2>2, WordRead
  <2> HIDE DEF word
  <2>4. QED
    BY <2>3 DEF ReadsWord
<1> HIDE DEF word
<1>6. ASSUME NEW k \in 1 .. Len(word) PROVE word[k] = b[s + done + k]
  <2>1. k \in 1 .. w
    BY <1>5
  <2>2. word[k] = m[s + done + k]
    BY <1>5, <2>1
  <2> DEFINE l == Len(b)
  <2>3. l \in Nat /\ w \in 0 .. n - done /\ s + n <= l
    BY <1>2, <1>4
  <2> HIDE DEF l
  <2>4. s + done + k \in 1 .. l /\ ~(d < s + done + k /\ s + done + k <= d + done)
    BY <2>1, <2>3
  <2>5. m[s + done + k] = b[s + done + k]
    BY <2>4 DEF Moved, l
  <2>6. QED
    BY <2>2, <2>5
<1>7. Moved(r, b, d, s, done + w)
  <2>1. done \in Nat
    OBVIOUS
  <2>2. Moved(Store(m, d + done, word), b, d, s, done + Len(word))
    BY <1>5, <1>6, <2>1, PieceMoves
  <2>3. QED
    BY <1>5, <2>2 DEF r
<1>8. r \in Seq(Int)
  BY <1>7 DEF Moved
<1>9. QED
  BY <1>2, <1>3, <1>7, <1>8

LEMMA NothingMoved ==
  ASSUME NEW b \in Seq(Int), NEW d \in Nat, NEW s \in Nat
  PROVE  Moved(b, b, d, s, 0)
<1>1. \A i \in 1 .. Len(b) : ~(d < i /\ i <= d + 0)
  OBVIOUS
<1>2. QED
  BY <1>1 DEF Moved

(* The turns of luna_memcpy copy its n bytes. *)
LEMMA MemcpyMoves ==
  ASSUME NEW b \in Seq(Int), NEW d \in Nat, NEW s \in Nat, NEW n \in Nat, d + n <= Len(b), s + n <= Len(b),
         d + n <= s \/ s + n <= d
  PROVE  Moved(luna_memcpy(b, d, s, n), b, d, s, n)
<1> DEFINE lp == <<"copy", d, s, n>>
           g == Loop(lp, [mem |-> b, done |-> 0], n)
           Inv(i) == \E done \in i .. n, m \in Seq(Int) :
                       g[i] = [mem |-> m, done |-> done] /\ Moved(m, b, d, s, done)
           S == {i \in 0 .. n : Inv(i)}
<1>1. g[0] = [mem |-> b, done |-> 0] /\ \A i \in 1 .. n : g[i] = Advance(lp, g[i - 1], i)
  BY LoopEquations
<1>2. luna_memcpy(b, d, s, n) = g[n].mem
  BY CopyIsLoop
<1>3. \A x, i : Advance(lp, x, i) = CopyTurn(x, d, s, n)
  BY DEF Advance
<1> HIDE DEF g, lp
<1>4. 0 \in S
  <2>1. Moved(b, b, d, s, 0) /\ 0 \in 0 .. n
    BY NothingMoved
  <2>2. QED
    BY <1>1, <2>1
<1>5. ASSUME NEW i \in 0 .. n - 1, i \in S PROVE i + 1 \in S
  <2>1. PICK done \in i .. n, m \in Seq(Int) : g[i] = [mem |-> m, done |-> done] /\ Moved(m, b, d, s, done)
    BY <1>5
  <2>2. i + 1 \in 1 .. n /\ (i + 1) - 1 = i /\ i + 1 \in 0 .. n /\ done \in 0 .. n
    OBVIOUS
  <2>3. g[i + 1] = CopyTurn([mem |-> m, done |-> done], d, s, n)
    BY <1>1, <1>3, <2>1, <2>2
  <2>4. PICK w \in 0 .. n - done, r \in Seq(Int) :
           /\ CopyTurn([mem |-> m, done |-> done], d, s, n) = [mem |-> r, done |-> done + w]
           /\ done < n => w > 0
           /\ Moved(r, b, d, s, done + w)
    BY <2>1, <2>2, CopyTurnMoves
  <2>5. done + w \in i + 1 .. n
    BY <2>1, <2>2, <2>4
  <2>6. Inv(i + 1)
    BY <2>3, <2>4, <2>5
  <2>7. QED
    BY <2>2, <2>6
<1>6. Inv(n)
  <2>1. \A i \in 0 .. n - 1 : i \in S => i + 1 \in S
    BY <1>5
  <2> HIDE DEF S
  <2>2. \A i \in 0 .. n : i \in S
    BY <1>4, <2>1, SetInduction
  <2>3. n \in S
    BY <2>2
  <2>4. QED
    BY <2>3 DEF S
<1>7. PICK done \in n .. n, m \in Seq(Int) : g[n] = [mem |-> m, done |-> done] /\ Moved(m, b, d, s, done)
  BY <1>6
<1>8. QED
  BY <1>2, <1>7

(* Upwards to a lower address, each byte is read before it is overwritten. *)
LEMMA ForwardMoves ==
  ASSUME NEW b \in Seq(Int), NEW d \in Nat, NEW s \in Nat, NEW n \in Nat, d < s, s + n <= Len(b)
  PROVE  Moved(Forward(b, d, s, n), b, d, s, n)
<1> DEFINE lp == <<"up", d, s>>
           g == Loop(lp, b, n)
           S == {i \in 0 .. n : Moved(g[i], b, d, s, i)}
<1>1. g[0] = b /\ \A i \in 1 .. n : g[i] = Advance(lp, g[i - 1], i)
  BY LoopEquations
<1>2. Forward(b, d, s, n) = g[n]
  BY ForwardIsLoop
<1>3. \A x, i : Advance(lp, x, i) = UpTurn(x, d, s, i)
  BY DEF Advance
<1> HIDE DEF g, lp
<1>4. 0 \in S
  BY <1>1, NothingMoved
<1>5. ASSUME NEW i \in 0 .. n - 1, i \in S PROVE i + 1 \in S
  <2> DEFINE m == g[i]
             x == <<m[s + i + 1]>>
  <2>1. Moved(m, b, d, s, i) /\ i \in Nat /\ i + 1 \in 1 .. n /\ (i + 1) - 1 = i /\ i + 1 \in 0 .. n
    BY <1>5
  <2>2. g[i + 1] = Store(m, d + i, x)
    <3>1. g[i + 1] = UpTurn(m, d, s, i + 1)
      BY <1>1, <1>3, <2>1
    <3>2. d + (i + 1) - 1 = d + i /\ s + (i + 1) - 1 = s + i
      OBVIOUS
    <3>3. QED
      BY <3>1, <3>2 DEF UpTurn, At
  <2> HIDE DEF m
  <2>3. s + i + 1 \in 1 .. Len(b) /\ ~(d < s + i + 1 /\ s + i + 1 <= d + i)
    BY <2>1
  <2>4. m[s + i + 1] = b[s + i + 1] /\ b[s + i + 1] \in Int
    BY <2>1, <2>3, ElementOfSeq DEF Moved
  <2>5. x \in Seq(Int) /\ Len(x) = 1 /\ \A k \in 1 .. Len(x) : x[k] = b[s + i + k]
    BY <2>4
  <2> HIDE DEF x
  <2>6. Moved(Store(m, d + i, x), b, d, s, i + 1)
    BY <2>1, <2>5, PieceMoves
  <2>7. QED
    BY <2>1, <2>2, <2>6
<1>6. n \in S
  <2>1. \A i \in 0 .. n - 1 : i \in S => i + 1 \in S
    BY <1>5
  <2> HIDE DEF S
  <2>2. \A i \in 0 .. n : i \in S
    BY <1>4, <2>1, SetInduction
  <2>3. QED
    BY <2>2
<1>7. QED
  BY <1>2, <1>6

(* Downwards to a higher address, the same. *)
LEMMA BackwardMoves ==
  ASSUME NEW b \in Seq(Int), NEW d \in Nat, NEW s \in Nat, NEW n \in Nat, s < d, d + n <= Len(b)
  PROVE  Moved(Backward(b, d, s, n), b, d, s, n)
<1> DEFINE lp == <<"down", d, s, n>>
           g == Loop(lp, b, n)
           S == {i \in 0 .. n : Moved(g[i], b, d + n - i, s + n - i, i)}
<1>1. g[0] = b /\ \A i \in 1 .. n : g[i] = Advance(lp, g[i - 1], i)
  BY LoopEquations
<1>2. Backward(b, d, s, n) = g[n]
  BY BackwardIsLoop
<1>3. \A x, i : Advance(lp, x, i) = DownTurn(x, d, s, n, i)
  BY DEF Advance
<1> HIDE DEF g, lp
<1>4. 0 \in S
  <2>1. d + n - 0 \in Nat /\ s + n - 0 \in Nat /\ 0 \in 0 .. n
    OBVIOUS
  <2>2. Moved(b, b, d + n - 0, s + n - 0, 0)
    BY <2>1, NothingMoved
  <2>3. QED
    BY <1>1, <2>1, <2>2
<1>5. ASSUME NEW i \in 0 .. n - 1, i \in S PROVE i + 1 \in S
  <2> DEFINE m == g[i]
             e == d + n - i
             f == s + n - i
             x == <<m[f]>>
             r == Store(m, e - 1, x)
  <2>1. Moved(m, b, e, f, i) /\ i + 1 \in 1 .. n /\ (i + 1) - 1 = i /\ i + 1 \in 0 .. n
    BY <1>5
  <2>2. g[i + 1] = r
    <3>1. g[i + 1] = DownTurn(m, d, s, n, i + 1)
      BY <1>1, <1>3, <2>1
    <3>2. d + n - (i + 1) = e - 1 /\ s + n - (i + 1) + 1 = f
      OBVIOUS
    <3> HIDE DEF e, f
    <3>3. QED
      BY <3>1, <3>2 DEF DownTurn, At
  <2>3. e - 1 \in Nat /\ f \in 1 .. Len(b) /\ f < e /\ e + i <= Len(b) /\ e \in Nat /\ i \in Nat
    OBVIOUS
  <2>4. e - 1 = d + n - (i + 1) /\ f - 1 = s + n - (i + 1)
    OBVIOUS
  <2> HIDE DEF m, e, f
  <2>5. m[f] = b[f] /\ b[f] \in Int
    BY <2>1, <2>3, ElementOfSeq DEF Moved
  <2>6. x \in Seq(Int) /\ Len(x) = 1 /\ x[1] = b[f]
    BY <2>5
  <2> HIDE DEF x
  <2>7. m \in Seq(Int) /\ Len(m) = Len(b) /\ Len(b) \in Nat
    BY <2>1 DEF Moved
  <2>8. /\ r \in Seq(Int) /\ Len(r) = Len(b)
        /\ \A j \in 1 .. Len(b) : r[j] = IF e - 1 < j /\ j <= e - 1 + 1 THEN x[j - (e - 1)] ELSE m[j]
    <3> DEFINE q == e - 1
    <3>1. q \in Nat
      BY <2>3
    <3> HIDE DEF q
    <3>2. /\ Store(m, q, x) \in Seq(Int) /\ Len(Store(m, q, x)) = Len(m)
          /\ \A j \in 1 .. Len(m) : Store(m, q, x)[j] = IF q < j /\ j <= q + Len(x) THEN x[j - q] ELSE m[j]
      BY <2>6, <2>7, <3>1, StoreBytes
    <3>3. QED
      BY <2>6, <2>7, <3>2 DEF q
  <2> HIDE DEF r
  <2>9. ASSUME NEW j \in 1 .. Len(b)
        PROVE  r[j] = IF e - 1 < j /\ j <= e - 1 + (i + 1) THEN b[j - (e - 1) + (f - 1)] ELSE b[j]
    <3>1. CASE j = e
      <4>1. j - (e - 1) = 1 /\ j - (e - 1) + (f - 1) = f /\ e - 1 < j /\ j <= e - 1 + 1 /\ j <= e - 1 + (i + 1)
        BY <2>3, <3>1
      <4>2. r[j] = x[1]
        BY <2>8, <4>1
      <4>3. QED
        BY <2>6, <4>1, <4>2
    <3>2. CASE j # e
      <4>1. ~(e - 1 < j /\ j <= e - 1 + 1)
        BY <2>3, <3>2
      <4>2. r[j] = m[j]
        BY <2>8, <4>1
      <4>3. m[j] = IF e < j /\ j <= e + i THEN b[j - e + f] ELSE b[j]
        BY <2>1 DEF Moved
      <4>4. ((e < j /\ j <= e + i) <=> (e - 1 < j /\ j <= e - 1 + (i + 1))) /\ j - e + f = j - (e - 1) + (f - 1)
        BY <2>3, <3>2
      <4>5. QED
        BY <4>2, <4>3, <4>4
    <3>3. QED
      BY <3>1, <3>2
  <2>10. Moved(r, b, e - 1, f - 1, i + 1)
    BY <2>8, <2>9 DEF Moved
  <2>11. QED
    BY <2>1, <2>2, <2>4, <2>10
<1>6. n \in S
  <2>1. \A i \in 0 .. n - 1 : i \in S => i + 1 \in S
    BY <1>5
  <2> HIDE DEF S
  <2>2. \A i \in 0 .. n : i \in S
    BY <1>4, <2>1, SetInduction
  <2>3. QED
    BY <2>2
<1>7. Moved(g[n], b, d + n - n, s + n - n, n)
  BY <1>6
<1>8. d + n - n = d /\ s + n - n = s
  OBVIOUS
<1>9. QED
  BY <1>2, <1>7, <1>8

LEMMA FreshMemory == Fresh \in Seq(Int) /\ Len(Fresh) = CELLS
BY TextAssumption DEF Fresh

LEMMA MemmoveMoves ==
  ASSUME NEW b \in Seq(Int), NEW d \in Nat, NEW s \in Nat, NEW n \in Nat, d + n <= Len(b), s + n <= Len(b)
  PROVE  Moved(luna_memmove(b, d, s, n), b, d, s, n)
<1>1. CASE d < s
  BY <1>1, ForwardMoves DEF luna_memmove
<1>2. CASE s < d
  <2>1. ~(d < s) /\ d > s
    BY <1>2
  <2>2. QED
    BY <1>2, <2>1, BackwardMoves DEF luna_memmove
<1>3. CASE d = s
  <2>1. luna_memmove(b, d, s, n) = b
    BY <1>3 DEF luna_memmove
  <2>2. \A i \in 1 .. Len(b) : i - d + s = i
    BY <1>3
  <2>3. Moved(b, b, d, s, n)
    BY <2>2 DEF Moved
  <2>4. QED
    BY <2>1, <2>3
<1>4. QED
  BY <1>1, <1>2, <1>3

(* What a call leaves, in the words of MemoryExact. *)
LEMMA MemoryCall ==
  ASSUME NEW f \in {"memset", "memcpy", "memmove"},
         NEW d \in 0 .. CELLS, NEW s \in 0 .. CELLS, NEW n \in 0 .. CELLS,
         d + n <= CELLS, s + n <= CELLS, f = "memcpy" => d + n <= s \/ s + n <= d,
         NEW r, f = "memset" => r = luna_memset(Fresh, d, 0, n),
         f = "memcpy" => r = luna_memcpy(Fresh, d, s, n), f = "memmove" => r = luna_memmove(Fresh, d, s, n),
         NEW i \in 0 .. CELLS - 1
  PROVE  At(r, i) = IF i \in d .. d + n - 1
                    THEN IF f = "memset" THEN 0 ELSE At(Fresh, s + i - d) ELSE At(Fresh, i)
<1>1. Fresh \in Seq(Int) /\ Len(Fresh) = CELLS /\ CELLS \in Nat /\ d \in Nat /\ s \in Nat /\ n \in Nat
  BY FreshMemory, TextAssumption
<1> DEFINE j == i + 1
<1>2. j \in 1 .. CELLS /\ (i \in d .. d + n - 1 <=> d < j /\ j <= d + n) /\ j - d + s = s + i - d + 1
  BY <1>1
<1>3. \A b : At(b, i) = b[j] /\ At(b, s + i - d) = b[j - d + s]
  BY <1>2 DEF At
<1> HIDE DEF j
<1>4. CASE f = "memset"
  <2>1. r = luna_memset(Fresh, d, 0, n)
    BY <1>4
  <2>2. Filled(r, Fresh, d, 0, n)
    <3>1. Filled(luna_memset(Fresh, d, 0, n), Fresh, d, 0, n)
      BY <1>1, MemsetFills
    <3>2. QED
      BY <2>1, <3>1
  <2>3. r[j] = IF d < j /\ j <= d + n THEN 0 ELSE Fresh[j]
    BY <1>1, <1>2, <2>2 DEF Filled
  <2>4. QED
    BY <1>2, <1>3, <1>4, <2>3
<1>5. CASE f # "memset"
  <2>1. Moved(r, Fresh, d, s, n)
    <3>1. CASE f = "memcpy"
      <4>1. r = luna_memcpy(Fresh, d, s, n)
        BY <3>1
      <4>2. QED
        BY <1>1, <3>1, <4>1, MemcpyMoves
    <3>2. CASE f = "memmove"
      <4>1. r = luna_memmove(Fresh, d, s, n)
        BY <3>2
      <4>2. QED
        BY <1>1, <4>1, MemmoveMoves
    <3>3. QED
      BY <1>5, <3>1, <3>2
  <2>2. r[j] = IF d < j /\ j <= d + n THEN Fresh[j - d + s] ELSE Fresh[j]
    BY <1>1, <1>2, <2>1 DEF Moved
  <2>3. QED
    BY <1>2, <1>3, <1>5, <2>2
<1>6. QED
  BY <1>4, <1>5

(* luna_memset, luna_memcpy and luna_memmove change the n bytes at dst and *)
(* no other, for every size of the words they store, every alignment and,  *)
(* for luna_memmove, every overlap.                                        *)
THEOREM MemoryFunctionsExact == Spec => []MemoryExact
<1>1. Init => MemoryExact
  BY DEF Init, MemoryExact
<1>2. MemoryExact /\ [Next]_vars => MemoryExact'
  <2> SUFFICES ASSUME MemoryExact, [Next]_vars PROVE MemoryExact'
    OBVIOUS
  <2>1. CASE Memory
    <3>1. PICK f \in {"memset", "memcpy", "memmove"}, d \in 0 .. CELLS, s \in 0 .. CELLS, n \in 0 .. CELLS :
            /\ d + n <= CELLS /\ s + n <= CELLS
            /\ f = "memcpy" => d + n <= s \/ s + n <= d
            /\ op' = f /\ in' = <<d, s, n>>
            /\ out' = CASE f = "memset" -> luna_memset(Fresh, d, 0, n)
                        [] f = "memcpy" -> luna_memcpy(Fresh, d, s, n)
                        [] OTHER -> luna_memmove(Fresh, d, s, n)
      BY <2>1 DEF Memory
    <3> DEFINE r == out'
    <3>2. /\ f = "memset" => r = luna_memset(Fresh, d, 0, n)
          /\ f = "memcpy" => r = luna_memcpy(Fresh, d, s, n)
          /\ f = "memmove" => r = luna_memmove(Fresh, d, s, n)
      BY <3>1
    <3> HIDE DEF r
    <3>3. \A i \in 0 .. CELLS - 1 :
            At(r, i) = IF i \in d .. d + n - 1
                       THEN IF f = "memset" THEN 0 ELSE At(Fresh, s + i - d) ELSE At(Fresh, i)
      BY <3>1, <3>2, MemoryCall
    <3>4. in'[1] = d /\ in'[2] = s /\ in'[3] = n
      BY <3>1
    <3>5. QED
      BY <3>1, <3>3, <3>4 DEF MemoryExact, r
  <2>2. CASE Next /\ ~Memory
    <3>1. op' \notin {"memset", "memcpy", "memmove"}
      BY <2>2 DEF Next, Compare, Search, Copy, Tokenize, Lex, Format, Hash, Return
    <3>2. QED
      BY <3>1 DEF MemoryExact
  <2>3. CASE UNCHANGED vars
    BY <2>3 DEF MemoryExact, vars, At
  <2>4. QED
    BY <2>1, <2>2, <2>3
<1>3. QED
  BY <1>1, <1>2, PTL DEF Spec
-----------------------------------------------------------------------------
(* The padding of SHA-256. *)

LEMMA Division ==
  ASSUME NEW a \in Nat, NEW b \in Nat \ {0}
  PROVE  a = b * (a \div b) + (a % b) /\ (a % b) \in 0 .. b - 1 /\ (a \div b) \in Nat
OBVIOUS

LEMMA MultiplesApart ==
  ASSUME NEW b \in Nat \ {0}, NEW q \in Nat, NEW p \in Nat, q < p
  PROVE  b * p >= b * q + b /\ b * q \in Nat /\ b * p \in Nat
<1>1. PICK k \in Nat : p = q + 1 + k
  <2>1. p - q - 1 \in Nat /\ p = q + 1 + (p - q - 1)
    OBVIOUS
  <2>2. QED
    BY <2>1
<1>2. b * (q + 1 + k) = b * q + b + b * k
  OBVIOUS
<1>3. b * k \in Nat /\ b * q \in Nat /\ b * p \in Nat
  OBVIOUS
<1>4. QED
  BY <1>1, <1>2, <1>3

LEMMA QuotientUnique ==
  ASSUME NEW b \in Nat \ {0}, NEW q \in Nat, NEW r \in 0 .. b - 1, NEW p \in Nat, NEW s \in 0 .. b - 1,
         b * q + r = b * p + s
  PROVE  q = p /\ r = s
<1>1. b * q \in Nat /\ b * p \in Nat
  OBVIOUS
<1>2. ASSUME q < p PROVE FALSE
  <2>1. b * p >= b * q + b
    BY <1>2, MultiplesApart
  <2>2. QED
    BY <1>1, <2>1
<1>3. ASSUME p < q PROVE FALSE
  <2>1. b * q >= b * p + b
    BY <1>3, MultiplesApart
  <2>2. QED
    BY <1>1, <2>1
<1>4. q = p
  BY <1>2, <1>3
<1>5. QED
  BY <1>1, <1>4

(* x and y one after the other. *)
LEMMA Joined ==
  ASSUME NEW V, NEW x \in Seq(V), NEW y \in Seq(V)
  PROVE  /\ x \o y \in Seq(V) /\ Len(x \o y) = Len(x) + Len(y)
         /\ \A i \in 1 .. Len(x) + Len(y) : (x \o y)[i] = IF i <= Len(x) THEN x[i] ELSE y[i - Len(x)]
BY ConcatProperties

LEMMA ZerosAre ==
  ASSUME NEW V, 0 \in V, NEW from \in Nat, NEW to \in Nat, from <= to
  PROVE  /\ Zeros(from, to) \in Seq(V) /\ Len(Zeros(from, to)) = to - from
         /\ \A i \in 1 .. to - from : Zeros(from, to)[i] = 0
BY DEF Zeros

(* c blocks that hold `head`, z zeros and `tail`, one after the other. *)
Laid(blocks, V, c, head, z, tail) ==
  /\ blocks \in Seq(Seq(V)) /\ Len(blocks) = c
  /\ c * BLOCK = Len(head) + z + LENGTH
  /\ \A k \in 1 .. c : Len(blocks[k]) = BLOCK
  /\ \A k \in 1 .. c, i \in 1 .. BLOCK :
       LET j == (k - 1) * BLOCK + i
       IN blocks[k][i] = IF j <= Len(head) THEN head[j]
                         ELSE IF j <= Len(head) + z THEN 0 ELSE tail[j - Len(head) - z]

(* The last blocks: what is left of the message and the marker, zeros, the length. *)
LEMMA LastBlocks ==
  ASSUME NEW V, 0 \in V, NEW rest \in Seq(V), Len(rest) \in 1 .. BLOCK, NEW len, LengthField(len) \in Seq(V)
  PROVE  \E c \in 1 .. 2, z \in 0 .. BLOCK - 1 :
           Laid(PadBlocks(rest, len), V, c, rest, z, LengthField(len))
<1> DEFINE L == Len(rest)
           F == LengthField(len)
<1>1. BLOCK \in Nat \ {0} /\ LENGTH \in 0 .. BLOCK /\ TAIL \in 0 .. BLOCK /\ TAIL + LENGTH = BLOCK /\ L \in 1 .. BLOCK
  BY TextAssumption DEF TAIL
<1>2. Len(F) = LENGTH /\ F \in Seq(V) /\ rest \in Seq(V)
  BY <1>1 DEF LengthField
<1>3. CASE L > TAIL
  <2> DEFINE a == Zeros(L, BLOCK)
             o == Zeros(0, TAIL)
             u == rest \o a
             v == o \o F
             z == BLOCK - L + TAIL
  <2>1. a \in Seq(V) /\ Len(a) = BLOCK - L /\ \A i \in 1 .. BLOCK - L : a[i] = 0
    BY <1>1, ZerosAre
  <2>2. o \in Seq(V) /\ Len(o) = TAIL /\ \A i \in 1 .. TAIL : o[i] = 0
    <3>1. Zeros(0, TAIL) \in Seq(V) /\ Len(Zeros(0, TAIL)) = TAIL - 0 /\ \A i \in 1 .. TAIL - 0 : Zeros(0, TAIL)[i] = 0
      <4> HIDE DEF a, o, u, v, z, F, L
      <4>1. 0 \in Nat /\ TAIL \in Nat /\ 0 <= TAIL
        BY <1>1
      <4>2. QED
        BY <4>1, ZerosAre
    <3>2. TAIL - 0 = TAIL
      BY <1>1
    <3>3. QED
      BY <3>1, <3>2
  <2>3. PadBlocks(rest, len) = <<u, v>>
    BY <1>3 DEF PadBlocks
  <2> HIDE DEF a, o, F, L
  <2>4. /\ u \in Seq(V) /\ Len(u) = L + Len(a)
        /\ \A i \in 1 .. L + Len(a) : u[i] = IF i <= L THEN rest[i] ELSE a[i - L]
    BY <1>2, <2>1, Joined DEF L
  <2>5. /\ v \in Seq(V) /\ Len(v) = Len(o) + Len(F)
        /\ \A i \in 1 .. Len(o) + Len(F) : v[i] = IF i <= Len(o) THEN o[i] ELSE F[i - Len(o)]
    BY <1>2, <2>2, Joined
  <2> HIDE DEF u, v
  <2>6. u \in Seq(V) /\ Len(u) = BLOCK /\ \A i \in 1 .. BLOCK : u[i] = IF i <= L THEN rest[i] ELSE 0
    <3>1. L + Len(a) = BLOCK
      BY <1>1, <2>1
    <3>2. \A i \in 1 .. BLOCK : i <= L \/ i - L \in 1 .. BLOCK - L
      BY <1>1
    <3>3. QED
      BY <2>1, <2>4, <3>1, <3>2
  <2>7. v \in Seq(V) /\ Len(v) = BLOCK /\ \A i \in 1 .. BLOCK : v[i] = IF i <= TAIL THEN 0 ELSE F[i - TAIL]
    <3>1. Len(o) + Len(F) = BLOCK
      BY <1>1, <1>2, <2>2
    <3>2. \A i \in 1 .. BLOCK : i <= TAIL => i \in 1 .. TAIL
      BY <1>1
    <3>3. QED
      BY <2>2, <2>5, <3>1, <3>2
  <2>8. z \in 0 .. BLOCK - 1 /\ 2 * BLOCK = L + z + LENGTH /\ L + z = BLOCK + TAIL
    BY <1>1, <1>3
  <2> HIDE DEF z
  <2>9. <<u, v>> \in Seq(Seq(V)) /\ Len(<<u, v>>) = 2 /\ <<u, v>>[1] = u /\ <<u, v>>[2] = v
    BY <2>6, <2>7
  <2>10. ASSUME NEW k \in 1 .. 2, NEW i \in 1 .. BLOCK
         PROVE  LET j == (k - 1) * BLOCK + i
                IN <<u, v>>[k][i] = IF j <= L THEN rest[j] ELSE IF j <= L + z THEN 0 ELSE F[j - L - z]
    <3>1. CASE k = 1
      <4>1. (k - 1) * BLOCK + i = i /\ i <= L + z
        BY <1>1, <2>8, <3>1
      <4>2. u[i] = IF i <= L THEN rest[i] ELSE IF i <= L + z THEN 0 ELSE F[i - L - z]
        BY <2>6, <4>1
      <4>3. QED
        BY <2>9, <3>1, <4>1, <4>2
    <3>2. CASE k = 2
      <4> DEFINE j == (k - 1) * BLOCK + i
      <4>1. j = BLOCK + i
        BY <1>1, <3>2
      <4> HIDE DEF j
      <4>2. ~(j <= L) /\ (j <= L + z <=> i <= TAIL) /\ j - L - z = i - TAIL
        BY <1>1, <2>8, <4>1
      <4>3. v[i] = IF j <= L THEN rest[j] ELSE IF j <= L + z THEN 0 ELSE F[j - L - z]
        BY <2>7, <4>2
      <4>4. QED
        BY <2>9, <3>2, <4>3 DEF j
    <3>3. QED
      BY <3>1, <3>2
  <2>11. \A k \in 1 .. 2 : Len(<<u, v>>[k]) = BLOCK
    BY <2>6, <2>7, <2>9
  <2>12. /\ <<u, v>> \in Seq(Seq(V)) /\ Len(<<u, v>>) = 2
         /\ 2 * BLOCK = L + z + LENGTH
         /\ \A k \in 1 .. 2 : Len(<<u, v>>[k]) = BLOCK
         /\ \A k \in 1 .. 2, i \in 1 .. BLOCK :
              LET j == (k - 1) * BLOCK + i
              IN <<u, v>>[k][i] = IF j <= L THEN rest[j] ELSE IF j <= L + z THEN 0 ELSE F[j - L - z]
    BY <2>8, <2>9, <2>10, <2>11
  <2> z \in 0 .. BLOCK - 1
    BY <2>8
  <2>13. WITNESS 2 \in 1 .. 2, z \in 0 .. BLOCK - 1
  <2>14. QED
    BY <2>3, <2>12 DEF L, F, Laid
<1>4. CASE ~(L > TAIL)
  <2> DEFINE a == Zeros(L, TAIL)
             u == rest \o a
             w == u \o F
             z == TAIL - L
  <2>1. L <= TAIL
    BY <1>1, <1>4
  <2>2. a \in Seq(V) /\ Len(a) = TAIL - L /\ \A i \in 1 .. TAIL - L : a[i] = 0
    BY <1>1, <2>1, ZerosAre, SMTT(30)
  <2>3. PadBlocks(rest, len) = <<w>>
    BY <1>4 DEF PadBlocks
  <2> HIDE DEF a, F, L
  <2>4. /\ u \in Seq(V) /\ Len(u) = L + Len(a)
        /\ \A i \in 1 .. L + Len(a) : u[i] = IF i <= L THEN rest[i] ELSE a[i - L]
    BY <1>2, <2>2, Joined DEF L
  <2> HIDE DEF u
  <2>5. /\ w \in Seq(V) /\ Len(w) = Len(u) + Len(F)
        /\ \A i \in 1 .. Len(u) + Len(F) : w[i] = IF i <= Len(u) THEN u[i] ELSE F[i - Len(u)]
    BY <1>2, <2>4, Joined
  <2> HIDE DEF w
  <2>6. z \in 0 .. BLOCK - 1 /\ 1 * BLOCK = L + z + LENGTH /\ L + z = TAIL /\ z = TAIL - L
    BY <1>1, <2>1
  <2> HIDE DEF z
  <2>7. Len(u) = TAIL /\ Len(w) = BLOCK
    BY <1>1, <1>2, <2>2, <2>4, <2>5
  <2>8. ASSUME NEW i \in 1 .. BLOCK
        PROVE  w[i] = IF i <= L THEN rest[i] ELSE IF i <= L + z THEN 0 ELSE F[i - L - z]
    <3>1. CASE i <= L
      <4>1. i \in 1 .. L + Len(a) /\ i <= Len(u) /\ i \in 1 .. Len(u) + Len(F)
        BY <1>1, <1>2, <2>1, <2>2, <2>7, <3>1
      <4>2. QED
        BY <2>4, <2>5, <3>1, <4>1
    <3>2. CASE ~(i <= L) /\ i <= TAIL
      <4>1. i \in 1 .. L + Len(a) /\ i <= Len(u) /\ i \in 1 .. Len(u) + Len(F) /\ i - L \in 1 .. TAIL - L /\ i <= L + z
        BY <1>1, <1>2, <2>1, <2>2, <2>6, <2>7, <3>2
      <4>2. w[i] = 0
        BY <2>2, <2>4, <2>5, <3>2, <4>1
      <4>3. QED
        BY <3>2, <4>1, <4>2
    <3>3. CASE ~(i <= TAIL)
      <4>1. ~(i <= Len(u)) /\ i \in 1 .. Len(u) + Len(F) /\ ~(i <= L) /\ ~(i <= L + z) /\ i - L - z = i - Len(u)
        BY <1>1, <1>2, <2>1, <2>6, <2>7, <3>3
      <4>2. QED
        BY <2>5, <4>1
    <3>4. QED
      BY <3>1, <3>2, <3>3
  <2>9. <<w>> \in Seq(Seq(V)) /\ Len(<<w>>) = 1 /\ <<w>>[1] = w
    BY <2>5
  <2>10. ASSUME NEW k \in 1 .. 1, NEW i \in 1 .. BLOCK
         PROVE  LET j == (k - 1) * BLOCK + i
                IN <<w>>[k][i] = IF j <= L THEN rest[j] ELSE IF j <= L + z THEN 0 ELSE F[j - L - z]
    <3>1. (k - 1) * BLOCK + i = i /\ k = 1
      BY <1>1
    <3>2. QED
      BY <2>8, <2>9, <3>1
  <2>11. \A k \in 1 .. 1 : Len(<<w>>[k]) = BLOCK
    BY <2>7, <2>9
  <2> z \in 0 .. BLOCK - 1
    BY <2>6
  <2>12. WITNESS 1 \in 1 .. 2, z \in 0 .. BLOCK - 1
  <2>13. QED
    BY <2>3, <2>6, <2>9, <2>10, <2>11 DEF L, F, Laid
<1>5. QED
  BY <1>3, <1>4

(* n blocks that hold the message, the marker, z zeros and the length. *)
Message(blocks, V, n, z, data) ==
  /\ blocks \in Seq(Seq(V)) /\ Len(blocks) = n
  /\ n * BLOCK = Len(data) + 1 + z + LENGTH
  /\ \A k \in 1 .. n : Len(blocks[k]) = BLOCK
  /\ \A k \in 1 .. n, i \in 1 .. BLOCK :
       LET j == (k - 1) * BLOCK + i
       IN blocks[k][i] = IF j <= Len(data) THEN data[j] ELSE IF j = Len(data) + 1 THEN BYTE \div 2
                         ELSE IF j <= Len(data) + 1 + z THEN 0
                         ELSE LengthField(Len(data))[j - (Len(data) + 1) - z]

LEMMA Sha256Blocks ==
  ASSUME NEW V, NEW data \in Seq(V), 0 \in V, BYTE \div 2 \in V, LengthField(Len(data)) \in Seq(V)
  PROVE  \E n \in Nat, z \in 0 .. BLOCK - 1 : Message(sha256(data), V, n, z, data)
<1> DEFINE L == Len(data)
           q == L \div BLOCK
           x == L % BLOCK
           p == q * BLOCK
           last == SubSeq(data, p + 1, L)
           rest == Append(last, BYTE \div 2)
           F == LengthField(L)
           pre == [k \in 1 .. q |-> SubSeq(data, (k - 1) * BLOCK + 1, k * BLOCK)]
           t == PadBlocks(rest, L)
<1>1. BLOCK \in Nat \ {0} /\ LENGTH \in 0 .. BLOCK /\ L \in Nat
  BY TextAssumption
<1>2. sha256(data) = pre \o t
  BY DEF sha256
<1>3. L = BLOCK * q + x /\ x \in 0 .. BLOCK - 1 /\ q \in Nat
  <2> HIDE DEF L
  <2>1. QED
    BY <1>1, Division
<1>4. p \in Nat /\ L = p + x
  <2> HIDE DEF L, q, x
  <2>1. BLOCK * q = q * BLOCK /\ q * BLOCK \in Nat
    BY <1>1, <1>3
  <2>2. QED
    BY <1>3, <2>1
<1>5. F \in Seq(V)
  OBVIOUS
<1>6. ASSUME NEW k \in 1 .. q
      PROVE  /\ (k - 1) * BLOCK \in Nat /\ k * BLOCK = (k - 1) * BLOCK + BLOCK /\ (k - 1) * BLOCK + BLOCK <= p
  <2> HIDE DEF L, q, x
  <2>1. k - 1 \in Nat /\ k - 1 < q
    BY <1>3
  <2>2. k * BLOCK = (k - 1) * BLOCK + BLOCK /\ (k - 1) * BLOCK = BLOCK * (k - 1) /\ p = BLOCK * q
    BY <1>1, <1>3, <2>1
  <2>3. BLOCK * q >= BLOCK * (k - 1) + BLOCK /\ BLOCK * (k - 1) \in Nat
    BY <1>1, <1>3, <2>1, MultiplesApart
  <2>4. QED
    BY <2>2, <2>3
<1> HIDE DEF L, q, x, p, F
<1>7. last \in Seq(V) /\ Len(last) = x /\ \A i \in 1 .. x : last[i] = data[p + i]
  <2>1. x \in Nat /\ p + x <= Len(data)
    BY <1>3, <1>4 DEF L
  <2>2. /\ SubSeq(data, p + 1, p + x) \in Seq(V) /\ Len(SubSeq(data, p + 1, p + x)) = x
        /\ \A k \in 1 .. x : SubSeq(data, p + 1, p + x)[k] = data[p + k]
    BY <1>4, <2>1, Piece
  <2>3. QED
    BY <1>4, <2>2
<1> HIDE DEF last
<1>8. /\ rest \in Seq(V) /\ Len(rest) = x + 1 /\ rest[x + 1] = BYTE \div 2
      /\ \A i \in 1 .. x : rest[i] = data[p + i]
  BY <1>7, AppendProperties
<1> HIDE DEF rest
<1>9. PICK c \in 1 .. 2, z \in 0 .. BLOCK - 1 :
        /\ t \in Seq(Seq(V)) /\ Len(t) = c
        /\ c * BLOCK = Len(rest) + z + LENGTH
        /\ \A k \in 1 .. c : Len(t[k]) = BLOCK
        /\ \A k \in 1 .. c, i \in 1 .. BLOCK :
             LET j == (k - 1) * BLOCK + i
             IN t[k][i] = IF j <= Len(rest) THEN rest[j]
                          ELSE IF j <= Len(rest) + z THEN 0 ELSE F[j - Len(rest) - z]
  <2>1. Len(rest) \in 1 .. BLOCK
    BY <1>1, <1>3, <1>8
  <2>2. rest \in Seq(V) /\ LengthField(L) \in Seq(V)
    BY <1>5, <1>8 DEF F
  <2> HIDE DEF pre
  <2>3. PICK c \in 1 .. 2, z \in 0 .. BLOCK - 1 : Laid(PadBlocks(rest, L), V, c, rest, z, LengthField(L))
    BY <2>1, <2>2, LastBlocks
  <2>4. Laid(t, V, c, rest, z, F)
    BY <2>3 DEF F
  <2> HIDE DEF t
  <2>5. QED
    BY <2>4 DEF Laid
<1> HIDE DEF t
<1>10. ASSUME NEW k \in 1 .. q
       PROVE  /\ pre[k] \in Seq(V) /\ Len(pre[k]) = BLOCK
              /\ \A i \in 1 .. BLOCK : pre[k][i] = data[(k - 1) * BLOCK + i]
  <2> DEFINE e == (k - 1) * BLOCK
  <2>1. e \in Nat /\ k * BLOCK = e + BLOCK /\ e + BLOCK <= Len(data) /\ BLOCK \in Nat
    <3>1. e \in Nat /\ k * BLOCK = e + BLOCK /\ e + BLOCK <= p
      BY <1>6
    <3> HIDE DEF e
    <3>2. QED
      BY <1>1, <1>3, <1>4, <3>1 DEF L
  <2>2. pre[k] = SubSeq(data, e + 1, k * BLOCK)
    OBVIOUS
  <2> HIDE DEF e, pre
  <2>3. /\ SubSeq(data, e + 1, e + BLOCK) \in Seq(V) /\ Len(SubSeq(data, e + 1, e + BLOCK)) = BLOCK
        /\ \A i \in 1 .. BLOCK : SubSeq(data, e + 1, e + BLOCK)[i] = data[e + i]
    BY <2>1, Piece
  <2>4. QED
    BY <2>1, <2>2, <2>3 DEF e
<1>11. pre \in Seq(Seq(V)) /\ Len(pre) = q
  <2>1. \A k \in 1 .. q : pre[k] \in Seq(V)
    BY <1>10
  <2>2. pre \in [1 .. q -> Seq(V)]
    BY <2>1
  <2>3. QED
    BY <1>3, <2>2
<1> HIDE DEF pre
<1> DEFINE o == pre \o t
           n == q + c
<1>12. /\ o \in Seq(Seq(V)) /\ Len(o) = n
       /\ \A k \in 1 .. n : o[k] = IF k <= q THEN pre[k] ELSE t[k - q]
  BY <1>9, <1>11, Joined
<1> HIDE DEF o
<1>13. n \in Nat /\ n * BLOCK = p + c * BLOCK /\ n * BLOCK = L + 1 + z + LENGTH
  <2>1. n * BLOCK = p + c * BLOCK /\ c * BLOCK \in Nat /\ n \in Nat
    BY <1>1, <1>3 DEF p
  <2> HIDE DEF n
  <2>2. c * BLOCK = x + 1 + z + LENGTH
    BY <1>8, <1>9
  <2>3. QED
    BY <1>1, <1>3, <1>4, <2>1, <2>2
<1>14. ASSUME NEW k \in 1 .. n
       PROVE  Len(o[k]) = BLOCK
  <2>1. CASE k <= q
    <3>1. k \in 1 .. q
      BY <1>3, <2>1
    <3> HIDE DEF n
    <3>2. Len(pre[k]) = BLOCK
      BY <1>10, <3>1
    <3>3. o[k] = pre[k]
      BY <1>12, <2>1
    <3>4. QED
      BY <3>2, <3>3
  <2>2. CASE ~(k <= q)
    <3>1. k - q \in 1 .. c
      BY <1>3, <2>2
    <3>2. QED
      BY <1>9, <1>12, <2>2, <3>1
  <2>3. QED
    BY <2>1, <2>2
<1>15. ASSUME NEW k \in 1 .. n, NEW i \in 1 .. BLOCK
       PROVE  LET j == (k - 1) * BLOCK + i
              IN o[k][i] = IF j <= L THEN data[j] ELSE IF j = L + 1 THEN BYTE \div 2
                           ELSE IF j <= L + 1 + z THEN 0 ELSE F[j - (L + 1) - z]
  <2> DEFINE j == (k - 1) * BLOCK + i
  <2>1. CASE k <= q
    <3>1. k \in 1 .. q
      BY <2>1
    <3>2. j <= L
      <4> DEFINE e == (k - 1) * BLOCK
      <4>1. e \in Nat /\ e + BLOCK <= p
        BY <1>6, <3>1
      <4> HIDE DEF e
      <4>2. e + i <= L
        BY <1>1, <1>3, <1>4, <4>1
      <4>3. QED
        BY <4>2 DEF e
    <3>3. o[k] = pre[k]
      BY <1>12, <2>1
    <3>4. pre[k][i] = data[j]
      BY <1>10, <3>1
    <3> HIDE DEF j
    <3>5. o[k][i] = data[j]
      BY <3>3, <3>4
    <3>6. QED
      BY <3>2, <3>5 DEF j
  <2>2. CASE ~(k <= q)
    <3> DEFINE h == k - q
               g == (h - 1) * BLOCK + i
    <3>1. h \in 1 .. c
      BY <1>3, <2>2
    <3>2. j = p + g /\ g \in Nat
      <4>1. (k - 1) = q + (h - 1) /\ h - 1 \in Nat
        BY <1>3, <3>1
      <4> HIDE DEF h
      <4>2. (q + (h - 1)) * BLOCK = q * BLOCK + (h - 1) * BLOCK /\ (h - 1) * BLOCK \in Nat
        BY <1>1, <1>3, <4>1
      <4> DEFINE e == (h - 1) * BLOCK
                 f == (k - 1) * BLOCK
      <4>3. f = p + e /\ e \in Nat
        BY <4>1, <4>2 DEF p
      <4> HIDE DEF e, f
      <4>4. f + i = p + (e + i) /\ e + i \in Nat
        BY <1>4, <4>3
      <4>5. QED
        BY <4>4 DEF e, f
    <3>3. o[k][i] = IF g <= Len(rest) THEN rest[g] ELSE IF g <= Len(rest) + z THEN 0 ELSE F[g - Len(rest) - z]
      <4>1. o[k] = t[h]
        BY <1>12, <2>2
      <4> HIDE DEF h
      <4>2. t[h][i] = IF g <= Len(rest) THEN rest[g] ELSE IF g <= Len(rest) + z THEN 0 ELSE F[g - Len(rest) - z]
        BY <1>9, <3>1
      <4>3. QED
        BY <4>1, <4>2
    <3>4. g >= 1
      <4>1. h - 1 \in Nat
        BY <3>1
      <4> HIDE DEF h
      <4>2. (h - 1) * BLOCK \in Nat
        BY <1>1, <4>1
      <4>3. QED
        BY <4>2
    <3> HIDE DEF j, g, h
    <3>5. /\ j <= L <=> g <= x
          /\ j = L + 1 <=> g = x + 1
          /\ j <= L + 1 + z <=> g <= x + 1 + z
          /\ j - (L + 1) - z = g - (x + 1) - z
      BY <1>1, <1>3, <1>4, <3>2
    <3>6. g <= x + 1 <=> g <= x \/ g = x + 1
      BY <1>3, <3>2
    <3>7. g <= x => g \in 1 .. x
      BY <1>3, <3>2, <3>4
    <3>8. o[k][i] = IF g <= x THEN data[p + g] ELSE IF g = x + 1 THEN BYTE \div 2
                    ELSE IF g <= x + 1 + z THEN 0 ELSE F[g - (x + 1) - z]
      BY <1>8, <3>3, <3>6, <3>7
    <3>9. o[k][i] = IF j <= L THEN data[j] ELSE IF j = L + 1 THEN BYTE \div 2
                    ELSE IF j <= L + 1 + z THEN 0 ELSE F[j - (L + 1) - z]
      BY <3>2, <3>5, <3>8
    <3>10. QED
      BY <3>9 DEF j
  <2>3. QED
    BY <2>1, <2>2
<1>16. n \in Nat /\ sha256(data) = o
  BY <1>2, <1>13 DEF o
<1> n \in Nat
  BY <1>16
<1> HIDE DEF n
<1>17. WITNESS n \in Nat, z \in 0 .. BLOCK - 1
<1>18. QED
  BY <1>12, <1>13, <1>14, <1>15, <1>16 DEF L, F, Message

(* The bytes of the blocks of a message, in the words of PaddingExact. *)
LEMMA Sha256Text ==
  ASSUME NEW data \in Seq(Int)
  PROVE  LET blocks == sha256(data)
             text == [j \in 1 .. Len(blocks) * BLOCK |-> blocks[(j - 1) \div BLOCK + 1][((j - 1) % BLOCK) + 1]]
             zeros == Len(text) - Len(data) - 1 - LENGTH
         IN /\ \A k \in DOMAIN blocks : Len(blocks[k]) = BLOCK
            /\ zeros \in 0 .. BLOCK - 1
            /\ text = data \o <<BYTE \div 2>> \o Zeros(0, zeros) \o LengthField(Len(data))
<1> DEFINE L == Len(data)
           F == LengthField(L)
           V == Int \cup {F[i] : i \in 1 .. LENGTH}
           b == sha256(data)
           mark == <<BYTE \div 2>>
<1>1. BLOCK \in Nat \ {0} /\ LENGTH \in 0 .. BLOCK /\ LENGTH \in Nat /\ L \in Nat /\ BYTE \div 2 \in Int
  BY TextAssumption
<1>2. F \in Seq(V) /\ Len(F) = LENGTH
  <2>1. F = [i \in 1 .. LENGTH |-> F[i]]
    BY DEF LengthField
  <2> HIDE DEF F
  <2>2. F \in [1 .. LENGTH -> V]
    BY <2>1
  <2>3. QED
    BY <1>1, <2>2
<1>3. data \in Seq(V) /\ 0 \in V /\ BYTE \div 2 \in V
  <2> HIDE DEF F
  <2>1. Int \subseteq V
    OBVIOUS
  <2> HIDE DEF V
  <2>2. QED
    BY <1>1, <2>1, SeqMonotonic
<1>4. mark \in Seq(V) /\ Len(mark) = 1 /\ mark[1] = BYTE \div 2
  <2> HIDE DEF V
  <2>1. QED
    BY <1>3
<1> HIDE DEF V, mark
<1>5. PICK n \in Nat, z \in 0 .. BLOCK - 1 : Message(b, V, n, z, data)
  BY <1>2, <1>3, Sha256Blocks
<1> HIDE DEF b
<1>6. /\ b \in Seq(Seq(V)) /\ Len(b) = n
      /\ n * BLOCK = L + 1 + z + LENGTH
      /\ \A k \in 1 .. n : Len(b[k]) = BLOCK
      /\ \A k \in 1 .. n, i \in 1 .. BLOCK :
           LET j == (k - 1) * BLOCK + i
           IN b[k][i] = IF j <= L THEN data[j] ELSE IF j = L + 1 THEN BYTE \div 2
                        ELSE IF j <= L + 1 + z THEN 0 ELSE F[j - (L + 1) - z]
  BY <1>5 DEF Message
<1> DEFINE N == n * BLOCK
           text == [j \in 1 .. Len(b) * BLOCK |-> b[(j - 1) \div BLOCK + 1][((j - 1) % BLOCK) + 1]]
           zs == Zeros(0, z)
           one == data \o mark
           two == one \o zs
           all == two \o F
<1> HIDE DEF L, F
<1>7. N \in Nat /\ N = L + 1 + z + LENGTH
  BY <1>1, <1>6
<1>8. text = [j \in 1 .. N |-> b[(j - 1) \div BLOCK + 1][((j - 1) % BLOCK) + 1]]
  BY <1>6
<1>9. zs \in Seq(V) /\ Len(zs) = z /\ \A i \in 1 .. z : zs[i] = 0
  <2>1. Zeros(0, z) \in Seq(V) /\ Len(Zeros(0, z)) = z - 0 /\ \A i \in 1 .. z - 0 : Zeros(0, z)[i] = 0
    <3>1. 0 \in Nat /\ z \in Nat /\ 0 <= z
      BY <1>1
    <3>2. QED
      BY <1>3, <3>1, ZerosAre
  <2>2. z - 0 = z
    BY <1>1
  <2>3. QED
    BY <2>1, <2>2
<1> HIDE DEF zs
<1>10. /\ one \in Seq(V) /\ Len(one) = L + 1
       /\ \A j \in 1 .. L + 1 : one[j] = IF j <= L THEN data[j] ELSE mark[j - L]
  <2> HIDE DEF text, N, two, all
  <2>1. /\ data \o mark \in Seq(V) /\ Len(data \o mark) = Len(data) + Len(mark)
        /\ \A j \in 1 .. Len(data) + Len(mark) : (data \o mark)[j] = IF j <= Len(data) THEN data[j] ELSE mark[j - Len(data)]
    BY <1>3, <1>4, Joined
  <2>2. QED
    BY <1>4, <2>1 DEF L
<1> HIDE DEF one
<1>11. /\ two \in Seq(V) /\ Len(two) = L + 1 + z
       /\ \A j \in 1 .. L + 1 + z : two[j] = IF j <= L + 1 THEN one[j] ELSE zs[j - (L + 1)]
  <2> HIDE DEF text, N, all
  <2>1. /\ one \o zs \in Seq(V) /\ Len(one \o zs) = Len(one) + Len(zs)
        /\ \A j \in 1 .. Len(one) + Len(zs) : (one \o zs)[j] = IF j <= Len(one) THEN one[j] ELSE zs[j - Len(one)]
    BY <1>9, <1>10, Joined
  <2>2. QED
    BY <1>9, <1>10, <2>1
<1> HIDE DEF two
<1>12. /\ all \in Seq(V) /\ Len(all) = L + 1 + z + LENGTH
       /\ \A j \in 1 .. L + 1 + z + LENGTH : all[j] = IF j <= L + 1 + z THEN two[j] ELSE F[j - (L + 1 + z)]
  <2> HIDE DEF text, N
  <2>1. /\ two \o F \in Seq(V) /\ Len(two \o F) = Len(two) + Len(F)
        /\ \A j \in 1 .. Len(two) + Len(F) : (two \o F)[j] = IF j <= Len(two) THEN two[j] ELSE F[j - Len(two)]
    BY <1>2, <1>11, Joined
  <2>2. QED
    BY <1>2, <1>11, <2>1
<1> HIDE DEF all
<1>13. ASSUME NEW j \in 1 .. N
       PROVE  all[j] = IF j <= L THEN data[j] ELSE IF j = L + 1 THEN BYTE \div 2
                       ELSE IF j <= L + 1 + z THEN 0 ELSE F[j - (L + 1) - z]
  <2>1. CASE j <= L
    <3>1. j \in 1 .. L + 1 /\ j \in 1 .. L + 1 + z /\ j \in 1 .. L + 1 + z + LENGTH /\ j <= L + 1 /\ j <= L + 1 + z
      BY <1>1, <2>1
    <3>2. QED
      BY <1>10, <1>11, <1>12, <2>1, <3>1
  <2>2. CASE j = L + 1
    <3>1. /\ ~(j <= L) /\ j - L = 1
          /\ j \in 1 .. L + 1 /\ j \in 1 .. L + 1 + z /\ j \in 1 .. L + 1 + z + LENGTH /\ j <= L + 1 /\ j <= L + 1 + z
      BY <1>1, <2>2
    <3>2. QED
      BY <1>4, <1>10, <1>11, <1>12, <2>2, <3>1
  <2>3. CASE j > L + 1 /\ j <= L + 1 + z
    <3>1. /\ ~(j <= L) /\ j # L + 1 /\ ~(j <= L + 1)
          /\ j - (L + 1) \in 1 .. z /\ j \in 1 .. L + 1 + z /\ j \in 1 .. L + 1 + z + LENGTH
      BY <1>1, <2>3
    <3>2. QED
      BY <1>9, <1>11, <1>12, <2>3, <3>1
  <2>4. CASE j > L + 1 + z
    <3>1. /\ ~(j <= L) /\ j # L + 1 /\ ~(j <= L + 1 + z)
          /\ j \in 1 .. L + 1 + z + LENGTH /\ j - (L + 1 + z) = j - (L + 1) - z
      BY <1>1, <1>7, <2>4
    <3>2. QED
      BY <1>12, <3>1
  <2>5. j <= L \/ j = L + 1 \/ (j > L + 1 /\ j <= L + 1 + z) \/ j > L + 1 + z
    BY <1>1, <1>7
  <2>6. QED
    BY <2>1, <2>2, <2>3, <2>4, <2>5
<1>14. ASSUME NEW j \in 1 .. N
       PROVE  text[j] = all[j]
  <2> DEFINE k == (j - 1) \div BLOCK + 1
             i == ((j - 1) % BLOCK) + 1
             h == j - 1
  <2>1. text[j] = b[k][i]
    BY <1>8
  <2> HIDE DEF text
  <2>2. /\ k \in Nat /\ k - 1 \in Nat /\ i \in 1 .. BLOCK /\ j = (k - 1) * BLOCK + i
    <3>1. h \in Nat /\ k = h \div BLOCK + 1 /\ i = (h % BLOCK) + 1 /\ j = h + 1
      BY <1>7
    <3> HIDE DEF h, k, i
    <3>2. h = BLOCK * (h \div BLOCK) + (h % BLOCK) /\ (h % BLOCK) \in 0 .. BLOCK - 1 /\ (h \div BLOCK) \in Nat
      BY <1>1, <3>1, Division
    <3> DEFINE q == h \div BLOCK
               r == h % BLOCK
    <3> HIDE DEF q, r
    <3>3. k = q + 1 /\ i = r + 1 /\ j = BLOCK * q + r + 1 /\ q \in Nat /\ r \in 0 .. BLOCK - 1
      BY <3>1, <3>2 DEF q, r
    <3>4. k - 1 = q /\ BLOCK * q = q * BLOCK /\ q * BLOCK \in Nat
      BY <1>1, <3>3
    <3>5. QED
      BY <1>1, <3>3, <3>4
  <2> HIDE DEF k, i
  <2>3. k \in 1 .. n
    <3>1. ASSUME ~(k <= n) PROVE FALSE
      <4>1. CASE n = k - 1
        <5>1. (k - 1) * BLOCK = N
          BY <4>1
        <5> HIDE DEF N
        <5>2. QED
          BY <1>7, <2>2, <5>1
      <4>2. CASE n < k - 1
        <5>1. BLOCK * (k - 1) >= BLOCK * n + BLOCK /\ BLOCK * n \in Nat
          BY <1>1, <2>2, <4>2, MultiplesApart
        <5>2. BLOCK * (k - 1) = (k - 1) * BLOCK /\ BLOCK * n = N
          BY <1>1, <2>2
        <5> HIDE DEF N
        <5>3. QED
          BY <1>1, <1>7, <2>2, <5>1, <5>2
      <4>3. QED
        BY <2>2, <3>1, <4>1, <4>2
    <3>2. QED
      BY <2>2, <3>1
  <2>4. b[k][i] = IF j <= L THEN data[j] ELSE IF j = L + 1 THEN BYTE \div 2
                  ELSE IF j <= L + 1 + z THEN 0 ELSE F[j - (L + 1) - z]
    BY <1>6, <2>2, <2>3
  <2>5. QED
    BY <1>13, <2>1, <2>4
<1>15. text = all
  <2>1. all = [j \in 1 .. N |-> all[j]]
    BY <1>7, <1>12
  <2>2. text = [j \in 1 .. N |-> text[j]]
    BY <1>8
  <2> HIDE DEF text
  <2>3. QED
    BY <1>14, <2>1, <2>2
<1> HIDE DEF N, text
<1>16. Len(text) = L + 1 + z + LENGTH
  BY <1>12, <1>15
<1>17. Len(text) - L - 1 - LENGTH = z
  BY <1>1, <1>16
<1>18. DOMAIN b = 1 .. n
  BY <1>6
<1>19. /\ \A k \in DOMAIN b : Len(b[k]) = BLOCK
       /\ Len(text) - L - 1 - LENGTH \in 0 .. BLOCK - 1
       /\ text = data \o mark \o Zeros(0, Len(text) - L - 1 - LENGTH) \o F
  BY <1>6, <1>15, <1>17, <1>18 DEF all, two, one, zs
<1>20. QED
  BY <1>19 DEF b, text, L, F, mark

(* The blocks that sha256 compresses are the message, the marker, the      *)
(* fewest zeros that fill the last block and the length in bits, for every *)
(* length of the message, of the blocks and of the length field.           *)
THEOREM PaddingIsExact == Spec => []PaddingExact
<1>1. Init => PaddingExact
  BY DEF Init, PaddingExact
<1>2. PaddingExact /\ [Next]_vars => PaddingExact'
  <2> SUFFICES ASSUME PaddingExact, [Next]_vars PROVE PaddingExact'
    OBVIOUS
  <2>1. CASE Hash
    <3>1. PICK n \in 0 .. MaxData : in' = [i \in 1 .. n |-> i % BYTE] /\ out' = sha256([i \in 1 .. n |-> i % BYTE])
      BY <2>1 DEF Hash
    <3> DEFINE data == [i \in 1 .. n |-> i % BYTE]
    <3>2. data \in Seq(Int)
      BY TextAssumption
    <3>3. in' = data /\ out' = sha256(data)
      BY <3>1
    <3> HIDE DEF data
    <3>4. QED
      BY <3>2, <3>3, Sha256Text DEF PaddingExact
  <2>2. CASE Next /\ ~Hash
    <3>1. op' # "hash"
      BY <2>2 DEF Next, Memory, Compare, Search, Copy, Tokenize, Lex, Format, Return
    <3>2. QED
      BY <3>1 DEF PaddingExact
  <2>3. CASE UNCHANGED vars
    BY <2>3 DEF PaddingExact, vars
  <2>4. QED
    BY <2>1, <2>2, <2>3
<1>3. QED
  BY <1>1, <1>2, PTL DEF Spec
-----------------------------------------------------------------------------
(* Strings.  A string is a sequence of bytes other than the terminator. *)

Byte == 0 .. 255
Plain == Seq(1 .. 255)

LEMMA NotNul == \A c \in 1 .. 255 : c # 0 /\ c \in Byte
BY DEF Byte

LEMMA StringsArePlain ==
  ASSUME NEW a \in Strings
  PROVE  a \in Plain /\ Len(a) \in 0 .. MaxLen /\ MaxLen \in Nat
<1>1. PICK m \in 0 .. MaxLen : a \in [1 .. m -> Alphabet]
  BY DEF Strings, BoundedSeq, SeqOf
<1>2. a \in [1 .. m -> 1 .. 255] /\ m \in Nat /\ MaxLen \in Nat
  <2>1. MaxLen \in Nat /\ Alphabet \subseteq 1 .. 255
    BY TextAssumption
  <2>2. m \in Nat
    BY <2>1
  <2> HIDE DEF Strings
  <2>3. a \in [1 .. m -> 1 .. 255]
    BY <1>1, <2>1
  <2>4. QED
    BY <2>1, <2>2, <2>3
<1>3. QED
  BY <1>1, <1>2 DEF Plain

LEMMA Terminated ==
  ASSUME NEW a \in Plain
  PROVE  /\ C(a) \in Seq(Byte) /\ Len(C(a)) = Len(a) + 1 /\ Len(a) \in Nat
         /\ \A i \in 0 .. Len(a) - 1 : At(C(a), i) = a[i + 1] /\ a[i + 1] \in 1 .. 255
         /\ At(C(a), Len(a)) = 0
         /\ \A i \in 0 .. Len(a) : At(C(a), i) \in Byte
<1>1. a \in Seq(Byte) /\ 0 \in Byte /\ Len(a) \in Nat
  <2>1. a \in Seq(1 .. 255) /\ (1 .. 255) \subseteq Byte
    BY NotNul DEF Plain
  <2>2. a \in Seq(Byte)
    BY <2>1, SeqMonotonic
  <2>3. 0 \in Byte
    BY DEF Byte
  <2>4. QED
    BY <2>2, <2>3
<1>2. /\ C(a) \in Seq(Byte) /\ Len(C(a)) = Len(a) + 1
      /\ \A i \in 1 .. Len(a) : C(a)[i] = a[i]
      /\ C(a)[Len(a) + 1] = 0
  BY <1>1, AppendProperties DEF C, NUL
<1>3. ASSUME NEW i \in 0 .. Len(a) - 1
      PROVE  At(C(a), i) = a[i + 1] /\ a[i + 1] \in 1 .. 255
  <2>1. i + 1 \in 1 .. Len(a)
    BY <1>1
  <2>2. a[i + 1] \in 1 .. 255
    BY <2>1, ElementOfSeq DEF Plain
  <2>3. QED
    BY <1>2, <2>1, <2>2 DEF At
<1>4. At(C(a), Len(a)) = 0
  BY <1>2 DEF At
<1>5. ASSUME NEW i \in 0 .. Len(a) PROVE At(C(a), i) \in Byte
  <2>1. CASE i = Len(a)
    BY <1>1, <1>4, <2>1
  <2>2. CASE i # Len(a)
    <3>1. i \in 0 .. Len(a) - 1
      BY <1>1, <2>2
    <3>2. At(C(a), i) = a[i + 1] /\ a[i + 1] \in 1 .. 255
      BY <1>3, <3>1
    <3>3. QED
      BY <3>2, NotNul
  <2>3. QED
    BY <2>1, <2>2
<1>6. QED
  BY <1>1, <1>2, <1>3, <1>4, <1>5

(* A set of positions that is not empty has a first. *)
LEMMA FirstIn ==
  ASSUME NEW n \in Nat, NEW T \in SUBSET (0 .. n), T # {}
  PROVE  \E k \in 0 .. n : k \in T /\ \A j \in 0 .. k - 1 : j \notin T
<1>1. T \in SUBSET Nat
  OBVIOUS
<1>2. PICK k \in T : \A y \in T : k <= y
  BY <1>1, LeastElement
<1>3. k \in 0 .. n /\ \A j \in 0 .. k - 1 : j \notin T
  BY <1>2
<1>4. QED
  BY <1>3

LEMMA MinIsLeast ==
  ASSUME NEW T \in SUBSET Nat, T # {}
  PROVE  Min(T) \in T /\ \A y \in T : Min(T) <= y
<1>1. \E x \in T : \A y \in T : x <= y
  BY LeastElement
<1>2. QED
  BY <1>1 DEF Min

LEMMA FirstIs ==
  ASSUME NEW T \in SUBSET Nat, NEW k \in T, \A y \in T : k <= y
  PROVE  First(T) = k
<1>1. T # {}
  OBVIOUS
<1>2. Min(T) \in T /\ \A y \in T : Min(T) <= y
  BY <1>1, MinIsLeast
<1>3. Min(T) = k
  <2>1. Min(T) \in Nat /\ k \in Nat /\ Min(T) <= k /\ k <= Min(T)
    BY <1>2
  <2>2. QED
    BY <2>1
<1>4. QED
  BY <1>1, <1>3 DEF First

(* The first w elements. *)
LEMMA PrefixIs ==
  ASSUME NEW S, NEW b \in Seq(S), NEW w \in 0 .. Len(b)
  PROVE  /\ SubSeq(b, 1, w) \in Seq(S) /\ Len(SubSeq(b, 1, w)) = w
         /\ \A k \in 1 .. w : SubSeq(b, 1, w)[k] = b[k]
<1> DEFINE o == 1
<1>1. o \in Int /\ w \in Int /\ w \in Nat /\ \A i \in o .. w : i \in 1 .. Len(b)
  OBVIOUS
<1>2. \A i \in o .. w : b[i] \in S
  BY <1>1, ElementOfSeq
<1>3. w - o + 1 = w /\ (o <= w <=> w > 0) /\ \A k \in 1 .. w : o + k - 1 = k
  OBVIOUS
<1> HIDE DEF o
<1> DEFINE q == SubSeq(b, o, w)
<1>4. /\ q \in Seq(S)
      /\ Len(q) = IF o <= w THEN w - o + 1 ELSE 0
      /\ \A i \in 1 .. w - o + 1 : q[i] = b[o + i - 1]
  BY <1>1, <1>2, SubSeqProperties
<1> HIDE DEF q
<1>5. q \in Seq(S) /\ Len(q) = w /\ \A i \in 1 .. w : q[i] = b[i]
  <2>1. Len(q) = IF w > 0 THEN w ELSE 0
    BY <1>3, <1>4
  <2>2. Len(q) = w
    BY <1>1, <2>1
  <2>3. QED
    BY <1>3, <1>4, <2>2
<1>6. QED
  BY <1>5 DEF q, o

(* The terminator found from p on. *)
LEMMA StrlenIs ==
  ASSUME NEW b, Len(b) \in Nat, NEW p \in Nat, NEW e \in p .. Len(b) - 1,
         At(b, e) = 0, \A i \in p .. e - 1 : At(b, i) # 0
  PROVE  luna_strlen(b, p) = e - p
<1> DEFINE k == CHOOSE i \in p .. Len(b) - 1 : At(b, i) = 0 /\ \A j \in p .. i - 1 : ~(At(b, j) = 0)
<1>1. luna_strlen(b, p) = k - p
  BY DEF luna_strlen, Scan, NUL
<1>2. k \in p .. Len(b) - 1 /\ At(b, k) = 0 /\ \A j \in p .. k - 1 : ~(At(b, j) = 0)
  OBVIOUS
<1> HIDE DEF k
<1>3. ~(k < e) /\ ~(e < k) /\ k \in Int /\ e \in Int
  BY <1>2
<1>4. QED
  BY <1>1, <1>3

LEMMA LengthOfString ==
  ASSUME NEW a \in Plain
  PROVE  luna_strlen(C(a), 0) = Len(a)
<1>1. /\ Len(C(a)) = Len(a) + 1 /\ Len(a) \in Nat /\ At(C(a), Len(a)) = 0
      /\ \A i \in 0 .. Len(a) - 1 : At(C(a), i) # 0
  <2>1. /\ Len(C(a)) = Len(a) + 1 /\ Len(a) \in Nat /\ At(C(a), Len(a)) = 0
        /\ \A i \in 0 .. Len(a) - 1 : At(C(a), i) = a[i + 1] /\ a[i + 1] \in 1 .. 255
    BY Terminated
  <2>2. ASSUME NEW i \in 0 .. Len(a) - 1 PROVE At(C(a), i) # 0
    <3>1. At(C(a), i) \in 1 .. 255
      BY <2>1
    <3>2. QED
      BY <3>1, NotNul
  <2>3. QED
    BY <2>1, <2>2
<1>2. luna_strlen(C(a), 0) = Len(a) - 0
  <2>1. Len(C(a)) \in Nat /\ Len(a) \in 0 .. Len(C(a)) - 1
    BY <1>1
  <2>2. QED
    BY <1>1, <2>1, StrlenIs
<1>3. QED
  BY <1>1, <1>2

(* A buffer that starts with a string and its terminator holds that string. *)
LEMMA StrIs ==
  ASSUME NEW r \in Seq(Byte), NEW s \in Plain, Len(s) < Len(r),
         \A i \in 1 .. Len(s) : r[i] = s[i], r[Len(s) + 1] = 0
  PROVE  Str(r) = s
<1>1. s \in Seq(1 .. 255) /\ Len(s) \in Nat /\ Len(r) \in Nat
  BY DEF Plain
<1>2. \A i \in 0 .. Len(s) - 1 : At(r, i) # 0
  <2>1. ASSUME NEW i \in 0 .. Len(s) - 1 PROVE At(r, i) # 0
    <3>1. i + 1 \in 1 .. Len(s)
      BY <1>1
    <3>2. s[i + 1] \in 1 .. 255
      BY <1>1, <3>1, ElementOfSeq
    <3>3. At(r, i) = s[i + 1]
      BY <3>1 DEF At
    <3>4. QED
      BY <3>2, <3>3, NotNul
  <2>2. QED
    BY <2>1
<1>3. luna_strlen(r, 0) = Len(s)
  <2>1. At(r, Len(s)) = 0
    BY DEF At
  <2>2. Len(s) \in 0 .. Len(r) - 1 /\ 0 \in Nat
    BY <1>1
  <2>3. luna_strlen(r, 0) = Len(s) - 0
    BY <1>1, <1>2, <2>1, <2>2, StrlenIs
  <2>4. QED
    BY <1>1, <2>3
<1> DEFINE q == SubSeq(r, 1, Len(s))
<1>4. q \in Seq(Byte) /\ Len(q) = Len(s) /\ \A i \in 1 .. Len(s) : q[i] = r[i]
  <2>1. Len(s) \in 0 .. Len(r)
    BY <1>1
  <2>2. QED
    BY <2>1, PrefixIs
<1> HIDE DEF q
<1>5. s \in Seq(Byte)
  <2>1. (1 .. 255) \subseteq Byte
    BY NotNul
  <2>2. QED
    BY <1>1, <2>1, SeqMonotonic
<1>6. q = s
  BY <1>4, <1>5, SeqEqual
<1>7. QED
  BY <1>3, <1>6 DEF Str, q

(* What the functions for searching return. *)
LEMMA StrchrIs ==
  ASSUME NEW a \in Plain, NEW c
  PROVE  luna_strchr(C(a), c) = First({i \in 0 .. Len(a) : At(C(a), i) = c})
<1> DEFINE b == C(a)
           n == Len(a)
           Stop(i) == At(b, i) \in {c, NUL}
           T == {i \in 0 .. n : Stop(i)}
           hits == {i \in 0 .. n : At(b, i) = c}
           k == CHOOSE i \in 0 .. n : Stop(i) /\ \A j \in 0 .. i - 1 : ~Stop(j)
<1>1. n \in Nat /\ Len(b) - 1 = n /\ At(b, n) = 0 /\ \A i \in 0 .. n - 1 : At(b, i) # 0
  <2>1. Len(b) = n + 1 /\ n \in Nat /\ At(b, n) = 0 /\ \A i \in 0 .. n - 1 : At(b, i) = a[i + 1] /\ a[i + 1] \in 1 .. 255
    BY Terminated
  <2> HIDE DEF n, b, k, T, hits
  <2>2. \A i \in 0 .. n - 1 : At(b, i) # 0
    BY <2>1, NotNul
  <2>3. QED
    BY <2>1, <2>2
<1> HIDE DEF n, b
<1>2. luna_strchr(b, c) = IF At(b, k) = c THEN k ELSE NULL
  <2> DEFINE m == Len(b) - 1
             e == CHOOSE i \in 0 .. m : Stop(i) /\ \A j \in 0 .. i - 1 : ~Stop(j)
  <2>1. luna_strchr(b, c) = IF At(b, e) = c THEN e ELSE NULL
    BY DEF luna_strchr, Scan
  <2>2. m = n
    BY <1>1
  <2>3. e = k
    <3> HIDE DEF m, Stop
    <3>1. QED
      BY <2>2
  <2>4. QED
    BY <2>1, <2>3
<1>3. \E i \in 0 .. n : i \in T /\ \A j \in 0 .. i - 1 : j \notin T
  <2>1. n \in T /\ T \in SUBSET (0 .. n)
    BY <1>1 DEF NUL
  <2> HIDE DEF T, k
  <2>2. QED
    BY <1>1, <2>1, FirstIn
<1>4. \E i \in 0 .. n : Stop(i) /\ \A j \in 0 .. i - 1 : ~Stop(j)
  <2> HIDE DEF Stop
  <2>1. QED
    BY <1>1, <1>3
<1>5. k \in 0 .. n /\ Stop(k) /\ \A j \in 0 .. k - 1 : ~Stop(j)
  BY <1>4
<1> HIDE DEF k
<1>6. CASE At(b, k) = c
  <2>1. k \in hits /\ hits \in SUBSET Nat
    BY <1>1, <1>5, <1>6
  <2>2. ASSUME NEW y \in hits PROVE k <= y
    BY <1>1, <1>5
  <2> HIDE DEF hits
  <2>3. First(hits) = k
    BY <2>1, <2>2, FirstIs
  <2>4. QED
    BY <1>2, <1>6, <2>3 DEF b, n, hits
<1>7. CASE At(b, k) # c
  <2>1. k = n
    <3>1. At(b, k) = 0
      BY <1>5, <1>7 DEF NUL
    <3>2. k \notin 0 .. n - 1
      BY <1>1, <3>1
    <3>3. QED
      BY <1>1, <1>5, <3>2
  <2>2. hits = {}
    <3>1. ASSUME NEW y \in hits PROVE FALSE
      <4>1. y \in 0 .. n /\ At(b, y) = c /\ y # n
        BY <1>7, <2>1
      <4>2. y \in 0 .. k - 1
        BY <1>1, <2>1, <4>1
      <4>3. QED
        BY <1>5, <4>1, <4>2
    <3>2. QED
      BY <3>1
  <2>3. QED
    BY <1>2, <1>7, <2>2 DEF First, b, n, hits
<1>8. QED
  BY <1>6, <1>7

LEMMA MemchrIs ==
  ASSUME NEW a \in Plain, NEW c
  PROVE  luna_memchr(a, c, Len(a)) = First({i \in 0 .. Len(a) : At(C(a), i) = c} \ {Len(a)})
<1> DEFINE n == Len(a)
           Stop(i) == i = n \/ At(a, i) = c
           T == {i \in 0 .. n : Stop(i)}
           hits == {i \in 0 .. n : At(C(a), i) = c} \ {n}
           k == CHOOSE i \in 0 .. n : Stop(i) /\ \A j \in 0 .. i - 1 : ~Stop(j)
<1>1. n \in Nat /\ \A i \in 0 .. n - 1 : At(C(a), i) = At(a, i)
  BY Terminated DEF At
<1>2. luna_memchr(a, c, n) = IF k = n THEN NULL ELSE k
  BY DEF luna_memchr, Scan
<1>3. ASSUME NEW i \in 0 .. n PROVE i \in hits <=> i # n /\ At(a, i) = c
  <2>1. i # n => At(C(a), i) = At(a, i)
    <3> HIDE DEF n
    <3>1. i # n => i \in 0 .. n - 1
      BY <1>1
    <3>2. QED
      BY <1>1, <3>1
  <2>2. QED
    BY <2>1
<1>4. hits \in SUBSET (0 .. n)
  OBVIOUS
<1> HIDE DEF n, hits
<1>5. \E i \in 0 .. n : i \in T /\ \A j \in 0 .. i - 1 : j \notin T
  <2>1. n \in T /\ T \in SUBSET (0 .. n)
    BY <1>1
  <2> HIDE DEF T, k
  <2>2. QED
    BY <1>1, <2>1, FirstIn
<1>6. \E i \in 0 .. n : Stop(i) /\ \A j \in 0 .. i - 1 : ~Stop(j)
  <2> HIDE DEF Stop
  <2>1. QED
    BY <1>1, <1>5
<1>7. k \in 0 .. n /\ Stop(k) /\ \A j \in 0 .. k - 1 : ~Stop(j)
  BY <1>6
<1> HIDE DEF k
<1>8. CASE k # n
  <2>1. k \in hits /\ hits \in SUBSET Nat
    BY <1>1, <1>3, <1>4, <1>7, <1>8
  <2>2. ASSUME NEW y \in hits PROVE k <= y
    <3>1. y \in 0 .. n /\ Stop(y)
      BY <1>3, <1>4
    <3> HIDE DEF Stop
    <3>2. QED
      BY <1>1, <1>7, <3>1
  <2>3. First(hits) = k
    BY <2>1, <2>2, FirstIs
  <2>4. QED
    BY <1>2, <1>8, <2>3 DEF n, hits
<1>9. CASE k = n
  <2>1. hits = {}
    <3>1. ASSUME NEW y \in hits PROVE FALSE
      <4>1. y \in 0 .. n /\ Stop(y) /\ y # n
        BY <1>3, <1>4
      <4> HIDE DEF Stop
      <4>2. QED
        BY <1>1, <1>7, <1>9, <4>1
    <3>2. QED
      BY <3>1
  <2>2. QED
    BY <1>2, <1>9, <2>1 DEF First, n, hits
<1>10. QED
  BY <1>8, <1>9

LEMMA StrrchrIs ==
  ASSUME NEW a \in Plain, NEW c
  PROVE  luna_strrchr(C(a), c) = Max({NULL} \cup ({i \in 0 .. Len(a) : At(C(a), i) = c} \ {Len(a)}))
<1>1. luna_strlen(C(a), 0) = Len(a) /\ Len(a) \in Nat
  BY LengthOfString, Terminated
<1>2. {i \in 0 .. Len(a) - 1 : At(C(a), i) = c} = {i \in 0 .. Len(a) : At(C(a), i) = c} \ {Len(a)}
  BY <1>1
<1>3. QED
  BY <1>1, <1>2 DEF luna_strrchr
-----------------------------------------------------------------------------
(* Copying.  A buffer that has held something else. *)

LEMMA RoomIs ==
  ASSUME NEW a \in Plain, Len(a) <= MaxLen
  PROVE  /\ Room(a) \in Seq(Byte) /\ Len(Room(a)) = 2 * MaxLen + 2
         /\ \A i \in 1 .. Len(a) : Room(a)[i] = a[i]
         /\ Room(a)[Len(a) + 1] = 0
         /\ luna_strlen(Room(a), 0) = Len(a)
<1> DEFINE n == Len(a)
           m == 2 * MaxLen + 1 - n
           fill == [i \in 1 .. m |-> 1]
           b == C(a)
           r == b \o fill
<1>1. /\ b \in Seq(Byte) /\ Len(b) = n + 1 /\ n \in Nat /\ At(b, n) = 0
      /\ \A i \in 0 .. n - 1 : At(b, i) = a[i + 1] /\ a[i + 1] \in 1 .. 255
  BY Terminated
<1>2. m \in Nat /\ MaxLen \in Nat /\ n + 1 + m = 2 * MaxLen + 2
  BY <1>1, TextAssumption
<1>3. Room(a) = r
  BY DEF Room
<1> HIDE DEF m, n, b
<1>4. fill \in Seq(Byte) /\ Len(fill) = m
  <2>1. fill \in [1 .. m -> Byte]
    BY DEF Byte
  <2> HIDE DEF fill
  <2>2. QED
    BY <1>2, <2>1
<1> HIDE DEF fill
<1>5. /\ r \in Seq(Byte) /\ Len(r) = Len(b) + Len(fill)
      /\ \A i \in 1 .. Len(b) + Len(fill) : r[i] = IF i <= Len(b) THEN b[i] ELSE fill[i - Len(b)]
  BY <1>1, <1>4, Joined
<1> HIDE DEF r
<1>6. Len(r) = 2 * MaxLen + 2
  BY <1>1, <1>2, <1>4, <1>5
<1>7. ASSUME NEW i \in 1 .. n + 1 PROVE r[i] = b[i]
  <2>1. i \in 1 .. Len(b) + Len(fill) /\ i <= Len(b)
    BY <1>1, <1>2, <1>4
  <2>2. QED
    BY <1>5, <2>1
<1>8. ASSUME NEW i \in 1 .. n PROVE r[i] = a[i] /\ a[i] \in 1 .. 255
  <2>1. i - 1 \in 0 .. n - 1 /\ (i - 1) + 1 = i /\ i \in 1 .. n + 1
    BY <1>1
  <2>2. At(b, i - 1) = a[i] /\ a[i] \in 1 .. 255
    BY <1>1, <2>1
  <2>3. At(b, i - 1) = b[i]
    BY <2>1 DEF At
  <2>4. QED
    BY <1>7, <2>1, <2>2, <2>3
<1>9. r[n + 1] = 0
  <2>1. n + 1 \in 1 .. n + 1
    BY <1>1
  <2>2. QED
    BY <1>1, <1>7, <2>1 DEF At
<1>10. luna_strlen(r, 0) = n
  <2>1. At(r, n) = 0
    BY <1>9 DEF At
  <2>2. ASSUME NEW i \in 0 .. n - 1 PROVE At(r, i) # 0
    <3>1. i + 1 \in 1 .. n
      BY <1>1
    <3>2. r[i + 1] # 0
      BY <1>8, <3>1, NotNul
    <3>3. QED
      BY <3>2 DEF At
  <2>3. Len(r) \in Nat /\ 0 \in Nat /\ n \in 0 .. Len(r) - 1
    BY <1>1, <1>2, <1>6
  <2>4. luna_strlen(r, 0) = n - 0
    BY <2>1, <2>2, <2>3, StrlenIs
  <2>5. QED
    BY <1>1, <2>4
<1>11. QED
  BY <1>3, <1>5, <1>6, <1>8, <1>9, <1>10 DEF n

LEMMA MinOfTwo ==
  ASSUME NEW n \in Nat, NEW l \in Nat
  PROVE  Min({n, l}) = IF n <= l THEN n ELSE l
<1> DEFINE T == {n, l}
<1>1. T \in SUBSET Nat /\ T # {} /\ n \in T /\ l \in T /\ \A x \in T : x = n \/ x = l
  OBVIOUS
<1> HIDE DEF T
<1>2. Min(T) \in T /\ \A y \in T : Min(T) <= y
  BY <1>1, MinIsLeast
<1>3. QED
  <2> DEFINE m == Min(T)
  <2>1. (m = n \/ m = l) /\ m <= n /\ m <= l
    BY <1>1, <1>2
  <2> HIDE DEF m
  <2>2. m = IF n <= l THEN n ELSE l
    BY <2>1
  <2>3. QED
    BY <2>2 DEF m, T

(* The first n characters of a string, or all of it. *)
LEMMA UpToIs ==
  ASSUME NEW S, NEW s \in Seq(S), NEW n \in Nat
  PROVE  /\ UpTo(n, s) \in Seq(S) /\ Len(UpTo(n, s)) = IF n <= Len(s) THEN n ELSE Len(s)
         /\ Len(UpTo(n, s)) \in Nat /\ Len(UpTo(n, s)) <= n /\ Len(UpTo(n, s)) <= Len(s)
         /\ \A i \in 1 .. Len(UpTo(n, s)) : UpTo(n, s)[i] = s[i]
<1> DEFINE w == Min({n, Len(s)})
<1>1. Len(s) \in Nat
  OBVIOUS
<1>2. w = IF n <= Len(s) THEN n ELSE Len(s)
  BY <1>1, MinOfTwo
<1>3. UpTo(n, s) = SubSeq(s, 1, w)
  BY DEF UpTo
<1> HIDE DEF w
<1>4. w \in 0 .. Len(s) /\ w \in Nat /\ w <= n
  BY <1>1, <1>2
<1>5. SubSeq(s, 1, w) \in Seq(S) /\ Len(SubSeq(s, 1, w)) = w /\ \A k \in 1 .. w : SubSeq(s, 1, w)[k] = s[k]
  BY <1>4, PrefixIs
<1>6. QED
  BY <1>1, <1>2, <1>3, <1>4, <1>5

LEMMA StrnlenIs ==
  ASSUME NEW b \in Plain, NEW n \in Nat
  PROVE  luna_strnlen(C(b), n) = IF n <= Len(b) THEN n ELSE Len(b)
<1> DEFINE s == C(b)
           l == Len(b)
           Stop(i) == i = n \/ At(s, i) = 0
           k == CHOOSE i \in 0 .. n : Stop(i) /\ \A j \in 0 .. i - 1 : ~Stop(j)
           e == IF n <= l THEN n ELSE l
<1>1. l \in Nat /\ At(s, l) = 0 /\ \A i \in 0 .. l - 1 : At(s, i) # 0
  <2>1. l \in Nat /\ At(s, l) = 0 /\ \A i \in 0 .. l - 1 : At(s, i) = b[i + 1] /\ b[i + 1] \in 1 .. 255
    BY Terminated
  <2> HIDE DEF l, s, k
  <2>2. \A i \in 0 .. l - 1 : At(s, i) # 0
    BY <2>1, NotNul
  <2>3. QED
    BY <2>1, <2>2
<1>2. luna_strnlen(s, n) = k
  BY DEF luna_strnlen, Scan, NUL
<1> HIDE DEF s, l
<1>3. e \in 0 .. n /\ Stop(e) /\ \A j \in 0 .. e - 1 : ~Stop(j)
  <2>1. e \in 0 .. n /\ e <= l /\ e \in Nat
    BY <1>1
  <2>2. Stop(e)
    BY <1>1
  <2>3. ASSUME NEW j \in 0 .. e - 1 PROVE ~Stop(j)
    <3>1. j \in 0 .. l - 1 /\ j # n
      BY <1>1, <2>1
    <3>2. QED
      BY <1>1, <3>1
  <2>4. QED
    BY <2>1, <2>2, <2>3
<1>4. k \in 0 .. n /\ Stop(k) /\ \A j \in 0 .. k - 1 : ~Stop(j)
  <2> HIDE DEF Stop, e
  <2>1. QED
    BY <1>3
<1> HIDE DEF k, e, Stop
<1>5. ~(k < e) /\ ~(e < k) /\ k \in Int /\ e \in Int
  BY <1>3, <1>4
<1>6. QED
  BY <1>2, <1>5 DEF e, s, l

(* A string stored behind what the buffer holds continues it. *)
LEMMA Written ==
  ASSUME NEW r \in Seq(Byte), NEW x \in Plain, NEW s \in Plain,
         \A i \in 1 .. Len(x) : r[i] = x[i], Len(x) + Len(s) < Len(r)
  PROVE  Str(Store(r, Len(x), C(s))) = x \o s
<1> DEFINE p == Len(x)
           l == Len(s)
           y == C(s)
           z == x \o s
           q == Store(r, p, y)
<1>1. p \in Nat /\ l \in Nat /\ Len(r) \in Nat
  BY Terminated
<1>2. z \in Plain /\ Len(z) = p + l /\ \A i \in 1 .. p + l : z[i] = IF i <= p THEN x[i] ELSE s[i - p]
  <2> DEFINE V == 1 .. 255
  <2>1. x \in Seq(V) /\ s \in Seq(V)
    BY DEF Plain
  <2> HIDE DEF V
  <2>2. z \in Seq(V) /\ Len(z) = p + l /\ \A i \in 1 .. p + l : z[i] = IF i <= p THEN x[i] ELSE s[i - p]
    BY <2>1, Joined
  <2>3. QED
    BY <2>2 DEF V, Plain
<1>3. /\ y \in Seq(Byte) /\ Len(y) = l + 1
      /\ \A i \in 0 .. l - 1 : y[i + 1] = s[i + 1]
      /\ y[l + 1] = 0
  BY Terminated DEF At
<1> HIDE DEF p, l, y, z
<1>4. /\ q \in Seq(Byte) /\ Len(q) = Len(r)
      /\ \A i \in 1 .. Len(r) : q[i] = IF p < i /\ i <= p + Len(y) THEN y[i - p] ELSE r[i]
  BY <1>1, <1>3, StoreBytes
<1> HIDE DEF q
<1>5. ASSUME NEW i \in 1 .. Len(z) PROVE q[i] = z[i]
  <2>1. i \in 1 .. p + l /\ i \in 1 .. Len(r) /\ p + l < Len(r)
    BY <1>1, <1>2 DEF p, l
  <2>2. CASE i <= p
    <3>1. q[i] = r[i]
      BY <1>1, <1>4, <2>1, <2>2
    <3>2. i \in 1 .. Len(x)
      BY <1>1, <2>1, <2>2 DEF p
    <3>3. QED
      BY <1>2, <2>1, <2>2, <3>1, <3>2
  <2>3. CASE ~(i <= p)
    <3>1. p < i /\ i <= p + Len(y) /\ i - p - 1 \in 0 .. l - 1 /\ (i - p - 1) + 1 = i - p
      BY <1>1, <1>3, <2>1, <2>3
    <3>2. q[i] = y[i - p]
      BY <1>4, <2>1, <3>1
    <3>3. y[i - p] = s[i - p]
      BY <1>3, <3>1
    <3>4. QED
      BY <1>2, <2>1, <2>3, <3>2, <3>3
  <2>4. QED
    BY <2>2, <2>3
<1>6. q[Len(z) + 1] = 0 /\ Len(z) < Len(q)
  <2>1. p + l < Len(r)
    BY DEF p, l
  <2> DEFINE e == p + l + 1
  <2>2. p < e /\ e <= p + Len(y) /\ e - p = l + 1 /\ e \in 1 .. Len(r) /\ Len(z) + 1 = e
    BY <1>1, <1>2, <1>3, <2>1
  <2> HIDE DEF e
  <2>3. q[e] = y[l + 1]
    BY <1>4, <2>2
  <2>4. QED
    BY <1>2, <1>3, <1>4, <2>1, <2>2, <2>3
<1>7. Str(q) = z
  BY <1>2, <1>4, <1>5, <1>6, StrIs
<1>8. QED
  BY <1>7 DEF q, z, y, p

LEMMA WholeString ==
  ASSUME NEW b \in Plain
  PROVE  SubSeq(C(b), 1, luna_strlen(C(b), 0) + 1) = C(b)
<1>1. luna_strlen(C(b), 0) = Len(b) /\ Len(C(b)) = Len(b) + 1 /\ C(b) \in Seq(Byte)
  BY LengthOfString, Terminated
<1>2. SubSeq(C(b), 1, Len(C(b))) = C(b)
  BY <1>1, SubSeqFull
<1>3. QED
  BY <1>1, <1>2

LEMMA StrcpyCopies ==
  ASSUME NEW a \in Plain, NEW b \in Plain, Len(a) <= MaxLen, Len(b) <= MaxLen
  PROVE  Str(luna_strcpy(Room(a), C(b))) = b
<1> DEFINE x == <<>>
           r == Room(a)
<1>1. luna_strcpy(r, C(b)) = Store(r, 0, C(b))
  BY WholeString DEF luna_strcpy
<1>2. r \in Seq(Byte) /\ Len(r) = 2 * MaxLen + 2
  BY RoomIs
<1> HIDE DEF r
<1>3. x \in Plain /\ Len(x) = 0 /\ x \o b = b
  BY ConcatEmptySeq DEF Plain
<1> HIDE DEF x
<1>4. Len(x) + Len(b) < Len(r) /\ \A i \in 1 .. Len(x) : r[i] = x[i]
  <2>1. Len(b) \in Nat /\ MaxLen \in Nat
    BY Terminated, TextAssumption
  <2>2. QED
    BY <1>2, <1>3, <2>1
<1>5. Str(Store(r, Len(x), C(b))) = x \o b
  BY <1>2, <1>3, <1>4, Written
<1>6. QED
  BY <1>1, <1>3, <1>5 DEF r

LEMMA StrcatAppends ==
  ASSUME NEW a \in Plain, NEW b \in Plain, Len(a) <= MaxLen, Len(b) <= MaxLen
  PROVE  Str(luna_strcat(Room(a), C(b))) = a \o b
<1> DEFINE r == Room(a)
<1>1. r \in Seq(Byte) /\ Len(r) = 2 * MaxLen + 2 /\ luna_strlen(r, 0) = Len(a) /\ \A i \in 1 .. Len(a) : r[i] = a[i]
  BY RoomIs
<1>2. luna_strcat(r, C(b)) = Store(r, luna_strlen(r, 0), C(b))
  BY WholeString DEF luna_strcat
<1> HIDE DEF r
<1>3. Len(a) + Len(b) < Len(r)
  <2>1. Len(a) \in Nat /\ Len(b) \in Nat /\ MaxLen \in Nat
    BY Terminated, TextAssumption
  <2>2. QED
    BY <1>1, <2>1
<1>4. QED
  BY <1>1, <1>2, <1>3, Written DEF r

(* Both the function and the definition cut the string at n characters. *)
LEMMA CutString ==
  ASSUME NEW b \in Plain, NEW n \in Nat
  PROVE  /\ SubSeq(C(b), 1, luna_strnlen(C(b), n)) = UpTo(n, b)
         /\ UpTo(n, b) \in Plain /\ Len(UpTo(n, b)) <= Len(b)
<1> DEFINE w == luna_strnlen(C(b), n)
           u == UpTo(n, b)
           q == SubSeq(C(b), 1, w)
           V == 1 .. 255
<1>1. Len(b) \in Nat /\ C(b) \in Seq(Byte) /\ Len(C(b)) = Len(b) + 1 /\ \A i \in 0 .. Len(b) - 1 : C(b)[i + 1] = b[i + 1]
  BY Terminated DEF At
<1>2. w = IF n <= Len(b) THEN n ELSE Len(b)
  BY StrnlenIs
<1>3. b \in Seq(V) /\ V \subseteq Byte
  BY NotNul DEF Plain
<1> HIDE DEF V
<1>4. u \in Seq(V) /\ Len(u) = (IF n <= Len(b) THEN n ELSE Len(b)) /\ \A i \in 1 .. Len(u) : u[i] = b[i]
  BY <1>3, UpToIs
<1>5. u \in Seq(Byte)
  BY <1>3, <1>4, SeqMonotonic
<1> HIDE DEF w, u
<1>6. w \in 0 .. Len(C(b)) /\ w \in 0 .. Len(b)
  BY <1>1, <1>2
<1>7. q \in Seq(Byte) /\ Len(q) = w /\ \A i \in 1 .. w : q[i] = C(b)[i]
  BY <1>1, <1>6, PrefixIs
<1> HIDE DEF q
<1>8. ASSUME NEW i \in 1 .. w PROVE q[i] = u[i]
  <2>1. i - 1 \in 0 .. Len(b) - 1 /\ (i - 1) + 1 = i
    BY <1>1, <1>6
  <2>2. C(b)[i] = b[i]
    BY <1>1, <2>1
  <2>3. QED
    BY <1>2, <1>4, <1>7, <2>2
<1>9. q = u
  BY <1>2, <1>4, <1>5, <1>7, <1>8, SeqEqual
<1>10. Len(u) <= Len(b) /\ u \in Plain
  BY <1>1, <1>4 DEF Plain, V
<1>11. QED
  BY <1>9, <1>10 DEF q, u, w

LEMMA StrncatAppends ==
  ASSUME NEW a \in Plain, NEW b \in Plain, Len(a) <= MaxLen, Len(b) <= MaxLen, NEW n \in Nat
  PROVE  Str(luna_strncat(Room(a), C(b), n)) = a \o UpTo(n, b)
<1> DEFINE r == Room(a)
           u == UpTo(n, b)
<1>1. r \in Seq(Byte) /\ Len(r) = 2 * MaxLen + 2 /\ luna_strlen(r, 0) = Len(a) /\ \A i \in 1 .. Len(a) : r[i] = a[i]
  BY RoomIs
<1>2. SubSeq(C(b), 1, luna_strnlen(C(b), n)) = u /\ u \in Plain /\ Len(u) <= Len(b)
  BY CutString
<1>3. luna_strncat(r, C(b), n) = Store(r, luna_strlen(r, 0), C(u))
  BY <1>2 DEF luna_strncat, C
<1> HIDE DEF r, u
<1>4. Len(a) + Len(u) < Len(r)
  <2>1. Len(a) \in Nat /\ Len(b) \in Nat /\ Len(u) \in Nat /\ MaxLen \in Nat
    BY <1>2, Terminated, TextAssumption
  <2>2. QED
    BY <1>1, <1>2, <2>1
<1>5. Str(Store(r, Len(a), C(u))) = a \o u
  BY <1>1, <1>2, <1>4, Written
<1>6. QED
  BY <1>1, <1>3, <1>5 DEF r, u

(* strncpy writes n bytes: the string, or its first n characters, then terminators. *)
LEMMA StrncpyFills ==
  ASSUME NEW a \in Plain, NEW b \in Plain, Len(a) <= MaxLen, Len(b) <= MaxLen, NEW n \in 0 .. MaxLen
  PROVE  LET out2 == luna_strncpy(Room(a), C(b), n)
         IN /\ IsPrefix(UpTo(n, C(b)), out2)
            /\ Len(b) < n => Str(out2) = b
            /\ \A i \in n + 1 .. Len(out2) : out2[i] = Room(a)[i]
<1> DEFINE r == Room(a)
           s == C(b)
           l == Len(b)
           k == luna_strnlen(s, n)
           f == [i \in 1 .. n |-> IF i <= k THEN s[i] ELSE 0]
           q == Store(r, 0, f)
           u == UpTo(n, s)
           v == SubSeq(q, 1, Len(u))
<1>1. r \in Seq(Byte) /\ Len(r) = 2 * MaxLen + 2
  BY RoomIs
<1>2. /\ l \in Nat /\ s \in Seq(Byte) /\ Len(s) = l + 1 /\ 0 \in Byte
      /\ \A i \in 0 .. l - 1 : s[i + 1] = b[i + 1]
      /\ s[l + 1] = 0
  BY Terminated DEF At, Byte
<1>3. n \in Nat /\ MaxLen \in Nat /\ n <= MaxLen
  BY TextAssumption
<1>4. k = IF n <= l THEN n ELSE l
  BY <1>3, StrnlenIs
<1>5. luna_strncpy(r, s, n) = q
  BY DEF luna_strncpy, NUL
<1>6. /\ u \in Seq(Byte) /\ Len(u) = (IF n <= Len(s) THEN n ELSE Len(s)) /\ Len(u) \in Nat
      /\ Len(u) <= n /\ Len(u) <= Len(s) /\ \A i \in 1 .. Len(u) : u[i] = s[i]
  BY <1>2, <1>3, UpToIs
<1> HIDE DEF r, s, l, k, u
<1>7. f \in Seq(Byte) /\ Len(f) = n /\ \A i \in 1 .. n : f[i] = IF i <= k THEN s[i] ELSE 0
  <2>1. ASSUME NEW i \in 1 .. n PROVE (IF i <= k THEN s[i] ELSE 0) \in Byte
    <3>1. i <= k => i \in 1 .. Len(s)
      BY <1>2, <1>3, <1>4
    <3>2. QED
      BY <1>2, <3>1, ElementOfSeq
  <2>2. f \in [1 .. n -> Byte]
    BY <2>1
  <2>3. \A i \in 1 .. n : f[i] = IF i <= k THEN s[i] ELSE 0
    OBVIOUS
  <2> HIDE DEF f
  <2>4. QED
    BY <1>3, <2>2, <2>3
<1> HIDE DEF f
<1>8. /\ q \in Seq(Byte) /\ Len(q) = Len(r)
      /\ \A i \in 1 .. Len(r) : q[i] = IF i <= n THEN f[i] ELSE r[i]
  <2> DEFINE z == 0
  <2>1. z \in Nat
    OBVIOUS
  <2> HIDE DEF z
  <2>2. /\ Store(r, z, f) \in Seq(Byte) /\ Len(Store(r, z, f)) = Len(r)
        /\ \A i \in 1 .. Len(r) : Store(r, z, f)[i] = IF z < i /\ i <= z + Len(f) THEN f[i - z] ELSE r[i]
    BY <1>1, <1>7, <2>1, StoreBytes
  <2>3. q = Store(r, z, f)
    BY DEF z
  <2> HIDE DEF q
  <2>4. ASSUME NEW i \in 1 .. Len(r) PROVE q[i] = IF i <= n THEN f[i] ELSE r[i]
    <3>1. (z < i /\ i <= z + Len(f) <=> i <= n) /\ i - z = i
      BY <1>7 DEF z
    <3>2. QED
      BY <2>2, <2>3, <3>1
  <2>5. QED
    BY <2>2, <2>3, <2>4
<1> HIDE DEF q
<1>9. ASSUME NEW i \in 1 .. Len(r), i <= n, i <= Len(s) PROVE q[i] = s[i]
  <2>1. q[i] = IF i <= k THEN s[i] ELSE 0
    BY <1>3, <1>7, <1>8, <1>9
  <2>2. ~(i <= k) => i = l + 1
    BY <1>2, <1>3, <1>4, <1>9
  <2>3. QED
    BY <1>2, <2>1, <2>2
<1>10. Len(u) <= Len(q) /\ SubSeq(u, 1, Len(u)) = v
  <2>1. Len(u) \in 0 .. Len(q)
    BY <1>1, <1>3, <1>6, <1>8
  <2>2. v \in Seq(Byte) /\ Len(v) = Len(u) /\ \A i \in 1 .. Len(u) : v[i] = q[i]
    BY <1>8, <2>1, PrefixIs
  <2> HIDE DEF v
  <2>3. ASSUME NEW i \in 1 .. Len(u) PROVE u[i] = v[i]
    <3>1. i \in 1 .. Len(r) /\ i <= n /\ i <= Len(s)
      BY <1>1, <1>2, <1>3, <1>6, <1>8, <2>1
    <3>2. QED
      BY <1>6, <1>9, <2>2, <3>1
  <2>4. u = v
    BY <1>6, <2>2, <2>3, SeqEqual
  <2>5. SubSeq(u, 1, Len(u)) = u
    BY <1>6, SubSeqFull
  <2>6. QED
    BY <1>1, <1>3, <1>6, <1>8, <2>1, <2>4, <2>5
<1>11. IsPrefix(u, q)
  BY <1>10 DEF IsPrefix, v
<1>12. ASSUME l < n PROVE Str(q) = b
  <2>1. Len(b) < Len(q)
    BY <1>1, <1>2, <1>3, <1>8, <1>12 DEF l
  <2>2. ASSUME NEW i \in 1 .. Len(b) PROVE q[i] = b[i]
    <3>1. i \in 1 .. Len(r) /\ i <= n /\ i <= Len(s) /\ i - 1 \in 0 .. l - 1 /\ (i - 1) + 1 = i
      BY <1>1, <1>2, <1>3, <1>12 DEF l
    <3>2. QED
      BY <1>2, <1>9, <3>1
  <2>3. q[Len(b) + 1] = 0
    <3>1. l + 1 \in 1 .. Len(r) /\ l + 1 <= n /\ l + 1 <= Len(s)
      BY <1>1, <1>2, <1>3, <1>12
    <3>2. q[l + 1] = s[l + 1]
      BY <1>9, <3>1
    <3>3. QED
      BY <1>2, <3>2 DEF l
  <2>4. QED
    BY <1>8, <2>1, <2>2, <2>3, StrIs
<1>13. ASSUME NEW i \in n + 1 .. Len(q) PROVE q[i] = r[i]
  <2>1. i \in 1 .. Len(r) /\ ~(i <= n)
    BY <1>1, <1>3, <1>8
  <2>2. QED
    BY <1>8, <2>1
<1>14. QED
  BY <1>5, <1>11, <1>12, <1>13 DEF r, s, u, l
-----------------------------------------------------------------------------
(* Comparing. *)

LEMMA Character ==
  ASSUME NEW a \in Plain, NEW i \in 0 .. Len(a)
  PROVE  /\ At(C(a), i) \in Int /\ At(C(a), i) >= 0 /\ (At(C(a), i) = 0 <=> i = Len(a))
         /\ i # Len(a) => At(C(a), i) = a[i + 1] /\ i + 1 \in 1 .. Len(a)
<1> DEFINE u == At(C(a), i)
<1>1. /\ Len(a) \in Nat /\ At(C(a), Len(a)) = 0 /\ u \in Byte
      /\ \A j \in 0 .. Len(a) - 1 : At(C(a), j) = a[j + 1] /\ a[j + 1] \in 1 .. 255
  BY Terminated
<1> HIDE DEF u
<1>2. u \in Int /\ u >= 0
  BY <1>1 DEF Byte
<1>3. CASE i = Len(a)
  BY <1>1, <1>2, <1>3 DEF u
<1>4. CASE i # Len(a)
  <2>1. i \in 0 .. Len(a) - 1 /\ i + 1 \in 1 .. Len(a)
    BY <1>1, <1>4
  <2>2. u = a[i + 1] /\ u \in 1 .. 255
    BY <1>1, <2>1 DEF u
  <2>3. u # 0
    BY <2>2, NotNul
  <2>4. QED
    BY <1>2, <1>4, <2>1, <2>2, <2>3 DEF u
<1>5. QED
  BY <1>3, <1>4

(* A scan that met no terminator is still inside the string. *)
LEMMA StillInside ==
  ASSUME NEW a \in Plain, NEW k \in Nat, \A j \in 0 .. k - 1 : At(C(a), j) # 0
  PROVE  k \in 0 .. Len(a)
<1>1. Len(a) \in Nat /\ At(C(a), Len(a)) = 0
  BY Terminated
<1>2. Len(a) \notin 0 .. k - 1
  BY <1>1
<1>3. QED
  BY <1>1, <1>2

LEMMA StartsWith ==
  ASSUME NEW S, NEW x \in Seq(S), NEW y \in Seq(S), NEW k \in 0 .. Len(x)
  PROVE  IsPrefix(SubSeq(x, 1, k), y) <=> k <= Len(y) /\ \A i \in 1 .. k : x[i] = y[i]
<1> DEFINE p == SubSeq(x, 1, k)
           q == SubSeq(y, 1, k)
<1>1. Len(x) \in Nat /\ Len(y) \in Nat /\ k \in Nat
  OBVIOUS
<1>2. p \in Seq(S) /\ Len(p) = k /\ \A i \in 1 .. k : p[i] = x[i]
  BY PrefixIs
<1> HIDE DEF p
<1>3. SubSeq(p, 1, k) = p
  BY <1>2, SubSeqFull
<1>4. IsPrefix(p, y) <=> k <= Len(y) /\ p = q
  BY <1>2, <1>3 DEF IsPrefix
<1>5. ASSUME k <= Len(y) PROVE p = q <=> \A i \in 1 .. k : x[i] = y[i]
  <2>1. k \in 0 .. Len(y)
    BY <1>1, <1>5
  <2>2. q \in Seq(S) /\ Len(q) = k /\ \A i \in 1 .. k : q[i] = y[i]
    BY <2>1, PrefixIs
  <2> HIDE DEF q
  <2>3. ASSUME \A i \in 1 .. k : x[i] = y[i] PROVE p = q
    BY <1>2, <2>2, <2>3, SeqEqual
  <2>4. ASSUME p = q PROVE \A i \in 1 .. k : x[i] = y[i]
    BY <1>2, <2>2, <2>4
  <2>5. QED
    BY <2>3, <2>4
<1>6. QED
  BY <1>4, <1>5 DEF p

(* The order of strings, character by character. *)
LEMMA LessIs ==
  ASSUME NEW x \in Plain, NEW y \in Plain
  PROVE  Less(x, y) <=> \E k \in 0 .. Len(x) : /\ \A i \in 1 .. k : x[i] = y[i]
                                               /\ k < Len(y) /\ (k = Len(x) \/ x[k + 1] < y[k + 1])
<1> DEFINE V == 1 .. 255
<1>1. x \in Seq(V) /\ y \in Seq(V) /\ Len(x) \in Nat /\ Len(y) \in Nat
  BY DEF Plain
<1> HIDE DEF V
<1>2. \A k \in 0 .. Len(x) : IsPrefix(SubSeq(x, 1, k), y) <=> k <= Len(y) /\ \A i \in 1 .. k : x[i] = y[i]
  BY <1>1, StartsWith
<1>3. \A k \in 0 .. Len(x) : k < Len(y) => k <= Len(y)
  BY <1>1
<1>4. QED
  BY <1>2, <1>3 DEF Less

(* k is the first position where a scan of both strings stops. *)
Diverge(x, y, k) ==
  /\ k \in Nat /\ (At(C(x), k) = 0 \/ At(C(x), k) # At(C(y), k))
  /\ \A j \in 0 .. k - 1 : At(C(x), j) # 0 /\ At(C(x), j) = At(C(y), j)

LEMMA DivergeInside ==
  ASSUME NEW x \in Plain, NEW y \in Plain, NEW k, Diverge(x, y, k)
  PROVE  /\ k \in 0 .. Len(x) /\ k \in 0 .. Len(y) /\ Len(x) \in Nat /\ Len(y) \in Nat
         /\ \A i \in 1 .. k : x[i] = y[i]
<1>1. k \in Nat /\ (\A j \in 0 .. k - 1 : At(C(x), j) # 0) /\ (\A j \in 0 .. k - 1 : At(C(y), j) # 0)
  BY DEF Diverge
<1>2. k \in 0 .. Len(x) /\ k \in 0 .. Len(y)
  BY <1>1, StillInside
<1>3. Len(x) \in Nat /\ Len(y) \in Nat
  BY Terminated
<1>4. ASSUME NEW i \in 1 .. k PROVE x[i] = y[i]
  <2> DEFINE j == i - 1
  <2>1. j \in 0 .. k - 1 /\ j \in 0 .. Len(x) /\ j \in 0 .. Len(y) /\ j # Len(x) /\ j # Len(y) /\ j + 1 = i
    BY <1>1, <1>2, <1>3
  <2> HIDE DEF j
  <2>2. At(C(x), j) = x[j + 1] /\ At(C(y), j) = y[j + 1]
    BY <2>1, Character
  <2>3. QED
    BY <2>1, <2>2 DEF Diverge
<1>5. QED
  BY <1>2, <1>3, <1>4

(* The difference of the characters there has the sign of the comparison. *)
LEMMA DivergeSign ==
  ASSUME NEW x \in Plain, NEW y \in Plain, NEW k, Diverge(x, y, k)
  PROVE  Sign(At(C(x), k) - At(C(y), k), x, y)
<1> DEFINE u == At(C(x), k)
           w == At(C(y), k)
<1>1. /\ k \in 0 .. Len(x) /\ k \in 0 .. Len(y) /\ Len(x) \in Nat /\ Len(y) \in Nat
      /\ \A i \in 1 .. k : x[i] = y[i]
  BY DivergeInside
<1>2. /\ u \in Int /\ u >= 0 /\ (u = 0 <=> k = Len(x)) /\ (k # Len(x) => u = x[k + 1])
      /\ w \in Int /\ w >= 0 /\ (w = 0 <=> k = Len(y)) /\ (k # Len(y) => w = y[k + 1])
  BY <1>1, Character
<1>3. u = 0 \/ u # w
  BY DEF Diverge
<1> HIDE DEF u, w
<1>4. u = w <=> x = y
  <2>1. ASSUME u = w PROVE x = y
    <3>1. k = Len(x) /\ k = Len(y)
      BY <1>2, <1>3, <2>1
    <3>2. x \in Seq(1 .. 255) /\ y \in Seq(1 .. 255)
      BY DEF Plain
    <3>3. QED
      BY <1>1, <3>1, <3>2, SeqEqual
  <2>2. ASSUME x = y PROVE u = w
    BY <2>2 DEF u, w
  <2>3. QED
    BY <2>1, <2>2
<1>5. ASSUME u < w PROVE Less(x, y)
  <2>1. w # 0 /\ k # Len(y) /\ k < Len(y)
    BY <1>1, <1>2, <1>5
  <2>2. k = Len(x) \/ x[k + 1] < y[k + 1]
    BY <1>2, <1>5, <2>1
  <2>3. QED
    BY <1>1, <2>1, <2>2, LessIs
<1>6. ASSUME Less(x, y) PROVE u < w
  <2>1. PICK m \in 0 .. Len(x) : /\ \A i \in 1 .. m : x[i] = y[i]
                                 /\ m < Len(y) /\ (m = Len(x) \/ x[m + 1] < y[m + 1])
    BY <1>6, LessIs
  <2>2. ~(m < k)
    <3>1. SUFFICES ASSUME m < k PROVE FALSE
      OBVIOUS
    <3>2. m \in 0 .. k - 1 /\ m # Len(x) /\ m + 1 \in 1 .. k /\ m \in 0 .. Len(x)
      BY <1>1, <3>1
    <3>3. x[m + 1] = y[m + 1] /\ x[m + 1] < y[m + 1]
      BY <1>1, <2>1, <3>2
    <3>4. x[m + 1] \in Int
      <4>1. At(C(x), m) \in Int /\ At(C(x), m) = x[m + 1]
        BY <3>2, Character
      <4>2. QED
        BY <4>1
    <3>5. QED
      BY <3>3, <3>4
  <2>3. ~(k < m)
    <3>1. SUFFICES ASSUME k < m PROVE FALSE
      OBVIOUS
    <3>2. k # Len(x) /\ k # Len(y) /\ k + 1 \in 1 .. m
      BY <1>1, <2>1, <3>1
    <3>3. u = w /\ u # 0
      BY <1>2, <2>1, <3>2
    <3>4. QED
      BY <1>3, <3>3
  <2>4. m = k
    BY <1>1, <2>1, <2>2, <2>3
  <2>5. k # Len(y)
    BY <1>1, <2>1, <2>4
  <2>6. CASE k = Len(x)
    BY <1>2, <2>5, <2>6
  <2>7. CASE k # Len(x)
    BY <1>2, <2>1, <2>4, <2>5, <2>7
  <2>8. QED
    BY <2>6, <2>7
<1>7. (u - w = 0 <=> x = y) /\ (u - w < 0 <=> Less(x, y))
  <2> DEFINE less == Less(x, y)
             same == x = y
  <2>1. (u = w <=> same) /\ (u < w <=> less)
    BY <1>4, <1>5, <1>6
  <2> HIDE DEF less, same
  <2>2. (u - w = 0 <=> u = w) /\ (u - w < 0 <=> u < w)
    BY <1>2
  <2>3. QED
    BY <2>1, <2>2 DEF less, same
<1>8. QED
  BY <1>7 DEF Sign, u, w

LEMMA StrcmpSigns ==
  ASSUME NEW a \in Plain, NEW b \in Plain
  PROVE  Sign(luna_strcmp(C(a), C(b)), a, b)
<1> DEFINE n == Len(a)
           x == C(a)
           y == C(b)
           Stop(i) == At(x, i) = 0 \/ At(x, i) # At(y, i)
           T == {i \in 0 .. n : Stop(i)}
           k == CHOOSE i \in 0 .. n : Stop(i) /\ \A j \in 0 .. i - 1 : ~Stop(j)
<1>1. n \in Nat /\ Len(x) - 1 = n /\ At(x, n) = 0
  <2>1. Len(x) = n + 1 /\ n \in Nat /\ At(x, n) = 0
    BY Terminated
  <2> HIDE DEF n, x
  <2>2. QED
    BY <2>1
<1> HIDE DEF n, x, y
<1>2. luna_strcmp(x, y) = At(x, k) - At(y, k)
  <2> DEFINE m == Len(x) - 1
             e == CHOOSE i \in 0 .. m : Stop(i) /\ \A j \in 0 .. i - 1 : ~Stop(j)
  <2>1. luna_strcmp(x, y) = At(x, e) - At(y, e)
    BY DEF luna_strcmp, Scan, NUL
  <2>2. m = n
    BY <1>1
  <2>3. e = k
    <3> HIDE DEF m, Stop
    <3>1. QED
      BY <2>2
  <2> HIDE DEF e, k
  <2>4. QED
    BY <2>1, <2>3
<1>3. \E i \in 0 .. n : i \in T /\ \A j \in 0 .. i - 1 : j \notin T
  <2>1. n \in T /\ T \in SUBSET (0 .. n)
    BY <1>1
  <2> HIDE DEF T, k
  <2>2. QED
    BY <1>1, <2>1, FirstIn
<1>4. \E i \in 0 .. n : Stop(i) /\ \A j \in 0 .. i - 1 : ~Stop(j)
  <2> HIDE DEF Stop
  <2>1. QED
    BY <1>1, <1>3
<1>5. k \in 0 .. n /\ Stop(k) /\ \A j \in 0 .. k - 1 : ~Stop(j)
  BY <1>4
<1> HIDE DEF k
<1>6. Diverge(a, b, k)
  BY <1>1, <1>5 DEF Diverge, x, y
<1>7. QED
  BY <1>2, <1>6, DivergeSign DEF x, y

(* Cutting a string at n characters keeps the ones before. *)
LEMMA CutCharacter ==
  ASSUME NEW a \in Plain, NEW n \in Nat, NEW i \in 0 .. Len(a), i < n
  PROVE  UpTo(n, a) \in Plain /\ At(C(UpTo(n, a)), i) = At(C(a), i)
<1> DEFINE u == UpTo(n, a)
           V == 1 .. 255
<1>1. a \in Seq(V) /\ Len(a) \in Nat
  BY DEF Plain
<1> HIDE DEF V
<1>2. /\ u \in Seq(V) /\ Len(u) = (IF n <= Len(a) THEN n ELSE Len(a)) /\ Len(u) \in Nat
      /\ \A j \in 1 .. Len(u) : u[j] = a[j]
  BY <1>1, UpToIs
<1>3. u \in Plain
  BY <1>2 DEF Plain, V
<1> HIDE DEF u
<1>4. i \in 0 .. Len(u) /\ (i = Len(u) <=> i = Len(a)) /\ (i # Len(u) => i + 1 \in 1 .. Len(u))
  BY <1>1, <1>2
<1>5. At(C(u), i) = 0 <=> i = Len(u)
  BY <1>3, <1>4, Character
<1>6. At(C(a), i) = 0 <=> i = Len(a)
  BY Character
<1>7. i # Len(u) => At(C(u), i) = u[i + 1]
  BY <1>3, <1>4, Character
<1>8. i # Len(a) => At(C(a), i) = a[i + 1]
  BY Character
<1>9. At(C(u), i) = At(C(a), i)
  BY <1>2, <1>4, <1>5, <1>6, <1>7, <1>8
<1>10. QED
  BY <1>3, <1>9 DEF u

LEMMA NotLessItself ==
  ASSUME NEW x \in Plain
  PROVE  ~Less(x, x)
<1>1. SUFFICES ASSUME Less(x, x) PROVE FALSE
  OBVIOUS
<1>2. PICK k \in 0 .. Len(x) : k < Len(x) /\ (k = Len(x) \/ x[k + 1] < x[k + 1])
  BY <1>1, LessIs
<1>3. Len(x) \in Nat
  BY Terminated
<1>4. k # Len(x)
  BY <1>2, <1>3
<1>5. At(C(x), k) = x[k + 1] /\ At(C(x), k) \in Int
  BY <1>4, Character
<1>6. QED
  BY <1>2, <1>4, <1>5

(* strncmp decides by what differs before the last of its n characters. *)
LEMMA StrncmpSigns ==
  ASSUME NEW a \in Plain, NEW b \in Plain, NEW n \in Nat \ {0},
         a = b \/ UpTo(n - 1, C(a)) # UpTo(n - 1, C(b))
  PROVE  Sign(luna_strncmp(C(a), C(b), n), UpTo(n, a), UpTo(n, b))
<1> DEFINE x == C(a)
           y == C(b)
           Stop(i) == i = n \/ At(x, i) = 0 \/ At(x, i) # At(y, i)
           T == {i \in 0 .. n : Stop(i)}
           k == CHOOSE i \in 0 .. n : Stop(i) /\ \A j \in 0 .. i - 1 : ~Stop(j)
           v == luna_strncmp(x, y, n)
<1>1. v = IF k = n - 1 THEN 0 ELSE At(x, k) - At(y, k)
  BY DEF luna_strncmp, Scan, NUL
<1> HIDE DEF x, y, v
<1>2. \E i \in 0 .. n : i \in T /\ \A j \in 0 .. i - 1 : j \notin T
  <2>1. n \in T /\ T \in SUBSET (0 .. n)
    OBVIOUS
  <2> HIDE DEF T, k
  <2>2. QED
    BY <2>1, FirstIn
<1>3. \E i \in 0 .. n : Stop(i) /\ \A j \in 0 .. i - 1 : ~Stop(j)
  <2> HIDE DEF Stop
  <2>1. QED
    BY <1>2
<1>4. k \in 0 .. n /\ Stop(k) /\ \A j \in 0 .. k - 1 : ~Stop(j)
  BY <1>3
<1> HIDE DEF k
<1>5. /\ k \in Nat /\ \A j \in 0 .. k - 1 : At(x, j) # 0 /\ At(x, j) = At(y, j)
  BY <1>4
<1>6. k \in 0 .. Len(a) /\ k \in 0 .. Len(b) /\ Len(a) \in Nat /\ Len(b) \in Nat
  <2>1. (\A j \in 0 .. k - 1 : At(C(a), j) # 0) /\ (\A j \in 0 .. k - 1 : At(C(b), j) # 0)
    BY <1>5 DEF x, y
  <2>2. QED
    BY <1>5, <2>1, StillInside, Terminated
<1> DEFINE p == UpTo(n, a)
           q == UpTo(n, b)
<1>7. CASE a = b
  <2>1. v = 0
    <3>1. At(x, k) = At(y, k) /\ At(x, k) \in Int
      BY <1>6, <1>7, Character DEF x, y
    <3>2. QED
      BY <1>1, <3>1
  <2>2. p = q /\ p \in Plain
    BY <1>7, CutString
  <2> HIDE DEF p, q
  <2>3. ~Less(p, q)
    BY <2>2, NotLessItself
  <2>4. Sign(v, p, q)
    BY <2>1, <2>2, <2>3 DEF Sign
  <2>5. QED
    BY <2>4 DEF p, q, v, x, y
<1>8. CASE a # b
  <2> DEFINE m == n - 1
  <2>1. m \in Nat /\ m < n
    OBVIOUS
  <2> HIDE DEF m
  <2>2. k < m
    <3>1. SUFFICES ASSUME ~(k < m) PROVE FALSE
      OBVIOUS
    <3>2. x \in Seq(Byte) /\ y \in Seq(Byte) /\ Len(x) = Len(a) + 1 /\ Len(y) = Len(b) + 1
      BY Terminated DEF x, y
    <3>3. m <= Len(x) /\ m <= Len(y)
      BY <1>6, <2>1, <3>1, <3>2
    <3> DEFINE s == UpTo(m, x)
               t == UpTo(m, y)
    <3>4. /\ s \in Seq(Byte) /\ Len(s) = m /\ \A i \in 1 .. m : s[i] = x[i]
          /\ t \in Seq(Byte) /\ Len(t) = m /\ \A i \in 1 .. m : t[i] = y[i]
      BY <2>1, <3>2, <3>3, UpToIs
    <3>5. s # t
      BY <1>8 DEF m, x, y
    <3> HIDE DEF s, t
    <3>6. ASSUME NEW i \in 1 .. m PROVE s[i] = t[i]
      <4>1. i - 1 \in 0 .. k - 1 /\ (i - 1) + 1 = i
        BY <1>5, <2>1, <3>1
      <4>2. x[i] = y[i]
        BY <1>5, <4>1 DEF At
      <4>3. QED
        BY <3>4, <4>2
    <3>7. s = t
      BY <3>4, <3>6, SeqEqual
    <3>8. QED
      BY <3>5, <3>7
  <2>3. k # n /\ k # n - 1 /\ \A j \in 0 .. k : j < n /\ j \in 0 .. Len(a) /\ j \in 0 .. Len(b)
    BY <1>5, <1>6, <2>1, <2>2 DEF m
  <2>4. v = At(x, k) - At(y, k)
    BY <1>1, <2>3
  <2>5. \A j \in 0 .. k : At(C(p), j) = At(x, j) /\ At(C(q), j) = At(y, j)
    BY <2>3, CutCharacter DEF x, y
  <2>6. p \in Plain /\ q \in Plain
    BY CutString
  <2> HIDE DEF p, q
  <2>7. Diverge(p, q, k)
    <3>1. k \in 0 .. k /\ \A j \in 0 .. k - 1 : j \in 0 .. k
      BY <1>5
    <3>2. At(x, k) = 0 \/ At(x, k) # At(y, k)
      BY <1>4, <2>3
    <3>3. QED
      BY <1>5, <2>5, <3>1, <3>2 DEF Diverge
  <2>8. Sign(At(C(p), k) - At(C(q), k), p, q)
    BY <2>6, <2>7, DivergeSign
  <2>9. At(C(p), k) = At(x, k) /\ At(C(q), k) = At(y, k)
    <3>1. k \in 0 .. k
      BY <1>5
    <3>2. QED
      BY <2>5, <3>1
  <2>10. QED
    BY <2>4, <2>8, <2>9 DEF v, x, y, p, q
<1>9. QED
  BY <1>7, <1>8

(* strcasecmp finds no difference exactly between strings that are equal in lower case. *)
LEMMA StrcasecmpFolds ==
  ASSUME NEW a \in Plain, NEW b \in Plain
  PROVE  luna_strcasecmp(C(a), C(b)) = 0 <=> Folded(a) = Folded(b)
<1> DEFINE n == Len(a)
           x == C(a)
           y == C(b)
           Nul(i) == NUL \in {At(x, i), At(y, i)}
           Stop(i) == Nul(i) \/ Lower(At(x, i)) # Lower(At(y, i))
           T == {i \in 0 .. n : Stop(i)}
           k == CHOOSE i \in 0 .. n : Stop(i) /\ \A j \in 0 .. i - 1 : ~Stop(j)
           v == luna_strcasecmp(x, y)
<1>1. n \in Nat /\ Len(x) - 1 = n /\ At(x, n) = NUL
  <2>1. Len(x) = n + 1 /\ n \in Nat /\ At(x, n) = 0
    BY Terminated
  <2> HIDE DEF n, x
  <2>2. QED
    BY <2>1 DEF NUL
<1> HIDE DEF n, x, y
<1>2. v = IF Nul(k) THEN At(x, k) - At(y, k) ELSE Lower(At(x, k)) - Lower(At(y, k))
  <2> DEFINE m == Len(x) - 1
             e == CHOOSE i \in 0 .. m : Stop(i) /\ \A j \in 0 .. i - 1 : ~Stop(j)
  <2>1. v = IF Nul(e) THEN At(x, e) - At(y, e) ELSE Lower(At(x, e)) - Lower(At(y, e))
    BY DEF luna_strcasecmp, Scan
  <2>2. m = n
    BY <1>1
  <2>3. e = k
    <3> HIDE DEF m, Stop
    <3>1. QED
      BY <2>2
  <2> HIDE DEF e, k, v
  <2>4. QED
    BY <2>1, <2>3
<1>3. \E i \in 0 .. n : i \in T /\ \A j \in 0 .. i - 1 : j \notin T
  <2>1. n \in T /\ T \in SUBSET (0 .. n)
    BY <1>1
  <2> HIDE DEF T, k
  <2>2. QED
    BY <1>1, <2>1, FirstIn
<1>4. \E i \in 0 .. n : Stop(i) /\ \A j \in 0 .. i - 1 : ~Stop(j)
  <2> HIDE DEF Stop
  <2>1. QED
    BY <1>1, <1>3
<1>5. k \in 0 .. n /\ Stop(k) /\ \A j \in 0 .. k - 1 : ~Stop(j)
  BY <1>4
<1> HIDE DEF k, v
<1>6. ASSUME NEW j \in 0 .. k - 1
      PROVE  At(x, j) # 0 /\ At(y, j) # 0 /\ Lower(At(x, j)) = Lower(At(y, j))
  BY <1>5 DEF NUL
<1>7. k \in Nat /\ k \in 0 .. Len(a) /\ k \in 0 .. Len(b) /\ Len(a) \in Nat /\ Len(b) \in Nat
  <2>1. (\A j \in 0 .. k - 1 : At(C(a), j) # 0) /\ (\A j \in 0 .. k - 1 : At(C(b), j) # 0)
    BY <1>6 DEF x, y
  <2>2. k \in Nat
    BY <1>1, <1>5
  <2>3. QED
    BY <2>1, <2>2, StillInside, Terminated
<1> DEFINE u == At(x, k)
           w == At(y, k)
<1>8. /\ u \in Int /\ (u = 0 <=> k = Len(a)) /\ (k # Len(a) => u = a[k + 1] /\ k + 1 \in 1 .. Len(a))
      /\ w \in Int /\ (w = 0 <=> k = Len(b)) /\ (k # Len(b) => w = b[k + 1] /\ k + 1 \in 1 .. Len(b))
  BY <1>7, Character DEF x, y
<1> DEFINE f == Folded(a)
           g == Folded(b)
<1>9. /\ f = [i \in 1 .. Len(a) |-> Lower(a[i])] /\ g = [i \in 1 .. Len(b) |-> Lower(b[i])]
  BY <1>7 DEF Folded, Plain
<1>10. CASE Nul(k)
  <2>1. u = 0 \/ w = 0
    BY <1>10 DEF NUL
  <2>2. v = u - w
    BY <1>2, <1>10
  <2> HIDE DEF u, w
  <2>3. v = 0 <=> k = Len(a) /\ k = Len(b)
    <3>1. v = 0 <=> u = w
      BY <1>8, <2>2
    <3>2. u = w <=> u = 0 /\ w = 0
      BY <2>1
    <3>3. QED
      BY <1>8, <3>1, <3>2
  <2> HIDE DEF f, g
  <2>4. ASSUME k = Len(a), k = Len(b) PROVE f = g
    <3>1. ASSUME NEW i \in 1 .. k PROVE Lower(a[i]) = Lower(b[i])
      <4> DEFINE j == i - 1
      <4>1. j \in 0 .. k - 1 /\ j + 1 = i /\ j \in 0 .. Len(a) /\ j \in 0 .. Len(b) /\ j # Len(a) /\ j # Len(b)
        BY <1>7, <2>4
      <4> HIDE DEF j
      <4>2. At(x, j) = a[j + 1] /\ At(y, j) = b[j + 1]
        BY <4>1, Character DEF x, y
      <4>3. QED
        BY <1>6, <4>1, <4>2
    <3>2. QED
      BY <1>9, <2>4, <3>1
  <2>5. ASSUME f = g PROVE k = Len(a) /\ k = Len(b)
    <3>1. DOMAIN f = 1 .. Len(a) /\ DOMAIN g = 1 .. Len(b)
      BY <1>9
    <3>2. 1 .. Len(a) = 1 .. Len(b)
      BY <2>5, <3>1
    <3>3. Len(a) = Len(b)
      BY <1>7, <3>2
    <3>4. QED
      BY <1>8, <2>1, <3>3
  <2>6. QED
    BY <2>3, <2>4, <2>5 DEF f, g, v, x, y
<1>11. CASE ~Nul(k)
  <2>1. u # 0 /\ w # 0 /\ Lower(u) # Lower(w)
    BY <1>5, <1>11 DEF NUL
  <2>2. v = Lower(u) - Lower(w)
    BY <1>2, <1>11
  <2> HIDE DEF u, w
  <2>3. v # 0
    <3>1. Lower(u) \in Int /\ Lower(w) \in Int
      BY <1>8 DEF Lower
    <3>2. QED
      BY <2>1, <2>2, <3>1
  <2> HIDE DEF f, g
  <2>4. f # g
    <3>1. f[k + 1] = Lower(u) /\ g[k + 1] = Lower(w)
      BY <1>8, <1>9, <2>1
    <3>2. QED
      BY <2>1, <3>1
  <2>5. QED
    BY <2>3, <2>4 DEF f, g, v, x, y
<1>12. QED
  BY <1>10, <1>11

(* memcmp at an offset of the text finds no difference exactly where the needle occurs. *)
LEMMA MemcmpMatches ==
  ASSUME NEW h \in Plain, NEW s \in Plain, NEW p \in 0 .. Len(h)
  PROVE  luna_memcmp(C(h), p, C(s), Len(s)) = 0 <=> p \in Offsets(h, s)
<1> DEFINE n == Len(s)
           x == C(h)
           y == C(s)
           Stop(i) == i = n \/ At(x, p + i) # At(y, i)
           T == {i \in 0 .. n : Stop(i)}
           k == CHOOSE i \in 0 .. n : Stop(i) /\ \A j \in 0 .. i - 1 : ~Stop(j)
           v == luna_memcmp(x, p, y, n)
<1>1. n \in Nat /\ Len(h) \in Nat /\ p \in Nat
  <2>1. Len(h) \in Nat /\ Len(s) \in Nat
    BY Terminated
  <2>2. QED
    BY <2>1
<1>2. v = IF k = n THEN 0 ELSE At(x, p + k) - At(y, k)
  BY DEF luna_memcmp, Scan
<1> HIDE DEF n, x, y, v
<1>3. \E i \in 0 .. n : i \in T /\ \A j \in 0 .. i - 1 : j \notin T
  <2>1. n \in T /\ T \in SUBSET (0 .. n)
    BY <1>1
  <2> HIDE DEF T, k
  <2>2. QED
    BY <1>1, <2>1, FirstIn
<1>4. \E i \in 0 .. n : Stop(i) /\ \A j \in 0 .. i - 1 : ~Stop(j)
  <2> HIDE DEF Stop
  <2>1. QED
    BY <1>1, <1>3
<1>5. k \in 0 .. n /\ Stop(k) /\ \A j \in 0 .. k - 1 : ~Stop(j)
  BY <1>4
<1> HIDE DEF k
<1>6. k \in Nat /\ k <= n /\ (k = n \/ At(x, p + k) # At(y, k)) /\ \A j \in 0 .. k - 1 : At(x, p + j) = At(y, j)
  BY <1>1, <1>5
(* the needle has no terminator before its end *)
<1>7. \A j \in 0 .. n - 1 : At(y, j) = s[j + 1] /\ At(y, j) # 0 /\ At(y, j) \in Int
  <2>1. ASSUME NEW j \in 0 .. n - 1 PROVE j \in 0 .. Len(s) /\ j # Len(s)
    BY <1>1 DEF n
  <2>2. QED
    BY <2>1, Character DEF y
<1>8. p + k <= Len(h)
  <2>1. SUFFICES ASSUME ~(p + k <= Len(h)) PROVE FALSE
    OBVIOUS
  <2> DEFINE j == Len(h) - p
  <2>2. j \in 0 .. k - 1 /\ j \in 0 .. n - 1 /\ p + j = Len(h)
    BY <1>1, <1>6, <2>1
  <2> HIDE DEF j
  <2>3. At(x, Len(h)) = 0
    BY Terminated DEF x
  <2>4. QED
    BY <1>6, <1>7, <2>2, <2>3
<1>9. v = 0 <=> k = n
  <2>1. ASSUME k # n PROVE v # 0
    <3> DEFINE u == At(x, p + k)
               w == At(y, k)
               e == p + k
    <3>1. e \in 0 .. Len(h) /\ k \in 0 .. n - 1
      BY <1>1, <1>6, <1>8, <2>1
    <3>2. u \in Int
      <4> HIDE DEF e
      <4>1. At(x, e) \in Int
        BY <3>1, Character DEF x
      <4>2. QED
        BY <4>1 DEF e
    <3>3. w \in Int
      BY <1>7, <3>1
    <3>4. u # w
      BY <1>6, <2>1
    <3>5. v = u - w
      BY <1>2, <2>1
    <3> HIDE DEF u, w
    <3>6. QED
      BY <3>2, <3>3, <3>4, <3>5
  <2>2. QED
    BY <1>2, <2>1
<1> DEFINE q == SubSeq(h, p + 1, p + n)
<1>10. p \in Offsets(h, s) <=> p + n <= Len(h) /\ q = s
  <2>1. p \in 0 .. Len(h) - n <=> p + n <= Len(h)
    BY <1>1
  <2>2. p \in Offsets(h, s) <=> p \in 0 .. Len(h) - n /\ q = s
    BY DEF Offsets, n
  <2> HIDE DEF q
  <2>3. QED
    BY <2>1, <2>2
<1>11. ASSUME p + n <= Len(h)
       PROVE  q \in Seq(1 .. 255) /\ Len(q) = n /\ \A i \in 1 .. n : q[i] = h[p + i]
  <2> DEFINE V == 1 .. 255
  <2>1. h \in Seq(V)
    BY DEF Plain
  <2> HIDE DEF V
  <2>2. q \in Seq(V) /\ Len(q) = n /\ \A i \in 1 .. n : q[i] = h[p + i]
    BY <1>1, <1>11, <2>1, Piece
  <2>3. QED
    BY <2>2 DEF V
<1> HIDE DEF q
<1>12. ASSUME p + n <= Len(h), NEW j \in 0 .. n - 1
       PROVE  At(x, p + j) = h[p + (j + 1)] /\ j + 1 \in 1 .. n
  <2> DEFINE e == p + j
  <2>1. e \in 0 .. Len(h) /\ e # Len(h) /\ e + 1 = p + (j + 1) /\ j + 1 \in 1 .. n
    BY <1>1, <1>12
  <2> HIDE DEF e
  <2>2. At(x, e) = h[e + 1]
    BY <2>1, Character DEF x
  <2>3. QED
    BY <2>1, <2>2 DEF e
<1>13. ASSUME k = n PROVE p \in Offsets(h, s)
  <2>1. p + n <= Len(h)
    BY <1>8, <1>13
  <2>2. ASSUME NEW i \in 1 .. n PROVE q[i] = s[i]
    <3> DEFINE j == i - 1
    <3>1. j \in 0 .. n - 1 /\ j \in 0 .. k - 1 /\ j + 1 = i
      BY <1>1, <1>13
    <3> HIDE DEF j
    <3>2. At(x, p + j) = h[p + i] /\ At(y, j) = s[i]
      BY <1>7, <1>12, <2>1, <3>1
    <3>3. At(x, p + j) = At(y, j)
      BY <1>6, <3>1
    <3>4. QED
      BY <1>11, <2>1, <3>2, <3>3
  <2>3. s \in Seq(1 .. 255) /\ Len(s) = n
    BY DEF Plain, n
  <2>4. q = s
    BY <1>11, <2>1, <2>2, <2>3, SeqEqual
  <2>5. QED
    BY <1>10, <2>1, <2>4
<1>14. ASSUME p \in Offsets(h, s), k # n PROVE FALSE
  <2>1. p + n <= Len(h) /\ q = s
    BY <1>10, <1>14
  <2>2. k \in 0 .. n - 1
    BY <1>1, <1>6, <1>14
  <2>3. At(x, p + k) = h[p + (k + 1)] /\ k + 1 \in 1 .. n /\ At(y, k) = s[k + 1]
    BY <1>7, <1>12, <2>1, <2>2
  <2>4. q[k + 1] = h[p + (k + 1)]
    BY <1>11, <2>1, <2>3
  <2>5. QED
    BY <1>6, <1>14, <2>1, <2>3, <2>4
<1>15. QED
  BY <1>9, <1>13, <1>14 DEF v, x, y, n

LEMMA StrstrFinds ==
  ASSUME NEW a \in Plain, NEW b \in Plain
  PROVE  luna_strstr(C(a), C(b)) = First(Offsets(a, b))
<1> DEFINE n == Len(a)
           m == Len(b)
           x == C(a)
           O == Offsets(a, b)
           Stop(i) == At(x, i) = NUL \/ luna_memcmp(x, i, C(b), luna_strlen(C(b), 0)) = 0
           T == {i \in 0 .. n : Stop(i)}
           k == CHOOSE i \in 0 .. n : Stop(i) /\ \A j \in 0 .. i - 1 : ~Stop(j)
<1>1. n \in Nat /\ m \in Nat
  BY Terminated
<1>2. Len(x) - 1 = n
  <2>1. Len(x) = n + 1
    BY Terminated
  <2> HIDE DEF n, x
  <2>2. QED
    BY <1>1, <2>1
<1>3. At(C(b), 0) = NUL <=> m = 0
  <2> DEFINE z == 0
  <2>1. z \in 0 .. m
    BY <1>1
  <2> HIDE DEF z
  <2>2. At(C(b), z) = 0 <=> z = Len(b)
    BY <2>1, Character
  <2>3. QED
    BY <2>2 DEF z, NUL
<1>4. O \in SUBSET (0 .. n) /\ (m # 0 => n \notin O)
  <2>1. O \in SUBSET (0 .. n - m)
    BY DEF Offsets
  <2> HIDE DEF O, n, m
  <2>2. QED
    BY <1>1, <2>1
<1>5. CASE m = 0
  <2>1. luna_strstr(x, C(b)) = 0
    BY <1>3, <1>5 DEF luna_strstr
  <2>2. 0 \in O
    <3>1. b = <<>>
      BY <1>5 DEF Plain
    <3>2. SubSeq(a, 0 + 1, 0 + Len(b)) = <<>>
      BY <1>5 DEF Plain
    <3>3. 0 \in 0 .. Len(a) - Len(b)
      BY <1>1, <1>5
    <3>4. QED
      BY <3>1, <3>2, <3>3 DEF Offsets
  <2> HIDE DEF O
  <2>3. O \in SUBSET Nat /\ \A y \in O : 0 <= y
    BY <1>4
  <2>4. First(O) = 0
    BY <2>2, <2>3, FirstIs
  <2>5. QED
    BY <2>1, <2>4 DEF O
<1>6. CASE m # 0
  <2> HIDE DEF x, n, m
  <2>1. luna_strstr(x, C(b)) = IF At(x, k) = NUL THEN NULL ELSE k
    <3> DEFINE l == Len(x) - 1
               e == CHOOSE i \in 0 .. l : Stop(i) /\ \A j \in 0 .. i - 1 : ~Stop(j)
    <3>1. luna_strstr(x, C(b)) = IF At(x, e) = NUL THEN NULL ELSE e
      BY <1>3, <1>6 DEF luna_strstr, Scan
    <3>2. l = n
      BY <1>2
    <3>3. e = k
      <4> HIDE DEF l, Stop
      <4>1. QED
        BY <3>2
    <3> HIDE DEF e, k
    <3>4. QED
      BY <3>1, <3>3
  <2>2. ASSUME NEW i \in 0 .. n
        PROVE  (At(x, i) = NUL <=> i = n) /\ (Stop(i) <=> i = n \/ i \in O)
    <3>1. At(C(a), i) = 0 <=> i = Len(a)
      BY Character DEF n
    <3>2. luna_memcmp(C(a), i, C(b), Len(b)) = 0 <=> i \in Offsets(a, b)
      BY MemcmpMatches DEF n
    <3>3. luna_strlen(C(b), 0) = Len(b)
      BY LengthOfString
    <3>4. QED
      BY <3>1, <3>2, <3>3 DEF x, n, NUL
  <2> HIDE DEF O
  <2>3. n \in 0 .. n /\ n \in T /\ T \in SUBSET (0 .. n)
    <3> HIDE DEF Stop
    <3>1. n \in 0 .. n
      BY <1>1
    <3>2. QED
      BY <2>2, <3>1
  <2>4. \E i \in 0 .. n : i \in T /\ \A j \in 0 .. i - 1 : j \notin T
    <3> HIDE DEF T, k
    <3>1. QED
      BY <1>1, <2>3, FirstIn
  <2>5. \E i \in 0 .. n : Stop(i) /\ \A j \in 0 .. i - 1 : ~Stop(j)
    <3> HIDE DEF Stop
    <3>1. QED
      BY <1>1, <2>4
  <2> HIDE DEF Stop
  <2>6. k \in 0 .. n /\ Stop(k) /\ \A j \in 0 .. k - 1 : ~Stop(j)
    BY <2>5
  <2> HIDE DEF k
  <2>7. CASE k = n
    <3>1. O = {}
      <4>1. ASSUME NEW i \in O PROVE FALSE
        <5>1. i \in 0 .. n /\ i # n
          BY <1>4, <1>6
        <5>2. i \in 0 .. k - 1 /\ Stop(i)
          BY <1>1, <2>2, <2>7, <5>1
        <5>3. QED
          BY <2>6, <5>2
      <4>2. QED
        BY <4>1
    <3>2. First(O) = NULL
      BY <3>1 DEF First
    <3>3. At(x, k) = NUL
      BY <2>2, <2>3, <2>7
    <3>4. QED
      BY <2>1, <3>2, <3>3 DEF x, O
  <2>8. CASE k # n
    <3>1. k \in O /\ O \in SUBSET Nat
      BY <1>1, <1>4, <2>2, <2>6, <2>8
    <3>2. ASSUME NEW y \in O PROVE k <= y
      <4>1. y \in 0 .. n /\ Stop(y)
        BY <1>4, <2>2
      <4>2. QED
        BY <1>1, <2>6, <4>1
    <3>3. First(O) = k
      BY <3>1, <3>2, FirstIs
    <3>4. At(x, k) # NUL
      BY <2>2, <2>6, <2>8
    <3>5. QED
      BY <2>1, <3>3, <3>4 DEF x, O
  <2>9. QED
    BY <2>7, <2>8
<1>7. QED
  BY <1>5, <1>6

-----------------------------------------------------------------------------
(* luna_strcmp, luna_strncmp, luna_strcasecmp and luna_strstr decide as    *)
(* their definitions do, luna_strchr, luna_strrchr and luna_memchr find    *)
(* the first or the last occurrence, and the four copy functions leave the *)
(* string that was asked for in the buffer: for every pair of strings,     *)
(* every character and every count.                                        *)
THEOREM StringFunctionsAgree == Spec => []StringsAgree
<1>1. Init => StringsAgree
  BY DEF Init, StringsAgree
<1>2. StringsAgree /\ [Next]_vars => StringsAgree'
  <2> SUFFICES ASSUME StringsAgree, [Next]_vars PROVE StringsAgree'
    OBVIOUS
  <2> DEFINE call == in'
             r == out'
  <2>1. CASE Compare
    <3>1. PICK a \in Strings, b \in Strings, n \in 0 .. MaxLen :
            /\ op' = "compare" /\ call = <<a, b, n>>
            /\ r = <<luna_strcmp(C(a), C(b)), luna_strncmp(C(a), C(b), n), luna_strcasecmp(C(a), C(b)),
                     luna_strstr(C(a), C(b))>>
      BY <2>1 DEF Compare
    <3> HIDE DEF call, r
    <3>2. a \in Plain /\ b \in Plain /\ MaxLen \in Nat
      BY StringsArePlain
    <3>3. call[1] = a /\ call[2] = b /\ call[3] = n
      BY <3>1
    <3>4. Sign(r[1], a, b)
      BY <3>1, <3>2, StrcmpSigns
    <3>5. ASSUME n > 0, a = b \/ UpTo(n - 1, C(a)) # UpTo(n - 1, C(b))
          PROVE  Sign(r[2], UpTo(n, a), UpTo(n, b))
      <4>1. n \in Nat \ {0}
        BY <3>2, <3>5
      <4>2. r[2] = luna_strncmp(C(a), C(b), n)
        BY <3>1
      <4>3. QED
        BY <3>2, <3>5, <4>1, <4>2, StrncmpSigns
    <3>6. r[3] = 0 <=> Folded(a) = Folded(b)
      BY <3>1, <3>2, StrcasecmpFolds
    <3>7. r[4] = First(Offsets(a, b))
      BY <3>1, <3>2, StrstrFinds
    <3>8. op' = "compare" /\ in' = call /\ out' = r
      BY <3>1 DEF call, r
    <3>9. QED
      BY <3>3, <3>4, <3>5, <3>6, <3>7, <3>8 DEF StringsAgree
  <2>2. CASE Search
    <3>1. PICK a \in Strings, c \in Alphabet \cup {NUL} :
            /\ op' = "search" /\ call = <<a, c>>
            /\ r = <<luna_strchr(C(a), c), luna_strrchr(C(a), c), luna_memchr(a, c, Len(a))>>
      BY <2>2 DEF Search
    <3> HIDE DEF call, r
    <3>2. a \in Plain
      BY StringsArePlain
    <3>3. call[1] = a /\ call[2] = c
      BY <3>1
    <3>4. r[1] = First({i \in 0 .. Len(a) : At(C(a), i) = c})
      BY <3>1, <3>2, StrchrIs
    <3>5. r[2] = Max({NULL} \cup ({i \in 0 .. Len(a) : At(C(a), i) = c} \ {Len(a)}))
      BY <3>1, <3>2, StrrchrIs
    <3>6. r[3] = First({i \in 0 .. Len(a) : At(C(a), i) = c} \ {Len(a)})
      BY <3>1, <3>2, MemchrIs
    <3>7. op' = "search" /\ in' = call /\ out' = r
      BY <3>1 DEF call, r
    <3>8. QED
      BY <3>3, <3>4, <3>5, <3>6, <3>7 DEF StringsAgree
  <2>3. CASE Copy
    <3>1. PICK a \in Strings, b \in Strings, n \in 0 .. MaxLen :
            /\ op' = "copy" /\ call = <<a, b, n>>
            /\ r = <<luna_strcpy(Room(a), C(b)), luna_strncpy(Room(a), C(b), n),
                     luna_strcat(Room(a), C(b)), luna_strncat(Room(a), C(b), n)>>
      BY <2>3 DEF Copy
    <3> HIDE DEF call, r
    <3>2. a \in Plain /\ b \in Plain /\ Len(a) <= MaxLen /\ Len(b) <= MaxLen /\ n \in Nat
      BY StringsArePlain
    <3>3. call[1] = a /\ call[2] = b /\ call[3] = n
      BY <3>1
    <3>4. Str(r[1]) = b
      BY <3>1, <3>2, StrcpyCopies
    <3>5. /\ IsPrefix(UpTo(n, C(b)), r[2])
          /\ Len(b) < n => Str(r[2]) = b
          /\ \A i \in n + 1 .. Len(r[2]) : r[2][i] = Room(a)[i]
      BY <3>1, <3>2, StrncpyFills
    <3>6. Str(r[3]) = a \o b
      BY <3>1, <3>2, StrcatAppends
    <3>7. Str(r[4]) = a \o UpTo(n, b)
      BY <3>1, <3>2, StrncatAppends
    <3>8. op' = "copy" /\ in' = call /\ out' = r
      BY <3>1 DEF call, r
    <3>9. QED
      BY <3>3, <3>4, <3>5, <3>6, <3>7, <3>8 DEF StringsAgree
  <2>4. CASE Next /\ ~Compare /\ ~Search /\ ~Copy
    <3>1. op' \notin {"compare", "search", "copy"}
      BY <2>4 DEF Next, Memory, Tokenize, Lex, Format, Hash, Return
    <3>2. QED
      BY <3>1 DEF StringsAgree
  <2>5. CASE UNCHANGED vars
    <3>1. op' = op /\ in' = in /\ out' = out
      BY <2>5 DEF vars
    <3>2. QED
      BY <3>1 DEF StringsAgree
  <2>6. QED
    BY <2>1, <2>2, <2>3, <2>4, <2>5
<1>3. QED
  BY <1>1, <1>2, PTL DEF Spec
-----------------------------------------------------------------------------
(* Splitting lines. *)

LEMMA FirstFrom ==
  ASSUME NEW n \in Nat, NEW p \in 0 .. n, NEW T \in SUBSET (p .. n), T # {}
  PROVE  \E k \in p .. n : k \in T /\ \A j \in p .. k - 1 : j \notin T
<1>1. T \in SUBSET Nat
  OBVIOUS
<1>2. PICK k \in T : \A y \in T : k <= y
  BY <1>1, LeastElement
<1>3. k \in p .. n /\ \A j \in p .. k - 1 : j \notin T
  BY <1>2
<1>4. QED
  BY <1>3

LEMMA LexIsLoop ==
  ASSUME NEW b, NEW n
  PROVE  Turns(n, [pos |-> 0, toks |-> <<>>], LAMBDA l : lexer_next_token(b, l))
           = Loop(<<"lex", b>>, [pos |-> 0, toks |-> <<>>], n)[n]
<1>1. Turns(n, [pos |-> 0, toks |-> <<>>], LAMBDA l : lexer_next_token(b, l)) =
        (CHOOSE g : g = [i \in 0 .. n |-> IF i = 0 THEN [pos |-> 0, toks |-> <<>>] ELSE lexer_next_token(b, g[i - 1])])[n]
  BY DEF Turns
<1>2. \A x, i : Advance(<<"lex", b>>, x, i) = lexer_next_token(b, x)
  BY DEF Advance
<1>3. Loop(<<"lex", b>>, [pos |-> 0, toks |-> <<>>], n) =
        CHOOSE g : g = [i \in 0 .. n |-> IF i = 0 THEN [pos |-> 0, toks |-> <<>>] ELSE lexer_next_token(b, g[i - 1])]
  BY <1>2 DEF Loop
<1>4. QED
  BY <1>1, <1>3

LEMMA TokenizeIsLoop ==
  ASSUME NEW b
  PROVE  tokenize(b) = Loop(<<"tok">>, [t |-> NextToken(b, 0), argv |-> <<>>], MAX_ARGS - 1)[MAX_ARGS - 1]
<1> DEFINE x0 == [t |-> NextToken(b, 0), argv |-> <<>>]
           n == MAX_ARGS - 1
<1>1. tokenize(b) = (CHOOSE g : g = [i \in 0 .. n |-> IF i = 0 THEN x0 ELSE TokTurn(g[i - 1])])[n]
  BY DEF tokenize, Turns, TokTurn
<1> HIDE DEF x0, n
<1>2. \A x, i : Advance(<<"tok">>, x, i) = TokTurn(x)
  BY DEF Advance
<1>3. Loop(<<"tok">>, x0, n) = CHOOSE g : g = [i \in 0 .. n |-> IF i = 0 THEN x0 ELSE TokTurn(g[i - 1])]
  BY <1>2 DEF Loop
<1>4. QED
  BY <1>1, <1>3 DEF x0, n

Source == {97, SPACE, 10}
Typed == {97, SPACE, TAB}

LEMMA LinesArePlain ==
  /\ \A line \in BoundedSeq(Source, MaxLine) : line \in Seq(Source) /\ line \in Plain
  /\ \A line \in BoundedSeq(Typed, MaxLine) : line \in Seq(Typed) /\ line \in Plain
<1>1. Source \subseteq 1 .. 255 /\ Typed \subseteq 1 .. 255 /\ MaxLine \in Nat
  BY TextAssumption DEF Source, Typed, SPACE, TAB
<1>2. ASSUME NEW S, S \subseteq 1 .. 255, NEW line \in BoundedSeq(S, MaxLine)
      PROVE  line \in Seq(S) /\ line \in Plain
  <2>1. PICK m \in 0 .. MaxLine : line \in [1 .. m -> S]
    BY DEF BoundedSeq, SeqOf
  <2>2. m \in Nat
    BY <1>1
  <2>3. line \in Seq(S)
    BY <2>1, <2>2
  <2>4. line \in Seq(1 .. 255)
    BY <1>2, <2>3, SeqMonotonic
  <2>5. QED
    BY <2>3, <2>4 DEF Plain
<1>3. QED
  BY <1>1, <1>2

(* The lexer after some turns: it has the characters before pos that are not blank. *)
Token == [type : {"TOK_IDENT"}, char : Byte, line : {1}, col : Nat]

Lexed(line, l, turn) ==
  /\ l \in [pos : 0 .. Len(line), toks : Seq(Token)] /\ (l.pos = Len(line) \/ turn <= l.pos)
  /\ \A k \in 1 .. Len(l.toks) : /\ l.toks[k].col \in 1 .. l.pos /\ l.toks[k].char = line[l.toks[k].col]
                                 /\ l.toks[k].char # SPACE
                                 /\ k > 1 => l.toks[k - 1].col < l.toks[k].col
  /\ \A i \in 1 .. l.pos : line[i] = SPACE \/ \E k \in 1 .. Len(l.toks) : l.toks[k].col = i

LEMMA LexTurn ==
  ASSUME NEW line \in Seq(Source), line \in Plain, NEW turn \in Nat, NEW l, Lexed(line, l, turn)
  PROVE  Lexed(line, lexer_next_token(C(line), l), turn + 1)
<1> DEFINE b == C(line)
           n == Len(line)
           q == l.pos
           ts == l.toks
           Stop(i) == At(b, i) \notin {SPACE, TAB, 13}
           T == {i \in q .. n : Stop(i)}
           p == CHOOSE i \in q .. n : Stop(i) /\ \A j \in q .. i - 1 : ~Stop(j)
           tk == [type |-> "TOK_IDENT", char |-> At(b, p), line |-> 1, col |-> p + 1]
           res == lexer_next_token(b, l)
<1>1. /\ q \in 0 .. n /\ ts \in Seq(Token) /\ (q = n \/ turn <= q) /\ l = [pos |-> q, toks |-> ts]
      /\ \A k \in 1 .. Len(ts) : /\ ts[k].col \in 1 .. q /\ ts[k].char = line[ts[k].col]
                                 /\ ts[k].char # SPACE
                                 /\ k > 1 => ts[k - 1].col < ts[k].col
      /\ \A i \in 1 .. q : line[i] = SPACE \/ \E k \in 1 .. Len(ts) : ts[k].col = i
  BY DEF Lexed
<1>2. n \in Nat /\ At(b, n) = 0
  BY Terminated
<1>3. Len(b) - 1 = n
  <2>1. Len(b) = n + 1
    BY Terminated
  <2> HIDE DEF b, n
  <2>2. QED
    BY <1>2, <2>1
<1>4. \A i \in 0 .. n - 1 : At(b, i) = line[i + 1] /\ At(b, i) \in Source /\ At(b, i) \in Byte /\ At(b, i) # NUL
  <2>1. ASSUME NEW i \in 0 .. n - 1 PROVE i + 1 \in 1 .. n
    BY <1>2
  <2>2. \A i \in 0 .. n - 1 : line[i + 1] \in Source
    BY <2>1, ElementOfSeq
  <2>3. \A i \in 0 .. n - 1 : At(b, i) = line[i + 1] /\ line[i + 1] \in 1 .. 255
    BY Terminated
  <2> HIDE DEF b, n
  <2>4. QED
    BY <2>2, <2>3, NotNul DEF NUL
<1> HIDE DEF b, n
<1>5. res = IF At(b, p) = NUL THEN [l EXCEPT !.pos = p] ELSE [pos |-> p + 1, toks |-> Append(ts, tk)]
  <2> DEFINE m == Len(b) - 1
             e == CHOOSE i \in q .. m : Stop(i) /\ \A j \in q .. i - 1 : ~Stop(j)
  <2>1. res = IF At(b, e) = NUL THEN [l EXCEPT !.pos = e]
              ELSE [pos |-> e + 1, toks |-> Append(ts, [type |-> "TOK_IDENT", char |-> At(b, e), line |-> 1, col |-> e + 1])]
    BY DEF lexer_next_token, Scan
  <2>2. m = n
    BY <1>3
  <2>3. e = p
    <3> HIDE DEF m, Stop
    <3>1. QED
      BY <2>2
  <2> HIDE DEF e, p, res
  <2>4. QED
    BY <2>1, <2>3
<1> HIDE DEF q, ts, res
<1>6. \E i \in q .. n : Stop(i) /\ \A j \in q .. i - 1 : ~Stop(j)
  <2>1. n \in T /\ T \in SUBSET (q .. n)
    BY <1>1, <1>2 DEF SPACE, TAB
  <2>2. \E i \in q .. n : i \in T /\ \A j \in q .. i - 1 : j \notin T
    <3> HIDE DEF T, p
    <3>1. QED
      BY <1>1, <1>2, <2>1, FirstFrom
  <2> HIDE DEF Stop
  <2>3. QED
    BY <1>1, <1>2, <2>2
<1>7. p \in q .. n /\ Stop(p) /\ \A j \in q .. p - 1 : ~Stop(j)
  <2> HIDE DEF Stop
  <2>1. QED
    BY <1>6
<1> HIDE DEF p
(* what was skipped was blank *)
<1>8. ASSUME NEW i \in q + 1 .. p PROVE line[i] = SPACE
  <2> DEFINE j == i - 1
  <2>1. j \in q .. p - 1 /\ j \in 0 .. n - 1 /\ j + 1 = i
    BY <1>1, <1>2, <1>7
  <2> HIDE DEF j
  <2>2. At(b, j) \in {SPACE, TAB, 13} /\ At(b, j) \in Source /\ At(b, j) = line[i]
    BY <1>4, <1>7, <2>1
  <2>3. QED
    BY <2>2 DEF Source, SPACE, TAB
<1>9. p \in Nat /\ p <= n /\ q <= p
  BY <1>1, <1>2, <1>7
<1>10. CASE At(b, p) = NUL
  <2>1. p = n
    BY <1>2, <1>4, <1>9, <1>10
  <2>2. res = [pos |-> n, toks |-> ts]
    BY <1>1, <1>5, <1>10, <2>1
  <2>3. res.pos = n /\ res.toks = ts /\ res \in [pos : 0 .. n, toks : Seq(Token)]
    BY <1>1, <1>2, <2>2
  <2>4. \A k \in 1 .. Len(ts) : ts[k].col \in 1 .. n
    BY <1>1, <1>2
  <2>5. \A i \in 1 .. n : i \in 1 .. q \/ i \in q + 1 .. p
    BY <1>1, <1>2, <2>1
  <2>6. \A i \in 1 .. n : line[i] = SPACE \/ \E k \in 1 .. Len(ts) : ts[k].col = i
    BY <1>1, <1>8, <2>5
  <2>7. \A k \in 1 .. Len(ts) : /\ ts[k].col \in 1 .. n /\ ts[k].char = line[ts[k].col] /\ ts[k].char # SPACE
                                /\ k > 1 => ts[k - 1].col < ts[k].col
    BY <1>1, <2>4
  <2>8. Lexed(line, res, turn + 1)
    <3>1. \A k \in 1 .. Len(res.toks) :
            /\ res.toks[k].col \in 1 .. res.pos /\ res.toks[k].char = line[res.toks[k].col] /\ res.toks[k].char # SPACE
            /\ k > 1 => res.toks[k - 1].col < res.toks[k].col
      <4>1. res.pos = n /\ res.toks = ts
        BY <2>3
      <4>2. QED
        BY <4>1, <2>7, Zenon
    <3>2. \A i \in 1 .. res.pos : line[i] = SPACE \/ \E k \in 1 .. Len(res.toks) : res.toks[k].col = i
      BY <2>3, <2>6
    <3>3. res \in [pos : 0 .. Len(line), toks : Seq(Token)] /\ res.pos = Len(line)
      BY <2>3 DEF n
    <3>4. QED
      BY <3>1, <3>2, <3>3, Zenon DEF Lexed
  <2>9. QED
    BY <2>8 DEF res, b
<1>11. CASE At(b, p) # NUL
  <2>1. p # n /\ p \in 0 .. n - 1
    <3>1. p # n
      BY <1>2, <1>11 DEF NUL
    <3>2. QED
      BY <1>9, <1>2, <3>1
  <2>2. At(b, p) = line[p + 1] /\ At(b, p) \in Byte /\ At(b, p) # SPACE
    BY <1>4, <1>7, <2>1
  <2>3. tk \in Token /\ tk.col = p + 1 /\ tk.char = line[p + 1] /\ tk.char # SPACE
    BY <1>9, <2>2 DEF Token
  <2> HIDE DEF tk
  <2> DEFINE ts2 == Append(ts, tk)
             m == Len(ts)
  <2>4. ts2 \in Seq(Token) /\ Len(ts2) = m + 1 /\ m \in Nat /\ ts2[m + 1] = tk /\ \A k \in 1 .. m : ts2[k] = ts[k]
    BY <1>1, <2>3, AppendProperties
  <2>5. res.pos = p + 1 /\ res.toks = ts2 /\ res = [pos |-> p + 1, toks |-> ts2]
    BY <1>5, <1>11
  <2> HIDE DEF ts2, m
  <2>6. res \in [pos : 0 .. n, toks : Seq(Token)] /\ turn + 1 <= p + 1
    <3>1. p + 1 \in 0 .. n
      BY <1>2, <2>1
    <3>2. turn <= p
      BY <1>1, <1>2, <1>9, <2>1
    <3>3. QED
      BY <1>9, <2>4, <2>5, <3>1, <3>2
  <2>7. ASSUME NEW k \in 1 .. Len(ts2)
        PROVE  /\ ts2[k].col \in 1 .. p + 1 /\ ts2[k].char = line[ts2[k].col]
               /\ ts2[k].char # SPACE
               /\ k > 1 => ts2[k - 1].col < ts2[k].col
    <3>1. CASE k = m + 1
      <4>1. ts2[k] = tk
        BY <2>4, <3>1
      <4>2. ASSUME k > 1 PROVE ts2[k - 1].col < p + 1
        <5>1. k - 1 \in 1 .. m
          BY <2>4, <3>1, <4>2
        <5>2. ts2[k - 1] = ts[k - 1] /\ ts[k - 1].col \in 1 .. q
          BY <1>1, <2>4, <5>1 DEF m
        <5>3. QED
          BY <1>1, <1>9, <5>2
      <4>3. p + 1 \in 1 .. p + 1
        BY <1>9
      <4>4. QED
        BY <2>3, <4>1, <4>2, <4>3
    <3>2. CASE k # m + 1
      <4>1. k \in 1 .. m /\ (k > 1 => k - 1 \in 1 .. m)
        BY <2>4, <3>2
      <4>2. ts2[k] = ts[k] /\ (k > 1 => ts2[k - 1] = ts[k - 1])
        BY <2>4, <4>1
      <4>3. /\ ts[k].col \in 1 .. q /\ ts[k].char = line[ts[k].col] /\ ts[k].char # SPACE
            /\ k > 1 => ts[k - 1].col < ts[k].col
        BY <1>1, <4>1 DEF m
      <4>4. ts[k].col \in 1 .. p + 1
        BY <1>1, <1>9, <4>3
      <4>5. QED
        BY <4>2, <4>3, <4>4
    <3>3. QED
      BY <3>1, <3>2
  <2>8. ASSUME NEW i \in 1 .. p + 1
        PROVE  line[i] = SPACE \/ \E k \in 1 .. Len(ts2) : ts2[k].col = i
    <3>1. CASE i = p + 1
      <4>1. m + 1 \in 1 .. Len(ts2) /\ ts2[m + 1].col = i
        BY <2>3, <2>4, <3>1
      <4>2. QED
        BY <4>1
    <3>2. CASE i \in q + 1 .. p
      BY <1>8, <3>2
    <3>3. CASE i \in 1 .. q /\ line[i] # SPACE
      <4>1. PICK k \in 1 .. Len(ts) : ts[k].col = i
        BY <1>1, <3>3
      <4>2. k \in 1 .. Len(ts2) /\ ts2[k].col = i
        BY <2>4, <4>1 DEF m
      <4>3. QED
        BY <4>2
    <3>4. QED
      BY <1>1, <1>9, <3>1, <3>2, <3>3
  <2>9. QED
    BY <2>5, <2>6, <2>7, <2>8 DEF Lexed, n, res, b
<1>12. QED
  BY <1>10, <1>11 DEF res, b

(* After one turn more than it has characters the whole source was read. *)
LEMMA LexReads ==
  ASSUME NEW line \in Seq(Source), line \in Plain
  PROVE  \E l : /\ Lexed(line, l, Len(line) + 1)
                /\ Turns(Len(line) + 1, [pos |-> 0, toks |-> <<>>], LAMBDA x : lexer_next_token(C(line), x)) = l
<1> DEFINE n == Len(line) + 1
           g == Loop(<<"lex", C(line)>>, [pos |-> 0, toks |-> <<>>], n)
           S == {i \in 0 .. n : Lexed(line, g[i], i)}
<1>1. n \in Nat /\ Len(line) \in Nat
  OBVIOUS
<1>2. g[0] = [pos |-> 0, toks |-> <<>>] /\ \A i \in 1 .. n : g[i] = Advance(<<"lex", C(line)>>, g[i - 1], i)
  BY <1>1, LoopEquations
<1>3. \A x, i : Advance(<<"lex", C(line)>>, x, i) = lexer_next_token(C(line), x)
  BY DEF Advance
<1>4. Turns(n, [pos |-> 0, toks |-> <<>>], LAMBDA x : lexer_next_token(C(line), x)) = g[n]
  BY LexIsLoop
<1> HIDE DEF g
<1>5. 0 \in S
  <2>1. <<>> \in Seq(Token) /\ Len(<<>>) = 0
    OBVIOUS
  <2>2. Lexed(line, [pos |-> 0, toks |-> <<>>], 0)
    BY <1>1, <2>1 DEF Lexed
  <2>3. QED
    BY <1>1, <1>2, <2>2
<1>6. \A i \in 0 .. n - 1 : i \in S => i + 1 \in S
  <2>1. SUFFICES ASSUME NEW i \in 0 .. n - 1, i \in S PROVE i + 1 \in S
    OBVIOUS
  <2>2. i \in Nat /\ i + 1 \in 1 .. n /\ i + 1 \in 0 .. n /\ (i + 1) - 1 = i
    BY <1>1
  <2>3. g[i + 1] = lexer_next_token(C(line), g[i])
    BY <1>2, <1>3, <2>2
  <2>4. Lexed(line, g[i], i)
    BY <2>1
  <2>5. Lexed(line, g[i + 1], i + 1)
    BY <2>2, <2>3, <2>4, LexTurn
  <2>6. QED
    BY <2>2, <2>5
<1>7. n \in S
  <2> HIDE DEF S, n
  <2>1. \A i \in 0 .. n : i \in S
    BY <1>1, <1>5, <1>6, SetInduction
  <2>2. QED
    BY <1>1, <2>1
<1>8. QED
  BY <1>4, <1>7

(* The delimiters of tokenize. *)
LEMMA Delimits ==
  ASSUME NEW c \in Int
  PROVE  luna_strchr(<<SPACE, TAB, NUL>>, c) = NULL <=> c \notin {SPACE, TAB, NUL}
<1> DEFINE d == <<SPACE, TAB>>
           hits == {i \in 0 .. Len(d) : At(C(d), i) = c}
<1>1. d \in Plain /\ Len(d) = 2
  BY DEF Plain, SPACE, TAB
<1>2. C(d) = <<SPACE, TAB, NUL>>
  <2> DEFINE w == <<SPACE, TAB, NUL>>
             x == C(d)
  <2>1. d[1] = SPACE /\ d[2] = TAB /\ d \in Seq(Int) /\ NUL \in Int
    BY DEF SPACE, TAB, NUL
  <2>2. w[1] = SPACE /\ w[2] = TAB /\ w[3] = NUL /\ w \in Seq(Int) /\ Len(w) = 3
    BY DEF SPACE, TAB, NUL
  <2> HIDE DEF d, w
  <2>3. x \in Seq(Int) /\ Len(x) = 3 /\ x[3] = NUL /\ x[1] = d[1] /\ x[2] = d[2]
    <3>1. /\ x \in Seq(Int) /\ Len(x) = Len(d) + 1
          /\ \A i \in 1 .. Len(d) : x[i] = d[i]
          /\ x[Len(d) + 1] = NUL
      BY <2>1, AppendProperties DEF C
    <3> HIDE DEF x
    <3>2. QED
      BY <1>1, <3>1
  <2> HIDE DEF x
  <2>4. \A i \in 1 .. 3 : i = 1 \/ i = 2 \/ i = 3
    OBVIOUS
  <2>5. \A i \in 1 .. Len(x) : x[i] = w[i]
    BY <2>1, <2>2, <2>3, <2>4
  <2>6. x = w
    BY <2>2, <2>3, <2>5, SeqEqual
  <2>7. QED
    BY <2>6 DEF x, w
<1>3. luna_strchr(C(d), c) = First(hits)
  <2> HIDE DEF d
  <2>1. QED
    BY <1>1, StrchrIs
<1>4. hits = {} <=> c \notin {SPACE, TAB, NUL}
  <2>1. At(C(d), 0) = SPACE /\ At(C(d), 1) = TAB /\ At(C(d), 2) = NUL
    BY <1>2 DEF At
  <2>2. 0 .. Len(d) = {0, 1, 2}
    BY <1>1
  <2> HIDE DEF d
  <2>3. QED
    BY <2>1, <2>2
<1>5. hits \in SUBSET Nat
  BY <1>1
<1> HIDE DEF hits, d
<1>6. First(hits) = NULL <=> hits = {}
  <2>1. ASSUME hits # {} PROVE First(hits) # NULL
    <3>1. Min(hits) \in Nat
      BY <1>5, <2>1, MinIsLeast
    <3>2. QED
      BY <2>1, <3>1 DEF First, NULL
  <2>2. QED
    BY <2>1 DEF First
<1>7. QED
  BY <1>2, <1>3, <1>4, <1>6

(* b is the line from `save` on, and what stands before was taken. *)
Rest(b, line, save) ==
  /\ b \in Seq(Byte) /\ Len(b) = Len(line) + 1 /\ save \in 0 .. Len(line)
  /\ \A i \in save .. Len(line) : At(b, i) = At(C(line), i)
  /\ save > 0 /\ save < Len(line) => Blank(line, save)

(* The bytes from a to e are a word of the line, terminated. *)
WordAt(b, line, a, e) ==
  /\ a \in Nat /\ e \in a + 1 .. Len(line) /\ At(b, e) = 0
  /\ \A i \in a .. e - 1 : At(b, i) = line[i + 1] /\ ~Blank(line, i + 1)
  /\ a > 0 => Blank(line, a)
  /\ e < Len(line) => Blank(line, e + 1)

Nothing(b, line, save, t) ==
  t.buf = b /\ t.tok = NULL /\ \A i \in save + 1 .. Len(line) : Blank(line, i)

Taken(b, line, save, t, e) ==
  /\ t.tok \in save .. e - 1 /\ WordAt(t.buf, line, t.tok, e) /\ e <= t.save
  /\ Rest(t.buf, line, t.save) /\ \A i \in e + 1 .. t.save : Blank(line, i)
  /\ \A i \in save + 1 .. t.tok : Blank(line, i)
  /\ \A i \in 0 .. e - 1 : At(t.buf, i) = At(b, i)

(* A call of luna_strtok finds the next word, or that there is none. *)
LEMMA NextTokenFinds ==
  ASSUME NEW line \in Seq(Typed), line \in Plain, NEW b, NEW save, Rest(b, line, save)
  PROVE  \/ Nothing(b, line, save, NextToken(b, save))
         \/ \E e \in save + 1 .. Len(line) : Taken(b, line, save, NextToken(b, save), e)
<1> DEFINE n == Len(line)
           delim == <<SPACE, TAB, NUL>>
           t == NextToken(b, save)
           Skip(i) == At(b, i) = NUL \/ luna_strchr(delim, At(b, i)) = NULL
           Stop(i) == At(b, i) = NUL \/ luna_strchr(delim, At(b, i)) # NULL
           f == CHOOSE i \in save .. n : Skip(i) /\ \A j \in save .. i - 1 : ~Skip(j)
           e == CHOOSE i \in f .. n : Stop(i) /\ \A j \in f .. i - 1 : ~Stop(j)
<1>1. /\ n \in Nat /\ b \in Seq(Byte) /\ Len(b) = n + 1 /\ save \in 0 .. n
      /\ \A i \in save .. n : At(b, i) = At(C(line), i)
      /\ save > 0 /\ save < n => Blank(line, save)
  BY Terminated DEF Rest
<1>2. At(b, n) = NUL
  <2>1. At(C(line), n) = 0
    BY Terminated
  <2> HIDE DEF n
  <2>2. n \in save .. n
    BY <1>1
  <2>3. QED
    BY <1>1, <2>1, <2>2 DEF NUL, n
<1>3. \A i \in save .. n - 1 : /\ At(b, i) = line[i + 1] /\ At(b, i) # NUL /\ At(b, i) \in Int
                               /\ (luna_strchr(delim, At(b, i)) # NULL <=> Blank(line, i + 1))
  <2>1. ASSUME NEW i \in save .. n - 1 PROVE i \in 0 .. Len(line) /\ i # Len(line) /\ i \in save .. n
    BY <1>1 DEF n
  <2>2. \A i \in save .. n - 1 : At(b, i) = line[i + 1] /\ At(b, i) # 0 /\ At(b, i) \in Int
    BY <1>1, <2>1, Character
  <2>3. \A i \in save .. n - 1 : luna_strchr(delim, At(b, i)) # NULL <=> At(b, i) \in {SPACE, TAB, NUL}
    BY <2>2, Delimits
  <2>4. QED
    BY <2>2, <2>3 DEF Blank, NUL
<1>4. Len(b) - 1 = n
  <2> HIDE DEF n
  <2>1. QED
    BY <1>1
<1> HIDE DEF n
<1>5. t = IF At(b, f) = NUL THEN [buf |-> b, tok |-> NULL, save |-> NULL]
          ELSE IF At(b, e) = NUL THEN [buf |-> b, tok |-> f, save |-> e]
          ELSE [buf |-> Store(b, e, <<NUL>>), tok |-> f, save |-> e + 1]
  <2>1. t = luna_strtok(b, delim, save)
    BY <1>1 DEF NextToken, NULL
  <2> DEFINE m == Len(b) - 1
             f2 == CHOOSE i \in save .. m : Skip(i) /\ \A j \in save .. i - 1 : ~Skip(j)
             e2 == CHOOSE i \in f2 .. m : Stop(i) /\ \A j \in f2 .. i - 1 : ~Stop(j)
  <2>2. luna_strtok(b, delim, save) =
          IF At(b, f2) = NUL THEN [buf |-> b, tok |-> NULL, save |-> NULL]
          ELSE IF At(b, e2) = NUL THEN [buf |-> b, tok |-> f2, save |-> e2]
          ELSE [buf |-> Store(b, e2, <<NUL>>), tok |-> f2, save |-> e2 + 1]
    BY DEF luna_strtok, Scan
  <2>3. m = n
    BY <1>4
  <2> HIDE DEF m, Skip, Stop, t
  <2>4. f2 = f
    BY <2>3
  <2> HIDE DEF f2, f
  <2>5. e2 = e
    BY <2>3, <2>4
  <2> HIDE DEF e2, e
  <2>6. QED
    BY <2>1, <2>2, <2>4, <2>5
<1> HIDE DEF t, delim
(* the first character that is no delimiter *)
<1>6. f \in save .. n /\ Skip(f) /\ \A j \in save .. f - 1 : ~Skip(j)
  <2> DEFINE T == {i \in save .. n : Skip(i)}
  <2>1. n \in T /\ T \in SUBSET (save .. n)
    BY <1>1, <1>2
  <2>2. \E i \in save .. n : i \in T /\ \A j \in save .. i - 1 : j \notin T
    <3> HIDE DEF T, f
    <3>1. QED
      BY <1>1, <2>1, FirstFrom
  <2> HIDE DEF Skip
  <2>3. \E i \in save .. n : Skip(i) /\ \A j \in save .. i - 1 : ~Skip(j)
    BY <1>1, <2>2
  <2>4. QED
    BY <2>3
<1> HIDE DEF f
(* the first delimiter after it *)
<1>7. e \in f .. n /\ Stop(e) /\ \A j \in f .. e - 1 : ~Stop(j)
  <2> DEFINE T == {i \in f .. n : Stop(i)}
  <2>0. f \in 0 .. n
    BY <1>1, <1>6
  <2>1. n \in T /\ T \in SUBSET (f .. n)
    BY <1>1, <1>2, <2>0
  <2>2. \E i \in f .. n : i \in T /\ \A j \in f .. i - 1 : j \notin T
    <3> HIDE DEF T, e
    <3>1. QED
      BY <1>1, <2>0, <2>1, FirstFrom
  <2> HIDE DEF Stop
  <2>3. \E i \in f .. n : Stop(i) /\ \A j \in f .. i - 1 : ~Stop(j)
    BY <1>1, <2>0, <2>2
  <2>4. QED
    BY <2>3
<1> HIDE DEF e
<1>8. f \in Nat /\ e \in Nat /\ save \in Nat /\ save <= f /\ f <= e /\ e <= n
  BY <1>1, <1>6, <1>7
<1>9. ASSUME NEW i \in save + 1 .. f PROVE Blank(line, i)
  <2> DEFINE j == i - 1
  <2>1. j \in save .. f - 1 /\ j \in save .. n - 1 /\ j + 1 = i
    BY <1>1, <1>8
  <2> HIDE DEF j
  <2>2. ~Skip(j)
    BY <1>6, <2>1
  <2>3. QED
    BY <1>3, <2>1, <2>2
<1>10. CASE f = n
  <2>1. t.buf = b /\ t.tok = NULL
    BY <1>2, <1>5, <1>10
  <2>2. Nothing(b, line, save, t)
    BY <1>9, <1>10, <2>1 DEF Nothing, n
  <2>3. QED
    BY <2>2 DEF t
<1>11. CASE f # n
  <2>1. f \in save .. n - 1
    BY <1>1, <1>8, <1>11
  <2>2. At(b, f) # NUL /\ ~Blank(line, f + 1)
    <3>1. At(b, f) # NUL
      BY <1>3, <2>1
    <3>2. luna_strchr(delim, At(b, f)) = NULL
      BY <1>6, <3>1
    <3>3. QED
      BY <1>3, <2>1, <3>1, <3>2
  <2>3. e # f
    <3>1. ~Stop(f)
      BY <1>3, <2>1, <2>2
    <3>2. QED
      BY <1>7, <3>1
  <2>4. e \in f + 1 .. n /\ e \in save + 1 .. n /\ f \in save .. e - 1
    BY <1>1, <1>8, <2>3
  <2>5. ASSUME NEW i \in f .. e - 1 PROVE At(b, i) = line[i + 1] /\ ~Blank(line, i + 1)
    <3>1. i \in save .. n - 1
      BY <1>1, <1>8
    <3>2. ~Stop(i)
      BY <1>7
    <3>3. QED
      BY <1>3, <3>1, <3>2
  <2>6. f > 0 => Blank(line, f)
    <3>1. CASE f = save
      <4>1. f < n
        BY <1>1, <2>1
      <4>2. QED
        BY <1>1, <3>1, <4>1
    <3>2. CASE f # save
      <4>1. f \in save + 1 .. f
        BY <1>8, <3>2
      <4>2. QED
        BY <1>9, <4>1
    <3>3. QED
      BY <3>1, <3>2
  <2>7. CASE e = n
    <3>1. t.buf = b /\ t.tok = f /\ t.save = n
      BY <1>2, <1>5, <2>2, <2>7
    <3>2. WordAt(b, line, f, e)
      <4>1. At(b, e) = 0 /\ ~(e < Len(line))
        BY <1>1, <1>2, <2>7 DEF NUL, n
      <4>2. e \in f + 1 .. Len(line)
        BY <2>4 DEF n
      <4>3. QED
        BY <1>8, <2>5, <2>6, <4>1, <4>2 DEF WordAt
    <3>3. Rest(b, line, n)
      <4>1. n \in 0 .. n /\ ~(n < n) /\ \A i \in n .. n : i \in save .. n
        BY <1>1
      <4>2. QED
        BY <1>1, <4>1 DEF Rest, n
    <3>4. \A i \in e + 1 .. n : FALSE
      BY <1>1, <2>7
    <3>5. Taken(b, line, save, t, e)
      <4>1. e <= n
        BY <1>8
      <4>2. QED
        BY <1>9, <2>4, <3>1, <3>2, <3>3, <3>4, <4>1 DEF Taken
    <3>6. QED
      BY <2>4, <3>5 DEF t, n
  <2>8. CASE e # n
    <3>1. e \in save .. n - 1
      BY <1>1, <1>8, <2>8
    <3>2. At(b, e) # NUL /\ Blank(line, e + 1)
      <4>1. At(b, e) # NUL
        BY <1>3, <3>1
      <4>2. luna_strchr(delim, At(b, e)) # NULL
        BY <1>7, <4>1
      <4>3. QED
        BY <1>3, <3>1, <4>1, <4>2
    <3> DEFINE r == Store(b, e, <<NUL>>)
               z == <<NUL>>
               s == e + 1
    <3>3. t.buf = r /\ t.tok = f /\ t.save = s
      BY <1>5, <2>2, <3>2
    <3>4. z \in Seq(Byte) /\ Len(z) = 1 /\ z[1] = 0
      BY DEF Byte, NUL
    <3>5. r = Store(b, e, z)
      OBVIOUS
    <3> HIDE DEF z, r
    <3>6. /\ r \in Seq(Byte) /\ Len(r) = n + 1
          /\ \A i \in 1 .. n + 1 : r[i] = IF e < i /\ i <= e + Len(z) THEN z[i - e] ELSE b[i]
      <4>1. /\ Store(b, e, z) \in Seq(Byte) /\ Len(Store(b, e, z)) = Len(b)
            /\ \A i \in 1 .. Len(b) : Store(b, e, z)[i] = IF e < i /\ i <= e + Len(z) THEN z[i - e] ELSE b[i]
        BY <1>1, <1>8, <3>4, StoreBytes
      <4>2. QED
        BY <1>1, <3>5, <4>1
    <3>7. At(r, e) = 0
      <4>1. e + 1 \in 1 .. n + 1 /\ e < e + 1 /\ e + 1 <= e + Len(z) /\ (e + 1) - e = 1
        BY <1>1, <1>8, <3>4
      <4>2. r[e + 1] = z[1]
        BY <3>6, <4>1
      <4>3. QED
        BY <3>4, <4>2 DEF At
    <3>8. ASSUME NEW i \in 0 .. n, i # e PROVE At(r, i) = At(b, i)
      <4>1. i + 1 \in 1 .. n + 1 /\ ~(e < i + 1 /\ i + 1 <= e + Len(z))
        BY <1>1, <1>8, <3>4, <3>8
      <4>2. QED
        BY <3>6, <4>1 DEF At
    <3>9. s \in 0 .. n /\ e <= s /\ s > 0
      BY <1>1, <1>8, <3>1
    <3>10. WordAt(r, line, f, e)
      <4>1. ASSUME NEW i \in f .. e - 1 PROVE At(r, i) = At(b, i)
        <5>1. i \in 0 .. n /\ i # e
          BY <1>1, <1>8
        <5>2. QED
          BY <3>8, <5>1
      <4>2. e \in f + 1 .. Len(line)
        BY <2>4 DEF n
      <4>3. QED
        BY <1>8, <2>5, <2>6, <3>2, <3>7, <4>1, <4>2 DEF WordAt
    <3>11. Rest(r, line, s)
      <4>1. ASSUME NEW i \in s .. n PROVE At(r, i) = At(C(line), i)
        <5>1. i \in 0 .. n /\ i # e /\ i \in save .. n
          BY <1>1, <1>8, <3>9
        <5>2. QED
          BY <1>1, <3>8, <5>1
      <4>2. Blank(line, s)
        BY <3>2
      <4> HIDE DEF s
      <4>3. QED
        BY <3>6, <3>9, <4>1, <4>2 DEF Rest, n
    <3>12. \A i \in e + 1 .. s : Blank(line, i)
      <4>1. \A i \in e + 1 .. s : i = e + 1
        BY <1>8
      <4>2. QED
        BY <3>2, <4>1
    <3>13. \A i \in 0 .. e - 1 : At(r, i) = At(b, i)
      <4>1. \A i \in 0 .. e - 1 : i \in 0 .. n /\ i # e
        BY <1>1, <1>8
      <4>2. QED
        BY <3>8, <4>1
    <3> HIDE DEF s
    <3>14. Taken(b, line, save, t, e)
      BY <1>9, <2>4, <3>3, <3>9, <3>10, <3>11, <3>12, <3>13 DEF Taken
    <3>15. QED
      BY <2>4, <3>14 DEF t, n
  <2>9. QED
    BY <2>7, <2>8
<1>12. QED
  BY <1>10, <1>11

(* The words found so far, with their ends: all those of the first lim characters. *)
Split(line, b, argv, ends, lim) ==
  /\ argv \in Seq(Nat) /\ ends \in Seq(Nat) /\ Len(ends) = Len(argv)
  /\ b \in Seq(Byte) /\ Len(b) = Len(line) + 1 /\ lim \in 0 .. Len(line)
  /\ \A k \in 1 .. Len(argv) : WordAt(b, line, argv[k], ends[k]) /\ ends[k] <= lim /\ (k > 1 => argv[k - 1] < argv[k])
  /\ \A i \in 1 .. lim : Blank(line, i) \/ \E k \in 1 .. Len(argv) : i \in argv[k] + 1 .. ends[k]

Pending(line, t, e) ==
  /\ WordAt(t.buf, line, t.tok, e) /\ e <= t.save
  /\ Rest(t.buf, line, t.save) /\ \A i \in e + 1 .. t.save : Blank(line, i)

TokInv(line, l, ends, turn) ==
  /\ Len(l.argv) <= turn
  /\ l.t.tok = NULL => Split(line, l.t.buf, l.argv, ends, Len(line))
  /\ l.t.tok # NULL => /\ Split(line, l.t.buf, l.argv, ends, l.t.tok) /\ Len(l.argv) = turn
                       /\ \E e \in Nat : Pending(line, l.t, e)

(* Blanks after the words, and bytes written behind them, change nothing. *)
LEMMA SplitMoves ==
  ASSUME NEW line \in Seq(Typed), NEW b, NEW argv, NEW ends, NEW lim, Split(line, b, argv, ends, lim),
         NEW r \in Seq(Byte), Len(r) = Len(line) + 1,
         NEW far \in lim .. Len(line), \A i \in lim + 1 .. far : Blank(line, i),
         \A i \in 0 .. lim : At(r, i) = At(b, i)
  PROVE  Split(line, r, argv, ends, far)
<1>1. Len(line) \in Nat /\ lim \in 0 .. Len(line) /\ far \in 0 .. Len(line) /\ lim <= far
  BY DEF Split
<1>2. ASSUME NEW k \in 1 .. Len(argv)
      PROVE  WordAt(r, line, argv[k], ends[k]) /\ ends[k] <= far /\ (k > 1 => argv[k - 1] < argv[k])
  <2> DEFINE a == argv[k]
             e == ends[k]
  <2>1. WordAt(b, line, a, e) /\ e <= lim /\ (k > 1 => argv[k - 1] < a)
    BY DEF Split
  <2> HIDE DEF a, e
  <2>2. a \in Nat /\ e \in a + 1 .. Len(line)
    BY <2>1 DEF WordAt
  <2>3. e \in 0 .. lim /\ e <= far /\ \A i \in a .. e - 1 : i \in 0 .. lim
    BY <1>1, <2>1, <2>2
  <2>4. WordAt(r, line, a, e)
    BY <2>1, <2>3 DEF WordAt
  <2>5. QED
    BY <2>1, <2>3, <2>4 DEF a, e
<1>3. ASSUME NEW i \in 1 .. far
      PROVE  Blank(line, i) \/ \E k \in 1 .. Len(argv) : i \in argv[k] + 1 .. ends[k]
  <2>1. i \in 1 .. lim \/ i \in lim + 1 .. far
    BY <1>1
  <2>2. QED
    BY <2>1 DEF Split
<1>4. argv \in Seq(Nat) /\ ends \in Seq(Nat) /\ Len(ends) = Len(argv)
  BY DEF Split
<1>5. QED
  BY <1>1, <1>2, <1>3, <1>4 DEF Split

(* The pending word, entered in argv. *)
LEMMA SplitExtends ==
  ASSUME NEW line \in Seq(Typed), NEW t, NEW argv, NEW ends, NEW e, Split(line, t.buf, argv, ends, t.tok), Pending(line, t, e)
  PROVE  Split(line, t.buf, Append(argv, t.tok), Append(ends, e), t.save)
<1> DEFINE b == t.buf
           a == t.tok
           s == t.save
           m == Len(argv)
           argv2 == Append(argv, a)
           ends2 == Append(ends, e)
<1>1. /\ argv \in Seq(Nat) /\ ends \in Seq(Nat) /\ Len(ends) = m /\ m \in Nat
      /\ b \in Seq(Byte) /\ Len(b) = Len(line) + 1 /\ a \in 0 .. Len(line)
      /\ \A k \in 1 .. m : WordAt(b, line, argv[k], ends[k]) /\ ends[k] <= a /\ (k > 1 => argv[k - 1] < argv[k])
      /\ \A i \in 1 .. a : Blank(line, i) \/ \E k \in 1 .. m : i \in argv[k] + 1 .. ends[k]
  BY DEF Split
<1>2. WordAt(b, line, a, e) /\ e <= s /\ Rest(b, line, s) /\ \A i \in e + 1 .. s : Blank(line, i)
  BY DEF Pending
<1>3. a \in Nat /\ e \in a + 1 .. Len(line) /\ s \in 0 .. Len(line) /\ Len(line) \in Nat
  BY <1>2 DEF WordAt, Rest
<1> HIDE DEF b, a, s
<1>4. e \in Nat /\ a < e /\ s \in Nat
  BY <1>3
<1>5. /\ argv2 \in Seq(Nat) /\ Len(argv2) = m + 1 /\ argv2[m + 1] = a /\ \A k \in 1 .. m : argv2[k] = argv[k]
      /\ ends2 \in Seq(Nat) /\ Len(ends2) = m + 1 /\ ends2[m + 1] = e /\ \A k \in 1 .. m : ends2[k] = ends[k]
  BY <1>1, <1>3, <1>4, AppendProperties
<1> HIDE DEF argv2, ends2, m
<1>6. ASSUME NEW k \in 1 .. Len(argv2)
      PROVE  WordAt(b, line, argv2[k], ends2[k]) /\ ends2[k] <= s /\ (k > 1 => argv2[k - 1] < argv2[k])
  <2>1. CASE k = m + 1
    <3>1. ASSUME k > 1 PROVE argv2[k - 1] < a
      <4> DEFINE j == k - 1
      <4>1. j \in 1 .. m
        BY <1>1, <2>1, <3>1
      <4> HIDE DEF j
      <4>2. argv2[j] = argv[j] /\ WordAt(b, line, argv[j], ends[j]) /\ ends[j] <= a
        BY <1>1, <1>5, <4>1
      <4>3. argv[j] \in Nat /\ ends[j] \in argv[j] + 1 .. Len(line)
        BY <4>2 DEF WordAt
      <4>4. argv[j] < a
        BY <1>3, <4>2, <4>3
      <4>5. QED
        BY <4>2, <4>4 DEF j
    <3>2. QED
      BY <1>2, <1>5, <2>1, <3>1
  <2>2. CASE k # m + 1
    <3>1. k \in 1 .. m /\ (k > 1 => k - 1 \in 1 .. m)
      BY <1>1, <1>5, <2>2
    <3>2. argv2[k] = argv[k] /\ ends2[k] = ends[k] /\ (k > 1 => argv2[k - 1] = argv[k - 1])
      BY <1>5, <3>1
    <3>3. WordAt(b, line, argv[k], ends[k]) /\ ends[k] <= a /\ (k > 1 => argv[k - 1] < argv[k])
      BY <1>1, <3>1
    <3>4. ends[k] <= s
      <4>1. ends[k] \in Nat
        BY <1>1, <3>1, ElementOfSeq
      <4>2. QED
        BY <1>2, <1>3, <1>4, <3>3, <4>1
    <3>5. QED
      BY <3>2, <3>3, <3>4
  <2>3. QED
    BY <2>1, <2>2
<1>7. ASSUME NEW i \in 1 .. s
      PROVE  Blank(line, i) \/ \E k \in 1 .. Len(argv2) : i \in argv2[k] + 1 .. ends2[k]
  <2>1. CASE i \in 1 .. a /\ ~Blank(line, i)
    <3>1. PICK k \in 1 .. m : i \in argv[k] + 1 .. ends[k]
      BY <1>1, <2>1
    <3>2. k \in 1 .. Len(argv2) /\ i \in argv2[k] + 1 .. ends2[k]
      <4>1. k \in 1 .. Len(argv2)
        BY <1>1, <1>5
      <4>2. argv2[k] = argv[k] /\ ends2[k] = ends[k]
        BY <1>5
      <4>3. QED
        BY <3>1, <4>1, <4>2
    <3>3. QED
      BY <3>2
  <2>2. CASE i \in a + 1 .. e
    <3>1. m + 1 \in 1 .. Len(argv2)
      BY <1>1, <1>5
    <3>2. i \in argv2[m + 1] + 1 .. ends2[m + 1]
      BY <1>5, <2>2
    <3>3. QED
      BY <3>1, <3>2
  <2>3. CASE i \in e + 1 .. s
    BY <1>2, <2>3
  <2>4. i \in 1 .. a \/ i \in a + 1 .. e \/ i \in e + 1 .. s
    BY <1>3, <1>4
  <2>5. QED
    BY <2>1, <2>2, <2>3, <2>4
<1>8. Len(ends2) = Len(argv2)
  BY <1>5
<1>9. Split(line, b, argv2, ends2, s)
  BY <1>1, <1>3, <1>5, <1>6, <1>7, <1>8 DEF Split
<1>10. QED
  BY <1>9 DEF b, argv2, ends2, s, a

(* What a call finds, the words before it being known. *)
LEMMA AfterCall ==
  ASSUME NEW line \in Seq(Typed), line \in Plain, NEW b, NEW save, Rest(b, line, save),
         NEW argv, NEW ends, Split(line, b, argv, ends, save), NEW turn \in Nat, Len(argv) = turn
  PROVE  TokInv(line, [t |-> NextToken(b, save), argv |-> argv], ends, turn)
<1> DEFINE t == NextToken(b, save)
           l == [t |-> t, argv |-> argv]
<1>1. Nothing(b, line, save, t) \/ \E e \in save + 1 .. Len(line) : Taken(b, line, save, t, e)
  BY NextTokenFinds
<1>2. l.t = t /\ l.argv = argv
  OBVIOUS
<1> HIDE DEF t, l
<1>3. save \in 0 .. Len(line) /\ Len(line) \in Nat /\ b \in Seq(Byte) /\ Len(b) = Len(line) + 1
  BY DEF Rest
<1>4. CASE Nothing(b, line, save, t)
  <2> DEFINE far == Len(line)
  <2>1. t.buf = b /\ t.tok = NULL /\ \A i \in save + 1 .. far : Blank(line, i)
    BY <1>4 DEF Nothing
  <2>2. far \in save .. Len(line)
    BY <1>3
  <2> HIDE DEF far
  <2>3. Split(line, b, argv, ends, far)
    BY <1>3, <2>1, <2>2, SplitMoves
  <2>4. Len(argv) <= turn
    OBVIOUS
  <2>5. TokInv(line, l, ends, turn)
    BY <1>2, <2>1, <2>3, <2>4 DEF TokInv, far
  <2>6. QED
    BY <2>5 DEF l, t
<1>5. CASE \E e \in save + 1 .. Len(line) : Taken(b, line, save, t, e)
  <2>1. PICK e \in save + 1 .. Len(line) : Taken(b, line, save, t, e)
    BY <1>5
  <2> DEFINE r == t.buf
             a == t.tok
  <2>2. /\ a \in save .. e - 1 /\ WordAt(r, line, a, e) /\ e <= t.save
        /\ Rest(r, line, t.save) /\ \A i \in e + 1 .. t.save : Blank(line, i)
        /\ \A i \in save + 1 .. a : Blank(line, i)
        /\ \A i \in 0 .. e - 1 : At(r, i) = At(b, i)
    BY <2>1 DEF Taken
  <2>3. r \in Seq(Byte) /\ Len(r) = Len(line) + 1
    BY <2>2 DEF Rest
  <2>4. e \in Nat /\ Pending(line, t, e)
    BY <1>3, <2>2 DEF Pending
  <2> HIDE DEF r, a
  <2>5. a \in save .. Len(line) /\ a # NULL /\ \A i \in 0 .. save : i \in 0 .. e - 1
    BY <1>3, <2>2 DEF NULL
  <2>6. \A i \in 0 .. save : At(r, i) = At(b, i)
    BY <2>2, <2>5
  <2>7. Split(line, r, argv, ends, a)
    BY <2>2, <2>3, <2>5, <2>6, SplitMoves
  <2>8. Len(argv) <= turn
    OBVIOUS
  <2>9. TokInv(line, l, ends, turn)
    BY <1>2, <2>4, <2>5, <2>7, <2>8 DEF TokInv, r, a
  <2>10. QED
    BY <2>9 DEF l, t
<1>6. QED
  BY <1>1, <1>4, <1>5

LEMMA TokTurnSplits ==
  ASSUME NEW line \in Seq(Typed), line \in Plain, NEW turn \in Nat, NEW l,
         \E ends : TokInv(line, l, ends, turn)
  PROVE  \E ends : TokInv(line, TokTurn(l), ends, turn + 1)
<1>1. PICK ends : TokInv(line, l, ends, turn)
  OBVIOUS
<1>2. CASE l.t.tok = NULL
  <2>1. TokTurn(l) = l /\ Split(line, l.t.buf, l.argv, ends, Len(line)) /\ Len(l.argv) <= turn
    BY <1>1, <1>2 DEF TokTurn, TokInv
  <2>2. Len(l.argv) <= turn + 1
    <3>1. Len(l.argv) \in Nat
      BY <2>1 DEF Split
    <3>2. QED
      BY <2>1, <3>1
  <2>3. TokInv(line, l, ends, turn + 1)
    BY <1>2, <2>1, <2>2 DEF TokInv
  <2>4. QED
    BY <2>1, <2>3
<1>3. CASE l.t.tok # NULL
  <2> DEFINE t == l.t
             argv == l.argv
             argv2 == Append(argv, t.tok)
  <2>1. Split(line, t.buf, argv, ends, t.tok) /\ Len(argv) = turn
    BY <1>1, <1>3 DEF TokInv
  <2>2. PICK e \in Nat : Pending(line, t, e)
    BY <1>1, <1>3 DEF TokInv
  <2>3. TokTurn(l) = [t |-> NextToken(t.buf, t.save), argv |-> argv2]
    BY <1>3 DEF TokTurn
  <2> HIDE DEF t, argv
  <2> DEFINE ends2 == Append(ends, e)
             b == t.buf
             s == t.save
  <2>4. Split(line, b, argv2, ends2, s)
    BY <2>1, <2>2, SplitExtends
  <2>5. Rest(b, line, s)
    BY <2>2 DEF Pending
  <2>6. Len(argv2) = turn + 1 /\ turn + 1 \in Nat
    <3>1. argv \in Seq(Nat) /\ t.tok \in Nat
      BY <2>1, <2>2 DEF Split, Pending, WordAt
    <3>2. QED
      BY <2>1, <3>1, AppendProperties
  <2> HIDE DEF argv2, ends2, b, s
  <2> DEFINE next == turn + 1
  <2>7. next \in Nat /\ Len(argv2) = next
    BY <2>6
  <2> HIDE DEF next
  <2>8. TokInv(line, [t |-> NextToken(b, s), argv |-> argv2], ends2, next)
    BY <2>4, <2>5, <2>7, AfterCall
  <2>9. TokInv(line, TokTurn(l), ends2, turn + 1)
    BY <2>3, <2>8 DEF next, b, s
  <2>10. QED
    BY <2>9
<1>4. QED
  BY <1>2, <1>3

LEMMA TokenizeSplits ==
  ASSUME NEW line \in Seq(Typed), line \in Plain
  PROVE  \E ends : TokInv(line, tokenize(C(line)), ends, MAX_ARGS - 1)
<1> DEFINE n == MAX_ARGS - 1
           b == C(line)
           x0 == [t |-> NextToken(b, 0), argv |-> <<>>]
           g == Loop(<<"tok">>, x0, n)
           S == {i \in 0 .. n : \E ends : TokInv(line, g[i], ends, i)}
<1>1. n \in Nat
  BY TextAssumption
<1>2. g[0] = x0 /\ \A i \in 1 .. n : g[i] = Advance(<<"tok">>, g[i - 1], i)
  <2> HIDE DEF n, x0
  <2>1. QED
    BY <1>1, LoopEquations
<1>3. \A x, i : Advance(<<"tok">>, x, i) = TokTurn(x)
  BY DEF Advance
<1>4. tokenize(b) = g[n]
  BY TokenizeIsLoop
<1> HIDE DEF g, n
<1>5. 0 \in S
  <2> DEFINE z == 0
             none == <<>>
  <2>1. z \in Nat /\ none \in Seq(Nat) /\ Len(none) = z
    OBVIOUS
  <2>2. /\ b \in Seq(Byte) /\ Len(b) = Len(line) + 1 /\ Len(line) \in Nat
    BY Terminated
  <2>3. Rest(b, line, z)
    BY <2>2 DEF Rest
  <2>4. Split(line, b, none, none, z)
    BY <2>1, <2>2 DEF Split
  <2> HIDE DEF z, none, b
  <2>5. TokInv(line, [t |-> NextToken(b, z), argv |-> none], none, z)
    BY <2>1, <2>3, <2>4, AfterCall
  <2>6. TokInv(line, g[0], none, 0)
    BY <1>2, <2>5 DEF z, none, b
  <2>7. QED
    BY <1>1, <2>6
<1>6. \A i \in 0 .. n - 1 : i \in S => i + 1 \in S
  <2>1. SUFFICES ASSUME NEW i \in 0 .. n - 1, i \in S PROVE i + 1 \in S
    OBVIOUS
  <2>2. i \in Nat /\ i + 1 \in 1 .. n /\ i + 1 \in 0 .. n /\ (i + 1) - 1 = i
    BY <1>1
  <2>3. g[i + 1] = TokTurn(g[i])
    BY <1>2, <1>3, <2>2
  <2>4. \E ends : TokInv(line, g[i], ends, i)
    BY <2>1
  <2>5. \E ends : TokInv(line, g[i + 1], ends, i + 1)
    BY <2>2, <2>3, <2>4, TokTurnSplits
  <2>6. QED
    BY <2>2, <2>5
<1>7. n \in S
  <2> HIDE DEF S
  <2>1. \A i \in 0 .. n : i \in S
    BY <1>1, <1>5, <1>6, SetInduction
  <2>2. QED
    BY <1>1, <2>1
<1>8. QED
  BY <1>4, <1>7 DEF n

LEMMA WordInBuffer ==
  ASSUME NEW line \in Plain, NEW b \in Seq(Byte), Len(b) = Len(line) + 1, NEW a, NEW e, WordAt(b, line, a, e)
  PROVE  a + luna_strlen(b, a) = e /\ IsWord(line, a + 1, SubSeq(b, a + 1, a + luna_strlen(b, a)))
<1> DEFINE n == Len(line)
           m == e - a
           w == SubSeq(b, a + 1, a + m)
<1>1. /\ a \in Nat /\ e \in a + 1 .. n /\ At(b, e) = 0 /\ n \in Nat
      /\ \A i \in a .. e - 1 : At(b, i) = line[i + 1] /\ ~Blank(line, i + 1)
      /\ a > 0 => Blank(line, a)
      /\ e < n => Blank(line, e + 1)
  BY Terminated DEF WordAt
<1> HIDE DEF n
<1>2. m \in Nat /\ m > 0 /\ a + m = e /\ e \in Nat /\ e <= n
  BY <1>1
<1>3. \A i \in a .. e - 1 : At(b, i) # 0
  <2>1. ASSUME NEW i \in a .. e - 1 PROVE At(b, i) # 0
    <3>1. i \in 0 .. n - 1
      BY <1>1
    <3>2. line[i + 1] \in 1 .. 255
      BY <3>1, Terminated DEF n
    <3>3. QED
      BY <1>1, <3>2, NotNul
  <2>2. QED
    BY <2>1
<1>4. luna_strlen(b, a) = m
  <2>1. Len(b) \in Nat /\ e \in a .. Len(b) - 1
    BY <1>1 DEF n
  <2>2. QED
    BY <1>1, <1>3, <2>1, StrlenIs
<1> HIDE DEF m
<1>5. w \in Seq(Byte) /\ Len(w) = m /\ \A k \in 1 .. m : w[k] = b[a + k]
  <2>1. a + m <= Len(b)
    BY <1>1, <1>2 DEF n
  <2>2. QED
    BY <1>1, <1>2, <2>1, Piece
<1> HIDE DEF w
<1>6. DOMAIN w = 1 .. m /\ w # <<>>
  BY <1>2, <1>5
<1>7. ASSUME NEW j \in 1 .. m PROVE w[j] = line[(a + 1) + j - 1] /\ ~Blank(line, (a + 1) + j - 1)
  <2> DEFINE i == a + j - 1
  <2>1. i \in a .. e - 1 /\ i + 1 = a + j /\ (a + 1) + j - 1 = a + j
    BY <1>1, <1>2
  <2> HIDE DEF i
  <2>2. b[i + 1] = line[i + 1] /\ ~Blank(line, i + 1)
    BY <1>1, <2>1 DEF At
  <2>3. QED
    BY <1>5, <2>1, <2>2
<1>8. (a + 1) + Len(w) - 1 = e /\ (a + 1) + Len(w) = e + 1 /\ (a + 1 > 1 <=> a > 0) /\ (a + 1) - 1 = a /\ (e + 1 <= n <=> e < n)
  BY <1>1, <1>2, <1>5
<1>9. IsWord(line, a + 1, w)
  BY <1>1, <1>2, <1>6, <1>7, <1>8 DEF IsWord, n
<1>10. QED
  BY <1>2, <1>4, <1>9 DEF w

LEMMA TokenizeCall ==
  ASSUME NEW line \in Seq(Typed), line \in Plain, NEW res, NEW ends, TokInv(line, res, ends, MAX_ARGS - 1)
  PROVE  LET argv == res.argv
             len(k) == luna_strlen(res.t.buf, argv[k])
         IN /\ Len(argv) <= MAX_ARGS - 1
            /\ \A k \in DOMAIN argv : /\ IsWord(line, argv[k] + 1, SubSeq(res.t.buf, argv[k] + 1, argv[k] + len(k)))
                                      /\ k > 1 => argv[k - 1] < argv[k]
            /\ \A i \in DOMAIN line :
                 \/ Blank(line, i) \/ \E k \in DOMAIN argv : i \in argv[k] + 1 .. argv[k] + len(k)
                 \/ Len(argv) = MAX_ARGS - 1 /\ \A k \in DOMAIN argv : argv[k] + len(k) < i
<1> DEFINE b == res.t.buf
           argv == res.argv
           tok == res.t.tok
           n == Len(line)
           lim == IF tok = NULL THEN n ELSE tok
           len(k) == luna_strlen(b, argv[k])
           m == MAX_ARGS - 1
<1>1. Split(line, b, argv, ends, lim) /\ Len(argv) <= m /\ (tok = NULL \/ Len(argv) = m)
  BY DEF TokInv
<1> HIDE DEF b, argv, tok, m, lim
<1>2. /\ argv \in Seq(Nat) /\ ends \in Seq(Nat) /\ Len(ends) = Len(argv)
      /\ b \in Seq(Byte) /\ Len(b) = n + 1 /\ lim \in 0 .. n /\ n \in Nat
      /\ \A k \in 1 .. Len(argv) : WordAt(b, line, argv[k], ends[k]) /\ ends[k] <= lim /\ (k > 1 => argv[k - 1] < argv[k])
      /\ \A i \in 1 .. lim : Blank(line, i) \/ \E k \in 1 .. Len(argv) : i \in argv[k] + 1 .. ends[k]
  BY <1>1 DEF Split
<1>3. DOMAIN argv = 1 .. Len(argv) /\ DOMAIN line = 1 .. n
  BY <1>2
<1> HIDE DEF n
<1>4. ASSUME NEW k \in DOMAIN argv
      PROVE  argv[k] + len(k) = ends[k] /\ IsWord(line, argv[k] + 1, SubSeq(b, argv[k] + 1, argv[k] + len(k)))
  <2>1. WordAt(b, line, argv[k], ends[k])
    BY <1>2, <1>3
  <2>2. QED
    BY <1>2, <2>1, WordInBuffer DEF n
<1>5. ASSUME NEW i \in DOMAIN line, ~Blank(line, i)
      PROVE  \/ \E k \in DOMAIN argv : i \in argv[k] + 1 .. argv[k] + len(k)
             \/ Len(argv) = m /\ \A k \in DOMAIN argv : argv[k] + len(k) < i
  <2>1. CASE i <= lim
    <3>1. i \in 1 .. lim
      BY <1>2, <1>3, <2>1
    <3>2. PICK k \in 1 .. Len(argv) : i \in argv[k] + 1 .. ends[k]
      BY <1>2, <1>5, <3>1
    <3>3. k \in DOMAIN argv /\ argv[k] + len(k) = ends[k]
      BY <1>3, <1>4
    <3> HIDE DEF len
    <3>4. QED
      BY <3>2, <3>3
  <2>2. CASE ~(i <= lim)
    <3>1. i \in 1 .. n /\ lim # n /\ lim < i
      BY <1>2, <1>3, <2>2
    <3>2. Len(argv) = m
      BY <1>1, <3>1 DEF lim
    <3>3. ASSUME NEW k \in DOMAIN argv PROVE argv[k] + len(k) < i
      <4>1. argv[k] + len(k) = ends[k] /\ ends[k] <= lim /\ ends[k] \in Nat
        BY <1>2, <1>3, <1>4, ElementOfSeq
      <4>2. ends[k] < i
        BY <1>2, <3>1, <4>1
      <4>3. QED
        BY <4>1, <4>2
    <3>4. QED
      BY <3>2, <3>3
  <2>3. QED
    BY <2>1, <2>2
<1>6. \A k \in DOMAIN argv : k > 1 => argv[k - 1] < argv[k]
  BY <1>2, <1>3
<1>7. QED
  BY <1>1, <1>4, <1>5, <1>6 DEF b, argv, m

LEMMA LexCall ==
  ASSUME NEW line \in Seq(Source), NEW l, Lexed(line, l, Len(line) + 1), NEW res, res = l.toks
  PROVE  /\ \A k \in DOMAIN res : /\ res[k].col \in DOMAIN line /\ res[k].char = line[res[k].col] /\ res[k].char # SPACE
                                  /\ k > 1 => res[k - 1].col < res[k].col
         /\ \A i \in DOMAIN line : line[i] = SPACE \/ \E k \in DOMAIN res : res[k].col = i
<1> DEFINE n == Len(line)
           p == l.pos
<1>1. /\ p \in 0 .. n /\ n \in Nat /\ res \in Seq(Token) /\ (p = n \/ n + 1 <= p)
      /\ \A k \in 1 .. Len(res) : /\ res[k].col \in 1 .. p /\ res[k].char = line[res[k].col] /\ res[k].char # SPACE
                                  /\ k > 1 => res[k - 1].col < res[k].col
      /\ \A i \in 1 .. p : line[i] = SPACE \/ \E k \in 1 .. Len(res) : res[k].col = i
  BY DEF Lexed
<1>2. DOMAIN res = 1 .. Len(res) /\ DOMAIN line = 1 .. n
  BY <1>1
<1> HIDE DEF p, n
<1>3. p = n
  BY <1>1
<1>4. QED
  BY <1>1, <1>2, <1>3

-----------------------------------------------------------------------------
(* tokenize, over every line and every MAX_ARGS, finds the words of the    *)
(* line in order, each a maximal run and each terminated in the buffer,    *)
(* all of them or the first MAX_ARGS - 1, and the lexer every character of *)
(* a script that is not a blank, once, with its column.                    *)
THEOREM LinesAreSplit == Spec => []LinesSplit
<1>1. Init => LinesSplit
  BY DEF Init, LinesSplit
<1>2. LinesSplit /\ [Next]_vars => LinesSplit'
  <2> SUFFICES ASSUME LinesSplit, [Next]_vars PROVE LinesSplit'
    OBVIOUS
  <2> DEFINE call == in'
             res == out'
  <2>1. CASE Tokenize
    <3>1. PICK line \in BoundedSeq(Typed, MaxLine) : op' = "tokenize" /\ call = line /\ res = tokenize(C(line))
      BY <2>1 DEF Tokenize, Typed
    <3>2. line \in Seq(Typed) /\ line \in Plain
      BY LinesArePlain
    <3> HIDE DEF call, res
    <3>3. PICK ends : TokInv(line, res, ends, MAX_ARGS - 1)
      BY <3>1, <3>2, TokenizeSplits
    <3> DEFINE argv == res.argv
               len(k) == luna_strlen(res.t.buf, argv[k])
    <3>4. /\ Len(argv) <= MAX_ARGS - 1
          /\ \A k \in DOMAIN argv : /\ IsWord(line, argv[k] + 1, SubSeq(res.t.buf, argv[k] + 1, argv[k] + len(k)))
                                    /\ k > 1 => argv[k - 1] < argv[k]
          /\ \A i \in DOMAIN line :
               \/ Blank(line, i) \/ \E k \in DOMAIN argv : i \in argv[k] + 1 .. argv[k] + len(k)
               \/ Len(argv) = MAX_ARGS - 1 /\ \A k \in DOMAIN argv : argv[k] + len(k) < i
      BY <3>2, <3>3, TokenizeCall
    <3>5. op' = "tokenize" /\ in' = line /\ out' = res
      BY <3>1 DEF call, res
    <3>6. QED
      BY <3>4, <3>5 DEF LinesSplit
  <2>2. CASE Lex
    <3>1. PICK line \in BoundedSeq(Source, MaxLine) :
            /\ op' = "lex" /\ call = line
            /\ res = Turns(Len(line) + 1, [pos |-> 0, toks |-> <<>>], LAMBDA l : lexer_next_token(C(line), l)).toks
      BY <2>2 DEF Lex, Source
    <3>2. line \in Seq(Source) /\ line \in Plain
      BY LinesArePlain
    <3> HIDE DEF call, res
    <3>3. PICK l : /\ Lexed(line, l, Len(line) + 1)
                   /\ Turns(Len(line) + 1, [pos |-> 0, toks |-> <<>>], LAMBDA x : lexer_next_token(C(line), x)) = l
      BY <3>2, LexReads
    <3>4. res = l.toks
      BY <3>1, <3>3
    <3>5. /\ \A k \in DOMAIN res : /\ res[k].col \in DOMAIN line /\ res[k].char = line[res[k].col] /\ res[k].char # SPACE
                                   /\ k > 1 => res[k - 1].col < res[k].col
          /\ \A i \in DOMAIN line : line[i] = SPACE \/ \E k \in DOMAIN res : res[k].col = i
      <4>1. Lexed(line, l, Len(line) + 1)
        BY <3>3
      <4>2. QED
        BY <3>2, <3>4, <4>1, LexCall
    <3>6. op' = "lex" /\ in' = line /\ out' = res
      BY <3>1 DEF call, res
    <3>7. QED
      BY <3>5, <3>6 DEF LinesSplit
  <2>3. CASE Next /\ ~Tokenize /\ ~Lex
    <3>1. op' \notin {"tokenize", "lex"}
      BY <2>3 DEF Next, Memory, Compare, Search, Copy, Format, Hash, Return
    <3>2. QED
      BY <3>1 DEF LinesSplit
  <2>4. CASE UNCHANGED vars
    <3>1. op' = op /\ in' = in /\ out' = out
      BY <2>4 DEF vars
    <3>2. QED
      BY <3>1 DEF LinesSplit
  <2>5. QED
    BY <2>1, <2>2, <2>3, <2>4
<1>3. QED
  BY <1>1, <1>2, PTL DEF Spec
-----------------------------------------------------------------------------
(* The loops of luna_snprintf and of the number parser. *)

LEMMA WriteIsLoop ==
  ASSUME NEW acc, NEW max, NEW s
  PROVE  Write(acc, max, s) = Loop(<<"write", max, s>>, acc, Len(s))[Len(s)]
<1> DEFINE n == Len(s)
<1>1. Write(acc, max, s) = (CHOOSE g : g = [i \in 0 .. n |-> IF i = 0 THEN acc ELSE write_char(g[i - 1], max, s[i])])[n]
  BY DEF Write
<1>2. \A x, i : Advance(<<"write", max, s>>, x, i) = write_char(x, max, s[i])
  BY DEF Advance
<1> HIDE DEF n
<1>3. Loop(<<"write", max, s>>, acc, n) =
        CHOOSE g : g = [i \in 0 .. n |-> IF i = 0 THEN acc ELSE write_char(g[i - 1], max, s[i])]
  BY <1>2 DEF Loop
<1>4. QED
  BY <1>1, <1>3 DEF n

LEMMA PrintIsLoop ==
  ASSUME NEW size, NEW fmt, size # 0
  PROVE  luna_snprintf(size, fmt) = C(Loop(<<"print", size, fmt>>, <<>>, Len(fmt))[Len(fmt)])
<1> DEFINE n == Len(fmt)
<1>1. luna_snprintf(size, fmt) =
        Append((CHOOSE g : g = [i \in 0 .. n |-> IF i = 0 THEN <<>> ELSE PrintTurn(g[i - 1], size, fmt[i])])[n], NUL)
  BY DEF luna_snprintf, PrintTurn
<1>2. \A x, i : Advance(<<"print", size, fmt>>, x, i) = PrintTurn(x, size, fmt[i])
  BY DEF Advance
<1> HIDE DEF n
<1>3. Loop(<<"print", size, fmt>>, <<>>, n) =
        CHOOSE g : g = [i \in 0 .. n |-> IF i = 0 THEN <<>> ELSE PrintTurn(g[i - 1], size, fmt[i])]
  BY <1>2 DEF Loop
<1>4. QED
  BY <1>1, <1>3 DEF n, C

ValueFrom(b, p, base, n) == CHOOSE g : g = [i \in 0 .. n |-> IF i = 0 THEN 0 ELSE ValueTurn(g[i - 1], b, p, base, i)]

LEMMA ValueFromIsLoop ==
  ASSUME NEW b, NEW p, NEW base, NEW n
  PROVE  ValueFrom(b, p, base, n) = Loop(<<"value", b, p, base>>, 0, n)
<1>1. \A x, i : Advance(<<"value", b, p, base>>, x, i) = ValueTurn(x, b, p, base, i)
  BY DEF Advance
<1>2. QED
  BY <1>1 DEF Loop, ValueFrom

LEMMA ValueIsLoop ==
  ASSUME NEW b, NEW p, NEW base, NEW end,
         end = CHOOSE i \in p .. Len(b) - 1 : Digit(At(b, i)) >= base /\ \A j \in p .. i - 1 : ~(Digit(At(b, j)) >= base)
  PROVE  Value(b, p, base) = Loop(<<"value", b, p, base>>, 0, end - p)[end - p]
<1>1. Value(b, p, base) = ValueFrom(b, p, base, end - p)[end - p]
  BY DEF Value, Scan, ValueTurn, ValueFrom
<1>2. ValueFrom(b, p, base, end - p) = Loop(<<"value", b, p, base>>, 0, end - p)
  BY ValueFromIsLoop, Zenon
<1>3. QED
  BY <1>1, <1>2, Zenon
-----------------------------------------------------------------------------
(* Numerals.  The digits of a number are found from the last one on; the   *)
(* recursion goes from a number to its quotient, which is smaller.         *)

DigitStep(t, v, base) == IF v < base THEN <<HexChar(v)>> ELSE Append(t[v \div base], HexChar(v % base))
DigitTexts(val, base) == CHOOSE t : t = [v \in 0 .. val |-> DigitStep(t, v, base)]

LEMMA QuotientSmaller ==
  ASSUME NEW v \in Nat, NEW base \in {10, 16}, v >= base
  PROVE  v \div base \in 0 .. v - 1
<1>1. CASE base = 10
  BY <1>1
<1>2. CASE base = 16
  BY <1>2
<1>3. QED
  BY <1>1, <1>2

LEMMA DigitsExist ==
  ASSUME NEW val \in Nat, NEW base \in {10, 16}
  PROVE  \E t : t = [v \in 0 .. val |-> DigitStep(t, v, base)]
<1> DEFINE P(m) == \E t : t = [v \in 0 .. m |-> DigitStep(t, v, base)]
           T == {m \in Nat : ~P(m)}
<1>1. SUFFICES ASSUME T # {} PROVE FALSE
  OBVIOUS
<1>2. PICK x \in T : \A y \in T : x <= y
  <2>1. T \in SUBSET Nat
    OBVIOUS
  <2> HIDE DEF T
  <2>2. QED
    BY <1>1, <2>1, LeastElement
<1>3. CASE x = 0
  <2> DEFINE t == [v \in 0 .. 0 |-> <<HexChar(v)>>]
  <2>1. t = [v \in 0 .. 0 |-> DigitStep(t, v, base)]
    <3>1. \A v \in 0 .. 0 : v < base
      OBVIOUS
    <3>2. QED
      BY <3>1 DEF DigitStep
  <2>2. P(0)
    BY <2>1
  <2>3. QED
    BY <1>2, <1>3, <2>2
<1>4. CASE x # 0
  <2>1. x \in Nat /\ x - 1 \in Nat /\ ~(x <= x - 1)
    BY <1>2, <1>4
  <2>2. P(x - 1)
    BY <1>2, <2>1
  <2>3. PICK g : g = [v \in 0 .. x - 1 |-> DigitStep(g, v, base)]
    BY <2>2
  <2> DEFINE h == [v \in 0 .. x |-> IF v = x THEN DigitStep(g, x, base) ELSE g[v]]
  <2>4. ASSUME NEW v \in 0 .. x
        PROVE  DigitStep(h, v, base) = DigitStep(g, v, base)
    <3>1. CASE v < base
      BY <3>1 DEF DigitStep
    <3>2. CASE ~(v < base)
      <4>1. v \div base \in 0 .. v - 1
        BY <3>2, QuotientSmaller
      <4>2. v \div base \in 0 .. x /\ v \div base # x
        BY <2>1, <4>1
      <4>3. h[v \div base] = g[v \div base]
        BY <4>2
      <4>4. QED
        BY <4>3 DEF DigitStep
    <3>3. QED
      BY <3>1, <3>2
  <2>5. ASSUME NEW v \in 0 .. x
        PROVE  h[v] = DigitStep(g, v, base)
    <3>1. CASE v = x
      BY <3>1
    <3>2. CASE v # x
      <4>1. v \in 0 .. x - 1
        BY <2>1, <3>2
      <4>2. g[v] = DigitStep(g, v, base)
        BY <2>3, <4>1
      <4>3. QED
        BY <3>2, <4>2
    <3>3. QED
      BY <3>1, <3>2
  <2>6. h = [v \in 0 .. x |-> DigitStep(h, v, base)]
    <3>1. h = [v \in 0 .. x |-> h[v]]
      OBVIOUS
    <3> HIDE DEF h
    <3>2. QED
      BY <2>4, <2>5, <3>1
  <2>7. P(x)
    BY <2>6
  <2>8. QED
    BY <1>2, <2>7
<1>5. QED
  BY <1>3, <1>4

LEMMA DigitsAre ==
  ASSUME NEW val \in Nat, NEW base \in {10, 16}
  PROVE  /\ Digits(val, base) = DigitTexts(val, base)[val]
         /\ \A v \in 0 .. val : DigitTexts(val, base)[v] = DigitStep(DigitTexts(val, base), v, base)
<1> DEFINE t == DigitTexts(val, base)
<1>1. Digits(val, base) = t[val]
  BY DEF Digits, DigitTexts, DigitStep
<1>2. t = [v \in 0 .. val |-> DigitStep(t, v, base)]
  BY DigitsExist DEF DigitTexts
<1> HIDE DEF t
<1>3. \A v \in 0 .. val : t[v] = DigitStep(t, v, base)
  BY <1>2
<1>4. QED
  BY <1>1, <1>3 DEF t

(* s spells v: read from the left, its digits give the numbers h up to v. *)
Reads(h, s, v, base) ==
  /\ h \in [0 .. Len(s) -> 0 .. v] /\ h[0] = 0 /\ h[Len(s)] = v
  /\ \A i \in 1 .. Len(s) : h[i] = h[i - 1] * base + Digit(s[i])
Spells(s, v, base) ==
  /\ s \in Plain /\ s # <<>>
  /\ \A i \in 1 .. Len(s) : Digit(s[i]) \in 0 .. base - 1
  /\ \E h : Reads(h, s, v, base)

LEMMA HexCharIs ==
  ASSUME NEW d \in 0 .. 15
  PROVE  HexChar(d) \in 1 .. 255 /\ Digit(HexChar(d)) = d
<1>1. CASE d < 10
  <2>1. HexChar(d) \in 48 .. 57 /\ HexChar(d) - 48 = d
    BY <1>1 DEF HexChar
  <2> HIDE DEF HexChar
  <2>2. QED
    BY <2>1 DEF Digit
<1>2. CASE ~(d < 10)
  <2>1. HexChar(d) \in 97 .. 102 /\ HexChar(d) - 87 = d
    BY <1>2 DEF HexChar
  <2>2. HexChar(d) \notin 48 .. 57
    BY <2>1
  <2>3. QED
    BY <2>1, <2>2 DEF Digit
<1>3. QED
  BY <1>1, <1>2

LEMMA OneDigit ==
  ASSUME NEW base \in {10, 16}, NEW v \in 0 .. base - 1
  PROVE  Spells(<<HexChar(v)>>, v, base)
<1> DEFINE c == HexChar(v)
           s == <<c>>
           h == [i \in 0 .. 1 |-> IF i = 0 THEN 0 ELSE v]
<1>1. v \in 0 .. 15 /\ v \in Nat
  OBVIOUS
<1>2. c \in 1 .. 255 /\ Digit(c) = v
  BY <1>1, HexCharIs
<1> HIDE DEF c
<1>3. s \in Plain /\ s # <<>> /\ Len(s) = 1 /\ s[1] = c
  BY <1>2 DEF Plain
<1> HIDE DEF s
<1>4. h \in [0 .. 1 -> 0 .. v] /\ h[0] = 0 /\ h[1] = v
  BY <1>1
<1> HIDE DEF h
<1>5. \A i \in 1 .. 1 : i = 1 /\ i - 1 = 0
  OBVIOUS
<1>6. \A i \in 1 .. Len(s) : h[i] = h[i - 1] * base + Digit(s[i])
  BY <1>1, <1>2, <1>3, <1>4, <1>5
<1>7. Reads(h, s, v, base)
  BY <1>3, <1>4, <1>6 DEF Reads
<1>8. QED
  BY <1>2, <1>3, <1>5, <1>7 DEF Spells, s, c

LEMMA NextDigit ==
  ASSUME NEW base \in {10, 16}, NEW u \in Nat, NEW s, Spells(s, u, base), NEW d \in 0 .. base - 1,
         NEW v \in Nat, v = u * base + d
  PROVE  Spells(Append(s, HexChar(d)), v, base)
<1> DEFINE c == HexChar(d)
           n == Len(s)
           r == Append(s, c)
<1>1. PICK h : Reads(h, s, u, base)
  BY DEF Spells
<1>2. s \in Plain /\ s # <<>> /\ \A i \in 1 .. Len(s) : Digit(s[i]) \in 0 .. base - 1
  BY DEF Spells
<1>3. d \in 0 .. 15 /\ n \in Nat
  BY <1>2 DEF Plain
<1>4. c \in 1 .. 255 /\ Digit(c) = d
  BY <1>3, HexCharIs
<1> HIDE DEF c
<1>5. /\ r \in Plain /\ r # <<>> /\ Len(r) = n + 1 /\ r[n + 1] = c
      /\ \A i \in 1 .. n : r[i] = s[i]
  BY <1>2, <1>4, AppendProperties DEF Plain
<1> HIDE DEF r
<1>6. u <= v
  <2>1. CASE base = 10
    BY <2>1
  <2>2. CASE base = 16
    BY <2>2
  <2>3. QED
    BY <2>1, <2>2
<1> DEFINE g == [i \in 0 .. n + 1 |-> IF i = n + 1 THEN v ELSE h[i]]
<1>7. h \in [0 .. n -> 0 .. u] /\ h[0] = 0 /\ h[n] = u /\ \A i \in 1 .. n : h[i] = h[i - 1] * base + Digit(s[i])
  BY <1>1 DEF Reads
<1> HIDE DEF n
<1>8. ASSUME NEW i \in 0 .. n PROVE g[i] = h[i] /\ h[i] \in 0 .. v
  <2>1. i \in 0 .. n + 1 /\ i # n + 1
    BY <1>3
  <2>2. h[i] \in 0 .. u
    BY <1>7
  <2>3. QED
    BY <1>6, <2>1, <2>2
<1>9. g[n + 1] = v
  BY <1>3
<1>10. g \in [0 .. n + 1 -> 0 .. v]
  <2>1. ASSUME NEW i \in 0 .. n + 1 PROVE g[i] \in 0 .. v
    <3>1. i = n + 1 \/ i \in 0 .. n
      BY <1>3
    <3> HIDE DEF g
    <3>2. QED
      BY <1>8, <1>9, <3>1
  <2>2. QED
    BY <2>1
<1>11. 0 \in 0 .. n /\ n \in 0 .. n
  BY <1>3
<1> HIDE DEF g
<1>12. ASSUME NEW i \in 1 .. n + 1 PROVE g[i] = g[i - 1] * base + Digit(r[i])
  <2>1. CASE i = n + 1
    <3>1. i - 1 = n
      BY <1>3, <2>1
    <3>2. g[i] = v /\ g[i - 1] = u /\ Digit(r[i]) = d
      BY <1>4, <1>5, <1>7, <1>8, <1>9, <1>11, <2>1, <3>1
    <3>3. QED
      BY <3>2
  <2>2. CASE i # n + 1
    <3>1. i \in 1 .. n /\ i \in 0 .. n /\ i - 1 \in 0 .. n
      BY <1>3, <2>2
    <3>2. g[i] = h[i] /\ g[i - 1] = h[i - 1] /\ r[i] = s[i]
      BY <1>5, <1>8, <3>1
    <3>3. h[i] = h[i - 1] * base + Digit(s[i])
      BY <1>7, <3>1
    <3>4. QED
      BY <3>2, <3>3
  <2>3. QED
    BY <2>1, <2>2
<1>13. g[0] = 0
  BY <1>7, <1>8, <1>11
<1>14. Reads(g, r, v, base)
  BY <1>5, <1>9, <1>10, <1>12, <1>13 DEF Reads
<1>15. ASSUME NEW i \in 1 .. Len(r) PROVE Digit(r[i]) \in 0 .. base - 1
  <2>1. i = n + 1 \/ i \in 1 .. n
    BY <1>3, <1>5
  <2>2. QED
    BY <1>2, <1>4, <1>5, <2>1 DEF n
<1>16. QED
  BY <1>5, <1>14, <1>15 DEF Spells, r, c

LEMMA DigitsSpell ==
  ASSUME NEW val \in Nat, NEW base \in {10, 16}
  PROVE  Spells(Digits(val, base), val, base)
<1> DEFINE t == DigitTexts(val, base)
           T == {v \in 0 .. val : ~Spells(t[v], v, base)}
<1>1. Digits(val, base) = t[val] /\ \A v \in 0 .. val : t[v] = DigitStep(t, v, base)
  BY DigitsAre
<1> HIDE DEF t
<1>2. T = {}
  <2>1. SUFFICES ASSUME T # {} PROVE FALSE
    OBVIOUS
  <2>2. T \in SUBSET Nat
    OBVIOUS
  <2>3. PICK x \in T : \A y \in T : x <= y
    <3> HIDE DEF T
    <3>1. QED
      BY <2>1, <2>2, LeastElement
  <2>4. x \in 0 .. val /\ x \in Nat /\ ~Spells(t[x], x, base)
    OBVIOUS
  <2>5. \A y \in 0 .. x - 1 : y \in 0 .. val /\ ~(x <= y)
    BY <2>4
  <2>6. \A y \in 0 .. x - 1 : Spells(t[y], y, base)
    BY <2>3, <2>5
  <2>7. t[x] = DigitStep(t, x, base)
    BY <1>1, <2>4
  <2> HIDE DEF T
  <2>8. CASE x < base
    <3>1. x \in 0 .. base - 1
      BY <2>4, <2>8
    <3>2. t[x] = <<HexChar(x)>>
      BY <2>7, <2>8 DEF DigitStep
    <3>3. QED
      BY <2>4, <3>1, <3>2, OneDigit
  <2>9. CASE ~(x < base)
    <3> DEFINE q == x \div base
               d == x % base
    <3>1. q \in 0 .. x - 1
      BY <2>4, <2>9, QuotientSmaller
    <3>2. q \in Nat /\ d \in 0 .. base - 1 /\ x = q * base + d
      <4>1. CASE base = 10
        BY <2>4, <4>1
      <4>2. CASE base = 16
        BY <2>4, <4>2
      <4>3. QED
        BY <4>1, <4>2
    <3>3. t[x] = Append(t[q], HexChar(d))
      BY <2>7, <2>9 DEF DigitStep
    <3> HIDE DEF q, d
    <3>4. Spells(t[q], q, base)
      BY <2>6, <3>1
    <3>5. Spells(Append(t[q], HexChar(d)), x, base)
      BY <2>4, <3>2, <3>4, NextDigit
    <3>6. QED
      BY <2>4, <3>3, <3>5
  <2>10. QED
    BY <2>8, <2>9
<1>3. val \in 0 .. val
  OBVIOUS
<1>4. QED
  BY <1>1, <1>2, <1>3

LEMMA PadIs ==
  ASSUME NEW width \in Nat, NEW used \in Nat, NEW V, NEW c \in V
  PROVE  /\ Pad(width, used, c) \in Seq(V) /\ \A i \in 1 .. Len(Pad(width, used, c)) : Pad(width, used, c)[i] = c
         /\ Len(Pad(width, used, c)) = IF width > used THEN width - used ELSE 0
<1>1. CASE width > used
  <2>1. width - used \in Nat
    BY <1>1
  <2>2. QED
    BY <1>1, <2>1 DEF Pad
<1>2. CASE ~(width > used)
  BY <1>2 DEF Pad
<1>3. QED
  BY <1>1, <1>2

(* Zeros in front of a numeral change nothing. *)
LEMMA ZerosInFront ==
  ASSUME NEW base \in {10, 16}, NEW v \in Nat, NEW s, Spells(s, v, base),
         NEW z \in Seq(1 .. 255), \A i \in 1 .. Len(z) : z[i] = 48
  PROVE  Spells(z \o s, v, base)
<1> DEFINE n == Len(s)
           m == Len(z)
           r == z \o s
<1>1. PICK h : Reads(h, s, v, base)
  BY DEF Spells
<1>2. s \in Plain /\ s # <<>> /\ \A i \in 1 .. Len(s) : Digit(s[i]) \in 0 .. base - 1
  BY DEF Spells
<1>3. n \in Nat /\ m \in Nat /\ n > 0
  BY <1>2 DEF Plain
<1>4. /\ r \in Plain /\ Len(r) = m + n
      /\ \A i \in 1 .. m + n : r[i] = IF i <= m THEN z[i] ELSE s[i - m]
  BY <1>2, Joined DEF Plain
<1>5. r # <<>>
  <2> HIDE DEF r
  <2>1. Len(r) # 0
    BY <1>3, <1>4
  <2>2. QED
    BY <2>1
<1> HIDE DEF r
<1>6. Digit(48) = 0
  BY DEF Digit
<1>7. h \in [0 .. n -> 0 .. v] /\ h[0] = 0 /\ h[n] = v /\ \A i \in 1 .. n : h[i] = h[i - 1] * base + Digit(s[i])
  BY <1>1 DEF Reads
<1> DEFINE g == [i \in 0 .. m + n |-> IF i <= m THEN 0 ELSE h[i - m]]
<1> HIDE DEF n, m
<1>8. ASSUME NEW i \in m .. m + n PROVE g[i] = h[i - m] /\ g[i] \in 0 .. v
  <2>1. i \in 0 .. m + n /\ i - m \in 0 .. n /\ (i <= m => i - m = 0)
    BY <1>3
  <2>2. h[i - m] \in 0 .. v
    BY <1>7, <2>1
  <2>3. g[i] = h[i - m]
    BY <1>7, <2>1
  <2>4. QED
    BY <2>2, <2>3
<1>9. ASSUME NEW i \in 0 .. m PROVE g[i] = 0
  <2>1. i \in 0 .. m + n
    BY <1>3
  <2>2. QED
    BY <2>1
<1>10. g \in [0 .. m + n -> 0 .. v]
  <2>1. ASSUME NEW i \in 0 .. m + n PROVE g[i] \in 0 .. v
    <3>1. i \in m .. m + n \/ i \in 0 .. m
      BY <1>3
    <3> HIDE DEF g
    <3>2. 0 \in 0 .. v
      OBVIOUS
    <3>3. QED
      BY <1>8, <1>9, <3>1, <3>2
  <2>2. QED
    BY <2>1
<1> HIDE DEF g
<1>11. g[0] = 0 /\ g[m + n] = v
  <2>1. 0 \in 0 .. m /\ m + n \in m .. m + n /\ (m + n) - m = n
    BY <1>3
  <2>2. QED
    BY <1>7, <1>8, <1>9, <2>1
<1>12. ASSUME NEW i \in 1 .. m + n PROVE g[i] = g[i - 1] * base + Digit(r[i]) /\ Digit(r[i]) \in 0 .. base - 1
  <2>1. CASE i <= m
    <3>1. i \in 0 .. m /\ i - 1 \in 0 .. m /\ i \in 1 .. m
      BY <1>3, <2>1
    <3>2. g[i] = 0 /\ g[i - 1] = 0 /\ r[i] = 48
      BY <1>4, <1>9, <2>1, <3>1 DEF m
    <3>3. QED
      BY <1>6, <3>2
  <2>2. CASE ~(i <= m)
    <3> DEFINE k == i - m
    <3>1. i \in m .. m + n /\ i - 1 \in m .. m + n /\ k \in 1 .. n /\ (i - 1) - m = k - 1
      BY <1>3, <2>2
    <3>2. g[i] = h[k] /\ g[i - 1] = h[k - 1] /\ r[i] = s[k]
      BY <1>4, <1>8, <2>2, <3>1
    <3> HIDE DEF k
    <3>3. h[k] = h[k - 1] * base + Digit(s[k]) /\ Digit(s[k]) \in 0 .. base - 1
      BY <1>2, <1>7, <3>1 DEF n
    <3>4. QED
      BY <3>2, <3>3
  <2>3. QED
    BY <2>1, <2>2
<1>13. Reads(g, r, v, base)
  BY <1>4, <1>10, <1>11, <1>12 DEF Reads
<1>14. QED
  BY <1>4, <1>5, <1>12, <1>13 DEF Spells, r

(* The number parser returns what the digits in front of the terminator spell. *)
LEMMA ValueIs ==
  ASSUME NEW base \in {10, 16}, NEW v \in 0 .. WORD - 1, NEW s, Spells(s, v, base),
         NEW b, Len(b) \in Nat, NEW p \in Nat, p + Len(s) < Len(b),
         \A i \in 1 .. Len(s) : At(b, p + i - 1) = s[i], At(b, p + Len(s)) = 0
  PROVE  Value(b, p, base) = v
<1> DEFINE n == Len(s)
           Stop(i) == Digit(At(b, i)) >= base
           end == CHOOSE i \in p .. Len(b) - 1 : Stop(i) /\ \A j \in p .. i - 1 : ~Stop(j)
<1>1. PICK h : Reads(h, s, v, base)
  BY DEF Spells
<1>2. n \in Nat /\ \A i \in 1 .. n : Digit(s[i]) \in 0 .. base - 1
  BY DEF Spells, Plain
<1>3. Digit(0) = 99
  BY DEF Digit
<1>4. p + n \in p .. Len(b) - 1 /\ Stop(p + n)
  BY <1>2, <1>3
<1>5. ASSUME NEW j \in p .. p + n - 1 PROVE ~Stop(j)
  <2> DEFINE i == j - p + 1
  <2>1. i \in 1 .. n /\ p + i - 1 = j
    BY <1>2
  <2>2. At(b, j) = s[i]
    BY <2>1
  <2> HIDE DEF i
  <2>3. Digit(s[i]) \in 0 .. base - 1
    BY <1>2, <2>1
  <2>4. QED
    BY <2>2, <2>3
<1>6. Value(b, p, base) = Loop(<<"value", b, p, base>>, 0, end - p)[end - p]
  BY ValueIsLoop
<1>7. end = p + n
  <2> HIDE DEF Stop, n
  <2>1. end \in p .. Len(b) - 1 /\ Stop(end) /\ \A j \in p .. end - 1 : ~Stop(j)
    <3> DEFINE q == p + n
    <3> HIDE DEF end
    <3>1. q \in p .. Len(b) - 1 /\ Stop(q)
      BY <1>4
    <3>2. ASSUME NEW j \in p .. q - 1 PROVE ~Stop(j)
      <4>1. j \in p .. p + n - 1
        BY <1>2
      <4>2. QED
        BY <1>5, <4>1
    <3> HIDE DEF q
    <3>3. \E i \in p .. Len(b) - 1 : Stop(i) /\ \A j \in p .. i - 1 : ~Stop(j)
      BY <3>1, <3>2
    <3>4. QED
      BY <3>3, Zenon DEF end
  <2> HIDE DEF end
  <2>2. ~(end < p + n)
    <3>1. end < p + n => end \in p .. p + n - 1
      BY <1>2, <2>1
    <3>2. QED
      BY <1>5, <2>1, <3>1
  <2>3. ~(p + n < end)
    <3>1. p + n < end => p + n \in p .. end - 1
      BY <1>2, <2>1
    <3>2. QED
      BY <1>4, <2>1, <3>1
  <2>4. QED
    BY <1>2, <2>1, <2>2, <2>3
<1> HIDE DEF end
<1>8. end - p = n
  BY <1>2, <1>7
<1> DEFINE lp == <<"value", b, p, base>>
           g == Loop(lp, 0, n)
           S == {i \in 0 .. n : g[i] = h[i]}
<1>9. g[0] = 0 /\ \A i \in 1 .. n : g[i] = Advance(lp, g[i - 1], i)
  BY <1>2, LoopEquations
<1>10. \A x, i : Advance(lp, x, i) = ValueTurn(x, b, p, base, i)
  BY DEF Advance
<1>11. h \in [0 .. n -> 0 .. v] /\ h[0] = 0 /\ h[n] = v /\ \A i \in 1 .. n : h[i] = h[i - 1] * base + Digit(s[i])
  BY <1>1 DEF Reads
<1>12. Value(b, p, base) = g[n]
  BY <1>6, <1>8
<1> HIDE DEF lp, g, Stop, n
<1>13. 0 \in S
  BY <1>2, <1>9, <1>11
<1>14. ASSUME NEW i \in 0 .. n - 1, i \in S PROVE i + 1 \in S
  <2> DEFINE k == i + 1
  <2>1. k \in 1 .. n /\ k - 1 = i /\ k \in 0 .. n
    BY <1>2
  <2>2. g[i] = h[i]
    BY <1>14
  <2> HIDE DEF k
  <2>3. g[k] = ValueTurn(h[i], b, p, base, k)
    BY <1>9, <1>10, <2>1, <2>2
  <2>4. At(b, p + k - 1) = s[k]
    BY <2>1 DEF n
  <2>5. h[k] = h[i] * base + Digit(s[k])
    BY <1>11, <2>1
  <2>6. g[k] = h[k] % WORD
    BY <2>3, <2>4, <2>5 DEF ValueTurn
  <2>7. h[k] \in 0 .. v
    BY <1>11, <2>1
  <2>8. \A y \in 0 .. v : y % WORD = y
    BY TextAssumption
  <2>9. g[k] = h[k]
    BY <2>6, <2>7, <2>8
  <2>10. QED
    BY <2>1, <2>9 DEF k
<1>15. n \in S
  <2> HIDE DEF S
  <2>1. \A i \in 0 .. n : i \in S
    BY <1>2, <1>13, <1>14, SetInduction
  <2>2. QED
    BY <1>2, <2>1
<1>16. QED
  BY <1>11, <1>12, <1>15

(* Blanks before a number are skipped. *)
LEMMA BlanksSkipped ==
  ASSUME NEW b, Len(b) \in Nat, NEW e \in 0 .. Len(b) - 1,
         \A i \in 0 .. e - 1 : At(b, i) = SPACE, At(b, e) # SPACE
  PROVE  /\ Scan(0, Len(b) - 1, LAMBDA i : At(b, i) # SPACE) = e
         /\ At(b, e) # TAB => Scan(0, Len(b) - 1, LAMBDA i : At(b, i) \notin {SPACE, TAB}) = e
<1> DEFINE k == CHOOSE i \in 0 .. Len(b) - 1 : At(b, i) # SPACE /\ \A j \in 0 .. i - 1 : ~(At(b, j) # SPACE)
           l == CHOOSE i \in 0 .. Len(b) - 1 : At(b, i) \notin {SPACE, TAB} /\ \A j \in 0 .. i - 1 : ~(At(b, j) \notin {SPACE, TAB})
<1>1. k = e
  <2>1. k \in 0 .. Len(b) - 1 /\ At(b, k) # SPACE /\ \A j \in 0 .. k - 1 : ~(At(b, j) # SPACE)
    OBVIOUS
  <2> HIDE DEF k
  <2>2. ~(k < e)
    <3>1. k < e => k \in 0 .. e - 1
      BY <2>1
    <3>2. QED
      BY <2>1, <3>1
  <2>3. ~(e < k)
    <3>1. e < k => e \in 0 .. k - 1
      BY <2>1
    <3>2. QED
      BY <2>1, <3>1
  <2>4. QED
    BY <2>1, <2>2, <2>3
<1>2. ASSUME At(b, e) # TAB PROVE l = e
  <2>1. l \in 0 .. Len(b) - 1 /\ At(b, l) \notin {SPACE, TAB} /\ \A j \in 0 .. l - 1 : ~(At(b, j) \notin {SPACE, TAB})
    <3>1. At(b, e) \notin {SPACE, TAB} /\ \A j \in 0 .. e - 1 : ~(At(b, j) \notin {SPACE, TAB})
      BY <1>2
    <3>2. QED
      BY <3>1
  <2> HIDE DEF l
  <2>2. ~(l < e)
    <3>1. l < e => l \in 0 .. e - 1
      BY <2>1
    <3>2. QED
      BY <2>1, <3>1
  <2>3. ~(e < l)
    <3>1. e < l => e \in 0 .. l - 1
      BY <2>1
    <3>2. QED
      BY <1>2, <2>1, <3>1
  <2>4. QED
    BY <2>1, <2>2, <2>3
<1>3. QED
  BY <1>1, <1>2 DEF Scan
-----------------------------------------------------------------------------
(* luna_snprintf writes the text of its items, cut to the buffer. *)

LEMMA CutIs ==
  ASSUME NEW t \in Plain, NEW m \in Nat, NEW r \in Plain,
         Len(r) = IF m <= Len(t) THEN m ELSE Len(t), \A k \in 1 .. Len(r) : r[k] = t[k]
  PROVE  r = UpTo(m, t)
<1> DEFINE u == UpTo(m, t)
           V == 1 .. 255
<1>1. t \in Seq(V) /\ r \in Seq(V)
  BY DEF Plain
<1> HIDE DEF V
<1>2. u \in Seq(V) /\ Len(u) = Len(r) /\ \A k \in 1 .. Len(u) : u[k] = t[k]
  BY <1>1, UpToIs
<1> HIDE DEF u
<1>3. \A k \in 1 .. Len(r) : r[k] = u[k]
  BY <1>2
<1>4. r = u
  BY <1>1, <1>2, <1>3, SeqEqual
<1>5. QED
  BY <1>4 DEF u

LEMMA UpToPlain ==
  ASSUME NEW t \in Plain, NEW m \in Nat
  PROVE  /\ UpTo(m, t) \in Plain /\ Len(UpTo(m, t)) = IF m <= Len(t) THEN m ELSE Len(t)
         /\ Len(UpTo(m, t)) \in 0 .. m /\ \A k \in 1 .. Len(UpTo(m, t)) : UpTo(m, t)[k] = t[k]
<1> DEFINE V == 1 .. 255
<1>1. t \in Seq(V)
  BY DEF Plain
<1> HIDE DEF V
<1>2. /\ UpTo(m, t) \in Seq(V) /\ Len(UpTo(m, t)) = IF m <= Len(t) THEN m ELSE Len(t)
      /\ Len(UpTo(m, t)) \in Nat /\ Len(UpTo(m, t)) <= m
      /\ \A k \in 1 .. Len(UpTo(m, t)) : UpTo(m, t)[k] = t[k]
  BY <1>1, UpToIs
<1>3. QED
  BY <1>2 DEF Plain, V

LEMMA PlainJoined ==
  ASSUME NEW x \in Plain, NEW y \in Plain
  PROVE  /\ x \o y \in Plain /\ Len(x \o y) = Len(x) + Len(y) /\ Len(x) \in Nat /\ Len(y) \in Nat
         /\ \A i \in 1 .. Len(x) + Len(y) : (x \o y)[i] = IF i <= Len(x) THEN x[i] ELSE y[i - Len(x)]
BY Joined DEF Plain

(* Cutting the front before the rest is joined changes nothing. *)
LEMMA CutTwice ==
  ASSUME NEW x \in Plain, NEW y \in Plain, NEW m \in Nat
  PROVE  /\ UpTo(m, UpTo(m, x) \o y) = UpTo(m, x \o y)
         /\ m <= Len(UpTo(m, x)) => UpTo(m, x) = UpTo(m, x \o y)
<1> DEFINE u == UpTo(m, x)
           t == x \o y
           w == u \o y
           r == UpTo(m, w)
<1>1. /\ u \in Plain /\ Len(u) = (IF m <= Len(x) THEN m ELSE Len(x)) /\ \A k \in 1 .. Len(u) : u[k] = x[k]
  BY UpToPlain
<1> HIDE DEF u
<1>2. /\ t \in Plain /\ Len(t) = Len(x) + Len(y) /\ Len(x) \in Nat /\ Len(y) \in Nat
      /\ \A i \in 1 .. Len(x) + Len(y) : t[i] = IF i <= Len(x) THEN x[i] ELSE y[i - Len(x)]
  BY PlainJoined
<1>3. /\ w \in Plain /\ Len(w) = Len(u) + Len(y) /\ Len(u) \in Nat
      /\ \A i \in 1 .. Len(u) + Len(y) : w[i] = IF i <= Len(u) THEN u[i] ELSE y[i - Len(u)]
  BY <1>1, PlainJoined
<1> HIDE DEF t, w
<1>4. /\ r \in Plain /\ Len(r) = (IF m <= Len(w) THEN m ELSE Len(w)) /\ \A k \in 1 .. Len(r) : r[k] = w[k]
  BY <1>3, UpToPlain
<1> HIDE DEF r
<1>5. Len(r) = IF m <= Len(t) THEN m ELSE Len(t)
  BY <1>1, <1>2, <1>3, <1>4
<1>6. ASSUME NEW k \in 1 .. Len(r) PROVE r[k] = t[k]
  <2>1. CASE k <= Len(u)
    <3>1. k \in 1 .. Len(u) + Len(y) /\ k \in 1 .. Len(u) /\ k \in 1 .. Len(x) + Len(y) /\ k <= Len(x)
      BY <1>1, <1>2, <1>3, <2>1
    <3>2. w[k] = u[k] /\ u[k] = x[k] /\ t[k] = x[k]
      BY <1>1, <1>2, <1>3, <3>1
    <3>3. QED
      BY <1>4, <3>2
  <2>2. CASE ~(k <= Len(u))
    <3>1. k \in Nat /\ k <= Len(r) /\ Len(r) <= m /\ Len(r) <= Len(w)
      BY <1>1, <1>2, <1>3, <1>4
    <3>2. Len(u) = Len(x) /\ k \in 1 .. Len(u) + Len(y) /\ k \in 1 .. Len(x) + Len(y) /\ ~(k <= Len(x))
      BY <1>1, <1>2, <1>3, <2>2, <3>1
    <3>3. w[k] = y[k - Len(u)] /\ t[k] = y[k - Len(x)]
      BY <1>2, <1>3, <2>2, <3>2
    <3>4. QED
      BY <1>4, <3>2, <3>3
  <2>3. QED
    BY <2>1, <2>2
<1>7. r = UpTo(m, t)
  BY <1>2, <1>4, <1>5, <1>6, CutIs
<1>8. ASSUME m <= Len(u) PROVE u = UpTo(m, t)
  <2>1. Len(u) = m /\ m <= Len(x) /\ m <= Len(t)
    BY <1>1, <1>2, <1>8
  <2>2. ASSUME NEW k \in 1 .. Len(u) PROVE u[k] = t[k]
    <3>1. k \in 1 .. Len(x) + Len(y) /\ k <= Len(x)
      BY <1>2, <2>1
    <3>2. QED
      BY <1>1, <1>2, <3>1
  <2>3. QED
    BY <1>1, <1>2, <2>1, <2>2, CutIs
<1>9. QED
  BY <1>7, <1>8 DEF u, t, w, r

LEMMA WriteCharIs ==
  ASSUME NEW max \in Nat \ {0}, NEW acc \in Plain, Len(acc) <= max - 1, NEW c \in 1 .. 255
  PROVE  write_char(acc, max, c) = UpTo(max - 1, acc \o <<c>>)
<1> DEFINE t == acc \o <<c>>
           r == write_char(acc, max, c)
<1>1. <<c>> \in Plain /\ Len(<<c>>) = 1 /\ <<c>>[1] = c
  BY DEF Plain
<1>2. /\ t \in Plain /\ Len(t) = Len(acc) + 1 /\ Len(acc) \in Nat
      /\ \A i \in 1 .. Len(acc) + 1 : t[i] = IF i <= Len(acc) THEN acc[i] ELSE <<c>>[i - Len(acc)]
  BY <1>1, PlainJoined
<1>3. CASE Len(acc) < max - 1
  <2>1. r = Append(acc, c)
    BY <1>3 DEF write_char
  <2>2. /\ Append(acc, c) \in Plain /\ Len(Append(acc, c)) = Len(acc) + 1 /\ Append(acc, c)[Len(acc) + 1] = c
        /\ \A i \in 1 .. Len(acc) : Append(acc, c)[i] = acc[i]
    BY AppendProperties DEF Plain
  <2> HIDE DEF r, t
  <2>3. r \in Plain /\ Len(r) = Len(acc) + 1
    BY <2>1, <2>2
  <2>4. ASSUME NEW k \in 1 .. Len(r) PROVE r[k] = t[k]
    <3>1. CASE k <= Len(acc)
      BY <1>2, <2>1, <2>2, <2>3, <3>1
    <3>2. CASE ~(k <= Len(acc))
      <4>1. k = Len(acc) + 1 /\ k - Len(acc) = 1 /\ k \in 1 .. Len(acc) + 1
        BY <1>2, <2>3, <3>2
      <4>2. QED
        BY <1>1, <1>2, <2>1, <2>2, <3>2, <4>1
    <3>3. QED
      BY <3>1, <3>2
  <2>5. max - 1 \in Nat /\ Len(r) = IF max - 1 <= Len(t) THEN max - 1 ELSE Len(t)
    BY <1>2, <1>3, <2>3
  <2> DEFINE m == max - 1
  <2> HIDE DEF m
  <2>6. m \in Nat /\ Len(r) = IF m <= Len(t) THEN m ELSE Len(t)
    BY <2>5 DEF m
  <2>7. r = UpTo(m, t)
    BY <1>2, <2>3, <2>4, <2>6, CutIs
  <2>8. QED
    BY <2>7 DEF m, r, t
<1>4. CASE ~(Len(acc) < max - 1)
  <2>1. r = acc
    BY <1>4 DEF write_char
  <2> DEFINE m == max - 1
  <2>2. m \in Nat /\ Len(acc) = m /\ m <= Len(t)
    BY <1>2, <1>4
  <2>3. ASSUME NEW k \in 1 .. Len(acc) PROVE acc[k] = t[k]
    BY <1>2
  <2> HIDE DEF m, r, t
  <2>4. acc = UpTo(m, t)
    BY <1>2, <2>2, <2>3, CutIs
  <2>5. QED
    BY <2>1, <2>4 DEF m, r, t
<1>5. QED
  BY <1>3, <1>4

LEMMA WriteIs ==
  ASSUME NEW max \in Nat \ {0}, NEW acc \in Plain, Len(acc) <= max - 1, NEW s \in Plain
  PROVE  Write(acc, max, s) = UpTo(max - 1, acc \o s)
<1> DEFINE n == Len(s)
           a == Len(acc)
           m == max - 1
           t == acc \o s
           lp == <<"write", max, s>>
           g == Loop(lp, acc, n)
           Inv(i, r) == /\ r \in Plain /\ Len(r) = IF a + i <= m THEN a + i ELSE m
                        /\ \A k \in 1 .. Len(r) : r[k] = t[k]
           S == {i \in 0 .. n : Inv(i, g[i])}
<1>1. /\ t \in Plain /\ Len(t) = a + n /\ a \in Nat /\ n \in Nat
      /\ \A i \in 1 .. a + n : t[i] = IF i <= a THEN acc[i] ELSE s[i - a]
  BY PlainJoined
<1>2. m \in Nat /\ a <= m
  OBVIOUS
<1>3. g[0] = acc /\ \A i \in 1 .. n : g[i] = Advance(lp, g[i - 1], i)
  BY <1>1, LoopEquations
<1>4. \A x, i : Advance(lp, x, i) = write_char(x, max, s[i])
  BY DEF Advance
<1>5. Write(acc, max, s) = g[n]
  BY WriteIsLoop
<1>6. \A x, c : write_char(x, max, c) = IF Len(x) < m THEN Append(x, c) ELSE x
  BY DEF write_char
<1> HIDE DEF lp, g, t, m
<1>7. 0 \in S
  <2>1. Inv(0, acc)
    <3>1. Len(acc) = IF a + 0 <= m THEN a + 0 ELSE m
      BY <1>1, <1>2
    <3>2. \A k \in 1 .. Len(acc) : acc[k] = t[k]
      BY <1>1
    <3>3. QED
      BY <3>1, <3>2
  <2> HIDE DEF Inv
  <2>2. QED
    BY <1>1, <1>3, <2>1
<1>8. ASSUME NEW i \in 0 .. n - 1, i \in S PROVE i + 1 \in S
  <2> DEFINE r == g[i]
             c == s[i + 1]
             x == write_char(r, max, c)
  <2>1. /\ r \in Plain /\ Len(r) = (IF a + i <= m THEN a + i ELSE m)
        /\ \A k \in 1 .. Len(r) : r[k] = t[k]
    BY <1>8
  <2>2. i + 1 \in 1 .. n /\ (i + 1) - 1 = i /\ i + 1 \in 0 .. n /\ i \in Nat
    BY <1>1
  <2>3. g[i + 1] = x
    BY <1>3, <1>4, <2>2
  <2>4. c \in 1 .. 255
    BY <2>2, ElementOfSeq DEF Plain
  <2> HIDE DEF r, c, x
  <2>5. CASE Len(r) < m
    <3>1. x = Append(r, c)
      BY <1>6, <2>5 DEF x
    <3>2. Len(r) = a + i /\ a + i + 1 <= m
      BY <1>1, <1>2, <2>1, <2>2, <2>5
    <3>3. /\ x \in Plain /\ Len(x) = Len(r) + 1 /\ x[Len(r) + 1] = c
          /\ \A k \in 1 .. Len(r) : x[k] = r[k]
      BY <2>1, <2>4, <3>1, AppendProperties DEF Plain
    <3>4. Len(x) = IF a + (i + 1) <= m THEN a + (i + 1) ELSE m
      BY <1>1, <1>2, <2>2, <3>2, <3>3
    <3>5. ASSUME NEW k \in 1 .. Len(x) PROVE x[k] = t[k]
      <4>1. CASE k <= Len(r)
        BY <1>1, <2>1, <2>2, <3>2, <3>3, <4>1
      <4>2. CASE ~(k <= Len(r))
        <5>1. k = a + i + 1 /\ k \in 1 .. a + n /\ ~(k <= a) /\ k - a = i + 1 /\ k = Len(r) + 1
          <6>1. Len(x) = Len(r) + 1 /\ a \in Nat /\ n \in Nat
            BY <1>1, <3>3
          <6> HIDE DEF a, n, S, Inv
          <6>2. k = Len(r) + 1 /\ k = a + i + 1
            BY <2>2, <3>2, <4>2, <6>1
          <6>3. QED
            BY <2>2, <6>1, <6>2
        <5>2. x[k] = c
          BY <3>3, <5>1
        <5>3. t[k] = s[i + 1]
          BY <1>1, <5>1
        <5>4. QED
          BY <5>2, <5>3 DEF c
      <4>3. QED
        BY <4>1, <4>2
    <3>6. Inv(i + 1, x)
      BY <3>3, <3>4, <3>5
    <3> HIDE DEF Inv
    <3>7. QED
      BY <2>2, <2>3, <3>6
  <2>6. CASE ~(Len(r) < m)
    <3>1. x = r
      BY <1>6, <2>6 DEF x
    <3>2. Len(r) = IF a + (i + 1) <= m THEN a + (i + 1) ELSE m
      BY <1>1, <1>2, <2>1, <2>2, <2>6
    <3>3. Inv(i + 1, x)
      BY <2>1, <3>1, <3>2
    <3> HIDE DEF Inv
    <3>4. QED
      BY <2>2, <2>3, <3>3
  <2>7. QED
    BY <2>5, <2>6
<1>9. n \in S
  <2> HIDE DEF S
  <2>1. \A i \in 0 .. n : i \in S
    BY <1>1, <1>7, <1>8, SetInduction
  <2>2. QED
    BY <1>1, <2>1
<1>10. Inv(n, g[n])
  BY <1>9
<1>11. Len(g[n]) = IF m <= Len(t) THEN m ELSE Len(t)
  BY <1>1, <1>2, <1>10
<1>12. g[n] = UpTo(m, t)
  <2> DEFINE r == g[n]
  <2>1. r \in Plain /\ Len(r) = (IF m <= Len(t) THEN m ELSE Len(t)) /\ \A k \in 1 .. Len(r) : r[k] = t[k]
    BY <1>10, <1>11
  <2> HIDE DEF r
  <2>2. r = UpTo(m, t)
    BY <1>1, <1>2, <2>1, CutIs
  <2>3. QED
    BY <2>2 DEF r
<1>13. QED
  BY <1>5, <1>12 DEF m, t

LEMMA WrittenInTurn ==
  ASSUME NEW m \in Nat, NEW acc \in Plain, NEW x \in Plain, NEW y \in Plain
  PROVE  UpTo(m, UpTo(m, acc \o x) \o y) = UpTo(m, acc \o (x \o y))
<1>1. acc \o x \in Plain
  BY PlainJoined
<1>2. UpTo(m, UpTo(m, acc \o x) \o y) = UpTo(m, (acc \o x) \o y)
  BY <1>1, CutTwice
<1>3. (acc \o x) \o y = acc \o (x \o y)
  BY ConcatAssociative DEF Plain
<1>4. QED
  BY <1>2, <1>3

LEMMA PadPlain ==
  ASSUME NEW width \in Nat, NEW used \in Nat, NEW c \in 1 .. 255
  PROVE  Pad(width, used, c) \in Plain
<1> DEFINE V == 1 .. 255
<1>1. c \in V
  OBVIOUS
<1> HIDE DEF V
<1>2. Pad(width, used, c) \in Seq(V)
  BY <1>1, PadIs
<1>3. QED
  BY <1>2 DEF Plain, V

LEMMA PadElements ==
  ASSUME NEW width \in Nat, NEW used \in Nat, NEW c
  PROVE  /\ Len(Pad(width, used, c)) = IF width > used THEN width - used ELSE 0
         /\ \A i \in 1 .. Len(Pad(width, used, c)) : Pad(width, used, c)[i] = c
<1> DEFINE V == {c}
<1>1. c \in V
  OBVIOUS
<1> HIDE DEF V
<1>2. QED
  BY <1>1, PadIs

LEMMA NumeralIs ==
  ASSUME NEW val \in Nat, NEW base \in {10, 16}, NEW width \in Nat, NEW pad \in {SPACE, 48}
  PROVE  Numeral(val, base, width, pad) \in Plain
<1> DEFINE tmp == Digits(val, base)
<1>1. tmp \in Plain
  BY DigitsSpell DEF Spells
<1> HIDE DEF tmp
<1>2. Len(tmp) \in Nat /\ pad \in 1 .. 255
  BY <1>1 DEF Plain, SPACE
<1>3. Pad(width, Len(tmp), pad) \in Plain
  BY <1>2, PadPlain
<1>4. Pad(width, Len(tmp), pad) \o tmp \in Plain
  BY <1>1, <1>3, PlainJoined
<1>5. QED
  BY <1>4 DEF Numeral, tmp

IsNumber(f) ==
  f.conv \in {"d", "u", "x", "p"} /\ f.width \in Nat /\ f.pad \in {SPACE, 48} /\ f.arg \in Int
IsItem(f) == \/ IsNumber(f)
             \/ f.conv = "s" /\ f.width \in Nat /\ f.arg \in Plain
             \/ f.conv = "lit" /\ f.arg \in 1 .. 255
             \/ f.conv = "?"

LEMMA Residues ==
  ASSUME NEW v \in Int
  PROVE  v % WORD \in Nat /\ v % WORD \in 0 .. WORD - 1 /\ Magnitude(v) \in Nat
<1>1. WORD \in Nat /\ WORD > 0 /\ WORD * WORD \in Nat /\ WORD * WORD > 0
  <2>1. WORD \in Nat /\ WORD > 0
    BY TextAssumption
  <2>2. QED
    BY <2>1
<1>2. v % WORD \in 0 .. WORD - 1
  BY <1>1
<1> DEFINE q == WORD * WORD
           u == IF v = -(WORD \div 2) THEN v ELSE -v
<1>3. u \in Int /\ q \in Nat /\ q > 0
  BY <1>1
<1>4. Magnitude(v) = u % q
  BY DEF Magnitude
<1> HIDE DEF q, u
<1>5. u % q \in Nat
  BY <1>3
<1>6. QED
  BY <1>1, <1>2, <1>4, <1>5

LEMMA ItemTextIs ==
  ASSUME NEW f, IsItem(f)
  PROVE  ItemText(f) \in Plain
<1>1. CASE f.conv = "lit"
  <2>1. f.arg \in 1 .. 255 /\ ItemText(f) = <<f.arg>>
    BY <1>1 DEF IsItem, IsNumber, ItemText
  <2>2. QED
    BY <2>1 DEF Plain
<1>2. CASE f.conv = "s"
  <2>1. f.width \in Nat /\ f.arg \in Plain /\ ItemText(f) = Pad(f.width, Len(f.arg), SPACE) \o f.arg
    BY <1>2 DEF IsItem, IsNumber, ItemText
  <2>2. Len(f.arg) \in Nat /\ SPACE \in 1 .. 255
    BY <2>1 DEF Plain, SPACE
  <2>3. Pad(f.width, Len(f.arg), SPACE) \in Plain
    BY <2>1, <2>2, PadPlain
  <2>4. QED
    BY <2>1, <2>3, PlainJoined
<1>3. CASE f.conv = "?"
  <2>1. ItemText(f) = <<63>>
    BY <1>3 DEF ItemText
  <2>2. QED
    BY <2>1 DEF Plain
<1>4. CASE IsNumber(f)
  <2>1. f.conv \in {"d", "u", "x", "p"} /\ f.width \in Nat /\ f.pad \in {SPACE, 48} /\ f.arg \in Int
    BY <1>4 DEF IsNumber
  <2>2. f.arg % WORD \in Nat /\ Magnitude(f.arg) \in Nat
    BY <2>1, Residues
  <2>3. <<MINUS>> \in Plain /\ <<48, 120>> \in Plain
    BY DEF Plain, MINUS
  <2>4. CASE f.conv = "d" /\ f.arg < 0
    <3>1. ItemText(f) = <<MINUS>> \o Numeral(Magnitude(f.arg), 10, f.width, f.pad)
      BY <2>4 DEF ItemText
    <3>2. Numeral(Magnitude(f.arg), 10, f.width, f.pad) \in Plain
      BY <2>1, <2>2, NumeralIs
    <3>3. QED
      BY <2>3, <3>1, <3>2, PlainJoined
  <2>5. CASE f.conv = "d" /\ ~(f.arg < 0)
    <3>1. ItemText(f) = Numeral(f.arg, 10, f.width, f.pad) /\ f.arg \in Nat
      BY <2>1, <2>5 DEF ItemText
    <3>2. QED
      BY <2>1, <3>1, NumeralIs
  <2>6. CASE f.conv = "u"
    <3>1. ItemText(f) = Numeral(f.arg % WORD, 10, f.width, f.pad)
      BY <2>6 DEF ItemText
    <3>2. QED
      BY <2>1, <2>2, <3>1, NumeralIs
  <2>7. CASE f.conv = "x"
    <3>1. ItemText(f) = Numeral(f.arg % WORD, 16, f.width, f.pad)
      BY <2>7 DEF ItemText
    <3>2. QED
      BY <2>1, <2>2, <3>1, NumeralIs
  <2>8. CASE f.conv = "p"
    <3>1. ItemText(f) = <<48, 120>> \o Numeral(f.arg % WORD, 16, 8, 48)
      BY <2>8 DEF ItemText
    <3>2. Numeral(f.arg % WORD, 16, 8, 48) \in Plain
      BY <2>2, NumeralIs
    <3>3. QED
      BY <2>3, <3>1, <3>2, PlainJoined
  <2>9. QED
    BY <2>1, <2>4, <2>5, <2>6, <2>7, <2>8
<1>5. QED
  BY <1>1, <1>2, <1>3, <1>4 DEF IsItem

LEMMA WriteUintIs ==
  ASSUME NEW size \in Nat \ {0}, NEW acc \in Plain, Len(acc) <= size - 1,
         NEW val \in Nat, NEW base \in {10, 16}, NEW width \in Nat, NEW pad \in {SPACE, 48}
  PROVE  write_uint(acc, size, val, base, width, pad) = UpTo(size - 1, acc \o Numeral(val, base, width, pad))
<1>1. write_uint(acc, size, val, base, width, pad) = Write(acc, size, Numeral(val, base, width, pad))
  BY DEF write_uint, Numeral
<1>2. Numeral(val, base, width, pad) \in Plain
  BY NumeralIs
<1>3. QED
  BY <1>1, <1>2, WriteIs

LEMMA WriteUintAfter ==
  ASSUME NEW size \in Nat \ {0}, NEW acc \in Plain, NEW x \in Plain,
         NEW val \in Nat, NEW base \in {10, 16}, NEW width \in Nat, NEW pad \in {SPACE, 48}
  PROVE  write_uint(UpTo(size - 1, acc \o x), size, val, base, width, pad)
           = UpTo(size - 1, acc \o (x \o Numeral(val, base, width, pad)))
<1> DEFINE m == size - 1
           a == UpTo(m, acc \o x)
           y == Numeral(val, base, width, pad)
<1>1. m \in Nat
  OBVIOUS
<1>2. acc \o x \in Plain /\ y \in Plain
  BY PlainJoined, NumeralIs
<1> HIDE DEF y
<1>3. a \in Plain /\ Len(a) <= m
  <2> HIDE DEF m
  <2>1. a \in Plain /\ Len(a) \in 0 .. m
    BY <1>1, <1>2, UpToPlain
  <2>2. QED
    BY <1>1, <2>1
<1>4. write_uint(a, size, val, base, width, pad) = UpTo(m, a \o y)
  <2> HIDE DEF a
  <2>1. QED
    BY <1>3, WriteUintIs DEF y
<1>5. UpTo(m, a \o y) = UpTo(m, acc \o (x \o y))
  <2> HIDE DEF m
  <2>1. QED
    BY <1>1, <1>2, WrittenInTurn
<1>6. QED
  BY <1>4, <1>5 DEF y

LEMMA ConvertIs ==
  ASSUME NEW size \in Nat \ {0}, NEW acc \in Plain, Len(acc) <= size - 1, NEW f, IsItem(f)
  PROVE  Convert(acc, size, f) = UpTo(size - 1, acc \o ItemText(f))
<1>1. CASE f.conv = "lit"
  <2>1. f.arg \in 1 .. 255 /\ ItemText(f) = <<f.arg>>
    BY <1>1 DEF IsItem, IsNumber, ItemText
  <2>2. Convert(acc, size, f) = write_char(acc, size, f.arg)
    BY <1>1 DEF Convert
  <2>3. QED
    BY <2>1, <2>2, WriteCharIs
<1>2. CASE f.conv = "s"
  <2>1. ItemText(f) = Pad(f.width, Len(f.arg), SPACE) \o f.arg
    BY <1>2 DEF ItemText
  <2>2. Convert(acc, size, f) = Write(acc, size, ItemText(f))
    BY <1>2, <2>1 DEF Convert, write_str
  <2>3. ItemText(f) \in Plain
    BY ItemTextIs
  <2>4. QED
    BY <2>2, <2>3, WriteIs
<1>3. CASE f.conv = "?"
  <2> DEFINE c == 63
  <2>1. ItemText(f) = <<c>> /\ c \in 1 .. 255
    BY <1>3 DEF ItemText
  <2>2. Convert(acc, size, f) = write_char(acc, size, c)
    BY <1>3 DEF Convert
  <2> HIDE DEF c
  <2>3. QED
    BY <2>1, <2>2, WriteCharIs
<1>4. CASE IsNumber(f)
  <2>1. f.conv \in {"d", "u", "x", "p"} /\ f.width \in Nat /\ f.pad \in {SPACE, 48} /\ f.arg \in Int
    BY <1>4 DEF IsNumber
  <2>2. f.arg % WORD \in Nat /\ Magnitude(f.arg) \in Nat
    BY <2>1, Residues
  <2>3. <<MINUS>> \in Plain /\ <<48, 120>> \in Plain /\ MINUS \in 1 .. 255
    BY DEF Plain, MINUS
  <2>4. CASE f.conv = "d" /\ f.arg < 0
    <3>1. ItemText(f) = <<MINUS>> \o Numeral(Magnitude(f.arg), 10, f.width, f.pad)
      BY <2>4 DEF ItemText
    <3>2. Convert(acc, size, f) = write_uint(write_char(acc, size, MINUS), size, Magnitude(f.arg), 10, f.width, f.pad)
      BY <2>4 DEF Convert, Magnitude
    <3>3. write_char(acc, size, MINUS) = UpTo(size - 1, acc \o <<MINUS>>)
      BY <2>3, WriteCharIs
    <3>4. write_uint(UpTo(size - 1, acc \o <<MINUS>>), size, Magnitude(f.arg), 10, f.width, f.pad)
            = UpTo(size - 1, acc \o (<<MINUS>> \o Numeral(Magnitude(f.arg), 10, f.width, f.pad)))
      <4> DEFINE x == <<MINUS>>
                 v == Magnitude(f.arg)
                 w == f.width
                 p == f.pad
                 b == 10
      <4>1. x \in Plain /\ v \in Nat /\ w \in Nat /\ p \in {SPACE, 48} /\ b \in {10, 16}
        BY <2>1, <2>2, <2>3
      <4> HIDE DEF x, v, w, p, b
      <4>2. write_uint(UpTo(size - 1, acc \o x), size, v, b, w, p) = UpTo(size - 1, acc \o (x \o Numeral(v, b, w, p)))
        BY <4>1, WriteUintAfter
      <4>3. QED
        BY <4>2 DEF x, v, w, p, b
    <3>5. QED
      BY <3>1, <3>2, <3>3, <3>4
  <2>5. CASE f.conv = "d" /\ ~(f.arg < 0)
    <3>1. ItemText(f) = Numeral(f.arg, 10, f.width, f.pad) /\ f.arg \in Nat
      BY <2>1, <2>5 DEF ItemText
    <3>2. Convert(acc, size, f) = write_uint(acc, size, f.arg, 10, f.width, f.pad)
      BY <2>5 DEF Convert
    <3>3. QED
      BY <2>1, <3>1, <3>2, WriteUintIs
  <2>6. CASE f.conv = "u"
    <3>1. ItemText(f) = Numeral(f.arg % WORD, 10, f.width, f.pad)
      BY <2>6 DEF ItemText
    <3>2. Convert(acc, size, f) = write_uint(acc, size, f.arg % WORD, 10, f.width, f.pad)
      BY <2>6 DEF Convert
    <3>3. QED
      BY <2>1, <2>2, <3>1, <3>2, WriteUintIs
  <2>7. CASE f.conv = "x"
    <3>1. ItemText(f) = Numeral(f.arg % WORD, 16, f.width, f.pad)
      BY <2>7 DEF ItemText
    <3>2. Convert(acc, size, f) = write_uint(acc, size, f.arg % WORD, 16, f.width, f.pad)
      BY <2>7 DEF Convert
    <3>3. QED
      BY <2>1, <2>2, <3>1, <3>2, WriteUintIs
  <2>8. CASE f.conv = "p"
    <3>1. ItemText(f) = <<48, 120>> \o Numeral(f.arg % WORD, 16, 8, 48)
      BY <2>8 DEF ItemText
    <3>2. Convert(acc, size, f) = write_uint(Write(acc, size, <<48, 120>>), size, f.arg % WORD, 16, 8, 48)
      BY <2>8 DEF Convert
    <3>3. Write(acc, size, <<48, 120>>) = UpTo(size - 1, acc \o <<48, 120>>)
      BY <2>3, WriteIs
    <3>4. QED
      BY <2>2, <2>3, <3>1, <3>2, <3>3, WriteUintAfter
  <2>9. QED
    BY <2>1, <2>4, <2>5, <2>6, <2>7, <2>8
<1>5. QED
  BY <1>1, <1>2, <1>3, <1>4 DEF IsItem

(* The text of a format, its items in order. *)
FullText(fmt) == Loop(<<"text", fmt>>, <<>>, Len(fmt))[Len(fmt)]

LEMMA PrintIs ==
  ASSUME NEW fmt, Len(fmt) \in Nat, \A i \in 1 .. Len(fmt) : IsItem(fmt[i])
  PROVE  /\ FullText(fmt) \in Plain
         /\ \A size \in Nat \ {0} : luna_snprintf(size, fmt) = C(UpTo(size - 1, FullText(fmt)))
<1> DEFINE n == Len(fmt)
           ft == <<"text", fmt>>
           t == Loop(ft, <<>>, n)
           S == {i \in 0 .. n : t[i] \in Plain}
<1>1. t[0] = <<>> /\ \A i \in 1 .. n : t[i] = Advance(ft, t[i - 1], i)
  BY LoopEquations
<1>2. \A x, i : Advance(ft, x, i) = x \o ItemText(fmt[i])
  BY DEF Advance
<1>3. FullText(fmt) = t[n]
  BY DEF FullText
<1> HIDE DEF t, ft
<1>4. <<>> \in Plain /\ Len(<<>>) = 0
  BY DEF Plain
<1>5. ASSUME NEW i \in 0 .. n - 1 PROVE /\ t[i + 1] = t[i] \o ItemText(fmt[i + 1]) /\ ItemText(fmt[i + 1]) \in Plain
                                        /\ i + 1 \in 1 .. n /\ (i + 1) - 1 = i /\ i + 1 \in 0 .. n
  <2>1. i + 1 \in 1 .. n /\ (i + 1) - 1 = i /\ i + 1 \in 0 .. n
    OBVIOUS
  <2>2. ItemText(fmt[i + 1]) \in Plain
    BY <2>1, ItemTextIs
  <2>3. QED
    BY <1>1, <1>2, <2>1, <2>2
<1>6. \A i \in 0 .. n : t[i] \in Plain
  <2>1. 0 \in S
    BY <1>1, <1>4
  <2>2. ASSUME NEW i \in 0 .. n - 1, i \in S PROVE i + 1 \in S
    <3>1. t[i] \in Plain
      BY <2>2
    <3>2. t[i] \o ItemText(fmt[i + 1]) \in Plain
      BY <1>5, <3>1, PlainJoined
    <3>3. QED
      BY <1>5, <3>2
  <2> HIDE DEF S
  <2>3. \A i \in 0 .. n : i \in S
    BY <2>1, <2>2, SetInduction
  <2>4. QED
    BY <2>3 DEF S
<1>7. ASSUME NEW size \in Nat \ {0}
      PROVE  luna_snprintf(size, fmt) = C(UpTo(size - 1, t[n]))
  <2> DEFINE lp == <<"print", size, fmt>>
             m == size - 1
             g == Loop(lp, <<>>, n)
             R == {i \in 0 .. n : g[i] = UpTo(m, t[i])}
  <2>1. g[0] = <<>> /\ \A i \in 1 .. n : g[i] = Advance(lp, g[i - 1], i)
    BY LoopEquations
  <2>2. \A x, i : Advance(lp, x, i) = PrintTurn(x, size, fmt[i])
    BY DEF Advance
  <2>3. luna_snprintf(size, fmt) = C(g[n])
    BY PrintIsLoop
  <2>4. m \in Nat
    OBVIOUS
  <2> HIDE DEF lp, g, m
  <2>5. 0 \in R
    <3>1. Len(<<>>) = (IF m <= Len(<<>>) THEN m ELSE Len(<<>>)) /\ \A k \in 1 .. Len(<<>>) : <<>>[k] = <<>>[k]
      BY <2>4
    <3>2. <<>> = UpTo(m, <<>>)
      BY <1>4, <2>4, <3>1, CutIs
    <3>3. QED
      BY <1>1, <2>1, <3>2
  <2>6. ASSUME NEW i \in 0 .. n - 1, i \in R PROVE i + 1 \in R
    <3> DEFINE x == t[i]
               f == fmt[i + 1]
               y == ItemText(f)
               u == UpTo(m, x)
    <3>1. g[i] = u
      BY <2>6
    <3>2. t[i + 1] = x \o y /\ y \in Plain /\ i + 1 \in 0 .. n /\ i + 1 \in 1 .. n /\ (i + 1) - 1 = i
      BY <1>5
    <3>3. g[i + 1] = PrintTurn(u, size, f)
      BY <2>1, <2>2, <3>1, <3>2
    <3>4. IsItem(f) /\ x \in Plain
      BY <1>6, <3>2
    <3> HIDE DEF x, f
    <3>5. u \in Plain /\ Len(u) \in 0 .. m
      BY <2>4, <3>4, UpToPlain
    <3>6. UpTo(m, u \o y) = UpTo(m, x \o y) /\ (m <= Len(u) => u = UpTo(m, x \o y))
      <4> HIDE DEF y
      <4>1. QED
        BY <2>4, <3>2, <3>4, CutTwice
    <3> HIDE DEF u
    <3>7. CASE Len(u) < m
      <4>1. PrintTurn(u, size, f) = Convert(u, size, f)
        BY <3>7 DEF PrintTurn, m
      <4>2. Len(u) <= size - 1
        BY <2>4, <3>5 DEF m
      <4>3. Convert(u, size, f) = UpTo(size - 1, u \o y)
        BY <3>4, <3>5, <4>2, ConvertIs
      <4>4. g[i + 1] = UpTo(m, x \o y)
        BY <3>3, <3>6, <4>1, <4>3 DEF m
      <4>5. QED
        BY <3>2, <4>4
    <3>8. CASE ~(Len(u) < m)
      <4>1. PrintTurn(u, size, f) = u
        BY <3>8 DEF PrintTurn, m
      <4>2. m <= Len(u)
        BY <2>4, <3>5, <3>8
      <4>3. QED
        BY <3>2, <3>3, <3>6, <4>1, <4>2
    <3>9. QED
      BY <3>7, <3>8
  <2>7. n \in R
    <3> HIDE DEF R
    <3>1. \A i \in 0 .. n : i \in R
      BY <2>5, <2>6, SetInduction
    <3>2. QED
      BY <3>1
  <2>8. g[n] = UpTo(m, t[n])
    BY <2>7
  <2>9. QED
    BY <2>3, <2>8 DEF m
<1>8. n \in 0 .. n
  OBVIOUS
<1>9. QED
  BY <1>3, <1>6, <1>7, <1>8

LEMMA StrOfString ==
  ASSUME NEW s \in Plain
  PROVE  Str(C(s)) = s
<1>1. C(s) \in Seq(Byte) /\ Len(C(s)) = Len(s) + 1 /\ Len(s) \in Nat
  BY Terminated
<1>2. (\A i \in 1 .. Len(s) : C(s)[i] = s[i]) /\ C(s)[Len(s) + 1] = 0
  BY AppendProperties DEF C, NUL, Plain
<1>3. Len(s) < Len(C(s))
  BY <1>1
<1>4. QED
  BY <1>1, <1>2, <1>3, StrIs

LEMMA CutLess ==
  ASSUME NEW t \in Plain, NEW m \in Nat, NEW l \in Nat, m <= l
  PROVE  UpTo(m, UpTo(l, t)) = UpTo(m, t)
<1> DEFINE u == UpTo(l, t)
           r == UpTo(m, u)
<1>1. u \in Plain /\ Len(u) = (IF l <= Len(t) THEN l ELSE Len(t)) /\ \A k \in 1 .. Len(u) : u[k] = t[k]
  BY UpToPlain
<1> HIDE DEF u
<1>2. /\ r \in Plain /\ Len(r) = (IF m <= Len(u) THEN m ELSE Len(u)) /\ \A k \in 1 .. Len(r) : r[k] = u[k]
  BY <1>1, UpToPlain
<1> HIDE DEF r
<1>3. Len(t) \in Nat /\ Len(u) \in Nat /\ Len(r) \in Nat
  BY <1>1, <1>2 DEF Plain
<1>4. Len(r) = (IF m <= Len(t) THEN m ELSE Len(t)) /\ Len(r) <= Len(u)
  BY <1>1, <1>2, <1>3
<1>5. ASSUME NEW k \in 1 .. Len(r) PROVE r[k] = t[k]
  <2>1. k \in 1 .. Len(u)
    BY <1>3, <1>4
  <2>2. QED
    BY <1>1, <1>2, <2>1
<1>6. r = UpTo(m, t)
  BY <1>2, <1>4, <1>5, CutIs
<1>7. QED
  BY <1>6 DEF r, u

LEMMA FormatsAre ==
  ASSUME NEW fmt \in Formats
  PROVE  /\ Len(fmt) \in {1, 2} /\ \A i \in 1 .. Len(fmt) : IsItem(fmt[i])
         /\ fmt[1].conv # "s" => Len(fmt) = 1 /\ IsNumber(fmt[1]) /\ fmt[1].arg \in -(WORD \div 2) .. WORD \div 2 - 1
<1> DEFINE Args == -(WORD \div 2) .. WORD \div 2 - 1
<1>1. \A a \in Args : a \in Int
  BY TextAssumption
<1> HIDE DEF Args
<1>2. CASE fmt \in {<<Item(conv, w, pad, v)>> : conv \in {"d", "u", "x", "p"}, w \in Widths, pad \in {SPACE, 48}, v \in Args}
  <2>1. PICK conv \in {"d", "u", "x", "p"}, w \in Widths, pad \in {SPACE, 48}, v \in Args : fmt = <<Item(conv, w, pad, v)>>
    BY <1>2
  <2> DEFINE f == Item(conv, w, pad, v)
  <2>2. f.conv = conv /\ f.width = w /\ f.pad = pad /\ f.arg = v
    BY DEF Item
  <2> HIDE DEF f
  <2>3. Len(fmt) = 1 /\ fmt[1] = f
    BY <2>1 DEF f
  <2>4. w \in Nat /\ v \in Int
    BY <1>1, TextAssumption
  <2>5. IsNumber(f)
    BY <2>2, <2>4 DEF IsNumber
  <2>6. \A i \in 1 .. Len(fmt) : i = 1
    BY <2>3
  <2>7. QED
    BY <2>2, <2>3, <2>5, <2>6 DEF IsItem, Args
<1>3. CASE fmt \in {<<Item("s", w, SPACE, s), Item(conv, 0, SPACE, 7)>> : w \in Widths, s \in Strings, conv \in {"lit", "d", "?"}}
  <2>1. PICK w \in Widths, s \in Strings, conv \in {"lit", "d", "?"} : fmt = <<Item("s", w, SPACE, s), Item(conv, 0, SPACE, 7)>>
    BY <1>3
  <2> DEFINE f == Item("s", w, SPACE, s)
             e == Item(conv, 0, SPACE, 7)
  <2>2. f.conv = "s" /\ f.width = w /\ f.arg = s /\ e.conv = conv /\ e.width = 0 /\ e.pad = SPACE /\ e.arg = 7
    BY DEF Item
  <2> HIDE DEF f, e
  <2>3. Len(fmt) = 2 /\ fmt[1] = f /\ fmt[2] = e
    BY <2>1 DEF f, e
  <2>4. w \in Nat /\ s \in Plain
    BY TextAssumption, StringsArePlain
  <2>5. IsItem(f)
    BY <2>2, <2>4 DEF IsItem
  <2>6. IsItem(e)
    BY <2>2 DEF IsItem, IsNumber
  <2>7. \A i \in 1 .. Len(fmt) : i = 1 \/ i = 2
    BY <2>3
  <2>8. QED
    BY <2>2, <2>3, <2>5, <2>6, <2>7
<1>4. QED
  BY <1>2, <1>3 DEF Formats, Args

LEMMA PrintedFits ==
  ASSUME NEW fmt \in Formats, NEW size \in Sizes
  PROVE  /\ Len(luna_snprintf(size, fmt)) <= size
         /\ \A larger \in Sizes : size > 0 /\ larger >= size =>
              luna_snprintf(size, fmt) = C(UpTo(size - 1, Str(luna_snprintf(larger, fmt))))
<1> DEFINE t == FullText(fmt)
<1>1. size \in Nat /\ \A larger \in Sizes : larger \in Nat
  BY TextAssumption
<1>2. Len(fmt) \in Nat /\ \A i \in 1 .. Len(fmt) : IsItem(fmt[i])
  BY FormatsAre
<1>3. t \in Plain /\ \A n \in Nat \ {0} : luna_snprintf(n, fmt) = C(UpTo(n - 1, t))
  BY <1>2, PrintIs
<1> HIDE DEF t
<1>4. CASE size = 0
  <2>1. luna_snprintf(size, fmt) = <<>>
    BY <1>4 DEF luna_snprintf
  <2>2. QED
    BY <1>4, <2>1
<1>5. CASE size # 0
  <2> DEFINE m == size - 1
             u == UpTo(m, t)
  <2>1. m \in Nat /\ size = m + 1
    BY <1>1, <1>5
  <2>2. luna_snprintf(size, fmt) = C(u)
    BY <1>1, <1>3, <1>5
  <2> HIDE DEF m
  <2>3. u \in Plain /\ Len(u) \in 0 .. m
    BY <1>3, <2>1, UpToPlain
  <2> HIDE DEF u
  <2>4. Len(C(u)) = Len(u) + 1
    BY <2>3, Terminated
  <2>5. ASSUME NEW larger \in Sizes, larger >= size
        PROVE  luna_snprintf(size, fmt) = C(UpTo(m, Str(luna_snprintf(larger, fmt))))
    <3> DEFINE l == larger - 1
    <3>1. l \in Nat /\ m <= l /\ larger \in Nat \ {0}
      BY <1>1, <2>1, <2>5
    <3>2. luna_snprintf(larger, fmt) = C(UpTo(l, t))
      BY <1>3, <3>1
    <3> HIDE DEF l
    <3>3. UpTo(l, t) \in Plain
      BY <1>3, <3>1, UpToPlain
    <3>4. Str(C(UpTo(l, t))) = UpTo(l, t)
      BY <3>3, StrOfString
    <3>5. UpTo(m, UpTo(l, t)) = u
      BY <1>3, <2>1, <3>1, CutLess DEF u
    <3>6. QED
      BY <2>2, <3>2, <3>4, <3>5
  <2>6. Len(luna_snprintf(size, fmt)) <= size
    BY <2>1, <2>2, <2>3, <2>4
  <2>7. QED
    BY <2>5, <2>6 DEF m
<1>6. QED
  BY <1>4, <1>5

(* luna_snprintf never writes past its buffer and always terminates it,    *)
(* and what a small buffer holds is the front of what a larger one does.   *)
THEOREM FormattedTextFits == Spec => []FormatFits
<1>1. Init => FormatFits
  BY DEF Init, FormatFits
<1>2. FormatFits /\ [Next]_vars => FormatFits'
  <2> SUFFICES ASSUME FormatFits, [Next]_vars PROVE FormatFits'
    OBVIOUS
  <2>1. CASE Format
    <3>1. PICK fmt \in Formats, size \in Sizes : in' = [fmt |-> fmt, size |-> size] /\ out' = luna_snprintf(size, fmt)
      BY <2>1 DEF Format
    <3>2. in'.fmt = fmt /\ in'.size = size
      BY <3>1
    <3>3. QED
      BY <3>1, <3>2, PrintedFits DEF FormatFits
  <2>2. CASE Next /\ ~Format
    <3>1. op' # "print"
      BY <2>2 DEF Next, Memory, Compare, Search, Copy, Tokenize, Lex, Hash, Return
    <3>2. QED
      BY <3>1 DEF FormatFits
  <2>3. CASE UNCHANGED vars
    BY <2>3 DEF FormatFits, vars
  <2>4. QED
    BY <2>1, <2>2, <2>3
<1>3. QED
  BY <1>1, <1>2, PTL DEF Spec
-----------------------------------------------------------------------------
(* Printed numbers parse back. *)

(* The buffer that holds the strings z and s. *)
LEMMA TwoStrings ==
  ASSUME NEW z \in Plain, NEW s \in Plain
  PROVE  /\ Len(C(z \o s)) = Len(z) + Len(s) + 1 /\ Len(z) \in Nat /\ Len(s) \in Nat
         /\ \A i \in 0 .. Len(z) - 1 : At(C(z \o s), i) = z[i + 1]
         /\ \A i \in 1 .. Len(s) : At(C(z \o s), Len(z) + i - 1) = s[i]
         /\ At(C(z \o s), Len(z) + Len(s)) = 0
<1> DEFINE t == z \o s
           m == Len(z)
           n == Len(s)
<1>1. /\ t \in Plain /\ Len(t) = m + n /\ m \in Nat /\ n \in Nat
      /\ \A i \in 1 .. m + n : t[i] = IF i <= m THEN z[i] ELSE s[i - m]
  BY PlainJoined
<1> HIDE DEF t
<1>2. /\ Len(C(t)) = Len(t) + 1 /\ At(C(t), Len(t)) = 0
      /\ \A i \in 0 .. Len(t) - 1 : At(C(t), i) = t[i + 1]
  BY <1>1, Terminated
<1> HIDE DEF m, n
<1>3. ASSUME NEW i \in 0 .. m - 1 PROVE At(C(t), i) = z[i + 1]
  <2>1. i \in 0 .. Len(t) - 1 /\ i + 1 \in 1 .. m + n /\ i + 1 <= m
    BY <1>1
  <2>2. QED
    BY <1>1, <1>2, <2>1
<1>4. ASSUME NEW i \in 1 .. n PROVE At(C(t), m + i - 1) = s[i]
  <2> DEFINE j == m + i - 1
  <2>1. j \in 0 .. Len(t) - 1 /\ j + 1 \in 1 .. m + n /\ ~(j + 1 <= m) /\ (j + 1) - m = i
    BY <1>1
  <2> HIDE DEF j
  <2>2. At(C(t), j) = s[i]
    BY <1>1, <1>2, <2>1
  <2>3. QED
    BY <2>2 DEF j
<1>5. QED
  BY <1>1, <1>2, <1>3, <1>4 DEF t, m, n

LEMMA DigitChars ==
  ASSUME NEW c, NEW base \in {10, 16}, Digit(c) \in 0 .. base - 1
  PROVE  c \notin {0, SPACE, TAB, MINUS, 43, 88, 120}
<1>1. Digit(0) = 99 /\ Digit(SPACE) = 99 /\ Digit(TAB) = 99 /\ Digit(MINUS) = 99
  BY DEF Digit, SPACE, TAB, MINUS
<1>2. Digit(43) = 99 /\ Digit(88) = 99 /\ Digit(120) = 99
  BY DEF Digit
<1>3. ~(99 \in 0 .. base - 1)
  OBVIOUS
<1>4. QED
  BY <1>1, <1>2, <1>3

(* Blanks, then a numeral. *)
LEMMA NumberParses ==
  ASSUME NEW base \in {10, 16}, NEW v \in 0 .. WORD - 1, NEW s, Spells(s, v, base),
         NEW z \in Plain, \A i \in 1 .. Len(z) : z[i] = SPACE
  PROVE  /\ luna_strtoul(C(z \o s), base) = v
         /\ base = 10 => luna_atoi(C(z \o s)) = Signed(v)
<1> DEFINE b == C(z \o s)
           e == Len(z)
           n == Len(s)
<1>1. s \in Plain /\ s # <<>> /\ \A i \in 1 .. n : Digit(s[i]) \in 0 .. base - 1
  BY DEF Spells
<1>2. n \in Nat /\ n >= 1
  BY <1>1 DEF Plain
<1>3. /\ Len(b) = e + n + 1 /\ e \in Nat
      /\ \A i \in 0 .. e - 1 : At(b, i) = z[i + 1]
      /\ \A i \in 1 .. n : At(b, e + i - 1) = s[i]
      /\ At(b, e + n) = 0
  BY <1>1, TwoStrings
<1> HIDE DEF b
<1>4. At(b, e) \notin {0, SPACE, TAB, MINUS, 43, 88, 120}
  <2>1. 1 \in 1 .. n /\ e + 1 - 1 = e
    BY <1>2, <1>3
  <2>2. At(b, e) = s[1] /\ Digit(s[1]) \in 0 .. base - 1
    BY <1>1, <1>3, <2>1
  <2>3. QED
    BY <2>2, DigitChars
<1>5. At(b, e + 1) \notin {88, 120}
  <2>1. CASE n = 1
    BY <1>3, <2>1
  <2>2. CASE n # 1
    <3>1. 2 \in 1 .. n /\ e + 2 - 1 = e + 1
      <4>1. e \in Nat
        BY <1>3
      <4> HIDE DEF n, e
      <4>2. QED
        BY <1>2, <2>2, <4>1
    <3>2. At(b, e + 1) = s[2] /\ Digit(s[2]) \in 0 .. base - 1
      BY <1>1, <1>3, <3>1
    <3>3. QED
      BY <3>2, DigitChars
  <2>3. QED
    BY <2>1, <2>2
<1>6. Value(b, e, base) = v
  <2>1. e + n < Len(b) /\ Len(b) \in Nat
    BY <1>2, <1>3
  <2>2. QED
    BY <1>3, <2>1, ValueIs
<1>7. e \in 0 .. Len(b) - 1 /\ Len(b) \in Nat
  BY <1>2, <1>3
<1>8. ASSUME NEW i \in 0 .. e - 1 PROVE At(b, i) = SPACE
  <2>1. i + 1 \in 1 .. e
    BY <1>3
  <2>2. QED
    BY <1>3, <2>1
<1> HIDE DEF e
<1>9. /\ Scan(0, Len(b) - 1, LAMBDA i : At(b, i) # SPACE) = e
      /\ Scan(0, Len(b) - 1, LAMBDA i : At(b, i) \notin {SPACE, TAB}) = e
  <2>1. At(b, e) # SPACE /\ At(b, e) # TAB
    BY <1>4
  <2>2. QED
    BY <1>7, <1>8, <2>1, BlanksSkipped
<1>10. luna_strtoul(b, base) = v
  <2>1. luna_strtoul(b, base) = Value(b, IF base = 16 /\ At(b, e) = 48 /\ At(b, e + 1) \in {88, 120} THEN e + 2 ELSE e, base)
    BY <1>9 DEF luna_strtoul
  <2>2. QED
    BY <1>5, <1>6, <2>1
<1>11. ASSUME base = 10 PROVE luna_atoi(b) = Signed(v)
  <2>1. luna_atoi(b) = IF At(b, e) = MINUS THEN Signed(-Value(b, e + 1, 10) % WORD)
                       ELSE Signed(Value(b, IF At(b, e) = 43 THEN e + 1 ELSE e, 10))
    BY <1>9 DEF luna_atoi
  <2>2. QED
    BY <1>4, <1>6, <1>11, <2>1
<1>12. QED
  BY <1>10, <1>11 DEF b

LEMMA EmptyInFront ==
  ASSUME NEW s \in Plain
  PROVE  <<>> \o s = s /\ <<>> \in Plain /\ \A i \in 1 .. Len(<<>>) : <<>>[i] = SPACE
<1>1. <<>> \o s = s
  BY ConcatSimplifications DEF Plain
<1>2. Len(<<>>) = 0 /\ <<>> \in Plain
  BY DEF Plain
<1>3. QED
  BY <1>1, <1>2

(* A numeral padded with zeros spells the number, one padded with blanks follows them. *)
LEMMA NumeralSpells ==
  ASSUME NEW base \in {10, 16}, NEW v \in Nat, NEW width \in Nat, NEW pad \in {SPACE, 48}
  PROVE  /\ pad = 48 \/ width <= 1 => Spells(Numeral(v, base, width, pad), v, base)
         /\ \E z, s : /\ Numeral(v, base, width, pad) = z \o s /\ Spells(s, v, base)
                      /\ z \in Plain /\ \A i \in 1 .. Len(z) : z[i] = SPACE
<1> DEFINE s == Digits(v, base)
           z == Pad(width, Len(s), pad)
<1>1. Spells(s, v, base)
  BY DigitsSpell
<1> HIDE DEF s
<1>2. s \in Plain /\ s # <<>>
  BY <1>1 DEF Spells
<1>3. Len(s) \in Nat /\ Len(s) >= 1
  BY <1>2 DEF Plain
<1>4. Numeral(v, base, width, pad) = z \o s
  BY DEF Numeral, s
<1>5. pad \in 1 .. 255
  BY DEF SPACE
<1>6. /\ z \in Plain /\ \A i \in 1 .. Len(z) : z[i] = pad
      /\ Len(z) = IF width > Len(s) THEN width - Len(s) ELSE 0
  <2> DEFINE used == Len(s)
             y == Pad(width, used, pad)
  <2>1. used \in Nat
    BY <1>3
  <2> HIDE DEF used
  <2>2. y \in Plain
    BY <1>5, <2>1, PadPlain
  <2>3. Len(y) = (IF width > used THEN width - used ELSE 0) /\ \A i \in 1 .. Len(y) : y[i] = pad
    BY <2>1, PadElements
  <2>4. QED
    BY <2>2, <2>3 DEF used
<1> HIDE DEF z
<1>7. ASSUME pad = 48 PROVE Spells(z \o s, v, base)
  <2>1. \A i \in 1 .. Len(z) : z[i] = 48
    BY <1>6, <1>7
  <2>2. z \in Seq(1 .. 255)
    BY <1>6 DEF Plain
  <2>3. QED
    BY <1>1, <2>1, <2>2, ZerosInFront
<1>8. <<>> \o s = s /\ <<>> \in Plain /\ \A i \in 1 .. Len(<<>>) : <<>>[i] = SPACE
  BY <1>2, EmptyInFront
<1>9. ASSUME width <= 1 PROVE Spells(z \o s, v, base)
  <2>1. Len(z) = 0
    BY <1>3, <1>6, <1>9
  <2>2. z = <<>>
    BY <1>6, <2>1 DEF Plain
  <2>3. QED
    BY <1>1, <1>8, <2>2
<1>10. CASE pad = 48
  <2>1. z \o s \in Plain
    BY <1>7, <1>10 DEF Spells
  <2> DEFINE y == z \o s
  <2>2. Spells(y, v, base)
    BY <1>7, <1>10
  <2> HIDE DEF y
  <2>3. <<>> \o y = y /\ <<>> \in Plain /\ \A i \in 1 .. Len(<<>>) : <<>>[i] = SPACE
    BY <2>1, EmptyInFront DEF y
  <2>4. Numeral(v, base, width, pad) = <<>> \o y
    BY <1>4, <2>3 DEF y
  <2>5. QED
    BY <1>4, <1>7, <1>9, <2>2, <2>3, <2>4
<1>11. CASE pad = SPACE
  <2>1. \A i \in 1 .. Len(z) : z[i] = SPACE
    BY <1>6, <1>11
  <2>2. pad # 48
    BY <1>11 DEF SPACE
  <2>3. QED
    BY <1>1, <1>4, <1>6, <1>9, <2>1, <2>2
<1>12. QED
  BY <1>10, <1>11

LEMMA PaddedParses ==
  ASSUME NEW base \in {10, 16}, NEW v \in 0 .. WORD - 1, NEW width \in Nat, NEW pad \in {SPACE, 48}
  PROVE  /\ luna_strtoul(C(Numeral(v, base, width, pad)), base) = v
         /\ base = 10 => luna_atoi(C(Numeral(v, base, width, pad))) = Signed(v)
<1>1. v \in Nat
  BY TextAssumption
<1>2. PICK z, s : /\ Numeral(v, base, width, pad) = z \o s /\ Spells(s, v, base)
                  /\ z \in Plain /\ \A i \in 1 .. Len(z) : z[i] = SPACE
  BY <1>1, NumeralSpells
<1>3. QED
  BY <1>2, NumberParses

(* The sign and the prefix 0x in front of a numeral. *)
LEMMA SignedParses ==
  ASSUME NEW v \in 0 .. WORD - 1, NEW s, Spells(s, v, 10)
  PROVE  luna_atoi(C(<<MINUS>> \o s)) = Signed(-v % WORD)
<1> DEFINE z == <<MINUS>>
           b == C(z \o s)
           n == Len(s)
           base == 10
<1>1. z \in Plain /\ Len(z) = 1 /\ z[1] = MINUS /\ s \in Plain /\ base \in {10, 16} /\ Spells(s, v, base)
  BY DEF Plain, MINUS, Spells
<1> HIDE DEF z
<1>2. /\ Len(b) = Len(z) + n + 1 /\ n \in Nat
      /\ \A i \in 0 .. Len(z) - 1 : At(b, i) = z[i + 1]
      /\ \A i \in 1 .. n : At(b, Len(z) + i - 1) = s[i]
      /\ At(b, Len(z) + n) = 0
  <2>1. z \in Plain /\ s \in Plain
    BY <1>1
  <2>2. QED
    BY <2>1, TwoStrings
<1> HIDE DEF b, base
<1>3. Value(b, 1, base) = v
  <2> DEFINE p == Len(z)
  <2>1. p \in Nat /\ p + n < Len(b) /\ Len(b) \in Nat /\ p = 1
    BY <1>1, <1>2
  <2>2. \A i \in 1 .. n : At(b, p + i - 1) = s[i]
    BY <1>2
  <2>3. At(b, p + n) = 0
    BY <1>2
  <2> HIDE DEF p
  <2>4. Value(b, p, base) = v
    BY <1>1, <2>1, <2>2, <2>3, ValueIs
  <2>5. QED
    BY <2>1, <2>4
<1>4. At(b, 0) = MINUS
  <2>1. 0 \in 0 .. Len(z) - 1 /\ 0 + 1 = 1
    BY <1>1
  <2>2. QED
    BY <1>1, <1>2, <2>1
<1>5. Scan(0, Len(b) - 1, LAMBDA i : At(b, i) \notin {SPACE, TAB}) = 0
  <2> DEFINE e == 0
  <2>1. At(b, e) # SPACE /\ At(b, e) # TAB
    BY <1>4 DEF MINUS, SPACE, TAB
  <2>2. e \in 0 .. Len(b) - 1 /\ Len(b) \in Nat /\ \A i \in 0 .. e - 1 : FALSE
    BY <1>1, <1>2
  <2> HIDE DEF e
  <2>3. Scan(0, Len(b) - 1, LAMBDA i : At(b, i) \notin {SPACE, TAB}) = e
    BY <2>1, <2>2, BlanksSkipped
  <2>4. QED
    BY <2>3 DEF e
<1>6. luna_atoi(b) = Signed(-Value(b, 0 + 1, 10) % WORD)
  BY <1>4, <1>5 DEF luna_atoi
<1>7. QED
  BY <1>3, <1>6 DEF b, z, base

LEMMA PrefixedParses ==
  ASSUME NEW v \in 0 .. WORD - 1, NEW s, Spells(s, v, 16)
  PROVE  luna_strtoul(C(<<48, 120>> \o s), 16) = v
<1> DEFINE z == <<48, 120>>
           b == C(z \o s)
           n == Len(s)
           base == 16
<1>1. z \in Plain /\ Len(z) = 2 /\ z[1] = 48 /\ z[2] = 120 /\ s \in Plain /\ base \in {10, 16} /\ Spells(s, v, base)
  BY DEF Plain, Spells
<1> HIDE DEF z
<1>2. /\ Len(b) = Len(z) + n + 1 /\ n \in Nat
      /\ \A i \in 0 .. Len(z) - 1 : At(b, i) = z[i + 1]
      /\ \A i \in 1 .. n : At(b, Len(z) + i - 1) = s[i]
      /\ At(b, Len(z) + n) = 0
  <2>1. z \in Plain /\ s \in Plain
    BY <1>1
  <2>2. QED
    BY <2>1, TwoStrings
<1> HIDE DEF b, base
<1>3. Value(b, 2, base) = v
  <2> DEFINE p == Len(z)
  <2>1. p \in Nat /\ p + n < Len(b) /\ Len(b) \in Nat /\ p = 2
    BY <1>1, <1>2
  <2>2. \A i \in 1 .. n : At(b, p + i - 1) = s[i]
    BY <1>2
  <2>3. At(b, p + n) = 0
    BY <1>2
  <2> HIDE DEF p
  <2>4. Value(b, p, base) = v
    BY <1>1, <2>1, <2>2, <2>3, ValueIs
  <2>5. QED
    BY <2>1, <2>4
<1>4. At(b, 0) = 48 /\ At(b, 1) = 120
  <2>1. 0 \in 0 .. Len(z) - 1 /\ 1 \in 0 .. Len(z) - 1 /\ 0 + 1 = 1 /\ 1 + 1 = 2
    BY <1>1
  <2>2. QED
    BY <1>1, <1>2, <2>1
<1>5. Scan(0, Len(b) - 1, LAMBDA i : At(b, i) # SPACE) = 0
  <2> DEFINE e == 0
  <2>1. At(b, e) # SPACE
    BY <1>4 DEF SPACE
  <2>2. e \in 0 .. Len(b) - 1 /\ Len(b) \in Nat /\ \A i \in 0 .. e - 1 : FALSE
    BY <1>1, <1>2
  <2> HIDE DEF e
  <2>3. Scan(0, Len(b) - 1, LAMBDA i : At(b, i) # SPACE) = e
    BY <2>1, <2>2, BlanksSkipped
  <2>4. QED
    BY <2>3 DEF e
<1>6. luna_strtoul(b, 16) = Value(b, 0 + 2, 16)
  BY <1>4, <1>5 DEF luna_strtoul
<1>7. QED
  BY <1>3, <1>6 DEF b, z, base

LEMMA SignedIs ==
  ASSUME NEW v \in 0 .. WORD \div 2 - 1
  PROVE  v \in 0 .. WORD - 1 /\ Signed(v) = v /\ (v > 0 => Signed(-v % WORD) = -v)
<1> DEFINE h == WORD \div 2
<1>1. WORD \in Nat /\ h \in Nat /\ 2 * h <= WORD /\ v < h /\ v \in Nat
  BY TextAssumption
<1>2. \A x : Signed(x) = IF x >= h THEN x - WORD ELSE x
  BY DEF Signed
<1> HIDE DEF h
<1>3. v \in 0 .. WORD - 1 /\ Signed(v) = v
  BY <1>1, <1>2
<1>4. ASSUME v > 0 PROVE Signed(-v % WORD) = -v
  <2>1. -v % WORD = WORD - v
    BY <1>1, <1>4
  <2>2. WORD - v >= h /\ (WORD - v) - WORD = -v
    BY <1>1
  <2>3. QED
    BY <1>2, <2>1, <2>2
<1>5. QED
  BY <1>3, <1>4

LEMMA MagnitudeIs ==
  ASSUME NEW a \in -(WORD \div 2) .. WORD \div 2 - 1, a < 0, a # -(WORD \div 2)
  PROVE  Magnitude(a) = -a /\ -a \in 0 .. WORD \div 2 - 1 /\ -a > 0
<1> DEFINE h == WORD \div 2
           q == WORD * WORD
<1>1. WORD \in Nat /\ WORD > 0 /\ h \in Nat /\ 2 * h <= WORD
  BY TextAssumption
<1>2. q \in Nat /\ q >= WORD
  <2>1. WORD - 1 \in Nat /\ q = WORD * (WORD - 1) + WORD
    BY <1>1
  <2> DEFINE k == WORD - 1
             y == WORD * k
  <2> HIDE DEF k
  <2>2. k \in Nat
    BY <2>1 DEF k
  <2>3. y \in Nat
    BY <1>1, <2>2
  <2> HIDE DEF y, q
  <2>4. q = y + WORD
    BY <2>1 DEF y, k
  <2>5. QED
    BY <1>1, <2>3, <2>4
<1>3. Magnitude(a) = (-a) % q
  BY DEF Magnitude
<1>4. a \in -h .. h - 1 /\ a # -h
  OBVIOUS
<1> HIDE DEF h, q
<1>5. -a \in 0 .. h - 1 /\ -a > 0 /\ -a < q
  BY <1>1, <1>2, <1>4
<1>6. (-a) % q = -a
  BY <1>2, <1>5
<1>7. QED
  BY <1>3, <1>5, <1>6 DEF h

LEMMA ItemParses ==
  ASSUME NEW f, IsNumber(f), f.arg \in -(WORD \div 2) .. WORD \div 2 - 1
  PROVE  LET b == C(ItemText(f))
         IN /\ f.conv = "d" /\ f.arg # -(WORD \div 2) /\ (f.arg < 0 /\ f.width > 1 => f.pad = 48) => luna_atoi(b) = f.arg
            /\ f.conv \in {"x", "p"} => luna_strtoul(b, 16) = f.arg % WORD
            /\ f.conv = "u" => luna_strtoul(b, 10) = f.arg % WORD
<1> DEFINE b == C(ItemText(f))
           v == f.arg % WORD
           a == f.arg
           w == f.width
           pad == f.pad
<1>1. f.conv \in {"d", "u", "x", "p"} /\ w \in Nat /\ pad \in {SPACE, 48} /\ a \in Int
  BY DEF IsNumber
<1>2. v \in 0 .. WORD - 1 /\ v \in Nat
  BY <1>1, Residues
<1>3. ASSUME f.conv = "u" PROVE luna_strtoul(b, 10) = v
  <2>1. ItemText(f) = Numeral(v, 10, w, pad)
    BY <1>3 DEF ItemText
  <2> HIDE DEF v, w, pad
  <2>2. QED
    BY <1>1, <1>2, <2>1, PaddedParses
<1>4. ASSUME f.conv = "x" PROVE luna_strtoul(b, 16) = v
  <2>1. ItemText(f) = Numeral(v, 16, w, pad)
    BY <1>4 DEF ItemText
  <2> HIDE DEF v, w, pad
  <2>2. QED
    BY <1>1, <1>2, <2>1, PaddedParses
<1>5. ASSUME f.conv = "p" PROVE luna_strtoul(b, 16) = v
  <2>1. ItemText(f) = <<48, 120>> \o Numeral(v, 16, 8, 48)
    BY <1>5 DEF ItemText
  <2> DEFINE y == 8
             z == 48
             base == 16
  <2> HIDE DEF v
  <2>2. y \in Nat /\ z \in {SPACE, 48} /\ base \in {10, 16} /\ z = 48
    OBVIOUS
  <2> HIDE DEF y, z, base
  <2>3. Spells(Numeral(v, base, y, z), v, base)
    BY <1>2, <2>2, NumeralSpells
  <2>4. Spells(Numeral(v, 16, 8, 48), v, 16)
    BY <2>3 DEF y, z, base
  <2>5. QED
    BY <1>2, <2>1, <2>4, PrefixedParses
<1>6. ASSUME f.conv = "d", a # -(WORD \div 2), a < 0 /\ w > 1 => pad = 48
      PROVE  luna_atoi(b) = a
  <2>1. CASE ~(a < 0)
    <3>1. a \in 0 .. WORD \div 2 - 1
      BY <1>1, <2>1, TextAssumption
    <3>2. ItemText(f) = Numeral(a, 10, w, pad)
      BY <1>6, <2>1 DEF ItemText
    <3> HIDE DEF a, w, pad
    <3>3. a \in 0 .. WORD - 1 /\ Signed(a) = a
      BY <3>1, SignedIs
    <3>4. luna_atoi(C(Numeral(a, 10, w, pad))) = Signed(a)
      BY <1>1, <3>3, PaddedParses
    <3>5. QED
      BY <3>2, <3>3, <3>4
  <2>2. CASE a < 0
    <3> DEFINE u == -a
               base == 10
    <3>1. Magnitude(a) = u /\ u \in 0 .. WORD \div 2 - 1 /\ u > 0
      BY <1>6, <2>2, MagnitudeIs
    <3>2. ItemText(f) = <<MINUS>> \o Numeral(Magnitude(a), base, w, pad)
      BY <1>6, <2>2 DEF ItemText
    <3>3. pad = 48 \/ w <= 1
      BY <1>1, <1>6, <2>2
    <3>4. -u = a /\ base \in {10, 16}
      BY <1>1
    <3> HIDE DEF u, w, pad, base, a
    <3>5. u \in 0 .. WORD - 1 /\ Signed(-u % WORD) = -u
      BY <3>1, SignedIs
    <3>6. u \in Nat
      BY <3>5, TextAssumption
    <3>7. Spells(Numeral(u, base, w, pad), u, base)
      BY <1>1, <3>3, <3>4, <3>6, NumeralSpells
    <3>8. Spells(Numeral(u, base, w, pad), u, 10)
      BY <3>7 DEF base
    <3>9. luna_atoi(C(<<MINUS>> \o Numeral(u, base, w, pad))) = Signed(-u % WORD)
      BY <3>5, <3>8, SignedParses
    <3>10. QED
      BY <3>1, <3>2, <3>4, <3>5, <3>9
  <2>3. QED
    BY <2>1, <2>2
<1>7. QED
  BY <1>3, <1>4, <1>5, <1>6

(* A text shorter than its buffer was not cut. *)
LEMMA WholeText ==
  ASSUME NEW fmt \in Formats, NEW size \in Sizes, fmt[1].conv # "s", Len(luna_snprintf(size, fmt)) < size
  PROVE  luna_snprintf(size, fmt) = C(ItemText(fmt[1]))
<1> DEFINE t == FullText(fmt)
           x == ItemText(fmt[1])
           r == luna_snprintf(size, fmt)
<1>1. Len(fmt) = 1 /\ \A i \in 1 .. Len(fmt) : IsItem(fmt[i])
  BY FormatsAre
<1>2. x \in Plain
  <2>1. IsItem(fmt[1])
    BY <1>1
  <2>2. QED
    BY <2>1, ItemTextIs
<1>3. t = x
  <2> DEFINE lp == <<"text", fmt>>
             n == Len(fmt)
             g == Loop(lp, <<>>, n)
  <2>1. g[0] = <<>> /\ \A i \in 1 .. n : g[i] = Advance(lp, g[i - 1], i)
    BY <1>1, LoopEquations
  <2>2. \A y, i : Advance(lp, y, i) = y \o ItemText(fmt[i])
    BY DEF Advance
  <2>3. t = g[n]
    BY DEF FullText
  <2> HIDE DEF g, lp
  <2>4. 1 \in 1 .. n /\ n = 1 /\ 1 - 1 = 0
    BY <1>1
  <2>5. g[1] = <<>> \o x
    BY <2>1, <2>2, <2>4
  <2>6. <<>> \o x = x
    BY <1>2, EmptyInFront
  <2>7. QED
    BY <2>3, <2>4, <2>5, <2>6
<1>4. size \in Nat
  BY TextAssumption
<1>5. Len(fmt) \in Nat
  BY <1>1
<1>6. t \in Plain /\ \A n \in Nat \ {0} : luna_snprintf(n, fmt) = C(UpTo(n - 1, t))
  BY <1>1, <1>5, PrintIs
<1> HIDE DEF t, x
<1>7. size # 0
  <2>1. SUFFICES ASSUME size = 0 PROVE FALSE
    OBVIOUS
  <2>2. r = <<>>
    BY <2>1 DEF luna_snprintf
  <2>3. Len(r) = 0
    BY <2>2
  <2>4. QED
    BY <2>1, <2>3
<1> DEFINE m == size - 1
           u == UpTo(m, t)
<1>8. m \in Nat /\ size = m + 1
  BY <1>4, <1>7
<1>9. r = C(u)
  BY <1>4, <1>6, <1>7
<1>10. Len(r) < size
  OBVIOUS
<1> HIDE DEF m, r
<1>11. u \in Plain /\ Len(u) = (IF m <= Len(t) THEN m ELSE Len(t)) /\ \A k \in 1 .. Len(u) : u[k] = t[k]
  BY <1>6, <1>8, UpToPlain
<1> HIDE DEF u
<1>12. Len(r) = Len(u) + 1 /\ Len(u) \in Nat /\ Len(t) \in Nat
  BY <1>6, <1>9, <1>11, Terminated DEF Plain
<1>13. Len(u) = Len(t)
  BY <1>8, <1>10, <1>11, <1>12
<1>14. u = t
  <2>1. u \in Seq(1 .. 255) /\ t \in Seq(1 .. 255)
    BY <1>6, <1>11 DEF Plain
  <2>2. QED
    BY <1>11, <1>13, <2>1, SeqEqual
<1>15. QED
  BY <1>3, <1>9, <1>14 DEF r, x

LEMMA HexParses ==
  ASSUME NEW byte \in 0 .. 255
  PROVE  luna_strtoul(C(sha256_to_hex(<<byte>>)), 16) = byte
<1> DEFINE q == byte \div 16
           d == byte % 16
           s == Append(<<HexChar(q)>>, HexChar(d))
           base == 16
<1>1. q \in 0 .. 15 /\ d \in 0 .. 15 /\ byte = q * 16 + d /\ q % 16 = q
  OBVIOUS
<1>2. sha256_to_hex(<<byte>>) = s
  <2> DEFINE o == sha256_to_hex(<<byte>>)
  <2>1. o = [j \in 1 .. 2 |-> HexChar((IF j % 2 = 1 THEN <<byte>>[(j + 1) \div 2] \div 16 ELSE <<byte>>[j \div 2]) % 16)]
    BY DEF sha256_to_hex
  <2> HIDE DEF o
  <2>2. 1 % 2 = 1 /\ (1 + 1) \div 2 = 1 /\ ~(2 % 2 = 1) /\ 2 \div 2 = 1 /\ <<byte>>[1] = byte
    OBVIOUS
  <2>3. o[1] = HexChar(q % 16) /\ o[2] = HexChar(d)
    BY <2>1, <2>2
  <2>4. o = <<o[1], o[2]>>
    BY <2>1
  <2>5. QED
    BY <1>1, <2>3, <2>4 DEF o
<1>3. byte \in Nat /\ byte \in 0 .. WORD - 1
  BY TextAssumption
<1>4. base \in {10, 16} /\ q \in 0 .. base - 1 /\ d \in 0 .. base - 1 /\ byte = q * base + d /\ q \in Nat
  BY <1>1
<1> HIDE DEF q, d, base
<1>5. Spells(<<HexChar(q)>>, q, base)
  BY <1>4, OneDigit
<1>6. Spells(s, byte, base)
  BY <1>3, <1>4, <1>5, NextDigit
<1>7. s \in Plain
  BY <1>6 DEF Spells
<1> HIDE DEF s
<1>8. <<>> \o s = s /\ <<>> \in Plain /\ \A i \in 1 .. Len(<<>>) : <<>>[i] = SPACE
  BY <1>7, EmptyInFront
<1>9. luna_strtoul(C(<<>> \o s), base) = byte
  BY <1>3, <1>4, <1>6, <1>8, NumberParses
<1>10. QED
  BY <1>2, <1>8, <1>9 DEF base

LEMMA PrintedParses ==
  ASSUME NEW fmt \in Formats, NEW size \in Sizes, NEW r, r = luna_snprintf(size, fmt)
  PROVE  LET f == fmt[1]  byte == f.arg % 256
         IN /\ Len(r) < size =>
                 /\ f.conv = "d" /\ f.arg # -(WORD \div 2) /\ (f.arg < 0 /\ f.width > 1 => f.pad = 48) => luna_atoi(r) = f.arg
                 /\ f.conv \in {"x", "p"} => luna_strtoul(r, 16) = f.arg % WORD
                 /\ f.conv = "u" => luna_strtoul(r, 10) = f.arg % WORD
            /\ f.conv = "x" => luna_strtoul(C(sha256_to_hex(<<byte>>)), 16) = byte
<1> DEFINE f == fmt[1]
           byte == f.arg % 256
<1>1. CASE f.conv = "s"
  BY <1>1
<1>2. CASE f.conv # "s"
  <2>1. IsNumber(f) /\ f.arg \in -(WORD \div 2) .. WORD \div 2 - 1
    BY <1>2, FormatsAre
  <2>2. f.arg \in Int
    BY <2>1 DEF IsNumber
  <2> DEFINE a == f.arg
  <2> HIDE DEF a
  <2>3. a % 256 \in 0 .. 255
    <3>1. a \in Int
      BY <2>2 DEF a
    <3>2. QED
      BY <3>1
  <2>4. byte \in 0 .. 255
    BY <2>3 DEF a
  <2> HIDE DEF byte
  <2>5. luna_strtoul(C(sha256_to_hex(<<byte>>)), 16) = byte
    BY <2>4, HexParses
  <2>6. ASSUME Len(r) < size PROVE r = C(ItemText(f))
    BY <1>2, <2>6, WholeText
  <2>7. LET b == C(ItemText(f))
        IN /\ f.conv = "d" /\ f.arg # -(WORD \div 2) /\ (f.arg < 0 /\ f.width > 1 => f.pad = 48) => luna_atoi(b) = f.arg
           /\ f.conv \in {"x", "p"} => luna_strtoul(b, 16) = f.arg % WORD
           /\ f.conv = "u" => luna_strtoul(b, 10) = f.arg % WORD
    <3> HIDE DEF f
    <3>1. QED
      BY <2>1, ItemParses
  <2> HIDE DEF f
  <2>8. QED
    BY <2>5, <2>6, <2>7 DEF f, byte
<1>3. QED
  BY <1>1, <1>2

(* What luna_snprintf prints of a number, luna_atoi and luna_strtoul read  *)
(* back, for every width and padding, unless the buffer was too small or   *)
(* blanks stand behind the sign; the smallest int is excepted.             *)
THEOREM PrintedNumbersParse == Spec => []NumbersParse
<1>1. Init => NumbersParse
  BY DEF Init, NumbersParse
<1>2. NumbersParse /\ [Next]_vars => NumbersParse'
  <2> SUFFICES ASSUME NumbersParse, [Next]_vars PROVE NumbersParse'
    OBVIOUS
  <2>1. CASE Format
    <3>1. PICK fmt \in Formats, size \in Sizes : in' = [fmt |-> fmt, size |-> size] /\ out' = luna_snprintf(size, fmt)
      BY <2>1 DEF Format
    <3>2. in'.fmt = fmt /\ in'.size = size
      BY <3>1
    <3> DEFINE r == luna_snprintf(size, fmt)
    <3>3. out' = r
      BY <3>1
    <3>4. LET f == fmt[1]  byte == f.arg % 256
          IN /\ Len(r) < size =>
                  /\ f.conv = "d" /\ f.arg # -(WORD \div 2) /\ (f.arg < 0 /\ f.width > 1 => f.pad = 48) => luna_atoi(r) = f.arg
                  /\ f.conv \in {"x", "p"} => luna_strtoul(r, 16) = f.arg % WORD
                  /\ f.conv = "u" => luna_strtoul(r, 10) = f.arg % WORD
             /\ f.conv = "x" => luna_strtoul(C(sha256_to_hex(<<byte>>)), 16) = byte
      BY PrintedParses
    <3> HIDE DEF r
    <3>5. QED
      BY <3>2, <3>3, <3>4 DEF NumbersParse
  <2>2. CASE Next /\ ~Format
    <3>1. op' # "print"
      BY <2>2 DEF Next, Memory, Compare, Search, Copy, Tokenize, Lex, Hash, Return
    <3>2. QED
      BY <3>1 DEF NumbersParse
  <2>3. CASE UNCHANGED vars
    BY <2>3 DEF NumbersParse, vars
  <2>4. QED
    BY <2>1, <2>2, <2>3
<1>3. QED
  BY <1>1, <1>2, PTL DEF Spec
=============================================================================
