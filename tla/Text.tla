-------------------------------- MODULE Text --------------------------------
(***************************************************************************)
(* The freestanding library the kernel and the shell are written with:     *)
(* string.c, the padding and the printing of SHA-256 digests (hash.c) and  *)
(* the shell's tokenizer.  Each function of the C code is an operator on   *)
(* buffers of bytes; one action per family of functions applies them to    *)
(* every small input, and the invariants compare what came out with a      *)
(* definition that has no loops.  A buffer is read with At, which has no   *)
(* value behind its end: a read past a terminator is an error of the run.  *)
(***************************************************************************)
EXTENDS Integers, Sequences, FiniteSets, SequencesExt, FiniteSetsExt

CONSTANTS WIDE,             \* bytes written at once by memset and memcpy (8)
          CELLS,            \* bytes of memory the memory functions work in
          Alphabet, MaxLen, \* the strings of the copy, compare and search functions
          MaxLine,          \* length of the lines the shell splits
          MAX_ARGS,
          WORD,             \* values of a uint32_t (2^32)
          Widths, Sizes,    \* field widths and buffer sizes given to snprintf
          BYTE,             \* values of a byte of SHA-256 data (256)
          BLOCK, LENGTH,    \* bytes of a SHA-256 block and of its length field (64, 8)
          MaxData           \* longest message hashed

ASSUME TextAssumption ==
  /\ WIDE \in Nat \ {0} /\ CELLS \in Nat
  /\ Alphabet \subseteq 1 .. 255 /\ MaxLen \in Nat /\ MaxLine \in Nat /\ MAX_ARGS \in Nat \ {0}
  /\ WORD \in Nat /\ WORD >= 256 /\ Widths \subseteq Nat /\ Sizes \subseteq Nat
  /\ BYTE \in Nat \ {0} /\ BLOCK \in Nat \ {0} /\ LENGTH \in 0 .. BLOCK /\ MaxData \in Nat

NUL == 0
NULL == -1
SPACE == 32
TAB == 9
MINUS == 45

VARIABLES op, in, out
vars == <<op, in, out>>

Init == op = "idle" /\ in = <<>> /\ out = <<>>

At(b, i) == b[i + 1]

(* for (i = p; !Stop(i); i++);  a loop that runs past `last` has no value. *)
Scan(p, last, Stop(_)) == CHOOSE i \in p .. last : Stop(i) /\ \A j \in p .. i - 1 : ~Stop(j)

(* Bytes `s` stored at offset p. *)
Store(b, p, s) == [i \in 1 .. Len(b) |-> IF i - 1 \in p .. p + Len(s) - 1 THEN s[i - p] ELSE b[i]]

(* The state of a loop after n turns, no turn changing a loop that ended. *)
Turns(n, start, Turn(_)) == LET after[k \in 0 .. n] == IF k = 0 THEN start ELSE Turn(after[k - 1])
                            IN after[n]
-----------------------------------------------------------------------------
(* Memory functions, on one memory of CELLS bytes: both fill or copy bytes *)
(* up to a word boundary, then words, then bytes.                          *)

Width(p, n) ==              \* bytes of the next store at p when n are left
  IF n = 0 THEN 0 ELSE IF p % WIDE # 0 \/ n < WIDE THEN 1 ELSE WIDE

luna_memset(b, p, v, n) ==
  Turns(n, [mem |-> b, done |-> 0],
        LAMBDA t : LET w == Width(p + t.done, n - t.done)
                   IN [mem |-> Store(t.mem, p + t.done, [k \in 1 .. w |-> v]), done |-> t.done + w]).mem

luna_memcpy(b, d, s, n) ==
  Turns(n, [mem |-> b, done |-> 0],
        LAMBDA t : LET w == Width(d + t.done, n - t.done)
                   IN [mem |-> Store(t.mem, d + t.done, SubSeq(t.mem, s + t.done + 1, s + t.done + w)),
                       done |-> t.done + w]).mem

Forward(b, d, s, n) ==
  LET mem[k \in 0 .. n] == IF k = 0 THEN b ELSE Store(mem[k - 1], d + k - 1, <<At(mem[k - 1], s + k - 1)>>)
  IN mem[n]

Backward(b, d, s, n) ==
  LET mem[k \in 0 .. n] == IF k = 0 THEN b ELSE Store(mem[k - 1], d + n - k, <<At(mem[k - 1], s + n - k)>>)
  IN mem[n]

MoveForward(b, d, s, n) == Forward(b, d, s, n)      \* mutant: always copies upwards

luna_memmove(b, d, s, n) == IF d < s THEN Forward(b, d, s, n)
                            ELSE IF d > s THEN Backward(b, d, s, n) ELSE b

luna_memcmp(a, p, b, n) == LET k == Scan(0, n, LAMBDA i : i = n \/ At(a, p + i) # At(b, i))
                           IN IF k = n THEN 0 ELSE At(a, p + k) - At(b, k)

luna_memchr(a, c, n) == LET k == Scan(0, n, LAMBDA i : i = n \/ At(a, i) = c)
                        IN IF k = n THEN NULL ELSE k

Fresh == [i \in 1 .. CELLS |-> i]

Memory ==
  /\ op = "idle"
  /\ \E f \in {"memset", "memcpy", "memmove"}, d \in 0 .. CELLS, s \in 0 .. CELLS, n \in 0 .. CELLS :
       /\ d + n <= CELLS /\ s + n <= CELLS
       /\ f = "memset" => s = 0
       /\ f = "memcpy" => d + n <= s \/ s + n <= d        \* its objects do not overlap
       /\ op' = f /\ in' = <<d, s, n>>
       /\ out' = CASE f = "memset" -> luna_memset(Fresh, d, 0, n)
                   [] f = "memcpy" -> luna_memcpy(Fresh, d, s, n)
                   [] OTHER -> luna_memmove(Fresh, d, s, n)
-----------------------------------------------------------------------------
(* Strings. *)

luna_strlen(b, p) == Scan(p, Len(b) - 1, LAMBDA i : At(b, i) = NUL) - p
luna_strnlen(b, max) == Scan(0, max, LAMBDA i : i = max \/ At(b, i) = NUL)

luna_strcpy(d, s) == Store(d, 0, SubSeq(s, 1, luna_strlen(s, 0) + 1))
CopyUnfilled(d, s, n) == Store(d, 0, SubSeq(s, 1, luna_strnlen(s, n)))  \* mutant: the rest keeps its old bytes

luna_strncpy(d, s, n) == LET k == luna_strnlen(s, n)
                         IN Store(d, 0, [i \in 1 .. n |-> IF i <= k THEN s[i] ELSE NUL])
luna_strcat(d, s) == Store(d, luna_strlen(d, 0), SubSeq(s, 1, luna_strlen(s, 0) + 1))
luna_strncat(d, s, n) == Store(d, luna_strlen(d, 0), Append(SubSeq(s, 1, luna_strnlen(s, n)), NUL))

luna_strcmp(a, b) == LET k == Scan(0, Len(a) - 1, LAMBDA i : At(a, i) = NUL \/ At(a, i) # At(b, i))
                     IN At(a, k) - At(b, k)

(* n has been decremented past the character that ended the loop.  *)
luna_strncmp(a, b, n) ==
  LET k == Scan(0, n, LAMBDA i : i = n \/ At(a, i) = NUL \/ At(a, i) # At(b, i))
  IN IF k = n - 1 THEN 0 ELSE At(a, k) - At(b, k)

Lower(c) == IF c \in 65 .. 90 THEN c + 32 ELSE c

luna_strcasecmp(a, b) ==
  LET k == Scan(0, Len(a) - 1, LAMBDA i : NUL \in {At(a, i), At(b, i)} \/ Lower(At(a, i)) # Lower(At(b, i)))
  IN IF NUL \in {At(a, k), At(b, k)} THEN At(a, k) - At(b, k) ELSE Lower(At(a, k)) - Lower(At(b, k))

luna_strchr(s, c) == LET k == Scan(0, Len(s) - 1, LAMBDA i : At(s, i) \in {c, NUL})
                     IN IF At(s, k) = c THEN k ELSE NULL

luna_strrchr(s, c) == Max({NULL} \cup {i \in 0 .. luna_strlen(s, 0) - 1 : At(s, i) = c})

luna_strstr(h, needle) ==
  IF At(needle, 0) = NUL THEN 0
  ELSE LET k == Scan(0, Len(h) - 1, LAMBDA i : \/ At(h, i) = NUL
                                               \/ luna_memcmp(h, i, needle, luna_strlen(needle, 0)) = 0)
       IN IF At(h, k) = NUL THEN NULL ELSE k

Strings == BoundedSeq(Alphabet, MaxLen)
C(s) == Append(s, NUL)
Room(s) == C(s) \o [i \in 1 .. 2 * MaxLen + 1 - Len(s) |-> 1]       \* a buffer that has held something else

Compare ==
  /\ op = "idle"
  /\ \E a, b \in Strings, n \in 0 .. MaxLen :
       /\ op' = "compare" /\ in' = <<a, b, n>>
       /\ out' = <<luna_strcmp(C(a), C(b)), luna_strncmp(C(a), C(b), n), luna_strcasecmp(C(a), C(b)),
                   luna_strstr(C(a), C(b))>>

Search ==
  /\ op = "idle"
  /\ \E a \in Strings, c \in Alphabet \cup {NUL} :
       /\ op' = "search" /\ in' = <<a, c>>
       /\ out' = <<luna_strchr(C(a), c), luna_strrchr(C(a), c), luna_memchr(a, c, Len(a))>>

Copy ==
  /\ op = "idle"
  /\ \E a, b \in Strings, n \in 0 .. MaxLen :
       /\ op' = "copy" /\ in' = <<a, b, n>>
       /\ out' = <<luna_strcpy(Room(a), C(b)), luna_strncpy(Room(a), C(b), n),
                   luna_strcat(Room(a), C(b)), luna_strncat(Room(a), C(b), n)>>
-----------------------------------------------------------------------------
(* luna_strtok, and the shell's tokenize *)

TokStays(b, delim, s) ==    \* mutant: the saved pointer stays on the new terminator
  LET first == Scan(s, Len(b) - 1, LAMBDA i : At(b, i) = NUL \/ luna_strchr(delim, At(b, i)) = NULL)
      last == Scan(first, Len(b) - 1, LAMBDA i : At(b, i) = NUL \/ luna_strchr(delim, At(b, i)) # NULL)
  IN IF At(b, first) = NUL THEN [buf |-> b, tok |-> NULL, save |-> NULL]
     ELSE [buf |-> Store(b, last, <<NUL>>), tok |-> first, save |-> last]

luna_strtok(b, delim, s) ==
  LET first == Scan(s, Len(b) - 1, LAMBDA i : At(b, i) = NUL \/ luna_strchr(delim, At(b, i)) = NULL)
      last == Scan(first, Len(b) - 1, LAMBDA i : At(b, i) = NUL \/ luna_strchr(delim, At(b, i)) # NULL)
  IN IF At(b, first) = NUL THEN [buf |-> b, tok |-> NULL, save |-> NULL]
     ELSE IF At(b, last) = NUL THEN [buf |-> b, tok |-> first, save |-> last]
     ELSE [buf |-> Store(b, last, <<NUL>>), tok |-> first, save |-> last + 1]

NextToken(b, save) == IF save = NULL THEN [buf |-> b, tok |-> NULL, save |-> NULL]
                      ELSE luna_strtok(b, <<SPACE, TAB, NUL>>, save)

tokenize(b) ==
  Turns(MAX_ARGS - 1, [t |-> NextToken(b, 0), argv |-> <<>>],
        LAMBDA l : IF l.t.tok = NULL THEN l
                   ELSE [t |-> NextToken(l.t.buf, l.t.save), argv |-> Append(l.argv, l.t.tok)])

Tokenize ==
  /\ op = "idle"
  /\ \E line \in BoundedSeq({97, SPACE, TAB}, MaxLine) :
       op' = "tokenize" /\ in' = line /\ out' = tokenize(C(line))

(* lexer_next_token until TOK_EOF, as parser_parse calls it: a character   *)
(* at a time.  The newline test inside the loop over blanks cannot         *)
(* succeed, so the line stays 1 and the column is the position.            *)
lexer_next_token(b, l) ==
  LET pos == Scan(l.pos, Len(b) - 1, LAMBDA i : At(b, i) \notin {SPACE, TAB, 13})
  IN IF At(b, pos) = NUL THEN [l EXCEPT !.pos = pos]
     ELSE [pos |-> pos + 1,
           toks |-> Append(l.toks, [type |-> "TOK_IDENT", char |-> At(b, pos), line |-> 1, col |-> pos + 1])]

Lex ==
  /\ op = "idle"
  /\ \E source \in BoundedSeq({97, SPACE, 10}, MaxLine) :
       /\ op' = "lex" /\ in' = source
       /\ out' = Turns(Len(source) + 1, [pos |-> 0, toks |-> <<>>], LAMBDA l : lexer_next_token(C(source), l)).toks
-----------------------------------------------------------------------------
(* Numbers and luna_snprintf.  int and uint32_t have WORD values, uint64_t *)
(* WORD * WORD.                                                            *)

Signed(v) == IF v >= WORD \div 2 THEN v - WORD ELSE v
Digit(c) == CASE c \in 48 .. 57 -> c - 48 [] c \in 97 .. 102 -> c - 87 [] c \in 65 .. 70 -> c - 55 [] OTHER -> 99

Value(b, p, base) ==        \* the digits from p on, as a uint32_t
  LET end == Scan(p, Len(b) - 1, LAMBDA i : Digit(At(b, i)) >= base)
      val[k \in 0 .. end - p] == IF k = 0 THEN 0 ELSE (val[k - 1] * base + Digit(At(b, p + k - 1))) % WORD
  IN val[end - p]

luna_atoi(b) ==
  LET p == Scan(0, Len(b) - 1, LAMBDA i : At(b, i) \notin {SPACE, TAB})
  IN IF At(b, p) = MINUS THEN Signed(-Value(b, p + 1, 10) % WORD)
     ELSE Signed(Value(b, IF At(b, p) = 43 THEN p + 1 ELSE p, 10))

StrtoulPlain(b, base) ==    \* mutant: the prefix 0x is not skipped
  Value(b, Scan(0, Len(b) - 1, LAMBDA i : At(b, i) # SPACE), base)

luna_strtoul(b, base) ==
  LET p == Scan(0, Len(b) - 1, LAMBDA i : At(b, i) # SPACE)
  IN Value(b, IF base = 16 /\ At(b, p) = 48 /\ At(b, p + 1) \in {88, 120} THEN p + 2 ELSE p, base)

WriteFull(acc, max, c) == IF Len(acc) < max THEN Append(acc, c) ELSE acc     \* mutant: no room for the terminator

write_char(acc, max, c) == IF Len(acc) < max - 1 THEN Append(acc, c) ELSE acc
Write(acc, max, s) ==
  LET buf[k \in 0 .. Len(s)] == IF k = 0 THEN acc ELSE write_char(buf[k - 1], max, s[k])
  IN buf[Len(s)]
Pad(width, used, c) == IF width > used THEN [i \in 1 .. width - used |-> c] ELSE <<>>

HexChar(d) == IF d < 10 THEN 48 + d ELSE 87 + d
Digits(val, base) ==
  LET text[v \in 0 .. val] == IF v < base THEN <<HexChar(v)>> ELSE Append(text[v \div base], HexChar(v % base))
  IN text[val]

write_str(acc, max, s, width) == Write(acc, max, Pad(width, Len(s), SPACE) \o s)
write_uint(acc, max, val, base, width, pad) ==
  LET tmp == Digits(val, base) IN Write(acc, max, Pad(width, Len(tmp), pad) \o tmp)

(* One directive or literal character of the format, with its argument.    *)
(* -v of the smallest int is itself, and negative as a uint64_t.  Left out *)
(* are %X, %lu, %lx and %ld, which differ from x, u and d in the letters   *)
(* and the width of the word, and a format that ends in a lone %.          *)
Convert(acc, size, f) ==
  CASE f.conv = "lit" -> write_char(acc, size, f.arg)
    [] f.conv = "s" -> write_str(acc, size, f.arg, f.width)
    [] f.conv = "d" -> IF f.arg < 0
                       THEN write_uint(write_char(acc, size, MINUS), size,
                                       (IF f.arg = -(WORD \div 2) THEN f.arg ELSE -f.arg) % (WORD * WORD), 10, f.width, f.pad)
                       ELSE write_uint(acc, size, f.arg, 10, f.width, f.pad)
    [] f.conv = "u" -> write_uint(acc, size, f.arg % WORD, 10, f.width, f.pad)
    [] f.conv = "x" -> write_uint(acc, size, f.arg % WORD, 16, f.width, f.pad)
    [] f.conv = "p" -> write_uint(Write(acc, size, <<48, 120>>), size, f.arg % WORD, 16, 8, 48)
    [] OTHER -> write_char(acc, size, 63)

luna_snprintf(size, fmt) ==
  LET buf[k \in 0 .. Len(fmt)] == IF k = 0 THEN <<>>
                                  ELSE IF Len(buf[k - 1]) < size - 1 THEN Convert(buf[k - 1], size, fmt[k])
                                  ELSE buf[k - 1]
  IN IF size = 0 THEN <<>> ELSE Append(buf[Len(fmt)], NUL)

Item(conv, width, pad, arg) == [conv |-> conv, width |-> width, pad |-> pad, arg |-> arg]

sha256_to_hex(digest) ==
  [j \in 1 .. 2 * Len(digest) |-> HexChar((IF j % 2 = 1 THEN digest[(j + 1) \div 2] \div 16 ELSE digest[j \div 2]) % 16)]

Formats ==
  {<<Item(conv, w, pad, v)>> : conv \in {"d", "u", "x", "p"}, w \in Widths, pad \in {SPACE, 48},
                               v \in -(WORD \div 2) .. WORD \div 2 - 1}
    \cup {<<Item("s", w, SPACE, s), Item(conv, 0, SPACE, 7)>> : w \in Widths, s \in Strings, conv \in {"lit", "d", "?"}}

Format ==
  /\ op = "idle"
  /\ \E fmt \in Formats, size \in Sizes :
       op' = "print" /\ in' = [fmt |-> fmt, size |-> size] /\ out' = luna_snprintf(size, fmt)
-----------------------------------------------------------------------------
(* sha256 up to its compression function: the digest stands for the blocks *)
(* that sha256_transform was given, in order.                              *)

Zeros(from, to) == [i \in 1 .. to - from |-> 0]
TAIL == BLOCK - LENGTH     \* 56

LengthField(len) == [i \in 1 .. LENGTH |-> ((len * 8) \div BYTE^(LENGTH - i)) % BYTE]

PadLate(rest, len) ==       \* mutant: the block is flushed one byte too late
  IF Len(rest) > TAIL + 1
  THEN <<rest \o Zeros(Len(rest), BLOCK), Zeros(0, TAIL) \o LengthField(len)>>
  ELSE <<rest \o Zeros(Len(rest), TAIL) \o LengthField(len)>>

(* The one or two last blocks: `rest` ends with the marker. *)
PadBlocks(rest, len) ==
  IF Len(rest) > TAIL
  THEN <<rest \o Zeros(Len(rest), BLOCK), Zeros(0, TAIL) \o LengthField(len)>>
  ELSE <<rest \o Zeros(Len(rest), TAIL) \o LengthField(len)>>

sha256(data) ==
  LET full == Len(data) \div BLOCK
      rest == Append(SubSeq(data, full * BLOCK + 1, Len(data)), BYTE \div 2)
  IN [k \in 1 .. full |-> SubSeq(data, (k - 1) * BLOCK + 1, k * BLOCK)] \o PadBlocks(rest, Len(data))

Hash ==
  /\ op = "idle"
  /\ \E n \in 0 .. MaxData :
       op' = "hash" /\ in' = [i \in 1 .. n |-> i % BYTE] /\ out' = sha256([i \in 1 .. n |-> i % BYTE])

Return == op # "idle" /\ op' = "idle" /\ in' = <<>> /\ out' = <<>>

Next == Memory \/ Compare \/ Search \/ Copy \/ Tokenize \/ Lex \/ Format \/ Hash \/ Return
Spec == Init /\ [][Next]_vars
-----------------------------------------------------------------------------
(* memset, memcpy and memmove change the n bytes at dst and no other, to   *)
(* the value or to what the source held before the call, whatever the      *)
(* alignment of the two and, for memmove, however they overlap.            *)
MemoryExact ==
  op \in {"memset", "memcpy", "memmove"} =>
    LET d == in[1]  s == in[2]  n == in[3]
    IN \A i \in 0 .. CELLS - 1 :
         At(out, i) = IF i \in d .. d + n - 1
                      THEN IF op = "memset" THEN 0 ELSE At(Fresh, s + i - d) ELSE At(Fresh, i)

Str(b) == SubSeq(b, 1, luna_strlen(b, 0))
UpTo(n, s) == SubSeq(s, 1, Min({n, Len(s)}))
Less(a, b) == \E k \in 0 .. Len(a) : /\ IsPrefix(SubSeq(a, 1, k), b)
                                     /\ k < Len(b)
                                     /\ k = Len(a) \/ a[k + 1] < b[k + 1]
Sign(v, a, b) == (v = 0 <=> a = b) /\ (v < 0 <=> Less(a, b))
Folded(s) == [i \in DOMAIN s |-> Lower(s[i])]
Offsets(a, b) == {i \in 0 .. Len(a) - Len(b) : SubSeq(a, i + 1, i + Len(b)) = b}
First(set) == IF set = {} THEN NULL ELSE Min(set)

(* w is a word of the line, at i: a maximal run of other characters than blanks. *)
Blank(line, i) == line[i] \in {SPACE, TAB}
IsWord(line, i, w) ==
  /\ w # <<>> /\ i + Len(w) - 1 <= Len(line) /\ \A j \in DOMAIN w : w[j] = line[i + j - 1] /\ ~Blank(line, i + j - 1)
  /\ i > 1 => Blank(line, i - 1)
  /\ i + Len(w) <= Len(line) => Blank(line, i + Len(w))

(* The comparison, search and copy functions agree with their definitions  *)
(* on strings.  luna_strncmp does so for equal strings and where they      *)
(* differ before the last of the n characters: a difference at the last    *)
(* one is missed, and equal prefixes are judged by what comes after them.  *)
(* strncpy fills its n bytes and terminates only a shorter string; strrchr *)
(* does not find the terminator.                                           *)
StringsAgree ==
  /\ op = "compare" =>
       LET a == in[1]  b == in[2]  n == in[3]  pre(s) == UpTo(n, s)
       IN /\ Sign(out[1], a, b)
          /\ n > 0 /\ (a = b \/ UpTo(n - 1, C(a)) # UpTo(n - 1, C(b))) => Sign(out[2], pre(a), pre(b))
          /\ out[3] = 0 <=> Folded(a) = Folded(b)
          /\ out[4] = First(Offsets(a, b))
  /\ op = "search" =>
       LET a == in[1]  c == in[2]  hits == {i \in 0 .. Len(a) : At(C(a), i) = c}
       IN /\ out[1] = First(hits)
          /\ out[2] = Max({NULL} \cup (hits \ {Len(a)}))
          /\ out[3] = First(hits \ {Len(a)})
  /\ op = "copy" =>
       LET a == in[1]  b == in[2]  n == in[3]
       IN /\ Str(out[1]) = b
          /\ IsPrefix(UpTo(n, C(b)), out[2])
          /\ Len(b) < n => Str(out[2]) = b
          /\ \A i \in n + 1 .. Len(out[2]) : out[2][i] = Room(a)[i]
          /\ Str(out[3]) = a \o b
          /\ Str(out[4]) = a \o UpTo(n, b)

(* The shell's tokenize finds the words of the line in order, all of them  *)
(* or the first MAX_ARGS - 1, and the lexer every character of a script    *)
(* but the blanks, once and where it stands.                               *)
LinesSplit ==
  /\ op = "tokenize" =>
       LET argv == out.argv
           len(k) == luna_strlen(out.t.buf, argv[k])
       IN /\ Len(argv) <= MAX_ARGS - 1
          /\ \A k \in DOMAIN argv : /\ IsWord(in, argv[k] + 1, SubSeq(out.t.buf, argv[k] + 1, argv[k] + len(k)))
                                    /\ k > 1 => argv[k - 1] < argv[k]
          /\ \A i \in DOMAIN in :
               \/ Blank(in, i) \/ \E k \in DOMAIN argv : i \in argv[k] + 1 .. argv[k] + len(k)
               \/ Len(argv) = MAX_ARGS - 1 /\ \A k \in DOMAIN argv : argv[k] + len(k) < i
  /\ op = "lex" =>
       /\ \A k \in DOMAIN out : /\ out[k].col \in DOMAIN in /\ out[k].char = in[out[k].col] /\ out[k].char # SPACE
                                /\ k > 1 => out[k - 1].col < out[k].col
       /\ \A i \in DOMAIN in : in[i] = SPACE \/ \E k \in DOMAIN out : out[k].col = i

(* luna_snprintf stays inside its buffer, terminates what it wrote, and    *)
(* writes as much of the text as a larger buffer gets.                     *)
FormatFits ==
  op = "print" =>
    /\ Len(out) <= in.size
    /\ \A larger \in Sizes : in.size > 0 /\ larger >= in.size =>
         out = C(UpTo(in.size - 1, Str(luna_snprintf(larger, in.fmt))))

(* The text of a number that fits parses back to it, the smallest int and  *)
(* a blank-padded negative number excepted; a byte of a digest printed as  *)
(* hex parses back to the byte.                                            *)
NumbersParse ==
  op = "print" =>
    LET f == in.fmt[1]  byte == f.arg % 256
    IN /\ Len(out) < in.size =>
            /\ f.conv = "d" /\ f.arg # -(WORD \div 2) /\ (f.arg < 0 /\ f.width > 1 => f.pad = 48) => luna_atoi(out) = f.arg
            /\ f.conv \in {"x", "p"} => luna_strtoul(out, 16) = f.arg % WORD
            /\ f.conv = "u" => luna_strtoul(out, 10) = f.arg % WORD
       /\ f.conv = "x" => luna_strtoul(C(sha256_to_hex(<<byte>>)), 16) = byte

(* The blocks SHA-256 compresses are the message, a marker, the fewest     *)
(* zeros that fill the last block, and the length in bits: at 55, 56, 63   *)
(* and 64 bytes as anywhere else.                                          *)
PaddingExact ==
  op = "hash" =>
    LET text == [j \in 1 .. Len(out) * BLOCK |-> out[(j - 1) \div BLOCK + 1][((j - 1) % BLOCK) + 1]]
        zeros == Len(text) - Len(in) - 1 - LENGTH
    IN /\ \A k \in DOMAIN out : Len(out[k]) = BLOCK
       /\ zeros \in 0 .. BLOCK - 1
       /\ text = in \o <<BYTE \div 2>> \o Zeros(0, zeros) \o LengthField(Len(in))
=============================================================================
