------------------------------ MODULE CStrings ------------------------------
(***************************************************************************)
(* Functions on memory and strings: mem_cpy and mem_set of                 *)
(* src/src/klib.c, which the kernel uses, and those of                     *)
(* src/hagen/src/string.c that programs use.  A memory is a function from  *)
(* addresses to characters; a string ends at the first 0.                  *)
(***************************************************************************)
EXTENDS Integers, Sequences

Null == -1                     \* the null pointer
Endless == -2                  \* a result that never comes

NUL == 0
Least(S) == CHOOSE x \in S : \A y \in S : x <= y

Word(m, s) == [j \in 0..3 |-> m[s + j]]
Put(m, d, w) == [a \in DOMAIN m |-> IF a \in d .. d + 3 THEN w[a - d] ELSE m[a]]
-----------------------------------------------------------------------------
(* What k rounds of a loop make of c. *)
Repeated(Round(_), c, k) ==
  LET After[i \in 0 .. k] == IF i = 0 THEN c ELSE Round(After[i - 1])
  IN  After[k]

(* The copies work on a state: memory m, pointers s and d, n bytes to go.  *)
Moved(c, m, k) == [m |-> m, s |-> c.s + k, d |-> c.d + k, n |-> c.n - k]

OneByte(c) == Moved(c, [c.m EXCEPT ![c.d] = c.m[c.s]], 1)
OneWord(c) == Moved(c, Put(c.m, c.d, Word(c.m, c.s)), 4)

Bytes(c, k) == Repeated(OneByte, c, k)
Words(c, k) == Repeated(OneWord, c, k)

(* The bits of n below 16, each a straight run of bytes. *)
Tail16(c) == Bytes(c, c.n % 16)

(* The end of a copy without the run of 16 (fault injection). *)
RestWithout16(c) == Tail16([c EXCEPT !.n = c.n % 16])

(* The end of a copy: a run of 16 if bit 4 is set, then the rest. *)
Rest(c) == Tail16(IF (c.n \div 16) % 2 = 1 THEN Bytes(c, 16) ELSE c)

(* A word at d, of the last 4 - k bytes of the word before and the first k *)
(* of the next: s is k bytes past a word.                                  *)
ShiftWord(r, k) ==
  LET c == r.c
      x == Word(c.m, c.s + 4 - k)
      mixed == [i \in 0..3 |-> IF i + k <= 3 THEN r.w[i + k] ELSE x[i + k - 4]]
  IN  [c |-> Moved(c, Put(c.m, c.d, mixed), 4), w |-> x]

(* Four such words at a time, as long as n >= 20 - k. *)
ShiftLoop(c, w, k) ==
  Repeated(LAMBDA r : ShiftWord(r, k), [c |-> c, w |-> w], 4 * ((c.n + k - 4) \div 16)).c

(* The three cases of a destination that is k bytes before a word. *)
Shifted(c) ==
  LET k == 4 - (c.d % 4) IN ShiftLoop(Bytes(c, k), Word(c.m, c.s), k)

(* mem_cpy: bytes up to a word of the source; then by words if the         *)
(* destination is at a word too; else, if it is long, by shifted words.    *)
MemCpy(m, d, s, n) ==
  LET c == Bytes([m |-> m, s |-> s, d |-> d, n |-> n],
                 Least({(4 - (s % 4)) % 4, n}))
  IN (IF c.d % 4 = 0 THEN Bytes(Words(c, c.n \div 4), c.n % 4)
      ELSE Rest(IF c.n >= 32 THEN Shifted(c) ELSE c)).m

Fill(m, S, v) == [a \in DOMAIN m |-> IF a \in S THEN v ELSE m[a]]

(* The first bytes and the last ones of mem_set. *)
Ends(n) == (IF n <= 2 THEN {0, n - 1}
            ELSE IF n <= 6 THEN {0, 1, 2, n - 1, n - 2, n - 3}
            ELSE {0, 1, 2, 3, n - 1, n - 2, n - 3, n - 4})

(* mem_set: both ends by overlapping writes, then the words between. *)
MemSet(m, s, v, n) ==
  IF n = 0 THEN m
  ELSE LET k == (4 - (s % 4)) % 4
           ends == {s + i : i \in Ends(n)}
       IN IF n <= 8 THEN Fill(m, ends, v)
          ELSE Fill(m, ends \cup ((s + k) .. (s + k + (((n - k) \div 4) * 4) - 1)), v)

(* memmove of string.c: forwards when the destination is lower, else       *)
(* backwards.                                                              *)
Forwards(m, d, s, n) == Bytes([m |-> m, s |-> s, d |-> d, n |-> n], n).m
Backwards(m, d, s, n) ==
  Repeated(LAMBDA c : [m |-> [c.m EXCEPT ![d + c.n - 1] = c.m[s + c.n - 1]], n |-> c.n - 1],
           [m |-> m, n |-> n], n).m
MemMove(m, d, s, n) == IF d < s THEN Forwards(m, d, s, n) ELSE Backwards(m, d, s, n)
-----------------------------------------------------------------------------
(* The addresses of the string at p, its 0 included. *)
StrLen(m, p) == Least({a \in DOMAIN m : a >= p /\ m[a] = NUL}) - p
Str(m, p) == [i \in 1 .. StrLen(m, p) |-> m[p + i - 1]]

(* strpbrk: the first character at or after p that is in D. *)
StrPbrk(m, p, D) ==
  LET hits == {a \in p .. p + StrLen(m, p) - 1 : m[a] \in D}
  IN IF hits = {} THEN Null ELSE Least(hits)

StrCspn(m, p, D) ==
  IF StrPbrk(m, p, D) = Null THEN StrLen(m, p) ELSE StrPbrk(m, p, D) - p

(* strspn: found is set at the first character in D and never reset, so    *)
(* the loop goes on for ever at the first one that is not.                 *)
StrSpn(m, p, D) == IF m[p] \in D THEN Endless ELSE 0

(* Where the search for the next token begins: behind the 0 put at the end *)
(* of this one.                                                            *)
PastToken(p, len) == p + len + 1

(* strtok_r: the token, the string it was cut from, and where to go on.    *)
StrTokR(m, s1, D, prev) ==
  LET p == IF s1 = Null THEN prev ELSE s1
      len == StrCspn(m, p, D)
      Result(t, b, q) == [tok |-> t, m |-> b, prev |-> q]
  IN IF p = Null THEN Result(Null, m, prev)
     ELSE IF StrSpn(m, p, D) = Endless THEN Result(Endless, m, prev)
     ELSE IF m[p] = NUL THEN Result(Null, m, prev)
     ELSE IF m[p + len] = NUL THEN Result(p, m, Null)
     ELSE Result(p, [m EXCEPT ![p + len] = NUL], PastToken(p, len))
=============================================================================
