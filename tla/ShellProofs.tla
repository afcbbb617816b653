----------------------------- MODULE ShellProofs -----------------------------
(***************************************************************************)
(* Proofs about the shell and what it is built on, for every size of the   *)
(* line buffer and of the screen, every set of keys and lines of any       *)
(* words: what Enter runs is what was typed, since strtok_r, which cuts    *)
(* the line in place, finds each of its words; the copies are exact at     *)
(* every length; and the screen shows the end of all that was printed.     *)
(***************************************************************************)
EXTENDS Shell, FiniteSetTheorems, SequenceTheorems, WellFoundedInduction, TLAPS

(***************************************************************************)
(* Strings in the buffer.                                                  *)
(***************************************************************************)
Char == Keys \cup {NUL, 46, Slash}
Addr == 0 .. BufSize - 1

LEMMA LeastIs ==
  ASSUME NEW S \in SUBSET Nat, S # {}
  PROVE  Least(S) \in S /\ \A x \in S : Least(S) <= x
<1>1. OpToRel(<, Nat) = {ss \in Nat \X Nat : ss[1] < ss[2]}
  BY DEF OpToRel
<1>2. PICK x \in S : \A y \in S : <<y, x>> \notin OpToRel(<, Nat)
  BY WFMin, NatLessThanWellFounded, Zenon
<1>3. ASSUME NEW y \in S PROVE x <= y
  <2>1. ~(y < x)
    BY <1>1, <1>2, Zenon
  <2> QED  BY <2>1
<1> QED  BY <1>3 DEF Least

LEMMA LeastIsThis ==
  ASSUME NEW S \in SUBSET Nat, NEW x \in S, \A y \in S : x <= y
  PROVE  Least(S) = x
<1>1. Least(S) \in S /\ Least(S) <= x /\ x <= Least(S)
  BY LeastIs
<1>2. Least(S) \in Nat /\ x \in Nat
  BY <1>1
<1> QED  BY <1>1, <1>2

(* The string at t ends where the first 0 stands.                          *)
LEMMA StrIs ==
  ASSUME NEW m \in [Addr -> Char], NEW t \in Addr, NEW e \in Addr, t <= e,
         m[e] = NUL, \A a \in t .. e - 1 : m[a] # NUL
  PROVE  StrLen(m, t) = e - t /\ Str(m, t) = [i \in 1 .. e - t |-> m[t + i - 1]]
<1>1. BufSize \in Nat /\ t \in Nat /\ e \in Nat /\ DOMAIN m = Addr
  BY ShellAssumption DEF Addr
<1>2. PICK S : S = {a \in DOMAIN m : a >= t /\ m[a] = NUL}
  OBVIOUS
<1>3. S \in SUBSET Nat /\ e \in S
  BY <1>1, <1>2 DEF Addr
<1>4. ASSUME NEW y \in S PROVE e <= y
  <2>1. y \in Nat /\ y >= t /\ m[y] = NUL
    BY <1>2, <1>3
  <2>2. y \notin t .. e - 1
    BY <2>1
  <2> QED  BY <1>1, <2>1, <2>2
<1>5. Least(S) = e
  BY <1>3, <1>4, LeastIsThis
<1>6. StrLen(m, t) = e - t
  BY <1>2, <1>5 DEF StrLen
<1> QED  BY <1>6 DEF Str
-----------------------------------------------------------------------------
(***************************************************************************)
(* Words and their numbers.                                                *)
(***************************************************************************)
Count(l) == Cardinality(Starts(l))
Rank(l, i) == Cardinality({j \in Starts(l) : j <= i})

LEMMA StartsAreFew ==
  ASSUME NEW l \in Seq(Char)
  PROVE  /\ Starts(l) \in SUBSET (1 .. Len(l)) /\ IsFiniteSet(Starts(l))
         /\ Count(l) \in Nat
         /\ \A i : /\ IsFiniteSet({j \in Starts(l) : j <= i})
                   /\ Rank(l, i) \in Nat /\ Rank(l, i) <= Count(l)
<1>1. Starts(l) \in SUBSET (1 .. Len(l)) /\ IsFiniteSet(1 .. Len(l))
  BY FS_Interval DEF Starts
<1>2. IsFiniteSet(Starts(l)) /\ Count(l) \in Nat
  BY <1>1, FS_Subset, FS_CardinalityType DEF Count
<1>3. ASSUME NEW i
      PROVE  /\ IsFiniteSet({j \in Starts(l) : j <= i})
             /\ Rank(l, i) \in Nat /\ Rank(l, i) <= Count(l)
  <2>1. {j \in Starts(l) : j <= i} \in SUBSET Starts(l)
    OBVIOUS
  <2> QED  BY <1>2, <2>1, FS_Subset, FS_CardinalityType DEF Rank, Count
<1> QED  BY <1>1, <1>2, <1>3

LEMMA RankAtEnds ==
  ASSUME NEW l \in Seq(Char)
  PROVE  Rank(l, 0) = 0 /\ Rank(l, Len(l)) = Count(l)
<1>1. Starts(l) \in SUBSET (1 .. Len(l)) /\ Len(l) \in Nat
  BY StartsAreFew
<1>2. {j \in Starts(l) : j <= 0} = {} /\ {j \in Starts(l) : j <= Len(l)} = Starts(l)
  BY <1>1
<1> QED  BY <1>2, FS_EmptySet DEF Rank, Count

(* One start more, one word more.                                          *)
LEMMA RankStep ==
  ASSUME NEW l \in Seq(Char), NEW i \in 0 .. Len(l), NEW j \in 0 .. Len(l), i < j,
         i + 1 \in Starts(l), \A x \in i + 2 .. j : x \notin Starts(l)
  PROVE  Rank(l, j) = Rank(l, i) + 1
<1>1. PICK S, T : S = {x \in Starts(l) : x <= i} /\ T = {x \in Starts(l) : x <= j}
  OBVIOUS
<1>2. IsFiniteSet(S) /\ i + 1 \notin S
  BY <1>1, StartsAreFew
<1>3. T = S \cup {i + 1}
  <2>1. ASSUME NEW x \in T PROVE x \in S \cup {i + 1}
    <3>1. x \in Starts(l) /\ x <= j /\ x \in Nat
      BY <1>1, StartsAreFew
    <3>2. x \notin i + 2 .. j
      BY <3>1
    <3>3. x <= i \/ x = i + 1
      BY <3>1, <3>2
    <3> QED  BY <1>1, <3>1, <3>3
  <2>2. ASSUME NEW x \in S \cup {i + 1} PROVE x \in T
    <3>1. x \in Starts(l) /\ (x <= i \/ x = i + 1)
      BY <1>1
    <3>2. x \in Nat
      BY <3>1, StartsAreFew
    <3>3. x <= j
      BY <3>1, <3>2
    <3> QED  BY <1>1, <3>1, <3>3
  <2> QED  BY <2>1, <2>2
<1>4. Cardinality(T) = Cardinality(S) + 1
  BY <1>2, <1>3, FS_AddElement
<1> QED  BY <1>1, <1>4 DEF Rank

(* A start is told by its number.                                          *)
LEMMA NthStartIs ==
  ASSUME NEW l \in Seq(Char), NEW i \in Starts(l)
  PROVE  NthStart(l, Rank(l, i)) = i
<1>1. ASSUME NEW x \in Starts(l), NEW y \in Starts(l), x < y
      PROVE  Rank(l, x) # Rank(l, y)
  <2>1. PICK S, T : S = {j \in Starts(l) : j <= x} /\ T = {j \in Starts(l) : j <= y}
    OBVIOUS
  <2>2. IsFiniteSet(S) /\ IsFiniteSet(T)
    BY <2>1, StartsAreFew
  <2>3. Starts(l) \in SUBSET Nat
    BY StartsAreFew
  <2>4. S \in SUBSET T /\ y \in T /\ y \notin S
    <3>1. ASSUME NEW j \in S PROVE j \in T
      <4>1. j \in Starts(l) /\ j <= x
        BY <2>1
      <4>2. j \in Nat /\ x \in Nat /\ y \in Nat
        BY <2>3, <4>1
      <4> QED  BY <1>1, <2>1, <4>1, <4>2
    <3>2. x \in Nat /\ y \in Nat
      BY <2>3
    <3>3. y <= y /\ ~(y <= x)
      BY <1>1, <3>2
    <3> QED  BY <2>1, <3>1, <3>3
  <2>5. Cardinality(S) # Cardinality(T)
    BY <2>2, <2>4, FS_Subset
  <2> QED  BY <2>1, <2>5 DEF Rank
<1>2. \A x, y \in Starts(l) : Rank(l, x) = Rank(l, y) => x = y
  <2> SUFFICES ASSUME NEW x \in Starts(l), NEW y \in Starts(l), Rank(l, x) = Rank(l, y)
               PROVE  x = y
    OBVIOUS
  <2>1. x \in Nat /\ y \in Nat
    BY StartsAreFew
  <2> QED  BY <1>1, <2>1
<1> QED  BY <1>2, Zenon DEF NthStart, Rank

(* The word from i to e, if it ends there.                                 *)
LEMMA WordAtIs ==
  ASSUME NEW l \in Seq(Char), NEW i \in 1 .. Len(l), NEW e \in i .. Len(l),
         \A j \in i .. e : l[j] # SPACE, e = Len(l) \/ l[e + 1] = SPACE
  PROVE  WordAt(l, i) = SubSeq(l, i, e)
<1>1. PICK S : S = {j \in i .. Len(l) : j = Len(l) \/ l[j + 1] = SPACE}
  OBVIOUS
<1>2. S \in SUBSET Nat /\ e \in S
  BY <1>1
<1>3. ASSUME NEW y \in S PROVE e <= y
  <2>1. y \in i .. Len(l) /\ (y = Len(l) \/ l[y + 1] = SPACE)
    BY <1>1
  <2>2. ~(y < e)
    <3>1. ASSUME y < e PROVE FALSE
      <4>1. y + 1 \in i .. e /\ y # Len(l)
        BY <2>1, <3>1
      <4> QED  BY <2>1, <4>1
    <3> QED  BY <3>1
  <2> QED  BY <2>1, <2>2
<1>4. Least(S) = e
  BY <1>2, <1>3, LeastIsThis
<1> QED  BY <1>1, <1>4 DEF WordAt
-----------------------------------------------------------------------------
(***************************************************************************)
(* strtok_r.                                                               *)
(***************************************************************************)

(* What Enter took from the buffer: no 0 in it, and room for one behind.   *)
Fits(l) == l \in Seq(Char) /\ Len(l) \in Addr /\ \A i \in 1 .. Len(l) : l[i] # NUL

(* From address p on, memory m still has the line.                         *)
FromOn(p, m, l) ==
  /\ \A a \in p .. Len(l) - 1 : m[a] = l[a + 1]
  /\ m[Len(l)] = NUL

(* The i-th word is the string at t, and all that is cut later is behind.  *)
WordStands(t, e, m, l) ==
  /\ \A a \in t .. e - 1 : l[a + 1] # SPACE /\ m[a] = l[a + 1]
  /\ e = Len(l) \/ l[e + 1] = SPACE
  /\ m[e] = NUL

TokIs(t, i, m, q, l) ==
  /\ t \in 0 .. Len(l) - 1 /\ t + 1 \in Starts(l) /\ Rank(l, t + 1) = i
  /\ \E e \in t + 1 .. Len(l) : WordStands(t, e, m, l) /\ (q = Null \/ e < q)

(* The first n words were taken, and q is where to go on.                  *)
Scanned(n, m, q, l) ==
  \/ q = Null /\ Count(l) <= n
  \/ /\ q \in 1 .. Len(l) /\ l[q] = SPACE /\ FromOn(q, m, l)
     /\ Rank(l, q) = n \/ (q = Len(l) /\ Count(l) <= n)

DoubleSpace(l) == \E i \in 1 .. Len(l) : l[i] = SPACE /\ (i = 1 \/ l[i - 1] = SPACE)

(* Address p is where the line or a word of it may begin.                  *)
AtWord(p, m, l) == p \in 0 .. Len(l) /\ (p = 0 \/ l[p] = SPACE) /\ FromOn(p, m, l)

(* What there is to find at p: the end, a space, or a word.                *)
Found(r, p, m, prev, l) ==
  \/ p = Len(l) /\ r.tok = Null /\ r.m = m /\ r.prev = prev
  \/ p # Len(l) /\ DoubleSpace(l) /\ r.tok = Endless /\ r.m = m
  \/ /\ r.tok = p /\ r.m \in [Addr -> Char]
     /\ TokIs(p, Rank(l, p) + 1, r.m, r.prev, l)
     /\ Scanned(Rank(l, p) + 1, r.m, r.prev, l)
     /\ \A a \in 0 .. p - 1 : r.m[a] = m[a]

(* A call of strtok_r that looks at address p.                             *)
LEMMA TokenAt ==
  ASSUME NEW l, Fits(l), NEW m \in [Addr -> Char], NEW p, AtWord(p, m, l), NEW s, NEW prev,
         p = IF s = Null THEN prev ELSE s
  PROVE  Found(StrTokR(m, s, {SPACE}, prev), p, m, prev, l)
<1>0. PICK r : r = StrTokR(m, s, {SPACE}, prev)
  OBVIOUS
<1> SUFFICES Found(r, p, m, prev, l)
  BY <1>0
<1>1. PICK L : L = Len(l)
  OBVIOUS
<1>2. /\ l \in Seq(Char) /\ L \in Addr /\ L \in Nat /\ p \in 0 .. L /\ p \in Addr /\ p # Null
      /\ BufSize \in Nat /\ DOMAIN m = Addr
      /\ \A i \in 1 .. L : l[i] # NUL
      /\ \A a \in p .. L - 1 : m[a] = l[a + 1]
      /\ m[L] = NUL
      /\ p = 0 \/ l[p] = SPACE
  <2>1. l \in Seq(Char) /\ L \in Addr /\ \A i \in 1 .. L : l[i] # NUL
    BY <1>1 DEF Fits
  <2>2. BufSize \in Nat /\ L \in Nat /\ p \in 0 .. L
    BY <1>1, ShellAssumption DEF AtWord, Fits, Addr
  <2>3. p \in Addr /\ p # Null
    BY <2>1, <2>2 DEF Addr, Null
  <2>4. (\A a \in p .. L - 1 : m[a] = l[a + 1]) /\ m[L] = NUL
    BY <1>1 DEF FromOn, AtWord
  <2> QED  BY <2>1, <2>2, <2>3, <2>4 DEF AtWord
<1>3. StrLen(m, p) = L - p
  <2>1. \A a \in p .. L - 1 : m[a] # NUL
    BY <1>2
  <2> QED  BY <1>2, <2>1, StrIs
<1>4. CASE p = L
  <2>1. m[p] = NUL /\ m[p] \notin {SPACE}
    BY <1>2, <1>4 DEF NUL, SPACE
  <2>2. r = [tok |-> Null, m |-> m, prev |-> prev]
    BY <1>0, <1>2, <2>1 DEF StrTokR, StrSpn, Null, Endless
  <2> QED  BY <1>1, <1>4, <2>2 DEF Found
<1>5. CASE p # L /\ l[p + 1] = SPACE
  <2>0. p \in Int /\ L \in Int /\ 0 <= p /\ p < L
    BY <1>2, <1>5
  <2>1. p \in p .. L - 1 /\ p + 1 \in 1 .. L
    BY ONLY <2>0
  <2>2. m[p] \in {SPACE}
    BY <1>2, <1>5, <2>1
  <2>3. r = [tok |-> Endless, m |-> m, prev |-> prev]
    BY <1>0, <1>2, <2>2 DEF StrTokR, StrSpn
  <2>4. DoubleSpace(l)
    <3>1. p + 1 = 1 \/ l[(p + 1) - 1] = SPACE
      BY <1>2
    <3> QED  BY <1>1, <1>5, <2>1, <3>1 DEF DoubleSpace
  <2> QED  BY <1>1, <1>5, <2>3, <2>4 DEF Found
<1>6. CASE p # L /\ l[p + 1] # SPACE
  <2>0. p \in Int /\ L \in Int /\ 0 <= p /\ p < L
    BY <1>2, <1>6
  <2>00. p \in p .. L - 1 /\ p + 1 \in 1 .. L
    BY ONLY <2>0
  <2>1. p \in p .. L - 1 /\ p + 1 \in 1 .. L /\ m[p] = l[p + 1] /\ m[p] # NUL /\ m[p] # SPACE
    BY <1>2, <1>6, <2>00
  <2>2. p + 1 \in Starts(l)
    <3>1. p + 1 = 1 \/ l[(p + 1) - 1] = SPACE
      BY <1>2
    <3> QED  BY <1>1, <1>6, <2>1, <3>1 DEF Starts
  <2>3. PICK H : H = {a \in p .. p + StrLen(m, p) - 1 : m[a] \in {SPACE}}
    OBVIOUS
  <2>4. H = {a \in p .. L - 1 : l[a + 1] = SPACE}
    BY <1>2, <1>3, <2>3
  <2>5. PICK e : e = p + StrCspn(m, p, {SPACE})
    OBVIOUS
  <2>6. /\ e \in p + 1 .. L
        /\ \A a \in p .. e - 1 : l[a + 1] # SPACE
        /\ e = L \/ l[e + 1] = SPACE
    <3>1. CASE H = {}
      <4>1. StrPbrk(m, p, {SPACE}) = Null
        BY <2>3, <3>1 DEF StrPbrk
      <4>2. e = L
        BY <1>2, <1>3, <2>5, <4>1 DEF StrCspn
      <4>3. \A a \in p .. L - 1 : l[a + 1] # SPACE
        BY <2>4, <3>1
      <4>4. L \in p + 1 .. L
        BY <1>2, <2>0
      <4> QED  BY <4>2, <4>3, <4>4
    <3>2. CASE H # {}
      <4>1. H \in SUBSET Nat
        BY <1>2, <2>4
      <4>2. Least(H) \in H /\ \A x \in H : Least(H) <= x
        BY <3>2, <4>1, LeastIs
      <4>3. StrPbrk(m, p, {SPACE}) = Least(H) /\ Least(H) # Null
        BY <2>3, <3>2, <4>1, <4>2 DEF StrPbrk, Null
      <4>4. e = Least(H)
        <5>1. StrCspn(m, p, {SPACE}) = Least(H) - p
          BY <4>3 DEF StrCspn
        <5>2. Least(H) \in Nat
          BY <4>1, <4>2
        <5> QED  BY <2>0, <2>5, <5>1, <5>2
      <4>5. e \in p .. L - 1 /\ l[e + 1] = SPACE /\ e # p
        BY <1>6, <2>4, <4>2, <4>4
      <4>6. ASSUME NEW a \in p .. e - 1 PROVE l[a + 1] # SPACE
        <5>1. a \in p .. L - 1 /\ ~(e <= a)
          BY <1>2, <4>5
        <5>2. a \notin H
          BY <4>2, <4>4, <5>1
        <5> QED  BY <2>4, <5>1, <5>2
      <4> QED  BY <1>2, <4>5, <4>6
    <3> QED  BY <3>1, <3>2
  <2>7. \A a \in p .. e - 1 : a \in p .. L - 1 /\ a \in Addr /\ m[a] = l[a + 1]
    BY <1>2, <2>6 DEF Addr
  <2>8. e \in Addr /\ e \in Nat
    BY <1>2, <2>6 DEF Addr
  <2>9. ~(StrSpn(m, p, {SPACE}) = Endless)
    BY <2>1 DEF StrSpn, Endless
  <2>10. Rank(l, p + 1) = Rank(l, p) + 1
    <3>1. \A x \in p + 2 .. p + 1 : x \notin Starts(l)
      BY <1>2
    <3>2. p \in 0 .. Len(l) /\ p + 1 \in 0 .. Len(l) /\ p < p + 1
      BY <1>1, <1>2, <2>1
    <3> QED  BY <1>2, <2>2, <3>1, <3>2, RankStep
  <2>11. ASSUME NEW x \in p + 2 .. e + 1, x \in Starts(l) PROVE FALSE
    <3>1. x \in 1 .. Len(l) /\ l[x] # SPACE /\ (x = 1 \/ l[x - 1] = SPACE)
      BY <2>11 DEF Starts
    <3>2. x - 2 \in p .. e - 1 /\ x - 1 = (x - 2) + 1 /\ x # 1
      BY ONLY <2>0, <2>8, x \in p + 2 .. e + 1
    <3>3. l[x - 1] # SPACE
      BY <2>6, <3>2
    <3> QED  BY <3>1, <3>2, <3>3
  <2>12. Scanned(Rank(l, p) + 1, r.m, r.prev, l) /\ TokIs(p, Rank(l, p) + 1, r.m, r.prev, l)
         /\ r.tok = p /\ r.m \in [Addr -> Char] /\ \A a \in 0 .. p - 1 : r.m[a] = m[a]
    <3>1. CASE e = L
      <4>1. r = [tok |-> p, m |-> m, prev |-> Null]
        BY <1>0, <1>2, <2>1, <2>5, <2>9, <3>1 DEF StrTokR
      <4>2. Count(l) = Rank(l, p) + 1
        <5>1. \A x \in p + 2 .. L : x \notin Starts(l)
          BY <1>2, <2>11, <3>1
        <5>2. p \in 0 .. Len(l) /\ Len(l) \in 0 .. Len(l) /\ p < Len(l)
          BY <1>1, <1>2, <1>6
        <5>3. Rank(l, Len(l)) = Rank(l, p) + 1
          BY <1>1, <1>2, <2>2, <5>1, <5>2, RankStep
        <5> QED  BY <1>2, <5>3, RankAtEnds
      <4>3. Count(l) \in Nat
        BY <1>2, StartsAreFew
      <4>4. WordStands(p, e, m, l)
        BY <1>1, <1>2, <2>6, <2>7, <3>1 DEF WordStands
      <4>5. p \in 0 .. Len(l) - 1 /\ e \in p + 1 .. Len(l)
        BY <1>1, <2>1, <2>6, <1>2
      <4>6. TokIs(p, Rank(l, p) + 1, m, Null, l)
        BY <2>2, <2>10, <4>4, <4>5 DEF TokIs
      <4>7. Scanned(Rank(l, p) + 1, m, Null, l)
        BY <4>2, <4>3 DEF Scanned
      <4>8. r.tok = p /\ r.m = m /\ r.prev = Null
        BY <4>1
      <4> QED  BY <4>6, <4>7, <4>8
    <3>2. CASE e # L
      <4>1. PICK t : t = [m EXCEPT ![e] = NUL]
        OBVIOUS
      <4>2. e \in p .. L - 1 /\ l[e + 1] = SPACE /\ m[e] = l[e + 1] /\ e + 1 \in 1 .. L
        BY <1>2, <2>6, <3>2
      <4>3. m[e] # NUL
        BY <4>2 DEF NUL, SPACE
      <4>4. r = [tok |-> p, m |-> t, prev |-> e + 1]
        <5>1. PastToken(p, StrCspn(m, p, {SPACE})) = e + 1
          BY <2>5 DEF PastToken
        <5> QED  BY <1>0, <1>2, <2>1, <2>5, <2>9, <4>1, <4>3, <5>1 DEF StrTokR
      <4>5. /\ t \in [Addr -> Char] /\ t[e] = NUL
            /\ \A a \in Addr : a # e => t[a] = m[a]
        BY <1>2, <2>8, <4>1 DEF Char
      <4>6. Rank(l, e + 1) = Rank(l, p) + 1
        <5>1. p \in 0 .. L /\ e + 1 \in 0 .. L /\ p < e + 1
          <6>1. e \in p + 1 .. L /\ e + 1 \in 1 .. L
            BY <2>6, <4>2
          <6> QED  BY ONLY <2>0, <2>8, <6>1
        <5>2. \A x \in p + 2 .. e + 1 : x \notin Starts(l)
          BY <2>11
        <5> QED  BY <1>1, <1>2, <2>2, <5>1, <5>2, RankStep
      <4>7. FromOn(e + 1, t, l)
        <5>1. ASSUME NEW a \in e + 1 .. L - 1 PROVE t[a] = l[a + 1]
          <6>1. a \in p .. L - 1 /\ a \in Addr /\ a # e
            BY <1>2, <2>6 DEF Addr
          <6> QED  BY <1>2, <4>5, <6>1
        <5>2. t[L] = NUL
          BY <1>2, <3>2, <4>5
        <5> QED  BY <1>1, <5>1, <5>2 DEF FromOn
      <4>8. Scanned(Rank(l, p) + 1, t, e + 1, l)
        BY <1>1, <4>2, <4>6, <4>7 DEF Scanned
      <4>9. WordStands(p, e, t, l)
        <5>1. ASSUME NEW a \in p .. e - 1 PROVE l[a + 1] # SPACE /\ t[a] = l[a + 1]
          <6>1. a # e
            BY <1>2, <2>8
          <6> QED  BY <2>6, <2>7, <4>5, <6>1
        <5> QED  BY <4>2, <4>5, <5>1 DEF WordStands
      <4>10. TokIs(p, Rank(l, p) + 1, t, e + 1, l)
        <5>1. p \in 0 .. Len(l) - 1 /\ e \in p + 1 .. Len(l) /\ e < e + 1
          BY <1>1, <1>2, <2>1, <2>6
        <5> QED  BY <2>2, <2>10, <4>9, <5>1 DEF TokIs
      <4>11. \A a \in 0 .. p - 1 : t[a] = m[a]
        <5>1. \A a \in 0 .. p - 1 : a \in Addr /\ a # e
          BY <1>2, <2>6 DEF Addr
        <5> QED  BY <4>5, <5>1
      <4>12. r.tok = p /\ r.m = t /\ r.prev = e + 1
        BY <4>4
      <4> QED  BY <4>5, <4>8, <4>10, <4>11, <4>12
    <3> QED  BY <3>1, <3>2
  <2> QED  BY <2>12 DEF Found
<1> QED  BY <1>4, <1>5, <1>6

(* What next_tok finds when n words were taken: nothing, or one more.      *)
Took(r, n, m, q, l) ==
  \/ /\ r.tok = Null /\ r.m = m /\ r.prev = q
     /\ Count(l) <= n /\ Scanned(n + 1, r.m, r.prev, l)
  \/ DoubleSpace(l) /\ r.tok = Endless /\ r.m = m
  \/ /\ r.tok # Null /\ r.tok # Endless
     /\ r.m \in [Addr -> Char] /\ TokIs(r.tok, n + 1, r.m, r.prev, l)
     /\ Scanned(n + 1, r.m, r.prev, l)
     /\ q # Null /\ \A a \in 0 .. q - 1 : r.m[a] = m[a]
     /\ r.prev = Null \/ q < r.prev

LEMMA NextToken ==
  ASSUME NEW l, Fits(l), NEW m \in [Addr -> Char], NEW q, NEW n \in Nat, Scanned(n, m, q, l)
  PROVE  Took(StrTokR(m, Null, {SPACE}, q), n, m, q, l)
<1>r. PICK r : r = StrTokR(m, Null, {SPACE}, q)
  OBVIOUS
<1> SUFFICES Took(r, n, m, q, l)
  BY <1>r
<1>0. Len(l) \in Nat /\ Len(l) \in Addr
  BY ShellAssumption DEF Fits, Addr
<1>1. Count(l) \in Nat /\ Rank(l, Len(l)) = Count(l)
  BY StartsAreFew, RankAtEnds DEF Fits
<1>2. CASE q = Null
  <2>1. r = [tok |-> Null, m |-> m, prev |-> q]
    BY <1>r, <1>2 DEF StrTokR
  <2>2. Count(l) <= n /\ Count(l) <= n + 1
    BY <1>1, <1>2 DEF Scanned, Null
  <2> QED  BY <1>2, <2>1, <2>2 DEF Scanned, Took
<1>3. CASE q # Null
  <2>1. /\ q \in 1 .. Len(l) /\ q \in 0 .. Len(l) /\ l[q] = SPACE /\ FromOn(q, m, l)
        /\ Rank(l, q) = n \/ (q = Len(l) /\ Count(l) <= n)
        /\ Len(l) \in Nat
    <3>1. /\ q \in 1 .. Len(l) /\ l[q] = SPACE /\ FromOn(q, m, l)
          /\ Rank(l, q) = n \/ (q = Len(l) /\ Count(l) <= n)
      BY <1>3 DEF Scanned
    <3> QED  BY <1>0, <3>1
  <2>2. Found(r, q, m, q, l)
    <3>1. AtWord(q, m, l)
      BY <2>1 DEF AtWord
    <3>2. q = IF Null = Null THEN q ELSE Null
      OBVIOUS
    <3> QED  BY <1>r, <3>1, <3>2, TokenAt
  <2>3. CASE q = Len(l) /\ r.tok = Null /\ r.m = m /\ r.prev = q
    <3>1. Count(l) <= n /\ Count(l) <= n + 1
      BY <1>1, <2>1, <2>3
    <3>2. Scanned(n + 1, m, q, l)
      BY <2>1, <2>3, <3>1 DEF Scanned
    <3> QED  BY <2>3, <3>1, <3>2 DEF Took
  <2>4. CASE /\ r.tok = q /\ r.m \in [Addr -> Char]
             /\ TokIs(q, Rank(l, q) + 1, r.m, r.prev, l)
             /\ Scanned(Rank(l, q) + 1, r.m, r.prev, l)
             /\ \A a \in 0 .. q - 1 : r.m[a] = m[a]
    <3>1. q \in 0 .. Len(l) - 1 /\ (r.prev = Null \/ q < r.prev)
      <4>1. q \in 0 .. Len(l) - 1
        BY <2>4 DEF TokIs
      <4>2. PICK e \in q + 1 .. Len(l) : r.prev = Null \/ e < r.prev
        BY <2>4 DEF TokIs
      <4>3. r.prev = Null \/ r.prev \in 1 .. Len(l)
        BY <2>4 DEF Scanned
      <4>4. r.prev # Null => q < r.prev
        BY <2>1, <4>2, <4>3
      <4> QED  BY <4>1, <4>4
    <3>2. q # Len(l) /\ Rank(l, q) = n
      BY <2>1, <3>1
    <3>3. r.tok # Null /\ r.tok # Endless
      BY <2>1, <2>4 DEF Null, Endless
    <3> QED  BY <1>3, <2>4, <3>1, <3>2, <3>3 DEF Took
  <2>5. CASE q # Len(l) /\ DoubleSpace(l) /\ r.tok = Endless /\ r.m = m
    BY <2>5 DEF Took
  <2> QED  BY <2>2, <2>3, <2>4, <2>5 DEF Found
<1> QED  BY <1>2, <1>3

(* The string at such a place is the word of that number.                  *)
LEMMA TokIsWord ==
  ASSUME NEW l, Fits(l), NEW m \in [Addr -> Char], NEW t, NEW i, NEW q, TokIs(t, i, m, q, l)
  PROVE  /\ Str(m, t) = NthWord(l, i) /\ Str(m, t) \in Seq(Char)
         /\ i \in 1 .. Count(l)
<1>1. /\ t \in 0 .. Len(l) - 1 /\ t + 1 \in Starts(l) /\ Rank(l, t + 1) = i
      /\ l \in Seq(Char) /\ Len(l) \in Addr /\ Len(l) \in Nat /\ BufSize \in Nat
      /\ \A j \in 1 .. Len(l) : l[j] # NUL
  BY ShellAssumption DEF TokIs, Fits, Addr
<1>2. PICK e \in t + 1 .. Len(l) : WordStands(t, e, m, l)
  BY DEF TokIs
<1>3. /\ \A a \in t .. e - 1 : l[a + 1] # SPACE /\ m[a] = l[a + 1]
      /\ e = Len(l) \/ l[e + 1] = SPACE
      /\ m[e] = NUL
  BY <1>2 DEF WordStands
<1>4. PICK L : L = Len(l)
  OBVIOUS
<1>5. t \in Nat /\ e \in Nat /\ L \in Nat /\ t < e /\ e <= L /\ L < BufSize
  BY <1>1, <1>4 DEF Addr
<1>6. t \in Addr /\ e \in Addr
  BY <1>1, <1>5 DEF Addr
<1>7. ASSUME NEW a \in t .. e - 1
      PROVE  m[a] # NUL /\ m[a] \in Char
  <2>1. a + 1 \in 1 .. Len(l)
    BY <1>4, <1>5
  <2> QED  BY <1>1, <1>3, <2>1
<1>8. Str(m, t) = [j \in 1 .. e - t |-> m[t + j - 1]]
  <2>1. t <= e
    BY <1>5
  <2> QED  BY <1>3, <1>6, <1>7, <2>1, StrIs
<1>9. WordAt(l, t + 1) = SubSeq(l, t + 1, e)
  <2>1. t + 1 \in 1 .. Len(l) /\ e \in t + 1 .. Len(l)
    BY <1>4, <1>5
  <2>2. ASSUME NEW j \in t + 1 .. e PROVE l[j] # SPACE
    <3>1. j - 1 \in t .. e - 1 /\ (j - 1) + 1 = j
      BY <1>5
    <3> QED  BY <1>3, <3>1
  <2> QED  BY <1>1, <1>3, <2>1, <2>2, WordAtIs
<1>10. SubSeq(l, t + 1, e) = Str(m, t)
  <2>1. SubSeq(l, t + 1, e) = [j \in 1 .. e - t |-> l[t + j]]
    <3>1. (e - (t + 1)) + 1 = e - t /\ \A j \in 1 .. e - t : ((t + 1) + j) - 1 = t + j
      BY <1>5
    <3>2. t + 1 \in 1 .. Len(l) + 1 /\ e \in t .. Len(l)
      BY <1>4, <1>5
    <3> QED  BY <1>1, <3>1, <3>2
  <2>2. ASSUME NEW j \in 1 .. e - t PROVE m[t + j - 1] = l[t + j]
    <3>1. t + j - 1 \in t .. e - 1 /\ (t + j - 1) + 1 = t + j
      BY <1>5
    <3> QED  BY <1>3, <3>1
  <2> QED  BY <1>8, <2>1, <2>2
<1>11. Str(m, t) \in Seq(Char)
  <2>1. ASSUME NEW j \in 1 .. e - t PROVE m[t + j - 1] \in Char
    <3>1. t + j - 1 \in t .. e - 1
      BY <1>5
    <3> QED  BY <1>7, <3>1
  <2>2. e - t \in Nat
    BY <1>5
  <2> QED  BY <1>8, <2>1, <2>2
<1>12. i \in Nat /\ i <= Count(l) /\ i # 0 /\ Count(l) \in Nat
  <2>1. i \in Nat /\ i <= Count(l) /\ Count(l) \in Nat
    BY <1>1, StartsAreFew
  <2>2. i # 0
    <3>1. PICK S : S = {j \in Starts(l) : j <= t + 1}
      OBVIOUS
    <3>2. t + 1 \in S /\ IsFiniteSet(S) /\ Cardinality(S) = i
      <4>1. t + 1 <= t + 1
        BY <1>5
      <4> QED  BY <1>1, <3>1, <4>1, StartsAreFew DEF Rank
    <3> QED  BY <3>2, FS_EmptySet
  <2> QED  BY <2>1, <2>2
<1>13. NthWord(l, i) = Str(m, t)
  <2>1. NthStart(l, i) = t + 1
    BY <1>1, NthStartIs
  <2> QED  BY <1>9, <1>10, <1>12, <2>1 DEF NthWord, Count
<1> QED  BY <1>11, <1>12, <1>13
-----------------------------------------------------------------------------
(***************************************************************************)
(* The invariant.                                                          *)
(***************************************************************************)
TypesOK ==
  /\ buffer \in [Addr -> Char] /\ b_idx \in Addr /\ typed \in Seq(Char)
  /\ Fits(line) /\ dir \in Seq(Char)
  /\ ran \in Seq(Seq(Char) \X Seq(Char))

(* The line being edited has a 0 at the end of the buffer.                 *)
LineEnds == pc = "line" => buffer[BufSize - 1] = NUL

(* How many words of the line were taken, and where to go on.              *)
WordsAreTaken ==
  LET n == 2 * Len(ran) IN
    /\ pc = "line" /\ ~cut => Count(line) <= n
    /\ pc = "next" => \/ tok = Null /\ saveptr = Null
                      \/ /\ TokIs(tok, n + 1, buffer, saveptr, line)
                         /\ Scanned(n + 1, buffer, saveptr, line)
    /\ pc = "run" => /\ TokIs(tok, n + 1, buffer, saveptr, line)
                     /\ Scanned(n + 2, buffer, saveptr, line)
                     /\ dir = NthWord(line, n + 2)
    /\ pc = "child" => Scanned(n, buffer, saveptr, line)
    /\ pc = "hung" => DoubleSpace(line)

(* What was run are the first words.                                       *)
RanSoFar ==
  /\ 2 * Len(ran) <= Count(line) + 1
  /\ \A j \in 1 .. Len(ran) : ran[j] = <<NthWord(line, 2 * j - 1), NthWord(line, 2 * j)>>

IInv == TypesOK /\ LineIsWhatWasTyped /\ LineEnds /\ WordsAreTaken /\ RanSoFar
-----------------------------------------------------------------------------
(* A token survives the cut of the next one.                               *)
LEMMA TokenStands ==
  ASSUME NEW l, Fits(l), NEW t, NEW i, NEW m, NEW q, TokIs(t, i, m, q, l),
         NEW m2, NEW q2, \/ m2 = m /\ q2 = q
                         \/ q \in Nat /\ (\A a \in 0 .. q - 1 : m2[a] = m[a]) /\ (q2 = Null \/ q < q2),
         q2 = Null \/ q2 \in Nat
  PROVE  TokIs(t, i, m2, q2, l)
<1>1. CASE m2 = m /\ q2 = q
  BY <1>1
<1>2. CASE q \in Nat /\ (\A a \in 0 .. q - 1 : m2[a] = m[a]) /\ (q2 = Null \/ q < q2)
  <2>1. /\ t \in 0 .. Len(l) - 1 /\ t + 1 \in Starts(l) /\ Rank(l, t + 1) = i
        /\ Len(l) \in Nat
    BY ShellAssumption DEF TokIs, Fits, Addr
  <2>2. PICK e \in t + 1 .. Len(l) : WordStands(t, e, m, l) /\ (q = Null \/ e < q)
    BY DEF TokIs
  <2>3. e < q /\ e \in Nat /\ t \in Nat
    BY <1>2, <2>1, <2>2 DEF Null
  <2>4. e \in 0 .. q - 1 /\ \A a \in t .. e - 1 : a \in 0 .. q - 1
    BY <1>2, <2>3
  <2>5. WordStands(t, e, m2, l)
    BY <1>2, <2>2, <2>4 DEF WordStands
  <2>6. q2 = Null \/ e < q2
    BY <1>2, <2>3
  <2> QED  BY <2>1, <2>2, <2>5, <2>6 DEF TokIs
<1> QED  BY <1>1, <1>2

(* A command more.                                                         *)
LEMMA OneMoreRun ==
  ASSUME IInv, pc = "run", Runs, UNCHANGED line
  PROVE  /\ ran' \in Seq(Seq(Char) \X Seq(Char)) /\ Len(ran') = Len(ran) + 1
         /\ RanSoFar' /\ Scanned(2 * Len(ran'), buffer, saveptr, line)
<1>1. /\ TokIs(tok, 2 * Len(ran) + 1, buffer, saveptr, line)
      /\ Scanned(2 * Len(ran) + 2, buffer, saveptr, line)
      /\ dir = NthWord(line, 2 * Len(ran) + 2)
      /\ Fits(line) /\ line \in Seq(Char) /\ buffer \in [Addr -> Char] /\ dir \in Seq(Char)
      /\ ran \in Seq(Seq(Char) \X Seq(Char)) /\ Len(ran) \in Nat
      /\ Count(line) \in Nat
  BY StartsAreFew DEF IInv, TypesOK, WordsAreTaken, Fits
<1>2. PICK w : w = Str(buffer, tok)
  OBVIOUS
<1>3. /\ w = NthWord(line, 2 * Len(ran) + 1) /\ w \in Seq(Char)
      /\ 2 * Len(ran) + 1 \in 1 .. Count(line)
  BY <1>1, <1>2, TokIsWord
<1>4. PICK c : c = <<w, dir>>
  OBVIOUS
<1>5. c \in Seq(Char) \X Seq(Char) /\ ran' = ran \o <<c>> /\ ran' = Append(ran, c)
  BY <1>1, <1>2, <1>3, <1>4 DEF Runs
<1>6. /\ ran' \in Seq(Seq(Char) \X Seq(Char)) /\ Len(ran') = Len(ran) + 1
      /\ \A j \in 1 .. Len(ran) : ran'[j] = ran[j]
      /\ ran'[Len(ran) + 1] = c
  BY <1>1, <1>5
<1>7. 2 * Len(ran') = 2 * Len(ran) + 2 /\ 2 * Len(ran') <= Count(line) + 1
  BY <1>1, <1>3, <1>6
<1>8. ASSUME NEW j \in 1 .. Len(ran')
      PROVE  ran'[j] = <<NthWord(line, 2 * j - 1), NthWord(line, 2 * j)>>
  <2>1. CASE j = Len(ran) + 1
    <3>1. 2 * j - 1 = 2 * Len(ran) + 1 /\ 2 * j = 2 * Len(ran) + 2
      BY <1>1, <2>1
    <3> QED  BY <1>1, <1>3, <1>4, <1>6, <2>1, <3>1
  <2>2. CASE j # Len(ran) + 1
    <3>1. j \in 1 .. Len(ran)
      BY <1>1, <1>6, <2>2
    <3> QED  BY <1>6, <3>1 DEF IInv, RanSoFar
  <2> QED  BY <2>1, <2>2
<1>9. RanSoFar'
  BY <1>7, <1>8 DEF RanSoFar
<1> QED  BY <1>1, <1>6, <1>7, <1>9

(* The prompt: an empty line to edit.                                      *)
LEMMA PromptEdits ==
  ASSUME NEW str, Prompt(str)
  PROVE  /\ buffer' \in [Addr -> Char] /\ b_idx' \in Addr /\ typed' \in Seq(Char)
         /\ LineIsWhatWasTyped' /\ LineEnds'
<1>1. buffer' = Empty /\ b_idx' = 0 /\ typed' = <<>> /\ last' = NEWLINE
  BY DEF Prompt
<1>2. BufSize \in Nat \ {0} /\ 0 \in Addr /\ BufSize - 1 \in Addr
  BY ShellAssumption DEF Addr
<1>3. buffer' = [i \in Addr |-> NUL] /\ NUL \in Char
  BY <1>1 DEF Empty, Addr, Char
<1>4. buffer' \in [Addr -> Char] /\ \A i \in Addr : buffer'[i] = NUL
  BY <1>3
<1>5. typed' \in Seq(Char) /\ Len(typed') = 0
  BY <1>1
<1>6. LineIsWhatWasTyped'
  <2>1. \A i \in 0 .. BufSize - 1 :
          buffer'[i] = IF i < b_idx' THEN typed'[i + 1]
                       ELSE IF i = b_idx' /\ last' = BACKSPACE THEN buffer'[i] ELSE NUL
    BY <1>1, <1>4 DEF Addr, NEWLINE, BACKSPACE
  <2> QED  BY <1>1, <1>5, <2>1 DEF LineIsWhatWasTyped
<1> QED  BY <1>1, <1>2, <1>4, <1>5, <1>6 DEF LineEnds

(* The end of a command.                                                   *)
LEMMA ContinueKeeps ==
  ASSUME IInv, NEW str, Continue(str), ran' \in Seq(Seq(Char) \X Seq(Char)), RanSoFar',
         Scanned(2 * Len(ran'), buffer, saveptr, line)
  PROVE  IInv'
<1>1. PICK r, n : r = NextTok /\ n = 2 * Len(ran')
  OBVIOUS
<1>2. /\ line' = line /\ dir' = dir /\ saveptr' = r.prev /\ tok' = r.tok
      /\ n \in Nat /\ n = 2 * Len(ran') /\ buffer \in [Addr -> Char] /\ Fits(line)
  BY <1>1 DEF Continue, IInv, TypesOK
<1>3. \/ r.tok = Null /\ Count(line) <= n
      \/ DoubleSpace(line) /\ r.tok = Endless /\ r.m = buffer
      \/ /\ r.tok # Null /\ r.tok # Endless
         /\ r.m \in [Addr -> Char] /\ TokIs(r.tok, n + 1, r.m, r.prev, line)
         /\ Scanned(n + 1, r.m, r.prev, line)
  <2>1. r = StrTokR(buffer, Null, {SPACE}, saveptr)
    BY <1>1 DEF NextTok
  <2>2. Scanned(n, buffer, saveptr, line)
    BY <1>2
  <2>3. Took(r, n, buffer, saveptr, line)
    BY <1>2, <2>1, <2>2, NextToken
  <2> QED  BY <2>3 DEF Took
<1>4. CASE r.tok = Null /\ Count(line) <= n
  <2>1. pc' = "line" /\ Prompt(str)
    BY <1>1, <1>4 DEF Continue
  <2>2. TypesOK' /\ LineIsWhatWasTyped' /\ LineEnds'
    BY <1>2, <2>1, PromptEdits DEF IInv, TypesOK
  <2>3. WordsAreTaken'
    BY <1>2, <1>4, <2>1 DEF WordsAreTaken
  <2> QED  BY <2>2, <2>3 DEF IInv
<1>5. ASSUME r.tok # Null, r.m \in [Addr -> Char]
      PROVE  /\ pc' = (IF r.tok = Endless THEN "hung" ELSE "next") /\ buffer' = r.m
             /\ TypesOK' /\ LineIsWhatWasTyped' /\ LineEnds'
  <2>1. /\ pc' = (IF r.tok = Endless THEN "hung" ELSE "next")
        /\ buffer' = r.m /\ UNCHANGED <<b_idx, typed, last>>
    BY <1>1, <1>5 DEF Continue
  <2>2. pc' # "line"
    BY <2>1
  <2> QED  BY <1>2, <1>5, <2>1, <2>2 DEF IInv, TypesOK, LineIsWhatWasTyped, LineEnds
<1>6. CASE DoubleSpace(line) /\ r.tok = Endless /\ r.m = buffer
  <2>1. r.tok # Null
    BY <1>6 DEF Null, Endless
  <2>2. pc' = "hung" /\ TypesOK' /\ LineIsWhatWasTyped' /\ LineEnds'
    BY <1>2, <1>5, <1>6, <2>1
  <2>3. WordsAreTaken'
    BY <1>2, <1>6, <2>2 DEF WordsAreTaken
  <2> QED  BY <2>2, <2>3 DEF IInv
<1>7. CASE /\ r.tok # Null /\ r.tok # Endless
           /\ r.m \in [Addr -> Char] /\ TokIs(r.tok, n + 1, r.m, r.prev, line)
           /\ Scanned(n + 1, r.m, r.prev, line)
  <2>1. pc' = "next" /\ buffer' = r.m /\ TypesOK' /\ LineIsWhatWasTyped' /\ LineEnds'
    BY <1>5, <1>7
  <2>2. WordsAreTaken'
    BY <1>2, <1>7, <2>1 DEF WordsAreTaken
  <2> QED  BY <2>1, <2>2 DEF IInv
<1> QED  BY <1>3, <1>4, <1>6, <1>7
-----------------------------------------------------------------------------
LEMMA InitHolds == Init => IInv
<1> SUFFICES ASSUME Init PROVE IInv
  OBVIOUS
<1>1. /\ buffer = Empty /\ b_idx = 0 /\ typed = <<>> /\ line = <<>> /\ ran = <<>> /\ dir = <<>>
      /\ pc = "line"
  BY DEF Init
<1>2. BufSize \in Nat \ {0} /\ 0 \in Addr /\ BufSize - 1 \in Addr
  BY ShellAssumption DEF Addr
<1>3. buffer = [i \in Addr |-> NUL] /\ NUL \in Char
  BY <1>1 DEF Empty, Addr, Char
<1>4. buffer \in [Addr -> Char] /\ \A i \in Addr : buffer[i] = NUL
  BY <1>3
<1>5. TypesOK
  <2>1. line \in Seq(Char) /\ Len(line) = 0 /\ typed \in Seq(Char) /\ dir \in Seq(Char)
        /\ ran \in Seq(Seq(Char) \X Seq(Char))
    BY <1>1
  <2>2. \A i \in 1 .. Len(line) : line[i] # NUL
    BY <2>1
  <2> QED  BY <1>1, <1>2, <1>4, <2>1, <2>2 DEF TypesOK, Fits
<1>6. LineIsWhatWasTyped /\ LineEnds
  BY <1>1, <1>2, <1>4 DEF LineIsWhatWasTyped, LineEnds, Addr
<1>7. Count(line) = 0 /\ Len(ran) = 0
  <2>1. Starts(line) = {}
    BY <1>1 DEF Starts
  <2> QED  BY <1>1, <2>1, FS_EmptySet DEF Count
<1>8. WordsAreTaken /\ RanSoFar
  BY <1>1, <1>7 DEF WordsAreTaken, RanSoFar
<1> QED  BY <1>5, <1>6, <1>8 DEF IInv

(* Keys.  What was run, of which line, stays.                              *)
LEMMA EditingKeeps ==
  ASSUME IInv, pc = "line", UNCHANGED <<saveptr, tok, dir, pc, line, ran, cut>>
  PROVE  WordsAreTaken' /\ RanSoFar'
BY DEF IInv, WordsAreTaken, RanSoFar

LEMMA BackspaceKeeps == IInv /\ Backspace => IInv'
<1> SUFFICES ASSUME IInv, Backspace PROVE IInv'
  OBVIOUS
<1>1. /\ pc = "line" /\ last' = BACKSPACE
      /\ UNCHANGED <<saveptr, tok, dir, pc, line, ran, cut>>
  BY DEF Backspace, Press
<1>2. WordsAreTaken' /\ RanSoFar'
  BY <1>1, EditingKeeps
<1>3. /\ buffer \in [Addr -> Char] /\ b_idx \in Addr /\ typed \in Seq(Char) /\ BufSize \in Nat \ {0}
      /\ b_idx \in Nat /\ b_idx <= BufSize - 1 /\ buffer[BufSize - 1] = NUL /\ b_idx = Len(typed)
      /\ BufSize - 1 \in Addr
  BY <1>1, ShellAssumption DEF IInv, TypesOK, LineEnds, LineIsWhatWasTyped, Addr
<1>4. \A i \in Addr : buffer[i] = IF i < b_idx THEN typed[i + 1]
                      ELSE IF i = b_idx /\ last = BACKSPACE THEN buffer[i] ELSE NUL
  BY <1>1 DEF IInv, LineIsWhatWasTyped, Addr
<1>5. CASE b_idx > 0
  <2>1. /\ buffer' = [buffer EXCEPT ![b_idx] = NUL] /\ b_idx' = b_idx - 1
        /\ typed' = SubSeq(typed, 1, Len(typed) - 1)
    BY <1>5 DEF Backspace, Erased
  <2>2. /\ typed' \in Seq(Char) /\ Len(typed') = b_idx'
        /\ \A i \in 1 .. b_idx' : typed'[i] = typed[i]
    BY <1>3, <1>5, <2>1
  <2>3. /\ buffer' \in [Addr -> Char] /\ buffer'[b_idx] = NUL
        /\ \A i \in Addr : i # b_idx => buffer'[i] = buffer[i]
    BY <1>3, <2>1 DEF Char
  <2>4. b_idx' \in Addr
    BY <1>3, <1>5, <2>1 DEF Addr
  <2>5. ASSUME NEW i \in Addr
        PROVE  buffer'[i] = IF i < b_idx' THEN typed'[i + 1]
                            ELSE IF i = b_idx' /\ last' = BACKSPACE THEN buffer'[i] ELSE NUL
    <3>1. i \in Nat
      BY DEF Addr
    <3>2. CASE i < b_idx'
      <4>1. i # b_idx /\ i < b_idx /\ i + 1 \in 1 .. b_idx'
        BY <1>3, <2>1, <3>1, <3>2
      <4> QED  BY <1>4, <2>2, <2>3, <3>2, <4>1
    <3>3. CASE i = b_idx'
      BY <1>1, <1>3, <2>1, <3>1, <3>3
    <3>4. CASE i > b_idx'
      <4>1. ~(i < b_idx') /\ i # b_idx' /\ (i = b_idx \/ (i > b_idx /\ i # b_idx /\ ~(i < b_idx)))
        BY <1>3, <2>1, <3>1, <3>4
      <4> QED  BY <1>4, <2>3, <4>1
    <3> QED  BY <1>3, <2>1, <3>1, <3>2, <3>3, <3>4
  <2>6. LineIsWhatWasTyped'
    BY <1>1, <2>2, <2>5 DEF LineIsWhatWasTyped, Addr
  <2>7. buffer'[BufSize - 1] = NUL
    BY <1>3, <2>3
  <2>8. TypesOK'
    BY <1>1, <2>2, <2>3, <2>4 DEF IInv, TypesOK
  <2> QED  BY <1>2, <2>6, <2>7, <2>8 DEF IInv, LineEnds
<1>6. CASE ~(b_idx > 0)
  <2>1. UNCHANGED <<buffer, b_idx, typed>>
    BY <1>6 DEF Backspace
  <2>2. LineIsWhatWasTyped'
    BY <1>1, <1>3, <1>4, <2>1 DEF LineIsWhatWasTyped, Addr
  <2> QED  BY <1>1, <1>2, <2>1, <2>2 DEF IInv, TypesOK, LineEnds
<1> QED  BY <1>5, <1>6

LEMMA TypeKeeps == ASSUME IInv, NEW k \in Keys, Type(k) PROVE IInv'
<1>1. /\ pc = "line" /\ last' = k /\ k # BACKSPACE
      /\ UNCHANGED <<saveptr, tok, dir, pc, line, ran, cut>>
  BY DEF Type, Press
<1>2. WordsAreTaken' /\ RanSoFar'
  BY <1>1, EditingKeeps
<1>3. /\ buffer \in [Addr -> Char] /\ b_idx \in Addr /\ typed \in Seq(Char) /\ BufSize \in Nat \ {0}
      /\ b_idx \in Nat /\ buffer[BufSize - 1] = NUL /\ b_idx = Len(typed)
      /\ BufSize - 1 \in Addr /\ k \in Char
  BY <1>1, ShellAssumption DEF IInv, TypesOK, LineEnds, LineIsWhatWasTyped, Addr, Char
<1>4. \A i \in Addr : buffer[i] = IF i < b_idx THEN typed[i + 1]
                      ELSE IF i = b_idx /\ last = BACKSPACE THEN buffer[i] ELSE NUL
  BY <1>1 DEF IInv, LineIsWhatWasTyped, Addr
<1>5. /\ buffer' = [buffer EXCEPT ![b_idx] = k] /\ b_idx' = b_idx + 1 /\ b_idx < BufSize - 1
      /\ typed' = typed \o <<k>>
  BY DEF Type
<1>6. /\ typed' \in Seq(Char) /\ Len(typed') = b_idx' /\ typed'[b_idx + 1] = k
      /\ \A i \in 1 .. b_idx : typed'[i] = typed[i]
  BY <1>3, <1>5
<1>7. /\ buffer' \in [Addr -> Char] /\ buffer'[b_idx] = k
      /\ \A i \in Addr : i # b_idx => buffer'[i] = buffer[i]
  BY <1>3, <1>5
<1>8. b_idx' \in Addr
  BY <1>3, <1>5 DEF Addr
<1>9. ASSUME NEW i \in Addr
      PROVE  buffer'[i] = IF i < b_idx' THEN typed'[i + 1]
                          ELSE IF i = b_idx' /\ last' = BACKSPACE THEN buffer'[i] ELSE NUL
  <2>1. i \in Nat
    BY DEF Addr
  <2>2. CASE i < b_idx
    <3>1. i < b_idx' /\ i # b_idx /\ i + 1 \in 1 .. b_idx
      BY <1>3, <1>5, <2>1, <2>2
    <3> QED  BY <1>4, <1>6, <1>7, <2>2, <3>1
  <2>3. CASE i = b_idx
    BY <1>3, <1>5, <1>6, <1>7, <2>3
  <2>4. CASE i > b_idx
    <3>1. ~(i < b_idx') /\ ~(i < b_idx) /\ i # b_idx
      BY <1>3, <1>5, <2>1, <2>4
    <3> QED  BY <1>1, <1>4, <1>7, <3>1
  <2> QED  BY <1>3, <2>1, <2>2, <2>3, <2>4
<1>10. LineIsWhatWasTyped'
  BY <1>6, <1>9 DEF LineIsWhatWasTyped, Addr
<1>11. LineEnds'
  BY <1>3, <1>5, <1>7 DEF LineEnds
<1>12. TypesOK'
  BY <1>1, <1>6, <1>7, <1>8 DEF IInv, TypesOK
<1> QED  BY <1>2, <1>10, <1>11, <1>12 DEF IInv

LEMMA EnterNothingKeeps == IInv /\ EnterNothing => IInv'
<1> SUFFICES ASSUME IInv, EnterNothing PROVE IInv'
  OBVIOUS
<1>1. /\ pc = "line" /\ last' = NEWLINE /\ buffer' = Empty /\ b_idx = 0 /\ UNCHANGED <<b_idx, typed>>
      /\ UNCHANGED <<saveptr, tok, dir, pc, line, ran, cut>>
  BY DEF EnterNothing, Press
<1>2. WordsAreTaken' /\ RanSoFar'
  BY <1>1, EditingKeeps
<1>3. BufSize \in Nat \ {0} /\ BufSize - 1 \in Addr /\ Len(typed) = 0
  BY <1>1, ShellAssumption DEF Addr, IInv, LineIsWhatWasTyped
<1>4. buffer' = [i \in Addr |-> NUL] /\ NUL \in Char
  BY <1>1 DEF Empty, Addr, Char
<1>5. buffer' \in [Addr -> Char] /\ \A i \in Addr : buffer'[i] = NUL
  BY <1>4
<1>6. \A i \in 0 .. BufSize - 1 :
        buffer'[i] = IF i < b_idx' THEN typed'[i + 1]
                     ELSE IF i = b_idx' /\ last' = BACKSPACE THEN buffer'[i] ELSE NUL
  BY <1>1, <1>5 DEF Addr, NEWLINE, BACKSPACE
<1>7. LineIsWhatWasTyped' /\ LineEnds'
  BY <1>1, <1>3, <1>5, <1>6 DEF LineIsWhatWasTyped, LineEnds
<1> QED  BY <1>1, <1>2, <1>5, <1>7 DEF IInv, TypesOK
-----------------------------------------------------------------------------
(* The line entered is what the buffer holds up to its first 0.            *)
LEMMA EnteredFits ==
  ASSUME NEW m \in [Addr -> Char], m[BufSize - 1] = NUL, NEW l, l = Str(m, 0)
  PROVE  Fits(l) /\ AtWord(0, m, l)
<1>1. /\ BufSize \in Nat \ {0} /\ BufSize - 1 \in Addr /\ Addr \in SUBSET Nat /\ DOMAIN m = Addr
      /\ 0 \in Addr
  BY ShellAssumption DEF Addr
<1>2. PICK S : S = {a \in Addr : m[a] = NUL}
  OBVIOUS
<1>3. S \in SUBSET Nat /\ S # {}
  BY <1>1, <1>2
<1>4. PICK e : e = Least(S)
  OBVIOUS
<1>5. e \in S /\ \A x \in S : e <= x
  BY <1>3, <1>4, LeastIs
<1>6. e \in Addr /\ e \in Nat /\ m[e] = NUL /\ e <= BufSize - 1
  BY <1>1, <1>2, <1>5 DEF Addr
<1>7. ASSUME NEW a \in 0 .. e - 1 PROVE a \in Addr /\ m[a] # NUL
  <2>1. a \in Addr /\ ~(e <= a)
    BY <1>1, <1>6 DEF Addr
  <2> QED  BY <1>2, <1>5, <2>1
<1>8. l = [i \in 1 .. e |-> m[i - 1]]
  <2>1. l = [i \in 1 .. e - 0 |-> m[0 + i - 1]]
    BY <1>1, <1>6, <1>7, StrIs
  <2>2. e - 0 = e /\ \A i \in 1 .. e : 0 + i - 1 = i - 1
    BY <1>6
  <2> QED  BY <2>1, <2>2
<1>9. ASSUME NEW i \in 1 .. e PROVE m[i - 1] \in Char /\ m[i - 1] # NUL
  <2>1. i - 1 \in 0 .. e - 1
    BY <1>6
  <2> QED  BY <1>7, <2>1
<1>10. l \in Seq(Char) /\ Len(l) = e /\ \A i \in 1 .. e : l[i] = m[i - 1]
  BY <1>6, <1>8, <1>9
<1>11. Fits(l)
  BY <1>6, <1>9, <1>10 DEF Fits
<1>12. FromOn(0, m, l)
  <2>1. ASSUME NEW a \in 0 .. e - 1 PROVE m[a] = l[a + 1]
    <3>1. a + 1 \in 1 .. e /\ (a + 1) - 1 = a
      BY <1>6
    <3> QED  BY <1>10, <3>1
  <2> QED  BY <1>6, <1>10, <2>1 DEF FromOn
<1>13. 0 \in 0 .. Len(l)
  BY <1>6, <1>10
<1> QED  BY <1>11, <1>12, <1>13 DEF AtWord

LEMMA EnterKeeps == IInv /\ Enter => IInv'
<1> SUFFICES ASSUME IInv, Enter PROVE IInv'
  OBVIOUS
<1>1. PICK r : r = StrTokR(buffer, 0, {SPACE}, Null)
  OBVIOUS
<1>2. /\ pc = "line" /\ buffer' = r.m /\ saveptr' = r.prev /\ tok' = r.tok
      /\ pc' = (IF r.tok = Endless THEN "hung" ELSE "next")
      /\ line' = Str(buffer, 0) /\ ran' = <<>> /\ cut' = FALSE
      /\ UNCHANGED <<b_idx, dir, typed>>
  BY <1>1 DEF Enter, Press
<1>3. PICK l : l = Str(buffer, 0)
  OBVIOUS
<1>4. buffer \in [Addr -> Char] /\ buffer[BufSize - 1] = NUL
  BY <1>2 DEF IInv, TypesOK, LineEnds
<1>5. Fits(l) /\ AtWord(0, buffer, l)
  BY <1>3, <1>4, EnteredFits
<1>6. Found(r, 0, buffer, Null, l)
  <2>1. 0 = IF 0 = Null THEN Null ELSE 0
    BY DEF Null
  <2> QED  BY <1>1, <1>4, <1>5, <2>1, TokenAt
<1>7. l \in Seq(Char) /\ Rank(l, 0) = 0 /\ Count(l) \in Nat
  BY <1>5, RankAtEnds, StartsAreFew DEF Fits
<1>8. \/ r.tok = Null /\ r.m = buffer /\ r.prev = Null
      \/ DoubleSpace(l) /\ r.tok = Endless /\ r.m = buffer
      \/ /\ r.tok = 0 /\ r.m \in [Addr -> Char]
         /\ TokIs(0, 1, r.m, r.prev, l)
         /\ Scanned(1, r.m, r.prev, l)
  <2>1. Rank(l, 0) + 1 = 1
    BY <1>7
  <2> QED  BY <1>6, <2>1 DEF Found
<1>9. ran' \in Seq(Seq(Char) \X Seq(Char)) /\ Len(ran') = 0 /\ 2 * Len(ran') = 0
  BY <1>2
<1>10. RanSoFar'
  BY <1>2, <1>3, <1>7, <1>9 DEF RanSoFar
<1>11. TypesOK'
  BY <1>2, <1>3, <1>4, <1>5, <1>8, <1>9 DEF IInv, TypesOK
<1>12. pc' # "line"
  BY <1>2
<1>13. WordsAreTaken'
  <2>1. CASE r.tok = Null /\ r.prev = Null
    BY <1>2, <2>1 DEF WordsAreTaken, Null, Endless
  <2>2. CASE DoubleSpace(l) /\ r.tok = Endless
    BY <1>2, <1>3, <2>2 DEF WordsAreTaken
  <2>3. CASE r.tok = 0 /\ TokIs(0, 1, r.m, r.prev, l) /\ Scanned(1, r.m, r.prev, l)
    <3>1. pc' = "next" /\ 2 * Len(ran') + 1 = 1
      BY <1>2, <1>9, <2>3 DEF Endless
    <3> QED  BY <1>2, <1>3, <2>3, <3>1 DEF WordsAreTaken
  <2> QED  BY <1>8, <2>1, <2>2, <2>3
<1> QED  BY <1>10, <1>11, <1>12, <1>13 DEF IInv, LineIsWhatWasTyped, LineEnds

LEMMA ArgumentKeeps == IInv /\ Argument => IInv'
<1> SUFFICES ASSUME IInv, Argument PROVE IInv'
  OBVIOUS
<1>1. PICK r, n : r = NextTok /\ n = 2 * Len(ran)
  OBVIOUS
<1>2. /\ pc = "next" /\ buffer' = r.m /\ saveptr' = r.prev
      /\ dir' = (IF r.tok = Null THEN DotDir
                 ELSE IF r.tok = Endless THEN <<>> ELSE Str(r.m, r.tok))
      /\ pc' = (IF r.tok = Endless THEN "hung" ELSE IF tok = Null THEN "lost" ELSE "run")
      /\ UNCHANGED <<b_idx, tok, keys, typed, last, line, ran, cut>>
  BY <1>1 DEF Argument
<1>3. /\ buffer \in [Addr -> Char] /\ Fits(line) /\ line \in Seq(Char) /\ n \in Nat /\ n + 1 \in Nat
      /\ (n + 1) + 1 = n + 2 /\ n = 2 * Len(ran) /\ ran \in Seq(Seq(Char) \X Seq(Char))
      /\ Count(line) \in Nat
  BY <1>1, StartsAreFew DEF IInv, TypesOK, Fits
<1>4. RanSoFar' /\ pc' # "line"
  BY <1>2 DEF IInv, RanSoFar
<1>5. LineIsWhatWasTyped' /\ LineEnds'
  BY <1>4 DEF LineIsWhatWasTyped, LineEnds
<1>6. DotDir \in Seq(Char) /\ <<>> \in Seq(Char)
  BY DEF DotDir, Char
<1>7. r = StrTokR(buffer, Null, {SPACE}, saveptr)
  BY <1>1 DEF NextTok
<1>8. CASE tok = Null /\ saveptr = Null
  <2>1. r.tok = Null /\ r.m = buffer
    BY <1>7, <1>8 DEF StrTokR
  <2>2. pc' = "lost" /\ dir' = DotDir
    BY <1>2, <1>8, <2>1 DEF Null, Endless
  <2>3. TypesOK' /\ WordsAreTaken'
    BY <1>2, <1>6, <2>1, <2>2 DEF IInv, TypesOK, WordsAreTaken
  <2> QED  BY <1>4, <1>5, <2>3 DEF IInv
<1>9. CASE TokIs(tok, n + 1, buffer, saveptr, line) /\ Scanned(n + 1, buffer, saveptr, line)
  <2>1. Took(r, n + 1, buffer, saveptr, line)
    BY <1>3, <1>7, <1>9, NextToken
  <2>2. tok # Null
    BY <1>9 DEF TokIs, Null
  <2>3. CASE DoubleSpace(line) /\ r.tok = Endless /\ r.m = buffer
    <3>1. pc' = "hung" /\ dir' = <<>>
      BY <1>2, <2>3 DEF Null, Endless
    <3>2. TypesOK' /\ WordsAreTaken'
      BY <1>2, <1>6, <2>3, <3>1 DEF IInv, TypesOK, WordsAreTaken
    <3> QED  BY <1>4, <1>5, <3>2 DEF IInv
  <2>4. CASE /\ r.tok = Null /\ r.m = buffer /\ r.prev = saveptr
             /\ Count(line) <= n + 1 /\ Scanned(n + 2, r.m, r.prev, line)
    <3>1. pc' = "run" /\ dir' = DotDir
      BY <1>2, <2>2, <2>4 DEF Null, Endless
    <3>2. dir' = NthWord(line, n + 2)
      <4>1. ~(n + 2 <= Count(line))
        BY <1>3, <2>4
      <4> QED  BY <3>1, <4>1 DEF NthWord, Count
    <3>3. TypesOK'
      BY <1>2, <1>6, <2>4, <3>1 DEF IInv, TypesOK
    <3>4. WordsAreTaken'
      BY <1>2, <1>3, <1>9, <2>4, <3>1, <3>2 DEF WordsAreTaken
    <3> QED  BY <1>4, <1>5, <3>3, <3>4 DEF IInv
  <2>5. CASE /\ r.tok # Null /\ r.tok # Endless
             /\ r.m \in [Addr -> Char] /\ TokIs(r.tok, n + 2, r.m, r.prev, line)
             /\ Scanned(n + 2, r.m, r.prev, line)
             /\ saveptr # Null /\ \A a \in 0 .. saveptr - 1 : r.m[a] = buffer[a]
             /\ r.prev = Null \/ saveptr < r.prev
    <3>1. pc' = "run" /\ dir' = Str(r.m, r.tok)
      BY <1>2, <2>2, <2>5
    <3>2. dir' = NthWord(line, n + 2) /\ dir' \in Seq(Char)
      BY <1>3, <2>5, <3>1, TokIsWord
    <3>3. TokIs(tok, n + 1, r.m, r.prev, line)
      <4>1. saveptr \in Nat /\ (r.prev = Null \/ r.prev \in Nat)
        BY <1>9, <2>5 DEF Scanned
      <4> QED  BY <1>3, <1>9, <2>5, <4>1, TokenStands
    <3>4. TypesOK'
      BY <1>2, <2>5, <3>2 DEF IInv, TypesOK
    <3>5. WordsAreTaken'
      BY <1>2, <1>3, <2>5, <3>1, <3>2, <3>3 DEF WordsAreTaken
    <3> QED  BY <1>4, <1>5, <3>4, <3>5 DEF IInv
  <2> QED  BY <1>3, <2>1, <2>3, <2>4, <2>5 DEF Took
<1> QED  BY <1>1, <1>2, <1>8, <1>9 DEF IInv, WordsAreTaken
-----------------------------------------------------------------------------
(* Commands. *)
LEMMA RunKeeps ==
  ASSUME IInv, pc = "run", Runs, NEW str, Continue(str)
  PROVE  IInv'
<1>1. UNCHANGED line
  BY DEF Continue
<1> QED  BY <1>1, OneMoreRun, ContinueKeeps

LEMMA ChildDiedKeeps == IInv /\ ChildDied => IInv'
<1> SUFFICES ASSUME IInv, ChildDied PROVE IInv'
  OBVIOUS
<1>1. pc = "child" /\ ran' = ran /\ \E str : Continue(str)
  BY DEF ChildDied
<1>2. PICK str : Continue(str)
  BY <1>1
<1>3. line' = line
  BY <1>2 DEF Continue
<1>4. /\ ran' \in Seq(Seq(Char) \X Seq(Char)) /\ RanSoFar'
      /\ Scanned(2 * Len(ran'), buffer, saveptr, line)
  BY <1>1, <1>3 DEF IInv, TypesOK, RanSoFar, WordsAreTaken
<1> QED  BY <1>2, <1>4, ContinueKeeps

(* The line is given up, or the shell waits, or ends.                      *)
LEMMA StopKeeps ==
  ASSUME IInv, pc = "run", Runs, UNCHANGED <<saveptr, tok, dir, line>>,
         \/ (\E str : Prompt(str)) /\ pc' = "line" /\ cut' = TRUE
         \/ pc' \in {"child", "gone"} /\ UNCHANGED <<buffer, b_idx, typed>>
  PROVE  IInv'
<1>1. /\ ran' \in Seq(Seq(Char) \X Seq(Char)) /\ RanSoFar'
      /\ Scanned(2 * Len(ran'), buffer, saveptr, line)
  BY OneMoreRun
<1>2. CASE (\E str : Prompt(str)) /\ pc' = "line" /\ cut' = TRUE
  <2>1. /\ buffer' \in [Addr -> Char] /\ b_idx' \in Addr /\ typed' \in Seq(Char)
        /\ LineIsWhatWasTyped' /\ LineEnds'
    BY <1>2, PromptEdits
  <2>2. TypesOK' /\ WordsAreTaken'
    BY <1>1, <1>2, <2>1 DEF IInv, TypesOK, WordsAreTaken
  <2> QED  BY <1>1, <2>1, <2>2 DEF IInv
<1>3. CASE pc' \in {"child", "gone"} /\ UNCHANGED <<buffer, b_idx, typed>>
  <2>1. TypesOK' /\ LineIsWhatWasTyped' /\ LineEnds'
    BY <1>1, <1>3 DEF IInv, TypesOK, LineIsWhatWasTyped, LineEnds
  <2>2. WordsAreTaken'
    BY <1>1, <1>3 DEF WordsAreTaken
  <2> QED  BY <1>1, <2>1, <2>2 DEF IInv
<1> QED  BY <1>2, <1>3

LEMMA StepKeeps == IInv /\ [Next]_vars => IInv'
<1> SUFFICES ASSUME IInv, [Next]_vars PROVE IInv'
  OBVIOUS
<1>1. CASE Backspace
  BY <1>1, BackspaceKeeps
<1>2. CASE EnterNothing
  BY <1>2, EnterNothingKeeps
<1>3. CASE Enter
  BY <1>3, EnterKeeps
<1>4. CASE Argument
  BY <1>4, ArgumentKeeps
<1>5. CASE SpawnFails
  BY <1>5, RunKeeps DEF SpawnFails
<1>6. CASE SpawnProc
  BY <1>6, StopKeeps DEF SpawnProc
<1>7. CASE ChildDied
  BY <1>7, ChildDiedKeeps
<1>8. CASE Exit
  BY <1>8, StopKeeps DEF Exit
<1>9. CASE SmallCommand
  BY <1>9, RunKeeps DEF SmallCommand
<1>10. CASE Ls
  <2>1. pc = "run" /\ Runs
    BY <1>10 DEF Ls
  <2>2. \/ \E str : Continue(str)
        \/ \E str : /\ Prompt(str) /\ pc' = "line" /\ cut' = TRUE
                    /\ UNCHANGED <<saveptr, tok, dir, line>>
    BY <1>10 DEF Ls
  <2> QED  BY <2>1, <2>2, RunKeeps, StopKeeps
<1>11. CASE \E k \in Keys : Type(k)
  BY <1>11, TypeKeeps
<1>12. CASE UNCHANGED vars
  BY <1>12 DEF vars, shellVars, IInv, TypesOK, LineIsWhatWasTyped, LineEnds, WordsAreTaken, RanSoFar
<1> QED
  BY <1>1, <1>2, <1>3, <1>4, <1>5, <1>6, <1>7, <1>8, <1>9, <1>10, <1>11, <1>12 DEF Next

(* In every state the invariant gives the property.                        *)
LEMMA WordsAreCommands == IInv => CommandsAreTheWords
<1> SUFFICES ASSUME IInv PROVE CommandsAreTheWords
  OBVIOUS
<1>1. /\ ran \in Seq(Seq(Char) \X Seq(Char)) /\ Len(ran) \in Nat /\ Count(line) \in Nat
      /\ 2 * Len(ran) <= Count(line) + 1
  BY StartsAreFew DEF IInv, TypesOK, RanSoFar, Fits
<1>2. PICK c, h : c = Commands(line) /\ h = (Count(line) + 1) \div 2
  OBVIOUS
<1>3. h \in Nat /\ 2 * h <= Count(line) + 1 /\ Count(line) < 2 * h + 1
  BY <1>1, <1>2
<1>4. Len(ran) <= h
  BY <1>1, <1>3
<1>5. c = [k \in 1 .. h |-> <<NthWord(line, 2 * k - 1), NthWord(line, 2 * k)>>]
  BY <1>2 DEF Commands, Count
<1>x. PICK V : V = {c[k] : k \in 1 .. h}
  OBVIOUS
<1>6. /\ c \in Seq(V) /\ Len(c) = h
      /\ \A k \in 1 .. h : c[k] = <<NthWord(line, 2 * k - 1), NthWord(line, 2 * k)>>
  <2>1. \A k \in 1 .. h : c[k] \in V
    BY <1>x
  <2>2. DOMAIN c = 1 .. h /\ c = [k \in 1 .. h |-> c[k]]
    BY <1>5
  <2>3. c \in [1 .. h -> V]
    BY <2>1, <2>2
  <2>4. c \in Seq(V) /\ Len(c) = h
    BY <1>3, <2>3
  <2> QED  BY <1>5, <2>4
<1>7. ran = SubSeq(c, 1, Len(ran))
  <2>1. \A j \in 1 .. Len(ran) : j \in 1 .. h
    BY <1>1, <1>3, <1>4
  <2>2. \A j \in 1 .. Len(ran) : ran[j] = c[j]
    BY <1>6, <2>1 DEF IInv, RanSoFar
  <2>3. SubSeq(c, 1, Len(ran)) = [j \in 1 .. Len(ran) |-> c[j]]
    BY <1>1, <1>3, <1>4, <1>6
  <2>4. ran = [j \in 1 .. Len(ran) |-> ran[j]]
    BY <1>1
  <2> QED  BY <2>2, <2>3, <2>4
<1>8. pc = "line" /\ ~cut => ran = c
  <2>1. SUFFICES ASSUME pc = "line", ~cut PROVE ran = c
    OBVIOUS
  <2>2. Len(ran) = h
    <3>1. Count(line) <= 2 * Len(ran)
      BY <2>1 DEF IInv, WordsAreTaken
    <3> QED  BY <1>1, <1>3, <1>4, <3>1
  <2>3. SubSeq(c, 1, h) = c
    BY <1>3, <1>6
  <2> QED  BY <1>7, <2>2, <2>3
<1>9. pc = "hung" => DoubleSpace(line)
  BY DEF IInv, WordsAreTaken
<1> QED
  BY <1>2, <1>4, <1>6, <1>7, <1>8, <1>9 DEF CommandsAreTheWords, DoubleSpace

(* What Enter runs is what was typed: the buffer holds the line as edited, *)
(* and the commands run from it, each with its argument, are its words in  *)
(* order, although strtok_r cuts the buffer while they are in use; all of  *)
(* them, unless the line was given up or there are two spaces in it.       *)
THEOREM LinesAreRun == Spec => []EnterRunsTheLine
<1>1. Init => IInv
  BY InitHolds
<1>2. IInv /\ [Next]_vars => IInv'
  BY StepKeeps
<1>3. IInv => EnterRunsTheLine
  BY WordsAreCommands DEF IInv, EnterRunsTheLine
<1> QED  BY <1>1, <1>2, <1>3, PTL DEF Spec
-----------------------------------------------------------------------------
(***************************************************************************)
(* Copies.  A loop is a sequence of states, each made of the one before;   *)
(* there is only one such sequence.                                        *)
(***************************************************************************)
LEMMA OneSequence ==
  ASSUME NEW k \in Nat, NEW f, NEW g, DOMAIN f = 0 .. k, DOMAIN g = 0 .. k, f[0] = g[0],
         \A i \in 1 .. k : f[i - 1] = g[i - 1] => f[i] = g[i]
  PROVE  \A i \in 0 .. k : f[i] = g[i]
<1>1. PICK Bad : Bad = {i \in 0 .. k : f[i] # g[i]}
  OBVIOUS
<1>2. Bad = {}
  <2> SUFFICES ASSUME Bad # {} PROVE FALSE
    OBVIOUS
  <2>1. Bad \in SUBSET Nat
    BY <1>1
  <2>2. PICK i \in Bad : \A x \in Bad : i <= x
    BY <2>1, LeastIs
  <2>3. i \in 0 .. k /\ f[i] # g[i] /\ i # 0
    BY <1>1, <2>2
  <2>4. i \in 1 .. k /\ i - 1 \in 0 .. k /\ ~(i <= i - 1)
    BY <2>3
  <2>5. f[i - 1] = g[i - 1]
    BY <1>1, <2>2, <2>4
  <2> QED  BY <2>3, <2>4, <2>5
<1> QED  BY <1>1, <1>2

(* Memory m when k bytes from s on were copied to d and on.                *)
Copied(m, d, s, k) ==
  [a \in DOMAIN m |-> IF a \in d .. d + k - 1 THEN m[a - d + s] ELSE m[a]]

(* A copy of n bytes that may be made from the first byte to the last.     *)
Copying(m, d, s, n) ==
  /\ m = [a \in DOMAIN m |-> m[a]]
  /\ d \in Nat /\ s \in Nat /\ n \in Nat
  /\ s .. s + n - 1 \subseteq DOMAIN m
  /\ d .. d + n - 1 \subseteq DOMAIN m
  /\ d <= s \/ d >= s + n

(* Its state when k bytes are done.                                        *)
Done(m, d, s, n, k) == [m |-> Copied(m, d, s, k), s |-> s + k, d |-> d + k, n |-> n - k]

(* What is still to be copied was not overwritten.                         *)
LEMMA SourceStands ==
  ASSUME NEW m, NEW d, NEW s, NEW n, Copying(m, d, s, n), NEW k \in 0 .. n,
         NEW a \in s + k .. s + n - 1
  PROVE  Copied(m, d, s, k)[a] = m[a]
<1>1. /\ d \in Nat /\ s \in Nat /\ n \in Nat /\ (d <= s \/ d >= s + n)
      /\ s .. s + n - 1 \subseteq DOMAIN m
  BY DEF Copying
<1>2. a \in s .. s + n - 1 /\ a \notin d .. d + k - 1
  BY <1>1
<1> QED  BY <1>1, <1>2 DEF Copied

(* A run of j bytes more, put down at once.                                *)
LEMMA RunGoes ==
  ASSUME NEW m, NEW d, NEW s, NEW n, Copying(m, d, s, n), NEW k \in Nat, NEW j \in Nat,
         k + j <= n, NEW t,
         t = [a \in DOMAIN m |-> IF a \in d + k .. d + k + j - 1 THEN m[a - d + s]
                                 ELSE Copied(m, d, s, k)[a]]
  PROVE  t = Copied(m, d, s, k + j)
<1>1. d \in Nat /\ s \in Nat /\ n \in Nat
  BY DEF Copying
<1>2. ASSUME NEW a \in DOMAIN m
      PROVE  t[a] = IF a \in d .. d + (k + j) - 1 THEN m[a - d + s] ELSE m[a]
  <2>1. CASE a \in d + k .. d + k + j - 1
    <3>1. a \in d .. d + (k + j) - 1
      BY <1>1, <2>1
    <3> QED  BY <2>1, <3>1
  <2>2. CASE a \notin d + k .. d + k + j - 1
    <3>1. a \in d .. d + (k + j) - 1 <=> a \in d .. d + k - 1
      BY <1>1, <2>2
    <3> QED  BY <2>2, <3>1 DEF Copied
  <2> QED  BY <2>1, <2>2
<1> QED  BY <1>2 DEF Copied

LEMMA ByteGoes ==
  ASSUME NEW m, NEW d, NEW s, NEW n, Copying(m, d, s, n), NEW k \in Nat, k < n
  PROVE  OneByte(Done(m, d, s, n, k)) = Done(m, d, s, n, k + 1)
<1>1. /\ d \in Nat /\ s \in Nat /\ n \in Nat /\ s .. s + n - 1 \subseteq DOMAIN m
      /\ s + k \in s + k .. s + n - 1 /\ k \in 0 .. n
  BY DEF Copying
<1>2. PICK t, u : t = Copied(m, d, s, k) /\ u = [t EXCEPT ![d + k] = t[s + k]]
  OBVIOUS
<1>3. t[s + k] = m[s + k] /\ DOMAIN t = DOMAIN m
  BY <1>1, <1>2, SourceStands DEF Copied
<1>4. u = [a \in DOMAIN m |-> IF a \in d + k .. d + k + 1 - 1 THEN m[a - d + s] ELSE t[a]]
  <2>1. ASSUME NEW a \in DOMAIN m
        PROVE  u[a] = IF a \in d + k .. d + k + 1 - 1 THEN m[a - d + s] ELSE t[a]
    <3>1. CASE a = d + k
      <4>1. a \in d + k .. d + k + 1 - 1 /\ a - d + s = s + k
        BY <1>1, <3>1
      <4> QED  BY <1>2, <1>3, <3>1, <4>1
    <3>2. CASE a # d + k
      <4>1. a \notin d + k .. d + k + 1 - 1
        BY <1>1, <3>2
      <4> QED  BY <1>2, <1>3, <3>2, <4>1
    <3> QED  BY <3>1, <3>2
  <2>2. u = [a \in DOMAIN m |-> u[a]]
    BY <1>2, <1>3
  <2> QED  BY <2>1, <2>2
<1>5. u = Copied(m, d, s, k + 1)
  <2>1. k + 1 <= n
    BY <1>1
  <2>2. PICK j : j = 1
    OBVIOUS
  <2>3. /\ u = [a \in DOMAIN m |-> IF a \in d + k .. d + k + j - 1 THEN m[a - d + s]
                                   ELSE Copied(m, d, s, k)[a]]
        /\ j \in Nat /\ k + j <= n
    BY <1>2, <1>4, <2>1, <2>2
  <2>4. u = Copied(m, d, s, k + j)
    BY <2>3, RunGoes
  <2> QED  BY <2>2, <2>4
<1>6. OneByte(Done(m, d, s, n, k)) = [m |-> u, s |-> (s + k) + 1, d |-> (d + k) + 1, n |-> (n - k) - 1]
  BY <1>2 DEF OneByte, Moved, Done
<1>7. (s + k) + 1 = s + (k + 1) /\ (d + k) + 1 = d + (k + 1) /\ (n - k) - 1 = n - (k + 1)
  BY <1>1
<1> QED  BY <1>5, <1>6, <1>7 DEF Done

LEMMA WordGoes ==
  ASSUME NEW m, NEW d, NEW s, NEW n, Copying(m, d, s, n), NEW k \in Nat, k + 4 <= n,
         NEW w, \A i \in 0 .. 3 : w[i] = m[s + k + i]
  PROVE  Moved(Done(m, d, s, n, k), Put(Copied(m, d, s, k), d + k, w), 4) = Done(m, d, s, n, k + 4)
<1>1. d \in Nat /\ s \in Nat /\ n \in Nat
  BY DEF Copying
<1>2. PICK t, u : t = Copied(m, d, s, k) /\ u = Put(t, d + k, w)
  OBVIOUS
<1>3. u = [a \in DOMAIN m |-> IF a \in d + k .. d + k + 4 - 1 THEN m[a - d + s] ELSE t[a]]
  <2>1. u = [a \in DOMAIN m |-> IF a \in d + k .. d + k + 3 THEN w[a - (d + k)] ELSE t[a]]
    BY <1>2 DEF Put, Copied
  <2>2. d + k + 4 - 1 = d + k + 3
    BY <1>1
  <2>3. ASSUME NEW a \in d + k .. d + k + 3 PROVE w[a - (d + k)] = m[a - d + s]
    <3>1. a - (d + k) \in 0 .. 3 /\ s + k + (a - (d + k)) = a - d + s
      BY <1>1
    <3> QED  BY <3>1
  <2> QED  BY <2>1, <2>2, <2>3
<1>4. u = Copied(m, d, s, k + 4)
  BY <1>2, <1>3, RunGoes
<1>5. Moved(Done(m, d, s, n, k), u, 4) =
        [m |-> u, s |-> (s + k) + 4, d |-> (d + k) + 4, n |-> (n - k) - 4]
  BY DEF Moved, Done
<1>6. (s + k) + 4 = s + (k + 4) /\ (d + k) + 4 = d + (k + 4) /\ (n - k) - 4 = n - (k + 4)
  BY <1>1
<1> QED  BY <1>2, <1>4, <1>5, <1>6 DEF Done

(* Loops over such steps.                                                  *)
LEMMA BytesGo ==
  ASSUME NEW m, NEW d, NEW s, NEW n, Copying(m, d, s, n), NEW k \in Nat, NEW j \in Nat,
         k + j <= n
  PROVE  Bytes(Done(m, d, s, n, k), j) = Done(m, d, s, n, k + j)
<1>1. PICK c : c = Done(m, d, s, n, k)
  OBVIOUS
<1>2. PICK g : g = [i \in 0 .. j |-> Done(m, d, s, n, k + i)]
  OBVIOUS
<1>3. n \in Nat
  BY DEF Copying
<1>4. g[0] = c /\ \A i \in 1 .. j : g[i] = OneByte(g[i - 1])
  <2>1. g[0] = c
    <3>1. k + 0 = k
      OBVIOUS
    <3> QED  BY <1>1, <1>2, <3>1
  <2>2. ASSUME NEW i \in 1 .. j PROVE g[i] = OneByte(g[i - 1])
    <3>1. PICK h : h = k + (i - 1)
      OBVIOUS
    <3>2. h \in Nat /\ h < n /\ h + 1 = k + i /\ i - 1 \in 0 .. j /\ i \in 0 .. j
      BY <1>3, <3>1
    <3>3. OneByte(Done(m, d, s, n, h)) = Done(m, d, s, n, h + 1)
      BY <3>2, ByteGoes
    <3> QED  BY <1>2, <3>1, <3>2, <3>3
  <2> QED  BY <2>1, <2>2
<1>5. g = [i \in 0 .. j |-> IF i = 0 THEN c ELSE OneByte(g[i - 1])]
  <2>1. \A i \in 0 .. j : i = 0 \/ i \in 1 .. j
    OBVIOUS
  <2>2. g = [i \in 0 .. j |-> g[i]]
    BY <1>2
  <2> QED  BY <1>4, <2>1, <2>2
<1>6. PICK f : f = CHOOSE run : run = [i \in 0 .. j |-> IF i = 0 THEN c ELSE OneByte(run[i - 1])]
  OBVIOUS
<1>7. f = [i \in 0 .. j |-> IF i = 0 THEN c ELSE OneByte(f[i - 1])]
  BY <1>5, <1>6
<1>8. f[j] = g[j]
  <2>1. DOMAIN f = 0 .. j /\ DOMAIN g = 0 .. j /\ f[0] = c
    BY <1>2, <1>7
  <2>2. \A i \in 1 .. j : f[i] = OneByte(f[i - 1])
    BY <1>7
  <2>3. \A i \in 1 .. j : f[i - 1] = g[i - 1] => f[i] = g[i]
    BY <1>4, <2>2
  <2>4. f[0] = g[0] /\ j \in Nat /\ j \in 0 .. j
    BY <1>4, <2>1
  <2> QED  BY ONLY <2>1, <2>3, <2>4, OneSequence
<1>9. Bytes(c, j) = f[j]
  BY <1>6 DEF Bytes, Repeated
<1> QED  BY <1>1, <1>2, <1>8, <1>9

LEMMA WordsGo ==
  ASSUME NEW m, NEW d, NEW s, NEW n, Copying(m, d, s, n), NEW k \in Nat, NEW j \in Nat,
         k + 4 * j <= n
  PROVE  Words(Done(m, d, s, n, k), j) = Done(m, d, s, n, k + 4 * j)
<1>1. PICK c : c = Done(m, d, s, n, k)
  OBVIOUS
<1>2. PICK g : g = [i \in 0 .. j |-> Done(m, d, s, n, k + 4 * i)]
  OBVIOUS
<1>3. n \in Nat /\ s \in Nat
  BY DEF Copying
<1>4. g[0] = c /\ \A i \in 1 .. j : g[i] = OneWord(g[i - 1])
  <2>1. g[0] = c
    <3>1. k + 4 * 0 = k
      OBVIOUS
    <3> QED  BY <1>1, <1>2, <3>1
  <2>2. ASSUME NEW i \in 1 .. j PROVE g[i] = OneWord(g[i - 1])
    <3>1. PICK h : h = k + 4 * (i - 1)
      OBVIOUS
    <3>2. h \in Nat /\ h + 4 <= n /\ h + 4 = k + 4 * i /\ i - 1 \in 0 .. j /\ i \in 0 .. j
      BY <1>3, <3>1
    <3>3. PICK e, w : e = Done(m, d, s, n, h) /\ w = Word(e.m, e.s)
      OBVIOUS
    <3>4. \A x \in 0 .. 3 : w[x] = m[s + h + x]
      <4>1. ASSUME NEW x \in 0 .. 3 PROVE w[x] = m[s + h + x]
        <5>1. s + h + x \in s + h .. s + n - 1 /\ h \in 0 .. n
          BY <1>3, <3>2
        <5>2. Copied(m, d, s, h)[s + h + x] = m[s + h + x]
          BY <5>1, SourceStands
        <5> QED  BY <3>3, <5>2 DEF Word, Done
      <4> QED  BY <4>1
    <3>5. OneWord(e) = Done(m, d, s, n, h + 4)
      <4>1. Moved(e, Put(Copied(m, d, s, h), d + h, w), 4) = Done(m, d, s, n, h + 4)
        BY <3>2, <3>3, <3>4, WordGoes
      <4>2. e.m = Copied(m, d, s, h) /\ e.d = d + h
        BY <3>3 DEF Done
      <4> QED  BY <3>3, <4>1, <4>2 DEF OneWord
    <3> QED  BY <1>2, <3>1, <3>2, <3>3, <3>5
  <2> QED  BY <2>1, <2>2
<1>5. g = [i \in 0 .. j |-> IF i = 0 THEN c ELSE OneWord(g[i - 1])]
  <2>1. \A i \in 0 .. j : i = 0 \/ i \in 1 .. j
    OBVIOUS
  <2>2. g = [i \in 0 .. j |-> g[i]]
    BY <1>2
  <2> QED  BY <1>4, <2>1, <2>2
<1>6. PICK f : f = CHOOSE run : run = [i \in 0 .. j |-> IF i = 0 THEN c ELSE OneWord(run[i - 1])]
  OBVIOUS
<1>7. f = [i \in 0 .. j |-> IF i = 0 THEN c ELSE OneWord(f[i - 1])]
  BY <1>5, <1>6
<1>8. f[j] = g[j]
  <2>1. DOMAIN f = 0 .. j /\ DOMAIN g = 0 .. j /\ f[0] = c
    BY <1>2, <1>7
  <2>2. \A i \in 1 .. j : f[i] = OneWord(f[i - 1])
    BY <1>7
  <2>3. \A i \in 1 .. j : f[i - 1] = g[i - 1] => f[i] = g[i]
    BY <1>4, <2>2
  <2>4. f[0] = g[0] /\ j \in Nat /\ j \in 0 .. j
    BY <1>4, <2>1
  <2> QED  BY ONLY <2>1, <2>3, <2>4, OneSequence
<1>9. Words(c, j) = f[j]
  BY <1>6 DEF Words, Repeated
<1> QED  BY <1>1, <1>2, <1>8, <1>9

(* The word that is held has the next bytes of the source, from byte b on. *)
Holds(w, m, s, h, b) == \A i \in b .. 3 : w[i] = m[s + h + i - b]

LEMMA NextIsHeld ==
  ASSUME NEW m, NEW d, NEW s, NEW n, Copying(m, d, s, n), NEW h \in Nat, NEW b \in 1 .. 3,
         h + 4 <= n, NEW x, x = Word(Copied(m, d, s, h), s + h + 4 - b)
  PROVE  /\ \A i \in 0 .. 3 : i < b => x[i] = m[s + h + 4 + i - b]
         /\ h + 8 <= n => Holds(x, m, s, h + 4, b)
<1>1. d \in Nat /\ s \in Nat /\ n \in Nat
  BY DEF Copying
<1>2. ASSUME NEW i \in 0 .. 3, i + h + 4 - b < n PROVE x[i] = m[s + h + 4 + i - b]
  <2>1. PICK a : a = s + h + 4 - b + i
    OBVIOUS
  <2>2. a \in s + h .. s + n - 1 /\ h \in 0 .. n /\ a = s + h + 4 + i - b
    BY <1>1, <1>2, <2>1
  <2>3. Copied(m, d, s, h)[a] = m[a]
    BY <2>2, SourceStands
  <2> QED  BY <2>1, <2>2, <2>3 DEF Word
<1>3. \A i \in 0 .. 3 : i < b => i + h + 4 - b < n
  BY <1>1
<1>4. ASSUME h + 8 <= n, NEW i \in b .. 3 PROVE x[i] = m[s + (h + 4) + i - b]
  <2>1. i \in 0 .. 3 /\ i + h + 4 - b < n /\ s + h + 4 + i - b = s + (h + 4) + i - b
    BY <1>1, <1>4
  <2> QED  BY <1>2, <2>1
<1> QED  BY <1>2, <1>3, <1>4 DEF Holds

LEMMA ShiftGoes ==
  ASSUME NEW m, NEW d, NEW s, NEW n, Copying(m, d, s, n), NEW h \in Nat, h + 4 <= n,
         NEW b \in 1 .. 3, NEW r, r.c = Done(m, d, s, n, h), Holds(r.w, m, s, h, b)
  PROVE  ShiftWord(r, b) = [c |-> Done(m, d, s, n, h + 4),
                            w |-> Word(Copied(m, d, s, h), s + h + 4 - b)]
<1>1. d \in Nat /\ s \in Nat /\ n \in Nat
  BY DEF Copying
<1>2. PICK t, x : t = Copied(m, d, s, h) /\ x = Word(t, s + h + 4 - b)
  OBVIOUS
<1>3. PICK w : w = [i \in 0 .. 3 |-> IF i + b <= 3 THEN r.w[i + b] ELSE x[i + b - 4]]
  OBVIOUS
<1>4. \A i \in 0 .. 3 : i < b => x[i] = m[s + h + 4 + i - b]
  BY <1>2, NextIsHeld
<1>5. \A i \in 0 .. 3 : w[i] = m[s + h + i]
  <2>1. ASSUME NEW i \in 0 .. 3 PROVE w[i] = m[s + h + i]
    <3>1. CASE i + b <= 3
      <4>1. i + b \in b .. 3 /\ s + h + (i + b) - b = s + h + i
        BY <1>1, <3>1
      <4> QED  BY <1>3, <3>1, <4>1 DEF Holds
    <3>2. CASE ~(i + b <= 3)
      <4>1. PICK y : y = i + b - 4
        OBVIOUS
      <4>2. y \in 0 .. 3 /\ y < b /\ s + h + 4 + y - b = s + h + i
        BY <1>1, <3>2, <4>1
      <4>3. x[y] = m[s + h + 4 + y - b]
        BY <1>4, <4>2
      <4> QED  BY <1>3, <3>2, <4>1, <4>2, <4>3
    <3> QED  BY <3>1, <3>2
  <2> QED  BY <2>1
<1>6. ShiftWord(r, b) = [c |-> Moved(Done(m, d, s, n, h), Put(t, d + h, w), 4), w |-> x]
  <2>1. r.c.m = t /\ r.c.s + 4 - b = s + h + 4 - b /\ r.c.d = d + h
    BY <1>2 DEF Done
  <2> QED  BY <1>2, <1>3, <2>1 DEF ShiftWord
<1>7. Moved(Done(m, d, s, n, h), Put(t, d + h, w), 4) = Done(m, d, s, n, h + 4)
  BY <1>2, <1>5, WordGoes
<1> QED  BY <1>2, <1>6, <1>7

(* The rounds of the loop over shifted words.                              *)
Rounds(n, h, b) == 4 * (((n - h) + b - 4) \div 16)

LEMMA ShiftsGo ==
  ASSUME NEW m, NEW d, NEW s, NEW n, Copying(m, d, s, n), NEW h \in Nat, NEW j \in Nat,
         h + 4 * j <= n, NEW b \in 1 .. 3, NEW w, Holds(w, m, s, h, b),
         j = Rounds(n, h, b)
  PROVE  ShiftLoop(Done(m, d, s, n, h), w, b) = Done(m, d, s, n, h + 4 * j)
<1>1. PICK c : c = [c |-> Done(m, d, s, n, h), w |-> w]
  OBVIOUS
<1>2. PICK g : g = [i \in 0 .. j |->
                     [c |-> Done(m, d, s, n, h + 4 * i),
                      w |-> IF i = 0 THEN w
                            ELSE Word(Copied(m, d, s, h + 4 * (i - 1)), s + (h + 4 * (i - 1)) + 4 - b)]]
  OBVIOUS
<1>3. n \in Nat /\ s \in Nat
  BY DEF Copying
<1>4. g[0] = c /\ \A i \in 1 .. j : g[i] = ShiftWord(g[i - 1], b)
  <2>1. g[0] = c
    <3>1. h + 4 * 0 = h
      OBVIOUS
    <3> QED  BY <1>1, <1>2, <3>1
  <2>2. ASSUME NEW i \in 1 .. j PROVE g[i] = ShiftWord(g[i - 1], b)
    <3>1. PICK a, r : a = h + 4 * (i - 1) /\ r = g[i - 1]
      OBVIOUS
    <3>2. a \in Nat /\ a + 4 <= n /\ a + 4 = h + 4 * i /\ i - 1 \in 0 .. j /\ i \in 0 .. j
      BY <1>3, <3>1
    <3>3. r.c = Done(m, d, s, n, a)
      BY <1>2, <3>1, <3>2
    <3>4. Holds(r.w, m, s, a, b)
      <4>1. CASE i - 1 = 0
        <5>1. r.w = w /\ a = h
          BY <1>2, <3>1, <3>2, <4>1
        <5> QED  BY <5>1
      <4>2. CASE i - 1 # 0
        <5>1. PICK y : y = h + 4 * ((i - 1) - 1)
          OBVIOUS
        <5>2. y \in Nat /\ y + 8 <= n /\ y + 4 <= n /\ a = y + 4
          BY <1>3, <3>1, <4>2, <5>1
        <5>3. r.w = Word(Copied(m, d, s, y), s + y + 4 - b)
          BY <1>2, <3>1, <3>2, <4>2, <5>1
        <5> QED  BY <5>2, <5>3, NextIsHeld
      <4> QED  BY <4>1, <4>2
    <3>5. ShiftWord(r, b) = [c |-> Done(m, d, s, n, a + 4),
                             w |-> Word(Copied(m, d, s, a), s + a + 4 - b)]
      BY <3>2, <3>3, <3>4, ShiftGoes
    <3>6. g[i] = [c |-> Done(m, d, s, n, h + 4 * i), w |-> Word(Copied(m, d, s, a), s + a + 4 - b)]
      <4>1. i # 0
        OBVIOUS
      <4> QED  BY <1>2, <3>1, <3>2, <4>1
    <3> QED  BY <3>1, <3>2, <3>5, <3>6
  <2> QED  BY <2>1, <2>2
<1>5. g = [i \in 0 .. j |-> IF i = 0 THEN c ELSE ShiftWord(g[i - 1], b)]
  <2>1. \A i \in 0 .. j : i = 0 \/ i \in 1 .. j
    OBVIOUS
  <2>2. g = [i \in 0 .. j |-> g[i]]
    BY <1>2
  <2> QED  BY <1>4, <2>1, <2>2
<1>6. PICK f : f = CHOOSE run : run = [i \in 0 .. j |-> IF i = 0 THEN c ELSE ShiftWord(run[i - 1], b)]
  OBVIOUS
<1>7. f = [i \in 0 .. j |-> IF i = 0 THEN c ELSE ShiftWord(f[i - 1], b)]
  BY <1>5, <1>6
<1>8. f[j] = g[j]
  <2>1. DOMAIN f = 0 .. j /\ DOMAIN g = 0 .. j /\ f[0] = c
    BY <1>2, <1>7
  <2>2. \A i \in 1 .. j : f[i] = ShiftWord(f[i - 1], b)
    BY <1>7
  <2>3. \A i \in 1 .. j : f[i - 1] = g[i - 1] => f[i] = g[i]
    BY <1>4, <2>2
  <2>4. f[0] = g[0] /\ j \in Nat /\ j \in 0 .. j
    BY <1>4, <2>1
  <2> QED  BY ONLY <2>1, <2>3, <2>4, OneSequence
<1>9. ShiftLoop(Done(m, d, s, n, h), w, b) = f[j].c
  <2>1. 4 * ((Done(m, d, s, n, h).n + b - 4) \div 16) = j
    BY DEF Done, Rounds
  <2> QED  BY <1>1, <1>6, <2>1 DEF ShiftLoop, Repeated
<1> QED  BY <1>2, <1>8, <1>9

(* The three ends of a copy.                                               *)
LEMMA RestGoes ==
  ASSUME NEW m, NEW d, NEW s, NEW n, Copying(m, d, s, n), NEW h \in 0 .. n, n - h < 32
  PROVE  Rest(Done(m, d, s, n, h)) = Done(m, d, s, n, n)
<1>1. n \in Nat /\ h \in Nat
  BY DEF Copying
<1>2. PICK c, x : c = Done(m, d, s, n, h) /\ x = n - h
  OBVIOUS
<1>3. c.n = x /\ x \in 0 .. 31
  BY <1>1, <1>2 DEF Done
<1>4. CASE (x \div 16) % 2 = 1
  <2>1. x >= 16 /\ x % 16 = x - 16
    BY <1>3, <1>4
  <2>2. Bytes(c, 16) = Done(m, d, s, n, h + 16)
    BY <1>1, <1>2, <2>1, BytesGo
  <2>3. Bytes(c, 16).n % 16 = x - 16
    <3>1. n - (h + 16) = x - 16 /\ x - 16 \in 0 .. 15
      BY <1>1, <1>2, <1>3, <2>1
    <3>2. (x - 16) % 16 = x - 16
      BY <3>1
    <3> QED  BY <2>2, <3>1, <3>2 DEF Done
  <2>4. Bytes(Done(m, d, s, n, h + 16), x - 16) = Done(m, d, s, n, n)
    <3>1. PICK y, z : y = h + 16 /\ z = x - 16
      OBVIOUS
    <3>2. y \in Nat /\ z \in Nat /\ y + z <= n /\ y + z = n
      BY <1>1, <1>2, <1>3, <2>1, <3>1
    <3> QED  BY <3>1, <3>2, BytesGo
  <2> QED  BY <1>2, <1>3, <1>4, <2>2, <2>3, <2>4 DEF Rest, Tail16
<1>5. CASE (x \div 16) % 2 # 1
  <2>1. x % 16 = x
    BY <1>3, <1>5
  <2>2. x \in Nat /\ h + x <= n /\ h + x = n
    BY <1>1, <1>2, <1>3
  <2>3. Bytes(c, x) = Done(m, d, s, n, n)
    BY <1>1, <1>2, <2>2, BytesGo
  <2> QED  BY <1>2, <1>3, <1>5, <2>1, <2>3 DEF Rest, Tail16
<1> QED  BY <1>4, <1>5

LEMMA ShiftedGoes ==
  ASSUME NEW m, NEW d, NEW s, NEW n, Copying(m, d, s, n), NEW h \in 0 .. n, n - h >= 32,
         (d + h) % 4 # 0
  PROVE  \E y \in 0 .. n : n - y < 32 /\ Shifted(Done(m, d, s, n, h)) = Done(m, d, s, n, y)
<1>1. n \in Nat /\ h \in Nat /\ d \in Nat /\ s \in Nat
  BY DEF Copying
<1>2. PICK c, b : c = Done(m, d, s, n, h) /\ b = 4 - ((d + h) % 4)
  OBVIOUS
<1>3. b \in 1 .. 3 /\ c.d = d + h /\ c.m = Copied(m, d, s, h) /\ c.s = s + h
  BY <1>1, <1>2 DEF Done
<1>4. Bytes(c, b) = Done(m, d, s, n, h + b)
  <2>1. b \in Nat /\ h + b <= n
    BY <1>1, <1>3
  <2> QED  BY <1>1, <1>2, <2>1, BytesGo
<1>5. PICK w : w = Word(c.m, c.s)
  OBVIOUS
<1>6. Holds(w, m, s, h + b, b)
  <2>1. ASSUME NEW i \in b .. 3 PROVE w[i] = m[s + (h + b) + i - b]
    <3>1. i \in 0 .. 3 /\ s + h + i \in s + h .. s + n - 1 /\ s + h + i = s + (h + b) + i - b
      BY <1>1, <1>3
    <3>2. Copied(m, d, s, h)[s + h + i] = m[s + h + i]
      BY <3>1, SourceStands
    <3> QED  BY <1>3, <1>5, <3>1, <3>2 DEF Word
  <2> QED  BY <2>1 DEF Holds
<1>7. PICK z, j, q : z = h + b /\ q = ((n - z) + b - 4) \div 16 /\ j = 4 * q
  OBVIOUS
<1>8. z \in Nat /\ j \in Nat /\ z + 4 * j <= n /\ n - (z + 4 * j) < 32
  <2>1. (n - z) + b - 4 \in Nat /\ z \in Nat
    BY <1>1, <1>3, <1>7
  <2>2. PICK v : v = (n - z) + b - 4
    OBVIOUS
  <2>3. q \in Nat /\ 16 * q <= v /\ v < 16 * q + 16
    BY <1>7, <2>1, <2>2
  <2> QED  BY <1>1, <1>3, <1>7, <2>1, <2>2, <2>3
<1>9. ShiftLoop(Done(m, d, s, n, z), w, b) = Done(m, d, s, n, z + 4 * j)
  <2>1. j = Rounds(n, z, b) /\ Holds(w, m, s, z, b) /\ b \in 1 .. 3
    BY <1>3, <1>6, <1>7 DEF Rounds
  <2>2. Copying(m, d, s, n)
    OBVIOUS
  <2> QED  BY ONLY <1>8, <2>1, <2>2, ShiftsGo
<1>10. Shifted(c) = Done(m, d, s, n, z + 4 * j)
  BY <1>2, <1>3, <1>4, <1>5, <1>7, <1>9 DEF Shifted
<1>11. z + 4 * j \in 0 .. n
  BY <1>1, <1>8
<1> QED  BY <1>2, <1>8, <1>10, <1>11

(* mem_cpy copies n bytes and no other, at every alignment, also when the  *)
(* places overlap with the source above.                                   *)
LEMMA MemCpyCopies ==
  ASSUME NEW m, NEW d, NEW s, NEW n, Copying(m, d, s, n)
  PROVE  MemCpy(m, d, s, n) = Copied(m, d, s, n)
<1>1. n \in Nat /\ d \in Nat /\ s \in Nat
  BY DEF Copying
<1>2. PICK h : h = Least({(4 - (s % 4)) % 4, n})
  OBVIOUS
<1>3. h \in 0 .. n
  <2>1. PICK x : x = (4 - (s % 4)) % 4
    OBVIOUS
  <2>2. x \in Nat
    BY <1>1, <2>1
  <2>3. {x, n} \in SUBSET Nat /\ {x, n} # {}
    BY <1>1, <2>2
  <2>4. h \in {x, n} /\ \A y \in {x, n} : h <= y
    BY <1>2, <2>1, <2>3, LeastIs
  <2> QED  BY <1>1, <2>2, <2>4
<1>4. [m |-> m, s |-> s, d |-> d, n |-> n] = Done(m, d, s, n, 0)
  <2>1. Copied(m, d, s, 0) = m
    <3>1. m = [a \in DOMAIN m |-> m[a]] /\ d .. d + 0 - 1 = {}
      BY <1>1 DEF Copying
    <3> QED  BY <3>1 DEF Copied
  <2>2. s + 0 = s /\ d + 0 = d /\ n - 0 = n
    BY <1>1
  <2> QED  BY <2>1, <2>2 DEF Done
<1>5. PICK c : c = Bytes([m |-> m, s |-> s, d |-> d, n |-> n], h)
  OBVIOUS
<1>6. c = Done(m, d, s, n, h)
  <2>1. 0 + h <= n /\ h \in Nat /\ 0 + h = h
    BY <1>3
  <2>2. Bytes(Done(m, d, s, n, 0), h) = Done(m, d, s, n, 0 + h)
    BY <2>1, BytesGo
  <2> QED  BY <1>4, <1>5, <2>1, <2>2
<1>7. c.d = d + h /\ c.n = n - h /\ n - h \in Nat
  BY <1>1, <1>3, <1>6 DEF Done
<1>8. CASE (d + h) % 4 = 0
  <2>1. PICK x, q, r : x = n - h /\ q = x \div 4 /\ r = x % 4
    OBVIOUS
  <2>2. q \in Nat /\ r \in Nat /\ x = 4 * q + r
    BY <1>7, <2>1
  <2>3. Words(c, q) = Done(m, d, s, n, h + 4 * q)
    <3>1. h + 4 * q <= n /\ h \in Nat
      BY <1>1, <1>3, <2>1, <2>2
    <3> QED  BY <1>6, <2>2, <3>1, WordsGo
  <2>4. Bytes(Words(c, q), r) = Done(m, d, s, n, n)
    <3>1. PICK y : y = h + 4 * q
      OBVIOUS
    <3>2. y \in Nat /\ y + r <= n /\ y + r = n
      BY <1>1, <1>3, <2>1, <2>2, <3>1
    <3> QED  BY <2>2, <2>3, <3>1, <3>2, BytesGo
  <2>5. MemCpy(m, d, s, n) = Done(m, d, s, n, n).m
    BY <1>2, <1>5, <1>7, <1>8, <2>1, <2>4 DEF MemCpy
  <2> QED  BY <2>5 DEF Done
<1>9. CASE (d + h) % 4 # 0
  <2>1. PICK e : e = IF n - h >= 32 THEN Shifted(c) ELSE c
    OBVIOUS
  <2>2. \E y \in 0 .. n : n - y < 32 /\ e = Done(m, d, s, n, y)
    <3>1. CASE n - h >= 32
      BY <1>3, <1>6, <1>9, <2>1, <3>1, ShiftedGoes
    <3>2. CASE ~(n - h >= 32)
      BY <1>3, <1>6, <1>7, <2>1, <3>2
    <3> QED  BY <3>1, <3>2
  <2>3. Rest(e) = Done(m, d, s, n, n)
    BY <2>2, RestGoes
  <2>4. MemCpy(m, d, s, n) = Rest(e).m
    BY <1>2, <1>5, <1>7, <1>9, <2>1 DEF MemCpy
  <2> QED  BY <2>3, <2>4 DEF Done
<1> QED  BY <1>8, <1>9

(* mem_set fills n bytes and no other.                                     *)
LEMMA MemSetFills ==
  ASSUME NEW m, m = [a \in DOMAIN m |-> m[a]], NEW s \in Nat, NEW n \in Nat, NEW v
  PROVE  MemSet(m, s, v, n) = Fill(m, s .. s + n - 1, v)
<1>1. CASE n = 0
  <2>1. s .. s + n - 1 = {}
    BY <1>1
  <2> QED  BY <1>1, <2>1 DEF MemSet, Fill
<1>2. CASE n # 0
  <2>1. PICK k, E, q : /\ k = (4 - (s % 4)) % 4 /\ E = {s + i : i \in Ends(n)}
                       /\ q = (n - k) \div 4
    OBVIOUS
  <2>2. k \in 0 .. 3
    BY <2>1
  <2>3. MemSet(m, s, v, n) = IF n <= 8 THEN Fill(m, E, v)
                             ELSE Fill(m, E \cup (s + k .. s + k + (q * 4) - 1), v)
    BY <1>2, <2>1 DEF MemSet
  <2>4. \A i \in Ends(n) : i \in 0 .. n - 1
    BY <1>2 DEF Ends
  <2>5. ASSUME NEW a \in E PROVE a \in s .. s + n - 1
    <3>1. PICK i \in Ends(n) : a = s + i
      BY <2>1
    <3> QED  BY <2>4, <3>1
  <2>6. CASE n <= 8
    <3>1. ASSUME NEW i \in 0 .. n - 1 PROVE i \in Ends(n)
      BY <1>2, <2>6 DEF Ends
    <3>2. ASSUME NEW a \in s .. s + n - 1 PROVE a \in E
      <4>1. a - s \in 0 .. n - 1 /\ a = s + (a - s)
        OBVIOUS
      <4> QED  BY <2>1, <3>1, <4>1
    <3>3. E = s .. s + n - 1
      BY <2>5, <3>2
    <3> QED  BY <2>3, <2>6, <3>3
  <2>7. CASE ~(n <= 8)
    <3>1. n - k \in Nat /\ q \in Nat /\ 4 * q <= n - k /\ n - k < 4 * q + 4 /\ q * 4 = 4 * q
      BY <2>1, <2>2, <2>7
    <3>2. ASSUME NEW a \in s .. s + n - 1, a \notin s + k .. s + k + (q * 4) - 1 PROVE a \in E
      <4>1. PICK i : i = a - s
        OBVIOUS
      <4>2. i \in {0, 1, 2, 3, n - 1, n - 2, n - 3, n - 4} /\ a = s + i
        BY <2>2, <3>1, <3>2, <4>1
      <4>3. i \in Ends(n)
        BY <2>7, <4>2 DEF Ends
      <4> QED  BY <2>1, <4>2, <4>3
    <3>3. ASSUME NEW a \in s + k .. s + k + (q * 4) - 1 PROVE a \in s .. s + n - 1
      BY <2>2, <3>1
    <3>4. E \cup (s + k .. s + k + (q * 4) - 1) = s .. s + n - 1
      BY <2>5, <3>2, <3>3
    <3> QED  BY <2>3, <2>7, <3>4
  <2> QED  BY <2>6, <2>7
<1> QED  BY <1>1, <1>2

(* memmove, when the places may overlap either way.                        *)
LEMMA BackwardsCopies ==
  ASSUME NEW m, NEW d \in Nat, NEW s \in Nat, NEW n \in Nat, s <= d,
         m = [a \in DOMAIN m |-> m[a]],
         s .. s + n - 1 \subseteq DOMAIN m, d .. d + n - 1 \subseteq DOMAIN m
  PROVE  Backwards(m, d, s, n) = Copied(m, d, s, n)
<1> DEFINE Round(c) == [m |-> [c.m EXCEPT ![d + c.n - 1] = c.m[s + c.n - 1]], n |-> c.n - 1]
           Last(i) == [a \in DOMAIN m |-> IF a \in d + n - i .. d + n - 1 THEN m[a - d + s] ELSE m[a]]
<1>1. PICK c : c = [m |-> m, n |-> n]
  OBVIOUS
<1>2. PICK g : g = [i \in 0 .. n |-> [m |-> Last(i), n |-> n - i]]
  OBVIOUS
<1>3. g[0] = c
  <2>1. Last(0) = m
    <3>1. d + n - 0 .. d + n - 1 = {}
      OBVIOUS
    <3> QED  BY <3>1
  <2> HIDE DEF Last
  <2> QED  BY <1>1, <1>2, <2>1
<1>4. ASSUME NEW i \in 1 .. n PROVE g[i] = Round(g[i - 1])
  <2>1. PICK t, u, e : t = Last(i - 1) /\ u = Last(i) /\ e = n - (i - 1)
    OBVIOUS
  <2> HIDE DEF Round, Last
  <2>2. e \in 1 .. n /\ e - 1 = n - i /\ d + e - 1 = d + n - i /\ i - 1 \in 0 .. n /\ i \in 0 .. n
    BY <2>1
  <2> USE DEF Last
  <2>3. g[i - 1] = [m |-> t, n |-> e] /\ g[i] = [m |-> u, n |-> e - 1]
    BY <1>2, <2>1, <2>2
  <2>4. t[s + e - 1] = m[s + e - 1]
    <3>1. s + e - 1 \in s .. s + n - 1 /\ s + e - 1 \notin d + n - (i - 1) .. d + n - 1
      BY <2>1, <2>2
    <3> QED  BY <2>1, <3>1
  <2>5. u = [t EXCEPT ![d + e - 1] = t[s + e - 1]]
    <3>1. PICK w : w = [t EXCEPT ![d + e - 1] = t[s + e - 1]]
      OBVIOUS
    <3>2. DOMAIN t = DOMAIN m /\ DOMAIN u = DOMAIN m /\ DOMAIN w = DOMAIN m
      BY <2>1, <3>1
    <3>3. ASSUME NEW a \in DOMAIN m PROVE u[a] = w[a]
      <4>1. CASE a = d + e - 1
        <5>1. a \in d + n - i .. d + n - 1 /\ a - d + s = s + e - 1
          BY <2>2, <4>1
        <5> QED  BY <2>1, <2>4, <3>1, <3>2, <4>1, <5>1
      <4>2. CASE a # d + e - 1
        <5>1. a \in d + n - i .. d + n - 1 <=> a \in d + n - (i - 1) .. d + n - 1
          BY <2>2, <4>2
        <5> QED  BY <2>1, <3>1, <3>2, <4>2, <5>1
      <4> QED  BY <4>1, <4>2
    <3>4. u = [a \in DOMAIN m |-> u[a]] /\ w = [a \in DOMAIN m |-> w[a]]
      <4>1. t = [a \in DOMAIN t |-> t[a]] /\ u = [a \in DOMAIN u |-> u[a]]
        BY <2>1
      <4> QED  BY <3>1, <3>2, <4>1
    <3> QED  BY <3>1, <3>3, <3>4
  <2> USE DEF Round
  <2> QED  BY <2>3, <2>5
<1>5. g = [i \in 0 .. n |-> IF i = 0 THEN c ELSE Round(g[i - 1])]
  <2>1. \A i \in 0 .. n : i = 0 \/ i \in 1 .. n
    OBVIOUS
  <2>2. g = [i \in 0 .. n |-> g[i]]
    BY <1>2
  <2> HIDE DEF Round
  <2> QED  BY <1>3, <1>4, <2>1, <2>2
<1>6. PICK f : f = CHOOSE run : run = [i \in 0 .. n |-> IF i = 0 THEN c ELSE Round(run[i - 1])]
  OBVIOUS
<1>7. f = [i \in 0 .. n |-> IF i = 0 THEN c ELSE Round(f[i - 1])]
  <2> HIDE DEF Round
  <2> QED  BY <1>5, <1>6
<1>8. f[n] = g[n]
  <2> HIDE DEF Round
  <2>1. DOMAIN f = 0 .. n /\ DOMAIN g = 0 .. n /\ f[0] = c
    BY <1>2, <1>7
  <2>2. ASSUME NEW i \in 1 .. n PROVE f[i] = Round(f[i - 1])
    <3>1. i \in 0 .. n /\ i # 0
      OBVIOUS
    <3> QED  BY <1>7, <3>1
  <2>3. \A i \in 1 .. n : f[i - 1] = g[i - 1] => f[i] = g[i]
    BY <1>4, <2>2
  <2>4. f[0] = g[0] /\ n \in Nat /\ n \in 0 .. n
    BY <1>3, <2>1
  <2> QED  BY ONLY <2>1, <2>3, <2>4, OneSequence
<1>9. Backwards(m, d, s, n) = f[n].m
  BY <1>1, <1>6 DEF Backwards, Repeated
<1>10. g[n].m = Last(n)
  <2> HIDE DEF Last
  <2> QED  BY <1>2
<1>11. Last(n) = Copied(m, d, s, n)
  <2>1. d + n - n = d
    OBVIOUS
  <2> QED  BY <2>1 DEF Copied
<1> QED  BY <1>8, <1>9, <1>10, <1>11

LEMMA MemMoveCopies ==
  ASSUME NEW m, NEW d \in Nat, NEW s \in Nat, NEW n \in Nat,
         m = [a \in DOMAIN m |-> m[a]],
         s .. s + n - 1 \subseteq DOMAIN m, d .. d + n - 1 \subseteq DOMAIN m
  PROVE  MemMove(m, d, s, n) = Copied(m, d, s, n)
<1>1. CASE d < s
  <2>1. Copying(m, d, s, n)
    BY <1>1 DEF Copying
  <2>2. [m |-> m, s |-> s, d |-> d, n |-> n] = Done(m, d, s, n, 0)
    <3>1. Copied(m, d, s, 0) = m
      <4>1. d .. d + 0 - 1 = {}
        OBVIOUS
      <4> QED  BY <4>1 DEF Copied
    <3>2. s + 0 = s /\ d + 0 = d /\ n - 0 = n
      OBVIOUS
    <3> QED  BY <3>1, <3>2 DEF Done
  <2>3. Bytes(Done(m, d, s, n, 0), n) = Done(m, d, s, n, n)
    <3>1. 0 \in Nat /\ 0 + n <= n /\ 0 + n = n
      OBVIOUS
    <3>2. Bytes(Done(m, d, s, n, 0), n) = Done(m, d, s, n, 0 + n)
      BY <2>1, <3>1, BytesGo
    <3> QED  BY <3>1, <3>2
  <2> QED  BY <1>1, <2>2, <2>3 DEF MemMove, Forwards, Done
<1>2. CASE ~(d < s)
  <2>1. s <= d
    BY <1>2
  <2> QED  BY <1>2, <2>1, BackwardsCopies DEF MemMove
<1> QED  BY <1>1, <1>2

LEMMA CopiesOfAnyLength ==
  ASSUME NEW n \in Nat, NEW s \in 0 .. 3, NEW d \in 0 .. 3
  PROVE  CopyIsExact(n, s, d)
<1>1. PICK far, m : far = 4 + n + 4 /\ m = [a \in 0 .. 2 * far |-> a]
  OBVIOUS
<1>2. far \in Nat /\ DOMAIN m = 0 .. 2 * far /\ m = [a \in DOMAIN m |-> m[a]]
      /\ \A a \in DOMAIN m : m[a] = a
  BY <1>1
<1> DEFINE Put1(to, from) ==
      [a \in DOMAIN m |-> IF a \in to .. to + n - 1 THEN a - to + from ELSE a]
<1>3. ASSUME NEW to \in Nat, NEW from \in Nat, from .. from + n - 1 \subseteq DOMAIN m
      PROVE  Copied(m, to, from, n) = Put1(to, from)
  <2>1. ASSUME NEW a \in to .. to + n - 1 PROVE m[a - to + from] = a - to + from
    <3>1. a - to + from \in from .. from + n - 1
      OBVIOUS
    <3> QED  BY <1>2, <1>3, <3>1
  <2> QED  BY <1>2, <2>1 DEF Copied
<1>4. /\ s .. s + n - 1 \subseteq DOMAIN m /\ d .. d + n - 1 \subseteq DOMAIN m
      /\ 4 + s .. 4 + s + n - 1 \subseteq DOMAIN m
      /\ far + d .. far + d + n - 1 \subseteq DOMAIN m
      /\ far + d >= s + n /\ d <= 4 + s
      /\ s \in Nat /\ d \in Nat /\ far + d \in Nat /\ 4 + s \in Nat
  BY <1>1, <1>2
<1> HIDE DEF Put1
<1>5. MemCpy(m, far + d, s, n) = Put1(far + d, s)
  <2>1. Copying(m, far + d, s, n)
    BY <1>2, <1>4 DEF Copying
  <2> QED  BY <1>3, <1>4, <2>1, MemCpyCopies
<1>6. MemCpy(m, d, 4 + s, n) = Put1(d, 4 + s)
  <2>1. Copying(m, d, 4 + s, n)
    BY <1>2, <1>4 DEF Copying
  <2> QED  BY <1>3, <1>4, <2>1, MemCpyCopies
<1>7. MemMove(m, d, s, n) = Put1(d, s)
  BY <1>2, <1>3, <1>4, MemMoveCopies
<1>8. MemSet(m, 4 + s, -1, n) =
        [a \in DOMAIN m |-> IF a \in 4 + s .. 4 + s + n - 1 THEN -1 ELSE a]
  <2>1. MemSet(m, 4 + s, -1, n) = Fill(m, 4 + s .. 4 + s + n - 1, -1)
    BY <1>2, <1>4, MemSetFills
  <2> QED  BY <1>2, <2>1 DEF Fill
<1> USE DEF Put1
<1> QED  BY <1>1, <1>5, <1>6, <1>7, <1>8 DEF CopyIsExact

(* mem_cpy, mem_set and memmove write what they should and nothing else,   *)
(* at every length and alignment, and mem_cpy also onto a place that       *)
(* overlaps the source from below, as when the console scrolls.            *)
THEOREM CopiesCorrect == Spec => []CopiesAreExact
<1>1. CopiesAreExact
  <2>1. \A n \in 0 .. Longest : n \in Nat
    BY ShellAssumption
  <2> QED  BY <2>1, CopiesOfAnyLength DEF CopiesAreExact, AllCopiesAreExact
<1> QED  BY <1>1, PTL
-----------------------------------------------------------------------------
(***************************************************************************)
(* The screen.                                                             *)
(***************************************************************************)
Glyph == Char \cup {SPACE, Sharp, Excl, BACKSPACE, NEWLINE}
Row == 1 .. tw

LEMMA Sizes ==
  /\ tw \in Nat /\ th \in Nat /\ tw > 0 /\ th > 0 /\ tw * th \in Nat /\ tw * (th - 1) \in Nat
  /\ tw * th = tw * (th - 1) + tw
BY ConsoleAssumption

(* The row and the column of a cell.                                       *)
LEMMA CellIs ==
  ASSUME NEW i \in Cells
  PROVE  /\ i \in Nat /\ i \div tw \in 0 .. th - 1 /\ i % tw \in 0 .. tw - 1
         /\ i = tw * (i \div tw) + (i % tw)
<1>1. i \in Nat /\ i < tw * th
  BY Sizes DEF Cells
<1>2. PICK q, r : q = i \div tw /\ r = i % tw
  OBVIOUS
<1>3. i = tw * q + r /\ r \in 0 .. tw - 1 /\ q \in Nat
  BY <1>1, <1>2, Sizes
<1>4. q <= th - 1
  <2>1. ASSUME q >= th PROVE FALSE
    <3>1. tw * q >= tw * th
      BY <1>3, <2>1, Sizes
    <3> QED  BY <1>1, <1>3, <3>1, Sizes
  <2> QED  BY <1>3, <2>1, Sizes
<1> QED  BY <1>1, <1>2, <1>3, <1>4, Sizes

LEMMA CellAt ==
  ASSUME NEW q \in 0 .. th - 1, NEW r \in 0 .. tw - 1
  PROVE  /\ tw * q + r \in Cells
         /\ (tw * q + r) \div tw = q /\ (tw * q + r) % tw = r
<1>1. tw * q \in Nat /\ tw * q + r \in Nat
  BY Sizes
<1>2. tw * q <= tw * (th - 1)
  BY Sizes
<1>3. tw * q + r \in Cells
  BY <1>1, <1>2, Sizes DEF Cells
<1>4. PICK i, p, s : i = tw * q + r /\ p = i \div tw /\ s = i % tw
  OBVIOUS
<1>5. i = tw * p + s /\ s \in 0 .. tw - 1 /\ p \in Nat
  BY <1>3, <1>4, CellIs
<1>6. p = q
  <2>1. ASSUME p < q PROVE FALSE
    <3>1. tw * (p + 1) <= tw * q /\ tw * (p + 1) = tw * p + tw /\ tw * p \in Nat
      BY <1>5, <2>1, Sizes
    <3> QED  BY <1>1, <1>4, <1>5, <3>1, Sizes
  <2>2. ASSUME q < p PROVE FALSE
    <3>1. tw * (q + 1) <= tw * p /\ tw * (q + 1) = tw * q + tw /\ tw * p \in Nat
      BY <1>5, <2>2, Sizes
    <3> QED  BY <1>1, <1>4, <1>5, <3>1, Sizes
  <2> QED  BY <1>5, <2>1, <2>2
<1>7. s = r
  BY <1>1, <1>4, <1>5, <1>6, Sizes
<1> QED  BY <1>3, <1>4, <1>6, <1>7

(* Scrolling moves each row up by one, and leaves an empty one.            *)
LEMMA ScrollIs ==
  ASSUME NEW t \in [Cells -> Glyph]
  PROVE  /\ Scroll(t) \in [Cells -> Glyph]
         /\ \A i \in Cells : Scroll(t)[i] = IF i < tw * (th - 1) THEN t[i + tw] ELSE NUL
         /\ \A i \in Cells : i < tw * (th - 1) => i + tw \in Cells
<1>1. PICK n : n = tw * (th - 1)
  OBVIOUS
<1>2. n \in Nat /\ Cells = 0 .. n + tw - 1 /\ tw \in Nat /\ DOMAIN t = Cells
  BY <1>1, Sizes DEF Cells
<1>3. Copying(t, 0, tw, n)
  <2>1. t = [a \in DOMAIN t |-> t[a]]
    BY <1>2
  <2>2. tw .. tw + n - 1 \subseteq DOMAIN t /\ 0 .. 0 + n - 1 \subseteq DOMAIN t
    BY <1>2
  <2> QED  BY <1>2, <2>1, <2>2 DEF Copying
<1>4. PICK u : u = Copied(t, 0, tw, n)
  OBVIOUS
<1>5. ASSUME NEW i \in Cells, i < n PROVE i + tw \in Cells
  BY <1>2, <1>5
<1>6. u = [i \in Cells |-> IF i < n THEN t[i + tw] ELSE t[i]]
  <2>1. u = [i \in Cells |-> IF i \in 0 .. 0 + n - 1 THEN t[i - 0 + tw] ELSE t[i]]
    BY <1>2, <1>4 DEF Copied
  <2>2. ASSUME NEW i \in Cells
        PROVE  (i \in 0 .. 0 + n - 1 <=> i < n) /\ i - 0 + tw = i + tw
    BY <1>2
  <2> QED  BY <2>1, <2>2
<1>7. Scroll(t) = Fill(u, n .. n + tw - 1, NUL)
  <2>1. MemCpy(t, 0, tw, n) = u
    BY <1>3, <1>4, MemCpyCopies
  <2>2. u = [i \in DOMAIN u |-> u[i]]
    BY <1>6
  <2>3. MemSet(u, n, NUL, tw) = Fill(u, n .. n + tw - 1, NUL)
    BY <1>2, <2>2, MemSetFills
  <2> QED  BY <1>1, <2>1, <2>3 DEF Scroll
<1>8. Scroll(t) = [i \in Cells |-> IF i < n THEN t[i + tw] ELSE NUL]
  <2>1. ASSUME NEW i \in Cells PROVE i \in n .. n + tw - 1 <=> ~(i < n)
    BY <1>2
  <2> QED  BY <1>6, <1>7, <2>1 DEF Fill
<1>9. NUL \in Glyph
  BY DEF Glyph, Char
<1> QED  BY <1>1, <1>5, <1>8, <1>9

(* What a cell shows of the rows that were printed: the last th of them.   *)
First(rows) == IF Len(rows) > th THEN Len(rows) - th ELSE 0
TailAt(rows, i) ==
  IF First(rows) + (i \div tw) + 1 > Len(rows) THEN NUL
  ELSE rows[First(rows) + (i \div tw) + 1][(i % tw) + 1]

(* The screen s shows the rows r.                                          *)
Shows(s, r) ==
  /\ r = [rows |-> r.rows, x |-> r.x]
  /\ r.rows \in Seq([Row -> Glyph]) /\ Len(r.rows) \in Nat \ {0} /\ r.x \in Int
  /\ s = [text |-> s.text, x |-> r.x, y |-> Len(r.rows) - First(r.rows) - 1]
  /\ s.text \in [Cells -> Glyph]
  /\ \A i \in Cells : s.text[i] = TailAt(r.rows, i)

LEMMA LineShown ==
  ASSUME NEW s, NEW r, Shows(s, r)
  PROVE  Shows(IncrementLine(s), NewRow(r))
<1>1. /\ r.rows \in Seq([Row -> Glyph]) /\ Len(r.rows) \in Nat \ {0} /\ r.x \in Int
      /\ s.text \in [Cells -> Glyph] /\ s.y = Len(r.rows) - First(r.rows) - 1
      /\ s = [text |-> s.text, x |-> s.x, y |-> s.y]
      /\ \A i \in Cells : s.text[i] = TailAt(r.rows, i)
  BY DEF Shows
<1>2. PICK o, q, n, e : o = r.rows /\ n = Len(o) /\ e = [j \in 1 .. tw |-> NUL] /\ q = o \o <<e>>
  OBVIOUS
<1>3. NewRow(r) = [rows |-> q, x |-> 0]
  BY <1>2 DEF NewRow
<1>4. /\ n \in Nat \ {0} /\ e \in [Row -> Glyph] /\ \A j \in Row : e[j] = NUL
      /\ o \in Seq([Row -> Glyph]) /\ n = Len(o)
  BY <1>1, <1>2 DEF Row, Glyph, Char
<1>5. /\ q \in Seq([Row -> Glyph]) /\ Len(q) = n + 1 /\ q[n + 1] = e
      /\ \A k \in 1 .. n : q[k] = o[k]
  BY <1>2, <1>4
<1>6. CASE n < th
  <2>1. First(o) = 0 /\ First(q) = 0
    BY <1>4, <1>5, <1>6, Sizes DEF First
  <2>2. IncrementLine(s) = [text |-> s.text, x |-> 0, y |-> n]
    <3>1. s.y = n - 1 /\ ~(s.y + 1 >= th) /\ s.y + 1 = n
      BY <1>1, <1>2, <1>4, <1>6, <2>1, Sizes
    <3> QED  BY <1>1, <3>1 DEF IncrementLine
  <2>3. ASSUME NEW i \in Cells PROVE s.text[i] = TailAt(q, i)
    <3>1. PICK k, c : k = i \div tw /\ c = i % tw
      OBVIOUS
    <3>0. k \in 0 .. th - 1 /\ c \in 0 .. tw - 1
      BY <3>1, CellIs
    <3>2. k \in Nat /\ c + 1 \in Row /\ 0 + k + 1 = k + 1
      BY <3>0, Sizes DEF Row
    <3>3. s.text[i] = IF k + 1 > n THEN NUL ELSE o[k + 1][c + 1]
      BY <1>1, <1>2, <2>1, <3>1, <3>2 DEF TailAt
    <3>4. TailAt(q, i) = IF k + 1 > n + 1 THEN NUL ELSE q[k + 1][c + 1]
      BY <1>5, <2>1, <3>1, <3>2 DEF TailAt
    <3>5. CASE k + 1 <= n
      <4>1. k + 1 \in 1 .. n /\ ~(k + 1 > n) /\ ~(k + 1 > n + 1)
        BY <1>4, <3>2, <3>5
      <4> QED  BY <1>5, <3>3, <3>4, <4>1
    <3>6. CASE k = n
      <4>1. k + 1 > n /\ ~(k + 1 > n + 1)
        BY <1>4, <3>2, <3>6
      <4> QED  BY <1>4, <1>5, <3>2, <3>3, <3>4, <3>6, <4>1
    <3>7. CASE k > n
      <4>1. k + 1 > n /\ k + 1 > n + 1
        BY <1>4, <3>2, <3>7
      <4> QED  BY <3>3, <3>4, <4>1
    <3> QED  BY <1>4, <3>2, <3>5, <3>6, <3>7
  <2>4. n = Len(q) - First(q) - 1 /\ Len(q) \in Nat \ {0} /\ 0 \in Int
    BY <1>4, <1>5, <2>1
  <2>5. PICK v, w : v = IncrementLine(s) /\ w = NewRow(r)
    OBVIOUS
  <2>6. /\ w = [rows |-> q, x |-> 0] /\ w.rows = q /\ w.x = 0
        /\ v = [text |-> s.text, x |-> 0, y |-> Len(q) - First(q) - 1] /\ v.text = s.text
    BY <1>3, <2>2, <2>4, <2>5
  <2>7. Shows(v, w)
    BY <1>1, <1>5, <2>3, <2>4, <2>6 DEF Shows
  <2> QED  BY <2>5, <2>7
<1>7. CASE n >= th
  <2>1. PICK b : b = n - th
    OBVIOUS
  <2>2. b \in Nat /\ First(o) = b /\ First(q) = b + 1 /\ n = b + th
    BY <1>2, <1>4, <1>5, <1>7, <2>1, Sizes DEF First
  <2>3. IncrementLine(s) = [text |-> Scroll(s.text), x |-> 0, y |-> th - 1]
    <3>1. s.y = th - 1 /\ s.y + 1 >= th
      BY <1>1, <1>2, <1>4, <2>2, Sizes
    <3> QED  BY <1>1, <3>1 DEF IncrementLine
  <2>4. ASSUME NEW i \in Cells PROVE Scroll(s.text)[i] = TailAt(q, i)
    <3>1. PICK k, c : k = i \div tw /\ c = i % tw
      OBVIOUS
    <3>0. k \in 0 .. th - 1 /\ c \in 0 .. tw - 1 /\ i = tw * k + c /\ i \in Nat
      BY <3>1, CellIs
    <3>2. /\ k \in 0 .. th - 1 /\ c \in 0 .. tw - 1 /\ i = tw * k + c /\ i \in Nat
          /\ c + 1 \in Row /\ k \in Nat
      BY <3>0, Sizes DEF Row
    <3>3. TailAt(q, i) = q[(b + 1) + k + 1][c + 1]
      <4>1. ~((b + 1) + k + 1 > n + 1)
        BY <2>2, <3>2, Sizes
      <4> QED  BY <1>5, <2>2, <3>1, <4>1 DEF TailAt
    <3>4. CASE k = th - 1
      <4>1. ~(i < tw * (th - 1))
        BY <3>2, <3>4, Sizes
      <4>2. (b + 1) + k + 1 = n + 1
        BY <2>2, <3>4, Sizes
      <4> QED  BY <1>1, <1>4, <1>5, <3>2, <3>3, <4>1, <4>2, ScrollIs
    <3>5. CASE k # th - 1
      <4>1. k + 1 \in 0 .. th - 1 /\ tw * (k + 1) = tw * k + tw /\ tw * k \in Nat
        BY <3>2, <3>5, Sizes
      <4>2. tw * (k + 1) <= tw * (th - 1)
        BY <4>1, Sizes
      <4>3. i < tw * (th - 1) /\ i + tw = tw * (k + 1) + c
        BY <3>2, <4>1, <4>2, Sizes
      <4>4. i + tw \in Cells /\ (i + tw) \div tw = k + 1 /\ (i + tw) % tw = c
        BY <3>2, <4>1, <4>3, CellAt
      <4>5. Scroll(s.text)[i] = s.text[i + tw]
        BY <1>1, <4>3, ScrollIs
      <4>6. s.text[i + tw] = TailAt(o, i + tw)
        BY <1>1, <1>2, <4>4
      <4>7. PICK z : z = b + (k + 1) + 1
        OBVIOUS
      <4>8. z \in 1 .. n /\ ~(z > n) /\ z = (b + 1) + k + 1
        BY <2>2, <3>2, <4>1, <4>7, Sizes
      <4>9. TailAt(o, i + tw) = o[z][c + 1]
        BY <1>2, <2>2, <4>4, <4>7, <4>8 DEF TailAt
      <4> QED  BY <1>5, <3>3, <4>5, <4>6, <4>8, <4>9
    <3> QED  BY <3>4, <3>5
  <2>5. th - 1 = Len(q) - First(q) - 1 /\ Len(q) \in Nat \ {0} /\ 0 \in Int
    BY <1>4, <1>5, <2>2, Sizes
  <2>6. Scroll(s.text) \in [Cells -> Glyph]
    BY <1>1, ScrollIs
  <2> QED  BY <1>3, <1>5, <2>3, <2>4, <2>5, <2>6 DEF Shows
<1> QED  BY <1>4, <1>6, <1>7, Sizes

LEMMA PlacedShown ==
  ASSUME NEW s, NEW r, Shows(s, r), r.x \in 0 .. tw - 1, NEW c \in Glyph
  PROVE  Shows([s EXCEPT !.text[(tw * s.y) + s.x] = c, !.x = s.x + 1],
               [r EXCEPT !.rows[Len(r.rows)][r.x + 1] = c, !.x = @ + 1])
<1>1. PICK o, n, x, y, t, f : /\ o = r.rows /\ n = Len(o) /\ x = r.x /\ t = s.text
                              /\ f = First(o) /\ y = n - f - 1
  OBVIOUS
<1>2. /\ o \in Seq([Row -> Glyph]) /\ n \in Nat \ {0} /\ n = Len(o) /\ x \in 0 .. tw - 1
      /\ t \in [Cells -> Glyph] /\ r = [rows |-> o, x |-> x] /\ s = [text |-> t, x |-> x, y |-> y]
      /\ \A i \in Cells : t[i] = TailAt(o, i)
  BY <1>1 DEF Shows
<1>3. f \in Nat /\ y \in 0 .. th - 1 /\ f + y + 1 = n
  BY <1>1, <1>2, Sizes DEF First
<1>4. PICK a, p : a = tw * y + x /\ p = x + 1
  OBVIOUS
<1>5. a \in Cells /\ a \div tw = y /\ a % tw = x
  BY <1>2, <1>3, <1>4, CellAt
<1>6. p \in Row /\ n \in 1 .. n /\ o[n] \in [Row -> Glyph] /\ p = x + 1 /\ p \in Int
  BY <1>2, <1>4, Sizes DEF Row
<1>7. PICK e, q, u : /\ e = [o[n] EXCEPT ![p] = c] /\ q = [o EXCEPT ![n] = e]
                     /\ u = [t EXCEPT ![a] = c]
  OBVIOUS
<1>8. /\ e \in [Row -> Glyph] /\ e[p] = c /\ \A j \in Row : j # p => e[j] = o[n][j]
  BY <1>6, <1>7
<1>9. /\ q \in Seq([Row -> Glyph]) /\ Len(q) = n /\ q[n] = e
      /\ \A k \in 1 .. n : k # n => q[k] = o[k]
  BY <1>2, <1>6, <1>7, <1>8
<1>10. u \in [Cells -> Glyph] /\ u[a] = c /\ \A i \in Cells : i # a => u[i] = t[i]
  BY <1>2, <1>5, <1>7
<1>11. First(q) = f
  BY <1>1, <1>9 DEF First
<1>12. ASSUME NEW i \in Cells PROVE u[i] = TailAt(q, i)
  <2>1. PICK k, j, z : k = i \div tw /\ j = i % tw /\ z = f + k + 1
    OBVIOUS
  <2>2. k \in 0 .. th - 1 /\ j \in 0 .. tw - 1 /\ i = tw * k + j
    BY <2>1, CellIs
  <2>3. j + 1 \in Row /\ z \in Nat \ {0}
    BY <1>3, <2>1, <2>2, Sizes DEF Row
  <2>4. TailAt(o, i) = IF z > n THEN NUL ELSE o[z][j + 1]
    BY <1>1, <2>1 DEF TailAt
  <2>5. TailAt(q, i) = IF z > n THEN NUL ELSE q[z][j + 1]
    BY <1>9, <1>11, <2>1 DEF TailAt
  <2>6. CASE i = a
    <3>1. k = y /\ j = x /\ z = n /\ j + 1 = p
      BY <1>3, <1>4, <1>5, <2>1, <2>6
    <3> QED  BY <1>2, <1>8, <1>9, <1>10, <2>5, <2>6, <3>1
  <2>7. CASE i # a /\ z > n
    BY <1>2, <1>10, <2>4, <2>5, <2>7
  <2>8. CASE i # a /\ z < n
    <3>1. z \in 1 .. n /\ z # n /\ ~(z > n)
      BY <1>2, <2>3, <2>8
    <3> QED  BY <1>2, <1>9, <1>10, <2>4, <2>5, <2>8, <3>1
  <2>9. CASE i # a /\ z = n
    <3>1. k = y
      BY <1>3, <2>1, <2>2, <2>9
    <3>2. j # x
      BY <1>4, <2>2, <2>9, <3>1
    <3>3. j + 1 # p /\ ~(z > n)
      BY <1>2, <1>6, <2>2, <2>9, <3>2
    <3> QED  BY <1>2, <1>8, <1>9, <1>10, <2>3, <2>4, <2>5, <2>9, <3>3
  <2> QED  BY <1>2, <2>3, <2>6, <2>7, <2>8, <2>9
<1>13. PICK v, w : /\ v = [s EXCEPT !.text[(tw * s.y) + s.x] = c, !.x = s.x + 1]
                   /\ w = [r EXCEPT !.rows[Len(r.rows)][r.x + 1] = c, !.x = @ + 1]
  OBVIOUS
<1>14. v = [text |-> u, x |-> p, y |-> y] /\ v.text = u
  BY <1>2, <1>4, <1>7, <1>13
<1>15. w = [rows |-> q, x |-> p] /\ w.rows = q /\ w.x = p
  BY <1>2, <1>4, <1>7, <1>13
<1>16. y = Len(q) - First(q) - 1 /\ Len(q) \in Nat \ {0}
  BY <1>1, <1>2, <1>9, <1>11
<1>17. Shows(v, w)
  BY <1>6, <1>9, <1>10, <1>12, <1>14, <1>15, <1>16 DEF Shows
<1> QED  BY <1>13, <1>17

LEMMA CharShown ==
  ASSUME NEW s, NEW r, Shows(s, r), NEW c \in Glyph, c # NUL
  PROVE  Shows(AppendChar(s, c), WithChar(r, c))
<1>1. /\ s.x = r.x /\ r.x \in Int /\ s = [text |-> s.text, x |-> s.x, y |-> s.y]
      /\ r = [rows |-> r.rows, x |-> r.x]
  BY DEF Shows
<1>2. Shows(IncrementLine(s), NewRow(r))
  BY LineShown
<1>3. CASE c = NEWLINE
  <2>1. AppendChar(s, c) = IncrementLine(s) /\ WithChar(r, c) = NewRow(r)
    BY <1>3 DEF AppendChar, WithChar, NEWLINE, BACKSPACE, NUL
  <2> QED  BY <1>2, <2>1
<1>4. CASE c = BACKSPACE
  <2>1. PICK v, w : v = [s EXCEPT !.x = s.x - 1] /\ w = [r EXCEPT !.x = @ - 1]
    OBVIOUS
  <2>2. AppendChar(s, c) = v /\ WithChar(r, c) = w
    BY <1>4, <2>1 DEF AppendChar, WithChar, NEWLINE, BACKSPACE, NUL
  <2>3. /\ v.text = s.text /\ v.x = r.x - 1 /\ v.y = s.y /\ v = [text |-> v.text, x |-> v.x, y |-> v.y]
        /\ w.rows = r.rows /\ w.x = r.x - 1 /\ w = [rows |-> w.rows, x |-> w.x]
        /\ r.x - 1 \in Int
    BY <1>1, <2>1
  <2>4. Shows(v, w)
    BY <2>3 DEF Shows
  <2> QED  BY <2>2, <2>4
<1>5. CASE c \notin {NEWLINE, BACKSPACE}
  <2>1. PICK room, at : /\ room = IF s.x < 0 \/ s.x >= tw THEN IncrementLine(s) ELSE s
                        /\ at = IF r.x \in 0 .. tw - 1 THEN r ELSE NewRow(r)
    OBVIOUS
  <2>2. Shows(room, at) /\ at.x \in 0 .. tw - 1
    <3>1. CASE r.x \in 0 .. tw - 1
      <4>1. room = s /\ at = r
        BY <1>1, <2>1, <3>1, Sizes
      <4> QED  BY <3>1, <4>1
    <3>2. CASE r.x \notin 0 .. tw - 1
      <4>1. room = IncrementLine(s) /\ at = NewRow(r)
        BY <1>1, <2>1, <3>2, Sizes
      <4>2. NewRow(r).x \in 0 .. tw - 1
        BY Sizes DEF NewRow
      <4> QED  BY <1>2, <4>1, <4>2
    <3> QED  BY <3>1, <3>2
  <2>3. AppendChar(s, c) = [room EXCEPT !.text[(tw * room.y) + room.x] = c, !.x = room.x + 1]
    BY <1>5, <2>1 DEF AppendChar
  <2>4. WithChar(r, c) = [at EXCEPT !.rows[Len(at.rows)][at.x + 1] = c, !.x = @ + 1]
    BY <1>5, <2>1 DEF WithChar
  <2>5. Shows([room EXCEPT !.text[(tw * room.y) + room.x] = c, !.x = room.x + 1],
              [at EXCEPT !.rows[Len(at.rows)][at.x + 1] = c, !.x = @ + 1])
    BY <2>2, PlacedShown
  <2> QED  BY ONLY <2>3, <2>4, <2>5
<1> QED  BY <1>3, <1>4, <1>5

(* The rows that the first n characters of q make, one after the other,    *)
(* and the screens that those of str make, beginning with s.               *)
Start == [rows |-> <<[j \in 1 .. tw |-> NUL]>>, x |-> 0]

Rowing(q, n, f) ==
  /\ f = [i \in 0 .. n |-> f[i]] /\ f[0] = Start
  /\ \A i \in 1 .. n : f[i] = WithChar(f[i - 1], q[i])

Drawing(s, str, n, g) ==
  /\ g = [i \in 0 .. n |-> g[i]] /\ g[0] = s
  /\ \A i \in 1 .. n : g[i] = AppendChar(g[i - 1], str[i])

LEMMA RowsOfIs ==
  ASSUME NEW q, NEW n \in Nat, n = Len(q), NEW f, Rowing(q, n, f)
  PROVE  RowsOf(q) = f[n]
<1>1. f = [i \in 0 .. n |-> IF i = 0 THEN Start ELSE WithChar(f[i - 1], q[i])]
  <2>1. \A i \in 0 .. n : i = 0 \/ i \in 1 .. n
    OBVIOUS
  <2>2. f = [i \in 0 .. n |-> f[i]] /\ f[0] = Start
        /\ \A i \in 1 .. n : f[i] = WithChar(f[i - 1], q[i])
    BY DEF Rowing
  <2> QED  BY <2>1, <2>2
<1>2. PICK g : g = CHOOSE run : run = [i \in 0 .. n |-> IF i = 0 THEN Start ELSE WithChar(run[i - 1], q[i])]
  OBVIOUS
<1>3. g = [i \in 0 .. n |-> IF i = 0 THEN Start ELSE WithChar(g[i - 1], q[i])]
  BY <1>1, <1>2
<1>4. g[n] = f[n]
  <2>1. DOMAIN f = 0 .. n /\ DOMAIN g = 0 .. n /\ f[0] = g[0] /\ n \in 0 .. n /\ n \in Nat
    BY <1>1, <1>3
  <2>2. \A i \in 1 .. n : f[i] = WithChar(f[i - 1], q[i]) /\ g[i] = WithChar(g[i - 1], q[i])
    BY <1>1, <1>3
  <2>3. \A i \in 1 .. n : g[i - 1] = f[i - 1] => g[i] = f[i]
    BY <2>2
  <2> QED  BY ONLY <2>1, <2>3, OneSequence
<1> QED  BY <1>2, <1>4 DEF RowsOf, Start

LEMMA AppendedIs ==
  ASSUME NEW s, NEW str, NEW n \in Nat, n = Len(str), NEW f, Drawing(s, str, n, f)
  PROVE  Appended(s, str) = f[n]
<1>1. f = [i \in 0 .. n |-> IF i = 0 THEN s ELSE AppendChar(f[i - 1], str[i])]
  <2>1. \A i \in 0 .. n : i = 0 \/ i \in 1 .. n
    OBVIOUS
  <2>2. f = [i \in 0 .. n |-> f[i]] /\ f[0] = s
        /\ \A i \in 1 .. n : f[i] = AppendChar(f[i - 1], str[i])
    BY DEF Drawing
  <2> QED  BY <2>1, <2>2
<1>2. PICK g : g = CHOOSE run : run = [i \in 0 .. n |-> IF i = 0 THEN s ELSE AppendChar(run[i - 1], str[i])]
  OBVIOUS
<1>3. g = [i \in 0 .. n |-> IF i = 0 THEN s ELSE AppendChar(g[i - 1], str[i])]
  BY <1>1, <1>2
<1>4. g[n] = f[n]
  <2>1. DOMAIN f = 0 .. n /\ DOMAIN g = 0 .. n /\ f[0] = g[0] /\ n \in 0 .. n /\ n \in Nat
    BY <1>1, <1>3
  <2>2. \A i \in 1 .. n : f[i] = AppendChar(f[i - 1], str[i]) /\ g[i] = AppendChar(g[i - 1], str[i])
    BY <1>1, <1>3
  <2>3. \A i \in 1 .. n : g[i - 1] = f[i - 1] => g[i] = f[i]
    BY <2>2
  <2> QED  BY ONLY <2>1, <2>3, OneSequence
<1> QED  BY <1>2, <1>4 DEF Appended

(* The screen s shows the rows that q makes.                               *)
ShowsAll(s, q) == \E f : Rowing(q, Len(q), f) /\ Shows(s, f[Len(q)])

(* So much of str was added to them.                                       *)
Stage(q, s, str, k) ==
  \E f, g : /\ Rowing(q \o str, Len(q) + k, f) /\ Drawing(s, str, k, g)
            /\ Shows(g[k], f[Len(q) + k])

LEMMA StageStep ==
  ASSUME NEW q \in Seq(Glyph), NEW str \in Seq(Glyph \ {NUL}), NEW s, NEW k \in Nat,
         k < Len(str), Stage(q, s, str, k)
  PROVE  Stage(q, s, str, k + 1)
<1>1. PICK f, g : /\ Rowing(q \o str, Len(q) + k, f) /\ Drawing(s, str, k, g)
                  /\ Shows(g[k], f[Len(q) + k])
  BY DEF Stage
<1>2. PICK n, c, t : n = Len(q) + k /\ c = str[k + 1] /\ t = q \o str
  OBVIOUS
<1>3. n \in Nat /\ c \in Glyph /\ c # NUL /\ t[n + 1] = c /\ Len(q) + (k + 1) = n + 1
  BY <1>2
<1>4. /\ f = [i \in 0 .. n |-> f[i]] /\ f[0] = Start
      /\ \A i \in 1 .. n : f[i] = WithChar(f[i - 1], t[i])
      /\ g = [i \in 0 .. k |-> g[i]] /\ g[0] = s
      /\ \A i \in 1 .. k : g[i] = AppendChar(g[i - 1], str[i])
      /\ Shows(g[k], f[n])
  BY <1>1, <1>2 DEF Rowing, Drawing
<1>5. PICK v, w : v = AppendChar(g[k], c) /\ w = WithChar(f[n], c)
  OBVIOUS
<1>6. Shows(v, w)
  BY <1>3, <1>4, <1>5, CharShown
<1>7. PICK h : h = [i \in 0 .. n + 1 |-> IF i = n + 1 THEN w ELSE f[i]]
  OBVIOUS
<1>8. Rowing(t, n + 1, h) /\ h[n + 1] = w
  <2>1. h = [i \in 0 .. n + 1 |-> h[i]] /\ h[0] = Start /\ h[n + 1] = w
    BY <1>3, <1>4, <1>7
  <2>2. ASSUME NEW i \in 1 .. n + 1 PROVE h[i] = WithChar(h[i - 1], t[i])
    <3>1. CASE i = n + 1
      <4>1. i - 1 = n /\ n \in 0 .. n + 1 /\ n # n + 1
        BY <1>3, <3>1
      <4> QED  BY <1>3, <1>5, <1>7, <2>1, <3>1, <4>1
    <3>2. CASE i # n + 1
      <4>1. /\ i \in 1 .. n /\ i \in 0 .. n + 1 /\ i - 1 \in 0 .. n + 1 /\ i - 1 # n + 1
        BY <1>3, <3>2
      <4> QED  BY <1>4, <1>7, <3>2, <4>1
    <3> QED  BY <3>1, <3>2
  <2> QED  BY <2>1, <2>2 DEF Rowing
<1>9. PICK e : e = [i \in 0 .. k + 1 |-> IF i = k + 1 THEN v ELSE g[i]]
  OBVIOUS
<1>10. Drawing(s, str, k + 1, e) /\ e[k + 1] = v
  <2>1. e = [i \in 0 .. k + 1 |-> e[i]] /\ e[0] = s /\ e[k + 1] = v
    BY <1>4, <1>9
  <2>2. ASSUME NEW i \in 1 .. k + 1 PROVE e[i] = AppendChar(e[i - 1], str[i])
    <3>1. CASE i = k + 1
      <4>1. i - 1 = k /\ k \in 0 .. k + 1 /\ k # k + 1
        BY <3>1
      <4> QED  BY <1>2, <1>5, <1>9, <2>1, <3>1, <4>1
    <3>2. CASE i # k + 1
      <4>1. /\ i \in 1 .. k /\ i \in 0 .. k + 1 /\ i - 1 \in 0 .. k + 1 /\ i - 1 # k + 1
        BY <3>2
      <4> QED  BY <1>4, <1>9, <3>2, <4>1
    <3> QED  BY <3>1, <3>2
  <2> QED  BY <2>1, <2>2 DEF Drawing
<1> QED  BY <1>2, <1>3, <1>6, <1>8, <1>10 DEF Stage

(* A string is shown below what was shown.                                 *)
LEMMA StringShown ==
  ASSUME NEW q \in Seq(Glyph), NEW s, ShowsAll(s, q), NEW str \in Seq(Glyph \ {NUL})
  PROVE  ShowsAll(Appended(s, str), q \o str)
<1>1. PICK n : n = Len(str)
  OBVIOUS
<1>2. n \in Nat /\ Len(q) \in Nat
  BY <1>1
<1>3. PICK Bad : Bad = {k \in 0 .. n : ~ Stage(q, s, str, k)}
  OBVIOUS
<1>4. Bad = {}
  <2> SUFFICES ASSUME Bad # {} PROVE FALSE
    OBVIOUS
  <2>1. Bad \in SUBSET Nat
    BY <1>2, <1>3
  <2>2. PICK k \in Bad : \A x \in Bad : k <= x
    BY <2>1, LeastIs
  <2>3. k \in 0 .. n /\ ~ Stage(q, s, str, k)
    BY <1>3, <2>2
  <2>4. Stage(q, s, str, 0)
    <3>1. PICK f : Rowing(q, Len(q), f) /\ Shows(s, f[Len(q)])
      BY DEF ShowsAll
    <3>2. Rowing(q \o str, Len(q) + 0, f)
      <4>1. Len(q) + 0 = Len(q) /\ \A i \in 1 .. Len(q) : (q \o str)[i] = q[i]
        BY <1>2
      <4> QED  BY <3>1, <4>1 DEF Rowing
    <3>3. PICK g : g = [i \in 0 .. 0 |-> s]
      OBVIOUS
    <3>4. Drawing(s, str, 0, g) /\ g[0] = s
      BY <3>3 DEF Drawing
    <3>5. Len(q) + 0 = Len(q)
      BY <1>2
    <3> QED  BY <3>1, <3>2, <3>4, <3>5 DEF Stage
  <2>5. k # 0
    BY <2>3, <2>4
  <2>6. PICK j : j = k - 1
    OBVIOUS
  <2>7. j \in 0 .. n /\ j \in Nat /\ j < n /\ j + 1 = k /\ ~(k <= j)
    BY <1>2, <2>3, <2>5, <2>6
  <2>8. Stage(q, s, str, j)
    BY <1>3, <2>2, <2>7
  <2>9. Stage(q, s, str, j + 1)
    BY <1>1, <2>7, <2>8, StageStep
  <2> QED  BY <2>3, <2>7, <2>9
<1>5. Stage(q, s, str, n)
  BY <1>2, <1>3, <1>4
<1>6. PICK f, g : /\ Rowing(q \o str, Len(q) + n, f) /\ Drawing(s, str, n, g)
                  /\ Shows(g[n], f[Len(q) + n])
  BY <1>5 DEF Stage
<1>7. Appended(s, str) = g[n]
  BY <1>1, <1>2, <1>6, AppendedIs
<1>8. Len(q \o str) = Len(q) + n
  BY <1>1
<1> QED  BY <1>6, <1>7, <1>8 DEF ShowsAll
-----------------------------------------------------------------------------
(* The invariant behind ScreenIsTheTail: the text is what was printed, and *)
(* all of it has been drawn.                                               *)
ScreenInv == /\ said \in Seq(Glyph) /\ ShowsAll(screen, said)
             /\ drawn = screen.text

LEMMA ScreenStarts == Init => ScreenInv
<1> SUFFICES ASSUME Init PROVE ScreenInv
  OBVIOUS
<1>1. PICK s, c : s = [text |-> Blank, x |-> 0, y |-> 0] /\ c = Sharp
  OBVIOUS
<1>2. screen = AppendChar(s, c) /\ drawn = screen.text /\ said = <<c>> /\ c \in Glyph /\ c # NUL
  BY <1>1 DEF Init, Glyph, Sharp, NUL
<1>3. Shows(s, Start)
  <2>1. PICK e, q : e = [j \in 1 .. tw |-> NUL] /\ q = <<e>>
    OBVIOUS
  <2>2. Start = [rows |-> q, x |-> 0] /\ Start.rows = q /\ Start.x = 0
    BY <2>1 DEF Start
  <2>3. e \in [Row -> Glyph] /\ NUL \in Glyph
    BY <2>1 DEF Row, Glyph, Char
  <2>4. q \in Seq([Row -> Glyph]) /\ Len(q) = 1 /\ q[1] = e
    BY <2>1, <2>3
  <2>5. First(q) = 0
    BY <2>4, Sizes DEF First
  <2>6. ASSUME NEW i \in Cells PROVE TailAt(q, i) = NUL
    <3>1. i \div tw \in 0 .. th - 1 /\ i % tw \in 0 .. tw - 1
      BY CellIs
    <3>2. PICK k, j : k = i \div tw /\ j = i % tw
      OBVIOUS
    <3>3. k \in Nat /\ j + 1 \in Row
      BY <3>1, <3>2, Sizes DEF Row
    <3>4. TailAt(q, i) = IF 0 + k + 1 > 1 THEN NUL ELSE q[0 + k + 1][j + 1]
      BY <2>4, <2>5, <3>2 DEF TailAt
    <3>5. CASE k = 0
      <4>1. ~(0 + k + 1 > 1) /\ 0 + k + 1 = 1
        BY <3>5
      <4> QED  BY <2>1, <2>4, <3>3, <3>4, <4>1 DEF Row
    <3>6. CASE k # 0
      <4>1. 0 + k + 1 > 1
        BY <3>3, <3>6
      <4> QED  BY <3>4, <4>1
    <3> QED  BY <3>5, <3>6
  <2>7. s.text = Blank /\ Blank \in [Cells -> Glyph] /\ \A i \in Cells : s.text[i] = NUL
    BY <1>1, <2>3 DEF Blank
  <2>8. Len(q) - First(q) - 1 = 0
    BY <2>4, <2>5
  <2>9. PICK w : w = Start
    OBVIOUS
  <2>10. /\ w = [rows |-> q, x |-> 0] /\ w.rows = q /\ w.x = 0 /\ w.x \in Int
         /\ s = [text |-> s.text, x |-> 0, y |-> Len(q) - First(q) - 1]
         /\ Len(q) \in Nat \ {0}
    BY <1>1, <2>2, <2>4, <2>8, <2>9
  <2>11. s.text \in [Cells -> Glyph] /\ \A i \in Cells : s.text[i] = TailAt(q, i)
    BY <2>6, <2>7
  <2>12. Shows(s, w)
    BY <2>4, <2>10, <2>11 DEF Shows
  <2> QED  BY <2>9, <2>12
<1>4. Shows(screen, WithChar(Start, c))
  BY <1>2, <1>3, CharShown
<1>5. PICK f : f = [i \in 0 .. 1 |-> IF i = 0 THEN Start ELSE WithChar(Start, c)]
  OBVIOUS
<1>6. Len(said) = 1 /\ said[1] = c /\ said \in Seq(Glyph)
  BY <1>2
<1>7. Rowing(said, 1, f) /\ f[1] = WithChar(Start, c)
  <2>1. f = [i \in 0 .. 1 |-> f[i]] /\ f[0] = Start /\ f[1] = WithChar(Start, c)
    BY <1>5
  <2>2. \A i \in 1 .. 1 : i = 1 /\ i - 1 = 0
    OBVIOUS
  <2> QED  BY <1>6, <2>1, <2>2 DEF Rowing
<1> QED  BY <1>2, <1>4, <1>6, <1>7 DEF ScreenInv, ShowsAll

(* Whatever is printed.                                                    *)
LEMMA PutsShows ==
  ASSUME ScreenInv, NEW str \in Seq(Glyph), Puts(str)
  PROVE  ScreenInv'
<1>1. PICK t : t = Shown(str)
  OBVIOUS
<1>2. t \in Seq(Glyph \ {NUL})
  <2>1. \A i \in 1 .. Len(str) : (IF str[i] = NUL THEN SPACE ELSE str[i]) \in Glyph \ {NUL}
    BY DEF Glyph, NUL, SPACE
  <2>2. Len(str) \in Nat
    OBVIOUS
  <2> QED  BY <1>1, <2>1, <2>2 DEF Shown
<1>3. said' = said \o t /\ screen' = Appended(screen, t)
      /\ drawn' = [i \in Cells |-> IF drawn[i] # screen'.text[i] THEN screen'.text[i] ELSE drawn[i]]
  BY <1>1 DEF Puts, DrawString, Swap
<1>4. ShowsAll(screen', said')
  <2>1. ShowsAll(Appended(screen, t), said \o t)
    BY <1>2, StringShown DEF ScreenInv
  <2> QED  BY <1>3, <2>1
<1>5. said' \in Seq(Glyph)
  <2>1. t \in Seq(Glyph)
    BY <1>2
  <2> QED  BY <1>3, <2>1 DEF ScreenInv
<1>6. drawn' = screen'.text
  <2>1. screen'.text \in [Cells -> Glyph]
    BY <1>4 DEF ShowsAll, Shows
  <2> QED  BY <1>3, <2>1
<1> QED  BY <1>4, <1>5, <1>6 DEF ScreenInv

LEMMA PromptShows ==
  ASSUME ScreenInv, NEW str \in Seq(Glyph), Prompt(str)
  PROVE  ScreenInv'
<1>1. str \o <<Sharp>> \in Seq(Glyph)
  <2>1. Sharp \in Glyph
    BY DEF Glyph
  <2> QED  BY <2>1
<1> QED  BY <1>1, PutsShows DEF Prompt

LEMMA ContinueShows ==
  ASSUME ScreenInv, NEW str \in Seq(Glyph), Continue(str)
  PROVE  ScreenInv'
<1>1. Prompt(str) \/ Puts(str)
  BY DEF Continue
<1> QED  BY <1>1, PromptShows, PutsShows

LEMMA ScreenStep == ScreenInv /\ [Next]_vars => ScreenInv'
<1> SUFFICES ASSUME ScreenInv, [Next]_vars PROVE ScreenInv'
  OBVIOUS
<1>1. /\ <<>> \in Seq(Glyph) /\ <<Excl>> \in Seq(Glyph) /\ <<Excl, NEWLINE>> \in Seq(Glyph)
      /\ <<NEWLINE>> \in Seq(Glyph) /\ <<NEWLINE, Sharp>> \in Seq(Glyph)
      /\ <<BACKSPACE, SPACE, BACKSPACE>> \in Seq(Glyph)
      /\ \A k \in Keys : <<k>> \in Seq(Glyph)
      /\ \A n \in 0 .. 2 : [i \in 1 .. 2 * n |-> IF i % 2 = 1 THEN Excl ELSE NEWLINE] \in Seq(Glyph)
  <2>1. {Excl, NEWLINE, Sharp, SPACE, BACKSPACE} \subseteq Glyph /\ Keys \subseteq Glyph
    BY DEF Glyph, Char
  <2>2. ASSUME NEW n \in 0 .. 2
        PROVE  [i \in 1 .. 2 * n |-> IF i % 2 = 1 THEN Excl ELSE NEWLINE] \in Seq(Glyph)
    <3>1. \A i \in 1 .. 2 * n : (IF i % 2 = 1 THEN Excl ELSE NEWLINE) \in Glyph
      BY <2>1
    <3>2. 2 * n \in Nat
      OBVIOUS
    <3> QED  BY <3>1, <3>2
  <2>3. ASSUME NEW k \in Keys PROVE <<k>> \in Seq(Glyph)
    BY <2>1
  <2> QED  BY <2>1, <2>2, <2>3
<1>2. ASSUME Silent \/ UNCHANGED vars PROVE ScreenInv'
  BY <1>2 DEF Silent, vars, ScreenInv
<1>3. CASE Backspace
  BY <1>1, <1>2, <1>3, PutsShows DEF Backspace
<1>4. CASE EnterNothing
  BY <1>1, <1>4, PutsShows DEF EnterNothing
<1>5. CASE Enter
  BY <1>1, <1>5, PutsShows DEF Enter
<1>6. CASE Argument \/ Exit
  BY <1>2, <1>6 DEF Argument, Exit
<1>7. CASE SpawnFails
  BY <1>1, <1>7, ContinueShows DEF SpawnFails
<1>8. CASE SpawnProc
  BY <1>1, <1>8, PutsShows DEF SpawnProc
<1>9. CASE ChildDied \/ SmallCommand
  <2>1. \E str \in {<<>>, <<Excl, NEWLINE>>} : Continue(str)
    BY <1>9 DEF ChildDied, SmallCommand
  <2> QED  BY <1>1, <2>1, ContinueShows
<1>10. CASE Ls
  <2>1. \/ \E n \in 0 .. 2 : Continue([i \in 1 .. 2 * n |-> IF i % 2 = 1 THEN Excl ELSE NEWLINE])
        \/ Prompt(<<Excl, NEWLINE>>)
    BY <1>10 DEF Ls
  <2> QED  BY <1>1, <2>1, ContinueShows, PromptShows
<1>11. CASE \E k \in Keys : Type(k)
  BY <1>1, <1>11, PutsShows DEF Type
<1> QED
  BY <1>2, <1>3, <1>4, <1>5, <1>6, <1>7, <1>8, <1>9, <1>10, <1>11 DEF Next

(* The screen shows the last rows of all that was printed, at every size   *)
(* and for every text: the scroll, which is an overlapping mem_cpy, the    *)
(* wrapping, the erasing and the drawing of what differs lose nothing.     *)
THEOREM ScreenCorrect == Spec => []ScreenIsTheTail
<1>1. Init => ScreenInv
  BY ScreenStarts
<1>2. ScreenInv /\ [Next]_vars => ScreenInv'
  BY ScreenStep
<1>3. ScreenInv => ScreenIsTheTail
  <2> SUFFICES ASSUME ScreenInv PROVE ScreenIsTheTail
    OBVIOUS
  <2>1. PICK f : Rowing(said, Len(said), f) /\ Shows(screen, f[Len(said)])
    BY DEF ScreenInv, ShowsAll
  <2>2. Len(said) \in Nat
    BY DEF ScreenInv
  <2>3. RowsOf(said) = f[Len(said)]
    BY <2>1, <2>2, RowsOfIs
  <2>4. \A i \in Cells : drawn[i] = TailAt(RowsOf(said).rows, i)
    BY <2>1, <2>3 DEF ScreenInv, Shows
  <2> QED  BY <2>4 DEF ScreenIsTheTail, TailAt, First
<1> QED  BY <1>1, <1>2, <1>3, PTL DEF Spec
=============================================================================
