--------------------------- MODULE ObjHeapProofs ---------------------------
(***************************************************************************)
(* Proofs about the object heap, for all sizes of pages, headers and       *)
(* requests: objects never overlap, their data lies inside them, the list  *)
(* of majors holds exactly the majors with objects, the counters are the   *)
(* sums of what they count, and the heap implements Arena.                 *)
(***************************************************************************)
EXTENDS ObjHeap, SequenceTheorems, WellFoundedInduction, TLAPS

(***************************************************************************)
(* Facts about the operators the heap is built from.                       *)
(***************************************************************************)

(* Rounding down to a multiple of a loses less than a.                     *)
LEMMA RoundDown ==
  ASSUME NEW x \in Nat, NEW a \in Nat \ {0}
  PROVE  /\ (x \div a) * a \in Nat
         /\ (x \div a) * a <= x
         /\ x < (x \div a) * a + a
<1>1. x \div a \in Nat /\ x = a * (x \div a) + (x % a) /\ x % a \in 0 .. a - 1
  OBVIOUS
<1>2. QED
  BY <1>1

(* The smallest element of a set of numbers is one of them.                *)
LEMMA MinIsElement ==
  ASSUME NEW S \in SUBSET Nat, S # {}
  PROVE  Min(S) \in S /\ \A x \in S : Min(S) <= x
<1>1. OpToRel(<, Nat) = {ss \in Nat \X Nat : ss[1] < ss[2]}
  BY DEF OpToRel
<1>2. PICK x \in S : \A y \in S : <<y, x>> \notin OpToRel(<, Nat)
  BY WFMin, NatLessThanWellFounded, Zenon
<1>3. ASSUME NEW y \in S PROVE x <= y
  <2>1. ~(y < x)
    BY <1>1, <1>2, Zenon
  <2>2. QED
    BY <2>1
<1>4. QED
  BY <1>3 DEF Min

(* What InsertAt puts where, k elements staying in front.                  *)
LEMMA InsertAtProperties ==
  ASSUME NEW S, NEW s \in Seq(S), NEW e \in S, NEW k \in 0 .. Len(s)
  PROVE  LET t == InsertAt(s, k + 1, e)
         IN  /\ t \in Seq(S)
             /\ Len(t) = Len(s) + 1
             /\ t[k + 1] = e
             /\ \A i \in 1 .. k : t[i] = s[i]
             /\ \A i \in k + 1 .. Len(s) : t[i + 1] = s[i]
<1> DEFINE u == SubSeq(s, 1, k)
           v == SubSeq(s, k + 1, Len(s))
           w == u \o <<e>>
<1>1. InsertAt(s, k + 1, e) = w \o v
  <2>1. (k + 1) - 1 = k
    OBVIOUS
  <2>2. QED
    BY <2>1 DEF InsertAt
<1>2. u \in Seq(S) /\ Len(u) = k /\ \A i \in 1 .. k : u[i] = s[i]
  BY SubSeqProperties
<1>3. /\ v \in Seq(S) /\ Len(v) = Len(s) - k
      /\ \A i \in 1 .. Len(s) - k : v[i] = s[k + i]
  BY SubSeqProperties
<1> HIDE DEF u, v
<1>4. /\ w \in Seq(S) /\ Len(w) = k + 1
      /\ \A i \in 1 .. k : w[i] = s[i]
      /\ w[k + 1] = e
  <2>1. /\ <<e>> \in Seq(S) /\ Len(<<e>>) = 1 /\ <<e>>[1] = e
    OBVIOUS
  <2> DEFINE o == <<e>>
  <2> HIDE DEF o
  <2>2. /\ u \o o \in Seq(S) /\ Len(u \o o) = k + 1
        /\ \A i \in 1 .. k + 1 : (u \o o)[i] = IF i <= k THEN u[i] ELSE o[i - k]
    BY <1>2, <2>1, ConcatProperties DEF o
  <2>3. (u \o o)[k + 1] = o[1]
    BY <2>2
  <2>4. \A i \in 1 .. k : (u \o o)[i] = s[i]
    BY <1>2, <2>2
  <2>5. QED
    BY <2>1, <2>2, <2>3, <2>4 DEF o
<1> HIDE DEF w
<1>5. /\ w \o v \in Seq(S) /\ Len(w \o v) = Len(s) + 1
      /\ \A i \in 1 .. k + 1 : (w \o v)[i] = w[i]
      /\ \A i \in k + 2 .. Len(s) + 1 : (w \o v)[i] = v[i - k - 1]
  <2>1. w \in Seq(S) /\ v \in Seq(S)
    BY <1>3, <1>4
  <2>2. /\ w \o v \in Seq(S)
        /\ Len(w \o v) = Len(w) + Len(v)
        /\ \A i \in 1 .. Len(w) + Len(v) : (w \o v)[i] =
                     IF i <= Len(w) THEN w[i] ELSE v[i - Len(w)]
    BY ONLY <2>1, ConcatProperties
  <2>3. /\ Len(s) \in Nat /\ k \in Nat /\ k <= Len(s)
        /\ Len(w) = k + 1 /\ Len(v) = Len(s) - k
    BY <1>3, <1>4
  <2>4. ASSUME NEW i \in 1 .. k + 1
        PROVE  (w \o v)[i] = w[i]
    <3>1. i \in 1 .. Len(w) + Len(v) /\ i <= Len(w)
      BY <2>3
    <3>2. QED
      BY <2>2, <3>1
  <2>5. ASSUME NEW i \in k + 2 .. Len(s) + 1
        PROVE  (w \o v)[i] = v[i - k - 1]
    <3>1. /\ i \in 1 .. Len(w) + Len(v) /\ ~ (i <= Len(w))
          /\ i - Len(w) = i - k - 1
      BY <2>3
    <3>2. QED
      BY <2>2, <3>1
  <2>6. Len(w \o v) = Len(s) + 1
    BY ONLY <2>2, <2>3
  <2>7. QED
    BY <2>2, <2>4, <2>5, <2>6
<1>6. ASSUME NEW i \in k + 1 .. Len(s)
      PROVE  (w \o v)[i + 1] = s[i]
  <2>1. /\ Len(s) \in Nat /\ i + 1 \in k + 2 .. Len(s) + 1
        /\ i - k \in 1 .. Len(s) - k /\ i + 1 - k - 1 = i - k /\ k + (i - k) = i
    OBVIOUS
  <2>2. (w \o v)[i + 1] = v[i - k]
    BY <1>5, <2>1
  <2>3. QED
    BY <1>3, <2>1, <2>2
<1>7. \A i \in 1 .. k + 1 : (w \o v)[i] = w[i]
  BY <1>5
<1>8. (w \o v)[k + 1] = e
  BY <1>4, <1>7
<1>9. \A i \in 1 .. k : (w \o v)[i] = s[i]
  BY <1>4, <1>7
<1>10. QED
  BY <1>1, <1>5, <1>6, <1>8, <1>9

(* What RemoveAt leaves.                                                   *)
LEMMA RemoveAtProperties ==
  ASSUME NEW S, NEW s \in Seq(S), NEW i \in 1 .. Len(s)
  PROVE  LET t == RemoveAt(s, i)
         IN  /\ t \in Seq(S)
             /\ Len(t) = Len(s) - 1
             /\ \A j \in 1 .. i - 1 : t[j] = s[j]
             /\ \A j \in i .. Len(s) - 1 : t[j] = s[j + 1]
<1> DEFINE u == SubSeq(s, 1, i - 1)
           v == SubSeq(s, i + 1, Len(s))
<1>1. RemoveAt(s, i) = u \o v
  BY DEF RemoveAt
<1>2. u \in Seq(S) /\ Len(u) = i - 1 /\ \A j \in 1 .. i - 1 : u[j] = s[j]
  BY SubSeqProperties
<1>3. /\ v \in Seq(S) /\ Len(v) = Len(s) - i
      /\ \A j \in 1 .. Len(s) - i : v[j] = s[i + j]
  <2>1. CASE i = Len(s)
    BY <2>1, SubSeqEmpty
  <2>2. CASE i < Len(s)
    BY <2>2, SubSeqProperties
  <2>3. QED
    BY <2>1, <2>2
<1> HIDE DEF u, v
<1>4. /\ u \o v \in Seq(S) /\ Len(u \o v) = Len(s) - 1
      /\ \A j \in 1 .. i - 1 : (u \o v)[j] = u[j]
      /\ \A j \in i .. Len(s) - 1 : (u \o v)[j] = v[j - i + 1]
  BY <1>2, <1>3, ConcatProperties, SMTT(30)
<1>5. \A j \in i .. Len(s) - 1 : (u \o v)[j] = s[j + 1]
  BY <1>3, <1>4
<1>6. QED
  BY <1>1, <1>2, <1>4, <1>5
-----------------------------------------------------------------------------
(***************************************************************************)
(* One major.  Sound(q, sz) says that the minors in q lie in order in a    *)
(* major of sz bytes, and that each has the room its alignment needs.      *)
(***************************************************************************)
EndOf(q, i)  == q[i].at + Minor + q[i].size
NextOf(q, sz, i) == IF i = Len(q) THEN sz ELSE q[i + 1].at

Sound(q, sz) ==
  \A i \in 1 .. Len(q) :
    /\ Major <= q[i].at
    /\ EndOf(q, i) <= NextOf(q, sz, i)
    /\ q[i].req + Alignment + AlignInfo <= q[i].size

(* A new minor at the start of a hole that is large enough keeps its major *)
(* sound: CASE 2, 3, 4.1 and 4.2 of k_obj_alloc_2.                         *)
LEMMA InsertSound ==
  ASSUME NEW q \in Seq(Block), NEW sz \in Nat, Sound(q, sz),
         NEW k \in 0 .. Len(q), NEW req \in Nat, NEW at \in Nat,
         at = (IF k = 0 THEN Major ELSE EndOf(q, k)),
         at + Need(req) <= NextOf(q, sz, k)
  PROVE  LET b == [at |-> at, size |-> Padded(req), req |-> req]
             t == InsertAt(q, k + 1, b)
         IN  t \in Seq(Block) /\ Sound(t, sz) /\ t # <<>>
<1> USE ObjHeapAssumption
<1> DEFINE b == [at |-> at, size |-> Padded(req), req |-> req]
           t == InsertAt(q, k + 1, b)
<1>1. Padded(req) \in Nat /\ Padded(req) = req + Alignment + AlignInfo
  BY DEF Padded
<1>2. b \in Block /\ b.at = at /\ b.size = Padded(req) /\ b.req = req
  BY <1>1 DEF Block
<1> HIDE DEF b
<1>3. /\ t \in Seq(Block) /\ Len(t) = Len(q) + 1 /\ t[k + 1] = b
      /\ \A i \in 1 .. k : t[i] = q[i]
      /\ \A i \in k + 1 .. Len(q) : t[i + 1] = q[i]
  <2>1. b \in Block
    BY <1>2
  <2>2. q \in Seq(Block) /\ k \in 0 .. Len(q)
    OBVIOUS
  <2> HIDE ObjHeapAssumption
  <2>3. QED
    BY ONLY <2>1, <2>2, InsertAtProperties, SMTT(60)
<1> HIDE DEF t
<1>4. /\ Len(q) \in Nat /\ k \in Nat
      /\ \A i \in 1 .. Len(q) : /\ q[i].at \in Nat /\ q[i].size \in Nat
                                /\ q[i].req \in Nat
  <2>1. Len(q) \in Nat /\ k \in Nat
    OBVIOUS
  <2>2. ASSUME NEW i \in 1 .. Len(q)
        PROVE  q[i].at \in Nat /\ q[i].size \in Nat /\ q[i].req \in Nat
    <3>1. q[i] \in Block
      OBVIOUS
    <3>2. QED
      BY <3>1 DEF Block
  <2>3. QED
    BY <2>1, <2>2
<1>5. Major <= at
  BY <1>4 DEF Sound, EndOf
<1>6. ASSUME NEW j \in 1 .. Len(t)
      PROVE  /\ Major <= t[j].at
             /\ EndOf(t, j) <= NextOf(t, sz, j)
             /\ t[j].req + Alignment + AlignInfo <= t[j].size
  <2>1. CASE j = k + 1
    <3>1. t[j] = b
      BY <1>3, <2>1
    <3>2. EndOf(t, j) = at + Need(req)
      BY <1>1, <1>2, <3>1 DEF EndOf, Need
    <3>3. NextOf(t, sz, j) = NextOf(q, sz, k)
      <4>1. CASE k = Len(q)
        BY <1>3, <1>4, <2>1, <4>1 DEF NextOf
      <4>2. CASE k # Len(q)
        <5>1. t[k + 2] = q[k + 1]
          <6>1. k + 1 \in k + 1 .. Len(q) /\ (k + 1) + 1 = k + 2
            BY <1>4, <4>2
          <6>2. QED
            BY <1>3, <6>1
        <5>2. j # Len(t) /\ j + 1 = k + 2
          BY <1>3, <1>4, <2>1, <4>2
        <5>3. QED
          BY <4>2, <5>1, <5>2 DEF NextOf
      <4>3. QED
        BY <4>1, <4>2
    <3>4. QED
      BY <1>1, <1>2, <1>5, <3>1, <3>2, <3>3
  <2>2. CASE j <= k
    <3>1. j \in 1 .. k /\ j \in 1 .. Len(q) /\ t[j] = q[j] /\ j # Len(t)
      BY <1>3, <1>4, <2>2
    <3>2. NextOf(t, sz, j) = IF j = k THEN at ELSE q[j + 1].at
      <4>1. CASE j = k
        BY <1>2, <1>3, <3>1, <4>1 DEF NextOf
      <4>2. CASE j # k
        <5>1. j + 1 \in 1 .. k
          BY <1>4, <3>1, <4>2
        <5>2. QED
          BY <1>3, <3>1, <4>2, <5>1 DEF NextOf
      <4>3. QED
        BY <4>1, <4>2
    <3>3. EndOf(t, j) = EndOf(q, j)
      BY <3>1 DEF EndOf
    <3>4. EndOf(q, j) <= NextOf(t, sz, j)
      <4>1. CASE j = k
        BY <1>4, <3>1, <3>2, <4>1 DEF EndOf
      <4>2. CASE j # k
        <5>1. j # Len(q)
          BY <1>4, <3>1, <4>2
        <5>2. QED
          BY <3>1, <3>2, <4>2, <5>1 DEF Sound, NextOf
      <4>3. QED
        BY <4>1, <4>2
    <3>5. Major <= q[j].at /\ q[j].req + Alignment + AlignInfo <= q[j].size
      BY <3>1 DEF Sound
    <3>6. QED
      BY <3>1, <3>3, <3>4, <3>5
  <2>3. CASE j > k + 1
    <3> DEFINE i == j - 1
    <3>1. i \in k + 1 .. Len(q) /\ i \in 1 .. Len(q) /\ i + 1 = j
      BY <1>3, <1>4, <2>3
    <3>2. t[j] = q[i]
      BY <1>3, <3>1
    <3>3. NextOf(t, sz, j) = NextOf(q, sz, i)
      <4>1. CASE i = Len(q)
        BY <1>3, <1>4, <3>1, <4>1 DEF NextOf
      <4>2. CASE i # Len(q)
        <5>1. i + 1 \in k + 1 .. Len(q) /\ j # Len(t)
          BY <1>3, <1>4, <3>1, <4>2
        <5>2. t[(i + 1) + 1] = q[i + 1]
          BY <1>3, <5>1
        <5>3. QED
          BY <3>1, <4>2, <5>1, <5>2 DEF NextOf
      <4>3. QED
        BY <4>1, <4>2
    <3>4. EndOf(t, j) = EndOf(q, i)
      BY <3>2 DEF EndOf
    <3>5. /\ Major <= q[i].at /\ EndOf(q, i) <= NextOf(q, sz, i)
          /\ q[i].req + Alignment + AlignInfo <= q[i].size
      BY <3>1 DEF Sound
    <3>6. QED
      BY <3>2, <3>3, <3>4, <3>5
  <2>4. QED
    BY <1>3, <1>4, <2>1, <2>2, <2>3
<1>7. Sound(t, sz)
  BY <1>6 DEF Sound
<1>8. t # <<>>
  BY <1>3, <1>4
<1>9. QED
  BY <1>3, <1>7, <1>8 DEF t, b

(* Taking a minor away keeps its major sound.                              *)
LEMMA RemoveSound ==
  ASSUME NEW q \in Seq(Block), NEW sz \in Nat, Sound(q, sz),
         NEW i \in 1 .. Len(q)
  PROVE  RemoveAt(q, i) \in Seq(Block) /\ Sound(RemoveAt(q, i), sz)
<1> USE ObjHeapAssumption
<1> DEFINE t == RemoveAt(q, i)
<1>1. /\ t \in Seq(Block) /\ Len(t) = Len(q) - 1
      /\ \A j \in 1 .. i - 1 : t[j] = q[j]
      /\ \A j \in i .. Len(q) - 1 : t[j] = q[j + 1]
  BY RemoveAtProperties
<1> HIDE DEF t
<1>2. /\ Len(q) \in Nat /\ i \in Nat
      /\ \A j \in 1 .. Len(q) : /\ q[j].at \in Nat /\ q[j].size \in Nat
                                /\ q[j].req \in Nat
  <2>1. \A j \in 1 .. Len(q) : q[j] \in Block
    OBVIOUS
  <2>2. QED
    BY <2>1, SMTT(30) DEF Block
<1>3. ASSUME NEW j \in 1 .. Len(t)
      PROVE  /\ Major <= t[j].at
             /\ EndOf(t, j) <= NextOf(t, sz, j)
             /\ t[j].req + Alignment + AlignInfo <= t[j].size
  <2>1. CASE j >= i
    <3>1. /\ j + 1 \in 1 .. Len(q) /\ j \in i .. Len(q) - 1
      BY <1>1, <1>2, <2>1
    <3>2. t[j] = q[j + 1]
      BY <1>1, <3>1
    <3>3. NextOf(t, sz, j) = NextOf(q, sz, j + 1)
      <4>1. CASE j = Len(t)
        BY <1>1, <1>2, <4>1 DEF NextOf
      <4>2. CASE j # Len(t)
        <5>1. j + 1 \in i .. Len(q) - 1 /\ j + 1 # Len(q)
          BY <1>1, <1>2, <2>1, <4>2
        <5>2. t[j + 1] = q[(j + 1) + 1]
          BY <1>1, <5>1
        <5>3. QED
          BY <4>2, <5>1, <5>2 DEF NextOf
      <4>3. QED
        BY <4>1, <4>2
    <3>4. EndOf(t, j) = EndOf(q, j + 1)
      BY <3>2 DEF EndOf
    <3>5. /\ Major <= q[j + 1].at /\ EndOf(q, j + 1) <= NextOf(q, sz, j + 1)
          /\ q[j + 1].req + Alignment + AlignInfo <= q[j + 1].size
      BY <3>1 DEF Sound
    <3>6. QED
      BY <3>2, <3>3, <3>4, <3>5
  <2>2. CASE j < i
    <3>1. /\ j \in 1 .. i - 1 /\ j \in 1 .. Len(q) /\ j # Len(q)
          /\ j + 1 \in 1 .. Len(q) /\ j \in Nat
      BY <1>1, <1>2, <2>2
    <3>2. t[j] = q[j] /\ EndOf(t, j) = EndOf(q, j)
      BY <1>1, <3>1 DEF EndOf
    <3>3. /\ Major <= q[j].at /\ EndOf(q, j) <= q[j + 1].at
          /\ q[j].req + Alignment + AlignInfo <= q[j].size
      BY <3>1 DEF Sound, NextOf
    <3>4. /\ EndOf(q, j + 1) <= NextOf(q, sz, j + 1)
          /\ q[j + 1].at <= NextOf(q, sz, j + 1)
      <4>1. EndOf(q, j + 1) <= NextOf(q, sz, j + 1)
        BY <3>1 DEF Sound
      <4>2. q[j + 1].at <= EndOf(q, j + 1) /\ EndOf(q, j + 1) \in Nat
        BY <1>2, <3>1, SMTT(30) DEF EndOf
      <4>3. NextOf(q, sz, j + 1) \in Nat
        <5>1. CASE j + 1 = Len(q)
          BY <5>1 DEF NextOf
        <5>2. CASE j + 1 # Len(q)
          <6>1. (j + 1) + 1 \in 1 .. Len(q)
            BY <1>2, <3>1, <5>2
          <6>2. QED
            BY <1>2, <5>2, <6>1 DEF NextOf
        <5>3. QED
          BY <5>1, <5>2
      <4>4. q[j + 1].at \in Nat
        BY <1>2, <3>1
      <4>5. QED
        BY <4>1, <4>2, <4>3, <4>4
    <3>5. EndOf(q, j) <= NextOf(t, sz, j)
      <4>1. CASE j + 1 < i
        <5>1. j # Len(t) /\ j + 1 \in 1 .. i - 1
          BY <1>1, <1>2, <3>1, <4>1
        <5>2. t[j + 1] = q[j + 1]
          BY <1>1, <5>1
        <5>3. QED
          BY <3>3, <5>1, <5>2 DEF NextOf
      <4>2. CASE j + 1 = i
        <5>1. NextOf(t, sz, j) = NextOf(q, sz, j + 1)
          <6>1. CASE j = Len(t)
            BY <1>1, <1>2, <4>2, <6>1 DEF NextOf
          <6>2. CASE j # Len(t)
            <7>1. j + 1 \in i .. Len(q) - 1 /\ j + 1 # Len(q)
              BY <1>1, <1>2, <4>2, <6>2
            <7>2. t[j + 1] = q[(j + 1) + 1]
              BY <1>1, <7>1
            <7>3. QED
              BY <6>2, <7>1, <7>2 DEF NextOf
          <6>3. QED
            BY <6>1, <6>2
        <5>2. /\ EndOf(q, j) \in Nat /\ q[j + 1].at \in Nat
              /\ NextOf(q, sz, j + 1) \in Nat
          <6>1. EndOf(q, j) \in Nat /\ q[j + 1].at \in Nat
            BY <1>2, <3>1, SMTT(30) DEF EndOf
          <6>2. CASE j + 1 = Len(q)
            BY <6>1, <6>2 DEF NextOf
          <6>3. CASE j + 1 # Len(q)
            <7>1. (j + 1) + 1 \in 1 .. Len(q)
              BY <1>2, <3>1, <6>3
            <7>2. QED
              BY <1>2, <6>1, <6>3, <7>1 DEF NextOf
          <6>4. QED
            BY <6>2, <6>3
        <5>3. QED
          BY <3>3, <3>4, <5>1, <5>2
      <4>3. QED
        BY <1>2, <2>2, <3>1, <4>1, <4>2
    <3>6. QED
      BY <3>2, <3>3, <3>5
  <2>3. QED
    BY <1>1, <1>2, <2>1, <2>2
<1>4. QED
  BY <1>1, <1>3 DEF Sound, t

(* Noting a smaller size, as k_obj_realloc does, keeps the major sound.    *)
LEMMA ShrinkSound ==
  ASSUME NEW q \in Seq(Block), NEW sz \in Nat, Sound(q, sz),
         NEW i \in 1 .. Len(q), NEW r \in Nat, r <= q[i].req
  PROVE  [q EXCEPT ![i].req = r] \in Seq(Block) /\ Sound([q EXCEPT ![i].req = r], sz)
<1> USE ObjHeapAssumption
<1> DEFINE t == [q EXCEPT ![i].req = r]
<1>1. \A j \in 1 .. Len(q) : /\ q[j] \in Block /\ q[j].req \in Nat
                             /\ q[j].size \in Nat /\ q[j].at \in Nat
  <2>1. \A j \in 1 .. Len(q) : q[j] \in Block
    OBVIOUS
  <2>2. QED
    BY <2>1 DEF Block
<1>2. [q[i] EXCEPT !.req = r] \in Block
  BY <1>1 DEF Block
<1>3. t \in Seq(Block) /\ Len(t) = Len(q)
  BY <1>2
<1>4. ASSUME NEW j \in 1 .. Len(q)
      PROVE  /\ t[j].at = q[j].at /\ t[j].size = q[j].size
             /\ t[j].req \in Nat /\ t[j].req <= q[j].req
  <2>1. CASE j = i
    <3>1. t[j] = [q[i] EXCEPT !.req = r]
      BY <2>1
    <3>2. QED
      BY <1>1, <2>1, <3>1 DEF Block
  <2>2. CASE j # i
    BY <1>1, <2>2
  <2>3. QED
    BY <2>1, <2>2
<1> HIDE DEF t
<1>5. ASSUME NEW j \in 1 .. Len(t)
      PROVE  /\ Major <= t[j].at
             /\ EndOf(t, j) <= NextOf(t, sz, j)
             /\ t[j].req + Alignment + AlignInfo <= t[j].size
  <2>1. j \in 1 .. Len(q)
    BY <1>3
  <2>2. EndOf(t, j) = EndOf(q, j)
    BY <1>4, <2>1 DEF EndOf
  <2>3. NextOf(t, sz, j) = NextOf(q, sz, j)
    <3>1. CASE j = Len(q)
      BY <1>3, <3>1 DEF NextOf
    <3>2. CASE j # Len(q)
      <4>1. j + 1 \in 1 .. Len(q)
        BY <2>1, <3>2
      <4>2. QED
        BY <1>3, <1>4, <3>2, <4>1 DEF NextOf
    <3>3. QED
      BY <3>1, <3>2
  <2>4. /\ Major <= q[j].at /\ EndOf(q, j) <= NextOf(q, sz, j)
        /\ q[j].req + Alignment + AlignInfo <= q[j].size
    BY <2>1 DEF Sound
  <2>5. t[j].req + Alignment + AlignInfo <= t[j].size
    <3>1. q[j].req \in Nat /\ q[j].size \in Nat
      BY <1>1, <2>1
    <3>2. t[j].size = q[j].size /\ t[j].req \in Nat /\ t[j].req <= q[j].req
      BY <1>4, <2>1
    <3>3. Alignment \in Nat /\ AlignInfo \in Nat
      BY DEF ObjHeapAssumption
    <3>4. q[j].req + Alignment + AlignInfo <= q[j].size
      BY <2>4
    <3>5. ASSUME NEW x \in Nat, NEW y \in Nat, NEW z \in Nat, x <= y,
                 y + Alignment + AlignInfo <= z
          PROVE  x + Alignment + AlignInfo <= z
      BY <3>3, <3>5
    <3>6. QED
      BY <3>1, <3>2, <3>4, <3>5
  <2>6. QED
    BY <1>4, <2>1, <2>2, <2>3, <2>4, <2>5
<1>6. QED
  BY <1>3, <1>5 DEF Sound, t
-----------------------------------------------------------------------------
(***************************************************************************)
(* The whole heap.  The inductive invariant: every major is sound, the     *)
(* list holds just the majors with minors, each once, and so does          *)
(* l_bestBet, if it is set.                                                *)
(***************************************************************************)
HeapTypes ==
  /\ list \in Seq(MajorId)
  /\ size \in [MajorId -> Nat]
  /\ minors \in [MajorId -> Seq(Block)]
  /\ l_bestBet \in MajorId \cup {None}

ListExact ==
  /\ IsInjective(list)
  /\ \A m \in MajorId : m \in ToSet(list) <=> minors[m] # <<>>
  /\ l_bestBet # None => l_bestBet \in ToSet(list)

AllSound == \A m \in MajorId : Sound(minors[m], size[m])

HeapInv == HeapTypes /\ ListExact /\ AllSound

(* What k_obj_realloc still has to free is in a major.                     *)
MovedListed == moved # NoPtr => moved.maj \in MajorId

IInv == HeapInv /\ MovedListed

(* Where a listed major stands.                                            *)
LEMMA PosFinds ==
  ASSUME NEW m \in ToSet(list)
  PROVE  Pos(m) \in DOMAIN list /\ list[Pos(m)] = m
BY DEF Pos, ToSet

(* A search looks at listed majors only.                                   *)
LEMMA RouteListed ==
  ASSUME HeapInv, NEW need
  PROVE  Route(need) \in Seq(ToSet(list))
<1> DEFINE S == ToSet(list)
<1>1. list \in Seq(S)
  <2>1. list \in Seq(MajorId) /\ DOMAIN list = 1 .. Len(list) /\ Len(list) \in Nat
    BY DEF HeapInv, HeapTypes
  <2>2. \A i \in 1 .. Len(list) : list[i] \in S
    BY <2>1 DEF ToSet
  <2> HIDE DEF S
  <2>3. QED
    BY <2>1, <2>2
<1>2. CASE l_bestBet # None
  <2>1. Pos(l_bestBet) \in 1 .. Len(list)
    BY <1>2, PosFinds DEF HeapInv, HeapTypes, ListExact
  <2> HIDE DEF S
  <2>2. SubSeq(list, Pos(l_bestBet), Len(list)) \in Seq(S)
    BY <1>1, <2>1, SubSeqProperties
  <2>3. SubSeq(list, Pos(l_bestBet), Len(list)) \o list \in Seq(S)
    BY <1>1, <2>2, ConcatProperties
  <2>4. Route(need) \in Seq(S)
    BY <1>1, <2>3 DEF Route
  <2>5. QED
    BY <2>4 DEF S
<1>3. CASE l_bestBet = None
  BY <1>1, <1>3 DEF Route
<1>4. QED
  BY <1>2, <1>3

(* The best bet stays or becomes one of the majors looked at.              *)
LEMMA BetAfterListed ==
  ASSUME NEW S, NEW seen \in Seq(S), NEW room
  PROVE  BetAfter(seen, room) = l_bestBet \/ BetAfter(seen, room) \in S
<1> DEFINE start == IF l_bestBet = None THEN 0 ELSE room[l_bestBet]
           best  == {i \in DOMAIN seen :
                       /\ room[seen[i]] > start
                       /\ \A j \in DOMAIN seen : room[seen[j]] <= room[seen[i]]}
<1>1. BetAfter(seen, room) = IF best = {} THEN l_bestBet ELSE seen[Min(best)]
  BY DEF BetAfter
<1>2. best \in SUBSET Nat /\ best \subseteq DOMAIN seen
  OBVIOUS
<1> HIDE DEF best
<1>3. CASE best # {}
  <2>1. Min(best) \in DOMAIN seen
    BY <1>2, <1>3, MinIsElement
  <2>2. QED
    BY <1>1, <1>3, <2>1
<1>4. QED
  BY <1>1, <1>3

(* The pages of a new major hold the object it is made for.                *)
LEMMA NewSizeSuffices ==
  ASSUME NEW req \in Nat
  PROVE  /\ Need(req) \in Nat /\ NewSize(req) \in Nat
         /\ Major + Need(req) <= NewSize(req)
<1> USE DEF ObjHeapAssumption
<1>1. Need(req) \in Nat
  BY ObjHeapAssumption DEF Need, Padded
<1> DEFINE x == Need(req) + Major + PageSize - 1
<1>2. x \in Nat /\ PageSize \in Nat \ {0} /\ Major \in Nat
  BY <1>1, ObjHeapAssumption
<1>3. NewSize(req) = (x \div PageSize) * PageSize
  BY DEF NewSize
<1>4. x = Need(req) + Major + PageSize - 1
  OBVIOUS
<1> HIDE DEF x
<1>5. (x \div PageSize) * PageSize \in Nat /\ x < (x \div PageSize) * PageSize + PageSize
  BY <1>2, RoundDown
<1>6. QED
  BY <1>1, <1>2, <1>3, <1>4, <1>5

(* A new minor of major m, behind its first k ones.                        *)
Puts(m, k, at, req) ==
  minors' = [minors EXCEPT
    ![m] = InsertAt(@, k + 1, [at |-> at, size |-> Padded(req), req |-> req])]

(* What an allocation from m adds to the counters.                         *)
Counts(m, req) ==
  LET listed == m \in ToSet(list)
  IN  /\ usage' = [usage EXCEPT ![m] = (IF listed THEN usage[m] ELSE Major) + Need(req)]
      /\ l_inuse' = l_inuse + Padded(req)
      /\ ToSet(list') = ToSet(list) \cup {m}
      /\ IF listed
         THEN UNCHANGED <<size, l_allocated>>
         ELSE /\ size' = [size EXCEPT ![m] = NewSize(req)]
              /\ l_allocated' = l_allocated + NewSize(req)

(* Finding a place in a major that exists leaves the heap in order.        *)
LEMMA AllocOldInv ==
  ASSUME HeapInv, NEW req \in Nat, AllocOld(req)
  PROVE  /\ HeapInv'
         /\ \E m \in MajorId : \E k \in 0 .. Len(minors[m]) : \E at :
              Puts(m, k, at, req) /\ Counts(m, req)
<1> DEFINE need  == Need(req)
           route == Route(need)
           hits  == {j \in DOMAIN route : Holds(route[j], need)}
           m     == route[Min(hits)]
           k     == Min(Holes(m, need))
           at    == HoleStart(m, k)
           b     == [at |-> at, size |-> Padded(req), req |-> req]
           t     == InsertAt(minors[m], k + 1, b)
<1>1. /\ hits # {} /\ minors' = [minors EXCEPT ![m] = t]
      /\ l_bestBet' = BetAfter(SubSeq(route, 1, Min(hits)), Room)
      /\ list' = list /\ size' = size
      /\ usage' = [usage EXCEPT ![m] = usage[m] + need]
      /\ l_inuse' = l_inuse + Padded(req) /\ l_allocated' = l_allocated
  BY DEF AllocOld, PutMinor
<1>2. route \in Seq(ToSet(list))
  BY RouteListed
<1>3. hits \in SUBSET Nat /\ \A j \in hits : j \in DOMAIN route /\ Holds(route[j], need)
  BY <1>2
<1>4. Min(hits) \in hits
  <2> HIDE DEF hits
  <2>1. QED
    BY <1>1, <1>3, MinIsElement
<1>5. m \in ToSet(list) /\ Holes(m, need) # {} /\ Min(hits) \in 1 .. Len(route)
  <2>1. Min(hits) \in DOMAIN route /\ Holds(m, need)
    BY <1>3, <1>4
  <2>2. Holes(m, need) # {}
    BY <2>1 DEF Holds
  <2> HIDE DEF route, hits
  <2>3. route[Min(hits)] \in ToSet(list) /\ Min(hits) \in 1 .. Len(route)
    BY <1>2, <2>1
  <2>4. QED
    BY <2>2, <2>3
<1>6. m \in MajorId /\ minors[m] \in Seq(Block) /\ size[m] \in Nat /\ Sound(minors[m], size[m])
  <2> HIDE DEF m
  <2>1. m \in MajorId
    BY <1>5 DEF HeapInv, HeapTypes, ToSet
  <2>2. QED
    BY <2>1 DEF HeapInv, HeapTypes, AllSound
<1> HIDE DEF m
<1>7. k \in 0 .. Len(minors[m]) /\ HoleEnd(m, k) - HoleStart(m, k) >= need
  <2>1. Holes(m, need) \in SUBSET Nat
    BY <1>6 DEF Holes
  <2>2. k \in Holes(m, need)
    BY <1>5, <2>1, MinIsElement
  <2>3. QED
    BY <2>2 DEF Holes
<1> HIDE DEF k, need
<1>8. t \in Seq(Block) /\ Sound(t, size[m]) /\ t # <<>>
  <2>1. need = Need(req) /\ need \in Nat
    BY NewSizeSuffices DEF need
  <2>2. at = (IF k = 0 THEN Major ELSE EndOf(minors[m], k))
    BY DEF HoleStart, EndOf, End
  <2>3. HoleEnd(m, k) = NextOf(minors[m], size[m], k)
    BY DEF HoleEnd, NextOf
  <2>4. ASSUME NEW i \in 1 .. Len(minors[m])
        PROVE  minors[m][i].at \in Nat /\ EndOf(minors[m], i) \in Nat
    <3>1. minors[m][i] \in Block
      BY <1>6
    <3>2. QED
      BY <3>1, ObjHeapAssumption DEF Block, EndOf, ObjHeapAssumption
  <2>5. at \in Nat
    <3>1. CASE k = 0
      BY <2>2, <3>1, ObjHeapAssumption DEF ObjHeapAssumption
    <3>2. CASE k # 0
      <4>1. k \in 1 .. Len(minors[m])
        BY <1>6, <1>7, <3>2
      <4>2. QED
        BY <2>2, <2>4, <3>2, <4>1
    <3>3. QED
      BY <3>1, <3>2
  <2>6. NextOf(minors[m], size[m], k) \in Nat
    <3>1. CASE k = Len(minors[m])
      BY <1>6, <3>1 DEF NextOf
    <3>2. CASE k # Len(minors[m])
      <4>1. k + 1 \in 1 .. Len(minors[m])
        BY <1>6, <1>7, <3>2
      <4>2. QED
        BY <2>4, <3>2, <4>1 DEF NextOf
    <3>3. QED
      BY <3>1, <3>2
  <2>7. at + Need(req) <= NextOf(minors[m], size[m], k)
    BY <1>7, <2>1, <2>3, <2>5, <2>6
  <2> DEFINE q == minors[m]
             sz == size[m]
  <2>8. /\ q \in Seq(Block) /\ sz \in Nat /\ Sound(q, sz) /\ k \in 0 .. Len(q)
        /\ at \in Nat /\ at = (IF k = 0 THEN Major ELSE EndOf(q, k))
        /\ at + Need(req) <= NextOf(q, sz, k)
    BY <1>6, <1>7, <2>2, <2>5, <2>7
  <2> HIDE DEF at, q, sz
  <2>9. /\ InsertAt(q, k + 1, [at |-> at, size |-> Padded(req), req |-> req]) \in Seq(Block)
        /\ Sound(InsertAt(q, k + 1, [at |-> at, size |-> Padded(req), req |-> req]), sz)
        /\ InsertAt(q, k + 1, [at |-> at, size |-> Padded(req), req |-> req]) # <<>>
    BY <2>8, InsertSound
  <2>10. QED
    BY <2>9 DEF q, sz
<1> HIDE DEF t
<1>9. minors' = [minors EXCEPT ![m] = t] /\ minors \in [MajorId -> Seq(Block)]
  BY <1>1 DEF HeapInv, HeapTypes
<1>10. l_bestBet' = l_bestBet \/ l_bestBet' \in ToSet(list)
  <2>1. SubSeq(route, 1, Min(hits)) \in Seq(ToSet(list))
    <3> HIDE DEF route, hits
    <3>1. QED
      BY <1>2, <1>5, SubSeqProperties
  <2>2. QED
    BY <1>1, <2>1, BetAfterListed
<1>11. HeapTypes'
  <2>1. ToSet(list) \subseteq MajorId
    BY DEF HeapInv, HeapTypes, ToSet
  <2>2. minors' \in [MajorId -> Seq(Block)]
    BY <1>8, <1>9
  <2>3. QED
    BY <1>1, <1>10, <2>1, <2>2 DEF HeapInv, HeapTypes
<1>12. ListExact'
  <2>1. \A x \in MajorId : minors'[x] = IF x = m THEN t ELSE minors[x]
    BY <1>9
  <2>2. ToSet(list)' = ToSet(list) /\ IsInjective(list)'
    BY <1>1 DEF HeapInv, ListExact, ToSet, IsInjective
  <2>3. \A x \in MajorId : x \in ToSet(list) <=> minors'[x] # <<>>
    BY <1>5, <1>8, <2>1 DEF HeapInv, ListExact
  <2>4. QED
    BY <1>10, <2>2, <2>3 DEF HeapInv, ListExact
<1>13. AllSound'
  <2>1. \A x \in MajorId : minors'[x] = IF x = m THEN t ELSE minors[x]
    BY <1>9
  <2>2. \A x \in MajorId : Sound(minors'[x], size[x])
    BY <1>8, <2>1 DEF HeapInv, AllSound
  <2>3. QED
    BY <1>1, <2>2 DEF AllSound, Sound, EndOf, NextOf
<1>14. Puts(m, k, at, req)
  BY <1>1 DEF Puts, t
<1>15. Counts(m, req)
  <2>1. ToSet(list') = ToSet(list) \cup {m}
    BY <1>1, <1>5
  <2>2. need = Need(req)
    BY DEF need
  <2>3. QED
    BY <1>1, <1>5, <2>1, <2>2 DEF Counts
<1>16. QED
  BY <1>6, <1>7, <1>11, <1>12, <1>13, <1>14, <1>15 DEF HeapInv

(* So does a new major at the end of the list.                             *)
LEMMA AllocNewInv ==
  ASSUME HeapInv, NEW req \in Nat, AllocNew(req)
  PROVE  /\ HeapInv'
         /\ \/ UNCHANGED <<list, size, usage, minors, l_inuse, l_allocated>>
            \/ \E m \in MajorId : \E k \in 0 .. Len(minors[m]) : \E at :
                 Puts(m, k, at, req) /\ Counts(m, req)
<1> DEFINE need  == Need(req)
           route == Route(need)
           new   == MajorId \ ToSet(list)
           m     == Min(new)
           room  == [Room EXCEPT ![m] = NewSize(req) - Major]
           again == list = <<>> \/ Room[Last(list)] >= need
           seen  == IF again THEN Append(route, m) ELSE route
           b     == [at |-> Major, size |-> Padded(req), req |-> req]
           t     == InsertAt(minors[m], 1, b)
<1>1. CASE new = {}
  <2>1. UNCHANGED <<list, size, usage, minors, l_bestBet, l_inuse, l_allocated>>
    BY <1>1 DEF AllocNew
  <2>2. QED
    BY <2>1 DEF HeapInv, HeapTypes, ListExact, AllSound, Sound, EndOf, NextOf,
                IsInjective, ToSet
<1>2. CASE new # {}
  <2>1. /\ list' = Append(list, m) /\ size' = [size EXCEPT ![m] = NewSize(req)]
        /\ minors' = [minors EXCEPT ![m] = InsertAt(minors[m], 0 + 1, b)]
        /\ l_bestBet' = BetAfter(seen, room)
        /\ usage' = [usage EXCEPT ![m] = Major + need]
        /\ l_inuse' = l_inuse + Padded(req) /\ l_allocated' = l_allocated + NewSize(req)
    BY <1>2 DEF AllocNew, PutMinor, Grown
  <2>2. m \in MajorId /\ m \notin ToSet(list)
    <3>1. new \in SUBSET Nat
      BY DEF MajorId
    <3> HIDE DEF new
    <3>2. m \in new
      BY <1>2, <3>1, MinIsElement
    <3>3. QED
      BY <3>2 DEF new
  <2>3. route \in Seq(ToSet(list))
    BY RouteListed
  <2> HIDE DEF m, route
  <2> DEFINE S == ToSet(list) \cup {m}
  <2>4. seen \in Seq(S)
    <3>1. route \in Seq(S)
      <4>1. \A i \in 1 .. Len(route) : route[i] \in S
        BY <2>3
      <4> HIDE DEF S
      <4>2. QED
        BY <2>3, <4>1
    <3>2. m \in S
      OBVIOUS
    <3> HIDE DEF S
    <3>3. Append(route, m) \in Seq(S)
      BY <3>1, <3>2
    <3>4. QED
      BY <3>1, <3>3
  <2>5. l_bestBet' = l_bestBet \/ l_bestBet' \in S
    <3> HIDE DEF seen, room, S
    <3>1. QED
      BY <2>1, <2>4, BetAfterListed
  <2>6. minors[m] = <<>>
    BY <2>2 DEF HeapInv, ListExact
  <2>7. NewSize(req) \in Nat /\ Major \in Nat /\ Major + Need(req) <= NewSize(req)
    BY NewSizeSuffices, ObjHeapAssumption DEF ObjHeapAssumption
  <2>8. t \in Seq(Block) /\ Sound(t, NewSize(req)) /\ t # <<>>
    <3> DEFINE q == <<>>
               sz == NewSize(req)
               at == Major
    <3>1. /\ q \in Seq(Block) /\ sz \in Nat /\ Sound(q, sz) /\ 0 \in 0 .. Len(q)
          /\ at \in Nat /\ at = (IF 0 = 0 THEN Major ELSE EndOf(q, 0))
          /\ at + Need(req) <= NextOf(q, sz, 0)
      BY <2>7 DEF Sound, NextOf
    <3>2. InsertAt(q, 0 + 1, [at |-> at, size |-> Padded(req), req |-> req]) = t
      BY <2>6
    <3> HIDE DEF q, sz, at, t
    <3>3. /\ InsertAt(q, 0 + 1, [at |-> at, size |-> Padded(req), req |-> req]) \in Seq(Block)
          /\ Sound(InsertAt(q, 0 + 1, [at |-> at, size |-> Padded(req), req |-> req]), sz)
          /\ InsertAt(q, 0 + 1, [at |-> at, size |-> Padded(req), req |-> req]) # <<>>
      BY <3>1, InsertSound
    <3>4. QED
      BY <3>2, <3>3 DEF sz
  <2>9. minors' = [minors EXCEPT ![m] = t]
    BY <2>1
  <2> HIDE DEF t, seen, room
  <2>10. /\ list \in Seq(MajorId) /\ size \in [MajorId -> Nat]
         /\ minors \in [MajorId -> Seq(Block)] /\ ToSet(list) \subseteq MajorId
    BY DEF HeapInv, HeapTypes, ToSet
  <2>11. /\ Len(list') = Len(list) + 1 /\ list' \in Seq(MajorId)
         /\ \A i \in 1 .. Len(list) : list'[i] = list[i]
         /\ list'[Len(list) + 1] = m
    BY <2>1, <2>2, <2>10
  <2>12. ToSet(list') = S
    <3>1. \A i \in 1 .. Len(list) + 1 : i \in 1 .. Len(list) \/ i = Len(list) + 1
      BY <2>10
    <3>2. /\ DOMAIN list' = 1 .. Len(list) + 1 /\ DOMAIN list = 1 .. Len(list)
          /\ Len(list) \in Nat
      BY <2>10, <2>11
    <3>3. ToSet(list') \subseteq S
      BY <2>11, <3>1, <3>2 DEF ToSet
    <3>4. ToSet(list) \subseteq ToSet(list')
      <4>1. ASSUME NEW i \in 1 .. Len(list) PROVE list[i] \in ToSet(list')
        <5>1. i \in DOMAIN list' /\ list'[i] = list[i]
          BY <2>11, <3>2
        <5>2. QED
          BY <5>1 DEF ToSet
      <4>2. QED
        BY <3>2, <4>1 DEF ToSet
    <3>5. m \in ToSet(list')
      <4>1. Len(list) + 1 \in DOMAIN list'
        BY <3>2
      <4>2. QED
        BY <2>11, <4>1 DEF ToSet
    <3>6. QED
      BY <3>3, <3>4, <3>5
  <2>13. IsInjective(list')
    <3>1. \A i \in 1 .. Len(list) : list[i] # m
      BY <2>2, <2>10 DEF ToSet
    <3>2. DOMAIN list' = 1 .. Len(list) + 1 /\ DOMAIN list = 1 .. Len(list) /\ Len(list) \in Nat
      BY <2>10, <2>11
    <3>3. ASSUME NEW i \in DOMAIN list', NEW j \in DOMAIN list', list'[i] = list'[j]
          PROVE  i = j
      <4>1. CASE i \in 1 .. Len(list) /\ j \in 1 .. Len(list)
        BY <2>11, <3>2, <3>3, <4>1 DEF HeapInv, ListExact, IsInjective
      <4>2. CASE i = Len(list) + 1 /\ j \in 1 .. Len(list)
        BY <2>11, <3>1, <3>3, <4>2
      <4>3. CASE j = Len(list) + 1 /\ i \in 1 .. Len(list)
        BY <2>11, <3>1, <3>3, <4>3
      <4>4. QED
        BY <3>2, <4>1, <4>2, <4>3
    <3>4. QED
      BY <3>3 DEF IsInjective
  <2>14. HeapTypes'
    <3>1. minors' \in [MajorId -> Seq(Block)] /\ size' \in [MajorId -> Nat]
      BY <2>1, <2>7, <2>8, <2>9, <2>10
    <3>2. l_bestBet' \in MajorId \cup {None}
      BY <2>2, <2>5, <2>10 DEF HeapInv, HeapTypes
    <3>3. QED
      BY <2>11, <3>1, <3>2 DEF HeapTypes
  <2>15. ListExact'
    <3>1. \A x \in MajorId : minors'[x] = IF x = m THEN t ELSE minors[x]
      BY <2>9, <2>10
    <3>2. \A x \in MajorId : x \in S <=> minors'[x] # <<>>
      BY <2>8, <3>1 DEF HeapInv, ListExact
    <3>3. l_bestBet' # None => l_bestBet' \in S
      BY <2>5 DEF HeapInv, ListExact
    <3>4. QED
      BY <2>12, <2>13, <3>2, <3>3 DEF ListExact, ToSet, IsInjective
  <2>16. AllSound'
    <3>1. \A x \in MajorId : /\ minors'[x] = IF x = m THEN t ELSE minors[x]
                             /\ size'[x] = IF x = m THEN NewSize(req) ELSE size[x]
      BY <2>1, <2>9, <2>10
    <3>2. \A x \in MajorId : Sound(minors'[x], size'[x])
      BY <2>8, <3>1 DEF HeapInv, AllSound
    <3>3. QED
      BY <3>2 DEF AllSound, Sound, EndOf, NextOf
  <2>17. Puts(m, 0, Major, req) /\ 0 \in 0 .. Len(minors[m])
    BY <2>1, <2>10, <2>2 DEF Puts
  <2>18. Counts(m, req)
    BY <2>1, <2>2, <2>12 DEF Counts
  <2>19. QED
    BY <2>2, <2>14, <2>15, <2>16, <2>17, <2>18 DEF HeapInv
<1>3. QED
  BY <1>1, <1>2

(* Taking one entry out of a list without repetitions takes out its value. *)
LEMMA RemoveFromList ==
  ASSUME list \in Seq(MajorId), IsInjective(list), NEW i \in DOMAIN list
  PROVE  /\ RemoveAt(list, i) \in Seq(MajorId)
         /\ IsInjective(RemoveAt(list, i))
         /\ ToSet(RemoveAt(list, i)) = ToSet(list) \ {list[i]}
<1> DEFINE t == RemoveAt(list, i)
<1>1. i \in 1 .. Len(list) /\ DOMAIN list = 1 .. Len(list) /\ Len(list) \in Nat
  BY SMTT(30)
<1>2. /\ t \in Seq(MajorId) /\ Len(t) = Len(list) - 1
      /\ \A j \in 1 .. i - 1 : t[j] = list[j]
      /\ \A j \in i .. Len(list) - 1 : t[j] = list[j + 1]
  <2>1. list \in Seq(MajorId)
    OBVIOUS
  <2>2. QED
    BY ONLY <1>1, <2>1, RemoveAtProperties, Zenon
<1> HIDE DEF t
<1> DEFINE from(j) == IF j < i THEN j ELSE j + 1
<1>3. DOMAIN t = 1 .. Len(list) - 1
  BY <1>2
<1>4. ASSUME NEW j \in DOMAIN t
      PROVE  /\ from(j) \in DOMAIN list /\ from(j) # i /\ t[j] = list[from(j)]
  <2>1. CASE j < i
    <3>1. j \in 1 .. i - 1 /\ j \in 1 .. Len(list)
      BY <1>1, <1>3, <2>1
    <3>2. QED
      BY <1>1, <1>2, <2>1, <3>1
  <2>2. CASE j >= i
    <3>1. j \in i .. Len(list) - 1 /\ j + 1 \in 1 .. Len(list) /\ ~(j < i) /\ j + 1 # i
      BY <1>1, <1>3, <2>2
    <3>2. QED
      BY <1>1, <1>2, <3>1
  <2>3. QED
    BY <1>1, <1>3, <2>1, <2>2
<1>5. ASSUME NEW j \in DOMAIN t, NEW l \in DOMAIN t, from(j) = from(l)
      PROVE  j = l
  BY <1>1, <1>3, <1>5
<1>6. ASSUME NEW j \in DOMAIN list, j # i
      PROVE  \E l \in DOMAIN t : from(l) = j
  <2>1. CASE j < i
    <3>1. j \in DOMAIN t /\ from(j) = j
      BY <1>1, <1>3, <2>1
    <3>2. QED
      BY <3>1
  <2>2. CASE j > i
    <3>1. j - 1 \in DOMAIN t /\ from(j - 1) = j
      BY <1>1, <1>3, <2>2
    <3>2. QED
      BY <3>1
  <2>3. QED
    BY <1>1, <1>6, <2>1, <2>2
<1> HIDE DEF from
<1>7. IsInjective(t)
  <2>1. ASSUME NEW j \in DOMAIN t, NEW l \in DOMAIN t, t[j] = t[l]
        PROVE  j = l
    <3>1. from(j) = from(l)
      BY <1>4, <2>1 DEF IsInjective
    <3>2. QED
      BY <1>5, <3>1
  <2>2. QED
    BY <2>1 DEF IsInjective
<1>8. ToSet(t) = ToSet(list) \ {list[i]}
  <2>1. ASSUME NEW x \in ToSet(t)
        PROVE  x \in ToSet(list) /\ x # list[i]
    <3>1. PICK j \in DOMAIN t : t[j] = x
      BY DEF ToSet
    <3>2. from(j) \in DOMAIN list /\ from(j) # i /\ x = list[from(j)]
      BY <1>4, <3>1
    <3>3. QED
      BY <3>2 DEF ToSet, IsInjective
  <2>2. ASSUME NEW x \in ToSet(list), x # list[i]
        PROVE  x \in ToSet(t)
    <3>1. PICK j \in DOMAIN list : list[j] = x
      BY DEF ToSet
    <3>2. PICK l \in DOMAIN t : from(l) = j
      BY <1>6, <2>2, <3>1
    <3>3. t[l] = x
      BY <1>4, <3>1, <3>2
    <3>4. QED
      BY <3>3 DEF ToSet
  <2>3. QED
    BY <2>1, <2>2
<1>9. QED
  BY <1>2, <1>7, <1>8 DEF t

(* Freeing an object, with its major if it was the last, does too.         *)
LEMMA FreeMinorInv ==
  ASSUME HeapInv, NEW m \in MajorId, NEW i \in DOMAIN minors[m], FreeMinor(m, i)
  PROVE  HeapInv'
<1> DEFINE rest == RemoveAt(minors[m], i)
<1>1. /\ list \in Seq(MajorId) /\ size \in [MajorId -> Nat]
      /\ minors \in [MajorId -> Seq(Block)] /\ minors[m] \in Seq(Block)
      /\ size[m] \in Nat /\ Sound(minors[m], size[m]) /\ i \in 1 .. Len(minors[m])
  BY DEF HeapInv, HeapTypes, AllSound
<1>2. minors' = [minors EXCEPT ![m] = rest]
  BY DEF FreeMinor
<1>3. rest \in Seq(Block) /\ Sound(rest, size[m])
  <2> DEFINE q == minors[m]
             sz == size[m]
  <2>1. q \in Seq(Block) /\ sz \in Nat /\ Sound(q, sz) /\ i \in 1 .. Len(q)
    BY <1>1
  <2> HIDE DEF q, sz
  <2>2. RemoveAt(q, i) \in Seq(Block) /\ Sound(RemoveAt(q, i), sz)
    BY <2>1, RemoveSound
  <2>3. QED
    BY <2>2 DEF q, sz
<1>4. m \in ToSet(list)
  <2>1. minors[m] # <<>>
    BY <1>1
  <2>2. QED
    BY <2>1 DEF HeapInv, ListExact
<1>5. CASE rest # <<>>
  <2>1. /\ list' = list /\ size' = size
        /\ l_bestBet' = m \/ l_bestBet' = l_bestBet
    BY <1>5 DEF FreeMinor
  <2> HIDE DEF rest
  <2>2. \A x \in MajorId : minors'[x] = IF x = m THEN rest ELSE minors[x]
    BY <1>1, <1>2
  <2>3. HeapTypes'
    <3>1. minors' \in [MajorId -> Seq(Block)]
      BY <1>1, <1>2, <1>3
    <3>2. QED
      BY <2>1, <3>1 DEF HeapInv, HeapTypes
  <2>4. ListExact'
    <3>1. ToSet(list') = ToSet(list) /\ IsInjective(list')
      BY <2>1 DEF HeapInv, ListExact
    <3>2. \A x \in MajorId : x \in ToSet(list) <=> minors'[x] # <<>>
      BY <1>4, <1>5, <2>2 DEF HeapInv, ListExact
    <3>3. l_bestBet' # None => l_bestBet' \in ToSet(list)
      BY <1>4, <2>1 DEF HeapInv, ListExact
    <3>4. QED
      BY <3>1, <3>2, <3>3 DEF ListExact, ToSet, IsInjective
  <2>5. AllSound'
    <3>1. \A x \in MajorId : Sound(minors'[x], size'[x])
      BY <1>3, <2>1, <2>2 DEF HeapInv, AllSound
    <3>2. QED
      BY <3>1 DEF AllSound, Sound, EndOf, NextOf
  <2>6. QED
    BY <2>3, <2>4, <2>5 DEF HeapInv
<1>6. CASE rest = <<>>
  <2>1. /\ list' = RemoveAt(list, Pos(m)) /\ size' = [size EXCEPT ![m] = 0]
        /\ l_bestBet' = BetWithout(m)
    BY <1>6 DEF FreeMinor
  <2>2. Pos(m) \in DOMAIN list /\ list[Pos(m)] = m
    BY <1>4, PosFinds
  <2>3. /\ list' \in Seq(MajorId) /\ IsInjective(list')
        /\ ToSet(list') = ToSet(list) \ {m}
    BY <1>1, <2>1, <2>2, RemoveFromList DEF HeapInv, ListExact
  <2> HIDE DEF rest
  <2>4. /\ \A x \in MajorId : minors'[x] = IF x = m THEN <<>> ELSE minors[x]
        /\ \A x \in MajorId : size'[x] = IF x = m THEN 0 ELSE size[x]
    BY <1>1, <1>2, <1>6, <2>1
  <2>5. HeapTypes'
    <3>1. minors' \in [MajorId -> Seq(Block)] /\ size' \in [MajorId -> Nat]
      BY <1>1, <1>2, <1>3, <2>1
    <3>2. l_bestBet' \in MajorId \cup {None}
      BY <2>1 DEF BetWithout, HeapInv, HeapTypes
    <3>3. QED
      BY <2>3, <3>1, <3>2 DEF HeapTypes
  <2>6. ListExact'
    <3>1. \A x \in MajorId : x \in ToSet(list') <=> minors'[x] # <<>>
      BY <2>3, <2>4 DEF HeapInv, ListExact
    <3>2. l_bestBet' # None => l_bestBet' \in ToSet(list')
      BY <2>1, <2>3 DEF HeapInv, ListExact, BetWithout
    <3>3. QED
      BY <2>3, <3>1, <3>2 DEF ListExact, ToSet, IsInjective
  <2>7. AllSound'
    <3>1. Sound(<<>>, 0)
      BY DEF Sound
    <3>2. \A x \in MajorId : Sound(minors'[x], size'[x])
      BY <2>4, <3>1 DEF HeapInv, AllSound
    <3>3. QED
      BY <3>2 DEF AllSound, Sound, EndOf, NextOf
  <2>8. QED
    BY <2>5, <2>6, <2>7 DEF HeapInv
<1>7. QED
  BY <1>5, <1>6

(* And so does noting a smaller size.                                      *)
LEMMA ShrinkInv ==
  ASSUME HeapInv, NEW m \in MajorId, NEW i \in DOMAIN minors[m], NEW req \in Nat,
         minors[m][i].req >= req, minors' = [minors EXCEPT ![m][i].req = req],
         UNCHANGED <<list, size, l_bestBet>>
  PROVE  HeapInv'
<1> DEFINE q == minors[m]
           sz == size[m]
           t == [q EXCEPT ![i].req = req]
<1>1. /\ q \in Seq(Block) /\ sz \in Nat /\ Sound(q, sz) /\ i \in 1 .. Len(q)
      /\ minors \in [MajorId -> Seq(Block)]
  BY DEF HeapInv, HeapTypes, AllSound
<1>2. minors' = [minors EXCEPT ![m] = t]
  BY <1>1
<1>3. req <= q[i].req
  <2>1. q[i] \in Block
    BY <1>1
  <2>2. q[i].req \in Nat /\ q[i].req >= req
    BY <2>1 DEF Block
  <2>3. QED
    BY <2>2
<1>4. t \in Seq(Block) /\ Sound(t, sz) /\ t # <<>>
  <2> HIDE DEF q, sz
  <2>1. t \in Seq(Block) /\ Sound(t, sz)
    BY <1>1, <1>3, ShrinkSound
  <2>2. Len(t) = Len(q)
    BY <1>1
  <2>3. QED
    BY <1>1, <2>1, <2>2
<1> HIDE DEF t
<1>5. \A x \in MajorId : minors'[x] = IF x = m THEN t ELSE minors[x]
  BY <1>1, <1>2
<1>6. HeapTypes'
  <2>1. minors' \in [MajorId -> Seq(Block)]
    BY <1>1, <1>2, <1>4
  <2>2. QED
    BY <2>1 DEF HeapInv, HeapTypes
<1>7. ListExact'
  <2>1. q # <<>>
    BY <1>1
  <2>2. \A x \in MajorId : x \in ToSet(list) <=> minors'[x] # <<>>
    BY <1>4, <1>5, <2>1 DEF HeapInv, ListExact
  <2>3. QED
    BY <2>2 DEF HeapInv, ListExact, ToSet, IsInjective
<1>8. AllSound'
  <2>1. \A x \in MajorId : Sound(minors'[x], size[x])
    BY <1>4, <1>5 DEF HeapInv, AllSound
  <2>2. QED
    BY <2>1 DEF AllSound, Sound, EndOf, NextOf
<1>9. QED
  BY <1>6, <1>7, <1>8 DEF HeapInv
-----------------------------------------------------------------------------
(* The three things HeapInv is for.                                        *)
LEMMA HeapInvSuffices ==
  HeapInv => MinorsInOrder /\ DataInside /\ MajorsInUse
<1> SUFFICES ASSUME HeapInv PROVE MinorsInOrder /\ DataInside /\ MajorsInUse
  OBVIOUS
<1>1. ASSUME NEW m \in MajorId, NEW i \in DOMAIN minors[m]
      PROVE  LET b == minors[m][i]
             IN  /\ b \in Block
                 /\ Major <= b.at
                 /\ b.at + Minor + b.size <=
                      IF i = Len(minors[m]) THEN size[m] ELSE minors[m][i + 1].at
                 /\ b.req + Alignment + AlignInfo <= b.size
  <2>1. minors[m] \in Seq(Block) /\ i \in 1 .. Len(minors[m])
    BY DEF HeapInv, HeapTypes
  <2>2. minors[m][i] \in Block /\ Sound(minors[m], size[m])
    BY <2>1 DEF HeapInv, AllSound
  <2>3. QED
    BY <2>1, <2>2 DEF Sound, EndOf, NextOf
<1>2. MinorsInOrder
  BY <1>1 DEF MinorsInOrder
<1>3. DataInside
  <2>1. ASSUME NEW at \in Nat, NEW sz \in Nat, NEW req \in Nat,
               req + Alignment + AlignInfo <= sz
        PROVE  /\ at + Minor + AlignInfo <= Data(at)
               /\ Data(at) + req <= at + Minor + sz
    <3> DEFINE x == at + Minor + AlignInfo + Alignment - 1
    <3>1. /\ Alignment \in Nat \ {0} /\ AlignInfo \in Nat /\ Minor \in Nat
          /\ x \in Nat
      BY ObjHeapAssumption DEF ObjHeapAssumption
    <3>2. x = at + Minor + AlignInfo + Alignment - 1 /\ Data(at) = (x \div Alignment) * Alignment
      BY DEF Data
    <3> HIDE DEF x
    <3>3. /\ (x \div Alignment) * Alignment \in Nat
          /\ (x \div Alignment) * Alignment <= x
          /\ x < (x \div Alignment) * Alignment + Alignment
      BY <3>1, RoundDown
    <3>4. QED
      BY <2>1, <3>1, <3>2, <3>3
  <2>2. ASSUME NEW m \in MajorId, NEW i \in DOMAIN minors[m]
        PROVE  LET b == minors[m][i]
               IN  /\ b.at + Minor + AlignInfo <= Data(b.at)
                   /\ Data(b.at) + b.req <= b.at + Minor + b.size
    <3> DEFINE b == minors[m][i]
    <3>1. b \in Block /\ b.req + Alignment + AlignInfo <= b.size
      BY <1>1
    <3> HIDE DEF b
    <3>2. b.at \in Nat /\ b.size \in Nat /\ b.req \in Nat
      BY <3>1 DEF Block
    <3>3. /\ b.at + Minor + AlignInfo <= Data(b.at)
          /\ Data(b.at) + b.req <= b.at + Minor + b.size
      BY <2>1, <3>1, <3>2
    <3>4. QED
      BY <3>3 DEF b
  <2>3. QED
    BY <2>2 DEF DataInside
<1>4. MajorsInUse
  <2>1. ToSet(list) \subseteq MajorId
    BY DEF HeapInv, HeapTypes, ToSet
  <2>2. QED
    BY <2>1 DEF HeapInv, ListExact, MajorsInUse
<1>5. QED
  BY <1>2, <1>3, <1>4

(* IInv is inductive.                                                      *)
THEOREM InvariantHolds == Spec => []IInv
<1>1. Init => IInv
  <2> SUFFICES ASSUME Init PROVE IInv
    OBVIOUS
  <2>1. HeapTypes
    BY DEF Init, HeapTypes
  <2>2. ListExact
    BY DEF Init, ListExact, IsInjective, ToSet
  <2>3. AllSound
    BY DEF Init, AllSound, Sound
  <2>4. QED
    BY <2>1, <2>2, <2>3 DEF Init, HeapInv, IInv, MovedListed
<1>2. IInv /\ [Next]_vars => IInv'
  <2> SUFFICES ASSUME HeapInv, MovedListed, [Next]_vars PROVE HeapInv' /\ MovedListed'
    BY DEF IInv
  <2>1. ASSUME NEW req \in Request PROVE req \in Nat
    BY ObjHeapAssumption DEF ObjHeapAssumption
  <2>2. CASE k_obj_alloc
    <3>1. HeapInv'
      BY <2>1, <2>2, AllocOldInv, AllocNewInv DEF k_obj_alloc
    <3>2. QED
      BY <2>2, <3>1 DEF k_obj_alloc, MovedListed
  <2>3. CASE k_obj_free
    <3>1. HeapInv'
      BY <2>3, FreeMinorInv DEF k_obj_free
    <3>2. QED
      BY <2>3, <3>1 DEF k_obj_free, MovedListed
  <2>4. CASE k_obj_realloc
    <3>1. PICK m \in MajorId : \E i \in DOMAIN minors[m] : \E req \in Request \ {0} :
            IF minors[m][i].req >= req
            THEN /\ minors' = [minors EXCEPT ![m][i].req = req]
                 /\ UNCHANGED <<list, size, usage, l_bestBet, l_inuse, l_allocated,
                                moved, full>>
            ELSE /\ AllocOld(req) \/ AllocNew(req)
                 /\ moved' = IF full' THEN NoPtr
                             ELSE [maj |-> m, at |-> Data(minors[m][i].at)]
      BY <2>4 DEF k_obj_realloc
    <3>2. PICK i \in DOMAIN minors[m], req \in Request \ {0} :
            IF minors[m][i].req >= req
            THEN /\ minors' = [minors EXCEPT ![m][i].req = req]
                 /\ UNCHANGED <<list, size, usage, l_bestBet, l_inuse, l_allocated,
                                moved, full>>
            ELSE /\ AllocOld(req) \/ AllocNew(req)
                 /\ moved' = IF full' THEN NoPtr
                             ELSE [maj |-> m, at |-> Data(minors[m][i].at)]
      BY <3>1
    <3>3. CASE minors[m][i].req >= req
      <4>1. HeapInv'
        BY <2>1, <3>2, <3>3, ShrinkInv
      <4>2. QED
        BY <3>2, <3>3, <4>1 DEF MovedListed
    <3>4. CASE ~(minors[m][i].req >= req)
      <4>1. HeapInv'
        BY <2>1, <3>2, <3>4, AllocOldInv, AllocNewInv
      <4>2. moved' = NoPtr \/ moved' = [maj |-> m, at |-> Data(minors[m][i].at)]
        BY <3>2, <3>4
      <4>3. MovedListed'
        BY <4>2 DEF MovedListed
      <4>4. QED
        BY <4>1, <4>3
    <3>5. QED
      BY <3>3, <3>4
  <2>5. CASE FinishRealloc
    <3>1. PICK i \in DOMAIN minors[moved.maj] : FreeMinor(moved.maj, i)
      BY <2>5 DEF FinishRealloc
    <3>2. moved.maj \in MajorId
      BY <2>5 DEF FinishRealloc, MovedListed
    <3>3. HeapInv'
      BY <3>1, <3>2, FreeMinorInv
    <3>4. QED
      BY <2>5, <3>3 DEF FinishRealloc, MovedListed
  <2>6. CASE UNCHANGED vars
    BY <2>6 DEF vars, HeapInv, HeapTypes, ListExact, AllSound, Sound, EndOf, NextOf,
                IsInjective, ToSet, MovedListed
  <2>7. QED
    BY <2>2, <2>3, <2>4, <2>5, <2>6 DEF Next
<1>3. QED
  BY <1>1, <1>2, PTL DEF Spec

(* Objects lie in the order of the list of minors, do not overlap, and lie *)
(* between the header and the end of their major, whatever the kernel      *)
(* allocates, frees and resizes.                                           *)
THEOREM ObjectsDisjoint == Spec => []MinorsInOrder
<1>1. IInv => MinorsInOrder
  BY HeapInvSuffices DEF IInv
<1>2. QED
  BY <1>1, InvariantHolds, PTL

(* ALIGN keeps the byte for UNALIGN free, and the bytes asked for end      *)
(* before the next header, for every alignment, header size and request.   *)
THEOREM ObjectsHoldTheirData == Spec => []DataInside
<1>1. IInv => DataInside
  BY HeapInvSuffices DEF IInv
<1>2. QED
  BY <1>1, InvariantHolds, PTL

(* Both together: what a program of the kernel writes into its object      *)
(* changes no other object and no header of k_obj_alloc's lists.           *)
THEOREM ObjectsSound == Spec => []ObjectsAreSound
<1>1. IInv => ObjectsAreSound
  BY HeapInvSuffices DEF IInv, ObjectsAreSound
<1>2. QED
  BY <1>1, InvariantHolds, PTL

(* The list holds just the majors with objects, and l_bestBet one of them: *)
(* k_obj_free leaves no pointer to pages it gave back.                     *)
THEOREM NoMajorDangles == Spec => []MajorsInUse
<1>1. IInv => MajorsInUse
  BY HeapInvSuffices DEF IInv
<1>2. QED
  BY <1>1, InvariantHolds, PTL
-----------------------------------------------------------------------------
(***************************************************************************)
(* The heap implements Arena.                                              *)
(***************************************************************************)
ObjOf(m, b) == [maj |-> m, at |-> Data(b.at), req |-> b.req]

LEMMA ObjectsAre ==
  /\ \A o : o \in Objects <=>
       \E m \in MajorId : \E i \in DOMAIN minors[m] : o = ObjOf(m, minors[m][i])
  /\ \A o : o \in Objects' <=>
       \E m \in MajorId : \E i \in DOMAIN minors'[m] : o = ObjOf(m, minors'[m][i])
BY DEF Objects, ObjOf

(* The bytes of a minor's data lie in it.                                  *)
LEMMA DataOfMinor ==
  ASSUME NEW q \in Seq(Block), NEW sz \in Nat, Sound(q, sz), NEW i \in 1 .. Len(q)
  PROVE  /\ q[i].at \in Nat /\ q[i].req \in Nat /\ Data(q[i].at) \in Nat
         /\ q[i].at < Data(q[i].at) /\ Data(q[i].at) + q[i].req <= EndOf(q, i)
         /\ EndOf(q, i) \in Nat
<1>1. PICK at, size_, req : at = q[i].at /\ size_ = q[i].size /\ req = q[i].req
  OBVIOUS
<1>2. /\ q[i] \in Block /\ at \in Nat /\ size_ \in Nat /\ req \in Nat
      /\ req + Alignment + AlignInfo <= size_
      /\ EndOf(q, i) = at + Minor + size_
  <2>1. PICK b : b = q[i]
    OBVIOUS
  <2>2. b \in Block /\ b.req + Alignment + AlignInfo <= b.size
    BY <2>1 DEF Sound
  <2>3. b.at \in Nat /\ b.size \in Nat /\ b.req \in Nat
    BY <2>2 DEF Block
  <2>4. EndOf(q, i) = b.at + Minor + b.size
    BY <2>1 DEF EndOf
  <2> QED  BY <1>1, <2>1, <2>2, <2>3, <2>4
<1>3. PICK x : x = at + Minor + AlignInfo + Alignment - 1
  OBVIOUS
<1>4. /\ Alignment \in Nat \ {0} /\ AlignInfo \in Nat \ {0} /\ Minor \in Nat /\ x \in Nat
  BY <1>2, <1>3, ObjHeapAssumption
<1>5. PICK d : d = Data(at)
  OBVIOUS
<1>6. d \in Nat /\ d <= x /\ x < d + Alignment
  BY <1>3, <1>4, <1>5, RoundDown DEF Data
<1>7. at < d /\ d + req <= at + Minor + size_
  BY <1>2, <1>3, <1>4, <1>6
<1>8. at + Minor + size_ \in Nat
  BY <1>2, <1>4
<1> QED  BY <1>1, <1>2, <1>5, <1>6, <1>7, <1>8

(* Each minor ends before all later ones begin.                            *)
LEMMA MinorsApart ==
  ASSUME NEW q \in Seq(Block), NEW sz \in Nat, Sound(q, sz),
         NEW i \in 1 .. Len(q), NEW j \in 1 .. Len(q), i < j
  PROVE  EndOf(q, i) <= q[j].at
<1> DEFINE Bad == {k \in i + 1 .. Len(q) : ~(EndOf(q, i) <= q[k].at)}
<1> SUFFICES ASSUME Bad # {} PROVE FALSE
  OBVIOUS
<1>1. Bad \in SUBSET Nat
  OBVIOUS
<1>2. PICK k \in Bad : \A x \in Bad : k <= x
  <2> HIDE DEF Bad
  <2> QED  BY <1>1, MinIsElement
<1>3. k - 1 \in 1 .. Len(q) /\ k \in 1 .. Len(q) /\ k - 1 # Len(q) /\ (k - 1) + 1 = k /\ k - 1 >= i
  OBVIOUS
<1>4. EndOf(q, k - 1) <= q[k].at
  BY <1>3 DEF Sound, NextOf
<1>5. /\ EndOf(q, i) \in Nat /\ EndOf(q, k - 1) \in Nat /\ q[k].at \in Nat
      /\ q[k - 1].at <= EndOf(q, k - 1) /\ q[k - 1].at \in Nat
  <2>1. /\ q[k - 1].at \in Nat /\ Data(q[k - 1].at) \in Nat /\ q[k - 1].req \in Nat
        /\ q[k - 1].at < Data(q[k - 1].at) /\ EndOf(q, k - 1) \in Nat
        /\ Data(q[k - 1].at) + q[k - 1].req <= EndOf(q, k - 1)
    BY <1>3, DataOfMinor
  <2>2. EndOf(q, i) \in Nat /\ q[k].at \in Nat
    BY <1>3, DataOfMinor
  <2> QED  BY <2>1, <2>2
<1>6. CASE k - 1 = i
  BY <1>4, <1>6
<1>7. CASE k - 1 # i
  <2>1. k - 1 \notin Bad
    BY <1>1, <1>2, <1>3
  <2>2. EndOf(q, i) <= q[k - 1].at
    BY <1>3, <1>7, <2>1
  <2>3. EndOf(q, i) <= q[k].at
    BY <1>4, <1>5, <2>2
  <2> QED  BY <2>3
<1> QED  BY <1>6, <1>7

(* Objects of one major are disjoint, and no two are the same.             *)
LEMMA ObjectsApart ==
  ASSUME NEW q \in Seq(Block), NEW sz \in Nat, Sound(q, sz), NEW m,
         NEW i \in 1 .. Len(q), NEW j \in 1 .. Len(q), i # j
  PROVE  /\ ObjOf(m, q[i]) # ObjOf(m, q[j])
         /\ Ideal!Disjoint(ObjOf(m, q[i]), ObjOf(m, q[j]))
<1>1. ASSUME NEW x \in 1 .. Len(q), NEW y \in 1 .. Len(q), x < y
      PROVE  Data(q[x].at) + q[x].req <= Data(q[y].at) /\ Data(q[x].at) # Data(q[y].at)
  <2>1. EndOf(q, x) <= q[y].at
    BY <1>1, MinorsApart
  <2>2. /\ Data(q[x].at) + q[x].req <= EndOf(q, x) /\ EndOf(q, x) \in Nat
        /\ Data(q[x].at) \in Nat /\ q[x].req \in Nat
    BY DataOfMinor
  <2>3. q[y].at < Data(q[y].at) /\ Data(q[y].at) \in Nat /\ q[y].at \in Nat
    BY DataOfMinor
  <2> QED  BY <2>1, <2>2, <2>3
<1>2. PICK a, b, c, d : a = Data(q[i].at) /\ b = Data(q[j].at) /\ c = q[i].req /\ d = q[j].req
  OBVIOUS
<1>3. (a + c <= b \/ b + d <= a) /\ a # b
  <2>1. CASE i < j
    BY <1>1, <1>2, <2>1
  <2>2. CASE j < i
    BY <1>1, <1>2, <2>2
  <2> QED  BY <2>1, <2>2
<1>4. /\ ObjOf(m, q[i]) = [maj |-> m, at |-> a, req |-> c]
      /\ ObjOf(m, q[j]) = [maj |-> m, at |-> b, req |-> d]
  BY <1>2 DEF ObjOf
<1> QED  BY <1>3, <1>4 DEF Ideal!Disjoint

(* A new minor is a new object, disjoint from all.                         *)
LEMMA PutsAllocates ==
  ASSUME HeapInv, HeapInv', NEW req \in Request, NEW m \in MajorId,
         NEW k \in 0 .. Len(minors[m]), NEW at, Puts(m, k, at, req)
  PROVE  Ideal!Alloc
<1>1. PICK q, t, b : /\ q = minors[m] /\ t = minors'[m]
                     /\ b = [at |-> at, size |-> Padded(req), req |-> req]
  OBVIOUS
<1>2. /\ q \in Seq(Block) /\ t \in Seq(Block) /\ size'[m] \in Nat /\ Sound(t, size'[m])
      /\ minors \in [MajorId -> Seq(Block)] /\ k \in 0 .. Len(q)
  BY <1>1 DEF HeapInv, HeapTypes, AllSound, Sound, EndOf, NextOf
<1>3. t = InsertAt(q, k + 1, b) /\ \A x \in MajorId \ {m} : minors'[x] = minors[x]
  BY <1>1, <1>2 DEF Puts
<1>4. /\ Len(t) = Len(q) + 1 /\ t[k + 1] = b
      /\ \A i \in 1 .. k : t[i] = q[i]
      /\ \A i \in k + 1 .. Len(q) : t[i + 1] = q[i]
  <2>1. PICK S : S = Block \cup {b}
    OBVIOUS
  <2>2. q \in Seq(S) /\ b \in S
    <3>1. \A i \in 1 .. Len(q) : q[i] \in S
      BY <1>2, <2>1
    <3> QED  BY <1>2, <2>1, <3>1
  <2>3. k \in 0 .. Len(q)
    BY <1>2
  <2>4. /\ Len(InsertAt(q, k + 1, b)) = Len(q) + 1 /\ InsertAt(q, k + 1, b)[k + 1] = b
        /\ \A i \in 1 .. k : InsertAt(q, k + 1, b)[i] = q[i]
        /\ \A i \in k + 1 .. Len(q) : InsertAt(q, k + 1, b)[i + 1] = q[i]
    BY <2>2, <2>3, InsertAtProperties
  <2> QED  BY <1>3, <2>4
<1>5. Len(q) \in Nat /\ k + 1 \in 1 .. Len(t) /\ DOMAIN q = 1 .. Len(q) /\ DOMAIN t = 1 .. Len(t)
  BY <1>2, <1>4
<1>6. ASSUME NEW i \in DOMAIN q PROVE \E j \in DOMAIN t : j # k + 1 /\ t[j] = q[i]
  <2>1. CASE i \in 1 .. k
    BY <1>4, <1>5, <2>1
  <2>2. CASE i \in k + 1 .. Len(q)
    <3>1. i + 1 \in DOMAIN t /\ i + 1 # k + 1 /\ t[i + 1] = q[i]
      BY <1>4, <1>5, <2>2
    <3> QED  BY <3>1
  <2> QED  BY <1>5, <2>1, <2>2
<1>7. ASSUME NEW j \in DOMAIN t, j # k + 1 PROVE \E i \in DOMAIN q : t[j] = q[i]
  <2>1. CASE j \in 1 .. k
    BY <1>4, <1>5, <2>1
  <2>2. CASE j \in k + 2 .. Len(q) + 1
    <3>1. j - 1 \in k + 1 .. Len(q) /\ (j - 1) + 1 = j
      BY <1>2, <1>5, <2>2
    <3>2. t[j] = q[j - 1] /\ j - 1 \in DOMAIN q
      BY <1>2, <1>4, <1>5, <3>1
    <3> QED  BY <3>2
  <2> QED  BY <1>2, <1>4, <1>5, <1>7, <2>1, <2>2
<1>8. PICK o : o = ObjOf(m, b)
  OBVIOUS
<1>9. ASSUME NEW p \in Objects
      PROVE  p # o /\ Ideal!Disjoint(o, p) /\ p \in Objects'
  <2>0. PICK n \in MajorId : \E i \in DOMAIN minors[n] : p = ObjOf(n, minors[n][i])
    BY ObjectsAre
  <2>1. PICK i \in DOMAIN minors[n] : p = ObjOf(n, minors[n][i])
    BY <2>0
  <2>2. CASE n = m
    <3>1. PICK j \in DOMAIN t : j # k + 1 /\ t[j] = q[i]
      BY <1>1, <1>6, <2>1, <2>2
    <3>2. ObjOf(m, t[k + 1]) # ObjOf(m, t[j]) /\ Ideal!Disjoint(ObjOf(m, t[k + 1]), ObjOf(m, t[j]))
      BY <1>2, <1>5, <3>1, ObjectsApart
    <3>3. p = ObjOf(m, t[j]) /\ o = ObjOf(m, t[k + 1])
      BY <1>1, <1>4, <1>8, <2>1, <2>2, <3>1
    <3>4. p \in Objects'
      BY <1>1, <3>1, <3>3, ObjectsAre
    <3> QED  BY <3>2, <3>3, <3>4
  <2>3. CASE n # m
    <3>1. p.maj = n /\ o.maj = m
      BY <1>8, <2>1 DEF ObjOf
    <3>2. p \in Objects'
      BY <1>3, <2>1, <2>3, ObjectsAre
    <3> QED  BY <2>3, <3>1, <3>2 DEF Ideal!Disjoint
  <2> QED  BY <2>2, <2>3
<1>10. o \in Objects' /\ o \in Ideal!Object
  <2>1. o \in Objects'
    BY <1>1, <1>4, <1>5, <1>8, ObjectsAre
  <2>2. Data(t[k + 1].at) \in Nat
    BY <1>2, <1>5, DataOfMinor
  <2>3. o = [maj |-> m, at |-> Data(t[k + 1].at), req |-> req]
    BY <1>1, <1>4, <1>8 DEF ObjOf
  <2> QED  BY <2>1, <2>2, <2>3 DEF Ideal!Object
<1>11. ASSUME NEW p \in Objects' PROVE p = o \/ p \in Objects
  <2>0. PICK n \in MajorId : \E j \in DOMAIN minors'[n] : p = ObjOf(n, minors'[n][j])
    BY ObjectsAre
  <2>1. PICK j \in DOMAIN minors'[n] : p = ObjOf(n, minors'[n][j])
    BY <2>0
  <2>2. CASE n # m
    BY <1>3, <2>1, <2>2, ObjectsAre
  <2>3. CASE n = m /\ j = k + 1
    BY <1>1, <1>4, <1>8, <2>1, <2>3
  <2>4. CASE n = m /\ j # k + 1
    <3>1. PICK i \in DOMAIN q : t[j] = q[i]
      BY <1>1, <1>7, <2>1, <2>4
    <3> QED  BY <1>1, <2>1, <2>4, <3>1, ObjectsAre
  <2> QED  BY <2>2, <2>3, <2>4
<1>12. Objects' = Objects \cup {o} /\ o \notin Objects
  BY <1>9, <1>10, <1>11
<1> QED  BY <1>9, <1>10, <1>12 DEF Ideal!Alloc

(* Taking a minor out frees its object and no other.                       *)
LEMMA RemoveFrees ==
  ASSUME HeapInv, NEW m \in MajorId, NEW i \in DOMAIN minors[m], FreeMinor(m, i)
  PROVE  Ideal!Free
<1>1. PICK q, t : q = minors[m] /\ t = minors'[m]
  OBVIOUS
<1>2. /\ q \in Seq(Block) /\ size[m] \in Nat /\ Sound(q, size[m])
      /\ minors \in [MajorId -> Seq(Block)]
  BY <1>1 DEF HeapInv, HeapTypes, AllSound
<1>3. /\ t = RemoveAt(q, i) /\ \A x \in MajorId \ {m} : minors'[x] = minors[x]
      /\ i \in 1 .. Len(q) /\ Len(q) \in Nat /\ DOMAIN q = 1 .. Len(q)
  BY <1>1, <1>2 DEF FreeMinor
<1>4. /\ t \in Seq(Block) /\ Len(t) = Len(q) - 1 /\ DOMAIN t = 1 .. Len(q) - 1
      /\ \A j \in 1 .. i - 1 : t[j] = q[j]
      /\ \A j \in i .. Len(q) - 1 : t[j] = q[j + 1]
  <2>1. /\ RemoveAt(q, i) \in Seq(Block) /\ Len(RemoveAt(q, i)) = Len(q) - 1
        /\ \A j \in 1 .. i - 1 : RemoveAt(q, i)[j] = q[j]
        /\ \A j \in i .. Len(q) - 1 : RemoveAt(q, i)[j] = q[j + 1]
    BY <1>2, <1>3, RemoveAtProperties
  <2>2. /\ t \in Seq(Block) /\ Len(t) = Len(q) - 1
        /\ \A j \in 1 .. i - 1 : t[j] = q[j]
        /\ \A j \in i .. Len(q) - 1 : t[j] = q[j + 1]
    BY <1>3, <2>1
  <2> QED  BY <2>2
<1>5. ASSUME NEW j \in DOMAIN q, j # i PROVE \E x \in DOMAIN t : t[x] = q[j]
  <2>1. CASE j < i
    <3>1. j \in 1 .. i - 1 /\ j \in DOMAIN t
      BY <1>3, <1>4, <2>1
    <3> QED  BY <1>4, <3>1
  <2>2. CASE j > i
    <3>1. j - 1 \in i .. Len(q) - 1 /\ j - 1 \in DOMAIN t /\ (j - 1) + 1 = j
      BY <1>3, <1>4, <2>2
    <3> QED  BY <1>4, <3>1
  <2> QED  BY <1>3, <1>5, <2>1, <2>2
<1>6. ASSUME NEW x \in DOMAIN t PROVE \E j \in DOMAIN q : j # i /\ t[x] = q[j]
  <2>1. CASE x < i
    <3>1. x \in 1 .. i - 1 /\ x \in DOMAIN q
      BY <1>3, <1>4, <2>1
    <3> QED  BY <1>3, <1>4, <3>1
  <2>2. CASE x >= i
    <3>1. x \in i .. Len(q) - 1 /\ x + 1 \in DOMAIN q /\ x + 1 # i
      BY <1>3, <1>4, <2>2
    <3> QED  BY <1>4, <3>1
  <2> QED  BY <1>3, <1>4, <2>1, <2>2
<1>7. PICK o : o = ObjOf(m, q[i])
  OBVIOUS
<1>8. o \in Objects
  BY <1>1, <1>7, ObjectsAre
<1>9. ASSUME NEW p \in Objects, p # o PROVE p \in Objects'
  <2>0. PICK n \in MajorId : \E j \in DOMAIN minors[n] : p = ObjOf(n, minors[n][j])
    BY ObjectsAre
  <2>1. PICK j \in DOMAIN minors[n] : p = ObjOf(n, minors[n][j])
    BY <2>0
  <2>2. CASE n # m
    BY <1>3, <2>1, <2>2, ObjectsAre
  <2>3. CASE n = m
    <3>1. j \in DOMAIN q /\ j # i /\ p = ObjOf(m, q[j])
      BY <1>1, <1>7, <1>9, <2>1, <2>3
    <3>2. PICK x \in DOMAIN t : t[x] = q[j]
      BY <1>5, <3>1
    <3> QED  BY <1>1, <3>1, <3>2, ObjectsAre
  <2> QED  BY <2>2, <2>3
<1>10. ASSUME NEW p \in Objects' PROVE p \in Objects /\ p # o
  <2>0. PICK n \in MajorId : \E x \in DOMAIN minors'[n] : p = ObjOf(n, minors'[n][x])
    BY ObjectsAre
  <2>1. PICK x \in DOMAIN minors'[n] : p = ObjOf(n, minors'[n][x])
    BY <2>0
  <2>2. CASE n # m
    <3>1. p.maj = n /\ o.maj = m
      BY <1>7, <2>1 DEF ObjOf
    <3>2. p \in Objects
      BY <1>3, <2>1, <2>2, ObjectsAre
    <3> QED  BY <2>2, <3>1, <3>2
  <2>3. CASE n = m
    <3>1. PICK j \in DOMAIN q : j # i /\ t[x] = q[j]
      BY <1>1, <1>6, <2>1, <2>3
    <3>2. p = ObjOf(m, q[j])
      BY <1>1, <2>1, <2>3, <3>1
    <3>3. ObjOf(m, q[i]) # ObjOf(m, q[j])
      BY <1>2, <1>3, <3>1, ObjectsApart
    <3>4. p \in Objects
      BY <1>1, <3>1, <3>2, ObjectsAre
    <3> QED  BY <1>7, <3>2, <3>3, <3>4
  <2> QED  BY <2>2, <2>3
<1>11. Objects' = Objects \ {o}
  BY <1>9, <1>10
<1> QED  BY <1>8, <1>11 DEF Ideal!Free

(* A smaller size leaves the object where it is.                           *)
LEMMA ResizeShrinks ==
  ASSUME HeapInv, NEW m \in MajorId, NEW i \in DOMAIN minors[m], NEW req \in Request,
         minors[m][i].req >= req, minors' = [minors EXCEPT ![m][i].req = req]
  PROVE  Ideal!Shrink
<1>1. PICK q, t, b, c : q = minors[m] /\ t = minors'[m] /\ b = q[i] /\ c = [b EXCEPT !.req = req]
  OBVIOUS
<1>2. /\ q \in Seq(Block) /\ size[m] \in Nat /\ Sound(q, size[m]) /\ DOMAIN q = 1 .. Len(q)
      /\ minors \in [MajorId -> Seq(Block)] /\ i \in 1 .. Len(q) /\ i \in DOMAIN q /\ b \in Block
  BY <1>1 DEF HeapInv, HeapTypes, AllSound
<1>3. /\ t = [q EXCEPT ![i] = c] /\ \A x \in MajorId \ {m} : minors'[x] = minors[x]
  BY <1>1, <1>2
<1>4. /\ DOMAIN t = DOMAIN q /\ t[i] = c /\ \A j \in DOMAIN q : j # i => t[j] = q[j]
  BY <1>2, <1>3
<1>5. /\ c.at = b.at /\ c.req = req /\ req \in Nat /\ b.req \in Nat /\ req <= b.req
  <2>1. b.req \in Nat /\ req \in Nat /\ b.req >= req
    BY <1>1, <1>2, ObjHeapAssumption DEF Block
  <2>2. c.at = b.at /\ c.req = req
    BY <1>1, <1>2 DEF Block
  <2> QED  BY <2>1, <2>2
<1>6. PICK o, r : o = ObjOf(m, b) /\ r = ObjOf(m, c)
  OBVIOUS
<1>7. r = [o EXCEPT !.req = req] /\ req <= o.req /\ o \in Objects /\ r \in Objects'
  <2>1. r = [o EXCEPT !.req = req] /\ o.req = b.req
    BY <1>5, <1>6 DEF ObjOf
  <2>2. o \in Objects
    BY <1>1, <1>6, ObjectsAre
  <2>3. r \in Objects'
    BY <1>1, <1>2, <1>4, <1>6, ObjectsAre
  <2> QED  BY <1>5, <2>1, <2>2, <2>3
<1>8. ASSUME NEW p \in Objects, p # o PROVE p \in Objects'
  <2>0. PICK n \in MajorId : \E j \in DOMAIN minors[n] : p = ObjOf(n, minors[n][j])
    BY ObjectsAre
  <2>1. PICK j \in DOMAIN minors[n] : p = ObjOf(n, minors[n][j])
    BY <2>0
  <2>2. CASE n # m
    BY <1>3, <2>1, <2>2, ObjectsAre
  <2>3. CASE n = m
    <3>1. j \in DOMAIN t /\ t[j] = q[j] /\ p = ObjOf(m, q[j])
      BY <1>1, <1>4, <1>6, <1>8, <2>1, <2>3
    <3> QED  BY <1>1, <3>1, ObjectsAre
  <2> QED  BY <2>2, <2>3
<1>9. ASSUME NEW p \in Objects', p # r PROVE p \in Objects /\ p # o
  <2>0. PICK n \in MajorId : \E j \in DOMAIN minors'[n] : p = ObjOf(n, minors'[n][j])
    BY ObjectsAre
  <2>1. PICK j \in DOMAIN minors'[n] : p = ObjOf(n, minors'[n][j])
    BY <2>0
  <2>2. CASE n # m
    <3>1. p.maj = n /\ o.maj = m
      BY <1>6, <2>1 DEF ObjOf
    <3>2. p \in Objects
      BY <1>3, <2>1, <2>2, ObjectsAre
    <3> QED  BY <2>2, <3>1, <3>2
  <2>3. CASE n = m
    <3>1. j \in DOMAIN q /\ j # i /\ p = ObjOf(m, q[j])
      BY <1>1, <1>4, <1>6, <1>9, <2>1, <2>3
    <3>2. ObjOf(m, q[i]) # ObjOf(m, q[j])
      BY <1>2, <3>1, ObjectsApart
    <3>3. p \in Objects
      BY <1>1, <3>1, ObjectsAre
    <3> QED  BY <1>1, <1>6, <3>1, <3>2, <3>3
  <2> QED  BY <2>2, <2>3
<1>10. Objects' = (Objects \ {o}) \cup {r}
  BY <1>7, <1>8, <1>9
<1> QED  BY <1>7, <1>10 DEF Ideal!Shrink

LEMMA ArenaStep ==
  ASSUME IInv, IInv', [Next]_vars
  PROVE  [Ideal!Next]_Objects
<1> USE DEF Ideal!Next
<1>1. HeapInv /\ HeapInv' /\ MovedListed
  BY DEF IInv
<1>2. ASSUME UNCHANGED minors PROVE UNCHANGED Objects
  BY <1>2 DEF Objects
<1>3. ASSUME NEW req \in Request, AllocOld(req) \/ AllocNew(req)
      PROVE  Ideal!Alloc \/ UNCHANGED Objects
  <2>1. req \in Nat
    BY ObjHeapAssumption
  <2>2. \/ UNCHANGED minors
        \/ \E m \in MajorId : \E k \in 0 .. Len(minors[m]) : \E at : Puts(m, k, at, req)
    BY <1>1, <1>3, <2>1, AllocOldInv, AllocNewInv
  <2> QED  BY <1>1, <1>2, <2>2, PutsAllocates
<1>4. CASE k_obj_alloc
  BY <1>3, <1>4 DEF k_obj_alloc
<1>5. CASE k_obj_free
  BY <1>1, <1>5, RemoveFrees DEF k_obj_free
<1>6. CASE k_obj_realloc
  <2>1. PICK m \in MajorId : \E i \in DOMAIN minors[m] : \E req \in Request \ {0} :
          IF minors[m][i].req >= req
          THEN minors' = [minors EXCEPT ![m][i].req = req]
          ELSE AllocOld(req) \/ AllocNew(req)
    BY <1>6 DEF k_obj_realloc
  <2>2. PICK i \in DOMAIN minors[m], req \in Request :
          IF minors[m][i].req >= req
          THEN minors' = [minors EXCEPT ![m][i].req = req]
          ELSE AllocOld(req) \/ AllocNew(req)
    BY <2>1
  <2>3. CASE minors[m][i].req >= req
    BY <1>1, <2>2, <2>3, ResizeShrinks
  <2>4. CASE ~(minors[m][i].req >= req)
    BY <1>3, <2>2, <2>4
  <2> QED  BY <2>3, <2>4
<1>7. CASE FinishRealloc
  <2>1. moved.maj \in MajorId
    BY <1>1, <1>7 DEF FinishRealloc, MovedListed
  <2> QED  BY <1>1, <1>7, <2>1, RemoveFrees DEF FinishRealloc
<1>8. CASE UNCHANGED vars
  BY <1>2, <1>8 DEF vars
<1> QED  BY <1>4, <1>5, <1>6, <1>7, <1>8 DEF Next

(* What k_obj_alloc and k_obj_realloc return lies in memory that is        *)
(* nobody's, and no call takes an object from its owner or moves it, but   *)
(* the k_obj_free or k_obj_realloc it is given to: the heap implements     *)
(* Arena, for all sizes of page, header, alignment and request.            *)
THEOREM HeapImplementsArena == Spec => ImplementsArena
<1>1. Init => Ideal!Init
  BY DEF Init, Objects, Ideal!Init
<1>2. IInv /\ IInv' /\ [Next]_vars => [Ideal!Next]_Objects
  BY ArenaStep
<1> QED  BY <1>1, <1>2, InvariantHolds, PTL DEF Spec, ImplementsArena, Ideal!Spec
-----------------------------------------------------------------------------
(***************************************************************************)
(* Sums.                                                                   *)
(***************************************************************************)

(* S has the sums of the first elements of q.                              *)
Sums(q, S) ==
  /\ S \in [0 .. Len(q) -> Nat] /\ S[0] = 0
  /\ \A n \in 1 .. Len(q) : S[n] = S[n - 1] + q[n]

LEMMA SumsExist ==
  ASSUME NEW q \in Seq(Nat)
  PROVE  \E S : Sums(q, S)
<1> DEFINE First(n, S) == /\ S \in [0 .. n -> Nat] /\ S[0] = 0
                          /\ \A i \in 1 .. n : S[i] = S[i - 1] + q[i]
           Bad == {n \in 0 .. Len(q) : ~ \E S : First(n, S)}
<1>1. Len(q) \in Nat /\ \A i \in 1 .. Len(q) : q[i] \in Nat
  OBVIOUS
<1>2. Bad = {}
  <2> SUFFICES ASSUME Bad # {} PROVE FALSE
    OBVIOUS
  <2>1. Bad \in SUBSET Nat
    BY <1>1
  <2>2. PICK k \in Bad : \A x \in Bad : k <= x
    <3> HIDE DEF Bad
    <3> QED  BY <2>1, MinIsElement
  <2>3. k \in 0 .. Len(q) /\ ~ \E S : First(k, S)
    BY <2>2
  <2>4. k # 0
    <3>1. First(0, [i \in 0 .. 0 |-> 0])
      OBVIOUS
    <3> QED  BY <2>3, <3>1
  <2>5. k - 1 \in 0 .. Len(q) /\ k \in 1 .. Len(q) /\ k - 1 \notin Bad
    <3>1. k - 1 \in 0 .. Len(q) /\ k \in 1 .. Len(q) /\ ~(k <= k - 1)
      BY <1>1, <2>3, <2>4
    <3> HIDE DEF Bad
    <3> QED  BY <2>2, <3>1
  <2>6. PICK S : First(k - 1, S)
    BY <2>5
  <2> DEFINE T == [i \in 0 .. k |-> IF i = k THEN S[k - 1] + q[k] ELSE S[i]]
  <2>7. S[k - 1] \in Nat /\ q[k] \in Nat /\ k - 1 \in Nat
    BY <1>1, <2>5, <2>6
  <2>8. T \in [0 .. k -> Nat]
    BY <2>5, <2>6, <2>7
  <2>9. ASSUME NEW i \in 1 .. k PROVE T[i] = T[i - 1] + q[i]
    <3>1. CASE i = k
      BY <2>5, <3>1
    <3>2. CASE i # k
      <4>1. i \in 1 .. k - 1 /\ i - 1 \in 0 .. k - 1
        BY <2>5, <3>2
      <4>2. T[i] = S[i] /\ T[i - 1] = S[i - 1]
        BY <2>5, <4>1
      <4> QED  BY <2>6, <4>1, <4>2
    <3> QED  BY <3>1, <3>2
  <2>10. T[0] = 0
    BY <2>5, <2>6
  <2>11. First(k, T)
    BY <2>8, <2>9, <2>10
  <2> QED  BY <2>3, <2>11
<1>3. Len(q) \notin Bad
  BY <1>2
<1>4. PICK S : First(Len(q), S)
  BY <1>1, <1>3
<1> QED  BY <1>4 DEF Sums

LEMMA SumsAreUnique ==
  ASSUME NEW q \in Seq(Nat), NEW S, Sums(q, S), NEW T,
         T = [n \in 0 .. Len(q) |-> IF n = 0 THEN 0 ELSE T[n - 1] + q[n]]
  PROVE  T[Len(q)] = S[Len(q)]
<1> DEFINE Bad == {n \in 0 .. Len(q) : T[n] # S[n]}
<1>1. Len(q) \in Nat
  OBVIOUS
<1>2. Bad = {}
  <2> SUFFICES ASSUME Bad # {} PROVE FALSE
    OBVIOUS
  <2>1. Bad \in SUBSET Nat
    BY <1>1
  <2>2. PICK k \in Bad : \A x \in Bad : k <= x
    <3> HIDE DEF Bad
    <3> QED  BY <2>1, MinIsElement
  <2>3. \A n \in 0 .. Len(q) : T[n] = IF n = 0 THEN 0 ELSE T[n - 1] + q[n]
    OBVIOUS
  <2>4. k # 0
    <3>1. 0 \in 0 .. Len(q) /\ S[0] = 0
      BY <1>1 DEF Sums
    <3> QED  BY <2>2, <2>3, <3>1
  <2>5. k \in 1 .. Len(q) /\ k - 1 \in 0 .. Len(q) /\ k - 1 \notin Bad
    BY <1>1, <2>1, <2>2, <2>4
  <2>6. T[k] = T[k - 1] + q[k] /\ S[k] = S[k - 1] + q[k]
    BY <2>3, <2>4, <2>5 DEF Sums
  <2> QED  BY <2>2, <2>5, <2>6
<1> QED  BY <1>1, <1>2

(* Total is the last of these sums.                                        *)
LEMMA TotalIs ==
  ASSUME NEW q \in Seq(Nat), NEW S, Sums(q, S)
  PROVE  Total(q) = S[Len(q)] /\ Total(q) \in Nat
<1>1. Len(q) \in Nat
  OBVIOUS
<1>2. S = [n \in 0 .. Len(q) |-> IF n = 0 THEN 0 ELSE S[n - 1] + q[n]]
  <2>1. \A n \in 0 .. Len(q) : S[n] = IF n = 0 THEN 0 ELSE S[n - 1] + q[n]
    BY <1>1 DEF Sums
  <2> QED  BY <2>1 DEF Sums
<1>3. PICK T : /\ T = [n \in 0 .. Len(q) |-> IF n = 0 THEN 0 ELSE T[n - 1] + q[n]]
               /\ Total(q) = T[Len(q)]
  BY <1>2, Zenon DEF Total
<1>4. T[Len(q)] = S[Len(q)]
  BY <1>3, SumsAreUnique
<1> QED  BY <1>1, <1>3, <1>4 DEF Sums

(* An element more adds its value, wherever it stands.                     *)
LEMMA TotalInsert ==
  ASSUME NEW q \in Seq(Nat), NEW t \in Seq(Nat), NEW k \in 0 .. Len(q),
         Len(t) = Len(q) + 1,
         \A i \in 1 .. k : t[i] = q[i],
         \A i \in k + 1 .. Len(q) : t[i + 1] = q[i]
  PROVE  Total(t) = Total(q) + t[k + 1] /\ Total(q) \in Nat /\ Total(t) \in Nat
<1>1. PICK S : Sums(q, S)
  BY SumsExist
<1>2. PICK n, e : n = Len(q) /\ e = t[k + 1]
  OBVIOUS
<1>3. /\ n \in Nat /\ k \in 0 .. n /\ e \in Nat /\ Len(t) = n + 1
      /\ S \in [0 .. n -> Nat] /\ S[0] = 0
      /\ \A i \in 1 .. n : S[i] = S[i - 1] + q[i]
  BY <1>1, <1>2 DEF Sums
<1> DEFINE T == [i \in 0 .. n + 1 |-> IF i <= k THEN S[i] ELSE S[i - 1] + e]
<1>4. T \in [0 .. n + 1 -> Nat] /\ T[0] = 0 /\ T[n + 1] = S[n] + e
  BY <1>3
<1>5. ASSUME NEW i \in 1 .. n + 1 PROVE T[i] = T[i - 1] + t[i]
  <2>1. CASE i <= k
    <3>1. i \in 1 .. k /\ i \in 1 .. n /\ T[i] = S[i] /\ T[i - 1] = S[i - 1]
      BY <1>3, <2>1
    <3> QED  BY <1>3, <3>1
  <2>2. CASE i = k + 1
    <3>1. T[i] = S[k] + e /\ T[i - 1] = S[k]
      BY <1>3, <2>2
    <3> QED  BY <1>2, <2>2, <3>1
  <2>3. CASE i > k + 1
    <3>1. /\ i - 1 \in k + 1 .. n /\ i - 1 \in 1 .. n /\ (i - 1) + 1 = i
          /\ T[i] = S[i - 1] + e /\ T[i - 1] = S[(i - 1) - 1] + e
      BY <1>3, <2>3
    <3>2. t[i] = q[i - 1] /\ S[i - 1] = S[(i - 1) - 1] + q[i - 1]
      BY <1>2, <1>3, <3>1
    <3>3. PICK j, x, y : j = i - 1 /\ x = S[j - 1] /\ y = q[j]
      OBVIOUS
    <3>4. j \in 1 .. Len(q) /\ j - 1 \in 0 .. n
      BY <1>2, <1>3, <3>1, <3>3
    <3>5. x \in Nat
      BY <1>3, <3>3, <3>4
    <3>6. y \in Nat
      BY <3>3, <3>4
    <3>7. T[i] = (x + y) + e /\ T[i - 1] = x + e /\ t[i] = y
      BY <3>1, <3>2, <3>3
    <3>8. (x + y) + e = (x + e) + y
      BY <1>3, <3>5, <3>6
    <3> QED  BY <3>7, <3>8
  <2> QED  BY <1>3, <2>1, <2>2, <2>3
<1> HIDE DEF T
<1>6. Sums(t, T)
  BY <1>3, <1>4, <1>5 DEF Sums
<1>7. Total(t) = T[n + 1] /\ Total(q) = S[n] /\ Total(q) \in Nat /\ Total(t) \in Nat
  BY <1>1, <1>2, <1>3, <1>6, TotalIs
<1> QED  BY <1>2, <1>4, <1>7

(* One element changed changes the sum by as much.                         *)
LEMMA TotalReplace ==
  ASSUME NEW q \in Seq(Nat), NEW t \in Seq(Nat), NEW i \in 1 .. Len(q),
         Len(t) = Len(q), \A j \in 1 .. Len(q) : j # i => t[j] = q[j]
  PROVE  Total(t) + q[i] = Total(q) + t[i] /\ Total(q) \in Nat /\ Total(t) \in Nat
<1>1. PICK r, k, n : r = RemoveAt(q, i) /\ k = i - 1 /\ n = Len(q)
  OBVIOUS
<1>2. n \in Nat /\ i \in 1 .. n /\ k \in Nat /\ k + 1 = i /\ q[i] \in Nat /\ t[i] \in Nat
  BY <1>1
<1>3. /\ r \in Seq(Nat) /\ Len(r) = n - 1
      /\ \A j \in 1 .. i - 1 : r[j] = q[j]
      /\ \A j \in i .. n - 1 : r[j] = q[j + 1]
  <2>1. /\ RemoveAt(q, i) \in Seq(Nat) /\ Len(RemoveAt(q, i)) = Len(q) - 1
        /\ \A j \in 1 .. i - 1 : RemoveAt(q, i)[j] = q[j]
        /\ \A j \in i .. Len(q) - 1 : RemoveAt(q, i)[j] = q[j + 1]
    BY RemoveAtProperties
  <2> QED  BY <1>1, <2>1
<1>4. /\ k \in 0 .. Len(r) /\ Len(q) = Len(r) + 1 /\ Len(t) = Len(r) + 1
      /\ \A j \in 1 .. k : q[j] = r[j]
      /\ \A j \in k + 1 .. Len(r) : q[j + 1] = r[j]
  <2>1. k \in 0 .. Len(r) /\ Len(q) = Len(r) + 1 /\ Len(t) = Len(r) + 1
    BY <1>1, <1>2, <1>3
  <2>2. \A j \in 1 .. k : q[j] = r[j]
    BY <1>1, <1>3
  <2>3. k + 1 = i /\ Len(r) = n - 1
    BY <1>2, <1>3
  <2>4. \A j \in k + 1 .. Len(r) : q[j + 1] = r[j]
    BY <1>3, <2>3
  <2> QED  BY <2>1, <2>2, <2>4
<1>5. \A j \in 1 .. k : t[j] = r[j]
  <2> SUFFICES ASSUME NEW j \in 1 .. k PROVE t[j] = r[j]
    OBVIOUS
  <2>1. j \in 1 .. Len(q) /\ j # i
    BY <1>1, <1>2
  <2> QED  BY <1>4, <2>1
<1>6. \A j \in k + 1 .. Len(r) : t[j + 1] = r[j]
  <2> SUFFICES ASSUME NEW j \in k + 1 .. Len(r) PROVE t[j + 1] = r[j]
    OBVIOUS
  <2>1. j + 1 \in 1 .. Len(q) /\ j + 1 # i
    BY <1>1, <1>2, <1>3
  <2> QED  BY <1>4, <2>1
<1>7. Total(q) = Total(r) + q[k + 1] /\ Total(r) \in Nat /\ Total(q) \in Nat
  BY <1>3, <1>4, TotalInsert
<1>8. Total(t) = Total(r) + t[k + 1] /\ Total(t) \in Nat
  BY <1>3, <1>4, <1>5, <1>6, TotalInsert
<1> QED  BY <1>2, <1>7, <1>8

LEMMA TotalOfZeros ==
  ASSUME NEW q \in Seq(Nat), \A i \in 1 .. Len(q) : q[i] = 0
  PROVE  Total(q) = 0
<1>1. Len(q) \in Nat
  OBVIOUS
<1> DEFINE S == [n \in 0 .. Len(q) |-> 0]
<1>2. Sums(q, S)
  BY <1>1 DEF Sums
<1>3. S[Len(q)] = 0
  BY <1>1
<1> HIDE DEF S
<1> QED  BY <1>2, <1>3, TotalIs

(* What the minors of a list take, with and without their headers.         *)
TakenBy(q) == [i \in DOMAIN q |-> Minor + q[i].size]
SizesIn(q) == [i \in DOMAIN q |-> q[i].size]

LEMMA PartsAreNumbers ==
  ASSUME NEW q \in Seq(Block)
  PROVE  /\ TakenBy(q) \in Seq(Nat) /\ Len(TakenBy(q)) = Len(q)
         /\ SizesIn(q) \in Seq(Nat) /\ Len(SizesIn(q)) = Len(q)
         /\ \A i \in 1 .. Len(q) : /\ q[i].size \in Nat
                                   /\ TakenBy(q)[i] = Minor + q[i].size
                                   /\ SizesIn(q)[i] = q[i].size
<1>1. DOMAIN q = 1 .. Len(q) /\ Len(q) \in Nat /\ Minor \in Nat
  BY ObjHeapAssumption
<1>2. ASSUME NEW i \in 1 .. Len(q) PROVE q[i].size \in Nat
  <2>1. q[i] \in Block
    OBVIOUS
  <2> QED  BY <2>1 DEF Block
<1>3. TakenBy(q) \in [1 .. Len(q) -> Nat] /\ SizesIn(q) \in [1 .. Len(q) -> Nat]
  BY <1>1, <1>2 DEF TakenBy, SizesIn
<1>4. /\ TakenBy(q) \in Seq(Nat) /\ Len(TakenBy(q)) = Len(q)
      /\ SizesIn(q) \in Seq(Nat) /\ Len(SizesIn(q)) = Len(q)
  BY <1>1, <1>3, SeqDef, LenProperties
<1> QED  BY <1>1, <1>2, <1>4 DEF TakenBy, SizesIn

(* A minor more is its size more, and its header.                          *)
LEMMA PartsInserted ==
  ASSUME NEW q \in Seq(Block), NEW t \in Seq(Block), NEW k \in 0 .. Len(q),
         Len(t) = Len(q) + 1,
         \A i \in 1 .. k : t[i] = q[i],
         \A i \in k + 1 .. Len(q) : t[i + 1] = q[i]
  PROVE  /\ Total(TakenBy(t)) = Total(TakenBy(q)) + Minor + t[k + 1].size
         /\ Total(SizesIn(t)) = Total(SizesIn(q)) + t[k + 1].size
         /\ Total(TakenBy(q)) \in Nat /\ Total(SizesIn(q)) \in Nat
         /\ Total(TakenBy(t)) \in Nat /\ Total(SizesIn(t)) \in Nat
         /\ t[k + 1].size \in Nat
<1>1. Len(q) \in Nat /\ k \in Nat /\ k + 1 \in 1 .. Len(t) /\ Minor \in Nat
  BY ObjHeapAssumption
<1>2. ASSUME NEW i \in 1 .. k
      PROVE  TakenBy(t)[i] = TakenBy(q)[i] /\ SizesIn(t)[i] = SizesIn(q)[i]
  <2>1. i \in 1 .. Len(q) /\ i \in 1 .. Len(t) /\ t[i] = q[i]
    BY <1>1
  <2> QED  BY <2>1, PartsAreNumbers
<1>3. ASSUME NEW i \in k + 1 .. Len(q)
      PROVE  TakenBy(t)[i + 1] = TakenBy(q)[i] /\ SizesIn(t)[i + 1] = SizesIn(q)[i]
  <2>1. i \in 1 .. Len(q) /\ i + 1 \in 1 .. Len(t) /\ t[i + 1] = q[i]
    BY <1>1
  <2> QED  BY <2>1, PartsAreNumbers
<1>4. /\ TakenBy(q) \in Seq(Nat) /\ TakenBy(t) \in Seq(Nat)
      /\ Len(TakenBy(q)) = Len(q) /\ Len(TakenBy(t)) = Len(TakenBy(q)) + 1
      /\ SizesIn(q) \in Seq(Nat) /\ SizesIn(t) \in Seq(Nat)
      /\ Len(SizesIn(q)) = Len(q) /\ Len(SizesIn(t)) = Len(SizesIn(q)) + 1
      /\ TakenBy(t)[k + 1] = Minor + t[k + 1].size /\ SizesIn(t)[k + 1] = t[k + 1].size
      /\ t[k + 1].size \in Nat
  BY <1>1, PartsAreNumbers
<1>5. /\ Total(TakenBy(t)) = Total(TakenBy(q)) + TakenBy(t)[k + 1]
      /\ Total(TakenBy(q)) \in Nat /\ Total(TakenBy(t)) \in Nat
  <2>1. PICK u, v : u = TakenBy(q) /\ v = TakenBy(t)
    OBVIOUS
  <2>2. /\ u \in Seq(Nat) /\ v \in Seq(Nat) /\ k \in 0 .. Len(u) /\ Len(v) = Len(u) + 1
        /\ \A i \in 1 .. k : v[i] = u[i]
        /\ \A i \in k + 1 .. Len(u) : v[i + 1] = u[i]
    BY <1>2, <1>3, <1>4, <2>1
  <2> QED  BY <2>1, <2>2, TotalInsert
<1>6. /\ Total(SizesIn(t)) = Total(SizesIn(q)) + SizesIn(t)[k + 1]
      /\ Total(SizesIn(q)) \in Nat /\ Total(SizesIn(t)) \in Nat
  <2>1. PICK u, v : u = SizesIn(q) /\ v = SizesIn(t)
    OBVIOUS
  <2>2. /\ u \in Seq(Nat) /\ v \in Seq(Nat) /\ k \in 0 .. Len(u) /\ Len(v) = Len(u) + 1
        /\ \A i \in 1 .. k : v[i] = u[i]
        /\ \A i \in k + 1 .. Len(u) : v[i + 1] = u[i]
    BY <1>2, <1>3, <1>4, <2>1
  <2> QED  BY <2>1, <2>2, TotalInsert
<1> QED  BY <1>1, <1>4, <1>5, <1>6
-----------------------------------------------------------------------------
(***************************************************************************)
(* The counters are the sums of what they count.                           *)
(***************************************************************************)
Used == [m \in MajorId |-> Total(SizesIn(minors[m]))]

UsageInv ==
  /\ usage \in [MajorId -> Nat]
  /\ \A m \in MajorId :
       IF m \in ToSet(list) THEN usage[m] = Major + Total(TakenBy(minors[m]))
       ELSE usage[m] = 0 /\ size[m] = 0
  /\ l_allocated = Total(size) /\ l_inuse = Total(Used)

LEMMA MajorsInSequence ==
  ASSUME NEW f \in [MajorId -> Nat]
  PROVE  f \in Seq(Nat) /\ Len(f) = MaxMajors /\ MajorId = 1 .. MaxMajors
<1>1. MaxMajors \in Nat /\ MajorId = 1 .. MaxMajors
  BY ObjHeapAssumption DEF MajorId
<1> QED  BY <1>1, SeqDef, LenProperties

LEMMA NothingTaken == Total(TakenBy(<<>>)) = 0 /\ Total(SizesIn(<<>>)) = 0
<1>1. <<>> \in Seq(Block) /\ Len(<<>>) = 0
  OBVIOUS
<1>2. /\ TakenBy(<<>>) \in Seq(Nat) /\ Len(TakenBy(<<>>)) = 0
      /\ SizesIn(<<>>) \in Seq(Nat) /\ Len(SizesIn(<<>>)) = 0
  BY <1>1, PartsAreNumbers
<1>3. PICK u, v : u = TakenBy(<<>>) /\ v = SizesIn(<<>>)
  OBVIOUS
<1>4. Total(u) = 0 /\ Total(v) = 0
  <2>1. u \in Seq(Nat) /\ v \in Seq(Nat) /\ Len(u) = 0 /\ Len(v) = 0
    BY <1>2, <1>3
  <2>2. (\A i \in 1 .. Len(u) : u[i] = 0) /\ \A i \in 1 .. Len(v) : v[i] = 0
    BY <2>1
  <2> QED  BY <2>1, <2>2, TotalOfZeros
<1> QED  BY <1>3, <1>4

(* In each heap that is in order the parts are numbers.                    *)
UsedFacts ==
  /\ Used \in [MajorId -> Nat] /\ Total(Used) \in Nat /\ Total(size) \in Nat
  /\ \A m \in MajorId : /\ minors[m] \in Seq(Block)
                        /\ Used[m] = Total(SizesIn(minors[m])) /\ Used[m] \in Nat
                        /\ Total(TakenBy(minors[m])) \in Nat

LEMMA UsedIsKnown ==
  HeapInv => UsedFacts
<1> SUFFICES ASSUME HeapInv PROVE UsedFacts
  OBVIOUS
<1>1. ASSUME NEW q \in Seq(Block)
      PROVE  Total(SizesIn(q)) \in Nat /\ Total(TakenBy(q)) \in Nat
  BY PartsAreNumbers, SumsExist, TotalIs
<1>2. \A m \in MajorId : minors[m] \in Seq(Block)
  BY DEF HeapInv, HeapTypes
<1>3. Used \in [MajorId -> Nat]
  BY <1>1, <1>2 DEF Used
<1>4. Total(Used) \in Nat
  BY <1>3, MajorsInSequence, SumsExist, TotalIs
<1>5. Total(size) \in Nat
  BY MajorsInSequence, SumsExist, TotalIs DEF HeapInv, HeapTypes
<1> QED  BY <1>1, <1>2, <1>3, <1>4, <1>5 DEF Used, UsedFacts

LEMMA UsedIsKnownNext ==
  HeapInv' => UsedFacts'
BY UsedIsKnown, PTL

(* The sums over all majors, when one of them changes.                     *)
LEMMA OneMajorChanges ==
  ASSUME NEW f \in [MajorId -> Nat], NEW g \in [MajorId -> Nat], NEW m \in MajorId,
         \A x \in MajorId \ {m} : g[x] = f[x]
  PROVE  Total(g) + f[m] = Total(f) + g[m] /\ Total(f) \in Nat /\ Total(g) \in Nat
<1>1. /\ f \in Seq(Nat) /\ g \in Seq(Nat) /\ m \in 1 .. Len(f) /\ Len(g) = Len(f)
      /\ \A j \in 1 .. Len(f) : j # m => g[j] = f[j]
  BY MajorsInSequence
<1> QED  BY <1>1, TotalReplace

LEMMA AllocUsage ==
  ASSUME HeapInv, HeapInv', UsageInv, NEW req \in Nat, NEW m \in MajorId,
         NEW k \in 0 .. Len(minors[m]), NEW at, Puts(m, k, at, req), Counts(m, req)
  PROVE  UsageInv'
<1>1. PICK q, t, b : /\ q = minors[m] /\ t = minors'[m]
                     /\ b = [at |-> at, size |-> Padded(req), req |-> req]
  OBVIOUS
<1>2. /\ q \in Seq(Block) /\ t \in Seq(Block) /\ k \in 0 .. Len(q)
      /\ minors \in [MajorId -> Seq(Block)]
      /\ size \in [MajorId -> Nat] /\ size' \in [MajorId -> Nat]
  BY <1>1 DEF HeapInv, HeapTypes
<1>3. t = InsertAt(q, k + 1, b) /\ \A x \in MajorId \ {m} : minors'[x] = minors[x]
  BY <1>1, <1>2 DEF Puts
<1>4. /\ Len(t) = Len(q) + 1 /\ t[k + 1] = b
      /\ \A i \in 1 .. k : t[i] = q[i]
      /\ \A i \in k + 1 .. Len(q) : t[i + 1] = q[i]
  <2>1. PICK S : S = Block \cup {b}
    OBVIOUS
  <2>2. q \in Seq(S) /\ b \in S
    <3>1. \A i \in 1 .. Len(q) : q[i] \in S
      BY <1>2, <2>1
    <3> QED  BY <1>2, <2>1, <3>1
  <2>3. k \in 0 .. Len(q)
    BY <1>2
  <2>4. /\ Len(InsertAt(q, k + 1, b)) = Len(q) + 1 /\ InsertAt(q, k + 1, b)[k + 1] = b
        /\ \A i \in 1 .. k : InsertAt(q, k + 1, b)[i] = q[i]
        /\ \A i \in k + 1 .. Len(q) : InsertAt(q, k + 1, b)[i + 1] = q[i]
    BY <2>2, <2>3, InsertAtProperties
  <2> QED  BY <1>3, <2>4
<1>5. /\ Total(TakenBy(t)) = Total(TakenBy(q)) + Minor + Padded(req)
      /\ Total(SizesIn(t)) = Total(SizesIn(q)) + Padded(req)
      /\ Total(TakenBy(q)) \in Nat /\ Total(SizesIn(q)) \in Nat
      /\ Total(TakenBy(t)) \in Nat /\ Total(SizesIn(t)) \in Nat
      /\ Padded(req) \in Nat
  <2>1. b.size = Padded(req)
    BY <1>1
  <2> QED  BY <1>2, <1>4, <2>1, PartsInserted
<1>6. Need(req) = Padded(req) + Minor /\ Minor \in Nat /\ Major \in Nat /\ NewSize(req) \in Nat
  BY NewSizeSuffices, ObjHeapAssumption DEF Need
<1>7. /\ usage \in [MajorId -> Nat]
      /\ usage' = [usage EXCEPT ![m] = (IF m \in ToSet(list) THEN usage[m] ELSE Major) + Need(req)]
      /\ ToSet(list') = ToSet(list) \cup {m}
  BY DEF UsageInv, Counts
<1>8. usage'[m] = Major + Total(TakenBy(t)) /\ usage'[m] \in Nat
  <2>1. (IF m \in ToSet(list) THEN usage[m] ELSE Major) = Major + Total(TakenBy(q))
    <3>1. CASE m \in ToSet(list)
      BY <1>1, <3>1 DEF UsageInv
    <3>2. CASE m \notin ToSet(list)
      <4>1. q = <<>>
        BY <1>1, <3>2 DEF HeapInv, ListExact
      <4> QED  BY <1>6, <3>2, <4>1, NothingTaken
    <3> QED  BY <3>1, <3>2
  <2>2. usage'[m] = (Major + Total(TakenBy(q))) + Need(req)
    BY <1>7, <2>1
  <2> QED  BY <1>5, <1>6, <2>2
<1>9. usage' \in [MajorId -> Nat] /\ \A x \in MajorId \ {m} : usage'[x] = usage[x]
  <2>1. PICK v : v = (IF m \in ToSet(list) THEN usage[m] ELSE Major) + Need(req)
    OBVIOUS
  <2>2. usage' = [usage EXCEPT ![m] = v] /\ v \in Nat
    BY <1>7, <1>8, <2>1
  <2> QED  BY <1>7, <2>2
<1>10. ASSUME NEW x \in MajorId
       PROVE  IF x \in ToSet(list') THEN usage'[x] = Major + Total(TakenBy(minors'[x]))
              ELSE usage'[x] = 0 /\ size'[x] = 0
  <2>1. CASE x = m
    BY <1>1, <1>7, <1>8, <2>1
  <2>2. CASE x # m
    <3>1. x \in ToSet(list') <=> x \in ToSet(list)
      BY <1>7, <2>2
    <3>2. usage'[x] = usage[x] /\ minors'[x] = minors[x] /\ size'[x] = size[x]
      BY <1>2, <1>3, <1>9, <2>2 DEF Counts
    <3> QED  BY <3>1, <3>2 DEF UsageInv
  <2> QED  BY <2>1, <2>2
<1>11. l_inuse' = Total(Used')
  <2>1. /\ Used \in [MajorId -> Nat] /\ Used' \in [MajorId -> Nat]
        /\ \A x \in MajorId \ {m} : Used'[x] = Used[x]
        /\ Used[m] = Total(SizesIn(q)) /\ Used'[m] = Total(SizesIn(t))
    BY <1>1, <1>3, UsedIsKnown, UsedIsKnownNext DEF UsedFacts
  <2>2. Total(Used') + Used[m] = Total(Used) + Used'[m] /\ Total(Used) \in Nat /\ Total(Used') \in Nat
    BY <2>1, OneMajorChanges
  <2>3. l_inuse' = Total(Used) + Padded(req)
    BY DEF UsageInv, Counts
  <2> QED  BY <1>5, <2>1, <2>2, <2>3
<1>12. l_allocated' = Total(size')
  <2>1. CASE m \in ToSet(list)
    BY <2>1 DEF UsageInv, Counts
  <2>2. CASE m \notin ToSet(list)
    <3>1. /\ size' = [size EXCEPT ![m] = NewSize(req)] /\ size[m] = 0
          /\ l_allocated' = Total(size) + NewSize(req)
      BY <2>2 DEF UsageInv, Counts
    <3>2. size'[m] = NewSize(req) /\ \A x \in MajorId \ {m} : size'[x] = size[x]
      BY <1>2, <3>1
    <3>3. Total(size') + size[m] = Total(size) + size'[m] /\ Total(size) \in Nat /\ Total(size') \in Nat
      BY <1>2, <3>2, OneMajorChanges
    <3> QED  BY <1>6, <3>1, <3>2, <3>3
  <2> QED  BY <2>1, <2>2
<1> QED  BY <1>9, <1>10, <1>11, <1>12 DEF UsageInv

LEMMA FreeUsage ==
  ASSUME HeapInv, HeapInv', UsageInv, NEW m \in MajorId, NEW i \in DOMAIN minors[m],
         FreeMinor(m, i)
  PROVE  UsageInv'
<1>1. PICK q, t, b, k : /\ q = minors[m] /\ t = RemoveAt(minors[m], i)
                        /\ b = minors[m][i] /\ k = i - 1
  OBVIOUS
<1>2. /\ q \in Seq(Block) /\ i \in 1 .. Len(q) /\ b = q[i] /\ t = RemoveAt(q, i)
      /\ minors \in [MajorId -> Seq(Block)]
      /\ size \in [MajorId -> Nat] /\ size' \in [MajorId -> Nat]
      /\ list \in Seq(MajorId) /\ IsInjective(list)
  BY <1>1 DEF HeapInv, HeapTypes, ListExact
<1>3. minors' = [minors EXCEPT ![m] = t] /\ l_inuse' = l_inuse - b.size
  BY <1>1 DEF FreeMinor
<1>4. minors'[m] = t /\ \A x \in MajorId \ {m} : minors'[x] = minors[x]
  BY <1>2, <1>3
<1>5. /\ t \in Seq(Block) /\ Len(t) = Len(q) - 1
      /\ \A j \in 1 .. i - 1 : t[j] = q[j]
      /\ \A j \in i .. Len(q) - 1 : t[j] = q[j + 1]
  BY <1>2, RemoveAtProperties
<1>6. /\ k \in 0 .. Len(t) /\ Len(q) = Len(t) + 1 /\ k + 1 = i
      /\ \A j \in 1 .. k : q[j] = t[j]
      /\ \A j \in k + 1 .. Len(t) : q[j + 1] = t[j]
  <2>1. Len(q) \in Nat /\ i \in Nat /\ k = i - 1
    BY <1>1, <1>2
  <2>2. k \in 0 .. Len(t) /\ Len(q) = Len(t) + 1 /\ k + 1 = i /\ Len(t) = Len(q) - 1
    BY <1>2, <1>5, <2>1
  <2> QED  BY <1>5, <2>1, <2>2
<1>7. /\ Total(TakenBy(q)) = Total(TakenBy(t)) + Minor + b.size
      /\ Total(SizesIn(q)) = Total(SizesIn(t)) + b.size
      /\ Total(TakenBy(q)) \in Nat /\ Total(SizesIn(q)) \in Nat
      /\ Total(TakenBy(t)) \in Nat /\ Total(SizesIn(t)) \in Nat
      /\ b.size \in Nat /\ Minor \in Nat /\ Major \in Nat
  <2>1. q[k + 1] = b
    BY <1>2, <1>6
  <2>2. /\ Total(TakenBy(q)) = Total(TakenBy(t)) + Minor + q[k + 1].size
        /\ Total(SizesIn(q)) = Total(SizesIn(t)) + q[k + 1].size
        /\ Total(TakenBy(q)) \in Nat /\ Total(SizesIn(q)) \in Nat
        /\ Total(TakenBy(t)) \in Nat /\ Total(SizesIn(t)) \in Nat
        /\ q[k + 1].size \in Nat
    <3>1. t \in Seq(Block) /\ q \in Seq(Block)
      BY <1>2, <1>5
    <3> QED  BY ONLY <1>6, <3>1, PartsInserted
  <2> QED  BY <2>1, <2>2, ObjHeapAssumption
<1>8. m \in ToSet(list) /\ usage[m] = Major + Total(TakenBy(q))
  <2>1. q # <<>>
    BY <1>2
  <2>2. m \in ToSet(list)
    BY <1>1, <2>1 DEF HeapInv, ListExact
  <2> QED  BY <1>1, <2>2 DEF UsageInv
<1>9. usage[m] - Released(b) = Major + Total(TakenBy(t)) /\ usage[m] - Released(b) \in Nat
  BY <1>7, <1>8 DEF Released
<1>10. l_inuse' = Total(Used')
  <2>1. /\ Used \in [MajorId -> Nat] /\ Used' \in [MajorId -> Nat]
        /\ \A x \in MajorId \ {m} : Used'[x] = Used[x]
        /\ Used[m] = Total(SizesIn(q)) /\ Used'[m] = Total(SizesIn(t))
    BY <1>1, <1>4, UsedIsKnown, UsedIsKnownNext DEF UsedFacts
  <2>2. Total(Used') + Used[m] = Total(Used) + Used'[m] /\ Total(Used) \in Nat /\ Total(Used') \in Nat
    BY <2>1, OneMajorChanges
  <2>3. l_inuse' = Total(Used) - b.size
    BY <1>3 DEF UsageInv
  <2> QED  BY <1>7, <2>1, <2>2, <2>3
<1>11. CASE t # <<>>
  <2>1. /\ usage' = [usage EXCEPT ![m] = usage[m] - Released(b)]
        /\ UNCHANGED <<list, size, l_allocated>>
    BY <1>1, <1>11 DEF FreeMinor
  <2>2. /\ usage' \in [MajorId -> Nat] /\ usage'[m] = Major + Total(TakenBy(t))
        /\ \A x \in MajorId \ {m} : usage'[x] = usage[x]
    <3>1. PICK v : v = usage[m] - Released(b)
      OBVIOUS
    <3>2. usage' = [usage EXCEPT ![m] = v] /\ v \in Nat /\ v = Major + Total(TakenBy(t))
          /\ usage \in [MajorId -> Nat]
      BY <1>9, <2>1, <3>1 DEF UsageInv
    <3> QED  BY <3>2
  <2>3. ASSUME NEW x \in MajorId
        PROVE  IF x \in ToSet(list') THEN usage'[x] = Major + Total(TakenBy(minors'[x]))
               ELSE usage'[x] = 0 /\ size'[x] = 0
    <3>1. CASE x = m
      BY <1>4, <1>8, <2>1, <2>2, <3>1
    <3>2. CASE x # m
      <4>1. usage'[x] = usage[x] /\ minors'[x] = minors[x]
        BY <1>4, <2>2, <3>2
      <4> QED  BY <2>1, <4>1 DEF UsageInv
    <3> QED  BY <3>1, <3>2
  <2>4. l_allocated' = Total(size')
    BY <2>1 DEF UsageInv
  <2> QED  BY <1>10, <2>2, <2>3, <2>4 DEF UsageInv
<1>12. CASE t = <<>>
  <2>1. /\ list' = RemoveAt(list, Pos(m)) /\ size' = [size EXCEPT ![m] = 0]
        /\ usage' = [usage EXCEPT ![m] = 0] /\ l_allocated' = l_allocated - size[m]
    BY <1>1, <1>12 DEF FreeMinor
  <2>2. Pos(m) \in DOMAIN list /\ list[Pos(m)] = m
    BY <1>8, PosFinds
  <2>3. ToSet(list') = ToSet(list) \ {m}
    BY <1>2, <2>1, <2>2, RemoveFromList
  <2>4. /\ usage' \in [MajorId -> Nat] /\ usage'[m] = 0 /\ size'[m] = 0
        /\ \A x \in MajorId \ {m} : usage'[x] = usage[x] /\ size'[x] = size[x]
    BY <1>2, <2>1 DEF UsageInv
  <2>5. ASSUME NEW x \in MajorId
        PROVE  IF x \in ToSet(list') THEN usage'[x] = Major + Total(TakenBy(minors'[x]))
               ELSE usage'[x] = 0 /\ size'[x] = 0
    <3>1. CASE x = m
      BY <2>3, <2>4, <3>1
    <3>2. CASE x # m
      <4>1. usage'[x] = usage[x] /\ minors'[x] = minors[x] /\ size'[x] = size[x]
        BY <1>4, <2>4, <3>2
      <4>2. x \in ToSet(list') <=> x \in ToSet(list)
        BY <2>3, <3>2
      <4> QED  BY <4>1, <4>2 DEF UsageInv
    <3> QED  BY <3>1, <3>2
  <2>6. l_allocated' = Total(size')
    <3>1. Total(size') + size[m] = Total(size) + size'[m] /\ Total(size) \in Nat /\ Total(size') \in Nat
      BY <1>2, <2>4, OneMajorChanges
    <3>2. l_allocated' = Total(size) - size[m] /\ size[m] \in Nat
      BY <1>2, <2>1 DEF UsageInv
    <3> QED  BY <2>4, <3>1, <3>2
  <2> QED  BY <1>10, <2>4, <2>5, <2>6 DEF UsageInv
<1> QED  BY <1>11, <1>12

(* A smaller size noted leaves the sizes of the minors as they are.        *)
LEMMA ShrinkUsage ==
  ASSUME HeapInv, UsageInv, NEW m \in MajorId, NEW i \in DOMAIN minors[m], NEW req \in Nat,
         minors' = [minors EXCEPT ![m][i].req = req],
         UNCHANGED <<list, size, usage, l_inuse, l_allocated>>
  PROVE  UsageInv'
<1>1. ASSUME NEW x \in MajorId
      PROVE  TakenBy(minors'[x]) = TakenBy(minors[x]) /\ SizesIn(minors'[x]) = SizesIn(minors[x])
  <2>1. PICK q, t : q = minors[x] /\ t = minors'[x]
    OBVIOUS
  <2>2. minors \in [MajorId -> Seq(Block)] /\ q \in Seq(Block)
    BY <2>1 DEF HeapInv, HeapTypes
  <2>3. t = IF x = m THEN [q EXCEPT ![i].req = req] ELSE q
    BY <2>1, <2>2
  <2>4. DOMAIN t = DOMAIN q /\ \A j \in DOMAIN q : t[j].size = q[j].size
    <3>1. CASE x # m
      BY <2>3, <3>1
    <3>2. CASE x = m
      <4>1. t = [q EXCEPT ![i].req = req] /\ i \in DOMAIN q
        BY <2>1, <2>3, <3>2
      <4>2. ASSUME NEW j \in DOMAIN q PROVE t[j].size = q[j].size
        <5>1. q[j] \in Block
          BY <2>2
        <5>2. CASE j # i
          BY <4>1, <5>2
        <5>3. CASE j = i
          <6>1. t[j] = [q[j] EXCEPT !.req = req]
            BY <4>1, <5>3
          <6> QED  BY <5>1, <6>1 DEF Block
        <5> QED  BY <5>2, <5>3
      <4> QED  BY <4>1, <4>2
    <3> QED  BY <3>1, <3>2
  <2>5. TakenBy(t) = TakenBy(q) /\ SizesIn(t) = SizesIn(q)
    BY <2>4 DEF TakenBy, SizesIn
  <2> QED  BY <2>1, <2>5
<1>2. Used' = Used
  BY <1>1 DEF Used
<1> QED  BY <1>1, <1>2 DEF UsageInv

LEMMA UsageStep ==
  ASSUME IInv, IInv', UsageInv, [Next]_vars
  PROVE  UsageInv'
<1>1. HeapInv /\ HeapInv' /\ MovedListed
  BY DEF IInv
<1>2. ASSUME UNCHANGED <<list, size, usage, minors, l_inuse, l_allocated>> PROVE UsageInv'
  <2>1. Used' = Used
    BY <1>2 DEF Used
  <2> QED  BY <1>2, <2>1 DEF UsageInv
<1>3. ASSUME NEW req \in Request, AllocOld(req) \/ AllocNew(req)
      PROVE  UsageInv'
  <2>1. req \in Nat
    BY ObjHeapAssumption
  <2>2. \/ UNCHANGED <<list, size, usage, minors, l_inuse, l_allocated>>
        \/ \E m \in MajorId : \E k \in 0 .. Len(minors[m]) : \E at :
             Puts(m, k, at, req) /\ Counts(m, req)
    BY <1>1, <1>3, <2>1, AllocOldInv, AllocNewInv
  <2> QED  BY <1>1, <1>2, <2>1, <2>2, AllocUsage
<1>4. CASE k_obj_alloc
  BY <1>3, <1>4 DEF k_obj_alloc
<1>5. CASE k_obj_free
  BY <1>1, <1>5, FreeUsage DEF k_obj_free
<1>6. CASE k_obj_realloc
  <2>1. PICK m \in MajorId : \E i \in DOMAIN minors[m] : \E req \in Request \ {0} :
          IF minors[m][i].req >= req
          THEN /\ minors' = [minors EXCEPT ![m][i].req = req]
               /\ UNCHANGED <<list, size, usage, l_inuse, l_allocated>>
          ELSE AllocOld(req) \/ AllocNew(req)
    BY <1>6 DEF k_obj_realloc
  <2>2. PICK i \in DOMAIN minors[m], req \in Request :
          IF minors[m][i].req >= req
          THEN /\ minors' = [minors EXCEPT ![m][i].req = req]
               /\ UNCHANGED <<list, size, usage, l_inuse, l_allocated>>
          ELSE AllocOld(req) \/ AllocNew(req)
    BY <2>1
  <2>3. CASE minors[m][i].req >= req
    BY <1>1, <2>2, <2>3, ShrinkUsage, ObjHeapAssumption
  <2>4. CASE ~(minors[m][i].req >= req)
    BY <1>3, <2>2, <2>4
  <2> QED  BY <2>3, <2>4
<1>7. CASE FinishRealloc
  <2>1. moved.maj \in MajorId
    BY <1>1, <1>7 DEF FinishRealloc, MovedListed
  <2> QED  BY <1>1, <1>7, <2>1, FreeUsage DEF FinishRealloc
<1>8. CASE UNCHANGED vars
  BY <1>2, <1>8 DEF vars
<1> QED  BY <1>4, <1>5, <1>6, <1>7, <1>8 DEF Next

(* No call loses a byte of its accounts, whatever it allocates, splits,    *)
(* frees and resizes: what k_obj_alloc decides by, and liballoc_dump       *)
(* prints, is what the lists of minors say.                                *)
THEOREM UsageExact == Spec => []UsageIsExact
<1>1. Init => UsageInv
  <2> SUFFICES ASSUME Init PROVE UsageInv
    OBVIOUS
  <2>1. \A m \in MajorId : Used[m] = 0
    BY NothingTaken DEF Init, Used
  <2>2. ASSUME NEW f \in [MajorId -> Nat], \A m \in MajorId : f[m] = 0
        PROVE  Total(f) = 0
    BY <2>2, MajorsInSequence, TotalOfZeros
  <2>3. Used \in [MajorId -> Nat] /\ size \in [MajorId -> Nat]
    BY <2>1 DEF Init, Used
  <2>4. Total(size) = 0 /\ Total(Used) = 0
    BY <2>1, <2>2, <2>3 DEF Init
  <2>5. \A m \in MajorId : m \notin ToSet(list)
    BY DEF Init, ToSet
  <2> QED  BY <2>4, <2>5 DEF Init, UsageInv
<1>2. IInv /\ IInv' /\ UsageInv /\ [Next]_vars => UsageInv'
  BY UsageStep
<1>3. IInv /\ UsageInv => UsageIsExact
  BY DEF IInv, HeapInv, ListExact, UsageInv, UsageIsExact, Used, TakenBy, SizesIn
<1> QED  BY <1>1, <1>2, <1>3, InvariantHolds, PTL DEF Spec
=============================================================================
