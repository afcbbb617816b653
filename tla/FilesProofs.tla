------------------------------ MODULE FilesProofs ------------------------------
(***************************************************************************)
(* Proofs about paths, directories and reads, for any file systems that    *)
(* are as their format wants them, any machines that have them, and any    *)
(* paths, buffers and places programs use.                                 *)
(*                                                                         *)
(* First what the loops of module Extfs compute; then that a walk finds    *)
(* what the names of its path mean, that getcwd's text is such a path,     *)
(* and that a read through extents gives the bytes of the file; then the   *)
(* invariant of the system calls; and at boot the walk over the buses, the *)
(* words of the command line and the lists of disks and partitions.        *)
(***************************************************************************)
EXTENDS Files, FiniteSetTheorems, SequenceTheorems, WellFoundedInduction, TLAPS

(* The smallest number of a set is one of them.                            *)
LEMMA MinIsElement ==
  ASSUME NEW S \in SUBSET Nat, S # {}
  PROVE  Min(S) \in S /\ \A x \in S : Min(S) <= x
<1>1. OpToRel(<, Nat) = {ss \in Nat \X Nat : ss[1] < ss[2]}
  BY DEF OpToRel
<1>2. PICK x \in S : \A y \in S : <<y, x>> \notin OpToRel(<, Nat)
  BY WFMin, NatLessThanWellFounded, Zenon
<1>3. ASSUME NEW y \in S PROVE x <= y
  <2>1. ~(y < x)
    BY <1>1, <1>2, Zenon
  <2> QED  BY <2>1
<1> QED  BY <1>3 DEF Min

(* A loop has one course: two that agree at the start, and whose rounds    *)
(* agree where the rounds before do, are the same.                         *)
LEMMA OneCourse ==
  ASSUME NEW n \in Nat, NEW f, NEW g, DOMAIN f = 0 .. n, DOMAIN g = 0 .. n, f[0] = g[0],
         \A k \in 1 .. n : f[k - 1] = g[k - 1] => f[k] = g[k]
  PROVE  \A k \in 0 .. n : f[k] = g[k]
<1>1. PICK Bad : Bad = {k \in 0 .. n : f[k] # g[k]}
  OBVIOUS
<1>2. Bad = {}
  <2> SUFFICES ASSUME Bad # {} PROVE FALSE
    OBVIOUS
  <2>1. Bad \in SUBSET Nat
    BY <1>1
  <2>2. PICK k \in Bad : \A x \in Bad : k <= x
    BY <2>1, MinIsElement
  <2>3. k \in 0 .. n /\ f[k] # g[k] /\ k # 0
    BY <1>1, <2>2
  <2>4. k \in 1 .. n /\ k - 1 \in 0 .. n /\ ~(k <= k - 1)
    BY <2>3
  <2>5. f[k - 1] = g[k - 1]
    BY <1>1, <2>2, <2>4
  <2> QED  BY <2>3, <2>4, <2>5
<1> QED  BY <1>1, <1>2

(* And it has one: g says what each round makes of a state.                *)
Course(n, S, s, g, f) ==
  f \in [0 .. n -> S] /\ f[0] = s /\ \A k \in 1 .. n : f[k] = g[k][f[k - 1]]

LEMMA SomeCourse ==
  ASSUME NEW n \in Nat, NEW S, NEW s \in S, NEW g \in [1 .. n -> [S -> S]]
  PROVE  \E f : Course(n, S, s, g, f)
<1>1. PICK Bad : Bad = {m \in 0 .. n : ~ \E f : Course(m, S, s, g, f)}
  OBVIOUS
<1>2. Bad = {}
  <2> SUFFICES ASSUME Bad # {} PROVE FALSE
    OBVIOUS
  <2>1. Bad \in SUBSET Nat
    BY <1>1
  <2>2. PICK m \in Bad : \A x \in Bad : m <= x
    BY <2>1, MinIsElement
  <2>3. m \in 0 .. n /\ ~ \E f : Course(m, S, s, g, f)
    BY <1>1, <2>2
  <2>4. m # 0
    <3>1. Course(0, S, s, g, [k \in 0 .. 0 |-> s])
      BY DEF Course
    <3> QED  BY <2>3, <3>1
  <2>5. m - 1 \in 0 .. n /\ m \in 1 .. n /\ ~(m <= m - 1)
    BY <2>3, <2>4
  <2>6. PICK f : Course(m - 1, S, s, g, f)
    BY <1>1, <2>2, <2>5
  <2>7. PICK v : v = g[m][f[m - 1]]
    OBVIOUS
  <2>8. v \in S
    <3>1. f[m - 1] \in S
      BY <2>5, <2>6 DEF Course
    <3> QED  BY <2>5, <2>7, <3>1
  <2>9. PICK h : h = [k \in 0 .. m |-> IF k = m THEN v ELSE f[k]]
    OBVIOUS
  <2>10. \A k \in 0 .. m : k # m => k \in 0 .. m - 1 /\ h[k] = f[k] /\ f[k] \in S
    BY <2>5, <2>6, <2>9 DEF Course
  <2>11. h \in [0 .. m -> S] /\ h[m] = v /\ h[0] = s
    BY <2>5, <2>6, <2>8, <2>9, <2>10 DEF Course
  <2>12. ASSUME NEW k \in 1 .. m PROVE h[k] = g[k][h[k - 1]]
    <3>1. k - 1 \in 0 .. m /\ k - 1 # m /\ h[k - 1] = f[k - 1]
      BY <2>5, <2>10
    <3>2. CASE k = m
      BY <2>7, <2>11, <3>1, <3>2
    <3>3. CASE k # m
      <4>1. k \in 1 .. m - 1 /\ h[k] = f[k]
        BY <2>5, <2>10, <3>3
      <4> QED  BY <2>6, <3>1, <4>1 DEF Course
    <3> QED  BY <3>2, <3>3
  <2>13. Course(m, S, s, g, h)
    BY <2>11, <2>12 DEF Course
  <2> QED  BY <2>3, <2>13
<1>3. n \notin Bad
  BY <1>2
<1> QED  BY <1>1, <1>3
-----------------------------------------------------------------------------
(***************************************************************************)
(* Directories.                                                            *)
(***************************************************************************)

LEMMA NodeSound ==
  ASSUME NEW tree, TreeIsSound(tree), NEW i
  PROVE  NodeIsSound(Node(tree, i))
BY FilesAssumption DEF TreeIsSound, Node

LEMMA DirIsThere ==
  ASSUME NEW tree, NEW i, Node(tree, i).kind = "dir"
  PROVE  i \in DOMAIN tree /\ Node(tree, i) = tree[i]
BY FilesAssumption DEF Node

(* What the loops over a directory see are its first entries.              *)
LEMMA SeenIs ==
  ASSUME NEW node, NodeIsSound(node)
  PROVE  /\ Seen(node) \in Seq(Entry)
         /\ \A k \in DOMAIN Seen(node) :
              k \in DOMAIN node.ents /\ Seen(node)[k] = node.ents[k] /\ node.ents[k].ino # 0
<1>1. PICK ents : ents = node.ents
  OBVIOUS
<1>2. ents \in Seq(Entry) /\ Len(ents) \in Nat
  BY <1>1 DEF NodeIsSound
<1>3. PICK stops : stops = {k \in DOMAIN ents : ents[k].ino = 0} \cup {Len(ents) + 1}
  OBVIOUS
<1>4. stops \in SUBSET Nat /\ stops # {}
  BY <1>2, <1>3
<1>5. PICK m : m = Min(stops)
  OBVIOUS
<1>6. m \in stops /\ \A x \in stops : m <= x
  BY <1>4, <1>5, MinIsElement
<1>7. m \in 1 .. Len(ents) + 1
  BY <1>2, <1>3, <1>6
<1>8. Seen(node) = SubSeq(ents, 1, m - 1)
  BY <1>1, <1>3, <1>5 DEF Seen
<1>9. m - 1 \in 0 .. Len(ents)
  BY <1>2, <1>7
<1>10. /\ SubSeq(ents, 1, m - 1) \in Seq(Entry)
       /\ DOMAIN SubSeq(ents, 1, m - 1) = 1 .. m - 1
       /\ \A k \in 1 .. m - 1 : SubSeq(ents, 1, m - 1)[k] = ents[k]
  BY <1>2, <1>9
<1>11. ASSUME NEW k \in 1 .. m - 1 PROVE k \in DOMAIN ents /\ ents[k].ino # 0
  <2>1. k \in DOMAIN ents
    BY <1>2, <1>9
  <2>2. k \in Nat /\ ~(m <= k)
    BY <1>7
  <2>3. k \notin stops
    BY <1>6, <2>2
  <2> QED  BY <1>3, <2>1, <2>3
<1> QED  BY <1>1, <1>8, <1>10, <1>11

(* A lookup gives an entry with that name, or nothing of a block device,   *)
(* or an error.                                                            *)
IsFound(tree, dir, name, i) ==
  /\ dir \in DOMAIN tree /\ tree[dir].kind = "dir"
  /\ \E k \in DOMAIN tree[dir].ents : tree[dir].ents[k] = [name |-> name, ino |-> i]

LEMMA EntryIs ==
  ASSUME NEW e \in Entry
  PROVE  e = [name |-> e.name, ino |-> e.ino] /\ e.ino \in Nat /\ e.name \in STRING
BY DEF Entry

LEMMA FindInDirIs ==
  ASSUME NEW tree, TreeIsSound(tree), NEW dir, NEW name
  PROVE  LET i == FindInDir(tree, dir, name) IN
         \/ i \in Nat \ {0} /\ IsFound(tree, dir, name, i)
         \/ i = 0 /\ Node(tree, dir).kind = "blockdev"
         \/ i \in {-ENOTDIR, -ENOENT}
<1>1. PICK node : node = Node(tree, dir)
  OBVIOUS
<1>2. NodeIsSound(node)
  BY <1>1, NodeSound
<1>3. CASE node.kind # "dir"
  <2>1. ReadDirents(node) = (IF node.kind = "blockdev" THEN 0 ELSE -ENOTDIR)
    BY <1>3 DEF ReadDirents, DirBit
  <2>2. FindInDir(tree, dir, name) = ReadDirents(node)
    BY <1>1, <2>1 DEF FindInDir, ENOTDIR
  <2> QED  BY <1>1, <2>1, <2>2
<1>4. CASE node.kind = "dir"
  <2>1. ReadDirents(node) = 1
    BY <1>4 DEF ReadDirents, DirBit
  <2>2. PICK hits : hits = {k \in DOMAIN Seen(node) : Seen(node)[k].name = name}
    OBVIOUS
  <2>3. FindInDir(tree, dir, name) = IF hits = {} THEN -ENOENT ELSE Seen(node)[Min(hits)].ino
    BY <1>1, <2>1, <2>2 DEF FindInDir
  <2>4. CASE hits # {}
    <3>1. Seen(node) \in Seq(Entry)
      BY <1>2, SeenIs
    <3>2. hits \in SUBSET Nat
      BY <2>2, <3>1
    <3>3. PICK k : k = Min(hits)
      OBVIOUS
    <3>4. k \in hits
      BY <2>4, <3>2, <3>3, MinIsElement
    <3>5. k \in DOMAIN Seen(node) /\ Seen(node)[k].name = name
      BY <2>2, <3>4
    <3>6. k \in DOMAIN node.ents /\ Seen(node)[k] = node.ents[k] /\ node.ents[k].ino # 0
      BY <1>2, <3>5, SeenIs
    <3>7. node.ents[k] \in Entry
      BY <3>1, <3>5, <3>6
    <3>8. node.ents[k] = [name |-> name, ino |-> node.ents[k].ino] /\ node.ents[k].ino \in Nat \ {0}
      BY <3>5, <3>6, <3>7, EntryIs
    <3>9. dir \in DOMAIN tree /\ node = tree[dir]
      BY <1>1, <1>4, DirIsThere
    <3>10. IsFound(tree, dir, name, node.ents[k].ino)
      BY <1>4, <3>6, <3>8, <3>9 DEF IsFound
    <3>11. FindInDir(tree, dir, name) = node.ents[k].ino
      BY <2>3, <2>4, <3>3, <3>6
    <3> QED  BY <3>8, <3>10, <3>11
  <2> QED  BY <2>3, <2>4
<1> QED  BY <1>3, <1>4
-----------------------------------------------------------------------------
(***************************************************************************)
(* Contents.  The bytes of an extent are those from its first to the one   *)
(* before its end.                                                         *)
(***************************************************************************)

First(e) == e.f * BlockSize
Behind(e) == (e.f + e.n) * BlockSize
Holds(e, o) == First(e) <= o /\ o < Behind(e)

LEMMA Times ==
  ASSUME NEW a \in Nat, NEW b \in Nat, a <= b
  PROVE  a * BlockSize \in Nat /\ a * BlockSize <= b * BlockSize
<1>1. BlockSize \in Nat
  BY FilesAssumption
<1>2. PICK c \in Nat : b = a + c
  <2>1. b - a \in Nat /\ b = a + (b - a)
    OBVIOUS
  <2> QED  BY <2>1
<1>3. a * BlockSize \in Nat /\ c * BlockSize \in Nat
  BY <1>1
<1>4. (a + c) * BlockSize = a * BlockSize + c * BlockSize
  BY <1>1
<1> QED  BY <1>2, <1>3, <1>4

LEMMA ExtentIs ==
  ASSUME NEW e \in Extent
  PROVE  /\ First(e) \in Nat /\ Behind(e) \in Nat /\ First(e) <= Behind(e)
         /\ First(e) + e.n * BlockSize = Behind(e)
         /\ e.n * BlockSize \in Nat /\ e.d * BlockSize \in Nat
<1>1. e.f \in Nat /\ e.n \in Nat /\ e.d \in Nat /\ e.f + e.n \in Nat /\ e.f <= e.f + e.n
  BY DEF Extent
<1>2. BlockSize \in Nat
  BY FilesAssumption
<1>3. (e.f + e.n) * BlockSize = e.f * BlockSize + e.n * BlockSize
  BY <1>1, <1>2
<1>4. e.f * BlockSize \in Nat /\ (e.f + e.n) * BlockSize \in Nat /\ e.f * BlockSize <= (e.f + e.n) * BlockSize
  BY <1>1, Times
<1>5. e.n * BlockSize \in Nat /\ e.d * BlockSize \in Nat
  BY <1>1, Times
<1> QED  BY <1>3, <1>4, <1>5 DEF First, Behind

(* Sorted extents have no byte in common.                                  *)
LEMMA Apart ==
  ASSUME NEW exts, ExtentsAreSorted(exts), NEW i \in DOMAIN exts, NEW j \in DOMAIN exts, i < j
  PROVE  Behind(exts[i]) <= First(exts[j])
<1>1. exts[i] \in Extent /\ exts[j] \in Extent /\ exts[i].f + exts[i].n <= exts[j].f
  BY DEF ExtentsAreSorted
<1>2. exts[i].f + exts[i].n \in Nat /\ exts[j].f \in Nat
  BY <1>1 DEF Extent
<1> QED  BY <1>1, <1>2, Times DEF First, Behind

LEMMA OneCovers ==
  ASSUME NEW exts, ExtentsAreSorted(exts), NEW i \in DOMAIN exts, NEW j \in DOMAIN exts,
         NEW o \in Int, Holds(exts[i], o), Holds(exts[j], o)
  PROVE  i = j
<1>1. i \in Nat /\ j \in Nat /\ exts[i] \in Extent /\ exts[j] \in Extent
  BY DEF ExtentsAreSorted
<1>2. /\ First(exts[i]) \in Nat /\ Behind(exts[i]) \in Nat
      /\ First(exts[j]) \in Nat /\ Behind(exts[j]) \in Nat
  BY <1>1, ExtentIs
<1>3. ~(i < j)
  <2> SUFFICES ASSUME i < j PROVE FALSE
    OBVIOUS
  <2>1. Behind(exts[i]) <= First(exts[j])
    BY Apart
  <2> QED  BY <1>2, <2>1 DEF Holds
<1>4. ~(j < i)
  <2> SUFFICES ASSUME j < i PROVE FALSE
    OBVIOUS
  <2>1. Behind(exts[j]) <= First(exts[i])
    BY Apart
  <2> QED  BY <1>2, <2>1 DEF Holds
<1> QED  BY <1>1, <1>3, <1>4

LEMMA ByteIs ==
  ASSUME NEW exts, ExtentsAreSorted(exts), NEW j \in DOMAIN exts, NEW o \in Int, Holds(exts[j], o)
  PROVE  ByteAt(exts, o) = exts[j].d * BlockSize + o - First(exts[j])
<1>1. exts \in Seq(Extent)
  BY DEF ExtentsAreSorted
<1>2. \A x : x \in Range(exts) <=> \E k \in DOMAIN exts : x = exts[k]
  BY DEF Range
<1>3. \A x \in Range(exts) : Holds(x, o) => x = exts[j]
  BY <1>2, OneCovers
<1>4. exts[j] \in Range(exts) /\ Holds(exts[j], o)
  BY <1>2
<1>5. PICK e : e = CHOOSE x \in Range(exts) : Holds(x, o)
  OBVIOUS
<1>6. e = exts[j]
  BY <1>3, <1>4, <1>5
<1>7. ByteAt(exts, o) = e.d * BlockSize + o - e.f * BlockSize
  BY <1>5 DEF ByteAt, Holds, First, Behind
<1> QED  BY <1>6, <1>7 DEF First

LEMMA MinOfTwo ==
  ASSUME NEW a \in Nat, NEW b \in Nat
  PROVE  Min({a, b}) = IF a <= b THEN a ELSE b
<1>1. {a, b} \in SUBSET Nat /\ {a, b} # {}
  OBVIOUS
<1>2. PICK m : m = Min({a, b})
  OBVIOUS
<1>3. m \in {a, b} /\ m <= a /\ m <= b
  BY <1>1, <1>2, MinIsElement
<1> QED  BY <1>2, <1>3

(* A round of the read takes what the extent has from where the read is.   *)
Reading == [data : Seq(Int), left : Nat, off : Nat]
Piece(r, e) == IF Behind(e) - r.off <= r.left THEN Behind(e) - r.off ELSE r.left

LEMMA ReadExtentIs ==
  ASSUME NEW r \in Reading, NEW e \in Extent
  PROVE  /\ ReadExtent(r, e) \in Reading
         /\ (r.left = 0 \/ r.off >= Behind(e)) => ReadExtent(r, e) = r
         /\ (r.left > 0 /\ Holds(e, r.off)) =>
              /\ Piece(r, e) \in Nat /\ Piece(r, e) <= r.left
              /\ ReadExtent(r, e).left = r.left - Piece(r, e)
              /\ ReadExtent(r, e).off = r.off + Piece(r, e)
              /\ ReadExtent(r, e).data =
                   r.data \o [k \in 1 .. Piece(r, e) |-> e.d * BlockSize + r.off - First(e) + k - 1]
<1>1. PICK start, size, end, at : start = e.f * BlockSize /\ size = e.n * BlockSize /\ end = Behind(e)
        /\ at = e.d * BlockSize
  OBVIOUS
<1>2. /\ start \in Nat /\ size \in Nat /\ end \in Nat /\ at \in Nat
      /\ start + size = end /\ start <= end /\ start = First(e)
  BY <1>1, ExtentIs DEF First
<1>3. PICK left, off, data : left = r.left /\ off = r.off /\ data = r.data
  OBVIOUS
<1>4. left \in Nat /\ off \in Nat /\ data \in Seq(Int) /\ r = [data |-> data, left |-> left, off |-> off]
  BY <1>3 DEF Reading
<1>5. PICK from : from = ExtentOff(off, start)
  OBVIOUS
<1>6. from = (IF off > start THEN off - start ELSE 0)
  BY <1>5 DEF ExtentOff
<1>7. PICK n : n = Min({size - from, left})
  OBVIOUS
<1>8. ReadExtent(r, e) =
        IF left <= 0 \/ off >= start + size THEN r
        ELSE [data |-> data \o [k \in 1 .. n |-> at + from + k - 1], left |-> left - n, off |-> off + n]
  BY <1>1, <1>3, <1>5, <1>7 DEF ReadExtent
<1>9. CASE left = 0 \/ off >= end
  <2>1. ReadExtent(r, e) = r
    BY <1>2, <1>4, <1>8, <1>9
  <2>2. ~(left > 0 /\ off < end)
    BY <1>2, <1>4, <1>9
  <2> QED  BY <1>1, <1>3, <2>1, <2>2 DEF Holds
<1>10. CASE ~(left = 0 \/ off >= end)
  <2>1. left > 0 /\ off < end
    BY <1>2, <1>4, <1>10
  <2>2. from \in Nat /\ size - from \in Nat
    BY <1>2, <1>4, <1>6, <2>1
  <2>3. n = IF size - from <= left THEN size - from ELSE left
    BY <1>4, <1>7, <2>2, MinOfTwo
  <2>4. n \in Nat /\ n <= left /\ left - n \in Nat /\ off + n \in Nat
    BY <1>4, <2>2, <2>3
  <2>5. PICK more : more = [k \in 1 .. n |-> at + from + k - 1]
    OBVIOUS
  <2>6. \A k \in 1 .. n : at + from + k - 1 \in Int
    BY <1>2, <2>2
  <2>7. more \in Seq(Int)
    BY <2>4, <2>5, <2>6
  <2>8. data \o more \in Seq(Int)
    BY <1>4, <2>7
  <2>9. ReadExtent(r, e) = [data |-> data \o more, left |-> left - n, off |-> off + n]
    <3>1. ~(left <= 0 \/ off >= start + size)
      BY <1>2, <1>4, <2>1
    <3> QED  BY <1>8, <2>5, <3>1
  <2>10. ReadExtent(r, e) \in Reading
    BY <2>4, <2>8, <2>9 DEF Reading
  <2>11. ASSUME Holds(e, off)
         PROVE  n = Piece(r, e) /\ more = [k \in 1 .. n |-> at + off - start + k - 1]
    <3>1. start <= off
      BY <1>2, <2>11 DEF Holds
    <3>2. from = off - start
      BY <1>2, <1>4, <1>6, <3>1
    <3>3. size - from = end - off
      BY <1>2, <1>4, <3>2
    <3>4. n = Piece(r, e)
      BY <1>1, <1>3, <2>3, <3>3 DEF Piece
    <3>5. \A k \in 1 .. n : at + from + k - 1 = at + off - start + k - 1
      BY <1>2, <1>4, <2>4, <3>2
    <3> QED  BY <2>5, <3>4, <3>5
  <2>12. Holds(e, off) =>
           /\ Piece(r, e) \in Nat /\ Piece(r, e) <= left
           /\ ReadExtent(r, e).left = left - Piece(r, e)
           /\ ReadExtent(r, e).off = off + Piece(r, e)
           /\ ReadExtent(r, e).data = data \o [k \in 1 .. Piece(r, e) |-> at + off - start + k - 1]
    BY <2>4, <2>9, <2>11
  <2> QED  BY <1>1, <1>2, <1>3, <1>10, <2>10, <2>12
<1> QED  BY <1>9, <1>10

(* The rounds of the read, and that ReadExtents gives what the last of     *)
(* them has.                                                               *)
Start0(count, off) == [data |-> <<>>, left |-> count, off |-> off]

LEMMA ReadCourse ==
  ASSUME NEW exts \in Seq(Extent), NEW count \in Nat, NEW off \in Nat
  PROVE  \E read : /\ read \in [0 .. Len(exts) -> Reading] /\ read[0] = Start0(count, off)
                   /\ \A k \in 1 .. Len(exts) : read[k] = ReadExtent(read[k - 1], exts[k])
                   /\ ReadExtents(exts, count, off) = read[Len(exts)].data
<1>1. PICK n : n = Len(exts)
  OBVIOUS
<1>2. n \in Nat /\ \A k \in 1 .. n : exts[k] \in Extent
  BY <1>1
<1>3. PICK g : g = [k \in 1 .. n |-> [r \in Reading |-> ReadExtent(r, exts[k])]]
  OBVIOUS
<1>4. g \in [1 .. n -> [Reading -> Reading]]
  BY <1>2, <1>3, ReadExtentIs
<1>5. Start0(count, off) \in Reading
  BY DEF Start0, Reading
<1>6. PICK read : Course(n, Reading, Start0(count, off), g, read)
  BY <1>2, <1>4, <1>5, SomeCourse
<1>7. read \in [0 .. n -> Reading] /\ read[0] = Start0(count, off)
  BY <1>6 DEF Course
<1>8. ASSUME NEW k \in 1 .. n PROVE read[k] = ReadExtent(read[k - 1], exts[k])
  <2>1. k - 1 \in 0 .. n
    BY <1>2
  <2>2. read[k - 1] \in Reading
    BY <1>7, <2>1
  <2> QED  BY <1>3, <1>6, <2>2 DEF Course
<1>9. PICK f : f = CHOOSE loop : loop = [k \in 0 .. n |->
                 IF k = 0 THEN Start0(count, off) ELSE ReadExtent(loop[k - 1], exts[k])]
  OBVIOUS
<1>10. read = [k \in 0 .. n |-> IF k = 0 THEN Start0(count, off) ELSE ReadExtent(read[k - 1], exts[k])]
  BY <1>2, <1>7, <1>8
<1>11. f = [k \in 0 .. n |-> IF k = 0 THEN Start0(count, off) ELSE ReadExtent(f[k - 1], exts[k])]
  BY <1>9, <1>10
<1>12. DOMAIN f = 0 .. n /\ DOMAIN read = 0 .. n /\ f[0] = read[0]
       /\ \A k \in 1 .. n : f[k - 1] = read[k - 1] => f[k] = read[k]
  BY <1>2, <1>7, <1>8, <1>11
<1>13. f[n] = read[n]
  BY <1>2, <1>12, OneCourse
<1>14. ReadExtents(exts, count, off) = f[n].data
  BY <1>1, <1>9 DEF ReadExtents, Start0
<1> QED  BY <1>1, <1>7, <1>8, <1>13, <1>14

(* Where a read is after k extents: it has the bytes up to there, and      *)
(* unless it is done these extents are behind it.                          *)
Reads(exts, count, off, k, r) ==
  /\ r \in Reading /\ off <= r.off /\ r.off + r.left = off + count
  /\ Len(r.data) = r.off - off
  /\ \A j \in 1 .. r.off - off : r.data[j] = ByteAt(exts, off + j - 1)
  /\ r.left = 0 \/ \A j \in 1 .. k : Behind(exts[j]) <= r.off

AllCovered(exts, count, off) ==
  \A o \in off .. off + count - 1 : \E j \in DOMAIN exts : Holds(exts[j], o)

LEMMA ReadsOn ==
  ASSUME NEW exts, ExtentsAreSorted(exts), NEW count \in Nat, NEW off \in Nat,
         AllCovered(exts, count, off), NEW k \in 1 .. Len(exts), NEW r,
         Reads(exts, count, off, k - 1, r)
  PROVE  Reads(exts, count, off, k, ReadExtent(r, exts[k]))
<1>1. exts \in Seq(Extent) /\ exts[k] \in Extent /\ k \in DOMAIN exts /\ k \in Nat
  BY DEF ExtentsAreSorted
<1>2. r \in Reading
  BY DEF Reads
<1>3. PICK left, at, data : left = r.left /\ at = r.off /\ data = r.data
  OBVIOUS
<1>4. left \in Nat /\ at \in Nat /\ data \in Seq(Int)
  BY <1>2, <1>3 DEF Reading
<1>5. PICK end : end = Behind(exts[k])
  OBVIOUS
<1>6. end \in Nat
  BY <1>1, <1>5, ExtentIs
<1>7. off <= at /\ at + left = off + count /\ Len(data) = at - off
      /\ \A j \in 1 .. at - off : data[j] = ByteAt(exts, off + j - 1)
  BY <1>3 DEF Reads
<1>8. CASE left = 0
  <2>1. ReadExtent(r, exts[k]) = r
    BY <1>1, <1>2, <1>3, <1>8, ReadExtentIs
  <2> QED  BY <1>3, <1>8, <2>1 DEF Reads
<1>9. CASE left # 0 /\ end <= at
  <2>1. ReadExtent(r, exts[k]) = r
    BY <1>1, <1>2, <1>3, <1>5, <1>6, <1>4, <1>9, ReadExtentIs
  <2>2. \A j \in 1 .. k - 1 : Behind(exts[j]) <= r.off
    BY <1>3, <1>9 DEF Reads
  <2>3. \A j \in 1 .. k : j \in 1 .. k - 1 \/ j = k
    BY <1>1
  <2>4. \A j \in 1 .. k : Behind(exts[j]) <= r.off
    BY <1>3, <1>5, <1>9, <2>2, <2>3
  <2> QED  BY <2>1, <2>4 DEF Reads
<1>10. CASE left # 0 /\ ~(end <= at)
  <2>1. left > 0 /\ at < end
    BY <1>4, <1>6, <1>10
  <2>2. at \in off .. off + count - 1
    BY <1>4, <1>7, <2>1
  <2>3. PICK m \in DOMAIN exts : Holds(exts[m], at)
    BY <2>2 DEF AllCovered
  <2>4. m \in Nat /\ exts[m] \in Extent /\ m \in 1 .. Len(exts)
    BY <1>1
  <2>5. First(exts[m]) \in Nat /\ Behind(exts[m]) \in Nat
    BY <2>4, ExtentIs
  <2>6. ~(m < k)
    <3> SUFFICES ASSUME m < k PROVE FALSE
      OBVIOUS
    <3>1. m \in 1 .. k - 1
      BY <1>1, <2>4
    <3>2. Behind(exts[m]) <= at
      BY <1>3, <1>10, <3>1 DEF Reads
    <3> QED  BY <1>4, <2>3, <2>5, <3>2 DEF Holds
  <2>7. ~(k < m)
    <3> SUFFICES ASSUME k < m PROVE FALSE
      OBVIOUS
    <3>1. Behind(exts[k]) <= First(exts[m])
      BY <1>1, Apart
    <3> QED  BY <1>4, <1>5, <1>6, <2>1, <2>3, <2>5, <3>1 DEF Holds
  <2>8. Holds(exts[k], at)
    BY <1>1, <2>3, <2>4, <2>6, <2>7
  <2>9. PICK e : e = exts[k]
    OBVIOUS
  <2>10. PICK s : s = ReadExtent(r, e)
    OBVIOUS
  <2>11. PICK n : n = Piece(r, e)
    OBVIOUS
  <2>12. PICK more : more = [i \in 1 .. n |-> e.d * BlockSize + at - First(e) + i - 1]
    OBVIOUS
  <2>13. /\ s \in Reading /\ n \in Nat /\ n <= left
         /\ s.left = left - n /\ s.off = at + n /\ s.data = data \o more
    BY <1>1, <1>2, <1>3, <2>1, <2>8, <2>9, <2>10, <2>11, <2>12, ReadExtentIs
  <2>14. n = IF end - at <= left THEN end - at ELSE left
    BY <1>3, <1>5, <2>9, <2>11 DEF Piece
  <2>15. First(e) \in Nat /\ e.d * BlockSize \in Nat
    BY <1>1, <2>9, ExtentIs
  <2>16. more \in Seq(Int) /\ Len(more) = n
    <3>1. \A i \in 1 .. n : e.d * BlockSize + at - First(e) + i - 1 \in Int
      BY <1>4, <2>15
    <3> QED  BY <2>12, <2>13, <3>1
  <2>17. \A i \in 1 .. n : more[i] = ByteAt(exts, at + i - 1)
    <3> SUFFICES ASSUME NEW i \in 1 .. n PROVE more[i] = ByteAt(exts, at + i - 1)
      OBVIOUS
    <3>1. at + i - 1 \in Int /\ at <= at + i - 1 /\ at + i - 1 < end
      BY <1>4, <1>6, <2>1, <2>13, <2>14
    <3>2. Holds(exts[k], at + i - 1)
      BY <1>4, <1>5, <1>6, <2>8, <2>9, <2>15, <3>1 DEF Holds
    <3>3. ByteAt(exts, at + i - 1) = e.d * BlockSize + (at + i - 1) - First(e)
      BY <1>1, <2>9, <3>1, <3>2, ByteIs
    <3>4. e.d * BlockSize + (at + i - 1) - First(e) = e.d * BlockSize + at - First(e) + i - 1
      BY <1>4, <2>13, <2>15
    <3> QED  BY <2>12, <3>3, <3>4
  <2>18. Len(s.data) = s.off - off
    <3>1. Len(data \o more) = Len(data) + Len(more)
      BY <1>4, <2>16, ConcatProperties
    <3>2. Len(s.data) = (at - off) + n
      BY <1>7, <2>13, <2>16, <3>1
    <3> QED  BY <1>4, <2>13, <3>2
  <2>19. ASSUME NEW j \in 1 .. s.off - off PROVE s.data[j] = ByteAt(exts, off + j - 1)
    <3>1. CASE j <= at - off
      <4>1. j \in 1 .. at - off /\ s.data[j] = data[j]
        BY <1>4, <1>7, <2>13, <2>16, <3>1
      <4> QED  BY <1>7, <4>1
    <3>2. CASE ~(j <= at - off)
      <4>1. PICK i : i = j - (at - off)
        OBVIOUS
      <4>2. i \in 1 .. n
        BY <1>4, <1>7, <2>13, <3>2, <4>1
      <4>3. s.data[j] = more[i]
        <5>1. j \in Nat /\ Len(data) = at - off /\ Len(data) \in Nat /\ j = Len(data) + i
          BY <1>4, <1>7, <4>1
        <5>2. (data \o more)[Len(data) + i] = more[i]
          BY <1>4, <2>16, <4>2
        <5> QED  BY <2>13, <5>1, <5>2
      <4>4. at + i - 1 = off + j - 1
        BY <1>4, <4>1
      <4> QED  BY <2>17, <4>2, <4>3, <4>4
    <3> QED  BY <3>1, <3>2
  <2>20. s.left = 0 \/ \A j \in 1 .. k : Behind(exts[j]) <= s.off
    <3> SUFFICES ASSUME s.left # 0, NEW j \in 1 .. k PROVE Behind(exts[j]) <= s.off
      OBVIOUS
    <3>1. n = end - at /\ s.off = end
      BY <1>4, <1>6, <2>13, <2>14
    <3>2. CASE j = k
      BY <1>5, <1>6, <3>1, <3>2
    <3>3. CASE j # k
      <4>1. j \in 1 .. k - 1
        BY <1>1, <3>3
      <4>2. Behind(exts[j]) <= at
        BY <1>3, <1>10, <4>1 DEF Reads
      <4>3. Behind(exts[j]) \in Nat
        <5>1. exts[j] \in Extent
          BY <1>1, <4>1
        <5> QED  BY <5>1, ExtentIs
      <4> QED  BY <1>4, <2>13, <4>2, <4>3
    <3> QED  BY <3>2, <3>3
  <2>21. off <= s.off /\ s.off + s.left = off + count
    BY <1>4, <1>7, <2>13
  <2> QED  BY <2>9, <2>10, <2>13, <2>18, <2>19, <2>20, <2>21 DEF Reads
<1> QED  BY <1>8, <1>9, <1>10

(* What a read within the extents gives, of any file.                      *)
LEMMA ReadGivesTheBytes ==
  ASSUME NEW exts, ExtentsAreSorted(exts), NEW count \in Nat, NEW off \in Nat,
         AllCovered(exts, count, off)
  PROVE  ReadExtents(exts, count, off) = [k \in 1 .. count |-> ByteAt(exts, off + k - 1)]
<1>1. exts \in Seq(Extent)
  BY DEF ExtentsAreSorted
<1>2. PICK n : n = Len(exts)
  OBVIOUS
<1>3. n \in Nat
  BY <1>1, <1>2
<1>4. PICK read : /\ read \in [0 .. n -> Reading] /\ read[0] = Start0(count, off)
                  /\ \A k \in 1 .. n : read[k] = ReadExtent(read[k - 1], exts[k])
                  /\ ReadExtents(exts, count, off) = read[n].data
  <2>1. PICK read : /\ read \in [0 .. Len(exts) -> Reading] /\ read[0] = Start0(count, off)
                    /\ \A k \in 1 .. Len(exts) : read[k] = ReadExtent(read[k - 1], exts[k])
                    /\ ReadExtents(exts, count, off) = read[Len(exts)].data
    BY <1>1, ReadCourse, Zenon
  <2> QED  BY <1>2, <2>1
<1>5. PICK Bad : Bad = {k \in 0 .. n : ~Reads(exts, count, off, k, read[k])}
  OBVIOUS
<1>6. Bad = {}
  <2> SUFFICES ASSUME Bad # {} PROVE FALSE
    OBVIOUS
  <2>1. Bad \in SUBSET Nat
    BY <1>5
  <2>2. PICK k \in Bad : \A x \in Bad : k <= x
    BY <2>1, MinIsElement
  <2>3. k \in 0 .. n /\ ~Reads(exts, count, off, k, read[k])
    BY <1>5, <2>2
  <2>4. k # 0
    <3>1. Reads(exts, count, off, 0, Start0(count, off))
      BY DEF Reads, Start0, Reading
    <3> QED  BY <1>4, <2>3, <3>1
  <2>5. k \in 1 .. n /\ k - 1 \in 0 .. n /\ ~(k <= k - 1)
    BY <1>3, <2>3, <2>4
  <2>6. Reads(exts, count, off, k - 1, read[k - 1])
    BY <1>5, <2>2, <2>5
  <2>7. Reads(exts, count, off, k, ReadExtent(read[k - 1], exts[k]))
    BY <1>2, <2>5, <2>6, ReadsOn
  <2> QED  BY <1>4, <2>3, <2>5, <2>7
<1>7. Reads(exts, count, off, n, read[n])
  BY <1>3, <1>5, <1>6
<1>8. PICK r : r = read[n]
  OBVIOUS
<1>9. r \in Reading /\ r.off \in Nat /\ r.left \in Nat /\ r.data \in Seq(Int)
  BY <1>7, <1>8 DEF Reads, Reading
<1>10. r.left = 0
  <2> SUFFICES ASSUME r.left # 0 PROVE FALSE
    OBVIOUS
  <2>1. off <= r.off /\ r.off + r.left = off + count
    BY <1>7, <1>8 DEF Reads
  <2>2. r.off \in off .. off + count - 1
    BY <1>9, <2>1
  <2>3. PICK j \in DOMAIN exts : Holds(exts[j], r.off)
    BY <2>2 DEF AllCovered
  <2>4. j \in 1 .. n /\ exts[j] \in Extent
    BY <1>1, <1>2
  <2>5. Behind(exts[j]) <= r.off
    BY <1>7, <1>8, <2>4 DEF Reads
  <2>6. Behind(exts[j]) \in Nat
    BY <2>4, ExtentIs
  <2> QED  BY <1>9, <2>3, <2>5, <2>6 DEF Holds
<1>11. r.off - off = count /\ Len(r.data) = count /\ \A j \in 1 .. count : r.data[j] = ByteAt(exts, off + j - 1)
  <2>1. r.off + r.left = off + count
    BY <1>7, <1>8 DEF Reads
  <2>2. r.off - off = count
    BY <1>9, <1>10, <2>1
  <2> QED  BY <1>7, <1>8, <2>2 DEF Reads
<1>12. r.data = [k \in 1 .. count |-> ByteAt(exts, off + k - 1)]
  BY <1>9, <1>11
<1> QED  BY <1>4, <1>8, <1>12
-----------------------------------------------------------------------------
(***************************************************************************)
(* The walk along a path.                                                  *)
(***************************************************************************)

Walker == [ino : Int, last : Int, ended : BOOLEAN]
PathIs(path) == path.abs \in BOOLEAN /\ \E Name : path.names \in Seq(Name)

(* A round is never at the inode 0 if it did not begin there.              *)
LEMMA WalkStepIs ==
  ASSUME NEW tree, TreeIsSound(tree), NEW links \in [Texts -> Int], NEW w \in Walker, NEW name
  PROVE  /\ WalkStep(tree, links, w, name) \in Walker
         /\ w.ino # 0 => WalkStep(tree, links, w, name).ino # 0
<1>1. w.ino \in Int /\ w.last \in Int /\ w.ended \in BOOLEAN
  BY DEF Walker
<1>2. PICK node : node = Node(tree, w.ino)
  OBVIOUS
<1>3. PICK next : next = FindInDir(tree, w.ino, name)
  OBVIOUS
<1>4. next \in Int
  <2>1. \/ next \in Nat \ {0} \/ next = 0 \/ next \in {-ENOTDIR, -ENOENT}
    BY <1>3, FindInDirIs
  <2> QED  BY <2>1 DEF ENOTDIR, ENOENT
<1>5. PICK to : to = links[node.to]
  OBVIOUS
<1>6. to \in Int
  <2>1. node.to \in Texts
    BY <1>2, NodeSound DEF NodeIsSound
  <2> QED  BY <1>5, <2>1
<1>7. WalkStep(tree, links, w, name) =
        IF w.ended THEN w
        ELSE IF LinkBits(node)
        THEN IF to = 0 THEN Ended(-ENOENT, w.last) ELSE [w EXCEPT !.ino = to]
        ELSE IF ~DirBit(node) THEN Ended(-ENOTDIR, w.ino)
        ELSE IF next = 0 THEN Ended(-ENOENT, w.ino)
        ELSE [ino |-> next, last |-> w.ino, ended |-> FALSE]
  BY <1>2, <1>3, <1>5 DEF WalkStep
<1>8. \A last \in Int : /\ Ended(-ENOENT, last) \in Walker /\ Ended(-ENOENT, last).ino # 0
                        /\ Ended(-ENOTDIR, last) \in Walker /\ Ended(-ENOTDIR, last).ino # 0
  BY DEF Ended, Walker, ENOENT, ENOTDIR
<1>9. [w EXCEPT !.ino = to] \in Walker /\ [w EXCEPT !.ino = to].ino = to
  BY <1>6 DEF Walker
<1>10. [ino |-> next, last |-> w.ino, ended |-> FALSE] \in Walker
  BY <1>1, <1>4 DEF Walker
<1>11. CASE w.ended
  BY <1>7, <1>11
<1>12. CASE ~w.ended /\ LinkBits(node)
  BY <1>1, <1>7, <1>8, <1>9, <1>12
<1>13. CASE ~w.ended /\ ~LinkBits(node)
  BY <1>1, <1>7, <1>8, <1>10, <1>13
<1> QED  BY <1>11, <1>12, <1>13

LEMMA FromIs ==
  ASSUME NEW path, NEW cwd \in Int
  PROVE  From(path, cwd) \in Int
BY DEF From, RootInode

Beginning(from) == [ino |-> from, last |-> from, ended |-> FALSE]

(* The rounds of the walk.                                                 *)
LEMMA WalkCourse ==
  ASSUME NEW tree, TreeIsSound(tree), NEW links \in [Texts -> Int], NEW cwd \in Int,
         NEW path, PathIs(path)
  PROVE  \E walk : /\ walk \in [0 .. Len(path.names) -> Walker]
                   /\ walk[0] = Beginning(From(path, cwd))
                   /\ \A k \in 1 .. Len(path.names) :
                        walk[k] = WalkStep(tree, links, walk[k - 1], path.names[k])
                   /\ WalkNames(tree, cwd, links, path) = walk[Len(path.names)]
<1>1. PICK names : names = path.names
  OBVIOUS
<1>2. PICK n : n = Len(names)
  OBVIOUS
<1>3. n \in Nat
  BY <1>1, <1>2 DEF PathIs
<1>4. PICK from : from = From(path, cwd)
  OBVIOUS
<1>5. PICK start : start = Beginning(from)
  OBVIOUS
<1>6. start \in Walker
  BY <1>4, <1>5, FromIs DEF Beginning, Walker
<1>7. PICK g : g = [k \in 1 .. n |-> [w \in Walker |-> WalkStep(tree, links, w, names[k])]]
  OBVIOUS
<1>8. g \in [1 .. n -> [Walker -> Walker]]
  BY <1>7, WalkStepIs
<1>9. PICK walk : Course(n, Walker, start, g, walk)
  BY <1>3, <1>6, <1>8, SomeCourse
<1>10. walk \in [0 .. n -> Walker] /\ walk[0] = start
  BY <1>9 DEF Course
<1>11. ASSUME NEW k \in 1 .. n PROVE walk[k] = WalkStep(tree, links, walk[k - 1], names[k])
  <2>1. k - 1 \in 0 .. n
    BY <1>3
  <2>2. walk[k - 1] \in Walker
    BY <1>10, <2>1
  <2> QED  BY <1>7, <1>9, <2>2 DEF Course
<1>12. PICK f : f = CHOOSE loop : loop = [k \in 0 .. n |->
                 IF k = 0 THEN start ELSE WalkStep(tree, links, loop[k - 1], names[k])]
  OBVIOUS
<1>13. walk = [k \in 0 .. n |-> IF k = 0 THEN start ELSE WalkStep(tree, links, walk[k - 1], names[k])]
  BY <1>3, <1>10, <1>11
<1>14. f = [k \in 0 .. n |-> IF k = 0 THEN start ELSE WalkStep(tree, links, f[k - 1], names[k])]
  BY <1>12, <1>13
<1>15. DOMAIN f = 0 .. n /\ DOMAIN walk = 0 .. n /\ f[0] = walk[0]
       /\ \A k \in 1 .. n : f[k - 1] = walk[k - 1] => f[k] = walk[k]
  BY <1>3, <1>10, <1>11, <1>14
<1>16. f[n] = walk[n]
  BY <1>3, <1>15, OneCourse
<1>17. WalkNames(tree, cwd, links, path) = f[n]
  BY <1>1, <1>2, <1>4, <1>5, <1>12 DEF WalkNames, Beginning
<1> QED  BY <1>1, <1>2, <1>4, <1>5, <1>10, <1>11, <1>16, <1>17

(* Where a whole walk ends.                                                *)
LEMMA WalkNamesIs ==
  ASSUME NEW tree, TreeIsSound(tree), NEW links \in [Texts -> Int], NEW cwd \in Int,
         NEW path, PathIs(path)
  PROVE  /\ WalkNames(tree, cwd, links, path) \in Walker
         /\ From(path, cwd) # 0 => WalkNames(tree, cwd, links, path).ino # 0
<1>1. PICK names, n : names = path.names /\ n = Len(names)
  OBVIOUS
<1>2. n \in Nat
  BY <1>1 DEF PathIs
<1>3. PICK walk : /\ walk \in [0 .. n -> Walker] /\ walk[0] = Beginning(From(path, cwd))
                  /\ \A k \in 1 .. n : walk[k] = WalkStep(tree, links, walk[k - 1], names[k])
                  /\ WalkNames(tree, cwd, links, path) = walk[n]
  <2>1. PICK walk : /\ walk \in [0 .. Len(path.names) -> Walker]
                    /\ walk[0] = Beginning(From(path, cwd))
                    /\ \A k \in 1 .. Len(path.names) :
                         walk[k] = WalkStep(tree, links, walk[k - 1], path.names[k])
                    /\ WalkNames(tree, cwd, links, path) = walk[Len(path.names)]
    BY WalkCourse, Zenon
  <2> QED  BY <1>1, <2>1
<1>4. ASSUME From(path, cwd) # 0 PROVE walk[n].ino # 0
  <2>1. PICK Bad : Bad = {k \in 0 .. n : walk[k].ino = 0}
    OBVIOUS
  <2>2. Bad = {}
    <3> SUFFICES ASSUME Bad # {} PROVE FALSE
      OBVIOUS
    <3>1. Bad \in SUBSET Nat
      BY <2>1
    <3>2. PICK k \in Bad : \A x \in Bad : k <= x
      BY <3>1, MinIsElement
    <3>3. k \in 0 .. n /\ walk[k].ino = 0
      BY <2>1, <3>2
    <3>4. k # 0
      BY <1>3, <1>4, <3>3 DEF Beginning
    <3>5. k \in 1 .. n /\ k - 1 \in 0 .. n /\ ~(k <= k - 1)
      BY <1>2, <3>3, <3>4
    <3>6. walk[k - 1].ino # 0 /\ walk[k - 1] \in Walker
      BY <1>3, <2>1, <3>2, <3>5
    <3>7. walk[k] = WalkStep(tree, links, walk[k - 1], names[k])
      BY <1>3, <3>5
    <3> QED  BY <3>3, <3>6, <3>7, WalkStepIs
  <2> QED  BY <1>2, <2>1, <2>2
<1> QED  BY <1>2, <1>3, <1>4

LEMMA LinksIs ==
  ASSUME NEW tree, TreeIsSound(tree), NEW cwd \in Int
  PROVE  Links(tree, cwd) \in [Texts -> Int]
<1>1. PICK S : S = [Texts -> Int]
  OBVIOUS
<1>2. PICK start : start = NoLinks(cwd)
  OBVIOUS
<1>3. start \in S
  BY <1>1, <1>2, FromIs DEF NoLinks, Loop
<1>4. PICK g : g = [n \in 1 .. Fuel - 1 |-> [links \in S |->
                 [text \in Texts |-> WalkNames(tree, cwd, links, text).ino]]]
  OBVIOUS
<1>5. ASSUME NEW links \in S, NEW text \in Texts PROVE WalkNames(tree, cwd, links, text).ino \in Int
  <2>1. PathIs(text)
    BY DEF PathIs, Texts
  <2>2. WalkNames(tree, cwd, links, text) \in Walker
    BY <1>1, <2>1, WalkNamesIs
  <2> QED  BY <2>2 DEF Walker
<1>6. g \in [1 .. Fuel - 1 -> [S -> S]]
  BY <1>1, <1>4, <1>5
<1>7. Fuel - 1 \in Nat
  BY DEF Fuel
<1>8. PICK course : Course(Fuel - 1, S, start, g, course)
  BY <1>3, <1>6, <1>7, SomeCourse
<1>9. course \in [0 .. Fuel - 1 -> S] /\ course[0] = start
  BY <1>8 DEF Course
<1>10. ASSUME NEW n \in 1 .. Fuel - 1
       PROVE  course[n] = [text \in Texts |-> WalkNames(tree, cwd, course[n - 1], text).ino]
  <2>1. n - 1 \in 0 .. Fuel - 1
    BY <1>7
  <2>2. course[n - 1] \in S
    BY <1>9, <2>1
  <2>3. g[n] = [links \in S |-> [text \in Texts |-> WalkNames(tree, cwd, links, text).ino]]
    BY <1>4
  <2>4. course[n] = g[n][course[n - 1]]
    BY <1>8 DEF Course
  <2> QED  BY <2>2, <2>3, <2>4
<1>11. PICK f : f = CHOOSE loop : loop = [n \in 0 .. Fuel - 1 |->
                 IF n = 0 THEN start ELSE [text \in Texts |-> WalkNames(tree, cwd, loop[n - 1], text).ino]]
  OBVIOUS
<1>12. course = [n \in 0 .. Fuel - 1 |->
                 IF n = 0 THEN start ELSE [text \in Texts |-> WalkNames(tree, cwd, course[n - 1], text).ino]]
  <2>1. \A n \in 0 .. Fuel - 1 : n = 0 \/ n \in 1 .. Fuel - 1
    BY <1>7
  <2> QED  BY <1>9, <1>10, <2>1
<1>13. f = [n \in 0 .. Fuel - 1 |->
                 IF n = 0 THEN start ELSE [text \in Texts |-> WalkNames(tree, cwd, f[n - 1], text).ino]]
  BY <1>11, <1>12
<1>14. DOMAIN f = 0 .. Fuel - 1 /\ DOMAIN course = 0 .. Fuel - 1 /\ f[0] = course[0]
  BY <1>7, <1>9, <1>13
<1>15. \A n \in 1 .. Fuel - 1 : f[n - 1] = course[n - 1] => f[n] = course[n]
  <2>1. \A n \in 1 .. Fuel - 1 : n \in 0 .. Fuel - 1 /\ n # 0
    BY <1>7
  <2> QED  BY <1>10, <1>13, <2>1
<1>16. f[Fuel - 1] = course[Fuel - 1]
  BY <1>7, <1>14, <1>15, OneCourse
<1>17. Links(tree, cwd) = f[Fuel - 1]
  BY <1>2, <1>11 DEF Links
<1> QED  BY <1>1, <1>7, <1>9, <1>16, <1>17

(* The text a walk gives a file, or an error.                              *)
LEMMA WalkFromIs ==
  ASSUME NEW tree, TreeIsSound(tree), NEW cwd \in Int, NEW path, PathIs(path)
  PROVE  /\ WalkFrom(tree, cwd, path) \in Walker
         /\ From(path, cwd) # 0 => WalkFrom(tree, cwd, path).ino # 0
<1>1. PICK links : links = Links(tree, cwd)
  OBVIOUS
<1>2. links \in [Texts -> Int]
  BY <1>1, LinksIs
<1>3. WalkFrom(tree, cwd, path) = WalkNames(tree, cwd, links, path)
  BY <1>1 DEF WalkFrom
<1> QED  BY <1>2, <1>3, WalkNamesIs
-----------------------------------------------------------------------------
(***************************************************************************)
(* What a path means, and that the walk finds it.                          *)
(***************************************************************************)

LEMMA MeantStepIs ==
  ASSUME NEW tree, TreeIsSound(tree), NEW i \in Int, NEW name
  PROVE  MeantStep(tree, i, name) \in Int
<1>1. PICK hits : hits = {e \in Range(tree[i].ents) : e.ino # 0 /\ e.name = name}
  OBVIOUS
<1>2. MeantStep(tree, i, name) =
        IF i < 0 THEN i
        ELSE IF i \notin DOMAIN tree \/ tree[i].kind # "dir" THEN -ENOTDIR
        ELSE IF hits = {} THEN -ENOENT ELSE (CHOOSE e \in hits : TRUE).ino
  BY <1>1 DEF MeantStep
<1>3. CASE i \in DOMAIN tree /\ hits # {}
  <2>1. tree[i].ents \in Seq(Entry)
    BY <1>3 DEF TreeIsSound, NodeIsSound
  <2>2. PICK e : e = CHOOSE h \in hits : TRUE
    OBVIOUS
  <2>3. e \in hits
    BY <1>3, <2>2
  <2>4. e \in Entry
    BY <1>1, <2>1, <2>3 DEF Range
  <2>5. e.ino \in Int
    BY <2>4 DEF Entry
  <2>6. (CHOOSE e_1 \in hits : TRUE).ino = e.ino
    BY <2>2
  <2> QED  BY <1>2, <2>5, <2>6 DEF ENOENT, ENOTDIR
<1>4. CASE ~(i \in DOMAIN tree /\ hits # {})
  BY <1>2, <1>4 DEF ENOENT, ENOTDIR
<1> QED  BY <1>3, <1>4

(* The inodes the names lead through.                                      *)
Leads(tree, at, names, meant) ==
  /\ meant \in [0 .. Len(names) -> Int] /\ meant[0] = at
  /\ \A k \in 1 .. Len(names) : meant[k] = MeantStep(tree, meant[k - 1], names[k])

LEMMA MeantCourse ==
  ASSUME NEW tree, TreeIsSound(tree), NEW at \in Int, NEW Name, NEW names \in Seq(Name)
  PROVE  \E meant : Leads(tree, at, names, meant) /\ Meant(tree, at, names) = meant[Len(names)]
<1>1. PICK n : n = Len(names)
  OBVIOUS
<1>2. n \in Nat
  BY <1>1
<1>3. PICK g : g = [k \in 1 .. n |-> [i \in Int |-> MeantStep(tree, i, names[k])]]
  OBVIOUS
<1>4. g \in [1 .. n -> [Int -> Int]]
  BY <1>3, MeantStepIs
<1>5. PICK meant : Course(n, Int, at, g, meant)
  BY <1>2, <1>4, SomeCourse
<1>6. meant \in [0 .. n -> Int] /\ meant[0] = at
  BY <1>5 DEF Course
<1>7. ASSUME NEW k \in 1 .. n PROVE meant[k] = MeantStep(tree, meant[k - 1], names[k])
  <2>1. k - 1 \in 0 .. n
    BY <1>2
  <2>2. meant[k - 1] \in Int
    BY <1>6, <2>1
  <2> QED  BY <1>3, <1>5, <2>2 DEF Course
<1>8. PICK f : f = CHOOSE loop : loop = [k \in 0 .. n |->
                 IF k = 0 THEN at ELSE MeantStep(tree, loop[k - 1], names[k])]
  OBVIOUS
<1>9. meant = [k \in 0 .. n |-> IF k = 0 THEN at ELSE MeantStep(tree, meant[k - 1], names[k])]
  BY <1>2, <1>6, <1>7
<1>10. f = [k \in 0 .. n |-> IF k = 0 THEN at ELSE MeantStep(tree, f[k - 1], names[k])]
  BY <1>8, <1>9
<1>11. DOMAIN f = 0 .. n /\ DOMAIN meant = 0 .. n /\ f[0] = meant[0]
       /\ \A k \in 1 .. n : f[k - 1] = meant[k - 1] => f[k] = meant[k]
  BY <1>2, <1>6, <1>7, <1>10
<1>12. f[n] = meant[n]
  BY <1>2, <1>11, OneCourse
<1>13. Meant(tree, at, names) = f[n]
  BY <1>1, <1>8 DEF Meant
<1> QED  BY <1>1, <1>6, <1>7, <1>12, <1>13 DEF Leads

(* The names of a path lead as far as those of a path it begins with.      *)
LEMMA MeantPrefix ==
  ASSUME NEW tree, TreeIsSound(tree), NEW at \in Int, NEW Name, NEW names \in Seq(Name),
         NEW meant, Leads(tree, at, names, meant), NEW prefix \in Seq(Name),
         Len(prefix) <= Len(names), \A k \in 1 .. Len(prefix) : prefix[k] = names[k]
  PROVE  Meant(tree, at, prefix) = meant[Len(prefix)]
<1>1. PICK n : n = Len(prefix)
  OBVIOUS
<1>2. n \in Nat /\ n <= Len(names) /\ Len(names) \in Nat
  BY <1>1
<1>3. PICK f : Leads(tree, at, prefix, f) /\ Meant(tree, at, prefix) = f[Len(prefix)]
  BY MeantCourse
<1>4. PICK g : g = [k \in 0 .. n |-> meant[k]]
  OBVIOUS
<1>5. DOMAIN f = 0 .. n /\ DOMAIN g = 0 .. n /\ f[0] = g[0]
  BY <1>1, <1>2, <1>3, <1>4 DEF Leads
<1>6. ASSUME NEW k \in 1 .. n, f[k - 1] = g[k - 1] PROVE f[k] = g[k]
  <2>1. k \in 0 .. n /\ k - 1 \in 0 .. n /\ k \in 1 .. Len(names)
    BY <1>2
  <2>2. g[k] = meant[k] /\ g[k - 1] = meant[k - 1]
    BY <1>4, <2>1
  <2>3. meant[k] = MeantStep(tree, meant[k - 1], names[k])
    BY <2>1 DEF Leads
  <2>4. f[k] = MeantStep(tree, f[k - 1], prefix[k])
    BY <1>1, <1>3 DEF Leads
  <2>5. prefix[k] = names[k]
    BY <1>1
  <2> QED  BY <1>6, <2>2, <2>3, <2>4, <2>5
<1>7. \A k \in 1 .. n : f[k - 1] = g[k - 1] => f[k] = g[k]
  BY <1>6
<1>8. f[n] = g[n]
  <2>1. n \in Nat
    BY <1>2
  <2>2. DOMAIN f = 0 .. n /\ DOMAIN g = 0 .. n /\ f[0] = g[0]
    BY <1>5
  <2>3. \A k \in 0 .. n : f[k] = g[k]
    BY ONLY <2>1, <2>2, <1>7, OneCourse
  <2>4. n \in 0 .. n
    BY <2>1
  <2> QED  BY <2>3, <2>4
<1>9. g[n] = meant[n]
  BY <1>2, <1>4
<1> QED  BY <1>1, <1>3, <1>8, <1>9

(* In a directory without removed entries a lookup finds what a name means. *)
LEMMA LookupFinds ==
  ASSUME NEW tree, TreeIsSound(tree), NEW i \in DOMAIN tree, tree[i].kind = "dir", NEW name,
         \A e \in Range(tree[i].ents) : e.ino # 0
  PROVE  /\ FindInDir(tree, i, name) = MeantStep(tree, i, name)
         /\ FindInDir(tree, i, name) # 0
<1>1. i \in Nat \ {0} /\ NodeIsSound(tree[i])
  BY DEF TreeIsSound
<1>2. PICK node : node = tree[i]
  OBVIOUS
<1>3. Node(tree, i) = node /\ NodeIsSound(node) /\ node.kind = "dir"
  BY <1>1, <1>2 DEF Node
<1>4. PICK ents : ents = node.ents
  OBVIOUS
<1>5. ents \in Seq(Entry) /\ \A k \in DOMAIN ents : ents[k] \in Range(ents) /\ ents[k].ino # 0
  BY <1>2, <1>3, <1>4 DEF NodeIsSound, Range
<1>6. Seen(node) = ents
  <2>1. {k \in DOMAIN node.ents : node.ents[k].ino = 0} = {}
    BY <1>4, <1>5
  <2>2. PICK m : m = Min({k \in DOMAIN node.ents : node.ents[k].ino = 0} \cup {Len(node.ents) + 1})
    OBVIOUS
  <2>3. Len(ents) \in Nat /\ {Len(ents) + 1} \in SUBSET Nat /\ {Len(ents) + 1} # {}
    BY <1>5
  <2>4. m = Min({Len(ents) + 1})
    BY <1>4, <2>1, <2>2
  <2>5. m \in {Len(ents) + 1}
    BY <2>3, <2>4, MinIsElement
  <2>6. m - 1 = Len(ents)
    BY <2>3, <2>5
  <2>7. Seen(node) = SubSeq(ents, 1, m - 1)
    BY <1>4, <2>2 DEF Seen
  <2> QED  BY <1>5, <2>6, <2>7
<1>7. PICK hits : hits = {k \in DOMAIN ents : ents[k].name = name}
  OBVIOUS
<1>8. PICK them : them = {e \in Range(ents) : e.ino # 0 /\ e.name = name}
  OBVIOUS
<1>9. FindInDir(tree, i, name) = IF hits = {} THEN -ENOENT ELSE ents[Min(hits)].ino
  <2>1. ReadDirents(node) = 1
    BY <1>3 DEF ReadDirents, DirBit
  <2> QED  BY <1>3, <1>6, <1>7, <2>1 DEF FindInDir
<1>10. MeantStep(tree, i, name) = IF them = {} THEN -ENOENT ELSE (CHOOSE e \in them : TRUE).ino
  <2>1. ~(i < 0)
    BY <1>1
  <2> QED  BY <1>2, <1>4, <1>8, <2>1 DEF MeantStep
<1>11. CASE hits = {}
  <2>1. them = {}
    BY <1>7, <1>8, <1>11 DEF Range
  <2> QED  BY <1>9, <1>10, <1>11, <2>1 DEF ENOENT
<1>12. CASE hits # {}
  <2>1. hits \in SUBSET Nat
    BY <1>5, <1>7
  <2>2. PICK k : k = Min(hits)
    OBVIOUS
  <2>3. k \in hits
    BY <1>12, <2>1, <2>2, MinIsElement
  <2>4. k \in DOMAIN ents /\ ents[k].name = name /\ ents[k].ino # 0 /\ ents[k] \in Range(ents)
    BY <1>5, <1>7, <2>3
  <2>5. \A e \in them : e = ents[k]
    <3> SUFFICES ASSUME NEW e \in them PROVE e = ents[k]
      OBVIOUS
    <3>1. PICK j \in DOMAIN ents : e = ents[j]
      BY <1>8 DEF Range
    <3>2. ents[j].ino # 0 /\ ents[j].name = name
      BY <1>8, <3>1
    <3>3. j = k
      BY <1>3, <1>4, <2>4, <3>2 DEF NodeIsSound
    <3> QED  BY <3>1, <3>3
  <2>6. ents[k] \in them
    BY <1>8, <2>4
  <2>7. (CHOOSE e \in them : TRUE) = ents[k]
    BY <2>5, <2>6
  <2> QED  BY <1>9, <1>10, <1>12, <2>2, <2>4, <2>6, <2>7
<1> QED  BY <1>11, <1>12

(* The walk finds what a plain path means.                                 *)
LEMMA WalkFinds ==
  ASSUME NEW tree, TreeIsSound(tree), NEW links \in [Texts -> Int], NEW cwd \in Int,
         NEW path, PathIs(path), NEW at, at = From(path, cwd), Plain(tree, at, path)
  PROVE  WalkNames(tree, cwd, links, path).ino = Meant(tree, at, path.names)
<1>1. PICK names, n : names = path.names /\ n = Len(names)
  OBVIOUS
<1>2. n \in Nat /\ at \in Int
  BY <1>1, FromIs DEF PathIs
<1>. PICK Name : names \in Seq(Name)
  BY <1>1 DEF PathIs
<1>3. PICK walk : /\ walk \in [0 .. n -> Walker] /\ walk[0] = Beginning(at)
                  /\ \A k \in 1 .. n : walk[k] = WalkStep(tree, links, walk[k - 1], names[k])
                  /\ WalkNames(tree, cwd, links, path) = walk[n]
  <2>1. PICK walk : /\ walk \in [0 .. Len(path.names) -> Walker]
                    /\ walk[0] = Beginning(From(path, cwd))
                    /\ \A k \in 1 .. Len(path.names) :
                         walk[k] = WalkStep(tree, links, walk[k - 1], path.names[k])
                    /\ WalkNames(tree, cwd, links, path) = walk[Len(path.names)]
    BY WalkCourse, Zenon
  <2> QED  BY <1>1, <2>1
<1>4. PICK meant : Leads(tree, at, names, meant) /\ Meant(tree, at, names) = meant[Len(names)]
  BY <1>2, MeantCourse
<1>5. ASSUME NEW k \in 0 .. n - 1
      PROVE  meant[k] \in DOMAIN tree /\ tree[meant[k]].kind = "dir"
             /\ \A e \in Range(tree[meant[k]].ents) : e.ino # 0
  <2>1. PICK prefix : prefix = SubSeq(names, 1, k)
    OBVIOUS
  <2>2. k \in 0 .. Len(names)
    BY <1>1, <1>2
  <2>3. prefix \in Seq(Name) /\ Len(prefix) = k /\ Len(prefix) <= Len(names)
        /\ \A j \in 1 .. Len(prefix) : prefix[j] = names[j]
    BY <1>2, <2>1, <2>2
  <2>4. Meant(tree, at, prefix) = meant[k]
    BY <1>2, <1>4, <2>3, MeantPrefix
  <2> QED  BY <1>1, <2>1, <2>4 DEF Plain
<1>6. PICK Bad : Bad = {k \in 0 .. n : ~(walk[k].ino = meant[k] /\ ~walk[k].ended)}
  OBVIOUS
<1>7. Bad = {}
  <2> SUFFICES ASSUME Bad # {} PROVE FALSE
    OBVIOUS
  <2>1. Bad \in SUBSET Nat
    BY <1>6
  <2>2. PICK k \in Bad : \A x \in Bad : k <= x
    BY <2>1, MinIsElement
  <2>3. k \in 0 .. n /\ ~(walk[k].ino = meant[k] /\ ~walk[k].ended)
    BY <1>6, <2>2
  <2>4. k # 0
    BY <1>3, <1>4, <2>3 DEF Beginning, Leads
  <2>5. k \in 1 .. n /\ k - 1 \in 0 .. n - 1 /\ k - 1 \in 0 .. n /\ ~(k <= k - 1)
    BY <1>2, <2>3, <2>4
  <2>6. PICK w : w = walk[k - 1]
    OBVIOUS
  <2>7. PICK i : i = meant[k - 1]
    OBVIOUS
  <2>8. w.ino = i /\ ~w.ended
    BY <1>6, <2>2, <2>5, <2>6, <2>7
  <2>9. i \in DOMAIN tree /\ tree[i].kind = "dir" /\ \A e \in Range(tree[i].ents) : e.ino # 0
    BY <1>5, <2>5, <2>7
  <2>10. FindInDir(tree, i, names[k]) = MeantStep(tree, i, names[k]) /\ FindInDir(tree, i, names[k]) # 0
    BY <2>9, LookupFinds
  <2>11. meant[k] = MeantStep(tree, i, names[k])
    BY <1>1, <1>4, <2>5, <2>7 DEF Leads
  <2>12. ~LinkBits(Node(tree, i)) /\ DirBit(Node(tree, i))
    BY <2>9 DEF LinkBits, DirBit, Node
  <2>13. WalkStep(tree, links, w, names[k]) = [ino |-> meant[k], last |-> i, ended |-> FALSE]
    BY <2>8, <2>10, <2>11, <2>12 DEF WalkStep
  <2>14. walk[k] = WalkStep(tree, links, w, names[k])
    BY <1>3, <2>5, <2>6
  <2> QED  BY <2>3, <2>13, <2>14
<1>8. n \in 0 .. n
  BY <1>2
<1>9. walk[n].ino = meant[n]
  BY <1>6, <1>7, <1>8
<1> QED  BY <1>1, <1>3, <1>4, <1>9
-----------------------------------------------------------------------------
(***************************************************************************)
(* Directories that are opened: what the struct holds is a directory with  *)
(* its parent, and it is left unfilled only for a block device.            *)
(***************************************************************************)

IsOpened(tree, ino, par) ==
  /\ ino \in DOMAIN tree /\ tree[ino].kind = "dir"
  /\ par = FindInDir(tree, ino, "..") /\ par \in Nat \ {0}

Opened(tree, cwd, path, d) ==
  /\ d.r \in Int /\ d.ino \in Int /\ d.par \in Int /\ d.filled \in BOOLEAN
  /\ d.filled => IsOpened(tree, d.ino, d.par)
  /\ (~d.filled /\ d.r >= 0 /\ From(path, cwd) # 0) =>
       Node(tree, FindInode(tree, cwd, path)).kind = "blockdev"

LEMMA OpenDirIs ==
  ASSUME NEW tree, TreeIsSound(tree), NEW cwd \in Int, NEW path, PathIs(path)
  PROVE  Opened(tree, cwd, path, OpenDir(tree, cwd, path))
<1>1. PICK w : w = WalkFrom(tree, cwd, path)
  OBVIOUS
<1>2. w.ino \in Int /\ w.last \in Int /\ (From(path, cwd) # 0 => w.ino # 0)
  <2>1. w \in Walker /\ (From(path, cwd) # 0 => w.ino # 0)
    BY <1>1, WalkFromIs
  <2> QED  BY <2>1 DEF Walker
<1>3. PICK node, par, up : node = Node(tree, w.ino) /\ par = ParentOf(tree, w) /\ up = FindInDir(tree, w.ino, "..")
  OBVIOUS
<1>4. \/ up \in Nat \ {0}
      \/ up = 0 /\ node.kind = "blockdev"
      \/ up \in {-ENOTDIR, -ENOENT}
  BY <1>3, FindInDirIs
<1>5. up \in Int
  BY <1>4 DEF ENOTDIR, ENOENT
<1>6. par = (IF LinkBits(node) THEN w.last ELSE up) /\ par \in Int
  BY <1>2, <1>3, <1>5 DEF ParentOf
<1>7. ReadDirents(node) = IF node.kind = "dir" THEN 1 ELSE IF node.kind = "blockdev" THEN 0 ELSE -20
  BY DEF ReadDirents, DirBit, ENOTDIR
<1>8. PICK d : d = OpenDir(tree, cwd, path)
  OBVIOUS
<1>9. d = IF w.ino <= 0 THEN [Unfilled EXCEPT !.r = w.ino]
          ELSE IF par < 0 THEN [Unfilled EXCEPT !.r = -ENOENT]
          ELSE IF ReadDirents(node) <= 0 THEN [Unfilled EXCEPT !.r = ReadDirents(node)]
          ELSE [r |-> 0, ino |-> w.ino, par |-> par, filled |-> TRUE]
  BY <1>1, <1>3, <1>8 DEF OpenDir, OpenDirAt
<1>10. \A r : /\ [Unfilled EXCEPT !.r = r].r = r /\ [Unfilled EXCEPT !.r = r].ino = 0
              /\ [Unfilled EXCEPT !.r = r].par = 0 /\ [Unfilled EXCEPT !.r = r].filled = FALSE
  BY DEF Unfilled
<1>11. CASE w.ino <= 0
  <2>1. d.r = w.ino /\ d.ino = 0 /\ d.par = 0 /\ d.filled = FALSE
    BY <1>9, <1>10, <1>11
  <2>2. ~(d.r >= 0 /\ From(path, cwd) # 0)
    BY <1>2, <1>11, <2>1
  <2>3. d.r \in Int /\ d.ino \in Int /\ d.par \in Int
    BY <1>2, <2>1
  <2> QED  BY <1>8, <2>1, <2>2, <2>3 DEF Opened
<1>12. CASE ~(w.ino <= 0) /\ par < 0
  <2>1. d.r = -2 /\ d.ino = 0 /\ d.par = 0 /\ d.filled = FALSE
    BY <1>9, <1>10, <1>12 DEF ENOENT
  <2>2. d.r \in Int /\ ~(d.r >= 0) /\ d.ino \in Int /\ d.par \in Int
    BY <2>1
  <2> QED  BY <1>8, <2>1, <2>2 DEF Opened
<1>13. CASE ~(w.ino <= 0) /\ ~(par < 0) /\ node.kind # "dir"
  <2>1. ReadDirents(node) <= 0
    BY <1>7, <1>13
  <2>2. d.r = ReadDirents(node) /\ d.ino = 0 /\ d.par = 0 /\ d.filled = FALSE
    BY <1>9, <1>10, <1>13, <2>1
  <2>3. d.r \in Int /\ (d.r >= 0 => node.kind = "blockdev")
    BY <1>7, <1>13, <2>2
  <2>4. node = Node(tree, FindInode(tree, cwd, path))
    BY <1>1, <1>3 DEF FindInode
  <2>5. d.ino \in Int /\ d.par \in Int
    BY <2>2
  <2> QED  BY <1>8, <2>2, <2>3, <2>4, <2>5 DEF Opened
<1>14. CASE ~(w.ino <= 0) /\ ~(par < 0) /\ node.kind = "dir"
  <2>1. d = [r |-> 0, ino |-> w.ino, par |-> par, filled |-> TRUE]
    BY <1>7, <1>9, <1>14
  <2>2. w.ino \in DOMAIN tree /\ tree[w.ino].kind = "dir"
    BY <1>3, <1>14, DirIsThere
  <2>3. par = up /\ up \in Nat \ {0}
    BY <1>4, <1>5, <1>6, <1>14 DEF LinkBits, ENOENT, ENOTDIR
  <2>4. IsOpened(tree, w.ino, par)
    BY <1>3, <2>2, <2>3 DEF IsOpened
  <2>5. d.r = 0 /\ d.ino = w.ino /\ d.par = par /\ d.filled = TRUE
    BY <2>1
  <2>6. d.r \in Int /\ d.ino \in Int /\ d.par \in Int
    BY <1>2, <1>6, <2>5
  <2> QED  BY <1>8, <2>4, <2>5, <2>6 DEF Opened
<1> QED  BY <1>11, <1>12, <1>13, <1>14

(* The directory above one that has a sound entry "..".                    *)
LEMMA OpenUpIs ==
  ASSUME NEW tree, TreeIsSound(tree), NEW i, NEW up,
         IsOpened(tree, i, up), NEW above, IsOpened(tree, up, above)
  PROVE  OpenDir(tree, i, Up) = [r |-> 0, ino |-> up, par |-> above, filled |-> TRUE]
<1>1. i \in Nat \ {0} /\ up \in Nat \ {0} /\ above \in Nat \ {0} /\ i \in Int
  BY DEF IsOpened, TreeIsSound
<1>2. PathIs(Up) /\ Len(Up.names) = 1 /\ Up.names[1] = ".." /\ From(Up, i) = i
  <2>1. Up.abs = FALSE /\ Up.names = <<"..">>
    BY DEF Up
  <2>2. \E Name : <<"..">> \in Seq(Name)
    <3>1. <<"..">> \in Seq({".."})
      OBVIOUS
    <3> QED  BY <3>1
  <2>3. Len(<<"..">>) = 1 /\ <<"..">>[1] = ".."
    OBVIOUS
  <2>4. FALSE \in BOOLEAN
    OBVIOUS
  <2> QED  BY <2>1, <2>2, <2>3, <2>4 DEF PathIs, From
<1>3. PICK links : links = Links(tree, i)
  OBVIOUS
<1>4. links \in [Texts -> Int]
  BY <1>1, <1>3, LinksIs
<1>5. PICK walk : /\ walk \in [0 .. Len(Up.names) -> Walker]
                  /\ walk[0] = Beginning(From(Up, i))
                  /\ \A k \in 1 .. Len(Up.names) : walk[k] = WalkStep(tree, links, walk[k - 1], Up.names[k])
                  /\ WalkNames(tree, i, links, Up) = walk[Len(Up.names)]
  BY <1>1, <1>2, <1>4, WalkCourse, Zenon
<1>6. walk[1] = WalkStep(tree, links, Beginning(i), "..") /\ WalkNames(tree, i, links, Up) = walk[1]
  <2>1. 1 \in 1 .. Len(Up.names) /\ 1 - 1 = 0
    BY <1>2
  <2> QED  BY <1>2, <1>5, <2>1
<1>7. /\ Node(tree, i) = tree[i] /\ tree[i].kind = "dir" /\ FindInDir(tree, i, "..") = up
      /\ Node(tree, up) = tree[up] /\ tree[up].kind = "dir" /\ FindInDir(tree, up, "..") = above
  BY DEF IsOpened, Node
<1>8. walk[1] = [ino |-> up, last |-> i, ended |-> FALSE]
  BY <1>1, <1>6, <1>7 DEF WalkStep, Beginning, LinkBits, DirBit
<1>9. PICK w : w = WalkFrom(tree, i, Up)
  OBVIOUS
<1>10. w.ino = up
  BY <1>3, <1>6, <1>8, <1>9 DEF WalkFrom
<1>11. ParentOf(tree, w) = above
  BY <1>7, <1>10 DEF ParentOf, LinkBits
<1>12. ReadDirents(Node(tree, w.ino)) = 1
  BY <1>7, <1>10 DEF ReadDirents, DirBit
<1>13. OpenDir(tree, i, Up) = OpenDirAt(tree, w)
  BY <1>9 DEF OpenDir
<1> QED  BY <1>1, <1>10, <1>11, <1>12, <1>13 DEF OpenDirAt
-----------------------------------------------------------------------------
(***************************************************************************)
(* getcwd.                                                                 *)
(***************************************************************************)

IsNamed(tree) ==
  /\ TreeIsSound(tree)
  /\ \A i \in DOMAIN tree : \A e \in Range(tree[i].ents) : e.name \in DOMAIN NameLen

LEMMA NameIs ==
  ASSUME NEW name \in DOMAIN NameLen
  PROVE  name \in STRING /\ NameLen[name] \in Nat
BY FilesAssumption

(* A name for what is seen in a directory means just that.                 *)
LEMMA NameInDirIs ==
  ASSUME NEW tree, IsNamed(tree), NEW dir, NEW target
  PROVE  /\ NameInDir(tree, dir, target) \in DOMAIN NameLen
         /\ (dir \in Directories(tree) /\ IsSeen(tree, dir, target)) =>
              MeantStep(tree, dir, NameInDir(tree, dir, target)) = target
<1>1. TreeIsSound(tree)
  BY DEF IsNamed
<1>2. PICK node, self : node = Node(tree, dir) /\ self = NameInDir(tree, dir, target)
  OBVIOUS
<1>3. NodeIsSound(node)
  BY <1>1, <1>2, NodeSound
<1>4. PICK hits : hits = {k \in DOMAIN Seen(node) : Seen(node)[k].ino = target}
  OBVIOUS
<1>5. self = IF ReadDirents(node) <= 0 \/ hits = {} THEN "" ELSE Seen(node)[Min(hits)].name
  BY <1>2, <1>4 DEF NameInDir
<1>6. "" \in DOMAIN NameLen
  BY FilesAssumption
<1>7. Seen(node) \in Seq(Entry)
      /\ \A k \in DOMAIN Seen(node) :
           k \in DOMAIN node.ents /\ Seen(node)[k] = node.ents[k] /\ node.ents[k].ino # 0
  BY <1>3, SeenIs
<1>8. hits \in SUBSET Nat
  BY <1>4, <1>7
<1>9. ReadDirents(node) = IF node.kind = "dir" THEN 1 ELSE IF node.kind = "blockdev" THEN 0 ELSE -20
  BY DEF ReadDirents, DirBit, ENOTDIR
<1>10. CASE node.kind # "dir"
  <2>1. ReadDirents(node) <= 0
    BY <1>9, <1>10
  <2>2. dir \notin Directories(tree)
    BY <1>2, <1>10 DEF Directories, Node
  <2> QED  BY <1>2, <1>5, <1>6, <2>1, <2>2
<1>11. CASE node.kind = "dir" /\ hits = {}
  <2>1. dir \in DOMAIN tree /\ node = tree[dir]
    BY <1>2, <1>11, DirIsThere
  <2>2. ~IsSeen(tree, dir, target)
    BY <1>4, <1>11, <2>1 DEF IsSeen
  <2> QED  BY <1>2, <1>5, <1>6, <1>11, <2>2
<1>12. CASE node.kind = "dir" /\ hits # {}
  <2>1. dir \in DOMAIN tree /\ node = tree[dir]
    BY <1>2, <1>12, DirIsThere
  <2>2. PICK k : k = Min(hits)
    OBVIOUS
  <2>3. k \in hits
    BY <1>8, <1>12, <2>2, MinIsElement
  <2>4. k \in DOMAIN Seen(node) /\ Seen(node)[k].ino = target
    BY <1>4, <2>3
  <2>5. k \in DOMAIN node.ents /\ Seen(node)[k] = node.ents[k] /\ node.ents[k].ino # 0
    BY <1>7, <2>4
  <2>6. ~(ReadDirents(node) <= 0)
    BY <1>9, <1>12
  <2>7. self = node.ents[k].name
    BY <1>5, <1>12, <2>2, <2>5, <2>6
  <2>8. node.ents[k] \in Range(node.ents)
    BY <2>5 DEF Range
  <2>9. self \in DOMAIN NameLen
    BY <2>1, <2>7, <2>8 DEF IsNamed
  <2>10. PICK them : them = {e \in Range(node.ents) : e.ino # 0 /\ e.name = self}
    OBVIOUS
  <2>11. node.ents[k] \in them
    BY <2>5, <2>7, <2>8, <2>10
  <2>12. \A e \in them : e = node.ents[k]
    <3> SUFFICES ASSUME NEW e \in them PROVE e = node.ents[k]
      OBVIOUS
    <3>1. PICK j \in DOMAIN node.ents : e = node.ents[j]
      BY <2>10 DEF Range
    <3>2. node.ents[j].ino # 0 /\ node.ents[j].name = node.ents[k].name
      BY <2>7, <2>10, <3>1
    <3>3. j = k
      BY <1>3, <2>5, <3>2 DEF NodeIsSound
    <3> QED  BY <3>1, <3>3
  <2>13. (CHOOSE e \in them : TRUE) = node.ents[k] /\ them # {}
    BY <2>11, <2>12
  <2>14. dir \in Nat \ {0}
    BY <1>1, <2>1 DEF TreeIsSound
  <2>15. MeantStep(tree, dir, self) = IF them = {} THEN -ENOENT ELSE (CHOOSE e \in them : TRUE).ino
    <3>1. ~(dir < 0)
      BY <2>14
    <3> QED  BY <1>12, <2>1, <2>10, <3>1 DEF MeantStep
  <2>16. MeantStep(tree, dir, self) = target
    BY <2>4, <2>5, <2>13, <2>15
  <2> QED  BY <1>2, <2>9, <2>16
<1> QED  BY <1>10, <1>11, <1>12

Naming == [text : Seq(STRING), off : Int, over : BOOLEAN, stale : BOOLEAN]

LEMMA DirNameIs ==
  ASSUME NEW tree, TreeIsSound(tree), NEW names, IsNamed(names), NEW s \in Int,
         NEW named \in [DirAt -> Naming], NEW dir \in DirAt
  PROVE  /\ DirName(tree, names, s, dir, named) \in Naming
         /\ DirName(tree, names, s, dir, named).stale => DirName(tree, names, s, dir, named).off = s
<1>1. dir.ino \in Int /\ dir.par \in Int
  BY DEF DirAt
<1>2. PICK par, self : par = OpenDir(tree, dir.ino, Up) /\ self = NameInDir(names, dir.par, dir.ino)
  OBVIOUS
<1>3. par.r \in Int /\ par.ino \in Int /\ par.par \in Int
  <2>1. PathIs(Up)
    <3>1. <<"..">> \in Seq({".."})
      OBVIOUS
    <3> QED  BY <3>1 DEF PathIs, Up
  <2> QED  BY <1>1, <1>2, <2>1, OpenDirIs DEF Opened
<1>4. self \in STRING /\ NameLen[self] \in Nat
  BY <1>2, NameInDirIs, NameIs
<1>5. PICK up : up = named[[ino |-> par.ino, par |-> par.par]]
  OBVIOUS
<1>6. up \in Naming
  <2>1. [ino |-> par.ino, par |-> par.par] \in DirAt
    BY <1>3 DEF DirAt
  <2> QED  BY <1>5, <2>1
<1>7. up.text \in Seq(STRING) /\ up.off \in Int /\ up.over \in BOOLEAN
  BY <1>6 DEF Naming
<1>8. PICK off, text : off = up.off + NameLen[self] /\ text = IF up.off = s THEN up.text ELSE Append(up.text, self)
  OBVIOUS
<1>9. off \in Int /\ off + 1 \in Int /\ text \in Seq(STRING)
  <2>1. off \in Int /\ off + 1 \in Int
    BY <1>4, <1>7, <1>8
  <2>2. Append(up.text, self) \in Seq(STRING)
    BY <1>4, <1>7
  <2>3. text \in Seq(STRING)
    BY <1>7, <1>8, <2>2
  <2> QED  BY <2>1, <2>3
<1>10. PICK r : r = DirName(tree, names, s, dir, named)
  OBVIOUS
<1>11. r = IF dir.ino = RootInode THEN [text |-> <<>>, off |-> 1, over |-> s < 1, stale |-> FALSE]
           ELSE IF par.r < 0 THEN [text |-> <<>>, off |-> par.r, over |-> FALSE, stale |-> FALSE]
           ELSE IF off = s - 1 THEN [text |-> text, off |-> s, over |-> up.over, stale |-> TRUE]
           ELSE [text |-> text, off |-> off + 1, over |-> up.over \/ up.off < 0 \/ off + 1 >= s, stale |-> FALSE]
  BY <1>2, <1>5, <1>8, <1>10 DEF DirName, NameUnder, NameBehind
<1>12. <<>> \in Seq(STRING)
  OBVIOUS
<1>13. CASE dir.ino = RootInode
  BY <1>10, <1>11, <1>12, <1>13 DEF Naming
<1>14. CASE dir.ino # RootInode /\ par.r < 0
  BY <1>3, <1>10, <1>11, <1>12, <1>14 DEF Naming
<1>15. CASE dir.ino # RootInode /\ ~(par.r < 0) /\ off = s - 1
  <2>1. r = [text |-> text, off |-> s, over |-> up.over, stale |-> TRUE]
    BY <1>11, <1>15
  <2> QED  BY <1>7, <1>9, <1>10, <2>1 DEF Naming
<1>16. CASE dir.ino # RootInode /\ ~(par.r < 0) /\ off # s - 1
  <2>1. r = [text |-> text, off |-> off + 1, over |-> up.over \/ up.off < 0 \/ off + 1 >= s, stale |-> FALSE]
    BY <1>11, <1>16
  <2> QED  BY <1>9, <1>10, <2>1 DEF Naming
<1> QED  BY <1>13, <1>14, <1>15, <1>16

(* The calls of sys_get_dir_name in each other.                            *)
Names(tree, names, s, named) ==
  /\ named \in [0 .. MaxDepth -> [DirAt -> Naming]]
  /\ \A k \in 1 .. MaxDepth : \A d \in DirAt : named[k][d] = DirName(tree, names, s, d, named[k - 1])

LEMMA NameCourse ==
  ASSUME NEW tree, TreeIsSound(tree), NEW names, IsNamed(names), NEW s \in Int
  PROVE  \E named : /\ Names(tree, names, s, named)
                    /\ \A dir \in DirAt : DirNamed(tree, names, s, dir) = named[MaxDepth][dir]
<1>1. PICK S : S = [DirAt -> Naming]
  OBVIOUS
<1>2. PICK n : n = MaxDepth
  OBVIOUS
<1>3. n \in Nat
  BY <1>2, FilesAssumption
<1>4. PICK start : start = [d \in DirAt |-> TooDeep]
  OBVIOUS
<1>5. start \in S
  <2>1. TooDeep \in Naming
    <3>1. <<>> \in Seq(STRING) /\ TRUE \in BOOLEAN /\ FALSE \in BOOLEAN /\ Loop \in Int
      BY DEF Loop
    <3> QED  BY <3>1 DEF TooDeep, Naming
  <2> QED  BY <1>1, <1>4, <2>1
<1>6. PICK g : g = [k \in 1 .. n |-> [named \in S |-> [d \in DirAt |-> DirName(tree, names, s, d, named)]]]
  OBVIOUS
<1>7. g \in [1 .. n -> [S -> S]]
  BY <1>1, <1>6, DirNameIs
<1>8. PICK named : Course(n, S, start, g, named)
  BY <1>3, <1>5, <1>7, SomeCourse
<1>9. named \in [0 .. n -> S] /\ named[0] = start
  BY <1>8 DEF Course
<1>10. ASSUME NEW k \in 1 .. n
       PROVE  named[k] = [d \in DirAt |-> DirName(tree, names, s, d, named[k - 1])]
  <2>1. k - 1 \in 0 .. n
    BY <1>3
  <2>2. named[k - 1] \in S
    BY <1>9, <2>1
  <2>3. g[k] = [x \in S |-> [d \in DirAt |-> DirName(tree, names, s, d, x)]]
    BY <1>6
  <2>4. named[k] = g[k][named[k - 1]]
    BY <1>8 DEF Course
  <2> QED  BY <2>2, <2>3, <2>4
<1>11. PICK f : f = CHOOSE loop : loop = [k \in 0 .. n |->
                 IF k = 0 THEN start ELSE [d \in DirAt |-> DirName(tree, names, s, d, loop[k - 1])]]
  OBVIOUS
<1>12. named = [k \in 0 .. n |->
                 IF k = 0 THEN start ELSE [d \in DirAt |-> DirName(tree, names, s, d, named[k - 1])]]
  <2>1. \A k \in 0 .. n : k = 0 \/ k \in 1 .. n
    BY <1>3
  <2> QED  BY <1>9, <1>10, <2>1
<1>13. f = [k \in 0 .. n |-> IF k = 0 THEN start ELSE [d \in DirAt |-> DirName(tree, names, s, d, f[k - 1])]]
  BY <1>11, <1>12
<1>14. DOMAIN f = 0 .. n /\ DOMAIN named = 0 .. n /\ f[0] = named[0]
  BY <1>3, <1>9, <1>13
<1>15. \A k \in 1 .. n : f[k - 1] = named[k - 1] => f[k] = named[k]
  <2>1. \A k \in 1 .. n : k \in 0 .. n /\ k # 0
    BY <1>3
  <2> QED  BY <1>10, <1>13, <2>1
<1>16. f[n] = named[n]
  BY <1>3, <1>14, <1>15, OneCourse
<1>17. \A dir : DirNamed(tree, names, s, dir) = f[n][dir]
  BY <1>2, <1>4, <1>11 DEF DirNamed
<1>18. Names(tree, names, s, named)
  BY <1>1, <1>2, <1>9, <1>10 DEF Names
<1> QED  BY <1>2, <1>16, <1>17, <1>18

(* What a name of a directory should be: with room to spare nothing is     *)
(* written behind the buffer, no struct is lost, and the text leads back.  *)
(* room is how far the text goes in any buffer.                            *)
LeadsBack(tree, ino, s, g, room) ==
  /\ room \in Nat /\ g.text \in Seq(STRING)
  /\ s > room => ~g.over /\ ~g.stale /\ g.off = room /\ Meant(tree, RootInode, g.text) = ino

AsOpened(tree, i) == [ino |-> i, par |-> FindInDir(tree, i, "..")]

(* One more name leads one directory further down.                         *)
LEMMA MeantAppend ==
  ASSUME NEW tree, TreeIsSound(tree), NEW at \in Int, NEW text \in Seq(STRING), NEW name \in STRING
  PROVE  Meant(tree, at, Append(text, name)) = MeantStep(tree, Meant(tree, at, text), name)
<1>1. PICK whole : whole = Append(text, name)
  OBVIOUS
<1>2. PICK n : n = Len(text)
  OBVIOUS
<1>3. n \in Nat /\ whole \in Seq(STRING) /\ Len(whole) = n + 1 /\ whole[n + 1] = name
      /\ \A k \in 1 .. n : text[k] = whole[k]
  <2>1. n \in Nat
    BY <1>2
  <2>2. /\ whole \in Seq(STRING) /\ Len(whole) = Len(text) + 1
        /\ \A k \in 1 .. Len(text) : whole[k] = text[k]
        /\ whole[Len(text) + 1] = name
    BY <1>1, AppendProperties
  <2> QED  BY ONLY <1>2, <2>1, <2>2
<1>4. PICK meant : Leads(tree, at, whole, meant) /\ Meant(tree, at, whole) = meant[Len(whole)]
  BY <1>3, MeantCourse
<1>5. Meant(tree, at, text) = meant[n]
  BY <1>2, <1>3, <1>4, MeantPrefix
<1>6. n + 1 \in 1 .. Len(whole) /\ n + 1 - 1 = n
  BY <1>3
<1>7. meant[n + 1] = MeantStep(tree, meant[n], name)
  <2>1. PICK m : m = n + 1
    OBVIOUS
  <2>2. m \in 1 .. Len(whole) /\ m - 1 = n
    BY <1>3, <1>6, <2>1
  <2>3. meant[m] = MeantStep(tree, meant[m - 1], whole[m])
    BY <1>4, <2>2 DEF Leads
  <2> QED  BY <1>3, <2>1, <2>2, <2>3
<1> QED  BY <1>1, <1>3, <1>4, <1>5, <1>7

LEMMA NoNamesMeanTheRoot ==
  ASSUME NEW tree, TreeIsSound(tree)
  PROVE  Meant(tree, RootInode, <<>>) = RootInode
<1>1. <<>> \in Seq(STRING) /\ Len(<<>>) = 0 /\ RootInode \in Int
  BY DEF RootInode
<1>2. PICK meant : Leads(tree, RootInode, <<>>, meant) /\ Meant(tree, RootInode, <<>>) = meant[Len(<<>>)]
  BY <1>1, MeantCourse
<1> QED  BY <1>1, <1>2 DEF Leads

(* One level: s and b are buffers, up and upRoom what the inner call made  *)
(* of the parent in the one and how far it went in the other.              *)
LEMMA OneNameMore ==
  ASSUME NEW tree, IsNamed(tree), NEW s \in Int, NEW b \in Int,
         NEW named \in [DirAt -> Naming], NEW wide \in [DirAt -> Naming],
         NEW i, NEW up, i # RootInode, IsOpened(tree, i, up), IsSeen(tree, up, i),
         NEW above, IsOpened(tree, up, above),
         LeadsBack(tree, up, s, named[AsOpened(tree, up)], wide[AsOpened(tree, up)].off)
  PROVE  LeadsBack(tree, i, s, DirName(tree, tree, s, AsOpened(tree, i), named),
                   DirName(tree, tree, b, AsOpened(tree, i), wide).off)
<1>1. TreeIsSound(tree) /\ up \in Directories(tree) /\ AsOpened(tree, i) = [ino |-> i, par |-> up]
      /\ AsOpened(tree, up) = [ino |-> up, par |-> above] /\ up \in Int
  BY DEF IsNamed, IsOpened, Directories, AsOpened
<1>2. PICK self : self = NameInDir(tree, up, i)
  OBVIOUS
<1>3. self \in STRING /\ NameLen[self] \in Nat /\ MeantStep(tree, up, self) = i
  BY <1>1, <1>2, NameInDirIs, NameIs
<1>4. OpenDir(tree, i, Up) = [r |-> 0, ino |-> up, par |-> above, filled |-> TRUE]
  BY <1>1, OpenUpIs
<1>5. PICK len : len = NameLen[self]
  OBVIOUS
<1>6. PICK x, y : x = named[[ino |-> up, par |-> above]] /\ y = wide[[ino |-> up, par |-> above]].off
  OBVIOUS
<1>7. LeadsBack(tree, up, s, x, y)
  BY <1>1, <1>6
<1>8. y \in Nat /\ len \in Nat /\ x.text \in Seq(STRING)
  BY <1>3, <1>5, <1>7 DEF LeadsBack
<1>9. PICK d : d = [ino |-> i, par |-> up]
  OBVIOUS
<1>10. d.ino = i /\ d.par = up
  BY <1>9
<1>11. ASSUME NEW buffer, NEW inner PROVE DirName(tree, tree, buffer, d, inner) =
         LET z == inner[[ino |-> up, par |-> above]]
             off == z.off + len
             text == IF z.off = buffer THEN z.text ELSE Append(z.text, self)
         IN IF off = buffer - 1 THEN [text |-> text, off |-> buffer, over |-> z.over, stale |-> TRUE]
            ELSE [text |-> text, off |-> off + 1, over |-> z.over \/ z.off < 0 \/ off + 1 >= buffer, stale |-> FALSE]
  <2>1. PICK par : par = OpenDir(tree, d.ino, Up)
    OBVIOUS
  <2>2. par.ino = up /\ par.par = above /\ ~(par.r < 0)
    BY <1>4, <1>10, <2>1
  <2>3. d.ino # RootInode
    BY <1>10
  <2>4. self = NameInDir(tree, d.par, d.ino)
    BY <1>2, <1>10
  <2> QED  BY <1>5, <2>1, <2>2, <2>3, <2>4 DEF DirName, NameUnder, NameBehind
<1>12. PICK room : room = DirName(tree, tree, b, d, wide).off
  OBVIOUS
<1>13. room = IF y + len = b - 1 THEN b ELSE y + len + 1
  BY <1>6, <1>11, <1>12
<1>14. room = y + len + 1 /\ room \in Nat
  BY <1>8, <1>13
<1>15. PICK g : g = DirName(tree, tree, s, d, named)
  OBVIOUS
<1>16. PICK text : text = IF x.off = s THEN x.text ELSE Append(x.text, self)
  OBVIOUS
<1>17. g = IF x.off + len = s - 1 THEN [text |-> text, off |-> s, over |-> x.over, stale |-> TRUE]
           ELSE [text |-> text, off |-> x.off + len + 1,
                 over |-> x.over \/ x.off < 0 \/ x.off + len + 1 >= s, stale |-> FALSE]
  BY <1>6, <1>11, <1>15, <1>16
<1>18. Append(x.text, self) \in Seq(STRING)
  BY <1>3, <1>8
<1>19. g.text = text /\ text \in Seq(STRING)
  BY <1>8, <1>16, <1>17, <1>18
<1>20. ASSUME s > room PROVE ~g.over /\ ~g.stale /\ g.off = room /\ Meant(tree, RootInode, g.text) = i
  <2>1. s > y
    BY <1>8, <1>14, <1>20
  <2>2. ~x.over /\ ~x.stale /\ x.off = y /\ Meant(tree, RootInode, x.text) = up
    BY <1>7, <2>1 DEF LeadsBack
  <2>3. x.off # s /\ x.off + len # s - 1 /\ ~(x.off < 0) /\ ~(x.off + len + 1 >= s)
    BY <1>8, <1>14, <1>20, <2>1, <2>2
  <2>4. text = Append(x.text, self)
    BY <1>16, <2>3
  <2>5. g = [text |-> text, off |-> x.off + len + 1,
             over |-> x.over \/ x.off < 0 \/ x.off + len + 1 >= s, stale |-> FALSE]
    BY <1>17, <2>3
  <2>6. g.over = (x.over \/ x.off < 0 \/ x.off + len + 1 >= s) /\ g.stale = FALSE
        /\ g.off = x.off + len + 1
    BY <2>5
  <2>7. ~g.over
    BY <2>2, <2>3, <2>6
  <2>8. Meant(tree, RootInode, text) = MeantStep(tree, Meant(tree, RootInode, x.text), self)
    <3>1. RootInode \in Int
      BY DEF RootInode
    <3> QED  BY <1>1, <1>3, <1>8, <2>4, <3>1, MeantAppend
  <2> QED  BY <1>3, <1>14, <1>19, <2>2, <2>6, <2>7, <2>8
<1>21. LeadsBack(tree, i, s, g, room)
  BY <1>14, <1>19, <1>20 DEF LeadsBack
<1> QED  BY <1>1, <1>9, <1>12, <1>15, <1>21

(* All levels, by the depth of the directory: where directories lead up to *)
(* the root, the name of each leads back to it.                            *)
LEMMA NamesLeadBack ==
  ASSUME NEW tree, IsNamed(tree), DirectoriesLeadUp(tree, MaxDepth - 1), NEW s \in Int, NEW b \in Int,
         NEW i, NEW par, IsOpened(tree, i, par)
  PROVE  LET dir == [ino |-> i, par |-> par] IN
         LeadsBack(tree, i, s, DirNamed(tree, tree, s, dir), DirNamed(tree, tree, b, dir).off)
<1>1. TreeIsSound(tree)
  BY DEF IsNamed
<1>2. PICK named : /\ Names(tree, tree, s, named)
                   /\ \A dir \in DirAt : DirNamed(tree, tree, s, dir) = named[MaxDepth][dir]
  BY <1>1, NameCourse
<1>3. PICK wide : /\ Names(tree, tree, b, wide)
                  /\ \A dir \in DirAt : DirNamed(tree, tree, b, dir) = wide[MaxDepth][dir]
  BY <1>1, NameCourse
<1>4. PICK depth \in [Directories(tree) -> 0 .. MaxDepth - 1] :
        \A d \in Directories(tree) : LeadsUp(tree, depth, d)
  BY DEF DirectoriesLeadUp
<1>5. MaxDepth \in Nat \ {0}
  BY FilesAssumption
<1>6. ASSUME NEW d \in Directories(tree)
      PROVE  /\ AsOpened(tree, d) \in DirAt /\ IsOpened(tree, d, FindInDir(tree, d, ".."))
             /\ FindInDir(tree, d, "..") \in Directories(tree)
             /\ depth[d] \in 0 .. MaxDepth - 1
             /\ d # RootInode => /\ depth[FindInDir(tree, d, "..")] < depth[d]
                                 /\ IsSeen(tree, FindInDir(tree, d, ".."), d)
  <2>1. PICK up : up = FindInDir(tree, d, "..")
    OBVIOUS
  <2>2. up \in Directories(tree) /\ (d # RootInode => depth[up] < depth[d] /\ IsSeen(tree, up, d))
    BY <1>4, <2>1 DEF LeadsUp
  <2>3. d \in Nat \ {0} /\ up \in Nat \ {0} /\ d \in DOMAIN tree /\ tree[d].kind = "dir"
    BY <1>1, <2>2 DEF Directories, TreeIsSound
  <2>4. AsOpened(tree, d) \in DirAt /\ IsOpened(tree, d, up)
    BY <2>1, <2>3 DEF AsOpened, DirAt, IsOpened
  <2> QED  BY <1>4, <2>1, <2>2, <2>4
<1>7. PICK Bad : Bad = {k \in 1 .. MaxDepth : ~ \A d \in Directories(tree) : depth[d] < k =>
                   LeadsBack(tree, d, s, named[k][AsOpened(tree, d)], wide[k][AsOpened(tree, d)].off)}
  OBVIOUS
<1>8. Bad = {}
  <2> SUFFICES ASSUME Bad # {} PROVE FALSE
    OBVIOUS
  <2>1. Bad \in SUBSET Nat
    BY <1>7
  <2>2. PICK k \in Bad : \A x \in Bad : k <= x
    BY <2>1, MinIsElement
  <2>3. k \in 1 .. MaxDepth
    BY <1>7, <2>2
  <2>4. PICK d \in Directories(tree) : depth[d] < k /\
          ~LeadsBack(tree, d, s, named[k][AsOpened(tree, d)], wide[k][AsOpened(tree, d)].off)
    BY <1>7, <2>2
  <2>5. PICK up : up = FindInDir(tree, d, "..")
    OBVIOUS
  <2>6. /\ AsOpened(tree, d) \in DirAt /\ IsOpened(tree, d, up) /\ up \in Directories(tree)
        /\ depth[d] \in 0 .. MaxDepth - 1
        /\ d # RootInode => depth[up] < depth[d] /\ IsSeen(tree, up, d)
    BY <1>6, <2>5
  <2>7. /\ k - 1 \in 0 .. MaxDepth
        /\ named[k - 1] \in [DirAt -> Naming] /\ wide[k - 1] \in [DirAt -> Naming]
        /\ named[k][AsOpened(tree, d)] = DirName(tree, tree, s, AsOpened(tree, d), named[k - 1])
        /\ wide[k][AsOpened(tree, d)] = DirName(tree, tree, b, AsOpened(tree, d), wide[k - 1])
    <3>1. k - 1 \in 0 .. MaxDepth
      BY <1>5, <2>3
    <3> QED  BY <1>2, <1>3, <2>3, <2>6, <3>1 DEF Names
  <2>8. CASE d = RootInode
    <3>1. AsOpened(tree, d).ino = RootInode
      BY <2>8 DEF AsOpened
    <3>2. \A size, inner : DirName(tree, tree, size, AsOpened(tree, d), inner) =
            [text |-> <<>>, off |-> 1, over |-> size < 1, stale |-> FALSE]
      BY <3>1 DEF DirName, NameUnder, NameBehind
    <3>3. PICK g : g = [text |-> <<>>, off |-> 1, over |-> s < 1, stale |-> FALSE]
      OBVIOUS
    <3>4. g.text = <<>> /\ g.off = 1 /\ g.over = (s < 1) /\ g.stale = FALSE /\ <<>> \in Seq(STRING)
      BY <3>3
    <3>5. Meant(tree, RootInode, g.text) = d
      BY <1>1, <2>8, <3>4, NoNamesMeanTheRoot
    <3>6. LeadsBack(tree, d, s, g, 1)
      <4>1. s > 1 => ~(s < 1)
        OBVIOUS
      <4>2. s > 1 => ~g.over
        BY <3>4, <4>1
      <4>3. 1 \in Nat
        OBVIOUS
      <4> QED  BY <3>4, <3>5, <4>2, <4>3 DEF LeadsBack
    <3>7. named[k][AsOpened(tree, d)] = g
      BY <2>7, <3>2, <3>3
    <3>8. wide[k][AsOpened(tree, d)].off = 1
      <4>1. wide[k][AsOpened(tree, d)] = [text |-> <<>>, off |-> 1, over |-> b < 1, stale |-> FALSE]
        BY <2>7, <3>2
      <4> QED  BY <4>1
    <3> QED  BY <2>4, <3>6, <3>7, <3>8
  <2>9. CASE d # RootInode
    <3>1. depth[up] < depth[d] /\ IsSeen(tree, up, d)
      BY <2>6, <2>9
    <3>2. PICK above : above = FindInDir(tree, up, "..")
      OBVIOUS
    <3>3. IsOpened(tree, up, above) /\ depth[up] \in 0 .. MaxDepth - 1
      BY <1>6, <2>6, <3>2
    <3>4. depth[up] < k - 1 /\ k - 1 \in 1 .. MaxDepth /\ ~(k <= k - 1)
      BY <1>5, <2>3, <2>4, <2>6, <3>1, <3>3
    <3>5. LeadsBack(tree, up, s, named[k - 1][AsOpened(tree, up)], wide[k - 1][AsOpened(tree, up)].off)
      BY <1>7, <2>2, <2>6, <3>4
    <3>6. LeadsBack(tree, d, s, DirName(tree, tree, s, AsOpened(tree, d), named[k - 1]),
                    DirName(tree, tree, b, AsOpened(tree, d), wide[k - 1]).off)
      BY <2>6, <2>7, <2>9, <3>1, <3>3, <3>5, OneNameMore
    <3> QED  BY <2>4, <2>7, <3>6
  <2> QED  BY <2>8, <2>9
<1>9. i \in Directories(tree) /\ AsOpened(tree, i) = [ino |-> i, par |-> par]
  BY DEF IsOpened, Directories, AsOpened
<1>10. depth[i] < MaxDepth /\ MaxDepth \in 1 .. MaxDepth /\ AsOpened(tree, i) \in DirAt
  BY <1>5, <1>6, <1>9
<1>11. LeadsBack(tree, i, s, named[MaxDepth][AsOpened(tree, i)], wide[MaxDepth][AsOpened(tree, i)].off)
  BY <1>7, <1>8, <1>9, <1>10
<1>12. DirNamed(tree, tree, s, AsOpened(tree, i)) = named[MaxDepth][AsOpened(tree, i)]
       /\ DirNamed(tree, tree, b, AsOpened(tree, i)) = wide[MaxDepth][AsOpened(tree, i)]
  BY <1>2, <1>3, <1>10
<1> QED  BY <1>9, <1>11, <1>12
-----------------------------------------------------------------------------
(***************************************************************************)
(* The invariant of the system calls: every program is on a disk with a    *)
(* file system, and a cwd that is not lost is a directory of one, with the *)
(* parent its entry ".." gives; what is open is on a disk that has fopen.  *)
(***************************************************************************)

HasTree(list, di) == Known(list, di) /\ list[di].fs = "extfs"
TreeAt(list, di) == Trees[Start(list, di)]

Places == {root} \cup {path.disk : path \in Paths}
CwdsIn(places) == [di : places, ino : Int, par : Int, at : {"heap", "stack", "junk"}]
TasksIn(places) == [dm : places, whole : BOOLEAN, cwd : CwdsIn(places)]

CwdIsSound(list, cwd) ==
  cwd.at = "heap" => HasTree(list, cwd.di) /\ IsOpened(TreeAt(list, cwd.di), cwd.ino, cwd.par)
TaskIsSound(list, it) == HasTree(list, it.dm) /\ CwdIsSound(list, it.cwd)

DisksInv ==
  /\ machine \in Machines
  /\ disks = IF PciEnum(machine).fault THEN <<>> ELSE Setup(machine)
TasksInv ==
  /\ task \in Seq(TasksIn(Places))
  /\ \A t \in DOMAIN task : TaskIsSound(disks, task[t])
  /\ task # <<>> => HasTree(disks, root)
FilesInv == \A f \in files : Fs(f.di) \in {"dev", "extfs"}

IInv == DisksInv /\ TasksInv /\ FilesInv /\ ReadIsRight

LEMMA FsIs ==
  ASSUME NEW di
  PROVE  /\ (Fs(di) = "extfs") = HasTree(disks, di)
         /\ TreeOf(di) = TreeAt(disks, di)
BY DEF Fs, HasTree, TreeOf, TreeAt

LEMMA TreesAreNamed ==
  ASSUME DisksInv, NEW di, HasTree(disks, di)
  PROVE  IsNamed(TreeAt(disks, di)) /\ TreeIsSound(TreeAt(disks, di))
<1>1. ~PciEnum(machine).fault /\ disks = Setup(machine)
  <2>1. disks # <<>>
    BY DEF HasTree, Known
  <2> QED  BY <2>1 DEF DisksInv
<1>2. PICK list : list = Setup(machine)
  OBVIOUS
<1>3. \A i \in DOMAIN list : list[i].fs = "extfs" => Start(list, i) \in DOMAIN Trees
  BY <1>1, <1>2, FilesAssumption DEF DisksInv
<1>4. PICK place : place = Start(disks, di)
  OBVIOUS
<1>5. place \in DOMAIN Trees
  BY <1>1, <1>2, <1>3, <1>4 DEF HasTree, Known
<1>6. TreeIsSound(Trees[place])
  BY <1>5, FilesAssumption
<1>7. \A i \in DOMAIN Trees[place] : \A e \in Range(Trees[place][i].ents) : e.name \in DOMAIN NameLen
  BY <1>5, FilesAssumption
<1> QED  BY <1>4, <1>6, <1>7 DEF IsNamed, TreeAt

LEMMA PathsAre ==
  ASSUME NEW path \in Paths
  PROVE  PathIs(path) /\ DiskOf(path) \in Places
BY FilesAssumption DEF PathIs, DiskOf, Places

LEMMA DirnameIs ==
  ASSUME NEW path, path.abs \in BOOLEAN, NEW Name, path.names \in Seq(Name), path.names # <<>>
  PROVE  PathIs(Dirname(path))
<1>1. CASE ~path.abs /\ Len(path.names) = 1
  <2>1. PICK n : n = Initial[path.names[1]]
    OBVIOUS
  <2>2. <<n>> \in Seq({n})
    OBVIOUS
  <2>3. Dirname(path) = [abs |-> FALSE, names |-> <<n>>]
    BY <1>1, <2>1 DEF Dirname
  <2>4. Dirname(path).abs = FALSE /\ Dirname(path).names = <<n>> /\ FALSE \in BOOLEAN
    BY <2>3
  <2>5. \E S : Dirname(path).names \in Seq(S)
    BY <2>2, <2>4
  <2> QED  BY <2>4, <2>5 DEF PathIs
<1>2. CASE ~(~path.abs /\ Len(path.names) = 1)
  <2>1. PICK names : names = path.names
    OBVIOUS
  <2>2. names \in Seq(Name) /\ Len(names) \in Nat /\ Len(names) # 0
    BY <2>1
  <2>3. SubSeq(names, 1, Len(names) - 1) \in Seq(Name)
    BY <2>2
  <2>4. Dirname(path) = [abs |-> path.abs, names |-> SubSeq(names, 1, Len(names) - 1)]
    BY <1>2, <2>1 DEF Dirname
  <2>5. Dirname(path).abs = path.abs /\ Dirname(path).names \in Seq(Name)
    BY <2>3, <2>4
  <2>6. \E S : Dirname(path).names \in Seq(S)
    BY <2>5
  <2> QED  BY <2>5, <2>6 DEF PathIs
<1> QED  BY <1>1, <1>2

(* The cwd made of an opened directory.                                    *)
LEMMA HeapDirIs ==
  ASSUME DisksInv, NEW di \in Places, HasTree(disks, di), NEW cwd \in Int, NEW path, PathIs(path),
         NEW d, d = OpenDir(TreeOf(di), cwd, path)
  PROVE  HeapDir(di, d) \in CwdsIn(Places) /\ CwdIsSound(disks, HeapDir(di, d))
<1>1. PICK tree : tree = TreeOf(di)
  OBVIOUS
<1>2. TreeIsSound(tree) /\ tree = TreeAt(disks, di)
  BY <1>1, FsIs, TreesAreNamed
<1>3. Opened(tree, cwd, path, d)
  BY <1>1, <1>2, OpenDirIs
<1>4. d.ino \in Int /\ d.par \in Int /\ (d.filled => IsOpened(tree, d.ino, d.par))
  BY <1>3 DEF Opened
<1>5. PICK h : h = HeapDir(di, d)
  OBVIOUS
<1>6. h = [di |-> di, ino |-> d.ino, par |-> d.par, at |-> IF d.filled THEN "heap" ELSE "junk"]
  BY <1>5 DEF HeapDir
<1>7. h \in CwdsIn(Places)
  BY <1>4, <1>6 DEF CwdsIn
<1>8. h.di = di /\ h.ino = d.ino /\ h.par = d.par /\ (h.at = "heap" => d.filled)
  BY <1>6
<1> QED  BY <1>2, <1>4, <1>5, <1>7, <1>8 DEF CwdIsSound

LEMMA NoReadIsRight ==
  ASSUME call.op # "read"
  PROVE  ReadIsRight
BY DEF ReadIsRight

LEMMA FirstTasksAre ==
  ASSUME DisksInv
  PROVE  \/ FirstTasks = <<>>
         \/ /\ HasTree(disks, root)
            /\ \E path \in FirstPrograms : FirstTasks = FirstTask(path)
<1>1. PICK there : there = {p \in FirstPrograms : FindInode(TreeOf(root), RootInode, p) > 0}
  OBVIOUS
<1>2. FirstTasks = IF Fs(root) # "extfs" \/ there = {} THEN <<>>
                   ELSE FirstTask(CHOOSE p \in there : \A q \in there : Len(q.names) <= Len(p.names))
  BY <1>1 DEF FirstTasks
<1>3. CASE Fs(root) # "extfs" \/ there = {}
  BY <1>2, <1>3
<1>4. CASE Fs(root) = "extfs" /\ there # {}
  <2>1. PICK long : long = <<"sbin", "sfinit">>
    OBVIOUS
  <2>2. PICK short : short = <<"sfinit">>
    OBVIOUS
  <2>3. Len(long) = 2 /\ Len(short) = 1
    BY <2>1, <2>2
  <2>4. PICK a, b : a = [disk |-> 0, abs |-> TRUE, names |-> long] /\ b = [disk |-> 0, abs |-> TRUE, names |-> short]
    OBVIOUS
  <2>5. FirstPrograms = {a, b}
    BY <2>1, <2>2, <2>4 DEF FirstPrograms
  <2>6. \E p \in there : \A q \in there : Len(q.names) <= Len(p.names)
    <3>1. Len(a.names) = 2 /\ Len(b.names) = 1
      BY <2>3, <2>4
    <3>2. \A q \in there : q = a \/ q = b
      BY <1>1, <2>5
    <3>3. CASE a \in there
      BY <3>1, <3>2, <3>3
    <3>4. CASE a \notin there
      BY <1>4, <3>1, <3>2, <3>4
    <3> QED  BY <3>3, <3>4
  <2>7. PICK path : path = CHOOSE p \in there : \A q \in there : Len(q.names) <= Len(p.names)
    OBVIOUS
  <2>8. path \in FirstPrograms
    BY <1>1, <2>6, <2>7
  <2>9. FirstTasks = FirstTask(path)
    BY <1>2, <1>4, <2>7
  <2> QED  BY <1>4, <2>8, <2>9, FsIs
<1> QED  BY <1>3, <1>4

LEMMA InitIsGood ==
  ASSUME Init
  PROVE  IInv
<1>1. DisksInv
  BY DEF Init, DisksInv
<1>2. FilesInv /\ ReadIsRight
  BY NoReadIsRight DEF Init, FilesInv
<1>3. TasksInv
  <2>1. CASE task = <<>>
    BY <2>1 DEF TasksInv
  <2>2. CASE task # <<>>
    <3>1. task = FirstTasks
      BY <2>2 DEF Init
    <3>2. HasTree(disks, root)
      BY <1>1, <2>2, <3>1, FirstTasksAre
    <3>3. PICK path \in FirstPrograms : task = FirstTask(path)
      BY <1>1, <2>2, <3>1, FirstTasksAre
    <3>4. PathIs(Dirname(path))
      <4>1. path.abs = TRUE /\ path.names # <<>> /\ path.names \in Seq({"sbin", "sfinit"})
        <5>1. path.abs = TRUE /\ path.names \in {<<"sbin", "sfinit">>, <<"sfinit">>}
          BY <3>3 DEF FirstPrograms
        <5>2. <<"sbin", "sfinit">> # <<>> /\ <<"sbin", "sfinit">> \in Seq({"sbin", "sfinit"})
          OBVIOUS
        <5>3. <<"sfinit">> # <<>> /\ <<"sfinit">> \in Seq({"sbin", "sfinit"})
          OBVIOUS
        <5> QED  BY <5>1, <5>2, <5>3
      <4>2. path.abs \in BOOLEAN
        BY <4>1
      <4> QED  BY ONLY <4>1, <4>2, DirnameIs
    <3>5. root \in Places /\ RootInode \in Int
      BY DEF Places, RootInode
    <3>6. PICK d : d = OpenDir(TreeOf(root), RootInode, Dirname(path))
      OBVIOUS
    <3>7. PICK h : h = HeapDir(root, d)
      OBVIOUS
    <3>8. h \in CwdsIn(Places) /\ CwdIsSound(disks, h)
      BY <1>1, <3>2, <3>4, <3>5, <3>6, <3>7, HeapDirIs
    <3>9. PICK it : it = [dm |-> root, whole |-> TRUE, cwd |-> h]
      OBVIOUS
    <3>10. task = <<it>>
      BY <3>3, <3>6, <3>7, <3>9 DEF FirstTask
    <3>11. it \in TasksIn(Places) /\ TaskIsSound(disks, it)
      BY <3>2, <3>5, <3>8, <3>9 DEF TasksIn, TaskIsSound
    <3>12. \A t \in DOMAIN <<it>> : <<it>>[t] = it
      OBVIOUS
    <3> QED  BY <3>2, <3>10, <3>11, <3>12 DEF TasksInv
  <2> QED  BY <2>1, <2>2
<1> QED  BY <1>1, <1>2, <1>3 DEF IInv

(* What is found to be opened is on a disk that has fopen.                 *)
LEMMA FoundIs ==
  ASSUME DisksInv, NEW t, Cwd(t).ino \in Int, NEW path, PathIs(path), NEW f, f = Found1(t, path)
  PROVE  /\ f.di = DiskOf(path)
         /\ f.ino > 0 => Fs(f.di) \in {"dev", "extfs"}
         /\ Cwd(t).ino # 0 => f.ino # 0
         /\ (f.ino > 0 /\ Fs(f.di) # "dev") => HasTree(disks, f.di)
         /\ f.ino \in Int
<1>1. PICK di : di = DiskOf(path)
  OBVIOUS
<1>2. CASE Fs(di) = "dev"
  <2>1. f = [di |-> di, ino |-> 1] \/ f = [di |-> di, ino |-> -EINVAL]
    BY <1>1, <1>2 DEF Found1
  <2>2. f.di = di /\ f.ino \in {1, -22}
    BY <2>1 DEF EINVAL
  <2> QED  BY <1>1, <1>2, <2>2
<1>3. CASE Fs(di) = "extfs"
  <2>1. f = [di |-> di, ino |-> FindInode(TreeOf(di), Cwd(t).ino, path)]
    BY <1>1, <1>3 DEF Found1
  <2>2. TreeIsSound(TreeOf(di)) /\ HasTree(disks, di)
    BY <1>3, FsIs, TreesAreNamed
  <2>3. PICK w : w = WalkFrom(TreeOf(di), Cwd(t).ino, path)
    OBVIOUS
  <2>4. w \in Walker /\ (From(path, Cwd(t).ino) # 0 => w.ino # 0)
    BY <2>2, <2>3, WalkFromIs
  <2>5. f.di = di /\ f.ino = w.ino
    BY <2>1, <2>3 DEF FindInode
  <2>6. Cwd(t).ino # 0 => From(path, Cwd(t).ino) # 0
    BY DEF From, RootInode
  <2> QED  BY <1>1, <1>3, <2>2, <2>4, <2>5, <2>6 DEF Walker
<1>4. CASE Fs(di) # "dev" /\ Fs(di) # "extfs"
  <2>1. f = [di |-> di, ino |-> -EINVAL]
    BY <1>1, <1>4 DEF Found1
  <2>2. f.di = di /\ f.ino = -22
    BY <2>1 DEF EINVAL
  <2> QED  BY <1>1, <2>2
<1> QED  BY <1>2, <1>3, <1>4

SameDisks == UNCHANGED <<machine, disks, root>>

LEMMA DisksStay ==
  ASSUME DisksInv, SameDisks
  PROVE  DisksInv' /\ Places' = Places
BY DEF DisksInv, Places, SameDisks

LEMMA TasksStay ==
  ASSUME TasksInv, SameDisks, UNCHANGED task
  PROVE  TasksInv'
BY DEF TasksInv, Places, SameDisks

LEMMA FilesStay ==
  ASSUME FilesInv, SameDisks, files' \subseteq files
  PROVE  FilesInv'
<1>1. \A di : Fs(di)' = Fs(di)
  BY DEF Fs, SameDisks
<1> QED  BY <1>1 DEF FilesInv

LEMMA FileIsAdded ==
  ASSUME FilesInv, SameDisks, NEW f, files' = files \cup {f}, Fs(f.di) \in {"dev", "extfs"}
  PROVE  FilesInv'
<1>1. \A di : Fs(di)' = Fs(di)
  BY DEF Fs, SameDisks
<1> QED  BY <1>1 DEF FilesInv

(* What the invariant says of a task.                                      *)
LEMMA TaskIs ==
  ASSUME TasksInv, NEW t \in Tasks
  PROVE  /\ task \in Seq(TasksIn(Places)) /\ task[t] \in TasksIn(Places)
         /\ Cwd(t) = task[t].cwd /\ Cwd(t) \in CwdsIn(Places)
         /\ Cwd(t).ino \in Int /\ Cwd(t).par \in Int /\ Cwd(t).di \in Places
         /\ HasTree(disks, task[t].dm) /\ HasTree(disks, root)
         /\ CwdIsSound(disks, Cwd(t))
<1>1. task \in Seq(TasksIn(Places)) /\ t \in DOMAIN task
  BY DEF TasksInv, Tasks
<1>2. task[t] \in TasksIn(Places) /\ task # <<>>
  BY <1>1
<1>3. task[t].cwd \in CwdsIn(Places)
  BY <1>2 DEF TasksIn
<1>4. PICK c : c = task[t].cwd
  OBVIOUS
<1>5. c \in CwdsIn(Places) /\ c.ino \in Int /\ c.par \in Int /\ c.di \in Places
  BY <1>3, <1>4 DEF CwdsIn
<1>6. TaskIsSound(disks, task[t]) /\ HasTree(disks, root)
  BY <1>1, <1>2 DEF TasksInv
<1> QED  BY <1>1, <1>2, <1>4, <1>5, <1>6 DEF Cwd, TaskIsSound

LEMMA CwdIsReplaced ==
  ASSUME TasksInv, SameDisks, NEW t \in Tasks, NEW c \in CwdsIn(Places), CwdIsSound(disks, c),
         task' = [task EXCEPT ![t].cwd = c]
  PROVE  TasksInv'
<1>1. task \in Seq(TasksIn(Places)) /\ t \in DOMAIN task /\ task[t] \in TasksIn(Places)
  BY TaskIs DEF Tasks
<1>2. PICK it : it = [task[t] EXCEPT !.cwd = c]
  OBVIOUS
<1>3. it \in TasksIn(Places) /\ it.dm = task[t].dm /\ it.cwd = c
  BY <1>1, <1>2 DEF TasksIn
<1>4. HasTree(disks, it.dm)
  BY <1>3, TaskIs
<1>5. TaskIsSound(disks, it)
  BY <1>3, <1>4 DEF TaskIsSound
<1>6. task' = [task EXCEPT ![t] = it]
  BY <1>2
<1>7. task' \in Seq(TasksIn(Places)) /\ DOMAIN task' = DOMAIN task
  BY <1>1, <1>3, <1>6
<1>8. \A u \in DOMAIN task : task'[u] = IF u = t THEN it ELSE task[u]
  BY <1>1, <1>6
<1>9. \A u \in DOMAIN task : TaskIsSound(disks, task'[u])
  BY <1>5, <1>8 DEF TasksInv
<1>10. HasTree(disks, root)
  BY TaskIs
<1>11. disks' = disks /\ root' = root /\ Places' = Places
  BY DEF SameDisks, Places
<1> QED  BY <1>7, <1>9, <1>10, <1>11 DEF TasksInv

LEMMA TaskIsAdded ==
  ASSUME TasksInv, SameDisks, HasTree(disks, root), NEW it \in TasksIn(Places), TaskIsSound(disks, it),
         task' = Append(task, it)
  PROVE  TasksInv'
<1>1. task \in Seq(TasksIn(Places))
  BY DEF TasksInv
<1>2. /\ task' \in Seq(TasksIn(Places)) /\ Len(task') = Len(task) + 1
      /\ \A u \in 1 .. Len(task) : task'[u] = task[u]
      /\ task'[Len(task) + 1] = it
  BY <1>1, AppendProperties
<1>3. ASSUME NEW u \in DOMAIN task' PROVE TaskIsSound(disks, task'[u])
  <2>1. Len(task) \in Nat /\ DOMAIN task = 1 .. Len(task)
    BY <1>1
  <2>2. u \in 1 .. Len(task) \/ u = Len(task) + 1
    BY <1>2, <2>1
  <2> QED  BY <1>2, <2>1, <2>2 DEF TasksInv
<1>4. disks' = disks /\ root' = root /\ Places' = Places
  BY DEF SameDisks, Places
<1> QED  BY <1>2, <1>3, <1>4 DEF TasksInv

(* A call that changes no task and opens nothing.                          *)
LEMMA QuietCall ==
  ASSUME IInv, SameDisks, UNCHANGED task, files' \subseteq files, call'.op # "read"
  PROVE  IInv'
<1>1. ReadIsRight'
  BY DEF ReadIsRight
<1> QED  BY <1>1, DisksStay, TasksStay, FilesStay DEF IInv

LEMMA CrashIsQuiet ==
  ASSUME NEW c, Crash(c)
  PROVE  SameDisks /\ UNCHANGED <<task, files>> /\ call' = c
BY DEF Crash, SameDisks

LEMMA ReturnKeepsDisks ==
  ASSUME NEW c, Return(c)
  PROVE  SameDisks /\ call' = c
BY DEF Return, SameDisks

LEMMA OpenKeeps ==
  ASSUME IInv, NEW t \in Tasks, NEW path \in Paths, Open(t, path)
  PROVE  IInv'
<1>1. PICK f : f = Found1(t, path)
  OBVIOUS
<1>2. CASE Absent(DiskOf(path), "fopen")
  <2>1. Crash([op |-> "open"])
    BY <1>2 DEF Open
  <2>2. SameDisks /\ UNCHANGED task /\ files' \subseteq files /\ call'.op # "read"
    BY <2>1, CrashIsQuiet
  <2> QED  BY <2>2, QuietCall
<1>3. CASE ~Absent(DiskOf(path), "fopen")
  <2>1. /\ files' = IF f.ino > 0 THEN files \cup {f} ELSE files
        /\ Return([op |-> "open", ret |-> Min({f.ino, 0})])
        /\ UNCHANGED task
    BY <1>1, <1>3 DEF Open
  <2>2. SameDisks /\ call'.op # "read"
    BY <2>1, ReturnKeepsDisks
  <2>3. f.ino > 0 => Fs(f.di) \in {"dev", "extfs"}
    BY <1>1, TaskIs, PathsAre, FoundIs DEF IInv
  <2>4. FilesInv'
    <3>1. CASE f.ino > 0
      BY <2>1, <2>2, <2>3, <3>1, FileIsAdded DEF IInv
    <3>2. CASE ~(f.ino > 0)
      BY <2>1, <2>2, <3>2, FilesStay DEF IInv
    <3> QED  BY <3>1, <3>2
  <2>5. ReadIsRight'
    BY <2>2 DEF ReadIsRight
  <2> QED  BY <2>1, <2>2, <2>4, <2>5, DisksStay, TasksStay DEF IInv
<1> QED  BY <1>2, <1>3

LEMMA CloseKeeps ==
  ASSUME IInv, NEW f \in files, Close(f)
  PROVE  IInv'
<1>1. CASE Absent(f.di, "fclose")
  <2>1. Crash([op |-> "close"])
    BY <1>1 DEF Close
  <2>2. SameDisks /\ UNCHANGED task /\ files' \subseteq files /\ call'.op # "read"
    BY <2>1, CrashIsQuiet
  <2> QED  BY <2>2, QuietCall
<1>2. CASE ~Absent(f.di, "fclose")
  <2>1. files' = files \ {f} /\ Return([op |-> "close", ret |-> 0]) /\ UNCHANGED task
    BY <1>2 DEF Close
  <2>2. SameDisks /\ files' \subseteq files /\ call'.op # "read"
    BY <2>1, ReturnKeepsDisks
  <2> QED  BY <2>1, <2>2, QuietCall
<1> QED  BY <1>1, <1>2

LEMMA StatKeeps ==
  ASSUME IInv, NEW t \in Tasks, NEW path \in Paths, Stat(t, path)
  PROVE  IInv'
<1>1. PICK f : f = Found1(t, path)
  OBVIOUS
<1>2. \/ Crash([op |-> "stat"])
      \/ /\ Return([op |-> "stat", ret |-> IF f.ino > 0 THEN 0 ELSE -EINVAL])
         /\ UNCHANGED <<task, files>>
  BY <1>1 DEF Stat
<1>3. SameDisks /\ UNCHANGED task /\ files' \subseteq files /\ call'.op # "read"
  <2>1. CASE Crash([op |-> "stat"])
    BY <2>1, CrashIsQuiet
  <2>2. CASE /\ Return([op |-> "stat", ret |-> IF f.ino > 0 THEN 0 ELSE -EINVAL])
             /\ UNCHANGED <<task, files>>
    BY <2>2, ReturnKeepsDisks
  <2> QED  BY <1>2, <2>1, <2>2
<1> QED  BY <1>3, QuietCall

LEMMA WriteKeeps ==
  ASSUME IInv, NEW f \in files, Write(f)
  PROVE  IInv'
<1>1. Crash([op |-> "write"])
  BY DEF Write
<1>2. SameDisks /\ UNCHANGED task /\ files' \subseteq files /\ call'.op # "read"
  BY <1>1, CrashIsQuiet
<1> QED  BY <1>2, QuietCall

LEMMA ReadDirKeeps ==
  ASSUME IInv, NEW t \in Tasks, NEW path \in Paths, OpenAndReadDir(t, path)
  PROVE  IInv'
<1>1. PICK di, d : di = DiskOf(path) /\ d = DirFound(t, di, path)
  OBVIOUS
<1>2. PICK names : names = IF d.filled THEN DirNames(TreeOf(di), d.ino) ELSE <<>>
  OBVIOUS
<1>3. \/ Crash([op |-> "opendir"])
      \/ Return([op |-> "readdir", ret |-> d.r, names |-> names]) /\ UNCHANGED <<task, files>>
  BY <1>1, <1>2 DEF OpenAndReadDir
<1>4. SameDisks /\ UNCHANGED task /\ files' \subseteq files /\ call'.op # "read"
  <2>1. CASE Crash([op |-> "opendir"])
    BY <2>1, CrashIsQuiet
  <2>2. CASE Return([op |-> "readdir", ret |-> d.r, names |-> names]) /\ UNCHANGED <<task, files>>
    BY <2>2, ReturnKeepsDisks
  <2> QED  BY <1>3, <2>1, <2>2
<1> QED  BY <1>4, QuietCall
-----------------------------------------------------------------------------
(* A read of a file: what its node is, and that a read which lies in its   *)
(* extents gives the file's bytes.                                         *)
LEMMA ReadKeeps ==
  ASSUME IInv, NEW f \in files, NEW off \in Offsets, NEW n \in Counts, Read(f, off, n)
  PROVE  IInv'
<1>1. PICK node : node = Node(TreeOf(f.di), f.ino)
  OBVIOUS
<1>2. PICK data : data = ReadContents(node, n, off)
  OBVIOUS
<1>3. UNCHANGED <<task, files>>
  BY DEF Read
<1>4. \/ Return([op |-> "read", ret |-> -EINVAL])
      \/ Return([op |-> "read", ret |-> -EISDIR])
      \/ Fs(f.di) # "dev" /\ Return([op |-> "read", node |-> node, off |-> off, n |-> n, ret |-> Len(data), data |-> data])
  BY <1>1, <1>2 DEF Read
<1>5. SameDisks
  BY <1>4 DEF Return, SameDisks
<1>6. ReadIsRight'
  <2>1. CASE Return([op |-> "read", ret |-> -EINVAL])
    <3>1. call'.ret = -22
      BY <2>1 DEF Return, EINVAL
    <3> QED  BY <3>1 DEF ReadIsRight
  <2>2. CASE Return([op |-> "read", ret |-> -EISDIR])
    <3>1. call'.ret = -21
      BY <2>2 DEF Return, EISDIR
    <3> QED  BY <3>1 DEF ReadIsRight
  <2>3. CASE Fs(f.di) # "dev" /\ Return([op |-> "read", node |-> node, off |-> off, n |-> n, ret |-> Len(data), data |-> data])
    <3>1. call'.node = node /\ call'.off = off /\ call'.n = n /\ call'.data = data
      BY <2>3 DEF Return
    <3>2. Fs(f.di) = "extfs"
      BY <2>3 DEF IInv, FilesInv
    <3>3. NodeIsSound(node)
      BY <1>1, <3>2, FsIs, TreesAreNamed, NodeSound DEF IInv
    <3>4. PICK exts : exts = ParseExtents(node.extents)
      OBVIOUS
    <3>5. ExtentsAreSorted(exts)
      BY <3>3, <3>4 DEF NodeIsSound
    <3>6. off \in Nat /\ n \in Nat
      BY FilesAssumption
    <3>7. ASSUME \A o \in off .. off + n - 1 : InExtents(exts, o)
          PROVE  data = [k \in 1 .. n |-> ByteAt(exts, off + k - 1)]
      <4>1. AllCovered(exts, n, off)
        <5> SUFFICES ASSUME NEW o \in off .. off + n - 1
                     PROVE  \E j \in DOMAIN exts : Holds(exts[j], o)
          BY DEF AllCovered
        <5>1. PICK e \in Range(exts) : e.f * BlockSize <= o /\ o < (e.f + e.n) * BlockSize
          BY <3>7 DEF InExtents
        <5>2. PICK j \in DOMAIN exts : e = exts[j]
          BY DEF Range
        <5> QED  BY <5>1, <5>2 DEF Holds, First, Behind
      <4>2. data = ReadExtents(exts, n, off)
        BY <1>2, <3>4 DEF ReadContents
      <4> QED  BY <3>5, <3>6, <4>1, <4>2, ReadGivesTheBytes
    <3> QED  BY <3>1, <3>4, <3>7 DEF ReadIsRight
  <2> QED  BY <1>4, <2>1, <2>2, <2>3
<1>7. files' \subseteq files
  BY <1>3
<1> QED  BY <1>3, <1>5, <1>6, <1>7, DisksStay, TasksStay, FilesStay DEF IInv
-----------------------------------------------------------------------------
(* chdir: the new cwd is a directory of the path's disk or, where it was a *)
(* block device that opened, not filled in.                                *)
LEMMA ChdirMakes ==
  ASSUME IInv, NEW t \in Tasks, NEW path \in Paths, Chdir(t, path)
  PROVE  /\ SameDisks /\ UNCHANGED files /\ call'.op # "read" /\ Cwd(t).at = "heap"
         /\ \/ UNCHANGED task
            \/ /\ call'.op = "chdir" /\ call'.path = path
               /\ \E c \in CwdsIn(Places) :
                    /\ CwdIsSound(disks, c) /\ task' = [task EXCEPT ![t].cwd = c]
                    /\ c.at # "heap" =>
                         Node(TreeOf(DiskOf(path)), FindInode(TreeOf(DiskOf(path)), Cwd(t).ino, path)).kind = "blockdev"
<1>1. PICK di, d : di = DiskOf(path) /\ d = DirFound(t, di, path)
  OBVIOUS
<1>2. Cwd(t).at = "heap"
  BY DEF Chdir
<1>3. CASE Crash([op |-> "opendir"])
  <2>1. SameDisks /\ UNCHANGED <<task, files>> /\ call' = [op |-> "opendir"]
    BY <1>3, CrashIsQuiet
  <2>2. call'.op # "read"
    BY <2>1
  <2> QED  BY <1>2, <2>1, <2>2
<1>4. CASE /\ Return([op |-> "chdir", ret |-> d.r, path |-> path])
           /\ task' = IF d.r < 0 THEN task ELSE [task EXCEPT ![t].cwd = HeapDir(di, d)]
           /\ UNCHANGED files
  <2>1. SameDisks /\ call' = [op |-> "chdir", ret |-> d.r, path |-> path]
    BY <1>4, ReturnKeepsDisks
  <2>2. call'.op = "chdir" /\ call'.path = path /\ call'.op # "read"
    BY <2>1
  <2>3. CASE d.r < 0
    BY <1>2, <1>4, <2>1, <2>2, <2>3
  <2>4. CASE ~(d.r < 0)
    <3>1. Fs(di) = "extfs"
      <4> SUFFICES ASSUME Fs(di) # "extfs" PROVE FALSE
        OBVIOUS
      <4>1. d = [Unfilled EXCEPT !.r = -22] \/ d = [Unfilled EXCEPT !.r = -88]
        BY <1>1 DEF DirFound, NoDir, EINVAL, ENOSYS
      <4>2. d.r = -22 \/ d.r = -88
        BY <4>1 DEF Unfilled
      <4> QED  BY <2>4, <4>2
    <3>2. d = OpenDir(TreeOf(di), Cwd(t).ino, path)
      BY <1>1, <3>1 DEF DirFound
    <3>3. HasTree(disks, di) /\ di \in Places /\ PathIs(path) /\ Cwd(t).ino \in Int /\ DisksInv
      BY <1>1, <3>1, FsIs, PathsAre, TaskIs DEF IInv
    <3>4. PICK c : c = HeapDir(di, d)
      OBVIOUS
    <3>5. c \in CwdsIn(Places) /\ CwdIsSound(disks, c)
      BY <3>2, <3>3, <3>4, HeapDirIs
    <3>6. TreeIsSound(TreeOf(di))
      BY <3>3, FsIs, TreesAreNamed
    <3>7. Opened(TreeOf(di), Cwd(t).ino, path, d)
      BY <3>2, <3>3, <3>6, OpenDirIs
    <3>8. d.r \in Int /\ d.r >= 0
      BY <2>4, <3>7 DEF Opened
    <3>9. From(path, Cwd(t).ino) # 0
      <4>1. Cwd(t).ino # 0
        <5>1. CwdIsSound(disks, Cwd(t))
          BY TaskIs DEF IInv
        <5>2. HasTree(disks, Cwd(t).di) /\ IsOpened(TreeAt(disks, Cwd(t).di), Cwd(t).ino, Cwd(t).par)
          BY <1>2, <5>1 DEF CwdIsSound
        <5>3. TreeIsSound(TreeAt(disks, Cwd(t).di))
          BY <3>3, <5>2, TreesAreNamed
        <5> QED  BY <5>2, <5>3 DEF IsOpened, TreeIsSound
      <4> QED  BY <4>1 DEF From, RootInode
    <3>10. ASSUME c.at # "heap" PROVE Node(TreeOf(di), FindInode(TreeOf(di), Cwd(t).ino, path)).kind = "blockdev"
      <4>1. c.at = IF d.filled THEN "heap" ELSE "junk"
        BY <3>4 DEF HeapDir
      <4>2. ~d.filled
        BY <3>10, <4>1
      <4> QED  BY <3>7, <3>8, <3>9, <4>2 DEF Opened
    <3>11. task' = [task EXCEPT ![t].cwd = c]
      BY <1>4, <2>4, <3>4
    <3> QED  BY <1>1, <1>2, <1>4, <2>1, <2>2, <3>5, <3>10, <3>11
  <2> QED  BY <2>3, <2>4
<1> QED  BY <1>1, <1>3, <1>4 DEF Chdir

LEMMA ChdirKeeps ==
  ASSUME IInv, NEW t \in Tasks, NEW path \in Paths, Chdir(t, path)
  PROVE  IInv'
<1>1. SameDisks /\ UNCHANGED files /\ call'.op # "read"
  BY ChdirMakes
<1>2. CASE UNCHANGED task
  BY <1>1, <1>2, QuietCall
<1>3. CASE ~UNCHANGED task
  <2>1. PICK c \in CwdsIn(Places) : CwdIsSound(disks, c) /\ task' = [task EXCEPT ![t].cwd = c]
    BY <1>3, ChdirMakes
  <2>2. TasksInv'
    BY <1>1, <2>1, CwdIsReplaced DEF IInv
  <2>3. ReadIsRight'
    BY <1>1 DEF ReadIsRight
  <2> QED  BY <1>1, <2>2, <2>3, DisksStay, FilesStay DEF IInv
<1> QED  BY <1>2, <1>3

(* getcwd: the cwd stays what it was, but in the one case where the text   *)
(* just fills the buffer its struct is lost.                               *)
LEMMA GetcwdMakes ==
  ASSUME IInv, NEW t \in Tasks, NEW s \in BufferSizes, Getcwd(t, s)
  PROVE  /\ SameDisks /\ UNCHANGED files /\ call'.op = "getcwd" /\ call'.size = s
         /\ \/ UNCHANGED task
            \/ GetcwdOf(t, s).off = s /\ task' = [task EXCEPT ![t].cwd = [Cwd(t) EXCEPT !.at = "stack"]]
<1>1. PICK g : g = GetcwdOf(t, s)
  OBVIOUS
<1>2. /\ Return([op |-> "getcwd", ret |-> 0, size |-> s])
      /\ task' = IF g.stale THEN [task EXCEPT ![t].cwd.at = "stack"] ELSE task
      /\ UNCHANGED files
  BY <1>1 DEF Getcwd
<1>3. SameDisks /\ call'.op = "getcwd" /\ call'.size = s
  <2>1. SameDisks /\ call' = [op |-> "getcwd", ret |-> 0, size |-> s]
    BY <1>2, ReturnKeepsDisks
  <2> QED  BY <2>1
<1>4. ASSUME g.stale PROVE g.off = s
  <2>1. PICK tree, names, dir : tree = TreeOf(root) /\ names = TreeOf(task[t].dm)
                                /\ dir = [ino |-> Cwd(t).ino, par |-> Cwd(t).par]
    OBVIOUS
  <2>2. g = DirNamed(tree, names, s, dir)
    BY <1>1, <2>1 DEF GetcwdOf
  <2>3. TreeIsSound(tree) /\ IsNamed(names) /\ dir \in DirAt
    BY <2>1, FsIs, TreesAreNamed, TaskIs DEF IInv, DirAt
  <2>4. s \in Int /\ MaxDepth \in Nat \ {0}
    <3>1. s \in Nat
      BY FilesAssumption
    <3>2. MaxDepth \in Nat \ {0}
      BY FilesAssumption
    <3> QED  BY <3>1, <3>2
  <2>5. PICK named : /\ Names(tree, names, s, named)
                     /\ \A d \in DirAt : DirNamed(tree, names, s, d) = named[MaxDepth][d]
    BY <2>3, <2>4, NameCourse
  <2>6. MaxDepth \in 1 .. MaxDepth /\ MaxDepth - 1 \in 0 .. MaxDepth
    BY <2>4
  <2>7. g = DirName(tree, names, s, dir, named[MaxDepth - 1]) /\ named[MaxDepth - 1] \in [DirAt -> Naming]
    BY <2>2, <2>3, <2>5, <2>6 DEF Names
  <2> QED  BY <1>4, <2>3, <2>4, <2>7, DirNameIs
<1>5. CASE ~g.stale
  BY <1>2, <1>3, <1>5
<1>6. CASE g.stale
  <2>1. task' = [task EXCEPT ![t].cwd = [Cwd(t) EXCEPT !.at = "stack"]]
    BY <1>2, <1>6 DEF Cwd
  <2> QED  BY <1>1, <1>2, <1>3, <1>4, <1>6, <2>1
<1> QED  BY <1>5, <1>6

LEMMA GetcwdKeeps ==
  ASSUME IInv, NEW t \in Tasks, NEW s \in BufferSizes, Getcwd(t, s)
  PROVE  IInv'
<1>1. SameDisks /\ UNCHANGED files /\ call'.op # "read"
  BY GetcwdMakes
<1>2. CASE UNCHANGED task
  BY <1>1, <1>2, QuietCall
<1>3. CASE ~UNCHANGED task
  <2>1. task' = [task EXCEPT ![t].cwd = [Cwd(t) EXCEPT !.at = "stack"]]
    BY <1>3, GetcwdMakes
  <2>2. PICK c : c = [Cwd(t) EXCEPT !.at = "stack"]
    OBVIOUS
  <2>3. c \in CwdsIn(Places) /\ CwdIsSound(disks, c)
    <3>1. Cwd(t) \in CwdsIn(Places)
      BY TaskIs DEF IInv
    <3> QED  BY <2>2, <3>1 DEF CwdsIn, CwdIsSound
  <2>4. TasksInv'
    BY <1>1, <2>1, <2>2, <2>3, CwdIsReplaced DEF IInv
  <2>5. ReadIsRight'
    BY <1>1 DEF ReadIsRight
  <2> QED  BY <1>1, <2>4, <2>5, DisksStay, FilesStay DEF IInv
<1> QED  BY <1>2, <1>3
-----------------------------------------------------------------------------
(* spawn: a task that is made has a program on a disk with a file system.  *)
LEMMA SpawnMakes ==
  ASSUME IInv, NEW t \in Tasks, NEW path \in Paths, Spawn(t, path)
  PROVE  /\ SameDisks /\ UNCHANGED files /\ call'.op # "read"
         /\ \/ UNCHANGED task
            \/ \E it \in TasksIn(Places) : TaskIsSound(disks, it) /\ task' = Append(task, it)
<1>1. PICK di, f, d : di = DiskOf(path) /\ f = Found1(t, path)
                      /\ d = OpenDir(TreeOf(root), Cwd(t).ino, Dirname(path))
  OBVIOUS
<1>2. PICK r : r = SpawnResult(path, f, d)
  OBVIOUS
<1>3. PICK c : c = IF d.r < 0 THEN [di |-> root, ino |-> 0, par |-> 0, at |-> "junk"] ELSE HeapDir(root, d)
  OBVIOUS
<1>4. PICK it : it = [dm |-> di, whole |-> r = 0, cwd |-> c]
  OBVIOUS
<1>5. PICK made \in BOOLEAN : made = (r = 0 \/ (r = -ENOENT /\ f.ino > 0))
  OBVIOUS
<1>6. Cwd(t).at = "heap" /\ path.names # <<>>
  BY DEF Spawn
<1>7. CASE Crash([op |-> "spawn"])
  <2>1. SameDisks /\ UNCHANGED <<task, files>> /\ call' = [op |-> "spawn"]
    BY <1>7, CrashIsQuiet
  <2>2. call'.op # "read"
    BY <2>1
  <2> QED  BY <2>1, <2>2
<1>8. CASE /\ Return([op |-> "spawn", ret |-> r, path |-> path])
           /\ task' = IF made THEN Append(task, it) ELSE task
           /\ UNCHANGED files
  <2>1. SameDisks /\ call'.op # "read"
    <3>1. SameDisks /\ call' = [op |-> "spawn", ret |-> r, path |-> path]
      BY <1>8, ReturnKeepsDisks
    <3> QED  BY <3>1
  <2>2. CASE ~made
    BY <1>8, <2>1, <2>2
  <2>3. CASE made
    <3>1. /\ DisksInv /\ Cwd(t).ino \in Int /\ HasTree(disks, root)
          /\ CwdIsSound(disks, Cwd(t)) /\ PathIs(path) /\ di \in Places
      BY <1>1, TaskIs, PathsAre DEF IInv
    <3>2. Cwd(t).ino # 0
      <4>1. HasTree(disks, Cwd(t).di) /\ IsOpened(TreeAt(disks, Cwd(t).di), Cwd(t).ino, Cwd(t).par)
        BY <1>6, <3>1 DEF CwdIsSound
      <4>2. TreeIsSound(TreeAt(disks, Cwd(t).di))
        BY <3>1, <4>1, TreesAreNamed
      <4> QED  BY <4>1, <4>2 DEF IsOpened, TreeIsSound
    <3>3. f.di = di /\ f.ino \in Int /\ f.ino # 0 /\ ((f.ino > 0 /\ Fs(di) # "dev") => HasTree(disks, di))
      BY <1>1, <3>1, <3>2, FoundIs
    <3>4. f.ino > 0 /\ Fs(di) # "dev"
      <4>1. r = IF f.ino <= 0 THEN f.ino
                ELSE IF Fs(di) = "dev" THEN -EINVAL
                ELSE IF DirBit(Node(TreeOf(di), f.ino)) THEN -EISDIR
                ELSE IF Last(path.names) \notin Programs THEN -ENOEXEC
                ELSE IF d.r < 0 THEN -ENOENT ELSE 0
        BY <1>2, <3>3 DEF SpawnResult
      <4>. r = 0 \/ (r = -ENOENT /\ f.ino > 0)
        BY <1>5, <2>3
      <4>2. f.ino > 0
        BY <3>3, <4>1 DEF ENOENT
      <4>3. Fs(di) # "dev"
        <5> SUFFICES ASSUME Fs(di) = "dev" PROVE FALSE
          OBVIOUS
        <5>1. r = -22
          BY <3>3, <4>1, <4>2 DEF EINVAL
        <5> QED  BY <5>1 DEF ENOENT
      <4> QED  BY <4>2, <4>3
    <3>5. HasTree(disks, di)
      BY <3>3, <3>4
    <3>6. root \in Places /\ 0 \in Int
      BY DEF Places
    <3>7. c \in CwdsIn(Places) /\ CwdIsSound(disks, c)
      <4>1. CASE d.r < 0
        <5>1. c = [di |-> root, ino |-> 0, par |-> 0, at |-> "junk"]
          BY <1>3, <4>1
        <5> QED  BY <3>6, <5>1 DEF CwdsIn, CwdIsSound
      <4>2. CASE ~(d.r < 0)
        <5>1. c = HeapDir(root, d)
          BY <1>3, <4>2
        <5>2. PathIs(Dirname(path))
          <6>1. path.abs \in BOOLEAN /\ path.names \in Seq(STRING)
            BY FilesAssumption
          <6> QED  BY <1>6, <6>1, DirnameIs
        <5> QED  BY <1>1, <3>1, <3>6, <5>1, <5>2, HeapDirIs
      <4> QED  BY <4>1, <4>2
    <3>8. it \in TasksIn(Places) /\ TaskIsSound(disks, it)
      <4>1. (r = 0) \in BOOLEAN
        OBVIOUS
      <4> QED  BY <1>4, <3>1, <3>5, <3>7, <4>1 DEF TasksIn, TaskIsSound
    <3> QED  BY <1>8, <2>1, <2>3, <3>8
  <2> QED  BY <2>2, <2>3
<1>9. \/ Crash([op |-> "spawn"])
      \/ /\ Return([op |-> "spawn", ret |-> r, path |-> path])
         /\ task' = IF made THEN Append(task, it) ELSE task
         /\ UNCHANGED files
  BY <1>1, <1>2, <1>3, <1>4, <1>5 DEF Spawn
<1> QED  BY <1>7, <1>8, <1>9

LEMMA SpawnKeeps ==
  ASSUME IInv, NEW t \in Tasks, NEW path \in Paths, Spawn(t, path)
  PROVE  IInv'
<1>1. SameDisks /\ UNCHANGED files /\ call'.op # "read"
  BY SpawnMakes
<1>2. CASE UNCHANGED task
  BY <1>1, <1>2, QuietCall
<1>3. CASE ~UNCHANGED task
  <2>1. PICK it \in TasksIn(Places) : TaskIsSound(disks, it) /\ task' = Append(task, it)
    BY <1>3, SpawnMakes
  <2>2. HasTree(disks, root)
    BY TaskIs DEF IInv
  <2>3. TasksInv'
    BY <1>1, <2>1, <2>2, TaskIsAdded DEF IInv
  <2>4. ReadIsRight'
    BY <1>1 DEF ReadIsRight
  <2> QED  BY <1>1, <2>3, <2>4, DisksStay, FilesStay DEF IInv
<1> QED  BY <1>2, <1>3

LEMMA NextIsGood ==
  ASSUME IInv, [Next]_vars
  PROVE  IInv'
<1>1. ASSUME OpenSome PROVE IInv'
  BY <1>1, OpenKeeps DEF OpenSome
<1>2. ASSUME CloseSome PROVE IInv'
  BY <1>2, CloseKeeps DEF CloseSome
<1>3. ASSUME StatSome PROVE IInv'
  BY <1>3, StatKeeps DEF StatSome
<1>4. ASSUME ReadSome PROVE IInv'
  BY <1>4, ReadKeeps DEF ReadSome
<1>5. ASSUME WriteSome PROVE IInv'
  BY <1>5, WriteKeeps DEF WriteSome
<1>6. ASSUME ReadDirSome PROVE IInv'
  BY <1>6, ReadDirKeeps DEF ReadDirSome
<1>7. ASSUME ChdirSome PROVE IInv'
  BY <1>7, ChdirKeeps DEF ChdirSome
<1>8. ASSUME GetcwdSome PROVE IInv'
  BY <1>8, GetcwdKeeps DEF GetcwdSome
<1>9. ASSUME SpawnSome PROVE IInv'
  BY <1>9, SpawnKeeps DEF SpawnSome
<1>10. ASSUME UNCHANGED vars PROVE IInv'
  <2>1. SameDisks /\ UNCHANGED <<task, files>> /\ UNCHANGED call
    BY <1>10 DEF vars, SameDisks
  <2>2. ReadIsRight'
    BY <2>1 DEF IInv, ReadIsRight
  <2>3. files' \subseteq files
    BY <2>1
  <2> QED  BY <2>1, <2>2, <2>3, DisksStay, TasksStay, FilesStay DEF IInv
<1> QED  BY <1>1, <1>2, <1>3, <1>4, <1>5, <1>6, <1>7, <1>8, <1>9, <1>10 DEF Next
-----------------------------------------------------------------------------
(***************************************************************************)
(* The walk over the buses at boot.  A state of the walk is sane when what *)
(* it found shows, once each, and when its windows let each bus it has     *)
(* come to be looked up in the bus's own domain.  The walk of a bus leaves *)
(* the buses it had come to before as they were, and finds all there is on *)
(* the ones it comes to; that it does not run out of depth is a count of   *)
(* the buses it is in the midst of.                                        *)
(***************************************************************************)

BusOf(f) == <<f.dom, f.bus>>
Once(q) == \A i, j \in DOMAIN q : q[i] = q[j] => i = j

LEMMA AppendedIs ==
  ASSUME NEW S, NEW q \in Seq(S), NEW x \in S
  PROVE  /\ Append(q, x) \in Seq(S) /\ Range(Append(q, x)) = Range(q) \cup {x}
         /\ Once(q) /\ x \notin Range(q) => Once(Append(q, x))
<1>1. PICK n : n = Len(q)
  OBVIOUS
<1>2. n \in Nat /\ DOMAIN q = 1 .. n
  BY <1>1
<1>3. PICK r : r = Append(q, x)
  OBVIOUS
<1>4. r \in Seq(S) /\ DOMAIN r = 1 .. n + 1 /\ r[n + 1] = x /\ \A i \in 1 .. n : r[i] = q[i]
  BY <1>1, <1>3
<1>5. \A i \in 1 .. n + 1 : i = n + 1 \/ i \in 1 .. n
  BY <1>2
<1>6. n + 1 \in 1 .. n + 1 /\ 1 .. n \subseteq 1 .. n + 1
  BY <1>2
<1>7. Range(r) = Range(q) \cup {x}
  BY <1>2, <1>4, <1>5, <1>6 DEF Range
<1>8. ASSUME Once(q), x \notin Range(q) PROVE Once(r)
  <2>1. \A i \in 1 .. n : q[i] # x
    BY <1>2, <1>8 DEF Range
  <2> QED  BY <1>2, <1>4, <1>5, <1>8, <2>1 DEF Once
<1> QED  BY <1>3, <1>4, <1>7, <1>8

(* The functions of a machine are numbered as they are.                    *)
LEMMA FunctionIs ==
  ASSUME NEW m, MachineIsSound(m), NEW f \in m.functions
  PROVE  /\ f.dom \in Nat /\ f.bus \in Nat /\ f.dev \in 0 .. 31 /\ f.func \in 0 .. 7
         /\ f.sec \in Nat /\ f.bits \in Nat /\ f.buses \in Nat /\ f.id \in Nat
         /\ VmdBus(m, f) \in Nat
<1>1. f \in PciFunction /\ m.leftover \in Nat
  BY DEF MachineIsSound
<1> QED  BY <1>1 DEF PciFunction, VmdBus

(* The buses: closed under what leads on, and the least such.              *)
LEMMA BusesLead ==
  ASSUME NEW m
  PROVE  /\ FirstBus \in Buses(m) /\ Buses(m) \subseteq AnyBuses(m)
         /\ \A b \in Buses(m) : \A f \in ShownOn(m, b) : LeadsOn(f) => LeadsTo(m, f) \in Buses(m)
         /\ \A C \in SUBSET AnyBuses(m) : LeadsNowhereElse(m, C) => Buses(m) \subseteq C
<1>1. FirstBus \in Buses(m) /\ Buses(m) \subseteq AnyBuses(m)
  BY DEF Buses, AnyBuses, LeadsNowhereElse
<1>2. ASSUME NEW b \in Buses(m), NEW f \in ShownOn(m, b), LeadsOn(f) PROVE LeadsTo(m, f) \in Buses(m)
  <2>1. LeadsTo(m, f) \in AnyBuses(m)
    BY <1>2 DEF ShownOn, AnyBuses
  <2>2. ASSUME NEW C \in SUBSET AnyBuses(m), LeadsNowhereElse(m, C) PROVE LeadsTo(m, f) \in C
    <3>1. b \in C
      BY <2>2 DEF Buses
    <3> QED  BY <1>2, <2>2, <3>1 DEF LeadsNowhereElse
  <2> QED  BY <2>1, <2>2 DEF Buses
<1>3. ASSUME NEW C \in SUBSET AnyBuses(m), LeadsNowhereElse(m, C) PROVE Buses(m) \subseteq C
  BY <1>3 DEF Buses
<1> QED  BY <1>1, <1>2, <1>3

LEMMA ShownIs ==
  ASSUME NEW m, NEW f
  PROVE  /\ f \in Shown(m) <=> f \in m.functions /\ Shows(m, f) /\ BusOf(f) \in Buses(m)
         /\ \A b : f \in ShownOn(m, b) <=> f \in m.functions /\ Shows(m, f) /\ BusOf(f) = b
BY DEF Shown, ShownOn, BusOf

LEMMA BusIs ==
  ASSUME NEW m, MachineIsSound(m), NEW b \in AnyBuses(m)
  PROVE  b \in Nat \X Nat /\ b = <<b[1], b[2]>> /\ b[1] \in Nat /\ b[2] \in Nat
<1>1. b \in Nat \X Nat
  <2>1. CASE b = FirstBus
    BY <2>1 DEF FirstBus
  <2>2. CASE b # FirstBus
    <3>1. PICK f \in m.functions : LeadsOn(f) /\ b = LeadsTo(m, f)
      BY <2>2 DEF AnyBuses
    <3> QED  BY <3>1, FunctionIs DEF LeadsTo
  <2> QED  BY <2>1, <2>2
<1> QED  BY <1>1
-----------------------------------------------------------------------------
(* The buses the walk has come to: where what it found leads.              *)
Entered(m, s) == {FirstBus} \cup {LeadsTo(m, f) : f \in {g \in Range(s.found) : LeadsOn(g)}}

(* The list of windows: those of the firmware, then one for each VMD.      *)
WindowsAre(m, found, windows) ==
  /\ windows \in Seq(Window) /\ Len(m.bridges) <= Len(windows)
  /\ \A k \in 1 .. Len(m.bridges) : windows[k] = FirstWindow(m.bridges[k])
  /\ \A k \in 1 .. Len(windows) : k > Len(m.bridges) => \E f \in Vmds(m) : windows[k] = VmdWindow(m, f)
  /\ \A f \in Range(found) : f.kind = "vmd" => \E k \in 1 .. Len(windows) : windows[k] = VmdWindow(m, f)

(* A state of the walk: what it found shows, once each, on buses it has    *)
(* come to, and behind VMDs it found.                                      *)
Sane(m, s) ==
  /\ s \in States(m) /\ ~s.fault
  /\ Once(s.found) /\ Range(s.found) \subseteq Shown(m)
  /\ \A f \in Range(s.found) : BusOf(f) \in Entered(m, s)
  /\ \A b \in Entered(m, s) : b[1] # 0 => \E f \in Range(s.found) : f.kind = "vmd" /\ f.id = b[1]
  /\ WindowsAre(m, s.found, s.windows)

LEMMA StateIs ==
  ASSUME NEW m, NEW s \in States(m)
  PROVE  /\ s = [found |-> s.found, windows |-> s.windows, open |-> s.open, path |-> s.path, fault |-> s.fault]
         /\ s.found \in Seq(m.functions) /\ s.windows \in Seq(Window) /\ s.open \in BOOLEAN
         /\ s.path \in SUBSET Nat /\ s.fault \in BOOLEAN
BY DEF States

LEMMA EnteredAre ==
  ASSUME NEW m, MachineIsSound(m), NEW s, Sane(m, s)
  PROVE  FirstBus \in Entered(m, s) /\ Entered(m, s) \subseteq Buses(m)
<1>1. FirstBus \in Entered(m, s)
  BY DEF Entered
<1>2. ASSUME NEW f \in Range(s.found), LeadsOn(f) PROVE LeadsTo(m, f) \in Buses(m)
  <2>1. f \in Shown(m)
    BY DEF Sane
  <2>2. f \in ShownOn(m, BusOf(f)) /\ BusOf(f) \in Buses(m)
    BY <2>1, ShownIs
  <2> QED  BY <1>2, <2>2, BusesLead
<1> QED  BY <1>1, <1>2, BusesLead DEF Entered

(* Each bus the walk has come to is looked up in a window of its own       *)
(* domain.                                                                 *)
LEMMA DomainIs ==
  ASSUME NEW m, MachineIsSound(m), Walkable(m), NEW s, Sane(m, s), NEW b \in Entered(m, s)
  PROVE  Windows(s, b[2]) # {} /\ DomainOf(s, b[2]) = b[1]
<1>1. b \in Buses(m) /\ b[2] \in Nat
  BY EnteredAre, BusesLead, BusIs
<1>2. WindowsAre(m, s.found, s.windows)
  BY DEF Sane
<1>3. s.windows \in Seq(Window) /\ Len(s.windows) \in Nat /\ DOMAIN s.windows = 1 .. Len(s.windows)
  BY <1>2 DEF WindowsAre
<1>4. m.bridges \in Seq([start : Nat, end : Nat]) /\ Len(m.bridges) \in Nat
      /\ DOMAIN m.bridges = 1 .. Len(m.bridges)
  BY DEF MachineIsSound
<1>5. Windows(s, b[2]) \in SUBSET Nat
  BY <1>3 DEF Windows
<1>6. \A k \in 1 .. Len(m.bridges) :
        k \in DOMAIN s.windows /\ (k \in Windows(s, b[2]) <=> Covers(m.bridges[k], b[2])) /\ s.windows[k].dom = 0
  <2> SUFFICES ASSUME NEW k \in 1 .. Len(m.bridges)
               PROVE  k \in DOMAIN s.windows /\ (k \in Windows(s, b[2]) <=> Covers(m.bridges[k], b[2]))
                      /\ s.windows[k].dom = 0
    OBVIOUS
  <2>1. k \in DOMAIN s.windows /\ s.windows[k] = FirstWindow(m.bridges[k])
    BY <1>2, <1>3, <1>4 DEF WindowsAre
  <2> QED  BY <2>1 DEF Windows, Covers, FirstWindow
<1>7. InFirmware(m, b[2]) <=> \E k \in 1 .. Len(m.bridges) : k \in Windows(s, b[2])
  BY <1>4, <1>6 DEF InFirmware, Range
<1>8. ASSUME NEW k \in Windows(s, b[2]), k > Len(m.bridges) PROVE s.windows[k].dom \in Around(m, b[2])
  <2>1. k \in 1 .. Len(s.windows) /\ Covers(s.windows[k], b[2])
    BY <1>3 DEF Windows
  <2>2. PICK f \in Vmds(m) : s.windows[k] = VmdWindow(m, f)
    BY <1>2, <1>8, <2>1 DEF WindowsAre
  <2>3. s.windows[k].dom = f.id
    BY <2>2 DEF VmdWindow
  <2> QED  BY <2>1, <2>2, <2>3 DEF Around
<1>9. Windows(s, b[2]) # {} => /\ Min(Windows(s, b[2])) \in Windows(s, b[2])
                                /\ \A k \in Windows(s, b[2]) : Min(Windows(s, b[2])) <= k
  BY <1>5, MinIsElement
<1>10. CASE b[1] = 0
  <2>1. InFirmware(m, b[2])
    BY <1>1, <1>10 DEF Walkable
  <2>2. PICK k \in 1 .. Len(m.bridges) : k \in Windows(s, b[2])
    BY <1>7, <2>1
  <2>3. Min(Windows(s, b[2])) \in 1 .. Len(m.bridges)
    <3>1. Min(Windows(s, b[2])) \in DOMAIN s.windows /\ Min(Windows(s, b[2])) <= k
      BY <1>9, <2>2 DEF Windows
    <3> QED  BY <1>3, <1>4, <2>2, <3>1
  <2> QED  BY <1>6, <1>10, <2>2, <2>3 DEF DomainOf
<1>11. CASE b[1] # 0
  <2>1. Around(m, b[2]) = {b[1]} /\ ~InFirmware(m, b[2])
    BY <1>1, <1>11 DEF Walkable
  <2>2. PICK f \in Range(s.found) : f.kind = "vmd" /\ f.id = b[1]
    BY <1>11 DEF Sane
  <2>3. PICK g \in Vmds(m) : g.id = b[1] /\ Covers(VmdWindow(m, g), b[2])
    BY <2>1 DEF Around
  <2>4. f = g
    <3>1. f \in m.functions /\ g \in m.functions /\ g.kind = "vmd"
      BY <2>2, <2>3, ShownIs DEF Sane, Vmds
    <3> QED  BY <2>2, <2>3, <3>1 DEF MachineIsSound
  <2>5. PICK k \in 1 .. Len(s.windows) : s.windows[k] = VmdWindow(m, f)
    BY <1>2, <2>2 DEF WindowsAre
  <2>6. k \in Windows(s, b[2])
    BY <1>3, <2>3, <2>4, <2>5 DEF Windows
  <2>7. Min(Windows(s, b[2])) > Len(m.bridges)
    <3>1. Min(Windows(s, b[2])) \in Windows(s, b[2]) /\ Min(Windows(s, b[2])) \notin 1 .. Len(m.bridges)
      BY <1>7, <1>9, <2>1, <2>6
    <3> QED  BY <1>3, <1>4, <3>1 DEF Windows
  <2>8. s.windows[Min(Windows(s, b[2]))].dom \in Around(m, b[2])
    BY <1>8, <1>9, <2>6, <2>7
  <2> QED  BY <2>1, <2>6, <2>8 DEF DomainOf
<1> QED  BY <1>10, <1>11
-----------------------------------------------------------------------------
(* Whatever it is given, the walk makes states of states, so that each of  *)
(* its loops has a course.                                                 *)
Walks(m) == [States(m) \X Nat -> States(m)]

LEMMA FuncMakes ==
  ASSUME NEW m, MachineIsSound(m), NEW walk \in Walks(m), NEW s \in States(m), NEW f \in m.functions
  PROVE  EnumFunc(m, walk, s, f) \in States(m)
<1>1. PICK u : u = [s EXCEPT !.found = Append(@, f)]
  OBVIOUS
<1>2. u \in States(m) /\ u.windows \in Seq(Window)
  BY <1>1, StateIs, AppendProperties DEF States
<1>3. f.sec \in Nat /\ VmdBus(m, f) \in Nat /\ VmdWindow(m, f) \in Window
  <2>1. f.sec \in Nat /\ VmdBus(m, f) \in Nat /\ f.buses \in Nat /\ f.id \in Nat
    BY FunctionIs
  <2> QED  BY <2>1 DEF VmdWindow, Window
<1>4. EnumVmd(m, walk, u, f) \in States(m)
  <2>1. PICK v : v = [u EXCEPT !.windows = Append(@, VmdWindow(m, f)), !.open = TRUE]
    OBVIOUS
  <2>2. v \in States(m)
    BY <1>2, <1>3, <2>1, StateIs, AppendProperties DEF States
  <2>3. PICK t : t = walk[v, VmdBus(m, f)]
    OBVIOUS
  <2>4. t \in States(m)
    BY <1>3, <2>2, <2>3 DEF Walks
  <2>5. [t EXCEPT !.open = FALSE] \in States(m) /\ Stop(u) \in States(m)
    BY <1>2, <2>4 DEF States, Stop
  <2> QED  BY <2>1, <2>3, <2>5 DEF EnumVmd
<1>5. walk[u, f.sec] \in States(m)
  BY <1>2, <1>3 DEF Walks
<1> QED  BY <1>1, <1>2, <1>4, <1>5 DEF EnumFunc

LEMMA VisitMakes ==
  ASSUME NEW m, MachineIsSound(m), NEW walk \in Walks(m), NEW s \in States(m),
         NEW answers \in SUBSET m.functions
  PROVE  Visit(m, walk, s, answers) \in States(m)
BY FuncMakes DEF Visit

LEMMA AnswersAre ==
  ASSUME NEW m, NEW s, NEW bus, NEW dev, NEW func
  PROVE  Answers(m, s, bus, dev, func) \in SUBSET m.functions
BY DEF Answers, At

(* The course of pci_enum_dev.                                             *)
Others(m, walk, s, bus, dev, visited) ==
  \A k \in 1 .. 7 : visited[k] = Visit(m, walk, visited[k - 1], Answers(m, s, bus, dev, k))

LEMMA DevCourse ==
  ASSUME NEW m, MachineIsSound(m), NEW walk \in Walks(m), NEW s \in States(m), NEW bus \in Nat, NEW dev \in Nat
  PROVE  \E visited \in [0 .. 7 -> States(m)] :
           /\ visited[0] = Visit(m, walk, s, Answers(m, s, bus, dev, 0))
           /\ Others(m, walk, s, bus, dev, visited)
           /\ EnumDev(m, walk, s, bus, dev)
                = IF HasMany(Answers(m, s, bus, dev, 0)) THEN visited[7] ELSE visited[0]
<1>1. PICK start : start = Visit(m, walk, s, Answers(m, s, bus, dev, 0))
  OBVIOUS
<1>2. start \in States(m)
  BY <1>1, VisitMakes, AnswersAre
<1>3. PICK g : g = [k \in 1 .. 7 |-> [v \in States(m) |-> Visit(m, walk, v, Answers(m, s, bus, dev, k))]]
  OBVIOUS
<1>4. g \in [1 .. 7 -> [States(m) -> States(m)]]
  BY <1>3, VisitMakes, AnswersAre
<1>5. PICK visited : Course(7, States(m), start, g, visited)
  BY <1>2, <1>4, SomeCourse
<1>6. visited \in [0 .. 7 -> States(m)] /\ visited[0] = start
  BY <1>5 DEF Course
<1>7. ASSUME NEW k \in 1 .. 7
      PROVE  visited[k] = Visit(m, walk, visited[k - 1], Answers(m, s, bus, dev, k))
  <2>1. k - 1 \in 0 .. 7
    OBVIOUS
  <2>2. visited[k - 1] \in States(m)
    BY <1>6, <2>1
  <2> QED  BY <1>3, <1>5, <2>2 DEF Course
<1>8. PICK f : f = CHOOSE loop : loop = [k \in 0 .. 7 |->
                IF k = 0 THEN Visit(m, walk, s, Answers(m, s, bus, dev, 0))
                ELSE IF k \in OtherFunctions
                THEN Visit(m, walk, loop[k - 1], Answers(m, s, bus, dev, k))
                ELSE loop[k - 1]]
  OBVIOUS
<1>9. \A k \in 0 .. 7 : k = 0 \/ k \in 1 .. 7
  OBVIOUS
<1>10. visited = [k \in 0 .. 7 |->
                IF k = 0 THEN Visit(m, walk, s, Answers(m, s, bus, dev, 0))
                ELSE IF k \in OtherFunctions
                THEN Visit(m, walk, visited[k - 1], Answers(m, s, bus, dev, k))
                ELSE visited[k - 1]]
  BY <1>1, <1>6, <1>7, <1>9 DEF OtherFunctions
<1>11. f = [k \in 0 .. 7 |->
                IF k = 0 THEN Visit(m, walk, s, Answers(m, s, bus, dev, 0))
                ELSE IF k \in OtherFunctions
                THEN Visit(m, walk, f[k - 1], Answers(m, s, bus, dev, k))
                ELSE f[k - 1]]
  BY <1>8, <1>10
<1>12. \A k \in 1 .. 7 : k \in 0 .. 7 /\ k # 0
  OBVIOUS
<1>13. DOMAIN f = 0 .. 7 /\ DOMAIN visited = 0 .. 7 /\ f[0] = visited[0]
  BY <1>1, <1>6, <1>9, <1>11
<1>14. \A k \in 1 .. 7 : f[k - 1] = visited[k - 1] => f[k] = visited[k]
  BY <1>7, <1>11, <1>12 DEF OtherFunctions
<1>15. f[0] = visited[0] /\ f[7] = visited[7]
  BY <1>13, <1>14, OneCourse
<1>16. EnumDev(m, walk, s, bus, dev) = f[IF HasMany(Answers(m, s, bus, dev, 0)) THEN 7 ELSE 0]
  BY <1>8 DEF EnumDev
<1>17. Others(m, walk, s, bus, dev, visited)
  BY <1>7 DEF Others
<1> QED  BY <1>1, <1>6, <1>15, <1>16, <1>17

LEMMA NextDevMakes ==
  ASSUME NEW m, MachineIsSound(m), NEW walk \in Walks(m), NEW s \in States(m), NEW bus \in Nat, NEW dev \in Nat
  PROVE  NextDev(m, walk, s, bus, dev) \in States(m)
<1>1. EnumDev(m, walk, s, bus, dev) \in States(m)
  <2>1. PICK visited \in [0 .. 7 -> States(m)] :
          EnumDev(m, walk, s, bus, dev)
            = IF HasMany(Answers(m, s, bus, dev, 0)) THEN visited[7] ELSE visited[0]
    BY DevCourse
  <2> QED  BY <2>1
<1> QED  BY <1>1 DEF NextDev

(* The course of pci_enum_bus.                                             *)
Devs(m, walk, s, bus, visited) ==
  /\ visited \in [0 .. 32 -> States(m)] /\ visited[0] = s
  /\ \A k \in 1 .. 32 : visited[k] = NextDev(m, walk, visited[k - 1], bus, k - 1)
  /\ EnumDevs(m, walk, s, bus) = visited[32]

LEMMA DevsCourse ==
  ASSUME NEW m, MachineIsSound(m), NEW walk \in Walks(m), NEW s \in States(m), NEW bus \in Nat
  PROVE  \E visited : Devs(m, walk, s, bus, visited)
<1>1. PICK g : g = [k \in 1 .. 32 |-> [v \in States(m) |-> NextDev(m, walk, v, bus, k - 1)]]
  OBVIOUS
<1>2. g \in [1 .. 32 -> [States(m) -> States(m)]]
  <2>1. \A k \in 1 .. 32 : k - 1 \in Nat
    OBVIOUS
  <2> QED  BY <1>1, <2>1, NextDevMakes
<1>3. PICK visited : Course(32, States(m), s, g, visited)
  BY <1>2, SomeCourse
<1>4. visited \in [0 .. 32 -> States(m)] /\ visited[0] = s
  BY <1>3 DEF Course
<1>5. ASSUME NEW k \in 1 .. 32 PROVE visited[k] = NextDev(m, walk, visited[k - 1], bus, k - 1)
  <2>1. k - 1 \in 0 .. 32
    OBVIOUS
  <2>2. visited[k - 1] \in States(m)
    BY <1>4, <2>1
  <2> QED  BY <1>1, <1>3, <2>2 DEF Course
<1>6. PICK f : f = CHOOSE loop : loop = [k \in 0 .. 32 |->
                IF k = 0 THEN s ELSE NextDev(m, walk, loop[k - 1], bus, k - 1)]
  OBVIOUS
<1>7. visited = [k \in 0 .. 32 |-> IF k = 0 THEN s ELSE NextDev(m, walk, visited[k - 1], bus, k - 1)]
  <2>1. \A k \in 0 .. 32 : k = 0 \/ k \in 1 .. 32
    OBVIOUS
  <2> QED  BY <1>4, <1>5, <2>1
<1>8. f = [k \in 0 .. 32 |-> IF k = 0 THEN s ELSE NextDev(m, walk, f[k - 1], bus, k - 1)]
  BY <1>6, <1>7
<1>9. DOMAIN f = 0 .. 32 /\ DOMAIN visited = 0 .. 32 /\ f[0] = visited[0]
  BY <1>4, <1>8
<1>10. \A k \in 1 .. 32 : f[k - 1] = visited[k - 1] => f[k] = visited[k]
  <2>1. \A k \in 1 .. 32 : k \in 0 .. 32 /\ k # 0
    OBVIOUS
  <2> QED  BY <1>5, <1>8, <2>1
<1>11. f[32] = visited[32]
  BY <1>9, <1>10, OneCourse
<1>12. EnumDevs(m, walk, s, bus) = f[32]
  BY <1>6 DEF EnumDevs
<1>13. Devs(m, walk, s, bus, visited)
  BY <1>4, <1>5, <1>11, <1>12 DEF Devs
<1> QED  BY <1>13

LEMMA BusMakes ==
  ASSUME NEW m, MachineIsSound(m), NEW walk \in Walks(m), NEW s \in States(m), NEW bus \in Nat
  PROVE  EnumBus(m, walk, s, bus) \in States(m)
<1>1. PICK u : u = [s EXCEPT !.path = @ \cup {bus}]
  OBVIOUS
<1>2. u \in States(m) /\ s.path \in SUBSET Nat
  BY <1>1 DEF States
<1>3. PICK t : t = EnumDevs(m, walk, u, bus)
  OBVIOUS
<1>4. t \in States(m)
  <2>1. PICK visited : Devs(m, walk, u, bus, visited)
    BY <1>2, DevsCourse
  <2> QED  BY <1>3, <2>1 DEF Devs
<1>5. [t EXCEPT !.path = s.path] \in States(m) /\ Stop(s) \in States(m)
  BY <1>2, <1>4 DEF States, Stop
<1> QED  BY <1>1, <1>3, <1>5 DEF EnumBus
-----------------------------------------------------------------------------
(* From s, in which the walk came to bus b, to v: what v found is P of     *)
(* what shows on b, nothing new on the other buses it had come to, and all *)
(* there is on those it came to since.                                     *)
Walking(m, s, b, v, P) ==
  /\ Sane(m, v) /\ Range(s.found) \subseteq Range(v.found) /\ v.open = s.open
  /\ Range(v.found) \cap ShownOn(m, b) = P
  /\ \A c \in Entered(m, s) : c # b => Range(v.found) \cap ShownOn(m, c) = Range(s.found) \cap ShownOn(m, c)
  /\ \A c \in Entered(m, v) : c \notin Entered(m, s) => ShownOn(m, c) \subseteq Range(v.found)

(* When b may be walked: the walk came to it, but has not been there, and  *)
(* what is left of the depth is enough for the buses that are left.        *)
May(m, s, b, n) ==
  /\ Sane(m, s) /\ b \in Entered(m, s) /\ Range(s.found) \cap ShownOn(m, b) = {}
  /\ b[2] \notin s.path /\ s.path \subseteq {c[2] : c \in Entered(m, s)}
  /\ b[1] = 0 => ~s.open
  /\ IsFiniteSet(s.path) /\ n + Cardinality(s.path) = Deepest(m)

WalkIs(m, walk, n) ==
  \A s, b : May(m, s, b, n) => /\ Walking(m, s, b, walk[s, b[2]], ShownOn(m, b))
                              /\ walk[s, b[2]].path = s.path

(* The walk of b from s is under way, with all it needs, and has come to v. *)
Under(m, n, walk, s, b) ==
  /\ MachineIsSound(m) /\ Walkable(m) /\ n \in Nat /\ n # 0
  /\ walk \in Walks(m) /\ WalkIs(m, walk, n - 1) /\ May(m, s, b, n)
Done(m, s, b, v, P) == Walking(m, s, b, v, P) /\ v.path = s.path \cup {b[2]}

LEMMA EnteredGrows ==
  ASSUME NEW m, NEW s, NEW t, Range(s.found) \subseteq Range(t.found)
  PROVE  Entered(m, s) \subseteq Entered(m, t)
BY DEF Entered

(* One function more is found.                                             *)
LEMMA FoundOneMore ==
  ASSUME NEW m, MachineIsSound(m), Walkable(m), NEW v, Sane(m, v), NEW b \in Entered(m, v),
         NEW f \in ShownOn(m, b), f \notin Range(v.found),
         NEW u, u \in States(m), ~u.fault, Range(u.found) = Range(v.found) \cup {f}, Once(u.found),
         WindowsAre(m, u.found, u.windows)
  PROVE  /\ Sane(m, u)
         /\ ~LeadsOn(f) => Entered(m, u) = Entered(m, v)
         /\ LeadsOn(f) => /\ Entered(m, u) = Entered(m, v) \cup {LeadsTo(m, f)}
                          /\ LeadsTo(m, f) \notin Entered(m, v)
<1>1. b \in Buses(m) /\ f \in m.functions /\ f \in Shown(m) /\ BusOf(f) = b
  BY EnteredAre, ShownIs
<1>2. Range(u.found) = Range(v.found) \cup {f} /\ Once(u.found)
  OBVIOUS
<1>3. Entered(m, u) = IF LeadsOn(f) THEN Entered(m, v) \cup {LeadsTo(m, f)} ELSE Entered(m, v)
  BY <1>2 DEF Entered
<1>4. ASSUME LeadsOn(f) PROVE LeadsTo(m, f) \notin Entered(m, v)
  <2> SUFFICES ASSUME LeadsTo(m, f) \in Entered(m, v) PROVE FALSE
    OBVIOUS
  <2>1. f \in Leading(m) /\ LeadsTo(m, f) # FirstBus
    BY <1>1, <1>4 DEF Leading, Walkable
  <2>2. PICK g \in Range(v.found) : LeadsOn(g) /\ LeadsTo(m, g) = LeadsTo(m, f)
    BY <2>1 DEF Entered
  <2>3. g \in Leading(m)
    BY <2>2 DEF Sane, Leading
  <2>4. f = g
    BY <2>1, <2>2, <2>3 DEF Walkable
  <2> QED  BY <2>2, <2>4
<1>5. \A g \in Range(u.found) : g \in Shown(m) /\ BusOf(g) \in Entered(m, u)
  BY <1>1, <1>2, <1>3 DEF Sane
<1>6. ASSUME NEW c \in Entered(m, u), c[1] # 0
      PROVE  \E g \in Range(u.found) : g.kind = "vmd" /\ g.id = c[1]
  <2>1. CASE c \in Entered(m, v)
    BY <1>2, <1>6, <2>1 DEF Sane
  <2>2. CASE c \notin Entered(m, v) /\ f.kind = "vmd"
    <3>1. c = LeadsTo(m, f)
      BY <1>3, <2>2
    <3> QED  BY <1>2, <2>2, <3>1 DEF LeadsTo
  <2>3. CASE c \notin Entered(m, v) /\ f.kind # "vmd"
    <3>1. c = LeadsTo(m, f)
      BY <1>3, <2>3
    <3>2. c[1] = b[1]
      BY <1>1, <2>3, <3>1 DEF LeadsTo, BusOf
    <3> QED  BY <1>2, <1>6, <3>2 DEF Sane
  <2> QED  BY <2>1, <2>2, <2>3
<1>7. Sane(m, u)
  BY <1>2, <1>5, <1>6 DEF Sane
<1> QED  BY <1>2, <1>3, <1>4, <1>7

(* Windows stay what they are with one more function that is no VMD, and   *)
(* with one more VMD and its window.                                       *)
LEMMA WindowsStay ==
  ASSUME NEW m, NEW found, NEW more, NEW windows, WindowsAre(m, found, windows), NEW f,
         f.kind # "vmd", Range(more) = Range(found) \cup {f}
  PROVE  WindowsAre(m, more, windows)
BY DEF WindowsAre

LEMMA WindowIsAdded ==
  ASSUME NEW m, MachineIsSound(m), NEW found, NEW more, NEW windows, WindowsAre(m, found, windows),
         NEW f \in Vmds(m), Range(more) = Range(found) \cup {f}
  PROVE  WindowsAre(m, more, Append(windows, VmdWindow(m, f)))
<1>1. PICK w : w = VmdWindow(m, f)
  OBVIOUS
<1>2. w \in Window
  <2>1. f \in m.functions
    BY ShownIs DEF Vmds
  <2>2. VmdBus(m, f) \in Nat /\ f.buses \in Nat /\ f.id \in Nat
    BY <2>1, FunctionIs
  <2> QED  BY <1>1, <2>2 DEF VmdWindow, Window
<1>3. PICK n : n = Len(windows)
  OBVIOUS
<1>4. windows \in Seq(Window) /\ n \in Nat /\ Len(m.bridges) \in Nat /\ Len(m.bridges) <= n
  BY <1>3 DEF WindowsAre, MachineIsSound
<1>5. PICK r : r = Append(windows, w)
  OBVIOUS
<1>6. r \in Seq(Window) /\ Len(r) = n + 1 /\ r[n + 1] = w /\ \A k \in 1 .. n : r[k] = windows[k]
  BY <1>2, <1>3, <1>4, <1>5
<1>7. \A k \in 1 .. Len(m.bridges) : k \in 1 .. n
  BY <1>4
<1>8. \A k \in 1 .. n + 1 : k = n + 1 \/ k \in 1 .. n
  BY <1>4
<1>9. n + 1 \in 1 .. n + 1 /\ 1 .. n \subseteq 1 .. n + 1 /\ Len(m.bridges) <= n + 1
  BY <1>4
<1>10. \A k \in 1 .. Len(m.bridges) : r[k] = FirstWindow(m.bridges[k])
  BY <1>3, <1>6, <1>7 DEF WindowsAre
<1>11. \A k \in 1 .. n + 1 : k > Len(m.bridges) => \E g \in Vmds(m) : r[k] = VmdWindow(m, g)
  <2> SUFFICES ASSUME NEW k \in 1 .. n + 1, k > Len(m.bridges) PROVE \E g \in Vmds(m) : r[k] = VmdWindow(m, g)
    OBVIOUS
  <2>1. CASE k = n + 1
    BY <1>1, <1>6, <2>1
  <2>2. CASE k \in 1 .. n
    BY <1>3, <1>6, <2>2 DEF WindowsAre
  <2> QED  BY <1>8, <2>1, <2>2
<1>12. \A g \in Range(more) : g.kind = "vmd" => \E k \in 1 .. n + 1 : r[k] = VmdWindow(m, g)
  <2> SUFFICES ASSUME NEW g \in Range(more), g.kind = "vmd" PROVE \E k \in 1 .. n + 1 : r[k] = VmdWindow(m, g)
    OBVIOUS
  <2>1. CASE g = f
    BY <1>1, <1>6, <1>9, <2>1
  <2>2. CASE g # f
    <3>1. g \in Range(found)
      BY <2>2
    <3>2. PICK k \in 1 .. n : windows[k] = VmdWindow(m, g)
      BY <1>3, <3>1 DEF WindowsAre
    <3> QED  BY <1>6, <1>9, <3>2
  <2> QED  BY <2>1, <2>2
<1>13. WindowsAre(m, more, r)
  BY <1>6, <1>9, <1>10, <1>11, <1>12 DEF WindowsAre
<1> QED  BY <1>1, <1>5, <1>13

(* The bus a function leads to may be walked.                              *)
LEMMA MayGoOn ==
  ASSUME NEW m, MachineIsSound(m), Walkable(m), NEW n \in Nat, NEW s, NEW b, May(m, s, b, n), n # 0,
         NEW v, NEW P, Walking(m, s, b, v, P), v.path = s.path \cup {b[2]},
         NEW f \in ShownOn(m, b), f \notin P, LeadsOn(f),
         NEW u, Sane(m, u), Range(u.found) = Range(v.found) \cup {f}, u.path = v.path,
         Entered(m, u) = Entered(m, v) \cup {LeadsTo(m, f)}, LeadsTo(m, f) \notin Entered(m, v),
         LeadsTo(m, f)[1] = 0 => ~u.open
  PROVE  May(m, u, LeadsTo(m, f), n - 1)
<1>1. PICK c : c = LeadsTo(m, f)
  OBVIOUS
<1>2. c \in Entered(m, u) /\ c \notin Entered(m, v)
  BY <1>1
<1>3. b \in Entered(m, s) /\ Entered(m, s) \subseteq Entered(m, v) /\ Sane(m, v)
  BY EnteredGrows DEF May, Walking
<1>4. Range(u.found) \cap ShownOn(m, c) = {}
  <2> SUFFICES ASSUME NEW g \in Range(u.found), g \in ShownOn(m, c) PROVE FALSE
    OBVIOUS
  <2>1. BusOf(g) = c
    BY ShownIs
  <2>2. CASE g \in Range(v.found)
    BY <1>2, <1>3, <2>1, <2>2 DEF Sane
  <2>3. CASE g = f
    BY <1>2, <1>3, <2>1, <2>3, ShownIs
  <2> QED  BY <2>2, <2>3
<1>5. u.path \subseteq {d[2] : d \in Entered(m, v)}
  BY <1>3 DEF May
<1>6. c[2] \notin u.path
  <2> SUFFICES ASSUME c[2] \in u.path PROVE FALSE
    OBVIOUS
  <2>1. PICK d \in Entered(m, v) : d[2] = c[2]
    BY <1>5
  <2>2. d \in Buses(m) /\ c \in Buses(m)
    BY <1>2, <1>3, EnteredAre
  <2>3. c = d
    BY <2>1, <2>2 DEF Walkable
  <2> QED  BY <1>2, <2>3
<1>7. u.path \subseteq {d[2] : d \in Entered(m, u)}
  BY <1>5
<1>8. IsFiniteSet(u.path) /\ (n - 1) + Cardinality(u.path) = Deepest(m)
  <2>1. IsFiniteSet(s.path) /\ b[2] \notin s.path /\ n + Cardinality(s.path) = Deepest(m)
    BY DEF May
  <2>2. IsFiniteSet(u.path) /\ Cardinality(u.path) = Cardinality(s.path) + 1
    BY <2>1, FS_AddElement
  <2>3. Cardinality(s.path) \in Nat
    BY <2>1, FS_CardinalityType
  <2> QED  BY <2>1, <2>2, <2>3
<1> QED  BY <1>1, <1>2, <1>4, <1>6, <1>7, <1>8 DEF May

(* After the walk of the bus it leads to, one function more is done.       *)
LEMMA OneMoreIsDone ==
  ASSUME NEW m, MachineIsSound(m), Walkable(m), NEW s, NEW b, b \in Entered(m, s),
         NEW v, NEW P, Walking(m, s, b, v, P), NEW f \in ShownOn(m, b), f \notin P, LeadsOn(f),
         NEW u, Range(u.found) = Range(v.found) \cup {f},
         Entered(m, u) = Entered(m, v) \cup {LeadsTo(m, f)}, LeadsTo(m, f) \notin Entered(m, v),
         NEW w, Walking(m, u, LeadsTo(m, f), w, ShownOn(m, LeadsTo(m, f))),
         NEW t, Sane(m, t), t.found = w.found, t.open = s.open
  PROVE  Walking(m, s, b, t, P \cup {f})
<1>1. PICK c : c = LeadsTo(m, f)
  OBVIOUS
<1>2. c \in Entered(m, u) /\ c \notin Entered(m, v) /\ Entered(m, u) = Entered(m, v) \cup {c}
  BY <1>1
<1>3. b \in Entered(m, v) /\ Entered(m, s) \subseteq Entered(m, v)
  BY EnteredGrows DEF Walking
<1>4. Entered(m, t) = Entered(m, w)
  BY DEF Entered
<1>5. Range(u.found) \subseteq Range(t.found)
  BY DEF Walking
<1>6. Range(s.found) \subseteq Range(t.found)
  BY <1>5 DEF Walking
<1>7. \A d \in Entered(m, u) : d # c => Range(t.found) \cap ShownOn(m, d) = Range(u.found) \cap ShownOn(m, d)
  BY <1>1 DEF Walking
<1>8. Range(t.found) \cap ShownOn(m, b) = P \cup {f}
  <2>1. Range(t.found) \cap ShownOn(m, b) = Range(u.found) \cap ShownOn(m, b)
    BY <1>2, <1>3, <1>7
  <2>2. Range(v.found) \cap ShownOn(m, b) = P
    BY DEF Walking
  <2> QED  BY <2>1, <2>2
<1>9. ASSUME NEW d \in Entered(m, s), d # b
      PROVE  Range(t.found) \cap ShownOn(m, d) = Range(s.found) \cap ShownOn(m, d)
  <2>1. Range(t.found) \cap ShownOn(m, d) = Range(u.found) \cap ShownOn(m, d)
    BY <1>2, <1>3, <1>7
  <2>2. f \notin ShownOn(m, d)
    BY <1>9, ShownIs
  <2>3. Range(v.found) \cap ShownOn(m, d) = Range(s.found) \cap ShownOn(m, d)
    BY <1>9 DEF Walking
  <2> QED  BY <2>1, <2>2, <2>3
<1>10. ASSUME NEW d \in Entered(m, t), d \notin Entered(m, s) PROVE ShownOn(m, d) \subseteq Range(t.found)
  <2>1. CASE d \notin Entered(m, u)
    BY <1>4, <1>10, <2>1 DEF Walking
  <2>2. CASE d = c
    BY <1>1, <2>2 DEF Walking
  <2>3. CASE d \in Entered(m, v)
    <3>1. ShownOn(m, d) \subseteq Range(v.found)
      BY <1>10, <2>3 DEF Walking
    <3> QED  BY <1>5, <3>1
  <2> QED  BY <1>2, <2>1, <2>2, <2>3
<1> QED  BY <1>6, <1>8, <1>9, <1>10 DEF Walking

(* pci_enum_func: one function of the bus more is done.                    *)
LEMMA FuncWalks ==
  ASSUME NEW m, NEW n, NEW walk, NEW s, NEW b, Under(m, n, walk, s, b),
         NEW v, NEW P, Done(m, s, b, v, P), NEW f \in ShownOn(m, b), f \notin P
  PROVE  Done(m, s, b, EnumFunc(m, walk, v, f), P \cup {f})
<1> /\ MachineIsSound(m) /\ Walkable(m) /\ n \in Nat /\ n # 0
    /\ walk \in Walks(m) /\ WalkIs(m, walk, n - 1) /\ May(m, s, b, n)
    /\ Walking(m, s, b, v, P) /\ v.path = s.path \cup {b[2]}
  BY DEF Under, Done
<1>1. PICK u : u = [v EXCEPT !.found = Append(@, f)]
  OBVIOUS
<1>2. Sane(m, v) /\ b \in Entered(m, s) /\ b \in Entered(m, v) /\ f \notin Range(v.found) /\ v.open = s.open
  BY EnteredGrows DEF Walking, May
<1>3. b \in Buses(m) /\ f \in m.functions /\ f \in Shown(m) /\ BusOf(f) = b
  BY <1>2, EnteredAre, ShownIs
<1>4. v \in States(m) /\ ~v.fault /\ WindowsAre(m, v.found, v.windows) /\ v.found \in Seq(m.functions)
  BY <1>2, StateIs DEF Sane
<1>5. /\ u \in States(m) /\ u.fault = v.fault /\ u.found = Append(v.found, f) /\ u.windows = v.windows
      /\ u.open = v.open /\ u.path = v.path
  BY <1>1, <1>3, <1>4, StateIs, AppendProperties DEF States
<1>6. Range(u.found) = Range(v.found) \cup {f} /\ Once(u.found) /\ ~u.fault
  BY <1>2, <1>3, <1>4, <1>5, AppendedIs DEF Sane
<1>7. WindowsAre(m, u.found, u.windows)
        => /\ Sane(m, u)
           /\ ~LeadsOn(f) => Entered(m, u) = Entered(m, v)
           /\ LeadsOn(f) => /\ Entered(m, u) = Entered(m, v) \cup {LeadsTo(m, f)}
                            /\ LeadsTo(m, f) \notin Entered(m, v)
  BY <1>2, <1>5, <1>6, FoundOneMore
<1>8. CASE ~LeadsOn(f)
  <2>1. EnumFunc(m, walk, v, f) = u
    BY <1>1, <1>8 DEF EnumFunc, LeadsOn
  <2>2. WindowsAre(m, u.found, u.windows)
    BY <1>4, <1>5, <1>6, <1>8, WindowsStay DEF LeadsOn
  <2>3. Sane(m, u) /\ Entered(m, u) = Entered(m, v)
    BY <1>8, <1>7, <2>2
  <2>4. \A d : d # b => f \notin ShownOn(m, d)
    BY <1>3, ShownIs
  <2>5. Range(u.found) \cap ShownOn(m, b) = P \cup {f}
    BY <1>6 DEF Walking
  <2>6. Range(s.found) \subseteq Range(u.found) /\ u.open = s.open
    BY <1>5, <1>6 DEF Walking
  <2>7. \A c \in Entered(m, s) : c # b => Range(u.found) \cap ShownOn(m, c) = Range(s.found) \cap ShownOn(m, c)
    BY <1>6, <2>4 DEF Walking
  <2>8. \A c \in Entered(m, u) : c \notin Entered(m, s) => ShownOn(m, c) \subseteq Range(u.found)
    BY <1>6, <2>3 DEF Walking
  <2>9. Walking(m, s, b, u, P \cup {f})
    BY <2>3, <2>5, <2>6, <2>7, <2>8 DEF Walking
  <2> QED  BY <1>5, <2>1, <2>9 DEF Done
<1>9. CASE f.kind = "bridge"
  <2>1. PICK c : c = LeadsTo(m, f)
    OBVIOUS
  <2>2. LeadsOn(f) /\ c[2] = f.sec /\ c[1] = f.dom /\ c[1] = b[1]
    BY <1>3, <1>9, <2>1 DEF LeadsOn, LeadsTo, BusOf
  <2>3. WindowsAre(m, u.found, u.windows)
    BY <1>4, <1>5, <1>6, <1>9, WindowsStay
  <2>4. Sane(m, u) /\ Entered(m, u) = Entered(m, v) \cup {c} /\ c \notin Entered(m, v)
    BY <1>7, <2>1, <2>2, <2>3
  <2>5. c[1] = 0 => ~u.open
    BY <1>2, <1>5, <2>2 DEF May
  <2>6. May(m, u, c, n - 1)
    BY <1>5, <1>6, <2>1, <2>2, <2>4, <2>5, MayGoOn
  <2>7. PICK t : t = walk[u, c[2]]
    OBVIOUS
  <2>8. Walking(m, u, c, t, ShownOn(m, c)) /\ t.path = u.path
    BY <2>6, <2>7 DEF WalkIs
  <2>9. Sane(m, t) /\ t.open = s.open
    BY <1>2, <1>5, <2>8 DEF Walking
  <2>10. Walking(m, s, b, t, P \cup {f})
    BY <1>2, <1>6, <2>1, <2>2, <2>4, <2>8, <2>9, OneMoreIsDone
  <2>11. EnumFunc(m, walk, v, f) = t
    BY <1>1, <1>9, <2>2, <2>7 DEF EnumFunc
  <2> QED  BY <1>5, <2>8, <2>10, <2>11 DEF Done
<1>10. CASE f.kind = "vmd"
  <2>1. PICK c : c = LeadsTo(m, f)
    OBVIOUS
  <2>2. LeadsOn(f) /\ c[2] = VmdBus(m, f) /\ c[1] = f.id /\ f \in Vmds(m)
    BY <1>3, <1>10, <2>1 DEF LeadsOn, LeadsTo, Vmds
  <2>3. c[1] # 0 /\ b[1] = 0 /\ ~s.open
    <3>1. f.id # 0
      BY <1>3, <1>10 DEF MachineIsSound
    <3>2. f.dom = 0
      BY <2>2 DEF Walkable
    <3> QED  BY <1>3, <2>2, <3>1, <3>2 DEF BusOf, May
  <2>4. PICK w : w = [u EXCEPT !.windows = Append(@, VmdWindow(m, f)), !.open = TRUE]
    OBVIOUS
  <2>5. WindowsAre(m, u.found, Append(u.windows, VmdWindow(m, f)))
    BY <1>4, <1>5, <1>6, <2>2, WindowIsAdded
  <2>6. Append(u.windows, VmdWindow(m, f)) \in Seq(Window)
    BY <2>5 DEF WindowsAre
  <2>7. /\ w \in States(m) /\ ~w.fault /\ w.found = u.found /\ w.open = TRUE /\ w.path = u.path
        /\ w.windows = Append(u.windows, VmdWindow(m, f))
    BY <1>5, <1>6, <2>4, <2>6 DEF States
  <2>8. Sane(m, w) /\ Entered(m, w) = Entered(m, v) \cup {c} /\ c \notin Entered(m, v)
    BY ONLY MachineIsSound(m), Walkable(m), f \in ShownOn(m, b), <1>2, <1>6, <2>1, <2>2, <2>5, <2>7, FoundOneMore
  <2>9. May(m, w, c, n - 1)
    BY <1>5, <1>6, <2>1, <2>2, <2>3, <2>7, <2>8, MayGoOn
  <2>10. PICK x : x = walk[w, c[2]]
    OBVIOUS
  <2>11. Walking(m, w, c, x, ShownOn(m, c)) /\ x.path = w.path
    BY <2>9, <2>10 DEF WalkIs
  <2>12. PICK t : t = [x EXCEPT !.open = FALSE]
    OBVIOUS
  <2>13. Sane(m, x)
    BY <2>11 DEF Walking
  <2>14. /\ t \in States(m) /\ t.found = x.found /\ t.open = FALSE /\ t.path = x.path /\ t.windows = x.windows
         /\ t.fault = x.fault
    BY <2>12, <2>13 DEF States, Sane
  <2>15. Sane(m, t) /\ t.open = s.open
    <3>1. Entered(m, t) = Entered(m, x)
      BY <2>14 DEF Entered
    <3>2. s.open \in BOOLEAN
      BY StateIs DEF May, Sane
    <3> QED  BY <2>3, <2>13, <2>14, <3>1, <3>2 DEF Sane
  <2>16. Walking(m, s, b, t, P \cup {f})
    BY <1>2, <1>6, <2>1, <2>2, <2>7, <2>8, <2>11, <2>14, <2>15, OneMoreIsDone
  <2>17. EnumFunc(m, walk, v, f) = t
    BY <1>1, <1>2, <1>5, <1>10, <2>2, <2>3, <2>4, <2>10, <2>12 DEF EnumFunc, EnumVmd
  <2> QED  BY <1>5, <2>7, <2>11, <2>14, <2>16, <2>17 DEF Done
<1> QED  BY <1>8, <1>9, <1>10 DEF LeadsOn
-----------------------------------------------------------------------------
(* Rounds that each follow from the one before are all there.              *)
LEMMA Rounds ==
  ASSUME NEW n \in Nat, NEW S, 0 \in S, \A k \in 1 .. n : k - 1 \in S => k \in S
  PROVE  \A k \in 0 .. n : k \in S
<1>1. PICK Bad : Bad = {k \in 0 .. n : k \notin S}
  OBVIOUS
<1>2. Bad = {}
  <2> SUFFICES ASSUME Bad # {} PROVE FALSE
    OBVIOUS
  <2>1. Bad \in SUBSET Nat
    BY <1>1
  <2>2. PICK k \in Bad : \A x \in Bad : k <= x
    BY <2>1, MinIsElement
  <2>3. k \in 0 .. n /\ k \notin S /\ k # 0
    BY <1>1, <2>2
  <2>4. k \in 1 .. n /\ k - 1 \in 0 .. n /\ ~(k <= k - 1)
    BY <2>3
  <2>5. k - 1 \in S
    BY <1>1, <2>2, <2>4
  <2> QED  BY <2>3, <2>4, <2>5
<1> QED  BY <1>1, <1>2

(* What is before a function, or a device, on a bus.                       *)
UpTo(m, b, dev, func) == {f \in ShownOn(m, b) : f.dev < dev \/ (f.dev = dev /\ f.func <= func)}
Before(m, b, dev) == {f \in ShownOn(m, b) : f.dev < dev}

LEMMA OneAnswers ==
  ASSUME NEW m, MachineIsSound(m), NEW dom, NEW bus, NEW dev, NEW func
  PROVE  /\ \A f, g \in At(m, dom, bus, dev, func) : f = g
         /\ HasMany(At(m, dom, bus, dev, func)) <=> \E f \in At(m, dom, bus, dev, func) : f.multi
<1>1. \A f, g \in At(m, dom, bus, dev, func) : f = g
  BY DEF At, MachineIsSound
<1>2. PICK A : A = At(m, dom, bus, dev, func)
  OBVIOUS
<1>3. \A f \in A : f = CHOOSE g \in A : TRUE
  BY <1>1, <1>2
<1> QED  BY <1>1, <1>2, <1>3 DEF HasMany

LEMMA VisitWalks ==
  ASSUME NEW m, NEW n, NEW walk, NEW s, NEW b, Under(m, n, walk, s, b), NEW v, NEW P, Done(m, s, b, v, P),
         NEW A, \A f, g \in A : f = g, A \subseteq ShownOn(m, b) \ P
  PROVE  Done(m, s, b, Visit(m, walk, v, A), P \cup A)
<1>1. ~v.fault
  BY DEF Done, Walking, Sane
<1>2. CASE A = {}
  <2>1. Visit(m, walk, v, A) = v /\ P \cup A = P
    BY <1>2 DEF Visit
  <2> QED  BY <2>1
<1>3. CASE A # {}
  <2>1. PICK f : f = CHOOSE g \in A : TRUE
    OBVIOUS
  <2>2. f \in A /\ A = {f}
    BY <1>3, <2>1
  <2>3. Visit(m, walk, v, A) = EnumFunc(m, walk, v, f)
    BY <1>1, <1>3, <2>1 DEF Visit
  <2>4. f \in ShownOn(m, b) /\ f \notin P
    BY <2>2
  <2>5. Done(m, s, b, EnumFunc(m, walk, v, f), P \cup {f})
    BY <2>4, FuncWalks
  <2> QED  BY <2>2, <2>3, <2>5
<1> QED  BY <1>2, <1>3

(* A bus, its device, and what answers and shows.                          *)
LEMMA AnswersOn ==
  ASSUME NEW m, MachineIsSound(m), NEW b \in Buses(m), NEW dev, NEW k, NEW f
  PROVE  f \in At(m, b[1], b[2], dev, k)
           <=> f \in m.functions /\ BusOf(f) = b /\ f.dev = dev /\ f.func = k
<1>1. b = <<b[1], b[2]>>
  BY BusesLead, BusIs
<1>2. BusOf(f) = b <=> f.dom = b[1] /\ f.bus = b[2]
  BY <1>1 DEF BusOf
<1> QED  BY <1>2 DEF At

LEMMA OthersShow ==
  ASSUME NEW m, MachineIsSound(m), NEW b \in Buses(m), NEW f \in ShownOn(m, b)
  PROVE  f.func = 0 \/ \E g \in At(m, b[1], b[2], f.dev, 0) : g.multi
<1>1. b = <<b[1], b[2]>>
  BY BusesLead, BusIs
<1>2. BusOf(f) = b /\ Shows(m, f)
  BY ShownIs
<1>3. f.dom = b[1] /\ f.bus = b[2]
  BY <1>1, <1>2 DEF BusOf
<1> QED  BY <1>2, <1>3 DEF Shows

(* pci_enum_dev: one device of the bus more is done.                       *)
LEMMA DevWalks ==
  ASSUME NEW m, NEW n, NEW walk, NEW s, NEW b, Under(m, n, walk, s, b), NEW dev \in 0 .. 31,
         NEW v, Done(m, s, b, v, Before(m, b, dev))
  PROVE  Done(m, s, b, NextDev(m, walk, v, b[2], dev), Before(m, b, dev + 1))
<1> MachineIsSound(m) /\ Walkable(m) /\ walk \in Walks(m)
  BY DEF Under
<1>1. Sane(m, v) /\ b \in Entered(m, v) /\ b \in Buses(m) /\ v \in States(m) /\ ~v.fault
  BY EnteredGrows, EnteredAre DEF Under, Done, Walking, May, Sane
<1>2. b[2] \in Nat /\ dev \in Nat
  BY <1>1, BusesLead, BusIs
<1>3. DomainOf(v, b[2]) = b[1]
  BY <1>1, DomainIs
<1>4. PICK A : A = [k \in 0 .. 7 |-> At(m, b[1], b[2], dev, k)]
  OBVIOUS
<1>5. \A k \in 0 .. 7 : Answers(m, v, b[2], dev, k) = A[k]
  BY <1>3, <1>4 DEF Answers
<1>6. \A k \in 0 .. 7 : \A f, g \in A[k] : f = g
  BY <1>4, OneAnswers
<1>7. PICK visited \in [0 .. 7 -> States(m)] :
           /\ visited[0] = Visit(m, walk, v, Answers(m, v, b[2], dev, 0))
           /\ Others(m, walk, v, b[2], dev, visited)
           /\ EnumDev(m, walk, v, b[2], dev)
                = IF HasMany(Answers(m, v, b[2], dev, 0)) THEN visited[7] ELSE visited[0]
  BY <1>1, <1>2, DevCourse
<1>8. visited[0] = Visit(m, walk, v, A[0]) /\ \A k \in 1 .. 7 : visited[k] = Visit(m, walk, visited[k - 1], A[k])
  <2>1. \A k \in 1 .. 7 : k \in 0 .. 7
    OBVIOUS
  <2>2. 0 \in 0 .. 7
    OBVIOUS
  <2> QED  BY <1>5, <1>7, <2>1, <2>2 DEF Others
<1>9. \A k \in 0 .. 7 : \A f : f \in A[k] <=> f \in m.functions /\ BusOf(f) = b /\ f.dev = dev /\ f.func = k
  <2> SUFFICES ASSUME NEW k \in 0 .. 7, NEW f
               PROVE  f \in A[k] <=> f \in m.functions /\ BusOf(f) = b /\ f.dev = dev /\ f.func = k
    OBVIOUS
  <2>1. A[k] = At(m, b[1], b[2], dev, k) /\ b \in Buses(m)
    BY <1>1, <1>4
  <2>2. f \in At(m, b[1], b[2], dev, k) <=> f \in m.functions /\ BusOf(f) = b /\ f.dev = dev /\ f.func = k
    BY <2>1, AnswersOn
  <2> QED  BY <2>1, <2>2
<1>10. \A f \in ShownOn(m, b) : f \in m.functions /\ BusOf(f) = b /\ f.dev \in 0 .. 31 /\ f.func \in 0 .. 7
  BY ShownIs, FunctionIs
<1>11. \A f \in ShownOn(m, b) : f.dev = dev => f.func = 0 \/ \E g \in A[0] : g.multi
  <2>1. A[0] = At(m, b[1], b[2], dev, 0) /\ b \in Buses(m)
    BY <1>1, <1>4
  <2>2. \A f \in ShownOn(m, b) : f.func = 0 \/ \E g \in At(m, b[1], b[2], f.dev, 0) : g.multi
    BY <2>1, OthersShow
  <2> QED  BY <2>1, <2>2
<1>12. Done(m, s, b, visited[0], UpTo(m, b, dev, 0))
  <2>1. A[0] \subseteq ShownOn(m, b) \ Before(m, b, dev)
    <3>1. \A f \in A[0] : f \in m.functions /\ BusOf(f) = b /\ f.dev = dev /\ f.func = 0
      BY <1>9
    <3>2. \A f \in A[0] : f \in ShownOn(m, b)
      BY <3>1, ShownIs DEF Shows
    <3> QED  BY <1>2, <3>1, <3>2 DEF Before
  <2>2. Before(m, b, dev) \cup A[0] = UpTo(m, b, dev, 0)
    <3>1. \A f \in ShownOn(m, b) : f \in A[0] <=> f.dev = dev /\ f.func <= 0
      <4>1. \A f \in ShownOn(m, b) : f.func <= 0 <=> f.func = 0
        BY <1>10
      <4>2. \A f \in ShownOn(m, b) : f \in A[0] <=> f.dev = dev /\ f.func = 0
        BY <1>9, <1>10
      <4> QED  BY <4>1, <4>2
    <3> QED  BY <2>1, <3>1 DEF Before, UpTo
  <2>3. \A f, g \in A[0] : f = g
    BY <1>6
  <2> QED  BY <1>8, <2>1, <2>2, <2>3, VisitWalks
<1>13. ASSUME \E g \in A[0] : g.multi
       PROVE  Done(m, s, b, visited[7], UpTo(m, b, dev, 7))
  <2>1. PICK S : S = {k \in 0 .. 7 : Done(m, s, b, visited[k], UpTo(m, b, dev, k))}
    OBVIOUS
  <2>2. 0 \in S
    BY <1>12, <2>1
  <2>3. ASSUME NEW k \in 1 .. 7, k - 1 \in S PROVE k \in S
    <3>1. Done(m, s, b, visited[k - 1], UpTo(m, b, dev, k - 1)) /\ k \in 0 .. 7
      BY <2>1, <2>3
    <3>2. \A f : f \in A[k] <=> f \in m.functions /\ BusOf(f) = b /\ f.dev = dev /\ f.func = k
      BY <1>9, <3>1
    <3>3. \A f \in A[k] : f \in ShownOn(m, b)
      <4>1. A[0] = At(m, b[1], b[2], dev, 0)
        BY <1>4
      <4>2. ASSUME NEW f \in A[k] PROVE Shows(m, f)
        <5>1. f.dom = b[1] /\ f.bus = b[2] /\ f.dev = dev
          BY <3>2 DEF BusOf
        <5> QED  BY <1>13, <4>1, <5>1 DEF Shows
      <4> QED  BY <3>2, <4>2, ShownIs
    <3>4. \A f \in A[k] : f \notin UpTo(m, b, dev, k - 1)
      BY <1>2, <3>2 DEF UpTo
    <3>5. \A f \in ShownOn(m, b) : f \in A[k] <=> f.dev = dev /\ f.func = k
      BY <1>10, <3>2
    <3>6. UpTo(m, b, dev, k - 1) \cup A[k] = UpTo(m, b, dev, k)
      <4>1. \A f \in ShownOn(m, b) : f.func <= k <=> f.func <= k - 1 \/ f.func = k
        BY <1>10
      <4> QED  BY <3>3, <3>5, <4>1 DEF UpTo
    <3>7. \A f, g \in A[k] : f = g
      BY <1>6, <3>1
    <3>8. visited[k] = Visit(m, walk, visited[k - 1], A[k])
      BY <1>8, <3>1
    <3>9. A[k] \subseteq ShownOn(m, b) \ UpTo(m, b, dev, k - 1)
      BY <3>3, <3>4
    <3>10. Done(m, s, b, visited[k], UpTo(m, b, dev, k))
      BY <3>1, <3>6, <3>7, <3>8, <3>9, VisitWalks
    <3> QED  BY <2>1, <3>1, <3>10
  <2>4. 7 \in S
    BY <2>2, <2>3, Rounds
  <2> QED  BY <2>1, <2>4
<1>14. UpTo(m, b, dev, 7) = Before(m, b, dev + 1)
  <2>1. \A f \in ShownOn(m, b) : f.dev < dev + 1 <=> f.dev < dev \/ (f.dev = dev /\ f.func <= 7)
    BY <1>2, <1>10
  <2> QED  BY <2>1 DEF UpTo, Before
<1>15. ASSUME ~ \E g \in A[0] : g.multi PROVE UpTo(m, b, dev, 0) = Before(m, b, dev + 1)
  <2>1. \A f \in ShownOn(m, b) : f.dev < dev + 1 <=> f.dev < dev \/ f.dev = dev
    BY <1>2, <1>10
  <2>2. \A f \in ShownOn(m, b) : f.dev = dev => f.func = 0 /\ f.func <= 0
    BY <1>11, <1>15
  <2> QED  BY <2>1, <2>2 DEF UpTo, Before
<1>16. NextDev(m, walk, v, b[2], dev) = IF HasMany(A[0]) THEN visited[7] ELSE visited[0]
  <2>1. Answers(m, v, b[2], dev, 0) = A[0]
    BY <1>5
  <2> QED  BY <1>1, <1>7, <2>1 DEF NextDev
<1>17. HasMany(A[0]) <=> \E g \in A[0] : g.multi
  <2>1. A[0] = At(m, b[1], b[2], dev, 0)
    BY <1>4
  <2> QED  BY <2>1, OneAnswers
<1> QED  BY <1>12, <1>13, <1>14, <1>15, <1>16, <1>17

(* There is depth left for each bus that may be walked.                    *)
LEMMA DepthIsLeft ==
  ASSUME NEW m, MachineIsSound(m), NEW s, NEW b, NEW n \in Nat, May(m, s, b, n)
  PROVE  n # 0
<1>1. PICK F : F = m.functions
  OBVIOUS
<1>2. IsFiniteSet(F)
  BY <1>1 DEF MachineIsSound
<1>3. PICK g : g = [f \in F |-> LeadsTo(m, f)[2]]
  OBVIOUS
<1>4. PICK T : T = {g[f] : f \in F}
  OBVIOUS
<1>5. g \in Surjection(F, T)
  BY <1>3, <1>4 DEF Surjection
<1>6. IsFiniteSet(T) /\ Cardinality(T) <= Cardinality(F)
  BY <1>2, <1>5, FS_Surjection
<1>7. IsFiniteSet(T \cup {0}) /\ Cardinality(T \cup {0}) <= Cardinality(F) + 1
  <2>1. Cardinality(T) \in Nat /\ Cardinality(F) \in Nat
    BY <1>2, <1>6, FS_CardinalityType
  <2>2. Cardinality(T \cup {0}) = Cardinality(T) \/ Cardinality(T \cup {0}) = Cardinality(T) + 1
    BY <1>6, FS_AddElement
  <2> QED  BY <1>6, <2>1, <2>2, FS_AddElement
<1>8. \A c \in Entered(m, s) : c[2] \in T \cup {0}
  <2>1. s.found \in Seq(F)
    BY <1>1, StateIs DEF May, Sane
  <2>2. Range(s.found) \subseteq F
    BY <2>1 DEF Range
  <2>3. FirstBus[2] = 0
    BY DEF FirstBus
  <2> QED  BY <1>3, <1>4, <2>2, <2>3 DEF Entered
<1>9. s.path \cup {b[2]} \subseteq T \cup {0}
  BY <1>8 DEF May
<1>10. Cardinality(s.path \cup {b[2]}) <= Cardinality(T \cup {0})
  BY <1>7, <1>9, FS_Subset
<1>11. IsFiniteSet(s.path) /\ b[2] \notin s.path /\ n + Cardinality(s.path) = Cardinality(F) + 1
  BY <1>1 DEF May, Deepest
<1>12. Cardinality(s.path \cup {b[2]}) = Cardinality(s.path) + 1
  BY <1>11, FS_AddElement
<1>13. Cardinality(s.path) \in Nat /\ Cardinality(F) \in Nat /\ Cardinality(T \cup {0}) \in Nat
  BY <1>2, <1>7, <1>11, FS_CardinalityType
<1> QED  BY <1>7, <1>10, <1>11, <1>12, <1>13

(* A state on another path is as sane.                                     *)
LEMMA PathMayChange ==
  ASSUME NEW m, NEW v, Sane(m, v), NEW path \in SUBSET Nat, NEW t, t = [v EXCEPT !.path = path]
  PROVE  /\ Sane(m, t) /\ t.found = v.found /\ t.open = v.open /\ t.path = path
         /\ Entered(m, t) = Entered(m, v)
<1>1. /\ t \in States(m) /\ t.found = v.found /\ t.windows = v.windows /\ t.open = v.open
      /\ t.fault = v.fault /\ t.path = path
  BY DEF Sane, States
<1>2. Entered(m, t) = Entered(m, v)
  BY <1>1 DEF Entered
<1> QED  BY <1>1, <1>2 DEF Sane

(* pci_enum_bus: what shows on the bus is found, and all there is behind.  *)
LEMMA BusWalks ==
  ASSUME NEW m, NEW n, NEW walk, NEW s, NEW b, Under(m, n, walk, s, b)
  PROVE  /\ Walking(m, s, b, EnumBus(m, walk, s, b[2]), ShownOn(m, b))
         /\ EnumBus(m, walk, s, b[2]).path = s.path
<1> /\ MachineIsSound(m) /\ Walkable(m) /\ walk \in Walks(m) /\ May(m, s, b, n)
  BY DEF Under
<1>1. /\ Sane(m, s) /\ b \in Entered(m, s) /\ b \in Buses(m) /\ s \in States(m) /\ s.path \in SUBSET Nat
      /\ b[2] \notin s.path /\ Range(s.found) \cap ShownOn(m, b) = {}
  BY EnteredAre, StateIs DEF May, Sane
<1>2. b[2] \in Nat
  BY <1>1, BusesLead, BusIs
<1>3. Windows(s, b[2]) # {}
  BY <1>1, DomainIs
<1>4. PICK v : v = [s EXCEPT !.path = @ \cup {b[2]}]
  OBVIOUS
<1>5. s.path \cup {b[2]} \in SUBSET Nat
  BY <1>1, <1>2
<1>6. /\ Sane(m, v) /\ v.found = s.found /\ v.open = s.open /\ v.path = s.path \cup {b[2]}
      /\ Entered(m, v) = Entered(m, s)
  BY <1>1, <1>4, <1>5, PathMayChange
<1>7. \A f \in ShownOn(m, b) : f.dev \in 0 .. 31
  BY ShownIs, FunctionIs
<1>8. Done(m, s, b, v, Before(m, b, 0))
  <2>1. Before(m, b, 0) = {}
    BY <1>7 DEF Before
  <2> QED  BY <1>1, <1>6, <2>1 DEF Done, Walking
<1>9. v \in States(m)
  BY <1>6 DEF Sane
<1>10. PICK visited : Devs(m, walk, v, b[2], visited)
  BY <1>2, <1>9, DevsCourse
<1>11. visited[0] = v /\ EnumDevs(m, walk, v, b[2]) = visited[32]
  BY <1>10 DEF Devs
<1>12. Done(m, s, b, visited[32], Before(m, b, 32))
  <2>1. PICK S : S = {k \in 0 .. 32 : Done(m, s, b, visited[k], Before(m, b, k))}
    OBVIOUS
  <2>2. 0 \in S
    BY <1>8, <1>11, <2>1
  <2>3. ASSUME NEW k \in 1 .. 32, k - 1 \in S PROVE k \in S
    <3>1. PICK dev : dev = k - 1
      OBVIOUS
    <3>2. dev \in 0 .. 31 /\ dev + 1 = k /\ k \in 0 .. 32
      BY <3>1
    <3>3. Done(m, s, b, visited[dev], Before(m, b, dev))
      BY <2>1, <2>3, <3>1
    <3>4. Done(m, s, b, NextDev(m, walk, visited[dev], b[2], dev), Before(m, b, dev + 1))
      BY <3>2, <3>3, DevWalks
    <3>5. visited[k] = NextDev(m, walk, visited[dev], b[2], dev)
      BY <1>10, <3>1 DEF Devs
    <3> QED  BY <2>1, <3>2, <3>4, <3>5
  <2>4. 32 \in S
    BY <2>2, <2>3, Rounds
  <2> QED  BY <2>1, <2>4
<1>13. Before(m, b, 32) = ShownOn(m, b)
  BY <1>7 DEF Before
<1>14. PICK w : w = visited[32]
  OBVIOUS
<1>15. Walking(m, s, b, w, ShownOn(m, b))
  BY <1>12, <1>13, <1>14 DEF Done
<1>16. PICK t : t = [w EXCEPT !.path = s.path]
  OBVIOUS
<1>17. Sane(m, t) /\ t.found = w.found /\ t.open = w.open /\ t.path = s.path /\ Entered(m, t) = Entered(m, w)
  <2>1. Sane(m, w)
    BY <1>15 DEF Walking
  <2> QED  BY <1>1, <1>16, <2>1, PathMayChange
<1>18. Walking(m, s, b, t, ShownOn(m, b))
  BY <1>15, <1>17 DEF Walking
<1>19. EnumBus(m, walk, s, b[2]) = t
  BY <1>1, <1>3, <1>4, <1>11, <1>14, <1>16 DEF EnumBus
<1> QED  BY <1>17, <1>18, <1>19
-----------------------------------------------------------------------------
(* The course of the walk in itself, and that at each depth it does what   *)
(* it should.                                                              *)
LEMMA EnumCourse ==
  ASSUME NEW m, MachineIsSound(m)
  PROVE  \E walk \in [0 .. Deepest(m) -> Walks(m)] :
           /\ \A n \in 1 .. Deepest(m) :
                walk[n] = [at \in States(m) \X Nat |-> EnumBus(m, walk[n - 1], at[1], at[2])]
           /\ PciEnum(m) = walk[Deepest(m)][FirstState(m), 0]
<1>1. PICK d : d = Deepest(m)
  OBVIOUS
<1>2. d \in Nat
  BY <1>1, FS_CardinalityType DEF Deepest, MachineIsSound
<1>3. PICK D : D = States(m) \X Nat
  OBVIOUS
<1>4. PICK W : W = Walks(m)
  OBVIOUS
<1>5. W = [D -> States(m)]
  BY <1>3, <1>4 DEF Walks
<1>6. \A at \in D : at[1] \in States(m) /\ at[2] \in Nat
  BY <1>3
<1>7. PICK start : start = NoWalk(m)
  OBVIOUS
<1>8. start \in W /\ start = [at \in D |-> Stop(at[1])]
  <2>1. \A s \in States(m) : Stop(s) \in States(m)
    BY DEF Stop, States
  <2> QED  BY <1>3, <1>5, <1>6, <1>7, <2>1 DEF NoWalk
<1>9. \A walk \in W : [at \in D |-> EnumBus(m, walk, at[1], at[2])] \in W
  BY <1>4, <1>5, <1>6, BusMakes
<1>10. PICK g : g = [n \in 1 .. d |-> [walk \in W |-> [at \in D |-> EnumBus(m, walk, at[1], at[2])]]]
  OBVIOUS
<1>11. g \in [1 .. d -> [W -> W]]
  BY <1>9, <1>10
<1>12. PICK walk : Course(d, W, start, g, walk)
  BY <1>2, <1>8, <1>11, SomeCourse
<1>13. walk \in [0 .. d -> W] /\ walk[0] = start
  BY <1>12 DEF Course
<1>14. ASSUME NEW n \in 1 .. d PROVE walk[n] = [at \in D |-> EnumBus(m, walk[n - 1], at[1], at[2])]
  <2>1. n - 1 \in 0 .. d
    BY <1>2
  <2>2. walk[n - 1] \in W
    BY <1>13, <2>1
  <2>3. g[n] = [x \in W |-> [at \in D |-> EnumBus(m, x, at[1], at[2])]]
    BY <1>10
  <2>4. walk[n] = g[n][walk[n - 1]]
    BY <1>12 DEF Course
  <2> QED  BY <2>2, <2>3, <2>4
<1>15. PICK f : f = CHOOSE loop : loop = [n \in 0 .. d |->
                  IF n = 0 THEN start ELSE [at \in D |-> EnumBus(m, loop[n - 1], at[1], at[2])]]
  OBVIOUS
<1>16. walk = [n \in 0 .. d |-> IF n = 0 THEN start ELSE [at \in D |-> EnumBus(m, walk[n - 1], at[1], at[2])]]
  <2>1. \A n \in 0 .. d : n = 0 \/ n \in 1 .. d
    BY <1>2
  <2> QED  BY <1>13, <1>14, <2>1
<1>17. f = [n \in 0 .. d |-> IF n = 0 THEN start ELSE [at \in D |-> EnumBus(m, f[n - 1], at[1], at[2])]]
  BY <1>15, <1>16
<1>18. DOMAIN f = 0 .. d /\ DOMAIN walk = 0 .. d /\ f[0] = walk[0]
  BY <1>2, <1>13, <1>17
<1>19. \A n \in 1 .. d : f[n - 1] = walk[n - 1] => f[n] = walk[n]
  <2>1. \A n \in 1 .. d : n \in 0 .. d /\ n # 0
    BY <1>2
  <2> QED  BY <1>14, <1>17, <2>1
<1>20. f[d] = walk[d]
  BY <1>2, <1>18, <1>19, OneCourse
<1>21. PciEnum(m) = f[d][FirstState(m), 0]
  BY <1>1, <1>3, <1>7, <1>15 DEF PciEnum
<1> QED  BY <1>1, <1>3, <1>4, <1>13, <1>14, <1>20, <1>21

LEMMA WalksAre ==
  ASSUME NEW m, MachineIsSound(m), Walkable(m), NEW d \in Nat, NEW walk \in [0 .. d -> Walks(m)],
         \A n \in 1 .. d : walk[n] = [at \in States(m) \X Nat |-> EnumBus(m, walk[n - 1], at[1], at[2])]
  PROVE  WalkIs(m, walk[d], d)
<1>1. PICK S : S = {n \in 0 .. d : WalkIs(m, walk[n], n)}
  OBVIOUS
<1>2. 0 \in S
  <2>1. ASSUME NEW s, NEW b, May(m, s, b, 0) PROVE FALSE
    <3>1. \A n \in Nat : May(m, s, b, n) => n # 0
      BY DepthIsLeft
    <3> QED  BY <2>1, <3>1
  <2>2. WalkIs(m, walk[0], 0)
    BY <2>1 DEF WalkIs
  <2> QED  BY <1>1, <2>2
<1>3. ASSUME NEW n \in 1 .. d, n - 1 \in S PROVE n \in S
  <2>1. n \in 0 .. d /\ n \in Nat /\ n # 0 /\ n - 1 \in 0 .. d /\ WalkIs(m, walk[n - 1], n - 1)
    BY <1>1, <1>3
  <2>2. walk[n - 1] \in Walks(m)
    BY <2>1
  <2>3. ASSUME NEW s, NEW b, May(m, s, b, n)
        PROVE  Walking(m, s, b, walk[n][s, b[2]], ShownOn(m, b)) /\ walk[n][s, b[2]].path = s.path
    <3>1. Under(m, n, walk[n - 1], s, b)
      BY <2>1, <2>2, <2>3 DEF Under
    <3>2. s \in States(m) /\ b \in Buses(m)
      BY <2>3, EnteredAre DEF May, Sane
    <3>3. b[2] \in Nat
      BY <3>2, BusesLead, BusIs
    <3>4. walk[n][s, b[2]] = EnumBus(m, walk[n - 1], s, b[2])
      BY <3>2, <3>3
    <3>5. /\ Walking(m, s, b, EnumBus(m, walk[n - 1], s, b[2]), ShownOn(m, b))
          /\ EnumBus(m, walk[n - 1], s, b[2]).path = s.path
      BY ONLY <3>1, BusWalks
    <3> QED  BY <3>4, <3>5
  <2>4. WalkIs(m, walk[n], n)
    BY <2>3 DEF WalkIs
  <2> QED  BY <1>1, <2>1, <2>4
<1>4. d \in S
  BY <1>2, <1>3, Rounds
<1> QED  BY <1>1, <1>4

LEMMA FirstMay ==
  ASSUME NEW m, MachineIsSound(m)
  PROVE  May(m, FirstState(m), FirstBus, Deepest(m))
<1>1. PICK s : s = FirstState(m)
  OBVIOUS
<1>2. m.bridges \in Seq([start : Nat, end : Nat])
  BY DEF MachineIsSound
<1>3. PICK k : k = Len(m.bridges)
  OBVIOUS
<1>4. k \in Nat /\ DOMAIN m.bridges = 1 .. k
  BY <1>2, <1>3
<1>5. \A i \in 1 .. k : FirstWindow(m.bridges[i]) \in Window
  <2> SUFFICES ASSUME NEW i \in 1 .. k PROVE FirstWindow(m.bridges[i]) \in Window
    OBVIOUS
  <2>1. m.bridges[i] \in [start : Nat, end : Nat]
    BY <1>2, <1>3, ElementOfSeq
  <2>2. m.bridges[i].start \in Nat /\ m.bridges[i].end \in Nat
    BY <2>1
  <2> QED  BY <2>2 DEF FirstWindow, Window
<1>6. /\ s.found = <<>> /\ s.open = FALSE /\ s.path = {} /\ s.fault = FALSE
      /\ s.windows = [i \in 1 .. k |-> FirstWindow(m.bridges[i])]
  BY <1>1, <1>4 DEF FirstState
<1>7. s.windows \in Seq(Window) /\ Len(s.windows) = k
  BY <1>4, <1>5, <1>6
<1>8. s \in States(m)
  <2>1. <<>> \in Seq(m.functions) /\ {} \in SUBSET Nat /\ FALSE \in BOOLEAN
    OBVIOUS
  <2> QED  BY <1>1, <1>6, <1>7, <2>1 DEF FirstState, States
<1>9. Range(s.found) = {} /\ Once(s.found)
  BY <1>6 DEF Range, Once
<1>10. Entered(m, s) = {FirstBus}
  BY <1>9 DEF Entered
<1>11. FirstBus[1] = 0 /\ FirstBus[2] = 0
  BY DEF FirstBus
<1>12. WindowsAre(m, s.found, s.windows)
  BY <1>3, <1>4, <1>6, <1>7, <1>9 DEF WindowsAre
<1>13. Sane(m, s)
  BY <1>6, <1>8, <1>9, <1>10, <1>11, <1>12 DEF Sane
<1>14. IsFiniteSet({}) /\ Cardinality({}) = 0 /\ Deepest(m) \in Nat
  BY FS_EmptySet, FS_CardinalityType DEF Deepest, MachineIsSound
<1> QED  BY <1>1, <1>6, <1>9, <1>10, <1>11, <1>13, <1>14 DEF May

(* The walk from the first bus finds what shows, each function once.       *)
LEMMA EnumFinds ==
  ASSUME NEW m, MachineIsSound(m), Walkable(m)
  PROVE  /\ ~PciEnum(m).fault
         /\ PciEnum(m).found \in Seq(m.functions) /\ Once(PciEnum(m).found)
         /\ Range(PciEnum(m).found) = Shown(m)
<1>1. PICK t : t = PciEnum(m)
  OBVIOUS
<1>2. PICK d : d = Deepest(m)
  OBVIOUS
<1>3. d \in Nat
  BY <1>2, FS_CardinalityType DEF Deepest, MachineIsSound
<1>4. PICK walk \in [0 .. d -> Walks(m)] :
           /\ \A n \in 1 .. d : walk[n] = [at \in States(m) \X Nat |-> EnumBus(m, walk[n - 1], at[1], at[2])]
           /\ t = walk[d][FirstState(m), 0]
  BY <1>1, <1>2, EnumCourse
<1>5. WalkIs(m, walk[d], d)
  BY <1>3, <1>4, WalksAre
<1>6. FirstBus[2] = 0
  BY DEF FirstBus
<1>7. Walking(m, FirstState(m), FirstBus, t, ShownOn(m, FirstBus))
  BY <1>2, <1>4, <1>5, <1>6, FirstMay DEF WalkIs
<1>8. Sane(m, t)
  BY <1>7 DEF Walking
<1>9. \A b \in Entered(m, t) : ShownOn(m, b) \subseteq Range(t.found)
  <2>1. Entered(m, FirstState(m)) = {FirstBus}
    <3>1. Range(FirstState(m).found) = {}
      BY DEF FirstState, Range
    <3> QED  BY <3>1 DEF Entered
  <2> QED  BY <1>7, <2>1 DEF Walking
<1>10. LeadsNowhereElse(m, Entered(m, t))
  BY <1>9 DEF LeadsNowhereElse, Entered
<1>11. Entered(m, t) \subseteq AnyBuses(m)
  BY <1>8, EnteredAre, BusesLead
<1>12. Buses(m) \subseteq Entered(m, t)
  BY <1>10, <1>11, BusesLead
<1>13. Shown(m) \subseteq Range(t.found)
  BY <1>9, <1>12 DEF Shown
<1>14. t.found \in Seq(m.functions) /\ ~t.fault /\ Once(t.found) /\ Range(t.found) \subseteq Shown(m)
  BY <1>8, StateIs DEF Sane
<1> QED  BY <1>1, <1>13, <1>14

(* A list without repetitions is as long as what is in it.                 *)
LEMMA OnceIsCardinality ==
  ASSUME NEW S, NEW q \in Seq(S), Once(q)
  PROVE  Len(q) = Cardinality(Range(q))
<1>1. PICK n : n = Len(q)
  OBVIOUS
<1>2. n \in Nat /\ DOMAIN q = 1 .. n
  BY <1>1
<1>3. PICK R : R = Range(q)
  OBVIOUS
<1>4. q \in [1 .. n -> R] /\ \A x \in R : \E i \in 1 .. n : q[i] = x
  BY <1>1, <1>2, <1>3 DEF Range
<1>5. q \in Bijection(1 .. n, R)
  BY <1>2, <1>4 DEF Bijection, Injection, Surjection, IsInjective, Once
<1>6. IsFiniteSet(1 .. n) /\ Cardinality(1 .. n) = n
  <2>1. Cardinality(1 .. n) = IF 1 > n THEN 0 ELSE n - 1 + 1
    BY <1>2, FS_Interval
  <2> QED  BY <1>2, <2>1, FS_Interval
<1>7. Cardinality(R) = Cardinality(1 .. n)
  BY <1>5, <1>6, FS_Bijection DEF ExistsBijection
<1> QED  BY <1>1, <1>3, <1>6, <1>7
-----------------------------------------------------------------------------
(***************************************************************************)
(* The command line.  Each round of the loop goes on at the next word that *)
(* begins in the line, and the words before it have said what is chosen.   *)
(***************************************************************************)

LEMMA MaxIs ==
  ASSUME NEW S \in SUBSET Int, NEW x \in S, \A y \in S : y <= x
  PROVE  Max(S) = x
<1>1. \A y \in S : y \in Int
  OBVIOUS
<1>2. ASSUME NEW y \in S, \A z \in S : y >= z PROVE y = x
  <2>1. y >= x /\ y <= x
    BY <1>2
  <2> QED  BY <1>1, <2>1
<1>3. \A y \in S : x >= y
  BY <1>1
<1> QED  BY <1>2, <1>3 DEF Max

(* A line whose words are one delimiter apart.                             *)
Spaced(line) ==
  /\ line \in Seq(STRING \ {""}) /\ CharAt(line, 0) # " "
  /\ \A i \in 1 .. Len(line) - 1 : ~(line[i] = " " /\ line[i + 1] = " ")

(* A word begins at i; at is the word the loop is at.                      *)
Starts(line, i) ==
  i \in 0 .. Len(line) - 1 /\ ~Ends(line, i) /\ (i = 0 \/ CharAt(line, i - 1) = " ")
WordAt(line, at) == Starts(line, at.off) /\ at.sz = NextEnd(line, at.off + 1) - at.off

LEMMA CharIs ==
  ASSUME NEW line, Spaced(line)
  PROVE  /\ Len(line) \in Nat
         /\ \A i \in Nat : i < Len(line) => CharAt(line, i) # ""
         /\ \A i \in Nat : i >= Len(line) => CharAt(line, i) = ""
         /\ \A i \in Nat : Ends(line, i) /\ i + 1 < Len(line) => ~Ends(line, i + 1) /\ CharAt(line, i) = " "
<1>0. PICK S : S = STRING \ {""}
  OBVIOUS
<1>1. line \in Seq(S) /\ Len(line) \in Nat
  <2>1. line \in Seq(S)
    BY <1>0 DEF Spaced
  <2> QED  BY <2>1
<1>2. ASSUME NEW i \in Nat, i < Len(line) PROVE CharAt(line, i) # "" /\ CharAt(line, i) = line[i + 1]
  <2>1. i + 1 \in 1 .. Len(line)
    BY <1>1, <1>2
  <2>2. line[i + 1] \in S
    BY <1>1, <2>1, ElementOfSeq
  <2> QED  BY <1>0, <1>2, <2>2 DEF CharAt
<1>3. ASSUME NEW i \in Nat, i >= Len(line) PROVE CharAt(line, i) = ""
  <2>1. ~(i < Len(line))
    BY <1>1, <1>3
  <2> QED  BY <2>1 DEF CharAt
<1>4. ASSUME NEW i \in Nat, Ends(line, i), i + 1 < Len(line)
      PROVE  ~Ends(line, i + 1) /\ CharAt(line, i) = " "
  <2>1. i < Len(line) /\ i + 1 \in Nat
    BY <1>1, <1>4
  <2>2. CharAt(line, i) = " " /\ CharAt(line, i) = line[i + 1]
    BY <1>2, <1>4, <2>1 DEF Ends
  <2>3. CharAt(line, i + 1) # "" /\ CharAt(line, i + 1) = line[i + 1 + 1]
    BY <1>2, <1>4, <2>1
  <2>4. i + 1 \in 1 .. Len(line) - 1
    BY <1>1, <1>4
  <2>5. line[i + 1 + 1] # " "
    BY <2>2, <2>4 DEF Spaced
  <2> QED  BY <2>2, <2>3, <2>5 DEF Ends
<1> QED  BY <1>1, <1>2, <1>3, <1>4

LEMMA LenIs ==
  ASSUME NEW line, Spaced(line)
  PROVE  Len(line) \in Nat
BY CharIs, Zenon

LEMMA NextEndIs ==
  ASSUME NEW line, Spaced(line), NEW o \in Nat
  PROVE  /\ NextEnd(line, o) \in Nat /\ NextEnd(line, o) >= o /\ Ends(line, NextEnd(line, o))
         /\ o <= Len(line) => NextEnd(line, o) <= Len(line)
         /\ \A i \in Nat : o <= i /\ i < NextEnd(line, o) => ~Ends(line, i)
<1>1. PICK n \in Nat : n = Len(line)
  BY LenIs
<1>2. PICK top \in Nat : top = IF o <= n THEN n ELSE o
  OBVIOUS
<1>3. Max({o, n}) = top
  <2>1. {o, n} \in SUBSET Int /\ top \in {o, n} /\ \A y \in {o, n} : y <= top
    BY <1>2
  <2> QED  BY <2>1, MaxIs
<1>4. PICK S : S = {i \in o .. top : Ends(line, i)}
  OBVIOUS
<1>5. top \in S
  <2>1. top >= Len(line)
    BY <1>1, <1>2
  <2>2. CharAt(line, top) = ""
    BY <2>1, CharIs, Zenon
  <2>3. Ends(line, top)
    BY <2>2 DEF Ends
  <2> QED  BY <1>2, <1>4, <2>3
<1>6. S \in SUBSET Nat /\ S # {}
  BY <1>4, <1>5
<1>7. NextEnd(line, o) = Min(S)
  BY <1>1, <1>3, <1>4 DEF NextEnd
<1>8. PICK e : e = Min(S)
  OBVIOUS
<1>9. e \in S /\ \A i \in S : e <= i
  BY <1>6, <1>8, MinIsElement
<1>10. e \in Nat /\ o <= e /\ e <= top /\ Ends(line, e)
  BY <1>4, <1>9
<1>11. ASSUME NEW i \in Nat, o <= i, i < e PROVE ~Ends(line, i)
  <2>1. i \in o .. top /\ ~(e <= i)
    BY <1>10, <1>11
  <2> QED  BY <1>4, <1>9, <2>1
<1> QED  BY <1>1, <1>2, <1>7, <1>8, <1>10, <1>11

(* The first call of str_tok, and one that follows a word.                 *)
LEMMA FirstWordIs ==
  ASSUME NEW line, Spaced(line), Len(line) # 0, NEW at, at.off = 0, at.sz = 0
  PROVE  LET first == StrTok(line, at) IN
         first.off = 0 /\ first.sz # 0 /\ first \in [off : Nat, sz : Nat] /\ WordAt(line, first)
<1>1. PICK n \in Nat : n = Len(line)
  BY LenIs
<1>2. n # 0 /\ line # <<>> /\ ~(0 > n)
  BY <1>1
<1>3. CharAt(line, 0) # ""
  <2>1. 0 < Len(line)
    BY <1>1, <1>2
  <2> QED  BY <2>1, CharIs
<1>4. ~Ends(line, 0)
  BY <1>3 DEF Ends, Spaced
<1>5. StrTok(line, at) = [off |-> 0, sz |-> NextEnd(line, 0 + 1) - 0]
  BY <1>1, <1>2, <1>4 DEF StrTok
<1>6. 0 \in 0 .. Len(line) - 1
  BY <1>1, <1>2
<1>7. NextEnd(line, 0 + 1) \in Nat /\ NextEnd(line, 0 + 1) >= 0 + 1
  BY NextEndIs
<1>8. PICK w : w = NextEnd(line, 0 + 1) - 0
  OBVIOUS
<1>9. w \in Nat /\ w # 0
  BY <1>7, <1>8
<1>10. WordAt(line, [off |-> 0, sz |-> w])
  BY <1>4, <1>6, <1>8 DEF WordAt, Starts
<1> QED  BY <1>5, <1>8, <1>9, <1>10

(* Where words are.                                                        *)
LEMMA StartsAre ==
  ASSUME NEW line, Spaced(line), NEW i, Starts(line, i)
  PROVE  /\ i \in Nat /\ i < Len(line) /\ ~Ends(line, i)
         /\ i # 0 => i - 1 \in Nat /\ Ends(line, i - 1)
<1>1. PICK n \in Nat : n = Len(line)
  BY LenIs
<1>2. i \in 0 .. n - 1 /\ ~Ends(line, i)
  BY <1>1 DEF Starts
<1>3. i # 0 => Ends(line, i - 1)
  BY DEF Starts, Ends
<1> QED  BY <1>1, <1>2, <1>3

LEMMA NextWordIs ==
  ASSUME NEW line, Spaced(line), NEW at, WordAt(line, at)
  PROVE  LET next == StrTok(line, at) IN
         \/ next.sz = 0 /\ \A i : Starts(line, i) => i <= at.off
         \/ /\ WordAt(line, next) /\ next.off > at.off /\ next.sz # 0
            /\ \A i : Starts(line, i) => i <= at.off \/ i >= next.off
<1>1. PICK n \in Nat : n = Len(line)
  BY LenIs
<1>2. PICK o : o = at.off
  OBVIOUS
<1>3. o \in Nat /\ o < n /\ ~Ends(line, o)
  <2>1. Starts(line, o)
    BY <1>2 DEF WordAt
  <2> QED  BY <1>1, <2>1, StartsAre
<1>4. PICK e : e = NextEnd(line, o + 1)
  OBVIOUS
<1>5. o + 1 \in Nat /\ o + 1 <= Len(line)
  BY <1>1, <1>3
<1>6. e \in Nat /\ e >= o + 1 /\ Ends(line, e) /\ \A i \in Nat : o + 1 <= i /\ i < e => ~Ends(line, i)
  BY <1>4, <1>5, NextEndIs
<1>7. at.sz = e - o /\ at.sz # 0 /\ e # 0
  <2>1. at.sz = e - o
    BY <1>2, <1>4 DEF WordAt
  <2> QED  BY <1>3, <1>6, <2>1
<1>8. PastWord(line, at.off) = e + 1
  BY <1>2, <1>4 DEF PastWord
<1>9. ASSUME NEW i, Starts(line, i) PROVE i \in Nat /\ i < n /\ (i <= o \/ i > e)
  <2>1. i \in Nat /\ i < n /\ ~Ends(line, i) /\ (i # 0 => i - 1 \in Nat /\ Ends(line, i - 1))
    BY <1>1, <1>9, StartsAre
  <2>2. ASSUME i > o, i <= e PROVE FALSE
    <3>1. i # 0 /\ i # e
      BY <1>3, <1>6, <2>1, <2>2
    <3>2. i - 1 \in Nat /\ Ends(line, i - 1) /\ i - 1 < e
      BY <1>6, <2>1, <2>2, <3>1
    <3>3. i - 1 = o \/ o + 1 <= i - 1
      BY <1>3, <2>1, <2>2
    <3> QED  BY <1>3, <1>6, <3>2, <3>3
  <2> QED  BY <1>3, <1>6, <2>1, <2>2
<1>10. ~(at.off > Len(line)) /\ line # <<>>
  BY <1>1, <1>2, <1>3
<1>11. CASE e + 1 >= n
  <2>1. StrTok(line, at) = [off |-> 0, sz |-> 0]
    BY <1>1, <1>6, <1>7, <1>8, <1>10, <1>11 DEF StrTok
  <2>2. \A i : Starts(line, i) => i <= o
    BY <1>3, <1>6, <1>9, <1>11
  <2> QED  BY <1>2, <2>1, <2>2
<1>12. CASE e + 1 < n
  <2>1. StrTok(line, at) = [off |-> e + 1, sz |-> NextEnd(line, e + 1 + 1) - (e + 1)]
    <3>1. ~(e + 1 >= Len(line)) /\ e + 1 # 0
      BY <1>1, <1>6, <1>12
    <3> QED  BY <1>7, <1>8, <1>10, <3>1 DEF StrTok
  <2>2. ~Ends(line, e + 1) /\ CharAt(line, e) = " "
    BY <1>1, <1>6, <1>12, CharIs
  <2>3. Starts(line, e + 1)
    <3>1. PICK p : p = e + 1
      OBVIOUS
    <3>2. p \in 0 .. Len(line) - 1 /\ p - 1 = e
      BY <1>1, <1>6, <1>12, <3>1
    <3>3. Starts(line, p)
      BY <2>2, <3>1, <3>2 DEF Starts
    <3> QED  BY <3>1, <3>3
  <2>4. e + 1 + 1 \in Nat
    BY <1>6
  <2>5. NextEnd(line, e + 1 + 1) \in Nat /\ NextEnd(line, e + 1 + 1) >= e + 1 + 1
    BY <2>4, NextEndIs
  <2>6. NextEnd(line, e + 1 + 1) - (e + 1) # 0 /\ e + 1 > o
    BY <1>3, <1>6, <2>5
  <2>7. \A i : Starts(line, i) => i <= o \/ i >= e + 1
    BY <1>3, <1>6, <1>9
  <2> QED  BY <1>2, <2>1, <2>3, <2>6, <2>7 DEF WordAt
<1> QED  BY <1>3, <1>6, <1>11, <1>12

(* What the words before an offset ask for; text: the piece that names it. *)
AskedBefore(line, o) ==
  LET words == {i \in UuidWords(line) : i < o} IN
  IF words = {} THEN ZeroUuid ELSE StrToUuid(CharAt(line, Max(words) + 1))

LEMMA UuidWordsStart ==
  ASSUME NEW line, Spaced(line), NEW i \in UuidWords(line)
  PROVE  Starts(line, i) /\ i \in Nat
<1>1. /\ i \in 0 .. Len(line) - 1 /\ CharAt(line, i) = "ruuid="
      /\ i = 0 \/ CharAt(line, i - 1) = " "
  BY DEF UuidWords
<1>2. ~Ends(line, i)
  BY <1>1 DEF Ends
<1>3. Starts(line, i)
  BY <1>1, <1>2 DEF Starts
<1> QED  BY <1>3, StartsAre

(* A word of an option and its value is 2 pieces long.                     *)
LEMMA UuidWordIs ==
  ASSUME NEW line, Spaced(line), NEW at, WordAt(line, at)
  PROVE  (/\ CharAt(line, at.off) = "ruuid=" /\ at.sz = 2
          /\ CharAt(line, at.off + 1) \in DOMAIN UuidTexts)
           <=> at.off \in UuidWords(line)
<1>1. PICK n \in Nat : n = Len(line)
  BY LenIs
<1>2. PICK o : o = at.off
  OBVIOUS
<1>3. o \in Nat /\ o < n /\ Starts(line, o)
  <2>1. Starts(line, o)
    BY <1>2 DEF WordAt
  <2> QED  BY <1>1, <2>1, StartsAre
<1>4. PICK e : e = NextEnd(line, o + 1)
  OBVIOUS
<1>5. o + 1 \in Nat /\ o + 1 <= Len(line)
  BY <1>1, <1>3
<1>6. e \in Nat /\ e >= o + 1 /\ Ends(line, e) /\ \A i \in Nat : o + 1 <= i /\ i < e => ~Ends(line, i)
  BY <1>4, <1>5, NextEndIs
<1>7. at.sz = e - o
  BY <1>2, <1>4 DEF WordAt
<1>8. ASSUME CharAt(line, o + 1) \in DOMAIN UuidTexts
      PROVE  at.sz = 2 <=> Ends(line, o + 2)
  <2>1. ~Ends(line, o + 1)
    BY <1>8, FilesAssumption DEF Ends
  <2>2. e # o + 1
    BY <1>6, <2>1
  <2>3. ASSUME Ends(line, o + 2) PROVE e = o + 2
    <3>1. ~(o + 2 < e)
      BY <1>3, <1>6, <2>3
    <3> QED  BY <1>3, <1>6, <2>2, <3>1
  <2>4. at.sz = 2 <=> e = o + 2
    BY <1>3, <1>6, <1>7
  <2> QED  BY <1>6, <2>3, <2>4
<1>9. o \in UuidWords(line) <=>
        /\ CharAt(line, o) = "ruuid=" /\ CharAt(line, o + 1) \in DOMAIN UuidTexts /\ Ends(line, o + 2)
  <2>1. o \in 0 .. Len(line) - 1 /\ (o = 0 \/ CharAt(line, o - 1) = " ")
    BY <1>3, Zenon DEF Starts
  <2> QED  BY <2>1, Zenon DEF UuidWords
<1> QED  BY <1>2, <1>8, <1>9

LEMMA AskedHere ==
  ASSUME NEW line, Spaced(line), NEW at, WordAt(line, at)
  PROVE  RootUuid0(line, at, AskedBefore(line, at.off)) = AskedBefore(line, at.off + 1)
<1>1. PICK o : o = at.off
  OBVIOUS
<1>2. Starts(line, o) /\ o \in Nat
  <2>1. Starts(line, o)
    BY <1>1 DEF WordAt
  <2> QED  BY <2>1, StartsAre
<1>3. PICK T : T = {i \in UuidWords(line) : i < o + 1}
  OBVIOUS
<1>4. PICK S : S = {i \in UuidWords(line) : i < o}
  OBVIOUS
<1>5. \A i \in UuidWords(line) : i \in Nat
  BY UuidWordsStart
<1>6. CASE o \in UuidWords(line)
  <2>0. o < o + 1 /\ \A i \in Nat : i < o + 1 => i <= o
    BY <1>2
  <2>1. o \in T /\ T \in SUBSET Int /\ \A i \in T : i <= o
    <3>1. o \in T
      BY <1>3, <1>6, <2>0
    <3>2. \A i \in T : i \in Nat /\ i <= o
      BY <1>3, <1>5, <2>0
    <3> QED  BY <3>1, <3>2
  <2>2. Max(T) = o /\ T # {}
    BY <2>1, MaxIs
  <2>3. AskedBefore(line, at.off + 1) = StrToUuid(CharAt(line, at.off + 1))
    BY <1>1, <1>3, <2>2 DEF AskedBefore
  <2> QED  BY <1>1, <1>6, <2>3, UuidWordIs DEF RootUuid0
<1>7. CASE o \notin UuidWords(line)
  <2>1. S = T
    BY <1>2, <1>3, <1>4, <1>5, <1>7
  <2>2. AskedBefore(line, at.off) = AskedBefore(line, at.off + 1)
    BY <1>1, <1>3, <1>4, <2>1 DEF AskedBefore
  <2> QED  BY <1>1, <1>7, <2>2, UuidWordIs DEF RootUuid0
<1> QED  BY <1>6, <1>7

(* What the loop has chosen after its rounds so far: k of them.            *)
Got(line, at, k) ==
  \/ at.res.sz = 0 /\ at.chosen.uuid = AskedUuid(line)
  \/ /\ WordAt(line, at.res) /\ at.res.sz # 0 /\ at.res.off >= k
     /\ at.chosen.uuid = AskedBefore(line, at.res.off)

LEMMA AskedStays ==
  ASSUME NEW line, Spaced(line), NEW p \in Nat, NEW q \in Nat, p <= q,
         \A i : Starts(line, i) => i < p \/ i >= q
  PROVE  AskedBefore(line, p) = AskedBefore(line, q)
<1>1. \A i \in UuidWords(line) : i \in Nat /\ (i < p \/ i >= q)
  BY UuidWordsStart
<1>2. \A i \in UuidWords(line) : i < p <=> i < q
  BY <1>1
<1>3. {i \in UuidWords(line) : i < p} = {i \in UuidWords(line) : i < q}
  BY <1>2
<1> QED  BY <1>3 DEF AskedBefore

LEMMA AskedAtEnd ==
  ASSUME NEW line, Spaced(line), NEW p \in Nat, \A i : Starts(line, i) => i < p
  PROVE  AskedBefore(line, p) = AskedUuid(line)
<1>1. {i \in UuidWords(line) : i < p} = UuidWords(line)
  BY UuidWordsStart
<1> QED  BY <1>1 DEF AskedBefore, AskedUuid

LEMMA LookGoesOn ==
  ASSUME NEW line, Spaced(line), NEW at, NEW k \in Nat, Got(line, at, k)
  PROVE  Got(line, LookOn(line, at), k + 1)
<1>1. CASE at.res.sz = 0
  <2>1. ~(at.res.sz # 0)
    BY <1>1
  <2> QED  BY <1>1, <2>1 DEF Got, LookOn
<1>2. CASE at.res.sz # 0
  <2>1. /\ WordAt(line, at.res) /\ at.res.off >= k
        /\ at.chosen.uuid = AskedBefore(line, at.res.off)
    BY <1>2 DEF Got
  <2>2. PICK o : o = at.res.off
    OBVIOUS
  <2>3. PICK next : next = StrTok(line, at.res)
    OBVIOUS
  <2>4. o \in Nat /\ o >= k
    <3>1. Starts(line, o)
      BY <2>1, <2>2 DEF WordAt
    <3> QED  BY <2>1, <2>2, <3>1, StartsAre
  <2>5. LookOn(line, at).res = next /\ LookOn(line, at).chosen.uuid = AskedBefore(line, o + 1)
    BY <1>2, <2>1, <2>2, <2>3, AskedHere DEF LookOn, Look
  <2>6. \/ next.sz = 0 /\ \A i : Starts(line, i) => i <= o
        \/ /\ WordAt(line, next) /\ next.off > o /\ next.sz # 0
           /\ \A i : Starts(line, i) => i <= o \/ i >= next.off
    BY <2>1, <2>2, <2>3, NextWordIs
  <2>7. \A i : Starts(line, i) => i \in Nat
    BY StartsAre
  <2>8. CASE next.sz = 0 /\ \A i : Starts(line, i) => i <= o
    <3>1. o + 1 \in Nat /\ \A i : Starts(line, i) => i < o + 1
      BY <2>4, <2>7, <2>8
    <3>2. AskedBefore(line, o + 1) = AskedUuid(line)
      BY <3>1, AskedAtEnd
    <3> QED  BY <2>5, <2>8, <3>2 DEF Got
  <2>9. CASE /\ WordAt(line, next) /\ next.off > o /\ next.sz # 0
             /\ \A i : Starts(line, i) => i <= o \/ i >= next.off
    <3>1. PICK p : p = next.off
      OBVIOUS
    <3>2. p \in Nat
      BY <2>7, <2>9, <3>1 DEF WordAt
    <3>3. o + 1 \in Nat /\ o + 1 <= p /\ p >= k + 1 /\ \A i : Starts(line, i) => i < o + 1 \/ i >= p
      BY <2>4, <2>7, <2>9, <3>1, <3>2
    <3>4. AskedBefore(line, o + 1) = AskedBefore(line, p)
      BY <3>2, <3>3, AskedStays
    <3> QED  BY <2>5, <2>9, <3>1, <3>3, <3>4 DEF Got
  <2> QED  BY <2>6, <2>8, <2>9
<1> QED  BY <1>1, <1>2

(* What the loop may hold: what it chose so far is a default or what some  *)
(* piece of the line says.                                                 *)
Looks(line, at) ==
  [chosen : [inode : {at.chosen.inode, 0} \cup {NumberTexts[CharAt(line, i)] : i \in Nat},
             uuid : {at.chosen.uuid} \cup {StrToUuid(CharAt(line, i)) : i \in Nat}],
   res : [off : Nat, sz : Nat]]

LEMMA StrTokIs ==
  ASSUME NEW line, Spaced(line), NEW at \in [off : Nat, sz : Nat]
  PROVE  StrTok(line, at) \in [off : Nat, sz : Nat]
<1>1. PICK n \in Nat : n = Len(line)
  BY LenIs
<1>2. PICK o : o = IF at.sz # 0 THEN PastWord(line, at.off) ELSE at.off
  OBVIOUS
<1>3. o \in Nat
  <2>1. at.off \in Nat /\ at.off + 1 \in Nat
    OBVIOUS
  <2>2. NextEnd(line, at.off + 1) \in Nat
    BY <2>1, NextEndIs
  <2>3. PastWord(line, at.off) \in Nat
    BY <2>2 DEF PastWord
  <2> QED  BY <1>2, <2>1, <2>3
<1>4. PICK e : e = NextEnd(line, o + 1)
  OBVIOUS
<1>5. e \in Nat /\ e >= o + 1
  <2>1. o + 1 \in Nat
    BY <1>3
  <2> QED  BY <1>4, <2>1, NextEndIs
<1>6. e - o \in Nat
  BY <1>3, <1>5
<1>7. \/ StrTok(line, at) = [off |-> 0, sz |-> 0]
      \/ StrTok(line, at) = [off |-> 0, sz |-> 1]
      \/ StrTok(line, at) = [off |-> o, sz |-> e - o]
  BY <1>2, <1>4 DEF StrTok
<1> QED  BY <1>3, <1>6, <1>7

LEMMA LookIs ==
  ASSUME NEW line, Spaced(line), NEW first, NEW at \in Looks(line, first)
  PROVE  Look(line, at) \in Looks(line, first) /\ LookOn(line, at) \in Looks(line, first)
<1>1. PICK I : I = {first.chosen.inode, 0} \cup {NumberTexts[CharAt(line, i)] : i \in Nat}
  OBVIOUS
<1>2. PICK U : U = {first.chosen.uuid} \cup {StrToUuid(CharAt(line, i)) : i \in Nat}
  OBVIOUS
<1>3. at \in [chosen : [inode : I, uuid : U], res : [off : Nat, sz : Nat]]
  BY <1>1, <1>2 DEF Looks
<1>4. at.res \in [off : Nat, sz : Nat] /\ at.chosen.inode \in I /\ at.chosen.uuid \in U
  BY <1>3
<1>5. at.res.off + 1 \in Nat
  BY <1>4
<1>6. RootInode0(line, at.res, at.chosen.inode) \in I
  BY <1>1, <1>4, <1>5 DEF RootInode0
<1>7. RootUuid0(line, at.res, at.chosen.uuid) \in U
  BY <1>2, <1>4, <1>5 DEF RootUuid0
<1>8. StrTok(line, at.res) \in [off : Nat, sz : Nat]
  BY <1>4, StrTokIs
<1>9. Look(line, at) \in [chosen : [inode : I, uuid : U], res : [off : Nat, sz : Nat]]
  BY <1>6, <1>7, <1>8 DEF Look
<1> QED  BY <1>1, <1>2, <1>9 DEF Looks, LookOn

(* Options is a loop with these rounds.                                    *)
LEMMA OptionsCourse ==
  ASSUME NEW line, Spaced(line), NEW n \in Nat, n = Len(line), NEW first, NEW default,
         NEW at, at = [chosen |-> default, res |-> first],
         Look(line, at) \in Looks(line, at)
  PROVE  \E f : /\ f[0] = Look(line, at) /\ Options(line, first, default) = f[n].chosen
                /\ \A k \in 1 .. n : f[k] = LookOn(line, f[k - 1])
<1>1. PICK S : S = Looks(line, at)
  OBVIOUS
<1>2. PICK g : g = [k \in 1 .. n |-> [x \in S |-> LookOn(line, x)]]
  OBVIOUS
<1>3. g \in [1 .. n -> [S -> S]]
  <2>1. \A x \in S : LookOn(line, x) \in S
    BY <1>1, LookIs
  <2> QED  BY <1>2, <2>1
<1>4. PICK f : Course(n, S, Look(line, at), g, f)
  BY <1>1, <1>3, SomeCourse
<1>5. f \in [0 .. n -> S] /\ f[0] = Look(line, at) /\ \A k \in 1 .. n : f[k] = g[k][f[k - 1]]
  BY <1>4 DEF Course
<1>6. ASSUME NEW k \in 1 .. n PROVE f[k] = LookOn(line, f[k - 1])
  <2>1. k - 1 \in 0 .. n
    OBVIOUS
  <2>2. f[k - 1] \in S
    BY <1>5, <2>1
  <2> QED  BY <1>2, <1>5, <2>2
<1>7. PICK looked : looked = [k \in 0 .. n |-> IF k = 0 THEN Look(line, at) ELSE LookOn(line, f[k - 1])]
  OBVIOUS
<1>8. f = [k \in 0 .. n |-> IF k = 0 THEN Look(line, at) ELSE LookOn(line, f[k - 1])]
  <2>1. \A k \in 0 .. n : k # 0 => k \in 1 .. n
    OBVIOUS
  <2> QED  BY <1>5, <1>6, <2>1
<1>9. PICK h : h = CHOOSE loop : loop = [k \in 0 .. n |-> IF k = 0 THEN Look(line, at) ELSE LookOn(line, loop[k - 1])]
  OBVIOUS
<1>10. h = [k \in 0 .. n |-> IF k = 0 THEN Look(line, at) ELSE LookOn(line, h[k - 1])]
  BY <1>8, <1>9, Zenon
<1>11. Options(line, first, default) = h[n].chosen
  BY <1>9, Zenon DEF Options
<1>12. h[0] = Look(line, at) /\ \A k \in 1 .. n : h[k] = LookOn(line, h[k - 1])
  <2>1. \A k \in 1 .. n : k \in 0 .. n /\ k # 0
    OBVIOUS
  <2>2. 0 \in 0 .. n
    OBVIOUS
  <2> QED  BY <1>10, <2>1, <2>2, Zenon
<1> QED  BY <1>11, <1>12

(* The command line asks for the uuid its last such option names.          *)
LEMMA ChosenIs ==
  ASSUME NEW m, LineIsSound(m), WellSpaced(m)
  PROVE  Chosen(m).uuid = AskedUuid(CmdLine(m))
<1>1. PICK line : line = CmdLine(m)
  OBVIOUS
<1>2. Spaced(line) /\ (m.res.off > Len(line) \/ (m.res.off = 0 /\ m.res.sz = 0))
  BY <1>1 DEF Spaced, LineIsSound, WellSpaced
<1>3. PICK n \in Nat : n = Len(line)
  BY <1>2, LenIs
<1>4. PICK first : first = StrTok(line, m.res)
  OBVIOUS
<1>5. PICK at : at = [chosen |-> [inode |-> InitInode, uuid |-> ZeroUuid], res |-> first]
  OBVIOUS
<1>6. AskedBefore(line, 0) = ZeroUuid
  <2>1. {i \in UuidWords(line) : i < 0} = {}
    BY <1>2, UuidWordsStart
  <2> QED  BY <2>1 DEF AskedBefore
<1>7. \/ first = [off |-> 0, sz |-> 0]
      \/ /\ n # 0 /\ first.off = 0 /\ first.sz # 0 /\ WordAt(line, first)
         /\ first \in [off : Nat, sz : Nat]
  <2>1. CASE m.res.off > Len(line) \/ line = <<>>
    <3>1. StrTok(line, m.res) = [off |-> 0, sz |-> 0]
      BY <2>1, Zenon DEF StrTok
    <3> QED  BY <1>4, <3>1
  <2>2. CASE m.res.off = 0 /\ m.res.sz = 0 /\ line # <<>>
    <3>1. n # 0
      <4>1. line \in Seq(STRING \ {""})
        BY <1>2 DEF Spaced
      <4> QED  BY <1>3, <2>2, <4>1, EmptySeq
    <3> QED  BY <1>2, <1>3, <1>4, <2>2, <3>1, FirstWordIs
  <2> QED  BY <1>2, <2>1, <2>2
<1>8. Got(line, Look(line, at), 0)
  <2>1. CASE n # 0 /\ first.off = 0 /\ first.sz # 0 /\ WordAt(line, first)
    <3>1. Got(line, at, 0)
      BY <1>5, <1>6, <2>1 DEF Got
    <3>2. Got(line, LookOn(line, at), 0 + 1)
      BY <1>2, <3>1, LookGoesOn
    <3>3. LookOn(line, at) = Look(line, at)
      BY <1>5, <2>1 DEF LookOn
    <3>4. PICK a : a = Look(line, at)
      OBVIOUS
    <3>5. Got(line, a, 1)
      BY <3>2, <3>3, <3>4
    <3>6. a.res.off >= 1 /\ WordAt(line, a.res) => a.res.off >= 0
      <4>1. ASSUME WordAt(line, a.res) PROVE a.res.off \in Nat
        <5>1. Starts(line, a.res.off)
          BY <4>1 DEF WordAt
        <5> QED  BY <1>2, <5>1, StartsAre
      <4> QED  BY <4>1
    <3> QED  BY <3>4, <3>5, <3>6 DEF Got
  <2>2. CASE first = [off |-> 0, sz |-> 0]
    <3>1. Look(line, at).chosen.uuid = ZeroUuid
      BY <1>5, <2>2 DEF Look, RootUuid0
    <3>2. Look(line, at).res = StrTok(line, first)
      BY <1>5 DEF Look
    <3>3. CASE n = 0
      <4>1. line = <<>>
        <5>1. line \in Seq(STRING \ {""})
          BY <1>2 DEF Spaced
        <5> QED  BY <1>3, <3>3, <5>1, EmptySeq
      <4>2. StrTok(line, first).sz = 0
        BY <4>1 DEF StrTok
      <4>3. UuidWords(line) = {}
        BY <1>3, <3>3 DEF UuidWords
      <4> QED  BY <3>1, <3>2, <4>2, <4>3 DEF Got, AskedUuid
    <3>4. CASE n # 0
      <4>1. PICK w : w = StrTok(line, first)
        OBVIOUS
      <4>2. w.off = 0 /\ w.sz # 0 /\ WordAt(line, w)
        BY <1>2, <1>3, <2>2, <3>4, <4>1, FirstWordIs
      <4> QED  BY <1>6, <3>1, <3>2, <4>1, <4>2 DEF Got
    <3> QED  BY <3>3, <3>4
  <2> QED  BY <1>7, <2>1, <2>2
<1>9. Look(line, at) \in Looks(line, at)
  <2>1. first \in [off : Nat, sz : Nat]
    <3>1. [off |-> 0, sz |-> 0] \in [off : Nat, sz : Nat]
      OBVIOUS
    <3> QED  BY <1>7, <3>1
  <2>2. at \in Looks(line, at)
    BY <1>5, <2>1 DEF Looks
  <2> QED  BY <1>2, <2>2, LookIs
<1>10. PICK f : /\ f[0] = Look(line, at) /\ Options(line, first, at.chosen) = f[n].chosen
                /\ \A k \in 1 .. n : f[k] = LookOn(line, f[k - 1])
  BY <1>2, <1>3, <1>5, <1>9, OptionsCourse
<1>11. PICK S : S = {k \in 0 .. n : Got(line, f[k], k)}
  OBVIOUS
<1>12. 0 \in S
  BY <1>8, <1>10, <1>11
<1>13. ASSUME NEW k \in 1 .. n, k - 1 \in S PROVE k \in S
  <2>1. k - 1 \in Nat /\ k - 1 + 1 = k /\ Got(line, f[k - 1], k - 1)
    BY <1>11, <1>13
  <2>2. Got(line, LookOn(line, f[k - 1]), k - 1 + 1)
    BY <1>2, <2>1, LookGoesOn
  <2> QED  BY <1>10, <1>11, <2>1, <2>2
<1>14. Got(line, f[n], n)
  <2>1. \A k \in 0 .. n : k \in S
    BY <1>12, <1>13, Rounds
  <2> QED  BY <1>11, <2>1
<1>15. ~WordAt(line, f[n].res) \/ ~(f[n].res.off >= n)
  <2>1. ASSUME WordAt(line, f[n].res) PROVE f[n].res.off \in Nat /\ f[n].res.off < n
    <3>1. Starts(line, f[n].res.off)
      BY <2>1 DEF WordAt
    <3> QED  BY <1>2, <1>3, <3>1, StartsAre
  <2> QED  BY <2>1
<1>16. f[n].chosen.uuid = AskedUuid(line)
  BY <1>14, <1>15 DEF Got
<1>17. Chosen(m) = Options(line, first, at.chosen)
  BY <1>1, <1>4, <1>5 DEF Chosen
<1> QED  BY <1>1, <1>10, <1>16, <1>17
-----------------------------------------------------------------------------
(***************************************************************************)
(* The list of disks and partitions.  Each disk that the loop passes adds  *)
(* the entries of its table at the end and keeps the rest as it was.       *)
(***************************************************************************)

(* The name spaces of what was found.                                      *)
LEMMA SpacesAre ==
  ASSUME NEW m, MachineIsSound(m), DrivesAreSound(m), NEW f \in m.functions
  PROVE  NameSpaces(f) \in Seq(DOMAIN m.drives) /\ NameSpaces(f) = f.spaces
<1>1. f \in PciFunction /\ (f.kind # "nvme" => f.spaces = <<>>) /\ Range(f.spaces) \subseteq DOMAIN m.drives
  BY DEF MachineIsSound, DrivesAreSound
<1>2. PICK q \in Seq(Nat) : q = f.spaces
  BY <1>1 DEF PciFunction
<1>3. NameSpaces(f) = q
  BY <1>1, <1>2 DEF NameSpaces
<1>4. PICK N : N = DOMAIN m.drives
  OBVIOUS
<1>5. PICK n \in Nat : n = Len(q)
  OBVIOUS
<1>6. \A i \in 1 .. n : q[i] \in N
  <2>1. DOMAIN q = 1 .. n
    BY <1>5
  <2> QED  BY <1>1, <1>2, <1>4, <2>1 DEF Range
<1>7. q \in Seq(N)
  BY <1>5, <1>6
<1> QED  BY <1>2, <1>3, <1>4, <1>7

LEMMA JoinedIs ==
  ASSUME NEW S, NEW p \in Seq(S), NEW q \in Seq(S)
  PROVE  /\ p \o q \in Seq(S)
         /\ Range(p) \subseteq Range(p \o q) /\ Range(q) \subseteq Range(p \o q)
<1>1. PICK k \in Nat : k = Len(p)
  OBVIOUS
<1>2. PICK n \in Nat : n = Len(q)
  OBVIOUS
<1>3. PICK r : r = p \o q
  OBVIOUS
<1>4. /\ r \in Seq(S) /\ DOMAIN r = 1 .. k + n /\ DOMAIN p = 1 .. k /\ DOMAIN q = 1 .. n
      /\ \A i \in 1 .. k : r[i] = p[i]
  BY <1>1, <1>2, <1>3
<1>5. \A i \in 1 .. n : r[k + i] = q[i] /\ k + i \in 1 .. k + n
  BY <1>1, <1>2, <1>3
<1>6. \A i \in 1 .. k : i \in 1 .. k + n
  OBVIOUS
<1> QED  BY <1>3, <1>4, <1>5, <1>6 DEF Range

LEMMA DrivesAre ==
  ASSUME NEW m, MachineIsSound(m), DrivesAreSound(m), NEW found \in Seq(m.functions)
  PROVE  /\ Drives(found) \in Seq(DOMAIN m.drives)
         /\ \A f \in Range(found) : Range(f.spaces) \subseteq Range(Drives(found))
<1>1. PICK n \in Nat : n = Len(found)
  OBVIOUS
<1>2. PICK S : S = Seq(DOMAIN m.drives)
  OBVIOUS
<1>3. \A k \in 1 .. n : found[k] \in m.functions
  BY <1>1, ElementOfSeq
<1>4. \A k \in 1 .. n : NameSpaces(found[k]) \in S /\ NameSpaces(found[k]) = found[k].spaces
  BY <1>2, <1>3, SpacesAre
<1>5. PICK g : g = [k \in 1 .. n |-> [x \in S |-> x \o NameSpaces(found[k])]]
  OBVIOUS
<1>6. g \in [1 .. n -> [S -> S]]
  <2>1. \A k \in 1 .. n : \A x \in S : x \o NameSpaces(found[k]) \in S
    BY <1>2, <1>4, JoinedIs
  <2> QED  BY <1>5, <2>1
<1>7. <<>> \in S
  BY <1>2
<1>8. PICK f : Course(n, S, <<>>, g, f)
  BY <1>6, <1>7, SomeCourse
<1>9. f \in [0 .. n -> S] /\ f[0] = <<>>
  BY <1>8 DEF Course
<1>10. ASSUME NEW k \in 1 .. n PROVE f[k] = f[k - 1] \o NameSpaces(found[k]) /\ f[k - 1] \in S
  <2>1. k - 1 \in 0 .. n
    OBVIOUS
  <2>2. f[k - 1] \in S
    BY <1>9, <2>1
  <2>3. f[k] = g[k][f[k - 1]]
    BY <1>8 DEF Course
  <2> QED  BY <1>5, <2>2, <2>3
<1>11. f = [k \in 0 .. n |-> IF k = 0 THEN <<>> ELSE f[k - 1] \o NameSpaces(found[k])]
  <2>1. \A k \in 0 .. n : k # 0 => k \in 1 .. n
    OBVIOUS
  <2> QED  BY <1>9, <1>10, <2>1
<1>12. PICK h : h = CHOOSE loop : loop = [k \in 0 .. n |-> IF k = 0 THEN <<>> ELSE loop[k - 1] \o NameSpaces(found[k])]
  OBVIOUS
<1>13. h = [k \in 0 .. n |-> IF k = 0 THEN <<>> ELSE h[k - 1] \o NameSpaces(found[k])]
  BY <1>11, <1>12, Zenon
<1>14. Drives(found) = h[n]
  BY <1>1, <1>12, Zenon DEF Drives
<1>15. h[0] = <<>> /\ \A k \in 1 .. n : h[k] = h[k - 1] \o NameSpaces(found[k])
  <2>1. 0 \in 0 .. n /\ \A k \in 1 .. n : k \in 0 .. n /\ k # 0
    OBVIOUS
  <2> QED  BY <1>13, <2>1, Zenon
<1>16. PICK K : K = {k \in 0 .. n : h[k] \in S /\ \A j \in 1 .. k : Range(found[j].spaces) \subseteq Range(h[k])}
  OBVIOUS
<1>17. 0 \in K
  <2>1. 0 \in 0 .. n /\ \A j \in 1 .. 0 : FALSE
    OBVIOUS
  <2> QED  BY <1>7, <1>15, <1>16, <2>1
<1>18. ASSUME NEW k \in 1 .. n, k - 1 \in K PROVE k \in K
  <2>1. h[k - 1] \in S /\ \A j \in 1 .. k - 1 : Range(found[j].spaces) \subseteq Range(h[k - 1])
    BY <1>16, <1>18
  <2>2. PICK a \in S : a = h[k - 1]
    BY <2>1
  <2>3. PICK b \in S : b = NameSpaces(found[k]) /\ b = found[k].spaces
    BY <1>4
  <2>4. a \o b \in S /\ Range(a) \subseteq Range(a \o b) /\ Range(b) \subseteq Range(a \o b)
    BY <1>2, JoinedIs
  <2>5. h[k] = a \o b
    BY <1>15, <2>2, <2>3
  <2>6. \A j \in 1 .. k : j = k \/ j \in 1 .. k - 1
    OBVIOUS
  <2>7. \A j \in 1 .. k : Range(found[j].spaces) \subseteq Range(a \o b)
    BY <2>1, <2>2, <2>3, <2>4, <2>6
  <2>8. k \in 0 .. n
    OBVIOUS
  <2> QED  BY <1>16, <2>4, <2>5, <2>7, <2>8
<1>19. n \in K
  <2>1. \A k \in 0 .. n : k \in K
    BY <1>17, <1>18, Rounds
  <2> QED  BY <2>1
<1>20. h[n] \in S /\ \A j \in 1 .. n : Range(found[j].spaces) \subseteq Range(h[n])
  BY <1>16, <1>19
<1>21. DOMAIN found = 1 .. n
  BY <1>1
<1> QED  BY <1>2, <1>14, <1>20, <1>21 DEF Range

(* Lists of at least n entries, and what is in them.                       *)
TableEntry == [used : BOOLEAN, guid : Uuid, lba : Nat]
Drive == [gpt : BOOLEAN, guid : Uuid, parts : Seq(TableEntry)]
ListEntry(m) ==
  [uuid : Uuid \cup {NoUuid, Junk}, ispart : BOOLEAN, fs : {"dev", "null"},
   drive : {0} \cup DOMAIN m.drives, on : Nat, lba : Nat]
Lists(m, n) == {list \in Seq(ListEntry(m)) : Len(list) >= n}

LEMMA NewPartIs ==
  ASSUME NEW m, NEW i \in Nat, NEW p \in TableEntry
  PROVE  /\ NewPart(i, p) \in ListEntry(m)
         /\ NewPart(i, p).uuid = p.guid /\ NewPart(i, p).ispart /\ NewPart(i, p).drive = 0
         /\ NewPart(i, p).on = i /\ NewPart(i, p).lba = p.lba
<1>1. p.guid \in Uuid /\ p.lba \in Nat
  BY DEF TableEntry
<1>2. PICK e : e = NewEnt(p.guid)
  OBVIOUS
<1>3. e \in ListEntry(m) /\ e.uuid = p.guid /\ e.drive = 0
  BY <1>1, <1>2 DEF NewEnt, ListEntry
<1>4. PICK r : r = [e EXCEPT !.ispart = TRUE, !.on = i, !.lba = p.lba]
  OBVIOUS
<1>5. r \in ListEntry(m) /\ r.uuid = p.guid /\ r.ispart = TRUE /\ r.drive = 0 /\ r.on = i /\ r.lba = p.lba
  BY <1>1, <1>3, <1>4 DEF ListEntry
<1>6. NewPart(i, p) = r
  BY <1>2, <1>4 DEF NewPart
<1> QED  BY <1>5, <1>6

(* The table's entries so far are at the end of the list, and the rest is  *)
(* as it was, but for the uuid of the disk.                                *)
Labelled(list, i, drive) == [list EXCEPT ![i].uuid = drive.guid]
Entering(m, n, list, i, drive, made, k) ==
  /\ made \in Lists(m, n) /\ Len(made) >= Len(list)
  /\ \A j \in 1 .. Len(list) : made[j] = Labelled(list, i, drive)[j]
  /\ \A j \in 1 .. Len(made) : j > Len(list) =>
       \E p \in Range(drive.parts) : p.used /\ made[j] = NewPart(i, p)
  /\ \A q \in 1 .. k : drive.parts[q].used =>
       \E j \in 1 .. Len(made) : j > Len(list) /\ made[j] = NewPart(i, drive.parts[q])

Guided(entry, drive) == [entry EXCEPT !.uuid = drive.guid]

LEMMA LabelledIs ==
  ASSUME NEW m, NEW n \in Nat, NEW list \in Lists(m, n), NEW i \in 1 .. n, NEW drive \in Drive
  PROVE  /\ Labelled(list, i, drive) \in Lists(m, n)
         /\ Len(Labelled(list, i, drive)) = Len(list)
         /\ Labelled(list, i, drive)[i] = Guided(list[i], drive)
         /\ \A j \in 1 .. Len(list) : j # i => Labelled(list, i, drive)[j] = list[j]
<1>1. PICK E : E = ListEntry(m)
  OBVIOUS
<1>2. PICK len \in Nat : len = Len(list)
  BY DEF Lists
<1>3. list \in Seq(E) /\ len >= n /\ DOMAIN list = 1 .. len
  BY <1>1, <1>2 DEF Lists
<1>4. i \in 1 .. len
  BY <1>3
<1>5. PICK e : e = [list[i] EXCEPT !.uuid = drive.guid]
  OBVIOUS
<1>6. e \in E
  <2>1. list[i] \in ListEntry(m)
    BY <1>1, <1>3, <1>4
  <2>2. drive.guid \in Uuid
    BY DEF Drive
  <2> QED  BY <1>1, <1>5, <2>1, <2>2 DEF ListEntry
<1>7. PICK made : made = Labelled(list, i, drive)
  OBVIOUS
<1>8. made = [list EXCEPT ![i] = e]
  BY <1>5, <1>7 DEF Labelled
<1>9. made \in Seq(E) /\ Len(made) = len /\ made[i] = e /\ \A j \in 1 .. len : j # i => made[j] = list[j]
  BY <1>2, <1>3, <1>4, <1>6, <1>8
<1> QED  BY <1>1, <1>2, <1>3, <1>5, <1>7, <1>9 DEF Lists, Guided

LEMMA PartMakes ==
  ASSUME NEW m, NEW n \in Nat, NEW list \in Lists(m, n), NEW i \in 1 .. n, NEW p \in TableEntry
  PROVE  EnumPart(list, i, p) \in Lists(m, n)
<1>1. NewPart(i, p) \in ListEntry(m)
  BY NewPartIs
<1>2. list \in Seq(ListEntry(m)) /\ Len(list) >= n
  BY DEF Lists
<1>3. Append(list, NewPart(i, p)) \in Seq(ListEntry(m)) /\ Len(Append(list, NewPart(i, p))) = Len(list) + 1
  BY <1>1, <1>2
<1>4. Len(list) \in Nat
  BY <1>2
<1>5. Append(list, NewPart(i, p)) \in Lists(m, n)
  BY <1>2, <1>3, <1>4 DEF Lists
<1> QED  BY <1>5 DEF EnumPart

LEMMA PartEnters ==
  ASSUME NEW m, NEW n \in Nat, NEW list \in Lists(m, n), NEW i \in 1 .. n, NEW drive \in Drive,
         NEW made, NEW k \in 1 .. Len(drive.parts), Entering(m, n, list, i, drive, made, k - 1)
  PROVE  Entering(m, n, list, i, drive, EnumPart(made, i, drive.parts[k]), k)
<1>1. PICK p : p = drive.parts[k]
  OBVIOUS
<1>2. drive.parts \in Seq(TableEntry)
  BY DEF Drive
<1>3. p \in TableEntry /\ p \in Range(drive.parts) /\ p.used \in BOOLEAN
  <2>1. p \in TableEntry
    BY <1>1, <1>2, ElementOfSeq
  <2>2. k \in DOMAIN drive.parts
    BY <1>2
  <2> QED  BY <1>1, <2>1, <2>2 DEF Range, TableEntry
<1>4. PICK len \in Nat : len = Len(list)
  BY DEF Lists
<1>5. PICK c \in Nat : c = Len(made)
  BY DEF Entering, Lists
<1>6. c >= len /\ made \in Seq(ListEntry(m)) /\ DOMAIN made = 1 .. c
  BY <1>4, <1>5 DEF Entering, Lists
<1>7. PICK now : now = EnumPart(made, i, p)
  OBVIOUS
<1>8. now \in Lists(m, n)
  BY <1>3, <1>7, PartMakes DEF Entering
<1>9. \A q \in 1 .. k : q = k \/ q \in 1 .. k - 1
  BY <1>2
<1>10. CASE ~p.used
  <2>1. now = made
    BY <1>7, <1>10 DEF EnumPart
  <2>2. \A q \in 1 .. k : drive.parts[q].used =>
          \E j \in 1 .. Len(made) : j > Len(list) /\ made[j] = NewPart(i, drive.parts[q])
    BY <1>1, <1>9, <1>10 DEF Entering
  <2> QED  BY <1>1, <1>7, <2>1, <2>2 DEF Entering
<1>11. CASE p.used
  <2>1. now = Append(made, NewPart(i, p))
    BY <1>7, <1>11 DEF EnumPart
  <2>0. i \in Nat
    OBVIOUS
  <2>2. NewPart(i, p) \in ListEntry(m)
    BY <1>3, <2>0, NewPartIs
  <2>3. Len(now) = c + 1 /\ now[c + 1] = NewPart(i, p) /\ \A j \in 1 .. c : now[j] = made[j]
    BY <1>5, <1>6, <2>1, <2>2
  <2>4. \A j \in 1 .. len : now[j] = Labelled(list, i, drive)[j]
    <3>1. \A j \in 1 .. len : j \in 1 .. c /\ made[j] = Labelled(list, i, drive)[j]
      BY <1>4, <1>6 DEF Entering
    <3> QED  BY <2>3, <3>1
  <2>5. \A j \in 1 .. c + 1 : j > len => \E x \in Range(drive.parts) : x.used /\ now[j] = NewPart(i, x)
    <3> SUFFICES ASSUME NEW j \in 1 .. c + 1, j > len
                 PROVE  \E x \in Range(drive.parts) : x.used /\ now[j] = NewPart(i, x)
      OBVIOUS
    <3>1. CASE j = c + 1
      BY <1>3, <1>11, <2>3, <3>1
    <3>2. CASE j \in 1 .. c
      <4>1. \E x \in Range(drive.parts) : x.used /\ made[j] = NewPart(i, x)
        BY <1>4, <1>5, <3>2 DEF Entering
      <4> QED  BY <2>3, <3>2, <4>1
    <3> QED  BY <3>1, <3>2
  <2>6. \A q \in 1 .. k : drive.parts[q].used =>
          \E j \in 1 .. c + 1 : j > len /\ now[j] = NewPart(i, drive.parts[q])
    <3> SUFFICES ASSUME NEW q \in 1 .. k, drive.parts[q].used
                 PROVE  \E j \in 1 .. c + 1 : j > len /\ now[j] = NewPart(i, drive.parts[q])
      OBVIOUS
    <3>1. CASE q = k
      <4>1. c + 1 \in 1 .. c + 1 /\ c + 1 > len
        BY <1>6
      <4> QED  BY <1>1, <2>3, <3>1, <4>1
    <3>2. CASE q \in 1 .. k - 1
      <4>1. PICK j \in 1 .. c : j > len /\ made[j] = NewPart(i, drive.parts[q])
        BY <1>4, <1>5, <3>2 DEF Entering
      <4> QED  BY <2>3, <4>1
    <3> QED  BY <1>9, <3>1, <3>2
  <2>7. Len(now) >= len
    BY <1>6, <2>3
  <2> QED  BY <1>1, <1>4, <1>7, <1>8, <2>3, <2>4, <2>5, <2>6, <2>7 DEF Entering
<1> QED  BY <1>3, <1>10, <1>11

LEMMA GptIs ==
  ASSUME NEW m, NEW n \in Nat, NEW list \in Lists(m, n), NEW i \in 1 .. n, NEW drive \in Drive
  PROVE  Entering(m, n, list, i, drive, GptEnum(list, i, drive), Len(drive.parts))
<1>1. drive.parts \in Seq(TableEntry)
  BY DEF Drive
<1>2. PICK len \in Nat : len = Len(drive.parts)
  BY <1>1
<1>3. PICK S : S = Lists(m, n)
  OBVIOUS
<1>4. PICK start : start = Labelled(list, i, drive)
  OBVIOUS
<1>5. start \in S /\ Len(start) = Len(list)
  <2>1. /\ Labelled(list, i, drive) \in Lists(m, n)
        /\ Len(Labelled(list, i, drive)) = Len(list)
    BY LabelledIs
  <2> QED  BY <1>3, <1>4, <2>1
<1>6. \A k \in 1 .. len : drive.parts[k] \in TableEntry
  BY <1>1, <1>2, ElementOfSeq
<1>7. PICK g : g = [k \in 1 .. len |-> [x \in S |-> EnumPart(x, i, drive.parts[k])]]
  OBVIOUS
<1>8. g \in [1 .. len -> [S -> S]]
  <2>1. \A k \in 1 .. len : \A x \in S : EnumPart(x, i, drive.parts[k]) \in S
    BY <1>3, <1>6, PartMakes
  <2> QED  BY <1>7, <2>1
<1>9. PICK f : Course(len, S, start, g, f)
  BY <1>5, <1>8, SomeCourse
<1>10. f \in [0 .. len -> S] /\ f[0] = start
  BY <1>9 DEF Course
<1>11. ASSUME NEW k \in 1 .. len PROVE f[k] = EnumPart(f[k - 1], i, drive.parts[k])
  <2>1. k - 1 \in 0 .. len
    OBVIOUS
  <2>2. f[k - 1] \in S
    BY <1>10, <2>1
  <2>3. f[k] = g[k][f[k - 1]]
    BY <1>9 DEF Course
  <2> QED  BY <1>7, <2>2, <2>3
<1>12. f = [k \in 0 .. len |-> IF k = 0 THEN start ELSE EnumPart(f[k - 1], i, drive.parts[k])]
  <2>1. \A k \in 0 .. len : k # 0 => k \in 1 .. len
    OBVIOUS
  <2> QED  BY <1>10, <1>11, <2>1
<1>13. PICK h : h = CHOOSE loop : loop = [k \in 0 .. len |-> IF k = 0 THEN start ELSE EnumPart(loop[k - 1], i, drive.parts[k])]
  OBVIOUS
<1>14. h = [k \in 0 .. len |-> IF k = 0 THEN start ELSE EnumPart(h[k - 1], i, drive.parts[k])]
  BY <1>12, <1>13, Zenon
<1>15. GptEnum(list, i, drive) = h[len]
  BY <1>2, <1>4, <1>13, Zenon DEF GptEnum, Labelled
<1>16. h[0] = start /\ \A k \in 1 .. len : h[k] = EnumPart(h[k - 1], i, drive.parts[k])
  <2>1. 0 \in 0 .. len /\ \A k \in 1 .. len : k \in 0 .. len /\ k # 0
    OBVIOUS
  <2> QED  BY <1>14, <2>1, Zenon
<1>17. PICK K : K = {k \in 0 .. len : Entering(m, n, list, i, drive, h[k], k)}
  OBVIOUS
<1>18. 0 \in K
  <2>1. Len(list) \in Nat
    BY DEF Lists
  <2>2. \A j \in 1 .. Len(start) : ~(j > Len(list))
    BY <1>5, <2>1
  <2>3. Len(start) >= Len(list)
    BY <1>5, <2>1
  <2>4. \A q \in 1 .. 0 : FALSE
    OBVIOUS
  <2>5. Entering(m, n, list, i, drive, start, 0)
    BY <1>3, <1>4, <1>5, <2>2, <2>3, <2>4 DEF Entering
  <2> QED  BY <1>16, <1>17, <2>5
<1>19. ASSUME NEW k \in 1 .. len, k - 1 \in K PROVE k \in K
  <2>1. Entering(m, n, list, i, drive, h[k - 1], k - 1)
    BY <1>17, <1>19
  <2>2. k \in 1 .. Len(drive.parts) /\ k \in 0 .. len
    BY <1>2
  <2>3. Entering(m, n, list, i, drive, EnumPart(h[k - 1], i, drive.parts[k]), k)
    BY <2>1, <2>2, PartEnters
  <2> QED  BY <1>16, <1>17, <2>2, <2>3
<1>20. len \in K
  <2>1. \A k \in 0 .. len : k \in K
    BY <1>18, <1>19, Rounds
  <2> QED  BY <2>1
<1> QED  BY <1>2, <1>15, <1>17, <1>20

(* The list of disks as it is after the first loop of diskman_setup has    *)
(* passed i of the n entries it began with.                                *)
HasTable(m, list, j) == list[j].drive # 0 /\ m.drives[list[j].drive].gpt
Table(m, list, j) == m.drives[list[j].drive]
Passed(m, list, n, made, i) ==
  /\ made \in Lists(m, n)
  /\ \A j \in 1 .. n :
       /\ made[j].drive = list[j].drive /\ ~made[j].ispart
       /\ made[j].uuid = NoUuid \/ (HasTable(m, list, j) /\ made[j].uuid = Table(m, list, j).guid)
  /\ \A j \in 1 .. Len(made) : j > n =>
       \E d \in 1 .. n : HasTable(m, list, d) /\
         \E p \in Range(Table(m, list, d).parts) : p.used /\ made[j] = NewPart(d, p)
  /\ \A d \in 1 .. i : HasTable(m, list, d) =>
       \A p \in Range(Table(m, list, d).parts) : p.used =>
         \E j \in 1 .. Len(made) : j > n /\ made[j] = NewPart(d, p)

LEMMA TableIs ==
  ASSUME NEW m, DrivesAreSound(m), NEW n \in Nat, NEW list \in Lists(m, n), NEW i \in 1 .. n, list[i].drive # 0
  PROVE  m.drives[list[i].drive] \in Drive
<1>1. m.drives \in Seq(Drive)
  BY DEF DrivesAreSound, Drive, TableEntry
<1>2. list \in Seq(ListEntry(m)) /\ i \in 1 .. Len(list)
  BY DEF Lists
<1>3. list[i] \in ListEntry(m)
  BY <1>2, ElementOfSeq
<1>4. list[i].drive \in DOMAIN m.drives
  BY <1>3 DEF ListEntry
<1> QED  BY <1>1, <1>4

LEMMA DiskMakes ==
  ASSUME NEW m, DrivesAreSound(m), NEW n \in Nat, NEW list \in Lists(m, n), NEW i \in 1 .. n
  PROVE  EnumDisk(list, i, m) \in Lists(m, n)
<1>1. CASE list[i].drive # 0
  <2>1. m.drives[list[i].drive] \in Drive
    BY <1>1, TableIs
  <2>2. GptEnum(list, i, m.drives[list[i].drive]) \in Lists(m, n)
    BY <2>1, GptIs DEF Entering
  <2> QED  BY <2>2 DEF EnumDisk
<1>2. CASE list[i].drive = 0
  BY <1>2 DEF EnumDisk
<1> QED  BY <1>1, <1>2

LEMMA DiskPasses ==
  ASSUME NEW m, DrivesAreSound(m), NEW n \in Nat, NEW list, NEW i \in 1 .. n, NEW made,
         Passed(m, list, n, made, i - 1)
  PROVE  Passed(m, list, n, EnumDisk(made, i, m), i)
<1>1. made \in Lists(m, n) /\ made[i].drive = list[i].drive
  BY DEF Passed
<1>2. HasTable(m, made, i) <=> HasTable(m, list, i)
  BY <1>1 DEF HasTable
<1>3. \A d \in 1 .. i : d = i \/ d \in 1 .. i - 1
  OBVIOUS
<1>4. CASE ~HasTable(m, list, i)
  <2>1. EnumDisk(made, i, m) = made
    BY <1>2, <1>4 DEF EnumDisk, HasTable
  <2>2. \A d \in 1 .. i : HasTable(m, list, d) =>
          \A p \in Range(Table(m, list, d).parts) : p.used =>
            \E j \in 1 .. Len(made) : j > n /\ made[j] = NewPart(d, p)
    BY <1>3, <1>4 DEF Passed
  <2> QED  BY <2>1, <2>2 DEF Passed
<1>5. CASE HasTable(m, list, i)
  <2>1. PICK drive : drive = Table(m, list, i)
    OBVIOUS
  <2>2. drive = m.drives[made[i].drive] /\ made[i].drive # 0 /\ m.drives[made[i].drive].gpt
    BY <1>1, <1>5, <2>1 DEF HasTable, Table
  <2>3. drive \in Drive
    BY <1>1, <2>2, TableIs
  <2>4. PICK now : now = GptEnum(made, i, drive)
    OBVIOUS
  <2>5. EnumDisk(made, i, m) = now
    BY <2>2, <2>4 DEF EnumDisk
  <2>6. Entering(m, n, made, i, drive, now, Len(drive.parts))
    BY <1>1, <2>3, <2>4, GptIs
  <2>7. PICK c \in Nat : c = Len(made) /\ c >= n
    BY <1>1 DEF Lists
  <2>8. PICK w \in Nat : w = Len(now) /\ w >= c
    BY <2>6, <2>7 DEF Entering, Lists
  <2>9. now \in Lists(m, n)
    BY <2>6 DEF Entering
  <2>10. /\ Labelled(made, i, drive)[i] = Guided(made[i], drive)
         /\ \A j \in 1 .. c : j # i => Labelled(made, i, drive)[j] = made[j]
    BY <1>1, <2>3, <2>7, LabelledIs
  <2>11. /\ now[i] = Guided(made[i], drive)
         /\ \A j \in 1 .. c : j # i => now[j] = made[j]
    <3>1. i \in 1 .. c
      BY <2>7
    <3>2. \A j \in 1 .. c : now[j] = Labelled(made, i, drive)[j]
      BY <2>6, <2>7 DEF Entering
    <3> QED  BY <2>10, <3>1, <3>2
  <2>12. ASSUME NEW j \in 1 .. n
         PROVE  /\ now[j].drive = list[j].drive /\ ~now[j].ispart
                /\ now[j].uuid = NoUuid \/ (HasTable(m, list, j) /\ now[j].uuid = Table(m, list, j).guid)
    <3>1. CASE j = i
      <4>1. made[i] \in ListEntry(m)
        <5>1. made \in Seq(ListEntry(m)) /\ i \in 1 .. Len(made)
          BY <1>1 DEF Lists
        <5> QED  BY <5>1, ElementOfSeq
      <4>2. now[i].uuid = drive.guid /\ now[i].drive = made[i].drive /\ now[i].ispart = made[i].ispart
        BY <2>11, <4>1 DEF ListEntry, Guided
      <4>3. ~made[i].ispart
        BY DEF Passed
      <4> QED  BY <1>1, <1>5, <2>1, <3>1, <4>2, <4>3
    <3>2. CASE j # i
      <4>1. now[j] = made[j]
        BY <2>7, <2>11, <3>2
      <4> QED  BY <4>1 DEF Passed
    <3> QED  BY <3>1, <3>2
  <2>13. ASSUME NEW j \in 1 .. w, j > n
         PROVE  \E d \in 1 .. n : HasTable(m, list, d) /\
                  \E p \in Range(Table(m, list, d).parts) : p.used /\ now[j] = NewPart(d, p)
    <3>1. CASE j \in 1 .. c
      <4>1. now[j] = made[j]
        BY <2>11, <2>13, <3>1
      <4>2. j \in 1 .. Len(made)
        BY <2>7, <3>1
      <4> QED  BY <2>13, <4>1, <4>2 DEF Passed
    <3>2. CASE j > c
      <4>1. j \in 1 .. Len(now) /\ j > Len(made)
        BY <2>7, <2>8, <3>2
      <4>2. \E p \in Range(drive.parts) : p.used /\ now[j] = NewPart(i, p)
        BY <2>6, <4>1 DEF Entering
      <4> QED  BY <1>5, <2>1, <4>2
    <3> QED  BY <3>1, <3>2
  <2>14. ASSUME NEW d \in 1 .. i, HasTable(m, list, d), NEW p \in Range(Table(m, list, d).parts), p.used
         PROVE  \E j \in 1 .. w : j > n /\ now[j] = NewPart(d, p)
    <3>1. CASE d = i
      <4>1. p \in Range(drive.parts) /\ drive.parts \in Seq(TableEntry)
        BY <2>1, <2>3, <2>14, <3>1 DEF Drive
      <4>2. PICK q \in 1 .. Len(drive.parts) : p = drive.parts[q]
        BY <4>1 DEF Range
      <4>3. PICK j \in 1 .. Len(now) : j > Len(made) /\ now[j] = NewPart(i, drive.parts[q])
        BY <2>6, <2>14, <4>2 DEF Entering
      <4>4. j \in 1 .. w /\ j > n
        BY <2>7, <2>8, <4>3
      <4> QED  BY <3>1, <4>2, <4>3, <4>4
    <3>2. CASE d \in 1 .. i - 1
      <4>1. PICK j \in 1 .. Len(made) : j > n /\ made[j] = NewPart(d, p)
        BY <2>14, <3>2 DEF Passed
      <4>2. j \in 1 .. c /\ j # i /\ j \in 1 .. w
        BY <2>7, <2>8, <4>1
      <4>3. now[j] = made[j]
        BY <2>11, <4>2
      <4> QED  BY <4>1, <4>2, <4>3
    <3> QED  BY <1>3, <3>1, <3>2
  <2>15. Passed(m, list, n, now, i)
    BY <2>8, <2>9, <2>12, <2>13, <2>14 DEF Passed
  <2> QED  BY <2>5, <2>15
<1> QED  BY <1>4, <1>5

LEMMA PartitionsAre ==
  ASSUME NEW m, DrivesAreSound(m), NEW n \in Nat, NEW list \in Lists(m, n), n = Len(list),
         \A j \in 1 .. n : ~list[j].ispart /\ list[j].uuid = NoUuid
  PROVE  Passed(m, list, n, EnumPartitions(list, m), n)
<1>1. PICK S : S = Lists(m, n)
  OBVIOUS
<1>2. PICK g : g = [i \in 1 .. n |-> [x \in S |-> EnumDisk(x, i, m)]]
  OBVIOUS
<1>3. g \in [1 .. n -> [S -> S]]
  <2>1. \A i \in 1 .. n : \A x \in S : EnumDisk(x, i, m) \in S
    BY <1>1, DiskMakes
  <2> QED  BY <1>2, <2>1
<1>4. list \in S
  BY <1>1
<1>5. PICK f : Course(n, S, list, g, f)
  BY <1>3, <1>4, SomeCourse
<1>6. f \in [0 .. n -> S] /\ f[0] = list
  BY <1>5 DEF Course
<1>7. ASSUME NEW i \in 1 .. n PROVE f[i] = EnumDisk(f[i - 1], i, m)
  <2>1. i - 1 \in 0 .. n
    OBVIOUS
  <2>2. f[i - 1] \in S
    BY <1>6, <2>1
  <2>3. f[i] = g[i][f[i - 1]]
    BY <1>5 DEF Course
  <2> QED  BY <1>2, <2>2, <2>3
<1>8. f = [i \in 0 .. n |-> IF i = 0 THEN list ELSE EnumDisk(f[i - 1], i, m)]
  <2>1. \A i \in 0 .. n : i # 0 => i \in 1 .. n
    OBVIOUS
  <2> QED  BY <1>6, <1>7, <2>1
<1>9. PICK h : h = CHOOSE loop : loop = [i \in 0 .. n |-> IF i = 0 THEN list ELSE EnumDisk(loop[i - 1], i, m)]
  OBVIOUS
<1>10. h = [i \in 0 .. n |-> IF i = 0 THEN list ELSE EnumDisk(h[i - 1], i, m)]
  BY <1>8, <1>9, Zenon
<1>11. EnumPartitions(list, m) = h[n]
  BY <1>9, Zenon DEF EnumPartitions
<1>12. h[0] = list /\ \A i \in 1 .. n : h[i] = EnumDisk(h[i - 1], i, m)
  <2>1. 0 \in 0 .. n /\ \A i \in 1 .. n : i \in 0 .. n /\ i # 0
    OBVIOUS
  <2> QED  BY <1>10, <2>1, Zenon
<1>13. PICK K : K = {i \in 0 .. n : Passed(m, list, n, h[i], i)}
  OBVIOUS
<1>14. 0 \in K
  <2>1. \A j \in 1 .. Len(list) : ~(j > n)
    OBVIOUS
  <2>2. \A d \in 1 .. 0 : FALSE
    OBVIOUS
  <2>3. Passed(m, list, n, list, 0)
    BY <2>1, <2>2 DEF Passed
  <2> QED  BY <1>12, <1>13, <2>3
<1>15. ASSUME NEW i \in 1 .. n, i - 1 \in K PROVE i \in K
  <2>1. Passed(m, list, n, h[i - 1], i - 1)
    BY <1>13, <1>15
  <2>2. Passed(m, list, n, EnumDisk(h[i - 1], i, m), i)
    BY <2>1, DiskPasses
  <2> QED  BY <1>12, <1>13, <2>2
<1>16. n \in K
  <2>1. \A i \in 0 .. n : i \in K
    BY <1>14, <1>15, Rounds
  <2> QED  BY <2>1
<1> QED  BY <1>11, <1>13, <1>16

(* The list devfs_setup and nvme_setup make has an entry for each drive.   *)
ListIs(m, list) ==
  /\ list \in Seq(ListEntry(m))
  /\ \A j \in 1 .. Len(list) : ~list[j].ispart /\ list[j].uuid = NoUuid
  /\ \A f \in Shown(m) : \A k \in Range(f.spaces) :
       k \in DOMAIN m.drives /\ k # 0 /\ \E j \in 1 .. Len(list) : list[j].drive = k

LEMMA DrivesAreListed ==
  ASSUME NEW m, MachineIsSound(m), DrivesAreSound(m), Walkable(m), "uuid_len" \notin m.junk
  PROVE  ListIs(m, Found(m))
<1>1. PICK drives : drives = Drives(PciEnum(m).found)
  OBVIOUS
<1>2. PICK found : found = PciEnum(m).found
  OBVIOUS
<1>3. found \in Seq(m.functions) /\ Range(found) = Shown(m)
  BY <1>2, EnumFinds
<1>4. drives \in Seq(DOMAIN m.drives) /\ \A f \in Shown(m) : Range(f.spaces) \subseteq Range(drives)
  BY <1>1, <1>2, <1>3, DrivesAre
<1>5. PICK d \in Nat : d = Len(drives)
  BY <1>4
<1>6. DOMAIN drives = 1 .. d /\ \A i \in 1 .. d : drives[i] \in DOMAIN m.drives
  <2>1. \A i \in 1 .. d : drives[i] \in DOMAIN m.drives
    BY <1>4, <1>5, ElementOfSeq
  <2> QED  BY <1>4, <1>5, <2>1
<1>7. PICK e : e = [NewEnt(NoUuid) EXCEPT !.fs = "dev"]
  OBVIOUS
<1>8. e \in ListEntry(m) /\ ~e.ispart /\ e.uuid = NoUuid
  BY <1>7 DEF NewEnt, ListEntry
<1>9. PICK rest : rest = [i \in DOMAIN drives |-> [NewEnt(NoUuid) EXCEPT !.drive = drives[i]]]
  OBVIOUS
<1>10. \A i \in 1 .. d : /\ rest[i] \in ListEntry(m) /\ ~rest[i].ispart /\ rest[i].uuid = NoUuid
                        /\ rest[i].drive = drives[i]
  <2> SUFFICES ASSUME NEW i \in 1 .. d
               PROVE  /\ rest[i] \in ListEntry(m) /\ ~rest[i].ispart /\ rest[i].uuid = NoUuid
                      /\ rest[i].drive = drives[i]
    OBVIOUS
  <2>1. PICK x : x = drives[i]
    OBVIOUS
  <2>2. x \in DOMAIN m.drives
    BY <1>6, <2>1
  <2>3. rest[i] = [NewEnt(NoUuid) EXCEPT !.drive = x]
    BY <1>6, <1>9, <2>1
  <2>4. PICK w : w = NewEnt(NoUuid)
    OBVIOUS
  <2>5. w \in ListEntry(m) /\ w.ispart = FALSE /\ w.uuid = NoUuid
    BY <2>4 DEF NewEnt, ListEntry
  <2>6. PICK y : y = [w EXCEPT !.drive = x]
    OBVIOUS
  <2>7. y \in ListEntry(m) /\ y.ispart = FALSE /\ y.uuid = NoUuid /\ y.drive = x
    BY <2>2, <2>5, <2>6 DEF ListEntry
  <2>8. rest[i] = y
    BY <2>3, <2>4, <2>6
  <2> QED  BY <2>1, <2>7, <2>8
<1>11. DOMAIN rest = 1 .. d
  BY <1>6, <1>9
<1>12. rest \in Seq(ListEntry(m)) /\ Len(rest) = d
  <2>1. rest \in [1 .. d -> ListEntry(m)]
    BY <1>6, <1>9, <1>10
  <2> QED  BY <2>1
<1>13. Found(m) = <<e>> \o rest
  BY <1>1, <1>7, <1>9 DEF Found
<1>14. PICK list : list = <<e>> \o rest
  OBVIOUS
<1>15. /\ list \in Seq(ListEntry(m)) /\ Len(list) = d + 1 /\ list[1] = e
       /\ \A i \in 1 .. d : list[i + 1] = rest[i]
  BY <1>8, <1>12, <1>14
<1>16. \A j \in 1 .. d + 1 : j = 1 \/ \E i \in 1 .. d : j = i + 1
  <2> SUFFICES ASSUME NEW j \in 1 .. d + 1, j # 1 PROVE \E i \in 1 .. d : j = i + 1
    OBVIOUS
  <2>1. j - 1 \in 1 .. d /\ j = j - 1 + 1
    OBVIOUS
  <2> QED  BY <2>1
<1>17. ASSUME NEW j \in 1 .. d + 1 PROVE ~list[j].ispart /\ list[j].uuid = NoUuid
  <2>1. CASE j = 1
    BY <1>8, <1>15, <2>1
  <2>2. CASE \E i \in 1 .. d : j = i + 1
    <3>1. PICK i \in 1 .. d : j = i + 1
      BY <2>2
    <3>2. list[j] = rest[i]
      BY <1>15, <3>1
    <3> QED  BY <1>10, <3>2
  <2> QED  BY <1>16, <2>1, <2>2
<1>18. ASSUME NEW f \in Shown(m), NEW k \in Range(f.spaces)
       PROVE  k \in DOMAIN m.drives /\ k # 0 /\ \E j \in 1 .. d + 1 : list[j].drive = k
  <2>1. PICK i \in 1 .. d : drives[i] = k
    BY <1>4, <1>6 DEF Range
  <2>2. k \in DOMAIN m.drives
    BY <1>6, <2>1
  <2>3. k # 0
    <3>1. m.drives \in Seq(Drive)
      BY DEF DrivesAreSound, Drive, TableEntry
    <3> QED  BY <2>2, <3>1
  <2>4. i + 1 \in 1 .. d + 1 /\ list[i + 1].drive = k
    BY <1>10, <1>15, <2>1
  <2> QED  BY <2>2, <2>3, <2>4
<1> QED  BY <1>13, <1>14, <1>15, <1>17, <1>18 DEF ListIs

(* A uuid that is one.                                                     *)
LEMMA UuidsDiffer ==
  ASSUME NEW u \in Uuid
  PROVE  u # NoUuid /\ u # Junk
<1>1. Len(u) = 2 /\ Len(NoUuid) = 0 /\ Len(Junk) = 1
  BY DEF Uuid, NoUuid, Junk
<1> QED  BY <1>1

(* The second loop gives file systems and nothing else.                    *)
LEMMA FileSystemsAre ==
  ASSUME NEW m, NEW n, NEW list \in Lists(m, n), NEW made, made = EnumFileSystems(list, m)
  PROVE  /\ DOMAIN made = 1 .. Len(list)
         /\ \A j \in 1 .. Len(list) :
              /\ made[j].uuid = list[j].uuid /\ made[j].ispart = list[j].ispart /\ made[j].on = list[j].on
              /\ made[j].lba = list[j].lba /\ made[j].drive = list[j].drive
<1>1. list \in Seq(ListEntry(m))
  BY DEF Lists
<1>2. DOMAIN list = 1 .. Len(list)
  BY <1>1
<1>3. ASSUME NEW j \in 1 .. Len(list)
      PROVE  /\ made[j].uuid = list[j].uuid /\ made[j].ispart = list[j].ispart /\ made[j].on = list[j].on
             /\ made[j].lba = list[j].lba /\ made[j].drive = list[j].drive
  <2>1. PICK e \in ListEntry(m) : e = list[j]
    BY <1>1, ElementOfSeq
  <2>2. made[j] = e \/ made[j] = [e EXCEPT !.fs = "extfs"]
    BY <1>2, <2>1 DEF EnumFileSystems
  <2> QED  BY <2>1, <2>2 DEF ListEntry
<1> QED  BY <1>2, <1>3 DEF EnumFileSystems

(* The uuid of a partition leads to it.                                    *)
LEMMA UuidLeads ==
  ASSUME NEW m, MachineIsSound(m), DrivesAreSound(m), Walkable(m), "uuid_len" \notin m.junk,
         m = machine, UuidsAreOwn,
         NEW f \in Shown(m), NEW k \in Range(f.spaces), NEW p \in Range(m.drives[k].parts),
         m.drives[k].gpt, p.used
  PROVE  LET r == FindFromUuid(Setup(m), p.guid) IN
         r \in DOMAIN Setup(m) /\ Setup(m)[r].ispart /\ Start(Setup(m), r) = [drive |-> k, lba |-> p.lba]
<1>1. PICK list : list = Found(m)
  OBVIOUS
<1>2. /\ list \in Seq(ListEntry(m))
      /\ \A j \in 1 .. Len(list) : ~list[j].ispart /\ list[j].uuid = NoUuid
  BY <1>1, DrivesAreListed DEF ListIs
<1>3. PICK n \in Nat : n = Len(list)
  BY <1>2
<1>4. list \in Lists(m, n)
  BY <1>2, <1>3 DEF Lists
<1>5. PICK made : made = EnumPartitions(list, m)
  OBVIOUS
<1>6. Passed(m, list, n, made, n)
  BY <1>2, <1>3, <1>4, <1>5, PartitionsAre
<1>7. PICK c \in Nat : c = Len(made) /\ c >= n /\ made \in Lists(m, n)
  BY <1>6 DEF Passed, Lists
<1>8. PICK all : all = EnumFileSystems(made, m)
  OBVIOUS
<1>9. all = Setup(m)
  BY <1>1, <1>5, <1>8 DEF Setup
<1>10. DOMAIN all = 1 .. c
  BY <1>7, <1>8, FileSystemsAre
<1>11. \A j \in 1 .. c : /\ all[j].uuid = made[j].uuid /\ all[j].ispart = made[j].ispart
                         /\ all[j].on = made[j].on /\ all[j].lba = made[j].lba /\ all[j].drive = made[j].drive
  BY <1>7, <1>8, FileSystemsAre
<1>12. m.drives \in Seq(Drive)
  BY DEF DrivesAreSound, Drive, TableEntry
<1>13. \A i \in DOMAIN m.drives : m.drives[i] \in Drive /\ i # 0
  BY <1>12
<1>14. \A i \in DOMAIN m.drives : \A q \in Range(m.drives[i].parts) : q \in TableEntry
  <2> SUFFICES ASSUME NEW i \in DOMAIN m.drives, NEW q \in Range(m.drives[i].parts) PROVE q \in TableEntry
    OBVIOUS
  <2>1. PICK parts : parts = m.drives[i].parts
    OBVIOUS
  <2>2. parts \in Seq(TableEntry)
    BY <1>13, <2>1 DEF Drive
  <2>3. PICK x \in 1 .. Len(parts) : q = parts[x]
    BY <2>1, <2>2 DEF Range
  <2> QED  BY <2>2, <2>3, ElementOfSeq
<1>15. k \in DOMAIN m.drives /\ k # 0 /\ \E j \in 1 .. n : list[j].drive = k
  BY <1>1, <1>3, DrivesAreListed DEF ListIs
<1>16. p \in TableEntry /\ p.guid \in Uuid /\ p.guid # NoUuid /\ p.guid # Junk
  <2>1. p \in TableEntry
    BY <1>14, <1>15
  <2>2. p.guid \in Uuid
    BY <2>1 DEF TableEntry
  <2> QED  BY <2>1, <2>2, UuidsDiffer
<1>17. \E j \in 1 .. c : made[j].uuid = p.guid
  <2>1. PICK d \in 1 .. n : list[d].drive = k
    BY <1>15
  <2>2. HasTable(m, list, d) /\ Table(m, list, d) = m.drives[k]
    BY <1>15, <2>1 DEF HasTable, Table
  <2>3. PICK j \in 1 .. c : made[j] = NewPart(d, p)
    BY <1>6, <1>7, <2>2 DEF Passed
  <2>4. d \in Nat
    OBVIOUS
  <2>5. NewPart(d, p).uuid = p.guid
    BY <1>16, <2>4, NewPartIs
  <2> QED  BY <2>3, <2>5
<1>18. PICK hits : hits = {j \in DOMAIN all : all[j].uuid \in {p.guid, Junk}}
  OBVIOUS
<1>19. hits \in SUBSET Nat /\ hits # {}
  BY <1>10, <1>11, <1>17, <1>18
<1>20. PICK r : r = Min(hits)
  OBVIOUS
<1>21. r \in hits
  BY <1>19, <1>20, MinIsElement
<1>22. r \in 1 .. c /\ made[r].uuid \in {p.guid, Junk}
  BY <1>10, <1>11, <1>18, <1>21
<1>23. \A i \in DOMAIN m.drives : m.drives[i].gpt => p.guid # m.drives[i].guid
  BY <1>15 DEF UuidsAreOwn
<1>24. \A i \in 1 .. n : HasTable(m, list, i) => list[i].drive \in DOMAIN m.drives /\ Table(m, list, i).gpt
  <2> SUFFICES ASSUME NEW i \in 1 .. n, HasTable(m, list, i) PROVE list[i].drive \in DOMAIN m.drives /\ Table(m, list, i).gpt
    OBVIOUS
  <2>1. list[i] \in ListEntry(m)
    BY <1>2, <1>3, ElementOfSeq
  <2> QED  BY <2>1 DEF HasTable, Table, ListEntry
<1>25. r > n
  <2> SUFFICES ASSUME r \in 1 .. n PROVE FALSE
    BY <1>22
  <2>1. CASE made[r].uuid = NoUuid
    BY <1>16, <1>22, <2>1 DEF NoUuid, Junk
  <2>2. CASE HasTable(m, list, r) /\ made[r].uuid = Table(m, list, r).guid
    <3>1. PICK i \in DOMAIN m.drives : i = list[r].drive
      BY <1>24, <2>2
    <3>2. made[r].uuid = m.drives[i].guid /\ m.drives[i].gpt
      BY <1>24, <2>2, <3>1 DEF Table
    <3>3. m.drives[i].guid # Junk
      <4>1. m.drives[i].guid \in Uuid
        BY <1>13 DEF Drive
      <4> QED  BY <4>1, UuidsDiffer
    <3> QED  BY <1>22, <1>23, <3>2, <3>3
  <2> QED  BY <1>6, <2>1, <2>2 DEF Passed
<1>26. PICK d \in 1 .. n : HasTable(m, list, d) /\
         \E q \in Range(Table(m, list, d).parts) : q.used /\ made[r] = NewPart(d, q)
  BY <1>6, <1>7, <1>22, <1>25 DEF Passed
<1>27. PICK i \in DOMAIN m.drives : i = list[d].drive
  BY <1>24, <1>26
<1>28. m.drives[i].gpt /\ Table(m, list, d) = m.drives[i]
  BY <1>24, <1>26, <1>27 DEF Table
<1>29. PICK q \in Range(m.drives[i].parts) : q.used /\ made[r] = NewPart(d, q)
  BY <1>26, <1>28
<1>30. q \in TableEntry /\ q.guid # Junk
  <2>1. q \in TableEntry
    BY <1>14
  <2>2. q.guid \in Uuid
    BY <2>1 DEF TableEntry
  <2> QED  BY <2>1, <2>2, UuidsDiffer
<1>31. /\ made[r].uuid = q.guid /\ made[r].ispart /\ made[r].on = d /\ made[r].lba = q.lba
  <2>1. d \in Nat
    OBVIOUS
  <2> QED  BY <1>29, <1>30, <2>1, NewPartIs
<1>32. q.guid = p.guid
  BY <1>22, <1>30, <1>31
<1>33. i = k /\ q.lba = p.lba
  BY <1>15, <1>28, <1>29, <1>32 DEF UuidsAreOwn
<1>34. all[r].uuid # Junk
  BY <1>11, <1>22, <1>30, <1>31
<1>35. FindFromUuid(all, p.guid) = r
  BY <1>18, <1>19, <1>20, <1>34 DEF FindFromUuid
<1>36. made[d].drive = list[d].drive /\ d \in 1 .. c
  BY <1>6, <1>7 DEF Passed
<1>37. all[r].ispart /\ all[r].on = d /\ all[r].lba = p.lba /\ all[d].drive = k
  BY <1>11, <1>22, <1>27, <1>31, <1>33, <1>36
<1>38. Start(all, r) = [drive |-> k, lba |-> p.lba]
  BY <1>37 DEF Start
<1> QED  BY <1>9, <1>10, <1>22, <1>35, <1>37, <1>38

(* No call is a boot.                                                      *)
LEMMA CallsAreNoBoot ==
  ASSUME Next
  PROVE  call'.op # "boot"
<1>1. ASSUME OpenSome PROVE call'.op # "boot"
  BY <1>1 DEF OpenSome, Open, Crash, Return
<1>2. ASSUME CloseSome PROVE call'.op # "boot"
  BY <1>2 DEF CloseSome, Close, Crash, Return
<1>3. ASSUME StatSome PROVE call'.op # "boot"
  BY <1>3 DEF StatSome, Stat, Crash, Return
<1>4. ASSUME ReadSome PROVE call'.op # "boot"
  BY <1>4 DEF ReadSome, Read, Crash, Return
<1>5. ASSUME WriteSome PROVE call'.op # "boot"
  BY <1>5 DEF WriteSome, Write, Crash, Return
<1>6. ASSUME ReadDirSome PROVE call'.op # "boot"
  BY <1>6 DEF ReadDirSome, OpenAndReadDir, Crash, Return
<1>7. ASSUME ChdirSome PROVE call'.op # "boot"
  BY <1>7 DEF ChdirSome, Chdir, Crash, Return
<1>8. ASSUME GetcwdSome PROVE call'.op # "boot"
  BY <1>8 DEF GetcwdSome, Getcwd, Return
<1>9. ASSUME SpawnSome PROVE call'.op # "boot"
  BY <1>9 DEF SpawnSome, Spawn, Crash, Return
<1> QED  BY <1>1, <1>2, <1>3, <1>4, <1>5, <1>6, <1>7, <1>8, <1>9 DEF Next
-----------------------------------------------------------------------------
(***************************************************************************)
(* The theorems.                                                           *)
(***************************************************************************)

(* The invariant holds in every state, whatever the machines, the file     *)
(* systems and the calls.                                                  *)
THEOREM Invariant == Spec => []IInv
<1>1. Init => IInv
  BY InitIsGood
<1>2. IInv /\ [Next]_vars => IInv'
  BY NextIsGood
<1> QED  BY <1>1, <1>2, PTL DEF Spec

(* On every machine whose buses are as Walkable says, pci_enum comes to    *)
(* its end and enters each function that shows once: behind bridges, and   *)
(* behind VMD controllers with windows of their own.                       *)
THEOREM BootFindsAll == Spec => []FunctionsAreFound
<1>1. IInv => FunctionsAreFound
  <2> SUFFICES ASSUME IInv, Walkable(machine)
               PROVE  /\ ~PciEnum(machine).fault
                      /\ ToSet(PciEnum(machine).found) = Shown(machine)
                      /\ Len(PciEnum(machine).found) = Cardinality(Shown(machine))
    BY DEF FunctionsAreFound
  <2>1. MachineIsSound(machine)
    BY FilesAssumption DEF IInv, DisksInv
  <2>2. PICK q : q = PciEnum(machine).found
    OBVIOUS
  <2>3. ~PciEnum(machine).fault /\ q \in Seq(machine.functions) /\ Once(q) /\ Range(q) = Shown(machine)
    BY <2>1, <2>2, EnumFinds
  <2>4. ToSet(q) = Range(q)
    BY DEF ToSet, Range
  <2>5. Len(q) = Cardinality(Range(q))
    BY <2>3, OnceIsCardinality
  <2> QED  BY <2>2, <2>3, <2>4, <2>5
<1> QED  BY <1>1, Invariant, PTL

(* Every machine whose command line is spaced as str_tok wants it, and     *)
(* whose partitions have uuids of their own, boots from the partition that *)
(* the line's last ruuid= names, wherever pci_enum finds its drive: reads  *)
(* of the root go to that partition's place on that drive.                 *)
THEOREM RootCorrect == Spec => []RootIsFound
<1>1. Init => RootIsFound
  <2> SUFFICES ASSUME Init, Walkable(machine), UuidsAreOwn, WellSpaced(machine),
                      "uuid_len" \notin machine.junk,
                      NEW f \in Shown(machine), NEW k \in Range(f.spaces),
                      NEW p \in Range(machine.drives[k].parts),
                      machine.drives[k].gpt, p.used, p.guid = AskedUuid(CmdLine(machine))
               PROVE  Known(disks, root) /\ disks[root].ispart
                      /\ Start(disks, root) = [drive |-> k, lba |-> p.lba]
    BY DEF RootIsFound
  <2>1. PICK m : m = machine
    OBVIOUS
  <2>2. MachineIsSound(m) /\ DrivesAreSound(m) /\ LineIsSound(m)
    BY <2>1, FilesAssumption DEF Init
  <2>3. ~PciEnum(m).fault
    BY <2>1, <2>2, EnumFinds
  <2>4. disks = Setup(m)
    BY <2>1, <2>3 DEF Init
  <2>5. Chosen(m).uuid = p.guid
    BY <2>1, <2>2, ChosenIs
  <2>6. p.guid # ZeroUuid
    <3>1. k \in DOMAIN machine.drives
      BY <2>1, <2>2, DrivesAreListed DEF ListIs
    <3> QED  BY <3>1 DEF UuidsAreOwn
  <2>7. root = FindFromUuid(disks, p.guid)
    BY <2>1, <2>5, <2>6 DEF Init, RootOf
  <2>8. /\ root \in DOMAIN disks /\ disks[root].ispart
        /\ Start(disks, root) = [drive |-> k, lba |-> p.lba]
    BY <2>1, <2>2, <2>4, <2>7, UuidLeads
  <2> QED  BY <2>8 DEF Known
<1>2. RootIsFound /\ [Next]_vars => RootIsFound'
  <2> SUFFICES ASSUME RootIsFound, [Next]_vars, call'.op = "boot" PROVE RootIsFound'
    BY DEF RootIsFound
  <2>1. ~Next
    BY CallsAreNoBoot
  <2>2. UNCHANGED vars
    BY <2>1
  <2> QED  BY <2>2 DEF vars, RootIsFound, UuidsAreOwn
<1> QED  BY <1>1, <1>2, PTL DEF Spec

(* However extents cut a file, and wherever a read of syscall_read begins, *)
(* the read gives the file's bytes in their order: what                    *)
(* extfs_read_inode_contents is for.                                       *)
THEOREM ReadCorrect == Spec => []ReadIsRight
<1>1. IInv => ReadIsRight
  BY DEF IInv
<1> QED  BY <1>1, Invariant, PTL

(* extfs_find_inode_from_name_and_set_name finds what a path without       *)
(* links, devices and removed entries names, from the root and from every  *)
(* cwd that the calls before may have left a task with.                    *)
LEMMA PathsLead ==
  ASSUME IInv
  PROVE  OpenFindsTheFile
<1> SUFFICES ASSUME NEW t \in Tasks, NEW path \in Paths,
                    path.disk = 0, Cwd(t).at = "heap", Cwd(t).di = root
             PROVE  LET tree == TreeOf(root)
                        at == IF path.abs THEN RootInode ELSE Cwd(t).ino
                    IN Plain(tree, at, path) => FindInode(tree, Cwd(t).ino, path) = Meant(tree, at, path.names)
  BY DEF OpenFindsTheFile
<1>1. PICK tree, at, cwd : tree = TreeOf(root) /\ cwd = Cwd(t).ino
                           /\ at = IF path.abs THEN RootInode ELSE Cwd(t).ino
  OBVIOUS
<1>2. at = From(path, cwd)
  BY <1>1 DEF From
<1>3. TreeIsSound(tree) /\ cwd \in Int /\ PathIs(path)
  BY <1>1, FsIs, TreesAreNamed, TaskIs, PathsAre DEF IInv
<1>4. PICK links : links = Links(tree, cwd)
  OBVIOUS
<1>5. links \in [Texts -> Int]
  BY <1>3, <1>4, LinksIs
<1>6. FindInode(tree, cwd, path) = WalkNames(tree, cwd, links, path).ino
  BY <1>4 DEF FindInode, WalkFrom
<1>7. Plain(tree, at, path) => FindInode(tree, cwd, path) = Meant(tree, at, path.names)
  BY <1>2, <1>3, <1>5, <1>6, WalkFinds
<1> QED  BY <1>1, <1>7

THEOREM WalkCorrect == Spec => []OpenFindsTheFile
<1>1. IInv => OpenFindsTheFile
  BY PathsLead
<1> QED  BY <1>1, Invariant, PTL

(* After any calls of syscall_chdir, getcwd and spawn, also those that     *)
(* fail and those along links, a cwd that is not lost is a directory of    *)
(* its disk, and the parent the kernel keeps with it is its parent.        *)
LEMMA CwdsAreDirectories ==
  ASSUME IInv
  PROVE  CwdIsADirectory
<1> SUFFICES ASSUME NEW t \in Tasks, Cwd(t).at = "heap"
             PROVE  LET tree == TreeOf(Cwd(t).di) IN
                    /\ Cwd(t).ino \in DOMAIN tree /\ tree[Cwd(t).ino].kind = "dir"
                    /\ [name |-> "..", ino |-> Cwd(t).par] \in Range(tree[Cwd(t).ino].ents)
  BY DEF CwdIsADirectory
<1>1. PICK tree, ino, par : tree = TreeOf(Cwd(t).di) /\ ino = Cwd(t).ino /\ par = Cwd(t).par
  OBVIOUS
<1>2. HasTree(disks, Cwd(t).di) /\ IsOpened(tree, ino, par)
  BY <1>1, TaskIs, FsIs DEF IInv, CwdIsSound
<1>3. TreeIsSound(tree)
  BY <1>1, <1>2, FsIs, TreesAreNamed DEF IInv
<1>4. ino \in DOMAIN tree /\ tree[ino].kind = "dir" /\ par \in Nat \ {0} /\ par = FindInDir(tree, ino, "..")
  BY <1>2 DEF IsOpened
<1>5. IsFound(tree, ino, "..", par)
  <2>1. \/ par \in Nat \ {0} /\ IsFound(tree, ino, "..", par)
        \/ par = 0 /\ Node(tree, ino).kind = "blockdev"
        \/ par \in {-ENOTDIR, -ENOENT}
    BY <1>3, <1>4, FindInDirIs
  <2> QED  BY <1>4, <2>1 DEF ENOTDIR, ENOENT
<1>6. [name |-> "..", ino |-> par] \in Range(tree[ino].ents)
  BY <1>5 DEF IsFound, Range
<1> QED  BY <1>1, <1>4, <1>6

THEOREM CwdCorrect == Spec => []CwdIsADirectory
<1>1. IInv => CwdIsADirectory
  BY CwdsAreDirectories
<1> QED  BY <1>1, Invariant, PTL

(* In trees where getcwd can work, the name that sys_get_dir_name makes in *)
(* a buffer with room to spare leads back to the cwd, and nothing is       *)
(* written behind the buffer.                                              *)
LEMMA TextsLeadBack ==
  ASSUME IInv, NoDirectoryIsHidden
  PROVE  GetcwdLeadsBack
<1> SUFFICES ASSUME NEW t \in Tasks, NEW s \in BufferSizes,
                    Cwd(t).at = "heap", Cwd(t).di = root, task[t].dm = root, s > GetcwdOf(t, 1000).off
             PROVE  LET g == GetcwdOf(t, s) IN
                    ~g.over /\ ~g.stale /\ Meant(TreeOf(root), RootInode, g.text) = Cwd(t).ino
  BY DEF GetcwdLeadsBack
<1>1. PICK tree, ino, par, g, room :
        /\ tree = TreeOf(root) /\ ino = Cwd(t).ino /\ par = Cwd(t).par
        /\ g = GetcwdOf(t, s) /\ room = GetcwdOf(t, 1000).off
  OBVIOUS
<1>2. PICK dir : dir = [ino |-> ino, par |-> par]
  OBVIOUS
<1>3. g = DirNamed(tree, tree, s, dir) /\ room = DirNamed(tree, tree, 1000, dir).off
  BY <1>1, <1>2 DEF GetcwdOf
<1>4. HasTree(disks, root) /\ IsOpened(tree, ino, par)
  BY <1>1, TaskIs, FsIs DEF IInv, CwdIsSound
<1>5. IsNamed(tree)
  BY <1>1, <1>4, FsIs, TreesAreNamed DEF IInv
<1>6. DirectoriesLeadUp(tree, MaxDepth - 1)
  <2>1. Start(disks, root) \in DOMAIN Trees
    <3>1. ~PciEnum(machine).fault /\ disks = Setup(machine) /\ machine \in Machines
      <4>1. disks # <<>>
        BY <1>4 DEF HasTree, Known
      <4> QED  BY <4>1 DEF IInv, DisksInv
    <3>2. PICK list : list = Setup(machine)
      OBVIOUS
    <3>3. \A i \in DOMAIN list : list[i].fs = "extfs" => Start(list, i) \in DOMAIN Trees
      BY <3>1, <3>2, FilesAssumption
    <3> QED  BY <1>4, <3>1, <3>2, <3>3 DEF HasTree, Known
  <2> QED  BY <1>1, <2>1 DEF NoDirectoryIsHidden, TreeOf
<1>7. s \in Int /\ 1000 \in Int
  <2>1. s \in Nat
    BY FilesAssumption
  <2> QED  BY <2>1
<1>8. LeadsBack(tree, ino, s, DirNamed(tree, tree, s, dir), DirNamed(tree, tree, 1000, dir).off)
  BY <1>2, <1>4, <1>5, <1>6, <1>7, NamesLeadBack
<1>9. s > room => ~g.over /\ ~g.stale /\ Meant(tree, RootInode, g.text) = ino
  BY <1>3, <1>8 DEF LeadsBack
<1> QED  BY <1>1, <1>9

THEOREM GetcwdCorrect ==
  ASSUME NoDirectoryIsHidden
  PROVE  Spec => []CwdIsWhereItSays
<1>1. NoDirectoryIsHidden
  OBVIOUS
<1>2. IInv => CwdIsWhereItSays
  BY <1>1, CwdsAreDirectories, TextsLeadBack DEF CwdIsWhereItSays
<1> QED  BY <1>2, Invariant, PTL

(* A cwd is lost only to a block device that opened as a directory of      *)
(* nothing and to a getcwd whose text just fills the buffer: no other call *)
(* leaves a task at a struct that is not filled in or not there.           *)
LostOnlyBy ==
  \A t \in Tasks : (Cwd(t).at = "heap" /\ task'[t].cwd.at # "heap") =>
    \/ /\ call'.op = "chdir"
       /\ LET tree == TreeOf(DiskOf(call'.path)) IN
          Node(tree, FindInode(tree, Cwd(t).ino, call'.path)).kind = "blockdev"
    \/ call'.op = "getcwd" /\ GetcwdOf(t, call'.size).off = call'.size

LEMMA TasksKept ==
  ASSUME UNCHANGED task
  PROVE  LostOnlyBy
BY DEF LostOnlyBy, Cwd

LEMMA OneCwdChanges ==
  ASSUME TasksInv, NEW t \in Tasks, NEW c, task' = [task EXCEPT ![t].cwd = c], NEW u \in Tasks
  PROVE  task'[u].cwd = IF u = t THEN c ELSE Cwd(u)
<1>1. task \in Seq(TasksIn(Places)) /\ t \in DOMAIN task /\ u \in DOMAIN task
  BY DEF TasksInv, Tasks
<1>2. task[t] \in TasksIn(Places) /\ task[u] \in TasksIn(Places)
  BY <1>1
<1>3. PICK it : it = [task[t] EXCEPT !.cwd = c]
  OBVIOUS
<1>4. it.cwd = c
  BY <1>2, <1>3 DEF TasksIn
<1>5. task'[u] = IF u = t THEN it ELSE task[u]
  BY <1>1, <1>3
<1> QED  BY <1>4, <1>5 DEF Cwd

LEMMA StepsLose ==
  ASSUME IInv, [Next]_vars
  PROVE  LostOnlyBy
<1>1. ASSUME NEW t \in Tasks, NEW path \in Paths, Chdir(t, path) PROVE LostOnlyBy
  <2>1. CASE UNCHANGED task
    BY <2>1, TasksKept
  <2>2. CASE ~UNCHANGED task
    <3>1. /\ call'.op = "chdir" /\ call'.path = path
          /\ \E c \in CwdsIn(Places) :
               /\ task' = [task EXCEPT ![t].cwd = c]
               /\ c.at # "heap" =>
                    Node(TreeOf(DiskOf(path)), FindInode(TreeOf(DiskOf(path)), Cwd(t).ino, path)).kind = "blockdev"
      BY <1>1, <2>2, ChdirMakes
    <3>2. PICK c : /\ task' = [task EXCEPT ![t].cwd = c]
                   /\ c.at # "heap" =>
                        Node(TreeOf(DiskOf(path)), FindInode(TreeOf(DiskOf(path)), Cwd(t).ino, path)).kind = "blockdev"
      BY <3>1
    <3>3. \A u \in Tasks : task'[u].cwd = IF u = t THEN c ELSE Cwd(u)
      BY <3>2, OneCwdChanges DEF IInv
    <3> QED  BY <3>1, <3>2, <3>3 DEF LostOnlyBy
  <2> QED  BY <2>1, <2>2
<1>2. ASSUME NEW t \in Tasks, NEW s \in BufferSizes, Getcwd(t, s) PROVE LostOnlyBy
  <2>1. CASE UNCHANGED task
    BY <2>1, TasksKept
  <2>2. CASE ~UNCHANGED task
    <3>1. /\ call'.op = "getcwd" /\ call'.size = s /\ GetcwdOf(t, s).off = s
          /\ task' = [task EXCEPT ![t].cwd = [Cwd(t) EXCEPT !.at = "stack"]]
      BY <1>2, <2>2, GetcwdMakes
    <3>2. PICK c : c = [Cwd(t) EXCEPT !.at = "stack"]
      OBVIOUS
    <3>3. task' = [task EXCEPT ![t].cwd = c]
      BY <3>1, <3>2
    <3>4. \A u \in Tasks : task'[u].cwd = IF u = t THEN c ELSE Cwd(u)
      BY <3>3, OneCwdChanges DEF IInv
    <3> QED  BY <3>1, <3>4 DEF LostOnlyBy
  <2> QED  BY <2>1, <2>2
<1>3. ASSUME NEW t \in Tasks, NEW path \in Paths, Spawn(t, path) PROVE LostOnlyBy
  <2>1. CASE UNCHANGED task
    BY <2>1, TasksKept
  <2>2. CASE ~UNCHANGED task
    <3>1. PICK it \in TasksIn(Places) : task' = Append(task, it)
      BY <1>3, <2>2, SpawnMakes
    <3>2. task \in Seq(TasksIn(Places))
      BY TaskIs DEF IInv
    <3>3. \A u \in 1 .. Len(task) : task'[u] = task[u]
      BY <3>1, <3>2, AppendProperties
    <3>4. Tasks = 1 .. Len(task)
      BY <3>2 DEF Tasks
    <3> QED  BY <3>3, <3>4 DEF LostOnlyBy, Cwd
  <2> QED  BY <2>1, <2>2
<1>4. ASSUME NEW c, Crash(c) PROVE UNCHANGED task
  BY <1>4 DEF Crash
<1>5. ASSUME OpenSome PROVE UNCHANGED task
  BY <1>4, <1>5 DEF OpenSome, Open
<1>6. ASSUME CloseSome PROVE UNCHANGED task
  BY <1>4, <1>6 DEF CloseSome, Close
<1>7. ASSUME StatSome PROVE UNCHANGED task
  BY <1>4, <1>7 DEF StatSome, Stat
<1>8. ASSUME ReadSome PROVE UNCHANGED task
  BY <1>8 DEF ReadSome, Read
<1>9. ASSUME WriteSome PROVE UNCHANGED task
  BY <1>4, <1>9 DEF WriteSome, Write
<1>10. ASSUME ReadDirSome PROVE UNCHANGED task
  BY <1>4, <1>10 DEF ReadDirSome, OpenAndReadDir
<1>11. ASSUME UNCHANGED vars PROVE UNCHANGED task
  BY <1>11 DEF vars
<1>12. ASSUME ChdirSome \/ GetcwdSome \/ SpawnSome PROVE LostOnlyBy
  BY <1>1, <1>2, <1>3, <1>12 DEF ChdirSome, GetcwdSome, SpawnSome
<1> QED  BY <1>5, <1>6, <1>7, <1>8, <1>9, <1>10, <1>11, <1>12, TasksKept DEF Next

THEOREM CwdsAreKept == Spec => CwdIsLostOnlyBy
<1>1. IInv /\ [Next]_vars => [LostOnlyBy]_vars
  BY StepsLose
<1> QED  BY <1>1, Invariant, PTL DEF Spec, CwdIsLostOnlyBy, LostOnlyBy
=============================================================================
