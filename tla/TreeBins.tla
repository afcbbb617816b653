------------------------------ MODULE TreeBins ------------------------------
(***************************************************************************)
(* The tree bins of hagen's malloc (src/hagen/src/malloc.c): free chunks   *)
(* of MinLarge units or more, in one bitwise trie per bin.                 *)
(*                                                                         *)
(* Sizes and addresses are counted in units of MALLOC_ALIGNMENT, 16 bytes. *)
(* A trie T has                                                            *)
(*   root  the node at the top of each bin, or Null,                       *)
(*   n     the nodes, by address: size, child[0] and child[1] as kid[1]    *)
(*         and kid[2], parent, and the chunks of that size, which are      *)
(*         linked in a ring by fd and bk: ring[1] is the node itself (the  *)
(*         only one with a parent), fd leads to the right, bk to the left. *)
(* The address of a bin is a negative number, so that the parent of a root *)
(* is told from a chunk.  Only operators: the heap that uses the tries is  *)
(* module Dlmalloc, MCTreeBins checks them alone.                          *)
(***************************************************************************)
EXTENDS Integers, Sequences, FiniteSetsExt, SequencesExt

CONSTANTS
  MinLarge,    \* MIN_LARGE_SIZE: the first size that is not small
  NTreeBins,   \* the number of tree bins
  SizeBits     \* the bits of a size: SIZE_T_BITSIZE less those of a unit

Null == 0
Bins == 0..NTreeBins - 1
BinAt(i) == -(i + 1)
Unbounded == 1000000    \* -nb as an unsigned number: larger than any remainder

ASSUME TreeBinsAssumption ==
  /\ NTreeBins \in Nat \ {0} /\ SizeBits \in Nat
  /\ \E k \in 1..20 : MinLarge = 2^k

Log2(x) == CHOOSE k \in 0..31 : 2^k <= x /\ x < 2^(k + 1)

(* compute_tree_index: two bins for each power of two, the last for all    *)
(* that is larger.                                                         *)
TreeIndex(s) ==
  LET x == s \div MinLarge IN
  IF x >= 2^(NTreeBins \div 2) THEN NTreeBins - 1
  ELSE 2 * Log2(x) + (((2 * s) \div (MinLarge * 2^Log2(x))) % 2)

(* minsize_for_tree_index *)
MinSizeOf(i) == MinLarge * 2^(i \div 2) + (i % 2) * ((MinLarge * 2^(i \div 2)) \div 2)

(* The bit of size s that chooses the child at depth d of bin i: the sign  *)
(* bit after leftshift_for_tree_index and d more shifts.  In the last bin  *)
(* all bits count.                                                         *)
ChildBit(i, s, d) ==
  LET e == (IF i = NTreeBins - 1 THEN SizeBits - 1 ELSE Log2(MinLarge) + (i \div 2) - 2) - d IN
  IF e < 0 THEN 0 ELSE (s \div 2^e) % 2

(* Mutant: a node with a right child only ends the search. *)
LeftChild(T, t) == T.n[t].kid[1]

LeftmostChild(T, t) == IF T.n[t].kid[1] # Null THEN T.n[t].kid[1] ELSE T.n[t].kid[2]

NoTrees == [root |-> [i \in Bins |-> Null], n |-> [a \in {} |-> Null]]

TreeChunks(T) == UNION {Range(T.n[h].ring) : h \in DOMAIN T.n}
HeadOf(T, x) == CHOOSE h \in DOMAIN T.n : x \in Range(T.n[h].ring)
-----------------------------------------------------------------------------
Node(x, s, up) == [s |-> s, kid |-> <<Null, Null>>, up |-> up, ring |-> <<x>>]

WithNode(T, a, node) ==
  [T EXCEPT !.n = [b \in DOMAIN @ \cup {a} |-> IF b = a THEN node ELSE @[b]]]

(* Mutant: what followed in the ring is lost. *)
ChainForgets(T, t, x) == [T EXCEPT !.n[t].ring = <<t, x>>]

(* A chunk of a size that is there follows the node of that size in its ring. *)
Chain(T, t, x) == [T EXCEPT !.n[t].ring = <<t, x>> \o Tail(@)]

RECURSIVE InsertBelow(_, _, _, _, _, _)
InsertBelow(T, i, t, d, x, s) ==
  LET k == ChildBit(i, s, d) + 1 IN
  IF T.n[t].s = s THEN Chain(T, t, x)
  ELSE IF T.n[t].kid[k] # Null THEN InsertBelow(T, i, T.n[t].kid[k], d + 1, x, s)
  ELSE WithNode([T EXCEPT !.n[t].kid[k] = x], x, Node(x, s, t))

InsertLarge(T, x, s) ==
  LET i == TreeIndex(s) IN
  IF T.root[i] = Null
  THEN WithNode([T EXCEPT !.root[i] = x], x, Node(x, s, BinAt(i)))
  ELSE InsertBelow(T, i, T.root[i], 0, x, s)
-----------------------------------------------------------------------------
(* The leaf that replaces a node that goes: from its right child, or else  *)
(* its left one, down, to the right where that can be.                     *)
RECURSIVE LeafUnder(_, _)
LeafUnder(T, t) ==
  LET kid == T.n[t].kid IN
  IF kid[2] # Null THEN LeafUnder(T, kid[2])
  ELSE IF kid[1] # Null THEN LeafUnder(T, kid[1])
  ELSE t

(* *RP = 0: the leaf is taken from its parent. *)
Detach(T, r) ==
  [T EXCEPT !.n[T.n[r].up].kid = [k \in 1..2 |-> IF @[k] = r THEN Null ELSE @[k]]]

(* What pointed at x points at r, which takes over x's children. *)
Replace(T, x, r) ==
  LET old == T.n[x]
      up == old.up
      kids == {old.kid[1], old.kid[2]} \ {Null}
      linked == IF up < 0
                THEN [T EXCEPT !.root = [i \in Bins |-> IF @[i] = x THEN r ELSE @[i]]]
                ELSE [T EXCEPT !.n[up].kid = [k \in 1..2 |-> IF @[k] = x THEN r ELSE @[k]]]
      adopt(n) == [a \in DOMAIN n |-> IF a \in kids THEN [n[a] EXCEPT !.up = r] ELSE n[a]]
  IN IF r = Null
     THEN [linked EXCEPT !.n = [a \in DOMAIN @ \ {x} |-> @[a]]]
     ELSE [linked EXCEPT !.n =
            [a \in DOMAIN adopt(@) \ {x} |->
              IF a = r THEN [adopt(@)[r] EXCEPT !.up = up, !.kid = old.kid] ELSE adopt(@)[a]]]

UnlinkLarge(T, x) ==
  LET h == HeadOf(T, x)
      ring == T.n[h].ring
      r == Last(ring)
      heir == WithNode(T, r, [Node(r, T.n[x].s, Null) EXCEPT !.ring = <<r>> \o Tail(Front(ring))])
      leaf == LeafUnder(T, x)
  IN IF x # h THEN [T EXCEPT !.n[h].ring = SelectSeq(@, LAMBDA y : y # x)]
     ELSE IF Len(ring) > 1 THEN Replace(heir, x, r)
     ELSE IF leaf = x THEN Replace(T, x, Null)
     ELSE Replace(Detach(T, leaf), x, leaf)
-----------------------------------------------------------------------------
(* The search for a chunk: [v |-> the best so far, rem |-> what it leaves] *)
NothingYet == [v |-> Null, rem |-> Unbounded]

Better(T, t, nb, best) ==
  LET rem == T.n[t].s - nb IN
  IF rem >= 0 /\ rem < best.rem THEN [v |-> t, rem |-> rem] ELSE best

(* while (t != 0): the smallest of a tree lies on the way along its leftmost children. *)
RECURSIVE Leftmost(_, _, _, _)
Leftmost(T, t, nb, best) ==
  IF t = Null THEN best ELSE Leftmost(T, LeftmostChild(T, t), nb, Better(T, t, nb, best))

(* The loop along the bits of nb, which remembers in rst the last right    *)
(* subtree it did not take.                                                *)
RECURSIVE DownBits(_, _, _, _, _, _, _)
DownBits(T, i, t, d, rst, nb, best) ==
  LET best2 == Better(T, t, nb, best)
      rt == T.n[t].kid[2]
      next == T.n[t].kid[ChildBit(i, nb, d) + 1]
      rst2 == IF rt # Null /\ rt # next THEN rt ELSE rst
  IN IF best2.rem = 0 THEN [t |-> t, best |-> best2]
     ELSE IF next = Null THEN [t |-> rst2, best |-> best2]
     ELSE DownBits(T, i, next, d + 1, rst2, nb, best2)

FirstBin(T, from) == Min({i \in Bins : i >= from /\ T.root[i] # Null} \cup {NTreeBins})

(* tmalloc_large up to its choice of v. *)
FindLarge(T, nb) ==
  LET i == TreeIndex(nb)
      own == IF T.root[i] = Null THEN [t |-> Null, best |-> NothingYet]
             ELSE DownBits(T, i, T.root[i], 0, Null, nb, NothingYet)
      later == FirstBin(T, i + 1)
      t == IF own.t = Null /\ own.best.v = Null /\ later < NTreeBins THEN T.root[later] ELSE own.t
  IN Leftmost(T, t, nb, own.best)

(* tmalloc_small up to its choice of v: the smallest chunk of all. *)
FindSmallest(T, nb) ==
  LET t == T.root[FirstBin(T, 0)] IN Leftmost(T, t, nb, NothingYet)
-----------------------------------------------------------------------------
(* do_check_tree and do_check_treebin of every bin. *)
RECURSIVE UnderNode(_, _)
UnderNode(T, t) ==
  IF t = Null THEN {} ELSE {t} \cup UnderNode(T, T.n[t].kid[1]) \cup UnderNode(T, T.n[t].kid[2])

BinOk(T, i) ==
  \A t \in UnderNode(T, T.root[i]) :
    LET node == T.n[t] IN
    /\ TreeIndex(node.s) = i
    /\ node.s >= MinSizeOf(i) /\ (i < NTreeBins - 1 => node.s < MinSizeOf(i + 1))
    /\ node.ring[1] = t
    /\ IF node.up < 0 THEN node.up = BinAt(i) /\ T.root[i] = t
                      ELSE \E k \in 1..2 : T.n[node.up].kid[k] = t
    /\ \A k \in 1..2 : node.kid[k] # Null => T.n[node.kid[k]].up = t /\ node.kid[k] # t
    /\ (node.kid[1] # Null /\ node.kid[2] # Null)
          => T.n[node.kid[1]].s < T.n[node.kid[2]].s

(* Where bin_find looks for a size: the node a search along its bits ends at. *)
RECURSIVE FindNode(_, _, _, _, _)
FindNode(T, i, t, d, s) ==
  IF t = Null \/ T.n[t].s = s THEN t
  ELSE FindNode(T, i, T.n[t].kid[ChildBit(i, s, d) + 1], d + 1, s)

BinFind(T, x, s) ==
  LET i == TreeIndex(s)
      t == IF T.root[i] = Null THEN Null ELSE FindNode(T, i, T.root[i], 0, s)
  IN t # Null /\ x \in Range(T.n[t].ring)
=============================================================================
