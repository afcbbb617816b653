--------------------------- MODULE PageHeapProofs ---------------------------
(***************************************************************************)
(* Proofs about the page heap, for all sizes of pages and blocks and any   *)
(* number of blocks: a page has one user, the stacks hold just the free    *)
(* pages, an extension finds the page tables it needs, and the heap        *)
(* implements PagePool.                                                    *)
(***************************************************************************)
EXTENDS PageHeap, FiniteSetTheorems, SequenceTheorems, TLAPS

(***************************************************************************)
(* The layout of a block.                                                  *)
(***************************************************************************)

(* Rounding down to a multiple of a loses less than a.                     *)
LEMMA RoundDown ==
  ASSUME NEW x \in Nat, NEW a \in Nat \ {0}
  PROVE  /\ x \div a \in Nat
         /\ (x \div a) * a <= x
         /\ x < (x \div a) * a + a
<1>1. x \div a \in Nat /\ x = a * (x \div a) + (x % a) /\ x % a \in 0 .. a - 1
  OBVIOUS
<1> QED  BY <1>1

LEMMA TimesMonotone ==
  ASSUME NEW a \in Nat, NEW b \in Nat, NEW c \in Nat, a <= b
  PROVE  a * c <= b * c
<1>1. PICK d \in Nat : b = a + d
  <2>1. b - a \in Nat /\ b = a + (b - a)
    OBVIOUS
  <2> QED  BY <2>1
<1>2. b * c = a * c + d * c /\ d * c \in Nat /\ a * c \in Nat
  BY <1>1
<1> QED  BY <1>2

(* A block has room for its header, its stack and at least five pages, and *)
(* the slots that SlotRes leaves out cover the stack.                      *)
LEMMA BlockLayout ==
  ASSUME NEW b \in Block
  PROVE  /\ MaxOf(b) \in Nat /\ SlotRes(b) \in Nat
         /\ SlotRes(b) + 5 <= MaxOf(b)
         /\ 8 * MaxOf(b) <= SlotRes(b) * BSize
         /\ MaxOf(b) * BSize + BSize <= SizeOf(b)
<1> DEFINE s == SizeOf(b)
           m == (s - BSize) \div BSize
           w == (8 * m) \div BSize
<1>1. BSize \in Nat \ {0} /\ BSize >= 32 /\ s \in Nat /\ s >= 8 * BSize
  BY PageHeapAssumption DEF SizeOf, HeaderSize
<1>2. m \in Nat /\ m * BSize <= s - BSize /\ s - BSize < m * BSize + BSize
  <2>1. s - BSize \in Nat
    BY <1>1
  <2> HIDE DEF s
  <2> QED  BY <1>1, <2>1, RoundDown
<1> HIDE DEF s, m
<1>3. 7 <= m
  <2>1. CASE m <= 6
    <3>1. m * BSize <= 6 * BSize
      BY <1>1, <1>2, <2>1, TimesMonotone
    <3> QED  BY <1>1, <1>2, <3>1
  <2> QED  BY <1>2, <2>1
<1>4. w \in Nat /\ w * BSize <= 8 * m /\ 8 * m < w * BSize + BSize
  <2>1. 8 * m \in Nat
    BY <1>2
  <2> QED  BY <1>1, <2>1, RoundDown
<1> HIDE DEF w
<1>5. w * 32 <= 8 * m
  <2>1. 32 * w <= BSize * w
    BY <1>1, <1>4, TimesMonotone
  <2> QED  BY <1>1, <1>2, <1>4, <2>1
<1>6. MaxOf(b) = m /\ SlotRes(b) = (IF w * BSize < 8 * m THEN w + 1 ELSE w)
  BY DEF MaxOf, SlotRes, s, m, w
<1>7. SlotRes(b) \in Nat /\ SlotRes(b) <= w + 1
  BY <1>4, <1>6
<1>8. SlotRes(b) + 5 <= m
  BY <1>2, <1>3, <1>4, <1>5, <1>7
<1>9. 8 * m <= SlotRes(b) * BSize
  <2>1. (w + 1) * BSize = w * BSize + BSize
    BY <1>1, <1>4
  <2> QED  BY <1>1, <1>2, <1>4, <1>6, <2>1
<1> QED  BY <1>1, <1>2, <1>6, <1>7, <1>8, <1>9 DEF s
-----------------------------------------------------------------------------
(***************************************************************************)
(* The inductive invariant.  Until the list is cleared it holds all the    *)
(* blocks ever added, and no page of a block is out before the block is    *)
(* there.                                                                  *)
(***************************************************************************)
ListIsWhole ==
  mapping # "cleared" =>
    /\ blocks = 1 .. fblock
    /\ \A p \in used : p[1] <= fblock

(* Why an extension finds its page tables: between two calls the newest    *)
(* block has not started one, and then has three pages or more; while one  *)
(* is under way the newest block has the pages it still needs, and does    *)
(* not start another.                                                      *)
Supply ==
  /\ NoNestedExtension
  /\ pending # <<>> => fblock < MaxBlocks /\ status # "panic"
  /\ mapping = "cleared" => NoDonor /\ pending = <<>>
  /\ status = "ok" /\ mapping # "cleared" =>
       /\ pending = <<>> => ~extended[fblock]
       /\ pending # <<>> => extended[fblock] /\ pending[1] <= Left(fblock)
       /\ ~extended[fblock] => Left(fblock) >= 3
  /\ NeverPanics

IInv == TypeOK /\ StackHoldsFreePages /\ ListIsWhole /\ Supply
-----------------------------------------------------------------------------
(***************************************************************************)
(* What StackHoldsFreePages says of one block, page by page.               *)
(***************************************************************************)
InStack(b) == top[b] .. MaxOf(b) - 1

Exact(b) ==
  /\ \A i \in InStack(b) : stack[b][i] \in PageOf(b) /\ <<b, stack[b][i]>> \notin used
  /\ \A x \in PageOf(b) : <<b, x>> \notin used => \E i \in InStack(b) : stack[b][i] = x
  /\ \A i, j \in InStack(b) : stack[b][i] = stack[b][j] => i = j

LEMMA ExactBlocks ==
  StackHoldsFreePages <=> (mapping # "cleared" => \A b \in blocks : Exact(b))
BY DEF StackHoldsFreePages, Exact, InStack, FreeOf

LEMMA ExactBlocksNext ==
  StackHoldsFreePages' <=> (mapping' # "cleared" => \A b \in blocks' : Exact(b)')
BY DEF StackHoldsFreePages, Exact, InStack, FreeOf

(* While a page of a block is not in its stack, the stack does not reach   *)
(* down to the slots that are left out: the entries are different pages,   *)
(* so there are fewer of them than pages.                                  *)
LEMMA StackHasRoom ==
  ASSUME NEW b \in Block, NEW t \in SlotRes(b) .. MaxOf(b), NEW s,
         \A i \in t .. MaxOf(b) - 1 : s[i] \in PageOf(b),
         \A i, j \in t .. MaxOf(b) - 1 : s[i] = s[j] => i = j,
         NEW x \in PageOf(b), \A i \in t .. MaxOf(b) - 1 : s[i] # x
  PROVE  t > SlotRes(b)
<1>1. MaxOf(b) \in Nat /\ SlotRes(b) \in Nat
  BY BlockLayout
<1>2. CASE t = SlotRes(b)
  <2> DEFINE P == PageOf(b)
             f == [i \in P |-> s[i]]
  <2>1. P = t .. MaxOf(b) - 1 /\ IsFiniteSet(P)
    <3>1. IsFiniteSet(SlotRes(b) .. MaxOf(b) - 1)
      <4>1. SlotRes(b) \in Int /\ MaxOf(b) - 1 \in Int
        BY <1>1
      <4> QED  BY <4>1, FS_Interval
    <3> QED  BY <1>2, <3>1 DEF PageOf
  <2>2. f \in Injection(P, P)
    BY <2>1 DEF Injection, IsInjective
  <2> HIDE DEF f
  <2>3. f \in Surjection(P, P)
    BY <2>1, <2>2, FS_Injection
  <2>4. \E i \in P : f[i] = x
    BY <2>3 DEF Surjection
  <2> QED  BY <2>1, <2>4 DEF f
<1> QED  BY <1>1, <1>2
-----------------------------------------------------------------------------
(***************************************************************************)
(* The steps of an allocation and of a free.                               *)
(***************************************************************************)

(* Taking the page at the top of a stack: it was nobody's, and the rest of *)
(* the stack is what is still free.                                        *)
LEMMA TakeStep ==
  ASSUME IInv, mapping # "cleared", NEW b \in Block, IsDonor(b),
         top' = [top EXCEPT ![b] = @ + 1],
         got' = <<b, stack[b][top[b]]>>,
         used' = used \cup {got'},
         UNCHANGED <<blocks, fblock, stack>>
  PROVE  /\ got' \in Page \ used
         /\ got'[1] = b
         /\ top' \in [Block -> Nat]
         /\ \A c \in Block : top'[c] \in SlotRes(c) .. MaxOf(c)
         /\ \A c \in blocks' : Exact(c)'
<1>1. /\ \A c \in blocks : Exact(c)
      /\ b \in blocks /\ Left(b) # 0
  BY ExactBlocks DEF IInv, IsDonor
<1>2. \A c \in Block : MaxOf(c) \in Nat /\ SlotRes(c) \in Nat
  BY BlockLayout
<1>3. /\ top \in [Block -> Nat] /\ blocks \subseteq Block
      /\ \A c \in Block : top[c] \in SlotRes(c) .. MaxOf(c)
  BY DEF IInv, TypeOK
<1>4. top[b] \in InStack(b)
  BY <1>1, <1>2, <1>3 DEF Left, InStack
<1> DEFINE x == stack[b][top[b]]
<1>5. x \in PageOf(b) /\ <<b, x>> \notin used
  BY <1>1, <1>4 DEF Exact
<1>6. got' = <<b, x>>
  OBVIOUS
<1> HIDE DEF x
<1>7. got' \in Page
  BY <1>5, <1>6 DEF Page
<1>8. /\ top' \in [Block -> Nat]
      /\ \A c \in Block : top'[c] \in SlotRes(c) .. MaxOf(c)
  <2>1. top[b] + 1 \in SlotRes(b) .. MaxOf(b) /\ top[b] + 1 \in Nat
    BY <1>2, <1>3, <1>4 DEF InStack
  <2> QED  BY <1>3, <2>1
<1>9. ASSUME NEW c \in blocks PROVE Exact(c)'
  <2> USE DEF Exact, InStack
  <2>1. Exact(c)
    BY <1>1
  <2>2. CASE c # b
    <3>1. top'[c] = top[c]
      BY <1>3, <2>2
    <3>2. \A y : <<c, y>> \in used' <=> <<c, y>> \in used
      BY <1>6, <2>2
    <3> QED  BY <2>1, <3>1, <3>2
  <2>3. CASE c = b
    <3>1. top'[c] = top[b] + 1
      BY <1>3, <2>3
    <3>2. InStack(c)' = InStack(b) \ {top[b]} /\ top[b] \in InStack(b)
      BY <1>2, <1>3, <1>4, <2>3, <3>1
    <3>3. \A y : <<c, y>> \in used' <=> <<c, y>> \in used \/ y = x
      BY <1>6, <2>3
    <3>4. \A i \in InStack(b) \ {top[b]} : stack[b][i] # x
      BY <1>4, <2>1, <2>3 DEF x
    <3> HIDE DEF InStack
    <3>5. \A i \in InStack(c)' : stack'[c][i] \in PageOf(c) /\ <<c, stack'[c][i]>> \notin used'
      BY <2>1, <2>3, <3>2, <3>3, <3>4
    <3>6. ASSUME NEW y \in PageOf(c), <<c, y>> \notin used'
          PROVE  \E i \in InStack(c)' : stack'[c][i] = y
      <4>1. PICK i \in InStack(b) : stack[b][i] = y
        BY <2>1, <2>3, <3>3, <3>6
      <4>2. i # top[b]
        BY <3>3, <3>6, <4>1 DEF x
      <4> QED  BY <2>3, <3>2, <4>1, <4>2
    <3>7. \A i, j \in InStack(c)' : stack'[c][i] = stack'[c][j] => i = j
      BY <2>1, <2>3, <3>2
    <3> QED  BY <3>5, <3>6, <3>7
  <2> QED  BY <2>2, <2>3
<1> QED  BY <1>5, <1>6, <1>7, <1>8, <1>9

(* Putting a page that is out on the top of its block's stack: there is a  *)
(* slot for it above those that are left out.                              *)
LEMMA FreeStep ==
  ASSUME IInv, mapping # "cleared", NEW b \in Block, NEW x \in PageOf(b),
         <<b, x>> \in used,
         PushBack(b, x),
         top' = [top EXCEPT ![b] = @ - 1],
         used' = used \ {<<b, x>>},
         UNCHANGED <<blocks, fblock>>
  PROVE  /\ top' \in [Block -> Nat]
         /\ \A c \in Block : top'[c] \in SlotRes(c) .. MaxOf(c)
         /\ Left(b)' = Left(b) + 1 /\ \A c \in Block \ {b} : Left(c)' = Left(c)
         /\ DOMAIN stack' = Block
         /\ \A c \in Block : stack'[c] \in [Idx(c) -> Idx(c)]
         /\ \A c \in blocks' : Exact(c)'
<1>1. \A c \in blocks : Exact(c)
  BY ExactBlocks DEF IInv
<1>2. b \in blocks
  BY DEF IInv, TypeOK, ListIsWhole, Block
<1>3. \A c \in Block : MaxOf(c) \in Nat /\ SlotRes(c) \in Nat
  BY BlockLayout
<1>4. /\ top \in [Block -> Nat] /\ blocks \subseteq Block
      /\ \A c \in Block : top[c] \in SlotRes(c) .. MaxOf(c)
      /\ DOMAIN stack = Block
      /\ \A c \in Block : stack[c] \in [Idx(c) -> Idx(c)]
  BY DEF IInv, TypeOK
<1>5. top[b] > SlotRes(b)
  <2>1. \A i \in top[b] .. MaxOf(b) - 1 : stack[b][i] \in PageOf(b) /\ stack[b][i] # x
    BY <1>1, <1>2 DEF Exact, InStack
  <2>2. \A i, j \in top[b] .. MaxOf(b) - 1 : stack[b][i] = stack[b][j] => i = j
    BY <1>1, <1>2 DEF Exact, InStack
  <2>3. top[b] \in SlotRes(b) .. MaxOf(b)
    BY <1>4
  <2> QED  BY <2>1, <2>2, <2>3, StackHasRoom
<1>6. /\ top' \in [Block -> Nat]
      /\ \A c \in Block : top'[c] \in SlotRes(c) .. MaxOf(c)
      /\ Left(b)' = Left(b) + 1 /\ \A c \in Block \ {b} : Left(c)' = Left(c)
  <2>1. top[b] - 1 \in SlotRes(b) .. MaxOf(b) /\ top[b] - 1 \in Nat
    BY <1>3, <1>4, <1>5
  <2>2. top'[b] = top[b] - 1 /\ \A c \in Block \ {b} : top'[c] = top[c]
    BY <1>4
  <2>3. top' \in [Block -> Nat]
    BY <1>4, <2>1
  <2> QED  BY <1>3, <1>4, <2>1, <2>2, <2>3 DEF Left
<1>7. /\ top[b] - 1 \in Idx(b) /\ x \in Idx(b)
  BY <1>3, <1>4, <1>5 DEF Idx, PageOf
<1>8. /\ stack' = [stack EXCEPT ![b] = [stack[b] EXCEPT ![top[b] - 1] = x]]
      /\ stack'[b][top[b] - 1] = x
      /\ \A i \in Idx(b) : i # top[b] - 1 => stack'[b][i] = stack[b][i]
      /\ stack'[b] \in [Idx(b) -> Idx(b)]
      /\ \A c \in Block \ {b} : stack'[c] = stack[c]
  BY <1>4, <1>7 DEF PushBack
<1>9. DOMAIN stack' = Block /\ \A c \in Block : stack'[c] \in [Idx(c) -> Idx(c)]
  BY <1>4, <1>8
<1>10. ASSUME NEW c \in blocks PROVE Exact(c)'
  <2>1. Exact(c) /\ c \in Block
    BY <1>1, <1>4
  <2>2. CASE c # b
    <3>1. top'[c] = top[c] /\ stack'[c] = stack[c]
      BY <1>4, <1>8, <2>1, <2>2
    <3>2. \A y : <<c, y>> \in used' <=> <<c, y>> \in used
      BY <2>2
    <3> QED  BY <2>1, <3>1, <3>2 DEF Exact, InStack
  <2>3. CASE c = b
    <3>1. /\ InStack(b)' = InStack(b) \cup {top[b] - 1}
          /\ top[b] - 1 \notin InStack(b) /\ InStack(b) \subseteq Idx(b)
      BY <1>3, <1>4, <1>5 DEF InStack, Idx
    <3>2. \A i \in InStack(b) : stack'[b][i] = stack[b][i] /\ stack[b][i] # x
      BY <1>8, <2>1, <2>3, <3>1 DEF Exact
    <3>3. \A y : <<b, y>> \in used' <=> <<b, y>> \in used /\ y # x
      OBVIOUS
    <3>4. \A i \in InStack(b)' : stack'[b][i] \in PageOf(b) /\ <<b, stack'[b][i]>> \notin used'
      BY <1>8, <2>1, <2>3, <3>1, <3>2, <3>3 DEF Exact
    <3>5. \A y \in PageOf(b) : <<b, y>> \notin used' => \E i \in InStack(b)' : stack'[b][i] = y
      BY <1>8, <2>1, <2>3, <3>1, <3>2, <3>3 DEF Exact
    <3>6. \A i, j \in InStack(b)' : stack'[b][i] = stack'[b][j] => i = j
      BY <1>8, <2>1, <2>3, <3>1, <3>2, <3>3 DEF Exact
    <3> QED  BY <2>3, <3>4, <3>5, <3>6 DEF Exact
  <2> QED  BY <2>2, <2>3
<1> QED  BY <1>6, <1>9, <1>10
-----------------------------------------------------------------------------
(***************************************************************************)
(* The invariant is inductive.                                             *)
(***************************************************************************)
LEMMA InitIInv == Init => IInv
<1> SUFFICES ASSUME Init PROVE IInv
  OBVIOUS
<1> USE DEF Init
<1>1. 1 \in Block /\ \A b \in Block : MaxOf(b) \in Nat /\ SlotRes(b) \in Nat
                                     /\ SlotRes(b) + 5 <= MaxOf(b)
  BY BlockLayout, PageHeapAssumption DEF Block
<1>2. TypeOK
  <2>1. \A b \in Block : stack[b] \in [Idx(b) -> Idx(b)]
    BY <1>1 DEF FreshStack, Idx
  <2>2. top \in [Block -> Nat] /\ \A b \in Block : top[b] \in SlotRes(b) .. MaxOf(b)
    BY <1>1
  <2>3. \A b \in blocks : b <= fblock
    OBVIOUS
  <2> QED  BY <1>1, <2>1, <2>2, <2>3 DEF TypeOK, Page
<1>3. StackHoldsFreePages
  <2>1. InStack(1) = PageOf(1) /\ \A i \in InStack(1) : stack[1][i] = i
    BY <1>1 DEF InStack, PageOf, FreshStack, Idx
  <2>2. Exact(1)
    <3>1. used = {}
      OBVIOUS
    <3> HIDE DEF Init
    <3> QED  BY <2>1, <3>1 DEF Exact
  <2> QED  BY <2>2, ExactBlocks
<1>4. ListIsWhole
  BY DEF ListIsWhole
<1>5. Supply
  BY <1>1 DEF Supply, NoNestedExtension, NeverPanics, Left
<1> QED  BY <1>2, <1>3, <1>4, <1>5 DEF IInv

(* At most one extension is under way.                                     *)
LEMMA OneExtension ==
  ASSUME IInv
  PROVE  pending = <<>> \/ \E n \in 0 .. MaxTables : pending = <<n>>
<1>1. pending \in Seq(0 .. MaxTables) /\ Len(pending) <= 1
  BY DEF IInv, TypeOK, Supply, NoNestedExtension
<1>2. CASE Len(pending) = 0
  BY <1>1, <1>2
<1>3. CASE Len(pending) = 1
  <2>1. pending[1] \in 0 .. MaxTables
    <3>1. 1 \in 1 .. Len(pending)
      BY <1>3
    <3> DEFINE T == 0 .. MaxTables
    <3>2. pending \in Seq(T)
      BY <1>1
    <3> HIDE DEF T
    <3>3. pending[1] \in T
      BY <3>1, <3>2, ElementOfSeq
    <3> QED  BY <3>3 DEF T
  <2>2. pending = <<pending[1]>>
    <3> DEFINE one == <<pending[1]>>
    <3>1. one \in Seq(0 .. MaxTables) /\ Len(one) = 1 /\ one[1] = pending[1]
      BY <2>1
    <3> HIDE DEF one
    <3>2. \A i \in 1 .. Len(pending) : pending[i] = one[i]
      BY <1>3, <3>1
    <3>3. pending = one
      BY <1>1, <1>3, <3>1, <3>2, SeqEqual
    <3> QED  BY <3>3 DEF one
  <2> QED  BY <2>1, <2>2
<1>4. Len(pending) \in Nat
  BY <1>1, LenProperties
<1> QED  BY <1>1, <1>2, <1>3, <1>4

(* The heap has a page for whoever asks, and takes it from its newest      *)
(* block.                                                                  *)
LEMMA DonorIsNewest ==
  ASSUME IInv, status = "ok", mapping # "cleared",
         pending = <<>> \/ pending[1] > 0
  PROVE  /\ ~NoDonor
         /\ \A b \in Block : IsDonor(b) => b = fblock
<1>1. /\ fblock \in blocks /\ blocks \subseteq Block
      /\ \A b \in blocks : b <= fblock
      /\ \A b \in Block : b \in Nat /\ top[b] \in Nat /\ MaxOf(b) \in Nat
  BY BlockLayout DEF IInv, TypeOK, Block
<1>2. Left(fblock) # 0
  <2>1. Left(fblock) \in Int
    BY <1>1 DEF Left
  <2>2. CASE pending = <<>>
    BY <2>1, <2>2 DEF IInv, Supply
  <2>3. CASE pending # <<>>
    <3>1. pending[1] \in Nat
      BY OneExtension, <2>3 DEF MaxTables
    <3> QED  BY <2>1, <2>3, <3>1 DEF IInv, Supply
  <2> QED  BY <2>2, <2>3
<1> QED  BY <1>1, <1>2 DEF NoDonor, IsDonor

(* A call of k_pageobj_alloc that finds a page.                            *)
LEMMA TakeKeeps ==
  ASSUME IInv, status = "ok", mapping # "cleared", mapping' \in {"none", "taken"},
         NEW b \in Block, IsDonor(b), NEW rest, Take(b, rest),
         tables' \in {tables, tables \cup {got'}},
         \/ pending = <<>> /\ rest = <<>>
         \/ pending # <<>> /\ pending[1] > 0 /\ rest = [pending EXCEPT ![1] = @ - 1]
  PROVE  IInv'
<1>1. b = fblock
  BY DonorIsNewest
<1>2. /\ got' \in Page \ used /\ got'[1] = b
      /\ top' \in [Block -> Nat]
      /\ \A c \in Block : top'[c] \in SlotRes(c) .. MaxOf(c)
      /\ \A c \in blocks' : Exact(c)'
  BY TakeStep DEF Take
<1>3. /\ fblock \in Block /\ fblock \in Nat /\ MaxBlocks \in Nat
      /\ extended \in [Block -> BOOLEAN] /\ top \in [Block -> Nat]
      /\ MaxOf(fblock) \in Nat
  <2>1. fblock \in Block
    BY DEF IInv, TypeOK
  <2>2. fblock \in Nat /\ MaxBlocks \in Nat
    BY <2>1, PageHeapAssumption DEF Block
  <2> QED  BY <2>1, <2>2, BlockLayout DEF IInv, TypeOK
<1>4. /\ Left(fblock) \in Int /\ Left(fblock)' = Left(fblock) - 1
  BY <1>1, <1>3 DEF Left, Take
<1>5. /\ pending' \in Seq(0 .. MaxTables) /\ Len(pending') <= 1
      /\ status' \in {"ok", "noFrames"}
      /\ extended' \in [Block -> BOOLEAN]
      /\ pending' # <<>> => fblock < MaxBlocks
      /\ status' = "ok" =>
           /\ pending' = <<>> => ~extended'[fblock]
           /\ pending' # <<>> => extended'[fblock] /\ pending'[1] <= Left(fblock) - 1
           /\ ~extended'[fblock] => Left(fblock) - 1 >= 3
  <2>1. CASE pending = <<>> /\ rest = <<>>
    <3>1. ~extended[fblock] /\ Left(fblock) >= 3
      BY <2>1 DEF IInv, Supply
    <3>2. CASE RunsLow(b)
      <4>1. /\ extended' = [extended EXCEPT ![fblock] = TRUE]
            /\ Left(fblock) - 1 = 2
        BY <1>1, <1>4, <3>1, <3>2 DEF Take, StartExtension, Mark, RunsLow
      <4>2. extended' \in [Block -> BOOLEAN] /\ extended'[fblock]
        BY <1>3, <4>1
      <4>3. CASE fblock + Len(pending) < MaxBlocks
        <5>1. PICK n \in 0 .. MaxTables : pending' = <<n>> \o rest
          BY <3>2, <4>3 DEF Take, StartExtension
        <5>2. pending' = <<n>>
          BY <2>1, <5>1
        <5>3. status' = "ok"
          BY <3>2, <4>3 DEF Take, StartExtension
        <5>4. fblock < MaxBlocks
          BY <1>3, <2>1, <4>3
        <5> QED  BY <4>1, <4>2, <5>2, <5>3, <5>4 DEF MaxTables
      <4>4. CASE ~(fblock + Len(pending) < MaxBlocks)
        <5>1. pending' = <<>> /\ status' = "noFrames"
          BY <2>1, <3>2, <4>4 DEF Take, StartExtension
        <5> QED  BY <4>2, <5>1
      <4> QED  BY <4>3, <4>4
    <3>3. CASE ~RunsLow(b)
      <4>1. pending' = <<>> /\ extended' = extended /\ status' = status
        BY <2>1, <3>3 DEF Take
      <4>2. Left(fblock) - 1 >= 3
        BY <1>1, <1>4, <3>1, <3>3 DEF RunsLow
      <4> QED  BY <1>3, <3>1, <4>1, <4>2
    <3> QED  BY <3>2, <3>3
  <2>2. CASE pending # <<>> /\ pending[1] > 0 /\ rest = [pending EXCEPT ![1] = @ - 1]
    <3>1. PICK n \in 0 .. MaxTables : pending = <<n>>
      BY <2>2, OneExtension
    <3>2. rest = <<n - 1>> /\ n - 1 \in 0 .. MaxTables
      BY <2>2, <3>1 DEF MaxTables
    <3>3. extended[fblock] /\ n <= Left(fblock) /\ fblock < MaxBlocks
      BY <2>2, <3>1 DEF IInv, Supply
    <3>4. pending' = rest /\ extended' = extended /\ status' = status
      BY <1>1, <3>3 DEF Take, RunsLow
    <3> QED  BY <1>3, <1>4, <3>2, <3>3, <3>4
  <2> QED  BY <2>1, <2>2
<1>6. UNCHANGED <<blocks, fblock, stack>> /\ used' = used \cup {got'}
  BY DEF Take
<1>7. TypeOK'
  BY <1>2, <1>5, <1>6 DEF IInv, TypeOK
<1>8. StackHoldsFreePages'
  BY <1>2, ExactBlocksNext
<1>9. ListIsWhole'
  BY <1>1, <1>2, <1>3, <1>6 DEF IInv, ListIsWhole
<1>10. Supply'
  BY <1>4, <1>5, <1>6 DEF Supply, NoNestedExtension, NeverPanics
<1> QED  BY <1>7, <1>8, <1>9, <1>10 DEF IInv

LEMMA AllocKeeps ==
  ASSUME IInv, Alloc
  PROVE  IInv'
<1> USE DEF Alloc
<1>1. CASE NoDonor
  <2>1. mapping = "cleared"
    BY <1>1, DonorIsNewest DEF IInv, TypeOK
  <2>2. Panic
    BY <1>1
  <2> QED
    BY <2>1, <2>2 DEF Panic, IInv, TypeOK, StackHoldsFreePages, FreeOf,
       ListIsWhole, Supply, NoNestedExtension, NeverPanics, NoDonor, Left
<1>2. CASE ~NoDonor
  <2>1. PICK b \in Block : IsDonor(b) /\ Take(b, <<>>) /\ UNCHANGED <<tables, mapping>>
    BY <1>2
  <2>2. mapping # "cleared" /\ mapping' \in {"none", "taken"}
    BY <1>2, <2>1 DEF IInv, Supply, TypeOK
  <2> QED  BY <2>1, <2>2, TakeKeeps
<1> QED  BY <1>1, <1>2

LEMMA AllocInMappingKeeps ==
  ASSUME IInv, AllocInMapping
  PROVE  IInv'
<1>1. PICK b \in Block :
        /\ IsDonor(b) /\ Take(b, <<>>) /\ UNCHANGED tables
        /\ mapping' \in {mapping, "taken"}
  BY DEF AllocInMapping
<1>2. mapping' \in {"none", "taken"}
  BY <1>1 DEF AllocInMapping, IInv, TypeOK
<1> QED  BY <1>1, <1>2, TakeKeeps DEF AllocInMapping

LEMMA AllocTableKeeps ==
  ASSUME IInv, AllocTable
  PROVE  IInv'
<1>1. /\ status = "ok" /\ pending # <<>> /\ pending[1] > 0
      /\ mapping # "cleared" /\ mapping \in {"none", "taken"}
  BY DEF AllocTable, IInv, Supply, TypeOK
<1>2. ~NoDonor
  BY <1>1, DonorIsNewest
<1>3. PICK b \in Block :
        /\ IsDonor(b) /\ Take(b, [pending EXCEPT ![1] = @ - 1])
        /\ tables' = tables \cup {got'} /\ UNCHANGED mapping
  BY <1>2 DEF AllocTable
<1> QED  BY <1>1, <1>3, TakeKeeps

LEMMA AddBlockKeeps ==
  ASSUME IInv, AddBlock
  PROVE  IInv'
<1> PICK n : n = fblock + 1
  OBVIOUS
<1>1. /\ pending # <<>> /\ status = "ok" /\ fblock < MaxBlocks /\ mapping # "cleared"
      /\ fblock' = n /\ blocks' = blocks \cup {n}
      /\ UNCHANGED <<used, tables, mapping, status>> /\ got' = <<>>
      /\ top' = [top EXCEPT ![n] = SlotRes(n)]
      /\ extended' = [extended EXCEPT ![n] = FALSE]
      /\ stack' = [stack EXCEPT ![n] = FreshStack(n)]
  BY DEF AddBlock, IInv, Supply
<1>2. pending' = <<>>
  BY <1>1, OneExtension DEF AddBlock
<1>3. fblock \in Block /\ fblock \in Nat /\ MaxBlocks \in Nat
  BY PageHeapAssumption DEF IInv, TypeOK, Block
<1>4. /\ n \in Block /\ n > fblock /\ n \in Nat
      /\ MaxOf(n) \in Nat /\ SlotRes(n) \in Nat /\ SlotRes(n) + 5 <= MaxOf(n)
  <2>1. n \in Block
    BY <1>1, <1>3 DEF Block
  <2> QED  BY <1>3, <2>1, BlockLayout
<1>5. /\ top' \in [Block -> Nat] /\ top'[n] = SlotRes(n)
      /\ \A c \in Block : top'[c] \in SlotRes(c) .. MaxOf(c)
      /\ extended' \in [Block -> BOOLEAN] /\ ~extended'[n]
      /\ DOMAIN stack' = Block /\ stack'[n] = FreshStack(n)
      /\ \A c \in Block \ {n} : top'[c] = top[c] /\ stack'[c] = stack[c]
  BY <1>1, <1>4 DEF IInv, TypeOK
<1>6. FreshStack(n) \in [Idx(n) -> Idx(n)]
  BY <1>4 DEF FreshStack, Idx
<1>7. TypeOK'
  <2>1. \A c \in Block : stack'[c] \in [Idx(c) -> Idx(c)]
    BY <1>5, <1>6 DEF IInv, TypeOK
  <2>2. \A c \in blocks' : c <= n
    BY <1>1, <1>3, <1>4 DEF IInv, TypeOK, Block
  <2>3. pending' \in Seq(0 .. MaxTables)
    BY <1>2
  <2> QED  BY <1>1, <1>4, <1>5, <2>1, <2>2, <2>3 DEF IInv, TypeOK
<1>8. ListIsWhole'
  <2>1. blocks' = 1 .. n
    BY <1>1, <1>3 DEF IInv, ListIsWhole
  <2>2. \A p \in used : p[1] \in Nat /\ p[1] <= fblock
    BY <1>1 DEF IInv, ListIsWhole, TypeOK, Page, Block
  <2> QED  BY <1>1, <1>3, <1>4, <2>1, <2>2 DEF ListIsWhole
<1>9. StackHoldsFreePages'
  <2>1. ASSUME NEW c \in blocks PROVE Exact(c)'
    <3>1. c # n /\ c \in Block
      BY <1>3, <1>4 DEF IInv, TypeOK, Block
    <3>2. Exact(c)
      BY <1>1, ExactBlocks DEF IInv
    <3> QED  BY <1>1, <1>5, <3>1, <3>2 DEF Exact, InStack
  <2>2. Exact(n)'
    <3>1. InStack(n)' = PageOf(n)
      BY <1>5 DEF InStack, PageOf
    <3>2. \A i \in PageOf(n) : stack'[n][i] = i
      BY <1>4, <1>5 DEF FreshStack, PageOf, Idx
    <3>3. \A x : <<n, x>> \notin used'
      <4>1. \A p \in used : p[1] \in Nat /\ p[1] <= fblock
        BY <1>1 DEF IInv, ListIsWhole, TypeOK, Page, Block
      <4>2. ~(n <= fblock)
        BY <1>3, <1>4
      <4> QED  BY <1>1, <4>1, <4>2
    <3> QED  BY <3>1, <3>2, <3>3 DEF Exact
  <2> QED  BY <1>1, <2>1, <2>2, ExactBlocksNext
<1>10. Supply'
  <2>1. Left(n)' >= 3
    BY <1>4, <1>5 DEF Left
  <2> QED
    BY <1>1, <1>2, <1>5, <2>1 DEF IInv, Supply, NoNestedExtension, NeverPanics
<1> QED  BY <1>7, <1>8, <1>9, <1>10 DEF IInv

LEMMA ClearKeeps ==
  ASSUME IInv, Clear
  PROVE  IInv'
<1> USE DEF Clear
<1>1. /\ fblock \in Block /\ MaxOf(fblock) \in Nat /\ SlotRes(fblock) \in Nat
      /\ SlotRes(fblock) <= MaxOf(fblock)
  BY BlockLayout DEF IInv, TypeOK
<1>2. TypeOK'
  <2>1. /\ top' \in [Block -> Nat]
        /\ \A c \in Block : top'[c] \in SlotRes(c) .. MaxOf(c)
    BY <1>1 DEF IInv, TypeOK
  <2>2. \A c \in blocks' : c <= fblock'
    BY <1>1 DEF Block
  <2> QED  BY <1>1, <2>1, <2>2 DEF IInv, TypeOK
<1>3. StackHoldsFreePages' /\ ListIsWhole'
  BY DEF StackHoldsFreePages, ListIsWhole
<1>4. Supply'
  <2>1. Left(fblock)' = 0
    BY <1>1 DEF Left, IInv, TypeOK
  <2>2. NoDonor'
    BY <2>1 DEF NoDonor
  <2> QED  BY <2>2 DEF IInv, Supply, NoNestedExtension, NeverPanics
<1> QED  BY <1>2, <1>3, <1>4 DEF IInv

LEMMA FreeKeeps ==
  ASSUME IInv, NEW b \in Block, NEW x \in PageOf(b), Free(b, x)
  PROVE  IInv'
<1>1. /\ status = "ok" /\ status' = "ok" /\ pending = <<>> /\ pending' = <<>>
      /\ <<b, x>> \in used /\ used' = used \ {<<b, x>>}
      /\ <<b, x>> \notin tables /\ UNCHANGED <<tables, mapping>> /\ got' = <<>>
  BY DEF Free
<1>2. CASE mapping = "cleared"
  <2>1. UNCHANGED <<stack, top, blocks, fblock, extended>>
    BY <1>2 DEF Free
  <2>2. TypeOK'
    BY <1>1, <2>1 DEF IInv, TypeOK
  <2>3. Supply'
    BY <1>1, <1>2, <2>1 DEF IInv, Supply, NoNestedExtension, NeverPanics, NoDonor, Left
  <2> QED
    BY <1>1, <1>2, <2>2, <2>3 DEF IInv, StackHoldsFreePages, ListIsWhole
<1>3. CASE mapping # "cleared"
  <2>1. /\ PushBack(b, x) /\ top' = [top EXCEPT ![b] = @ - 1] /\ Release(b)
        /\ extended' = IF MaxOf(fblock') - top'[fblock'] >= 3
                       THEN [extended EXCEPT ![fblock'] = FALSE] ELSE extended
    BY <1>3 DEF Free
  <2>2. UNCHANGED <<blocks, fblock>>
    BY <2>1, PageHeapAssumption DEF Release, SizeOf
  <2>3. /\ top' \in [Block -> Nat]
        /\ \A c \in Block : top'[c] \in SlotRes(c) .. MaxOf(c)
        /\ Left(b)' = Left(b) + 1 /\ \A c \in Block \ {b} : Left(c)' = Left(c)
        /\ DOMAIN stack' = Block
        /\ \A c \in Block : stack'[c] \in [Idx(c) -> Idx(c)]
        /\ \A c \in blocks' : Exact(c)'
    BY <1>1, <1>3, <2>1, <2>2, FreeStep
  <2>4. /\ fblock \in Block /\ extended \in [Block -> BOOLEAN]
        /\ top \in [Block -> Nat] /\ MaxOf(fblock) \in Nat
    BY BlockLayout DEF IInv, TypeOK
  <2>5. /\ extended' \in [Block -> BOOLEAN]
        /\ ~extended[fblock] /\ ~extended'[fblock]
    BY <1>1, <1>3, <2>1, <2>2, <2>4 DEF IInv, Supply
  <2>6. TypeOK'
    BY <1>1, <2>2, <2>3, <2>5 DEF IInv, TypeOK
  <2>7. StackHoldsFreePages'
    BY <2>3, ExactBlocksNext
  <2>8. ListIsWhole'
    BY <1>1, <2>2 DEF IInv, ListIsWhole
  <2>9. Supply'
    <3>1. Left(fblock) >= 3 /\ Left(fblock) \in Int
      BY <1>1, <1>3, <2>4, <2>5 DEF IInv, Supply, Left
    <3>2. Left(fblock)' >= 3
      <4>1. CASE fblock = b
        BY <2>2, <2>3, <3>1, <4>1
      <4>2. CASE fblock # b
        <5>1. fblock \in Block \ {b}
          BY <2>4, <4>2
        <5>2. Left(fblock)' = Left(fblock)
          BY <2>2, <2>3, <5>1 DEF Left
        <5> QED  BY <3>1, <5>2
      <4> QED  BY <4>1, <4>2
    <3> QED
      BY <1>1, <1>3, <2>2, <2>5, <3>2 DEF IInv, Supply, NoNestedExtension, NeverPanics, Left
  <2> QED  BY <2>6, <2>7, <2>8, <2>9 DEF IInv
<1> QED  BY <1>2, <1>3

LEMMA NextIInv == IInv /\ [Next]_vars => IInv'
<1> SUFFICES ASSUME IInv, [Next]_vars PROVE IInv'
  OBVIOUS
<1>1. CASE UNCHANGED vars
  BY <1>1 DEF vars, IInv, TypeOK, StackHoldsFreePages, FreeOf, ListIsWhole, Supply,
     NoNestedExtension, NeverPanics, NoDonor, Left
<1> QED
  BY <1>1, AllocKeeps, AllocInMappingKeeps, AllocTableKeeps, AddBlockKeeps,
     ClearKeeps, FreeKeeps DEF Next

LEMMA Invariant == Spec => []IInv
<1> QED  BY InitIInv, NextIInv, PTL DEF Spec
-----------------------------------------------------------------------------
(* Every block is what its header, its stack and the pages given out of it *)
(* say, in any order of k_pageobj_alloc, k_pageobj_free and extensions: no *)
(* page has two users, none lies over a header or a stack, and no          *)
(* extension starts inside another.                                        *)
THEOREM BlocksCorrect == Spec => []BlocksAreSound
<1>1. IInv => PagesClearOfHeader
  <2> SUFFICES ASSUME IInv, NEW p \in used
               PROVE  /\ HeaderSize + 8 * MaxOf(p[1]) <= BSize + p[2] * BSize
                      /\ BSize + p[2] * BSize + BSize <= SizeOf(p[1])
    BY DEF PagesClearOfHeader
  <2>1. PICK b \in Block : \E x \in PageOf(b) : p = <<b, x>>
    BY DEF IInv, TypeOK, Page
  <2>2. PICK x \in PageOf(b) : p = <<b, x>>
    BY <2>1
  <2>3. /\ MaxOf(b) \in Nat /\ SlotRes(b) \in Nat
        /\ 8 * MaxOf(b) <= SlotRes(b) * BSize
        /\ MaxOf(b) * BSize + BSize <= SizeOf(b)
    BY BlockLayout
  <2>4. /\ x \in Nat /\ SlotRes(b) <= x /\ x + 1 <= MaxOf(b)
    BY <2>3 DEF PageOf
  <2>5. /\ BSize \in Nat /\ HeaderSize <= BSize /\ HeaderSize \in Nat
        /\ SizeOf(b) \in Nat
    BY PageHeapAssumption DEF HeaderSize, SizeOf
  <2>6. SlotRes(b) * BSize <= x * BSize
    BY <2>3, <2>4, <2>5, TimesMonotone
  <2>7. (x + 1) * BSize <= MaxOf(b) * BSize /\ (x + 1) * BSize = x * BSize + BSize
    BY <2>3, <2>4, <2>5, TimesMonotone
  <2>8. /\ SlotRes(b) * BSize \in Nat /\ x * BSize \in Nat /\ MaxOf(b) * BSize \in Nat
    BY <2>3, <2>4, <2>5
  <2>9. /\ HeaderSize + 8 * MaxOf(b) <= BSize + x * BSize
        /\ BSize + x * BSize + BSize <= SizeOf(b)
    BY <2>3, <2>5, <2>6, <2>7, <2>8
  <2> QED  BY <2>2, <2>9
<1>2. IInv => TypeOK /\ StackHoldsFreePages /\ NoNestedExtension
  BY DEF IInv, Supply
<1> QED  BY <1>1, <1>2, Invariant, PTL DEF BlocksAreSound

(* The extension that starts with two pages left always has the page       *)
(* tables it needs, so that "SOMEHOW RAN OUT OF RAM!" is reached only when *)
(* a mapping cleared the list.                                             *)
THEOREM PanicCorrect == Spec => []NeverPanics
<1>1. IInv => NeverPanics
  BY DEF IInv, Supply
<1> QED  BY <1>1, Invariant, PTL
-----------------------------------------------------------------------------
(***************************************************************************)
(* The heap implements PagePool, action by action.                         *)
(***************************************************************************)
LEMMA PoolInit == Init => Pool!Init
BY DEF Init, Pool!Init

LEMMA PoolTake ==
  ASSUME IInv, mapping # "cleared", mapping' \in {"none", "taken"},
         NEW b \in Block, IsDonor(b), NEW rest, Take(b, rest)
  PROVE  Pool!Alloc
<1>1. /\ got' \in Page \ used /\ got'[1] = b
      /\ used' = used \cup {got'} /\ UNCHANGED blocks /\ b \in blocks
  BY TakeStep DEF Take, IsDonor
<1> QED  BY <1>1 DEF Pool!Alloc

LEMMA PoolStep ==
  IInv /\ [Next]_vars =>
    [Pool!Next]_<<IF mapping = "cleared" THEN {} ELSE {p \in Page : p[1] \in blocks},
                  used, got>>
<1> SUFFICES ASSUME IInv, Next PROVE Pool!Next
  BY DEF vars
<1> USE DEF Pool!Next
<1>1. mapping \in {"none", "taken", "cleared"}
  BY DEF IInv, TypeOK
<1>2. ASSUME Panic PROVE Pool!Next
  BY <1>2 DEF Panic, Pool!Grow
<1>3. CASE Alloc
  <2>1. CASE NoDonor
    BY <1>2, <1>3, <2>1 DEF Alloc
  <2>2. CASE ~NoDonor
    <3>1. mapping # "cleared"
      BY <2>2 DEF IInv, Supply
    <3> QED  BY <1>1, <1>3, <2>2, <3>1, PoolTake DEF Alloc
  <2> QED  BY <2>1, <2>2
<1>4. CASE AllocInMapping
  <2>1. PICK b \in Block : IsDonor(b) /\ Take(b, <<>>) /\ mapping' \in {mapping, "taken"}
    BY <1>4 DEF AllocInMapping
  <2> QED  BY <1>1, <1>4, <2>1, PoolTake DEF AllocInMapping
<1>5. CASE AllocTable
  <2>1. CASE NoDonor
    BY <1>2, <1>5, <2>1 DEF AllocTable
  <2>2. CASE ~NoDonor
    <3>1. mapping # "cleared"
      BY <2>2 DEF IInv, Supply
    <3> QED  BY <1>1, <1>5, <2>2, <3>1, PoolTake DEF AllocTable
  <2> QED  BY <2>1, <2>2
<1>6. CASE AddBlock
  BY <1>6 DEF AddBlock, Pool!Grow
<1>7. CASE Clear
  BY <1>7 DEF Clear, Pool!Collapse
<1>8. ASSUME NEW b \in Block, NEW x \in PageOf(b), Free(b, x)
      PROVE  Pool!Free
  <2>1. /\ <<b, x>> \in used /\ used' = used \ {<<b, x>>} /\ got' = <<>>
        /\ UNCHANGED mapping
    BY <1>8 DEF Free
  <2>2. UNCHANGED blocks
    BY <1>8, PageHeapAssumption DEF Free, Release, SizeOf
  <2> QED  BY <2>1, <2>2 DEF Pool!Free
<1> QED
  BY <1>3, <1>4, <1>5, <1>6, <1>7, <1>8 DEF Next

(* Each page k_pageobj_alloc returns was nobody's, and a page stays with   *)
(* its user until k_pageobj_free, for every number of blocks.              *)
THEOREM HeapImplementsPool == Spec => ImplementsPool
<1> QED  BY Invariant, PoolInit, PoolStep, PTL DEF Spec, ImplementsPool, Pool!Spec
=============================================================================
