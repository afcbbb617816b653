------------------------------ MODULE PageHeap ------------------------------
(***************************************************************************)
(* The page heap of src/src/pageobj_heap.c: 4 KiB pages for page tables    *)
(* and device queues.  A block starts with a header and a stack of the     *)
(* offsets of its pages; stack[top .. max-1] are the free ones.            *)
(*                                                                         *)
(* An allocation that leaves few pages in a block maps a new block.  The   *)
(* mapping needs page tables, so page_find_and_alloc calls                 *)
(* k_pageobj_alloc again before the new block is there: each of these      *)
(* calls is a step.  An allocation that does not extend the heap, and a    *)
(* free, run with interrupts off and are one step.                         *)
(*                                                                         *)
(* A call can itself come from a mapping: page_alloc_tab and page_alloc    *)
(* take a table for a frame that they mark only afterwards.  An extension  *)
(* that such a call starts finds the same frame free, makes the new block  *)
(* of it, and the mapping then clears the memory that the block begins in. *)
(*                                                                         *)
(* Blocks are numbered as they are added; the list has the newest first.   *)
(***************************************************************************)
EXTENDS Naturals, Sequences

CONSTANTS
  BSize,       \* bytes of a page (4096)
  FirstSize,   \* bytes of the first block (0x800000)
  ExtSize,     \* bytes of the other blocks (0x400000)
  MaxBlocks    \* bound: blocks for which there is memory

HeaderSize  == 32         \* sizeof(KHEAPBLOCKSS)
MaxTables   == 2          \* page tables that mapping two pages can need
ReleaseSize == 33554432   \* size of the blocks that are given back
ReleaseTop  == 16         \* their top when all their pages are free

(* A block holds its header, its stack and a few pages; as in the code, no *)
(* block has the size of those that are given back.                        *)
ASSUME PageHeapAssumption ==
  /\ BSize \in Nat /\ BSize >= HeaderSize
  /\ FirstSize \in Nat /\ ExtSize \in Nat
  /\ FirstSize >= 8 * BSize /\ ExtSize >= 8 * BSize
  /\ ReleaseSize \notin {FirstSize, ExtSize}
  /\ MaxBlocks \in Nat \ {0}

Block == 1 .. MaxBlocks

SizeOf(b) == IF b = 1 THEN FirstSize ELSE ExtSize
MaxOf(b)  == (SizeOf(b) - BSize) \div BSize

(* The slots of the stack that are never used, because the stack itself    *)
(* lies where their pages would be (fault injection: rounded down).        *)
SlotResDown(b) == (8 * MaxOf(b)) \div BSize

SlotRes(b) ==
  LET stacksz == 8 * MaxOf(b)
      whole   == stacksz \div BSize
  IN  IF whole * BSize < stacksz THEN whole + 1 ELSE whole

Idx(b)    == 0 .. MaxOf(b) - 1
PageOf(b) == SlotRes(b) .. MaxOf(b) - 1         \* the pages of block b

VARIABLES
  blocks,      \* the blocks in the list
  fblock,      \* the first of them, which is the newest
  top, extended, stack,
  used,        \* the pages in use, as <<block, number>>
  tables,      \* those of them that are kernel page tables
  pending,     \* page tables that the extensions under way still need
  mapping,     \* "taken": a mapping has the first frame of the newest block;
               \* "cleared": and has cleared it, with the block's header
  got,         \* the page the last step returned, <<>> if it returned none
  status       \* "ok", "panic" (no page left) or "noFrames"

vars == <<blocks, fblock, top, extended, stack, used, tables, pending, mapping,
          got, status>>

(* The stack as k_pageobj_add_heapblk fills it. *)
FreshStack(b) == [i \in Idx(b) |-> IF i >= SlotRes(b) THEN i ELSE 0]

Init ==
  /\ blocks = {1}
  /\ fblock = 1
  /\ top = [b \in Block |-> SlotRes(b)]
  /\ extended = [b \in Block |-> FALSE]
  /\ stack = [b \in Block |-> FreshStack(b)]
  /\ used = {}
  /\ tables = {}
  /\ pending = <<>>
  /\ mapping = "none"
  /\ got = <<>>
  /\ status = "ok"

Left(b) == MaxOf(b) - top[b]

(* The block k_pageobj_alloc takes a page from: the newest that has one.   *)
IsDonor(b) ==
  /\ b \in blocks
  /\ Left(b) # 0
  /\ \A c \in blocks : c > b => Left(c) = 0

NoDonor == \A b \in blocks : Left(b) = 0

(* An extension that starts late (fault injection).                        *)
RunsLowLate(b) == Left(b) = 1 /\ ~extended[b]

(* The page just taken leaves fewer than three. *)
RunsLow(b) == Left(b) - 1 < 3 /\ ~extended[b]

Mark(b) == extended' = [extended EXCEPT ![b] = TRUE]

(* The extension starts: page_find_and_alloc finds two frames and needs    *)
(* up to MaxTables page tables, or finds no memory and loops for ever.     *)
StartExtension(b, rest) ==
  /\ Mark(b)
  /\ IF fblock + Len(pending) < MaxBlocks
     THEN /\ \E n \in 0 .. MaxTables : pending' = <<n>> \o rest
          /\ UNCHANGED status
     ELSE /\ pending' = rest
          /\ status' = "noFrames"

(* k_pageobj_alloc up to its return or to the call of page_find_and_alloc; *)
(* rest is what the calls around it still need.                            *)
Take(b, rest) ==
  /\ top' = [top EXCEPT ![b] = @ + 1]
  /\ got' = <<b, stack[b][top[b]]>>
  /\ used' = used \cup {got'}
  /\ IF RunsLow(b)
     THEN StartExtension(b, rest)
     ELSE pending' = rest /\ UNCHANGED <<extended, status>>
  /\ UNCHANGED <<blocks, fblock, stack>>

(* No block has a page: "SOMEHOW RAN OUT OF RAM!", or the header of the    *)
(* first one is zero: "ZERO FILLED ENTIRE RAM".  The machine stops.        *)
Panic ==
  /\ status' = "panic"
  /\ got' = <<>>
  /\ UNCHANGED <<blocks, fblock, top, extended, stack, used, tables, pending,
                 mapping>>

(* Nothing but the mapping goes on while it has the new block's frame.     *)
Alloc ==
  /\ status = "ok"
  /\ pending = <<>> /\ mapping # "taken"
  /\ IF NoDonor
     THEN Panic
     ELSE \E b \in Block : IsDonor(b) /\ Take(b, <<>>) /\ UNCHANGED <<tables, mapping>>

(* A mapping takes a page table.  If that extends the heap, the block will *)
(* begin in the frame that the mapping is for; the mapping's other tables  *)
(* do not extend it again.                                                 *)
AllocInMapping ==
  /\ status = "ok"
  /\ pending = <<>> /\ mapping # "cleared" /\ ~NoDonor
  /\ \E b \in Block :
       /\ IsDonor(b)
       /\ Take(b, <<>>)
       /\ UNCHANGED tables
       /\ \/ ~RunsLow(b) /\ UNCHANGED mapping
          \/ RunsLow(b) /\ mapping = "none" /\ mapping' = "taken"

(* The memory test of the mapping writes the frame, and mem_set clears it: *)
(* the header says that the list ends here, with a block of size 0.        *)
Clear ==
  /\ status = "ok"
  /\ pending = <<>> /\ mapping = "taken"
  /\ mapping' = "cleared"
  /\ blocks' = {fblock}
  /\ top' = [top EXCEPT ![fblock] = MaxOf(fblock)]
  /\ got' = <<>>
  /\ UNCHANGED <<fblock, extended, stack, used, tables, pending, status>>

(* The mapping of the new block takes a page table. *)
AllocTable ==
  /\ status = "ok"
  /\ pending # <<>> /\ pending[1] > 0
  /\ IF NoDonor
     THEN Panic
     ELSE \E b \in Block :
            /\ IsDonor(b)
            /\ Take(b, [pending EXCEPT ![1] = @ - 1])
            /\ tables' = tables \cup {got'}
            /\ UNCHANGED mapping

(* The new block is mapped and becomes the first of the list. *)
AddBlock ==
  /\ status = "ok"
  /\ pending # <<>> /\ pending[1] = 0
  /\ pending' = Tail(pending)
  /\ got' = <<>>
  /\ fblock' = fblock + 1
  /\ blocks' = blocks \cup {fblock'}
  /\ top' = [top EXCEPT ![fblock + 1] = SlotRes(fblock + 1)]
  /\ extended' = [extended EXCEPT ![fblock + 1] = FALSE]
  /\ stack' = [stack EXCEPT ![fblock + 1] = FreshStack(fblock + 1)]
  /\ UNCHANGED <<used, tables, mapping, status>>

(* The block goes back to page_free_found when all its pages are free.     *)
Release(b) ==
  IF SizeOf(b) = ReleaseSize /\ top'[b] = ReleaseTop
  THEN /\ blocks' = blocks \ {b}
       /\ fblock' \in blocks'
       /\ \A c \in blocks' : c <= fblock'
  ELSE UNCHANGED <<blocks, fblock>>

(* A page that is put above the top (fault injection). *)
PushAbove(b, x) == stack' = [stack EXCEPT ![b][top[b]] = x]

PushBack(b, x) == stack' = [stack EXCEPT ![b][top[b] - 1] = x]

(* k_pageobj_free of a page its caller owns.  The flag that may be cleared *)
(* is that of the first block, whichever block the page belongs to.  When  *)
(* the list was cleared no block has the page: "B IS NULL".                *)
Free(b, x) ==
  /\ status = "ok"
  /\ pending = <<>> /\ mapping # "taken"
  /\ <<b, x>> \in used \ tables
  /\ used' = used \ {<<b, x>>}
  /\ got' = <<>>
  /\ \/ /\ mapping = "cleared"
        /\ UNCHANGED <<stack, top, blocks, fblock, extended>>
     \/ /\ mapping = "none"
        /\ PushBack(b, x)
        /\ top' = [top EXCEPT ![b] = @ - 1]
        /\ Release(b)
        /\ extended' = IF MaxOf(fblock') - top'[fblock'] >= 3
                       THEN [extended EXCEPT ![fblock'] = FALSE] ELSE extended
  /\ UNCHANGED <<tables, pending, mapping, status>>

Next ==
  \/ Alloc \/ AllocInMapping \/ AllocTable \/ AddBlock \/ Clear
  \/ \E b \in Block : \E x \in PageOf(b) : Free(b, x)

Spec == Init /\ [][Next]_vars
-----------------------------------------------------------------------------
Page == UNION {{b} \X PageOf(b) : b \in Block}

TypeOK ==
  /\ blocks \subseteq Block
  /\ fblock \in blocks
  /\ \A b \in blocks : b <= fblock
  /\ top \in [Block -> Nat]
  /\ \A b \in Block : top[b] \in SlotRes(b) .. MaxOf(b)
  /\ extended \in [Block -> BOOLEAN]
  /\ DOMAIN stack = Block
  /\ \A b \in Block : stack[b] \in [Idx(b) -> Idx(b)]
  /\ used \subseteq Page
  /\ tables \subseteq used
  /\ pending \in Seq(0 .. MaxTables)
  /\ mapping \in {"none", "taken", "cleared"}
  /\ got \in Page \cup {<<>>}
  /\ status \in {"ok", "panic", "noFrames"}

(* In every block of the list the entries from top on are the pages nobody *)
(* has, each of them once, whatever the order of allocations, frees and    *)
(* extensions (src/src/pageobj_heap.c:84,158), until the list is cleared.  *)
FreeOf(b) == {x \in PageOf(b) : <<b, x>> \notin used}

StackHoldsFreePages ==
  mapping # "cleared" => \A b \in blocks :
    /\ {stack[b][i] : i \in top[b] .. MaxOf(b) - 1} = FreeOf(b)
    /\ \A i, j \in top[b] .. MaxOf(b) - 1 :
         stack[b][i] = stack[b][j] => i = j

(* A page in use lies inside its block and behind the block's header and   *)
(* stack (src/src/pageobj_heap.c:40-54,86).                                *)
PagesClearOfHeader ==
  \A p \in used :
    /\ HeaderSize + 8 * MaxOf(p[1]) <= BSize + p[2] * BSize
    /\ BSize + p[2] * BSize + BSize <= SizeOf(p[1])

(* The calls made by an extension never start another one                  *)
(* (src/src/pageobj_heap.c:88-93).                                         *)
NoNestedExtension == Len(pending) <= 1

(* Together: every block is what its header, its stack and the pages given *)
(* out of it say, also while an extension is under way.                    *)
BlocksAreSound == TypeOK /\ StackHoldsFreePages /\ PagesClearOfHeader /\ NoNestedExtension

(* The heap never runs out of pages while there is memory for one more     *)
(* block (src/src/pageobj_heap.c:112-125), unless it extended itself in    *)
(* the middle of a mapping, which then cleared its list.                   *)
NeverPanics == status = "panic" => mapping = "cleared"

(* The heap hands out each page to one user at a time, and loses none that *)
(* it did not hand out but with its list.                                  *)
Pool == INSTANCE PagePool WITH
  Page   <- Page,
  NoPage <- <<>>,
  pool   <- IF mapping = "cleared" THEN {} ELSE {p \in Page : p[1] \in blocks},
  taken  <- used

ImplementsPool == Pool!Spec
=============================================================================
