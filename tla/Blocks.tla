------------------------------- MODULE Blocks -------------------------------
(***************************************************************************)
(* What a program relies on when it calls malloc and its relatives         *)
(* (src/hagen/src/malloc.c): the words of a block are its own from the     *)
(* call that returns it to the call that gives it back, and a call changes *)
(* no block it was not given.                                              *)
(***************************************************************************)
EXTENDS Integers

VARIABLE blocks     \* the blocks: chunk address in units of two words, words asked for

(* The words of a block: behind the header of its chunk. *)
WordsOf(b) == 2 * (b.at + 1)..2 * (b.at + 1) + b.req - 1

Apart(bs) == \A b, c \in bs : b # c => b.at # c.at /\ WordsOf(b) \cap WordsOf(c) = {}

Init == blocks = {}

(* malloc, calloc, memalign; the independent_ calls make several blocks. *)
Alloc == blocks \subseteq blocks' /\ Apart(blocks')

Free == blocks' \subseteq blocks

(* realloc: one block is given back for another, in place or elsewhere. *)
Resize == \E b \in blocks :
  \E c \in blocks' : blocks' = (blocks \ {b}) \cup {c} /\ Apart(blocks')

Next == Alloc \/ Free \/ Resize

Spec == Init /\ [][Next]_blocks
=============================================================================
