--------------------------------- MODULE Boot ----------------------------------
(***************************************************************************)
(* What the kernel takes from the boot loader's command line: krnl_main    *)
(* (src/src/krnl_main.c) with str_tok and str_to_uuid (src/src/klib.c).    *)
(* Done once, before there are tasks: only operators.                      *)
(*                                                                         *)
(* A machine's tags are what the boot loader gives, in order: [type, line] *)
(* with a line for a command line.  A line is a sequence of pieces: " ",   *)
(* the keys "root=" and "ruuid=", numbers, the texts of a uuid, or other.  *)
(* A uuid is the pair of its halves, the lower one first.                  *)
(*   res     [off, sz], as the stack has it before the first str_tok       *)
(***************************************************************************)
EXTENDS Integers, FiniteSetsExt, SequencesExt

CONSTANTS
  UuidTexts,    \* for each text of 32 characters its halves as numbers
  NumberTexts   \* for each text of digits its value

ZeroUuid == <<0, 0>>
InitInode == 5

(* The loop over the tags: of several command lines the last counts. *)
CmdLine(machine) ==
  FoldLeft(LAMBDA line, tag : IF tag.type = "cmdline" THEN tag.line ELSE line, <<>>, machine.tags)

(* What a line holds at an offset; behind it there are zeros. *)
CharAt(line, off) == IF off < Len(line) THEN line[off + 1] ELSE ""
Ends(line, off) == CharAt(line, off) \in {" ", ""}

(* The first end of a word at or after off. *)
NextEnd(line, off) == Min({i \in off..Max({off, Len(line)}) : Ends(line, i)})

(* Mutant: the delimiter is not skipped. *)
PastWordAtEnd(line, off) == NextEnd(line, off + 1)

(* Where a search that is not the first goes on. *)
PastWord(line, off) == NextEnd(line, off + 1) + 1

(* str_tok: a line that begins with a delimiter has a word of size 1 there. *)
StrTok(line, res) ==
  LET off == IF res.sz # 0 THEN PastWord(line, res.off) ELSE res.off IN
  IF res.off > Len(line) \/ line = <<>> THEN [off |-> 0, sz |-> 0]
  ELSE IF off = 0 /\ Ends(line, off) THEN [off |-> 0, sz |-> 1]
  ELSE IF off >= Len(line) THEN [off |-> 0, sz |-> 0]
  ELSE [off |-> off, sz |-> NextEnd(line, off + 1) - off]

(* str_to_uuid: 32 hexadecimal digits, then the halves change places. *)
StrToUuid(text) == <<UuidTexts[text][2], UuidTexts[text][1]>>

(* The two options, of the word at res. *)
RootInode0(line, res, inode) ==
  IF CharAt(line, res.off) # "root=" THEN inode
  ELSE IF Ends(line, res.off + 1) THEN 0 ELSE NumberTexts[CharAt(line, res.off + 1)]

RootUuid0(line, res, uuid) ==
  IF CharAt(line, res.off) = "ruuid=" /\ res.sz = 2 /\ CharAt(line, res.off + 1) \in DOMAIN UuidTexts
  THEN StrToUuid(CharAt(line, res.off + 1)) ELSE uuid

(* The loop over the words: what is chosen at the word at at.res, and the  *)
(* word it goes on with; a line of nothing is looked at once.  Each word   *)
(* begins behind the one before, so no more follow than the line has       *)
(* pieces.                                                                 *)
Look(line, at) ==
  [chosen |-> [inode |-> RootInode0(line, at.res, at.chosen.inode),
               uuid |-> RootUuid0(line, at.res, at.chosen.uuid)],
   res |-> StrTok(line, at.res)]

LookOn(line, at) == IF at.res.sz = 0 THEN at ELSE Look(line, at)

Options(line, first, default) ==
  LET looked[k \in 0..Len(line)] ==
        IF k = 0 THEN Look(line, [chosen |-> default, res |-> first]) ELSE LookOn(line, looked[k - 1])
  IN looked[Len(line)].chosen

Chosen(machine) ==
  LET line == CmdLine(machine) IN
  Options(line, StrTok(line, machine.res), [inode |-> InitInode, uuid |-> ZeroUuid])
-----------------------------------------------------------------------------
(* A line is of pieces, each with something in it; the stack holds any word. *)
LineIsSound(machine) ==
  CmdLine(machine) \in Seq(STRING \ {""}) /\ machine.res \in [off : Nat, sz : Nat]

(* A line the loop is made for: single delimiters, none at its beginning,  *)
(* and a stack that begins with a word at 0 or with none.                  *)
WellSpaced(machine) ==
  LET line == CmdLine(machine) IN
  /\ CharAt(line, 0) # " "
  /\ \A i \in 1..Len(line) - 1 : ~(line[i] = " " /\ line[i + 1] = " ")
  /\ machine.res.off > Len(line) \/ (machine.res.off = 0 /\ machine.res.sz = 0)

(* The words of a line that say ruuid=, and the uuid the last of them asks for. *)
UuidWords(line) ==
  {i \in 0..Len(line) - 1 :
     /\ CharAt(line, i) = "ruuid=" /\ (i = 0 \/ CharAt(line, i - 1) = " ")
     /\ CharAt(line, i + 1) \in DOMAIN UuidTexts /\ Ends(line, i + 2)}
AskedUuid(line) ==
  IF UuidWords(line) = {} THEN ZeroUuid ELSE StrToUuid(CharAt(line, Max(UuidWords(line)) + 1))
=============================================================================
