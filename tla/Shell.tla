------------------------------- MODULE Shell -------------------------------
(***************************************************************************)
(* The shell, src/posh/main.c: it reads keys, edits a line, cuts it into   *)
(* words with strtok_r and runs them, a command and an argument at a time. *)
(* All it shows goes to the console.                                       *)
(*                                                                         *)
(* A word that begins with a dot or a slash is a program to spawn; what    *)
(* another word names (exit, reboot, cd, ls or nothing) is left open, as   *)
(* are the results of the system calls, and a message is one character.    *)
(***************************************************************************)
EXTENDS Console, FiniteSets

CONSTANTS
  Keys,       \* what kb_read returns: characters, 0 for a key without one
  BufSize,    \* the bytes of buffer (128)
  MaxKeys,    \* bound: keys pressed in all
  Longest     \* bound: the longest copy CopiesAreExact tries

ASSUME ShellAssumption == BufSize \in Nat \ {0} /\ MaxKeys \in Nat /\ Longest \in Nat

VARIABLES
  buffer, b_idx, saveptr,
  tok, dir,   \* the command and its argument
  pc,
  keys,       \* keys pressed
  typed,      \* history: the line as edited by the user
  last,       \* history: the last key
  line,       \* history: the last line entered
  ran,        \* history: the commands run from it, each with its argument
  cut,        \* history: the rest of the line was given up
  said        \* history: all that was printed

shellVars == <<buffer, b_idx, saveptr, tok, dir, pc>>
vars == <<screen, drawn, shellVars, keys, typed, last, line, ran, cut, said>>

Slash == 47
Sharp == 35
Excl  == 33
DotDir == <<46, Slash>>

(* line: waits for a key; next: at the head of the loop over the words;    *)
(* run: has a command; child: waits for the notice of a program; hung: in  *)
(* strspn for ever; lost: read through the null pointer; gone: exit.       *)
Pc == {"line", "next", "run", "child", "hung", "lost", "gone"}

Empty == [i \in 0 .. BufSize - 1 |-> NUL]

Puts(str) == DrawString(str) /\ said' = said \o Shown(str)
Silent == UNCHANGED <<screen, drawn, said>>

(* The top of the main loop: the prompt, and an empty buffer. *)
Prompt(before) ==
  /\ Puts(before \o <<Sharp>>)
  /\ buffer' = Empty
  /\ b_idx' = 0
  /\ typed' = <<>>
  /\ last' = NEWLINE

Init ==
  /\ screen = AppendChar([text |-> Blank, x |-> 0, y |-> 0], Sharp)
  /\ drawn = screen.text
  /\ said = <<Sharp>>
  /\ buffer = Empty
  /\ b_idx = 0
  /\ saveptr = Null
  /\ tok = Null
  /\ dir = <<>>
  /\ pc = "line"
  /\ keys = 0
  /\ typed = <<>>
  /\ last = NEWLINE
  /\ line = <<>>
  /\ ran = <<>>
  /\ cut = FALSE
-----------------------------------------------------------------------------
Press(k) ==
  /\ pc = "line"
  /\ keys < MaxKeys
  /\ keys' = keys + 1
  /\ last' = k

(* Erasing that clears nothing (fault injection). *)
ErasedNothing == buffer

(* What a backspace makes of the buffer: it clears the byte behind the     *)
(* line, and then steps back.                                              *)
Erased == [buffer EXCEPT ![b_idx] = NUL]

Backspace ==
  /\ Press(BACKSPACE)
  /\ IF b_idx > 0
       THEN /\ Puts(<<BACKSPACE, SPACE, BACKSPACE>>)
            /\ buffer' = Erased
            /\ b_idx' = b_idx - 1
            /\ typed' = SubSeq(typed, 1, Len(typed) - 1)
       ELSE Silent /\ UNCHANGED <<buffer, b_idx, typed>>
  /\ UNCHANGED <<saveptr, tok, dir, pc, line, ran, cut>>

(* Lines fit in the buffer: nothing in the code sees to that. *)
Type(k) ==
  /\ k \notin {BACKSPACE, NEWLINE}
  /\ Press(k)
  /\ b_idx < BufSize - 1
  /\ Puts(<<k>>)
  /\ buffer' = [buffer EXCEPT ![b_idx] = k]
  /\ b_idx' = b_idx + 1
  /\ typed' = typed \o <<k>>
  /\ UNCHANGED <<saveptr, tok, dir, pc, line, ran, cut>>

EnterNothing ==
  /\ Press(NEWLINE)
  /\ b_idx = 0
  /\ Puts(<<NEWLINE, Sharp>>)
  /\ buffer' = Empty
  /\ UNCHANGED <<b_idx, saveptr, tok, dir, pc, typed, line, ran, cut>>

(* The first word of a line. *)
Enter ==
  /\ Press(NEWLINE)
  /\ b_idx > 0
  /\ Puts(<<NEWLINE>>)
  /\ LET r == StrTokR(buffer, 0, {SPACE}, Null) IN
       /\ buffer' = r.m
       /\ saveptr' = r.prev
       /\ tok' = r.tok
       /\ pc' = IF r.tok = Endless THEN "hung" ELSE "next"
  /\ line' = Str(buffer, 0)
  /\ ran' = <<>>
  /\ cut' = FALSE
  /\ UNCHANGED <<b_idx, dir, typed>>
-----------------------------------------------------------------------------
(* next_tok: strtok_r goes on where it left off. *)
NextTok == StrTokR(buffer, Null, {SPACE}, saveptr)

(* The argument: the next word, or "./".  A line without a word has no     *)
(* command either, and its first letter is read through a null pointer.    *)
Argument ==
  /\ pc = "next"
  /\ buffer' = NextTok.m
  /\ saveptr' = NextTok.prev
  /\ dir' = IF NextTok.tok = Null THEN DotDir
            ELSE IF NextTok.tok = Endless THEN <<>> ELSE Str(NextTok.m, NextTok.tok)
  /\ pc' = IF NextTok.tok = Endless THEN "hung"
           ELSE IF tok = Null THEN "lost" ELSE "run"
  /\ Silent
  /\ UNCHANGED <<b_idx, tok, keys, typed, last, line, ran, cut>>

Runs == ran' = ran \o <<<<Str(buffer, tok), dir>>>>

(* The end of a command that printed str: the next word, which is a        *)
(* command again, or the next line.                                        *)
Continue(str) ==
  /\ saveptr' = NextTok.prev
  /\ tok' = NextTok.tok
  /\ IF NextTok.tok = Null
       THEN pc' = "line" /\ Prompt(str)
       ELSE /\ pc' = IF NextTok.tok = Endless THEN "hung" ELSE "next"
            /\ Puts(str)
            /\ buffer' = NextTok.m
            /\ UNCHANGED <<b_idx, typed, last>>
  /\ UNCHANGED <<dir, keys, line>>

(* spawn_proc: it prints what spawn returned, and gives up ... *)
SpawnFails ==
  /\ pc = "run" /\ buffer[tok] = Slash
  /\ Runs
  /\ Continue(<<Excl, NEWLINE>>)
  /\ UNCHANGED cut

(* ... or waits for a message, which it takes for the notice of the end.   *)
SpawnProc ==
  /\ pc = "run" /\ buffer[tok] = Slash
  /\ Runs
  /\ pc' = "child"
  /\ Puts(<<Excl>>)
  /\ UNCHANGED <<buffer, b_idx, saveptr, tok, dir, keys, typed, last, line, cut>>

ChildDied ==
  /\ pc = "child"
  /\ \E str \in {<<>>, <<Excl, NEWLINE>>} : Continue(str)
  /\ UNCHANGED <<ran, cut>>

Exit ==
  /\ pc = "run" /\ buffer[tok] # Slash
  /\ Runs
  /\ pc' = "gone"
  /\ Silent
  /\ UNCHANGED <<buffer, b_idx, saveptr, tok, dir, keys, typed, last, line, cut>>

(* cd, and a word that is no command, print a line or nothing. *)
SmallCommand ==
  /\ pc = "run" /\ buffer[tok] # Slash
  /\ Runs
  /\ \E str \in {<<>>, <<Excl, NEWLINE>>} : Continue(str)
  /\ UNCHANGED cut

(* ls of a directory prints a line for each name; of anything else it      *)
(* leaves the loop over the words, and the rest of the line with it.       *)
Ls ==
  /\ pc = "run" /\ buffer[tok] # Slash
  /\ Runs
  /\ \/ \E n \in 0..2 :
          /\ Continue([i \in 1 .. 2 * n |-> IF i % 2 = 1 THEN Excl ELSE NEWLINE])
          /\ UNCHANGED cut
     \/ /\ Prompt(<<Excl, NEWLINE>>)
        /\ pc' = "line"
        /\ cut' = TRUE
        /\ UNCHANGED <<saveptr, tok, dir, keys, line>>

Next == \/ Backspace \/ EnterNothing \/ Enter \/ Argument
        \/ SpawnFails \/ SpawnProc \/ ChildDied \/ Exit \/ SmallCommand \/ Ls
        \/ \E k \in Keys : Type(k)

Spec == Init /\ [][Next]_vars
-----------------------------------------------------------------------------
(* What Enter would run is what was typed: the buffer holds the line as    *)
(* edited, and 0 behind it, except that the character erased last is still *)
(* there, until another is typed over it or erased.                        *)
LineIsWhatWasTyped ==
  pc = "line" =>
    /\ b_idx = Len(typed)
    /\ \A i \in 0 .. BufSize - 1 :
         buffer[i] = IF i < b_idx THEN typed[i + 1]
                     ELSE IF i = b_idx /\ last = BACKSPACE THEN buffer[i] ELSE NUL

(* The words of a line: its runs of characters that are no space. *)
Starts(l) == {i \in 1 .. Len(l) : l[i] # SPACE /\ (i = 1 \/ l[i - 1] = SPACE)}
WordAt(l, i) ==
  SubSeq(l, i, Least({j \in i .. Len(l) : j = Len(l) \/ l[j + 1] = SPACE}))
NthStart(l, n) ==
  CHOOSE i \in Starts(l) : Cardinality({j \in Starts(l) : j <= i}) = n
NthWord(l, n) ==
  IF n <= Cardinality(Starts(l)) THEN WordAt(l, NthStart(l, n)) ELSE DotDir
Commands(l) ==
  [n \in 1 .. (Cardinality(Starts(l)) + 1) \div 2 |->
     <<NthWord(l, 2 * n - 1), NthWord(l, 2 * n)>>]

(* The commands run are those of the line, in order, each with the word    *)
(* behind it, although strtok_r cuts the line in place while its words are *)
(* in use; and all of them, unless the line was given up.  The shell hangs *)
(* only where a space follows a space or begins the line.                  *)
CommandsAreTheWords ==
  /\ Len(ran) <= Len(Commands(line))
  /\ ran = SubSeq(Commands(line), 1, Len(ran))
  /\ pc = "line" /\ ~cut => ran = Commands(line)
  /\ pc = "hung" => \E i \in 1 .. Len(line) :
                      line[i] = SPACE /\ (i = 1 \/ line[i - 1] = SPACE)

(* Together: what Enter runs is what was typed.                            *)
EnterRunsTheLine == LineIsWhatWasTyped /\ CommandsAreTheWords

(* The rows that the characters of str make, without a scroll: the rows so *)
(* far, and the column in the last of them.                                *)
NewRow(r) == [rows |-> r.rows \o <<[i \in 1..tw |-> NUL]>>, x |-> 0]

WithChar(r, c) ==
  LET at == IF r.x \in 0 .. tw - 1 THEN r ELSE NewRow(r)
  IN  IF c = NEWLINE THEN NewRow(r)
      ELSE IF c = BACKSPACE THEN [r EXCEPT !.x = @ - 1]
      ELSE [at EXCEPT !.rows[Len(at.rows)][at.x + 1] = c, !.x = @ + 1]

RowsOf(str) ==
  LET After[i \in 0 .. Len(str)] ==
        IF i = 0 THEN [rows |-> <<[j \in 1..tw |-> NUL]>>, x |-> 0]
        ELSE WithChar(After[i - 1], str[i])
  IN  After[Len(str)]

(* The screen shows the last rows of all that was printed: scrolling by an *)
(* overlapping copy, wrapping, erasing, and drawing only what differs      *)
(* neither lose a row nor leave an old character.                          *)
ScreenIsTheTail ==
  LET r == RowsOf(said).rows
      first == IF Len(r) > th THEN Len(r) - th ELSE 0
  IN \A i \in Cells :
       drawn[i] = IF first + (i \div tw) + 1 > Len(r) THEN NUL
                  ELSE r[first + (i \div tw) + 1][(i % tw) + 1]

CopyIsExact(n, s, d) ==
  LET far == 4 + n + 4
      m == [a \in 0 .. 2 * far |-> a]
      Copied(to, from) ==
        [a \in DOMAIN m |-> IF a \in to .. to + n - 1 THEN a - to + from ELSE a]
  IN /\ MemCpy(m, far + d, s, n) = Copied(far + d, s)
     /\ MemCpy(m, d, 4 + s, n) = Copied(d, 4 + s)
     /\ MemMove(m, d, s, n) = Copied(d, s)
     /\ MemSet(m, 4 + s, -1, n) =
          [a \in DOMAIN m |-> IF a \in 4 + s .. 4 + s + n - 1 THEN -1 ELSE a]

AllCopiesAreExact == \A n \in 0 .. Longest, s, d \in 0..3 : CopyIsExact(n, s, d)

(* mem_cpy, with which the console scrolls, copies n bytes and no other    *)
(* for each alignment of source and destination, by bytes, words and       *)
(* shifted words, also onto a place that overlaps the source from below;   *)
(* mem_set fills n bytes and no other; memmove copies either way.  It is   *)
(* the same in every state: it is looked at in the first.                  *)
CopiesAreExact == keys = 0 => AllCopiesAreExact
=============================================================================
