------------------------------ MODULE Console ------------------------------
(***************************************************************************)
(* The text console of src/src/draw.c: a buffer of th rows of tw cells, a  *)
(* cursor, and a second buffer of what has been drawn.  The pixels of a    *)
(* character are not modelled.                                             *)
(***************************************************************************)
EXTENDS CStrings

CONSTANTS
  tw, th      \* columns and rows

ASSUME ConsoleAssumption == tw \in Nat \ {0} /\ th \in Nat \ {0}

VARIABLES
  screen,     \* text_buf, tcurx, tcury; -1 is a tcurx of 2^64 - 1
  drawn       \* text_buf_2: what the screen shows

BACKSPACE == 8
NEWLINE   == 10
SPACE     == 32

Cells == 0 .. tw * th - 1
Blank == [i \in Cells |-> NUL]

(* draw_setup *)
ConsoleInit ==
  /\ screen = [text |-> Blank, x |-> 0, y |-> 0]
  /\ drawn = Blank

(* A scroll that leaves the old last row (fault injection). *)
ScrollOnly(text) == MemCpy(text, 0, tw, tw * (th - 1))

(* draw_scroll_text_buf: one copy within the buffer, and an empty last row. *)
Scroll(text) == MemSet(MemCpy(text, 0, tw, tw * (th - 1)), tw * (th - 1), NUL, tw)

IncrementLine(s) ==
  IF s.y + 1 >= th THEN [s EXCEPT !.x = 0, !.text = Scroll(s.text)]
                   ELSE [s EXCEPT !.x = 0, !.y = s.y + 1]

(* draw_append_text_buf: a cursor moved back from column 0 is a very large *)
(* number, so the next character begins a new line.                        *)
AppendChar(s, c) ==
  LET room == IF s.x < 0 \/ s.x >= tw THEN IncrementLine(s) ELSE s
  IN CASE c = NUL       -> s
       [] c = BACKSPACE -> [s EXCEPT !.x = s.x - 1]
       [] c = NEWLINE   -> IncrementLine(s)
       [] OTHER         -> [room EXCEPT !.text[(tw * room.y) + room.x] = c,
                                        !.x = room.x + 1]

Appended(s, str) ==
  LET After[i \in 0 .. Len(str)] == IF i = 0 THEN s ELSE AppendChar(After[i - 1], str[i])
  IN  After[Len(str)]

(* draw_swap_textbuf draws the cells that differ. *)
Swap(text) ==
  drawn' = [i \in Cells |-> IF drawn[i] # text[i] THEN text[i] ELSE drawn[i]]

(* What draw_string_w_sz writes for str: a space for a 0. *)
Shown(str) == [i \in 1 .. Len(str) |-> IF str[i] = NUL THEN SPACE ELSE str[i]]

(* draw_string_w_sz, which is the system call to print. *)
DrawString(str) ==
  /\ screen' = Appended(screen, Shown(str))
  /\ Swap(screen'.text)
=============================================================================
