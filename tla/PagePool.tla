------------------------------ MODULE PagePool ------------------------------
(***************************************************************************)
(* What the users of k_pageobj_alloc and k_pageobj_free                    *)
(* (src/src/pageobj_heap.c) rely on: an allocation returns a page that     *)
(* nobody has, a page that was returned can be handed out again, and the   *)
(* heap only grows, until it is lost as a whole.                           *)
(***************************************************************************)
CONSTANTS
  Page,      \* the pages there can be
  NoPage     \* what a step returns that is not an allocation

VARIABLES
  pool,      \* the pages of the heap
  taken,     \* the pages that somebody has
  got        \* what the last step returned

Init ==
  /\ pool \subseteq Page
  /\ taken = {}
  /\ got = NoPage

Alloc == \E p \in pool \ taken :
  /\ taken' = taken \cup {p}
  /\ got' = p
  /\ UNCHANGED pool

Free == \E p \in taken :
  /\ taken' = taken \ {p}
  /\ got' = NoPage
  /\ UNCHANGED pool

Grow ==
  /\ pool \subseteq pool'
  /\ pool' \subseteq Page
  /\ got' = NoPage
  /\ UNCHANGED taken

Collapse ==
  /\ pool' = {}
  /\ got' = NoPage
  /\ UNCHANGED taken

Next == Alloc \/ Free \/ Grow \/ Collapse

Spec == Init /\ [][Next]_<<pool, taken, got>>
=============================================================================
