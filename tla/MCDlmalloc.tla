----------------------------- MODULE MCDlmalloc -----------------------------
(***************************************************************************)
(* Model checking of module Dlmalloc with small sizes: a page of 10 units, *)
(* of which the end of a segment takes 5, and chunks of 4 units or more    *)
(* are large.                                                              *)
(***************************************************************************)
EXTENDS Dlmalloc

(* Two large blocks, of which one is mapped on its own, while others move  *)
(* the break and both ways to get memory fail; and three blocks of small   *)
(* sizes in a break that ends soon, under a footprint limit.               *)
MCWorlds ==
  {[words |-> {6, 16}, limits |-> {},   brkEnd |-> 35, mapEnd |-> 70, blocks |-> 2, foreign |-> 1],
   [words |-> {2, 4},  limits |-> {10}, brkEnd |-> 30, mapEnd |-> 50, blocks |-> 3, foreign |-> 0]}
=============================================================================
