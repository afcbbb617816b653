----------------------------- MODULE MCKeyboard -----------------------------
(***************************************************************************)
(* Model checking of module Keyboard.  The buffer has 2 slots, so that     *)
(* a few key strokes wrap it; MaxEvents bounds the strokes.                *)
(***************************************************************************)
EXTENDS Keyboard, TLC

=============================================================================
