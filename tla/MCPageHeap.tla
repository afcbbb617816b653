----------------------------- MODULE MCPageHeap -----------------------------
(***************************************************************************)
(* Model checking of module PageHeap with blocks of a few 32-byte pages,   *)
(* so that extensions are reached after a few allocations.                 *)
(***************************************************************************)
EXTENDS PageHeap
=============================================================================
