----------------------------- MODULE MCObjHeap -----------------------------
(***************************************************************************)
(* Model checking of module ObjHeap with small sizes.  A page holds one    *)
(* small object; a large one needs a major of two pages, which later holds *)
(* three small objects, or a large and a small one.                        *)
(***************************************************************************)
EXTENDS ObjHeap
=============================================================================
