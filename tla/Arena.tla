------------------------------- MODULE Arena -------------------------------
(***************************************************************************)
(* What the kernel relies on when it calls k_obj_alloc, k_obj_realloc and  *)
(* k_obj_free (src/src/obj_heap.c): the memory of an object is its own     *)
(* from the call that returns it to the call that gives it back.           *)
(***************************************************************************)
EXTENDS Naturals

CONSTANTS
  Region,    \* the regions of memory objects can lie in
  Request    \* the sizes that are asked for

VARIABLE objects     \* the objects: region, first byte, number of bytes

Object == [maj : Region, at : Nat, req : Request]

Disjoint(o, p) ==
  o.maj # p.maj \/ o.at + o.req <= p.at \/ p.at + p.req <= o.at

Init == objects = {}

Alloc == \E o \in objects' \ objects :
  /\ o \in Object
  /\ \A p \in objects : Disjoint(o, p)
  /\ objects' = objects \cup {o}

Free == \E o \in objects : objects' = objects \ {o}

(* k_obj_realloc to a size that is not larger. *)
Shrink == \E o \in objects, r \in Request :
  /\ r <= o.req
  /\ objects' = (objects \ {o}) \cup {[o EXCEPT !.req = r]}

Next == Alloc \/ Free \/ Shrink

Spec == Init /\ [][Next]_objects
=============================================================================
