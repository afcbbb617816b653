---------------------------- MODULE FrameOwners ----------------------------
(***************************************************************************)
(* What the page allocator promises: every frame of memory is free or has  *)
(* one owner, the kernel or a task, and passes from one owner to another   *)
(* only after it was free.  A task may lose a frame: then nobody has it.   *)
(***************************************************************************)
CONSTANTS
  Frame,
  Owner,       \* who can own a frame
  Free, Lost   \* what else a frame can be

VARIABLE owner

Init == owner \in [Frame -> Owner \cup {Free}]

(* What o gets was free; what it gives up becomes free or is lost.  The    *)
(* frames of all the others stay as they are.                              *)
Change(o) ==
  /\ owner' \in [Frame -> Owner \cup {Free, Lost}]
  /\ \A f \in Frame :
       \/ owner'[f] = owner[f]
       \/ owner[f] = Free /\ owner'[f] = o
       \/ owner[f] = o /\ owner'[f] \in {Free, Lost}

Next == \E o \in Owner : Change(o)

Spec == Init /\ [][Next]_owner
=============================================================================
