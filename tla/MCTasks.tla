------------------------------ MODULE MCTasks ------------------------------
(***************************************************************************)
(* Model checking of module Tasks.  MaxTid bounds the tasks ever created   *)
(* (the only unbounded counter); QSize stands for the 16 slots.            *)
(***************************************************************************)
EXTENDS Tasks
=============================================================================
