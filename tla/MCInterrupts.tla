---------------------------- MODULE MCInterrupts ----------------------------
(* Three tasks and sleeps of up to two ticks: a task can sleep, another be *)
(* in its exit stub and a third overwrite what the stubs share.            *)
EXTENDS Interrupts
=============================================================================
