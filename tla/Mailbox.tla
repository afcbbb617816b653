------------------------------ MODULE Mailbox ------------------------------
(***************************************************************************)
(* What the message queues of src/src/tasks.c promise their users, with no *)
(* ring, index or scheduler in sight: one box per task, opened when the    *)
(* task is created and closed when it is reaped, that hands messages out   *)
(* in the order in which they came in.                                     *)
(*                                                                         *)
(* The box is exact about its one limit.  A box of Capacity slots keeps at *)
(* most Capacity - 1 messages: the deposit that would fill the last slot   *)
(* makes the box read as empty, and what it held is lost.  Module Tasks    *)
(* implements this specification.                                          *)
(***************************************************************************)
EXTENDS Naturals, Sequences

CONSTANTS
  Owner,     \* the tasks that may own a box (their tids)
  Message,   \* the messages
  Capacity   \* the number of slots of a box

VARIABLES
  open,      \* the tasks whose box exists
  box        \* box[p]: what p would read if nothing more came in

boxVars == <<open, box>>

Init ==
  /\ open \in SUBSET Owner
  /\ box = [p \in Owner |-> <<>>]

(* A new task starts with an empty box. *)
Open(p) ==
  /\ p \notin open
  /\ open' = open \cup {p}
  /\ box' = [box EXCEPT ![p] = <<>>]

(* A reaped task's box goes away with whatever is in it. *)
Close(p) ==
  /\ p \in open
  /\ open' = open \ {p}
  /\ box' = box

Deposit(p, m) ==
  /\ p \in open
  /\ box' = [box EXCEPT ![p] =
               IF Len(@) = Capacity - 1 THEN <<>> ELSE Append(@, m)]
  /\ open' = open

Withdraw(p) ==
  /\ p \in open
  /\ box[p] # <<>>
  /\ box' = [box EXCEPT ![p] = Tail(@)]
  /\ open' = open

Next ==
  \E p \in Owner :
    \/ Open(p)
    \/ Close(p)
    \/ Withdraw(p)
    \/ \E m \in Message : Deposit(p, m)

Spec == Init /\ [][Next]_boxVars
=============================================================================
