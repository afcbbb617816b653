----------------------------- MODULE Interrupts -----------------------------
(***************************************************************************)
(* How the kernel is entered and left: the stubs of src/asm/               *)
(* idt_handlers.S, the exception handlers of src/src/idt.c, the clock of   *)
(* src/src/rtc.c, and the system calls that wait by yielding.              *)
(*                                                                         *)
(* All gates are interrupt gates, so a stub starts with interrupts off and *)
(* nothing comes between two of its instructions; iretq turns them on      *)
(* again.  The stubs share two globals: rip_save, the label a register     *)
(* save or restore returns to, and rax_save, a call's result on its way to *)
(* user mode.  That is sound only while interrupts stay off up to iretq.   *)
(* task_save_and_change_krnl_state turns them off and does not save them;  *)
(* the one sti of the running kernel is in the keyboard wait, and it is    *)
(* still in force when that call reaches its exit stub.  Hence the exit of *)
(* a system call is four steps here, between which an interrupt can come,  *)
(* and the other entries and exits are one.                                *)
(*                                                                         *)
(* The clock is relative: left[t] is what is left of a sleep, so no count  *)
(* grows.  The task list and the message queues are in Tasks, the ring of  *)
(* key events in Keyboard: here a task list is a set of numbers, a queue   *)
(* one flag, the ring one event.                                           *)
(***************************************************************************)
EXTENDS Integers

CONSTANTS
  N,          \* tasks, 1 .. N; task 1 is the creator of the others
  MaxSleep    \* bound: the longest sleep, in ticks

ASSUME InterruptsAssumption == N \in Nat \ {0} /\ MaxSleep \in Nat \ {0}

Task == 1 .. N
Scheduler == 0

VARIABLES
  curr,       \* the task on the CPU, or the scheduler
  turn,       \* curr_task, which the scheduler advances
  ints,       \* interrupts are on
  place,      \* where each task is
  inTimer,    \* the tasks that gave up the CPU inside the timer interrupt
  rip_save,   \* whose label: an interrupt's, a system call's, a first run's
  rax_save,   \* the task whose result it holds, or 0
  left,       \* ticks to the end of t's sleep; -1 when it is past
  key,        \* an event is in the keyboard ring
  mail,       \* the tasks with an unread message
  call,       \* the system call each task is in
  hit         \* history: the tasks interrupted in the exit stub of that call

entryVars ==
  <<curr, turn, ints, place, inTimer, rip_save, rax_save, left, key, mail, call, hit>>

None == 0

(* fresh: never run; sleep, kbYield, msgWait: in the loop that yields;     *)
(* kbClear: at the head of kb_wait_and_pop_ev; kbCheck: past its sti;      *)
(* result, saved, restore, back: in the exit stub, before rax_save is      *)
(* written, before rip_save is, before the jump through it, at label 2.    *)
Exiting == {"result", "saved", "restore", "back"}
Pc == {"fresh", "user", "sleep", "kbClear", "kbYield", "kbCheck", "msgWait",
       "dead"} \cup Exiting
Kind == {"none", "quick", "sleep", "read", "gmsg"}

EntryTypeOK ==
  /\ curr \in Task \cup {Scheduler}
  /\ turn \in Task
  /\ ints \in BOOLEAN
  /\ place \in [Task -> Pc]
  /\ inTimer \subseteq Task
  /\ rip_save \in {"interrupt", "call", "firstRun"}
  /\ rax_save \in Task \cup {None}
  /\ left \in [Task -> -1 .. MaxSleep]
  /\ key \in BOOLEAN
  /\ mail \subseteq Task
  /\ call \in [Task -> Kind]
  /\ hit \subseteq Task

EntryInit ==
  /\ curr = Scheduler
  /\ turn = 1
  /\ ints = FALSE
  /\ place = [t \in Task |-> "fresh"]
  /\ inTimer = {}
  /\ rip_save = "interrupt"
  /\ rax_save = None
  /\ left = [t \in Task |-> 0]
  /\ key = FALSE
  /\ mail = {}
  /\ call = [t \in Task |-> "none"]
  /\ hit = {}

Live == {t \in Task : place[t] # "dead"}
At(p) == curr # Scheduler /\ place[curr] = p
Reaches(p) == place' = [place EXCEPT ![curr] = p]
-----------------------------------------------------------------------------
(* Every gate of idt_set_trap_ent and idt_set_irq_ent is an interrupt gate: *)
(* its handler starts with interrupts off.                                 *)
GateInts == FALSE

(* The entry of an interrupt in ring 3 or ring 0: idt_save_regs returns    *)
(* through rip_save, and an interrupt of an exit stub is remembered.       *)
Interrupted ==
  /\ curr # Scheduler
  /\ ints
  /\ rip_save' = "interrupt"
  /\ hit' = IF place[curr] \in Exiting THEN hit \cup {curr} ELSE hit
  /\ UNCHANGED <<rax_save, place, call>>

(* The timer interrupt yields in the middle of its stub. *)
Timer ==
  /\ Interrupted
  /\ inTimer' = inTimer \cup {curr}
  /\ curr' = Scheduler
  /\ ints' = GateInts
  /\ UNCHANGED <<turn, left, key, mail>>

(* rtc_handler counts a tick: one less for each sleep that is not past.    *)
Counted(l) == IF l < 0 THEN l ELSE l - 1

(* The clock's interrupt; a tick that no sleeper sees is not shown. *)
RtcTick ==
  /\ Interrupted
  /\ left' = [t \in Task |-> IF place[t] = "sleep" THEN Counted(left[t])
                                                 ELSE left[t]]
  /\ left' # left
  /\ UNCHANGED <<curr, turn, ints, inTimer, key, mail>>

KeyPress ==
  /\ Interrupted
  /\ ~key
  /\ key' = TRUE
  /\ UNCHANGED <<curr, turn, ints, inTimer, left, mail>>
-----------------------------------------------------------------------------
(* task_yield: task_save_and_change_krnl_state begins with cli. *)
Yield == curr' = Scheduler /\ ints' = FALSE

NextLive(t) == CHOOSE n \in Live :
  \A m \in Live : (n + N - t - 1) % N <= (m + N - t - 1) % N

(* A yield that comes back with interrupts on (fault injection). *)
ReturnWithInts == TRUE

(* Interrupts when task_yield returns: the scheduler had them off too. *)
ReturnInts == FALSE

(* The scheduler gives the CPU to the next task, which goes on where it    *)
(* yielded: in the timer's stub, which leaves by its own iretq; in the     *)
(* stub of a first run, which sets the interrupt flag of the frame; or in  *)
(* the loop of a waiting call.                                             *)
Dispatch ==
  /\ curr = Scheduler
  /\ \E t \in Live :
       /\ t = NextLive(turn)
       /\ curr' = t
       /\ turn' = t
       /\ inTimer' = inTimer \ {t}
       /\ \/ /\ t \in inTimer
             /\ rip_save' = "interrupt"
             /\ ints' = TRUE
             /\ UNCHANGED place
          \/ /\ t \notin inTimer
             /\ place[t] = "fresh"
             /\ rip_save' = "firstRun"
             /\ ints' = TRUE
             /\ place' = [place EXCEPT ![t] = "user"]
          \/ /\ t \notin inTimer
             /\ place[t] # "fresh"
             /\ ints' = ReturnInts
             /\ UNCHANGED <<rip_save, place>>
  /\ UNCHANGED <<rax_save, left, key, mail, call, hit>>
-----------------------------------------------------------------------------
(* The entry stub of a system call and the jump through syscall_table; a   *)
(* call that does not wait is at its result at once.                       *)
Enter(kind, p) ==
  /\ At("user")
  /\ ints' = GateInts
  /\ rip_save' = "call"
  /\ call' = [call EXCEPT ![curr] = kind]
  /\ Reaches(p)
  /\ UNCHANGED <<curr, turn, inTimer, rax_save, key, mail, hit>>

QuickCall == Enter("quick", "result") /\ UNCHANGED left

SleepCall(n) ==
  /\ Enter("sleep", "sleep")
  /\ left' = [left EXCEPT ![curr] = n]

ReadCall == Enter("read", "kbClear") /\ UNCHANGED left
GmsgCall == Enter("gmsg", "msgWait") /\ UNCHANGED left

(* The loop asks for the exact tick, not for one past (fault injection). *)
DueExactly(l) == l = 0

(* The loop of syscall_sleep ends once the count has reached the sum. *)
Due(l) == l <= 0

SleepLoop ==
  /\ At("sleep")
  /\ IF Due(left[curr])
       THEN /\ Reaches("result")
            /\ left' = [left EXCEPT ![curr] = 0]
            /\ UNCHANGED <<curr, ints>>
       ELSE Yield /\ UNCHANGED <<place, left>>
  /\ UNCHANGED <<turn, inTimer, rip_save, rax_save, key, mail, call, hit>>

MsgLoop ==
  /\ At("msgWait")
  /\ IF curr \in mail
       THEN /\ Reaches("result")
            /\ mail' = mail \ {curr}
            /\ UNCHANGED <<curr, ints>>
       ELSE Yield /\ UNCHANGED <<place, mail>>
  /\ UNCHANGED <<turn, inTimer, rip_save, rax_save, left, key, call, hit>>

(* kb_wait_and_pop_ev empties the ring, then yields ... *)
KbClear ==
  /\ At("kbClear")
  /\ key' = FALSE
  /\ Reaches("kbYield")
  /\ Yield
  /\ UNCHANGED <<turn, inTimer, rip_save, rax_save, left, mail, call, hit>>

(* ... turns interrupts on when it has the CPU again ... *)
KbSti ==
  /\ At("kbYield")
  /\ ints' = TRUE
  /\ Reaches("kbCheck")
  /\ UNCHANGED <<curr, turn, inTimer, rip_save, rax_save, left, key, mail, call,
                 hit>>

(* ... and yields again, or takes the event: kb_read goes on waiting after *)
(* one that is no press, and returns after a press.                        *)
KbCheck ==
  /\ At("kbCheck")
  /\ \/ ~key /\ Reaches("kbYield") /\ Yield /\ UNCHANGED key
     \/ key /\ key' = FALSE /\ Reaches("kbClear") /\ UNCHANGED <<curr, ints>>
     \/ key /\ key' = FALSE /\ Reaches("result") /\ UNCHANGED <<curr, ints>>
  /\ UNCHANGED <<turn, inTimer, rip_save, rax_save, left, mail, call, hit>>
-----------------------------------------------------------------------------
SaveResult ==
  /\ At("result")
  /\ rax_save' = curr
  /\ Reaches("saved")
  /\ UNCHANGED <<curr, turn, ints, inTimer, rip_save, left, key, mail, call,
                 hit>>

SaveLabel ==
  /\ At("saved")
  /\ rip_save' = "call"
  /\ Reaches("restore")
  /\ UNCHANGED <<curr, turn, ints, inTimer, rax_save, left, key, mail, call,
                 hit>>

Leave ==
  /\ Reaches("user")
  /\ ints' = TRUE
  /\ call' = [call EXCEPT ![curr] = "none"]
  /\ hit' = hit \ {curr}
  /\ UNCHANGED <<curr, turn, inTimer, rip_save, rax_save, left, key, mail>>

(* idt_load_regs restores the registers and jumps through rip_save: to     *)
(* label 2 of the system call, or to the iretq of an interrupt that came   *)
(* in between, which leaves rax as it was at the call.                     *)
LoadRegs ==
  /\ At("restore")
  /\ \/ /\ rip_save # "call"
        /\ Leave
     \/ /\ rip_save = "call"
        /\ Reaches("back")
        /\ UNCHANGED <<curr, turn, ints, inTimer, rip_save, rax_save, left, key,
                       mail, call, hit>>

(* Label 2 of idt_syscall_handler_s moves rax_save to rax. *)
Return == At("back") /\ Leave

ExitStub == SaveResult \/ SaveLabel \/ LoadRegs \/ Return

(* task_exit leaves a notice for the creator and yields for ever.  The     *)
(* head of the list stays: its end stops the kernel, which is in Tasks.    *)
Die ==
  /\ At("user")
  /\ curr # 1
  /\ rip_save' = "call"
  /\ mail' = mail \cup {1}
  /\ Reaches("dead")
  /\ Yield
  /\ UNCHANGED <<turn, inTimer, rax_save, left, key, call, hit>>
Exit == Die

(* The exceptions of ring 3 print what they know and end the task.  A      *)
(* vector without a gate, as an invalid opcode, arrives as a double fault. *)
PageFault         == Die
GeneralProtection == Die
DivideError       == Die
DoubleFault       == Die

Fault == PageFault \/ GeneralProtection \/ DivideError \/ DoubleFault
-----------------------------------------------------------------------------
Kernel == \/ Dispatch \/ SleepLoop \/ MsgLoop \/ KbClear \/ KbSti \/ KbCheck
          \/ ExitStub

User == \/ QuickCall \/ ReadCall \/ GmsgCall \/ Exit \/ Fault
        \/ \E n \in 0 .. MaxSleep : SleepCall(n)

EntryNext == Kernel \/ User \/ Timer \/ RtcTick \/ KeyPress

(* The kernel's own code goes on; an interrupt that is pending is taken    *)
(* once interrupts are on often enough.  Nothing is assumed of user code   *)
(* or of the keyboard.                                                     *)
EntrySpec ==
  /\ EntryInit /\ [][EntryNext]_entryVars
  /\ WF_entryVars(Kernel) /\ SF_entryVars(Timer) /\ SF_entryVars(RtcTick)
-----------------------------------------------------------------------------
(* Every task waits with interrupts off, for a tick or a message that only *)
(* an interrupt or another task could bring.                               *)
Stuck == \A t \in Live : \/ place[t] = "sleep" /\ ~Due(left[t])
                         \/ place[t] = "msgWait" /\ t \notin mail

(* A call returns its own result, whatever other tasks and interrupts do   *)
(* while it waits: rax_save and rip_save, shared by all, never mix up two  *)
(* calls.  The one exception is a keyboard read that is interrupted in its *)
(* exit stub, since kb_wait_and_pop_ev leaves interrupts on.               *)
ResultsAreOwn ==
  \A t \in Task :
    /\ curr = t
    /\ \/ place[t] = "back" /\ rax_save # t
       \/ place[t] = "restore" /\ rip_save # "call"
    => call[t] = "read" /\ t \in hit

(* A sleep ends, although the sleeping task keeps interrupts off and the   *)
(* tick it waits for can only come while another task runs, and whatever   *)
(* the tick at which it gets the CPU again, except in a Stuck kernel.      *)
SleepersWake ==
  \A t \in Task : (place[t] = "sleep") ~> (place[t] # "sleep" \/ Stuck)
=============================================================================
