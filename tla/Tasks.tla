------------------------------- MODULE Tasks -------------------------------
(***************************************************************************)
(* The task list, the scheduler and the per-task message queues of         *)
(* src/src/tasks.c, with the parts of runner_spawn_task and of the system  *)
(* calls that touch them.                                                  *)
(*                                                                         *)
(* There is one CPU.  Kernel code runs with interrupts off (system calls   *)
(* and faults enter through interrupt gates, task_save_and_change_krnl_    *)
(* state starts with cli), so a step of this model is a whole kernel path  *)
(* from one switch to the next: the scheduler gives the CPU to a task, and *)
(* the task keeps it until it yields, waits or exits.                      *)
(*                                                                         *)
(* A task is named by its tid, which is never used twice.  The one message *)
(* the system call table can produce is the MSG_CHILD_DIED notice of       *)
(* task_exit (syscall_pmsg_1 is not in the table), so a message is named   *)
(* by the tid of the child it comes from.                                  *)
(***************************************************************************)
EXTENDS Naturals, Sequences, FiniteSets

CONSTANTS
  MaxTid,    \* bound: the last tid that is handed out
  QSize      \* slots of task.msg_queue (16 in the code)

ASSUME TasksAssumption ==
  /\ MaxTid \in Nat \ {0}
  /\ QSize \in Nat /\ QSize > 1

Tid  == 1 .. MaxTid
Null == 0          \* the null pointer, and the tid of the kernel itself
Slot == 0 .. QSize - 1

VARIABLES
  live,         \* the task structs that exist, all of them linked
  tasks,        \* head of the circular list
  next,         \* task.next
  curr,         \* curr_task
  tid_counter,
  state,        \* task.state
  creator,      \* task.creator
  halfMade,     \* the tasks whose task_page_ptr was never written
  msg_queue, msg_head, msg_tail,   \* task.msg_queue, _head, _tail
  cpu,          \* who executes: the scheduler, curr, or nobody any more
  pc,           \* where each task resumes
  waitOn,       \* the pointer i of a task waiting in task_msgqueue_push
  sent, got,    \* history: notices queued for p, and returned to p
  overrun       \* history: QSize notices were unread in p's queue at once

ringVars  == <<live, tasks, next, tid_counter>>
queueVars == <<msg_queue, msg_head, msg_tail, sent, got, overrun>>
taskVars  == <<state, creator, halfMade, pc, waitOn>>
vars      == <<ringVars, curr, cpu, queueVars, taskVars>>

(* "badFree", "spin" and "ranOut" are the loops of task_cleanup_zombie,    *)
(* and of k_obj_free in it, that never finish; interrupts are off in them. *)
Cpu == {"scheduler", "task", "badFree", "spin", "ranOut"}

(* user: in ring 3; krnlTab: in ring 3 with the kernel's page table still  *)
(* in cr3; unloaded: created, but no segment was ever mapped; popWait and  *)
(* pushWait: inside the loops of task_msgqueue_pop and _push; dead: inside *)
(* the loop at the end of task_exit.                                       *)
Pc == {"none", "user", "krnlTab", "unloaded", "popWait", "pushWait", "dead"}

Halted == cpu \in {"badFree", "spin", "ranOut"}
-----------------------------------------------------------------------------
(* The machine when tasks_setup returns: /sbin/sfinit is the only task.    *)
Init ==
  /\ live = {1}
  /\ tasks = 1
  /\ next = [t \in Tid |-> IF t = 1 THEN 1 ELSE Null]
  /\ curr = 1
  /\ tid_counter = 1
  /\ state = [t \in Tid |-> IF t = 1 THEN "T_RUNNING" ELSE "T_NULL"]
  /\ creator = [t \in Tid |-> Null]
  /\ halfMade = {}
  /\ msg_queue = [t \in Tid |-> [s \in Slot |-> Null]]
  /\ msg_head = [t \in Tid |-> 0]
  /\ msg_tail = [t \in Tid |-> 0]
  /\ cpu = "scheduler"
  /\ pc = [t \in Tid |-> IF t = 1 THEN "user" ELSE "none"]
  /\ waitOn = [t \in Tid |-> Null]
  /\ sent = [t \in Tid |-> <<>>]
  /\ got = [t \in Tid |-> <<>>]
  /\ overrun = [t \in Tid |-> FALSE]

Runs(p) == cpu = "task" /\ pc[curr] = p

(* A search that stops before it has looked at the head (fault injection). *)
FindSkipsHead(tid) == IF tid \in live \ {tasks} THEN tid ELSE Null

(* task_find_by_tid: the list holds exactly the live tasks. *)
Find(tid) == IF tid \in live THEN tid ELSE Null

(* The low four bits of an index: 16 reads as 0. *)
Mask(i) == IF i = QSize THEN 0 ELSE i

(* The unread messages that head hd and tail tl show: how many, and which  *)
(* ones in array q, oldest first.                                          *)
UnreadIn(hd, tl) ==
  IF hd >= Mask(tl) THEN hd - Mask(tl) ELSE hd + QSize - Mask(tl)

SlotAt(tl, j) ==
  LET s == Mask(tl) + j - 1 IN IF s >= QSize THEN s - QSize ELSE s

ContentsIn(q, hd, tl) == [j \in 1 .. UnreadIn(hd, tl) |-> q[SlotAt(tl, j)]]

Unread(p)   == UnreadIn(msg_head[p], msg_tail[p])
Contents(p) == ContentsIn(msg_queue[p], msg_head[p], msg_tail[p])

(* Linking behind the head, not behind the last task (fault injection). *)
PrevInIsHead(nx, x) == tasks

(* The task whose next pointer is x, in a list linked by nx. *)
PrevIn(nx, x) == CHOOSE p \in live : nx[p] = x
-----------------------------------------------------------------------------
(* task_new: append a zeroed, runnable task behind the last one. *)
TaskNew(n) ==
  /\ n = tid_counter + 1
  /\ n \in Tid
  /\ tid_counter' = n
  /\ live' = live \cup {n}
  /\ next' = [next EXCEPT ![PrevIn(next, tasks)] = n, ![n] = tasks]
  /\ state' = [state EXCEPT ![n] = "T_RUNNING"]
  /\ msg_head' = [msg_head EXCEPT ![n] = 0]
  /\ msg_tail' = [msg_tail EXCEPT ![n] = 0]
  /\ msg_queue' = [msg_queue EXCEPT ![n] = [s \in Slot |-> Null]]
  /\ UNCHANGED <<tasks, waitOn, sent, got, overrun>>

(* A spawn that succeeds.  The paths of runner_spawn_task that fail before *)
(* task_start_func change nothing here.                                    *)
Spawn ==
  /\ Runs("user")
  /\ \E n \in Tid :
       /\ TaskNew(n)
       /\ creator' = [creator EXCEPT ![n] = curr]
       /\ pc' = [pc EXCEPT ![n] = "user"]
  /\ UNCHANGED <<curr, cpu, halfMade>>

(* The spawn whose working directory cannot be opened: it returns -ENOENT  *)
(* with the new task already in the list, its creator, task_page_ents and  *)
(* task_page_ptr never written and its segments not mapped, and leaves the *)
(* kernel's table in cr3.                                                  *)
SpawnNoCwd ==
  /\ Runs("user")
  /\ \E n \in Tid, garbage \in Tid \cup {Null} :
       /\ TaskNew(n)
       /\ creator' = [creator EXCEPT ![n] = garbage]
       /\ halfMade' = halfMade \cup {n}
       /\ pc' = [pc EXCEPT ![n] = "unloaded", ![curr] = "krnlTab"]
  /\ UNCHANGED <<curr, cpu>>

(* task_yield out of ring 3, on a timer interrupt or inside a system call  *)
(* that waits for something else.  The scheduler reloads cr3 on the way    *)
(* back, which repairs krnlTab.                                            *)
Yield ==
  /\ \E p \in {"user", "krnlTab", "unloaded"} : Runs(p)
  /\ cpu' = "scheduler"
  /\ pc' = [pc EXCEPT ![curr] = IF @ = "krnlTab" THEN "user" ELSE @]
  /\ UNCHANGED <<ringVars, curr, queueVars, state, creator, halfMade, waitOn>>
-----------------------------------------------------------------------------
(* Giving up with one message left, or never waiting (fault injection). *)
EmptyOffByOne(tl) == Mask(tl + 1) = msg_head[curr] \/ tl = msg_head[curr]
EmptyNever(tl)    == FALSE

(* The condition under which a reader whose tail is tl waits. *)
Empty(tl) == tl = msg_head[curr]

(* The body of task_msgqueue_pop once tl is its tail: wait, or take the    *)
(* message, which syscall_gmsg copies out and frees.  The index is left    *)
(* one past the slot, so it may stand at QSize until the next pop.         *)
PopFrom(tl) ==
  IF Empty(tl)
  THEN /\ msg_tail' = [msg_tail EXCEPT ![curr] = tl]
       /\ pc' = [pc EXCEPT ![curr] = "popWait"]
       /\ cpu' = "scheduler"
       /\ got' = got
  ELSE /\ msg_tail' = [msg_tail EXCEPT ![curr] = tl + 1]
       /\ pc' = [pc EXCEPT ![curr] = "user"]
       /\ cpu' = cpu
       /\ got' = [got EXCEPT ![curr] = Append(@, msg_queue[curr][tl])]

Gmsg ==
  /\ Runs("user")
  /\ PopFrom(Mask(msg_tail[curr]))
  /\ UNCHANGED <<ringVars, curr, msg_queue, msg_head, sent, overrun,
                 state, creator, halfMade, waitOn>>

(* The loop of task_msgqueue_pop compares again; it does not mask again. *)
GmsgResume ==
  /\ Runs("popWait")
  /\ PopFrom(msg_tail[curr])
  /\ UNCHANGED <<ringVars, curr, msg_queue, msg_head, sent, overrun,
                 state, creator, halfMade, waitOn>>
-----------------------------------------------------------------------------
(* Forgetting to tell the scheduler (fault injection). *)
DieForgotten ==
  /\ state' = state
  /\ pc' = [pc EXCEPT ![curr] = "dead"]
  /\ waitOn' = [waitOn EXCEPT ![curr] = Null]
  /\ cpu' = "scheduler"

(* task_exit past the push: the task is dead and yields for ever. *)
Die ==
  /\ state' = [state EXCEPT ![curr] = "T_DEAD"]
  /\ pc' = [pc EXCEPT ![curr] = "dead"]
  /\ waitOn' = [waitOn EXCEPT ![curr] = Null]
  /\ cpu' = "scheduler"

(* The loop of task_msgqueue_push: the pusher waits while the two indices  *)
(* of the receiver are equal.                                              *)
WaitPush(dest) ==
  /\ pc' = [pc EXCEPT ![curr] = "pushWait"]
  /\ waitOn' = [waitOn EXCEPT ![curr] = dest]
  /\ cpu' = "scheduler"
  /\ state' = state

(* The slot that task_msgqueue_push writes. *)
Store(dest, m) == [msg_queue EXCEPT ![dest][msg_head[dest]] = m]

(* The condition under which a pusher waits, hd being the new head. *)
Full(dest, hd) == msg_tail[dest] = hd

(* task_exit, by the system call or from a fault handler.  The notice goes *)
(* to the creator, or nowhere when the creator is gone.                    *)
Exit ==
  /\ \E p \in {"user", "krnlTab", "unloaded"} : Runs(p)
  /\ LET dest == Find(creator[curr])
         hd   == Mask(msg_head[dest] + 1)
     IN  IF dest = Null
         THEN Die /\ UNCHANGED queueVars
         ELSE /\ msg_queue' = Store(dest, curr)
              /\ msg_head' = [msg_head EXCEPT ![dest] = hd]
              /\ sent' = [sent EXCEPT ![dest] = Append(@, curr)]
              /\ overrun' = [overrun EXCEPT
                               ![dest] = @ \/ Unread(dest) = QSize - 1]
              /\ IF Full(dest, hd) THEN WaitPush(dest) ELSE Die
              /\ UNCHANGED <<msg_tail, got>>
  /\ UNCHANGED <<ringVars, curr, creator, halfMade>>

(* The waiting pusher runs again and reads the indices through i.  If the  *)
(* receiver was reaped meanwhile, i points to freed memory and the         *)
(* comparison may come out either way.                                     *)
PushResume ==
  /\ Runs("pushWait")
  /\ LET i == waitOn[curr]
     IN  \/ i \in live /\ Full(i, msg_head[i]) /\ WaitPush(i)
         \/ i \in live /\ ~Full(i, msg_head[i]) /\ Die
         \/ i \notin live /\ (WaitPush(i) \/ Die)
  /\ UNCHANGED <<ringVars, curr, queueVars, creator, halfMade>>
-----------------------------------------------------------------------------
(* Starting every turn from the head (fault injection). *)
NextTaskFromHead == next[tasks]

(* The task that a turn of task_scheduler looks at. *)
NextTask == next[curr]

(* Staying on the task that was just freed (fault injection). *)
AfterReapSame(z) == z

(* The task the scheduler stands on after cleaning up z. *)
AfterReap(z) == tasks

(* One turn of task_scheduler that finds a running task. *)
Dispatch ==
  /\ cpu = "scheduler"
  /\ curr' = NextTask
  /\ state[curr'] # "T_DEAD"
  /\ cpu' = "task"
  /\ UNCHANGED <<ringVars, queueVars, taskVars>>

(* task_cleanup_zombie on a task that was never completed: the pointer it  *)
(* hands to k_obj_free was never written.  Either it is 0 and the cleanup  *)
(* goes on (Reap, ReapHead), or k_obj_free finds no block there and loops. *)
ReapBadFree ==
  LET z == NextTask
  IN  /\ cpu = "scheduler"
      /\ state[z] = "T_DEAD"
      /\ z \in halfMade
      /\ curr' = z
      /\ cpu' = "badFree"
      /\ UNCHANGED <<ringVars, queueVars, taskVars>>

(* task_cleanup_zombie on a task that is not the head, and the restart     *)
(* from the head that follows it.                                          *)
Reap ==
  LET z == NextTask
  IN  /\ cpu = "scheduler"
      /\ state[z] = "T_DEAD"
      /\ z # tasks
      /\ next' = [next EXCEPT ![PrevIn(next, z)] = next[z], ![z] = Null]
      /\ live' = live \ {z}
      /\ curr' = AfterReap(z)
      /\ UNCHANGED <<tasks, tid_counter, cpu, queueVars, taskVars>>

(* task_cleanup_zombie on the head.  The unlink has already taken away the *)
(* only pointer to the head, so with other tasks left the walk that looks  *)
(* for that pointer never ends; alone in the list the head still points to *)
(* itself and the walk ends in "WE RAN OUT OF TASKS!".                     *)
ReapHead ==
  LET z  == NextTask
      nx == [next EXCEPT ![PrevIn(next, z)] = next[z]]
  IN  /\ cpu = "scheduler"
      /\ state[z] = "T_DEAD"
      /\ z = tasks
      /\ next' = nx
      /\ curr' = z
      /\ cpu' = IF \E iter \in live : nx[iter] = tasks THEN "ranOut" ELSE "spin"
      /\ UNCHANGED <<live, tasks, tid_counter, queueVars, taskVars>>

Scheduler == Dispatch \/ ReapBadFree \/ Reap \/ ReapHead

Next ==
  \/ Scheduler
  \/ Spawn \/ SpawnNoCwd \/ Yield
  \/ Gmsg \/ GmsgResume
  \/ Exit \/ PushResume

(* The scheduler's loop and a kernel path that holds the CPU go on; the    *)
(* periodic timer interrupt takes the CPU from a task in ring 3, where     *)
(* interrupts are on (flags = 0x200 in task_start_func).                   *)
Fairness ==
  /\ WF_vars(Scheduler)
  /\ WF_vars(Yield)
  /\ WF_vars(GmsgResume)
  /\ WF_vars(PushResume)

Spec     == Init /\ [][Next]_vars
FairSpec == Spec /\ Fairness
-----------------------------------------------------------------------------
TypeOK ==
  /\ live \in SUBSET Tid
  /\ tasks \in Tid
  /\ next \in [Tid -> Tid \cup {Null}]
  /\ curr \in Tid
  /\ tid_counter \in Tid
  /\ state \in [Tid -> {"T_NULL", "T_RUNNING", "T_DEAD"}]
  /\ creator \in [Tid -> Tid \cup {Null}]
  /\ halfMade \in SUBSET Tid
  /\ msg_queue \in [Tid -> [Slot -> Tid \cup {Null}]]
  /\ msg_head \in [Tid -> Slot]
  /\ msg_tail \in [Tid -> 0 .. QSize]
  /\ cpu \in Cpu
  /\ pc \in [Tid -> Pc]
  /\ waitOn \in [Tid -> Tid \cup {Null}]
  /\ sent \in [Tid -> Seq(Tid)]
  /\ got \in [Tid -> Seq(Tid \cup {Null})]
  /\ overrun \in [Tid -> BOOLEAN]

(* However tasks come and go, the circular list starts at its oldest task, *)
(* every task points to the next younger one, and the youngest points back *)
(* to the head; so a walk from the head meets every live task, once, which *)
(* is what task_find_by_tid, task_new and the unlinking in                 *)
(* task_cleanup_zombie rely on.                                            *)
RingIsTidOrdered ==
  cpu # "spin" =>
    /\ tasks \in live
    /\ \A t \in live :
         /\ tasks <= t
         /\ next[t] \in live
         /\ \/ next[t] > t /\ \A u \in live : u <= t \/ next[t] <= u
            \/ next[t] = tasks /\ \A u \in live : u <= t

(* curr_task never points to a freed task struct, and the task that has    *)
(* the CPU is not one whose memory the scheduler is about to free.         *)
SchedulerOnLiveRing ==
  /\ curr \in live
  /\ cpu = "task" => state[curr] = "T_RUNNING"

(* As long as QSize notices never waited at once, nothing is lost, doubled *)
(* or reordered: what a task was sent is what task_msgqueue_pop gave it    *)
(* followed by what the two indices still show.                            *)
FifoUntilOverrun ==
  \A p \in Tid : ~overrun[p] => sent[p] = got[p] \o Contents(p)

(* A pusher is kept waiting only by a queue that has been overrun; so only *)
(* then can it still hold the pointer of a creator that is freed.          *)
PushWaitMeansOverrun ==
  \A t \in live : pc[t] = "pushWait" => overrun[waitOn[t]]

(* A dead task has told its creator, unless the creator was gone.  (Tids   *)
(* grow, so a creator field above the own tid was never written.)          *)
NoticeBeforeDeath ==
  \A t \in live :
    /\ state[t] = "T_DEAD"
    /\ creator[t] \in live
    /\ creator[t] < t
    => \E k \in DOMAIN sent[creator[t]] : sent[creator[t]][k] = t

(* Whatever the order of pushes, pops and deaths: notices are sent in time, *)
(* arrive in order, and no task waits for a queue that has room.           *)
NoticesArrive == FifoUntilOverrun /\ PushWaitMeansOverrun /\ NoticeBeforeDeath

(* The queues implement the boxes of module Mailbox, overruns included. *)
Box == INSTANCE Mailbox
         WITH Owner <- Tid, Message <- Tid, Capacity <- QSize,
              open <- live, box <- [p \in Tid |-> Contents(p)]

ImplementsMailbox == Box!Spec

(* Round robin starves nobody: every task gets the CPU again and again     *)
(* until it is freed or the machine stops, although the scheduler starts   *)
(* over from the head whenever it has cleaned up a dead task.              *)
EveryTaskRuns ==
  \A t \in Tid : t \in live ~> (cpu = "task" /\ curr = t) \/ t \notin live
                              \/ state[t] = "T_DEAD" \/ Halted

(* A task that went through task_exit is freed. *)
DeadIsReaped ==
  \A t \in Tid : pc[t] = "dead" ~> t \notin live \/ Halted

(* A task waiting in syscall_gmsg for a notice that is in its queue gets   *)
(* it, unless later notices overrun the queue.                             *)
WaitingReaderIsServed ==
  \A p \in Tid :
    pc[p] = "popWait" /\ Unread(p) > 0
      ~> pc[p] # "popWait" \/ overrun[p] \/ Halted

(* "WE RAN OUT OF TASKS!" (src/src/tasks.c:275) is why the kernel stops in *)
(* the cleanup of the head: with other tasks left it goes on.              *)
StopsOnlyWithoutTasks == cpu # "spin"
=============================================================================
