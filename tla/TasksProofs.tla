---------------------------- MODULE TasksProofs ----------------------------
(***************************************************************************)
(* Proofs about module Tasks, for every number of tasks and every size of  *)
(* the message queues.                                                     *)
(***************************************************************************)
EXTENDS Tasks, SequenceTheorems, TLAPS

-----------------------------------------------------------------------------
(* The arithmetic of the two indices.                                      *)

(* What a slot of a queue holds: a notice, or the zero it was born with.   *)
Notice == Tid \cup {Null}
Queue  == [Slot -> Notice]

(* A queue's array after the store of m into slot hd. *)
Stored(q, hd, m) == [q EXCEPT ![hd] = m]

(* Masking an index gives a slot; incrementing and masking goes round.     *)
LEMMA MaskRange ==
  ASSUME NEW i \in 0 .. QSize
  PROVE  /\ Mask(i) \in Slot
         /\ Mask(Mask(i)) = Mask(i)
         /\ i \in Slot => Mask(i) = i
BY TasksAssumption, SMT DEF Mask, Slot

(* Two indices show between 0 and QSize - 1 messages.                      *)
LEMMA UnreadRange ==
  ASSUME NEW hd \in Slot, NEW tl \in 0 .. QSize
  PROVE  /\ UnreadIn(hd, tl) \in 0 .. QSize - 1
         /\ UnreadIn(hd, tl) = 0 <=> Mask(tl) = hd
         /\ UnreadIn(hd, tl) = UnreadIn(hd, Mask(tl))
BY TasksAssumption, SMT DEF Mask, Slot, UnreadIn

(* The j-th unread message lies in a slot of the array.                    *)
LEMMA SlotAtRange ==
  ASSUME NEW tl \in 0 .. QSize, NEW j \in 1 .. QSize
  PROVE  SlotAt(tl, j) \in Slot
BY TasksAssumption, SMT DEF Mask, Slot, SlotAt

(* What two indices show is a sequence of slot values.                     *)
LEMMA ContentsType ==
  ASSUME NEW q \in Queue, NEW hd \in Slot, NEW tl \in 0 .. QSize
  PROVE  /\ ContentsIn(q, hd, tl) \in Seq(Notice)
         /\ Len(ContentsIn(q, hd, tl)) = UnreadIn(hd, tl)
         /\ ContentsIn(q, hd, tl) = ContentsIn(q, hd, Mask(tl))
<1>1. \A j \in 1 .. UnreadIn(hd, tl) : SlotAt(tl, j) \in Slot
  BY UnreadRange, SlotAtRange, TasksAssumption, SMT
<1>2. UnreadIn(hd, tl) \in Nat
  BY UnreadRange, TasksAssumption, SMT
<1>3. ContentsIn(q, hd, tl) \in [1 .. UnreadIn(hd, tl) -> Notice]
  BY <1>1 DEF ContentsIn, Queue
<1>4. /\ ContentsIn(q, hd, tl) \in Seq(Notice)
      /\ Len(ContentsIn(q, hd, tl)) = UnreadIn(hd, tl)
  BY <1>2, <1>3, SeqDef, LenProperties, SMT
<1>5. ContentsIn(q, hd, tl) = ContentsIn(q, hd, Mask(tl))
  BY MaskRange, UnreadRange DEF ContentsIn, SlotAt
<1>6. QED
  BY <1>4, <1>5

(* A push that leaves a slot free appends its message; one that takes the  *)
(* last slot makes the queue read as empty.                                *)
LEMMA PushContents ==
  ASSUME NEW q \in Queue, NEW hd \in Slot, NEW tl \in 0 .. QSize,
         NEW m \in Notice, NEW q2, q2 = Stored(q, hd, m),
         NEW hd2, hd2 = Mask(hd + 1)
  PROVE  /\ hd2 \in Slot
         /\ UnreadIn(hd, tl) # QSize - 1 =>
              ContentsIn(q2, hd2, tl) = Append(ContentsIn(q, hd, tl), m)
         /\ UnreadIn(hd, tl) = QSize - 1 => ContentsIn(q2, hd2, tl) = <<>>
<1> DEFINE n == UnreadIn(hd, tl)
<1>1. hd2 \in Slot
  BY MaskRange, TasksAssumption, SMT DEF Slot
<1>2. n \in 0 .. QSize - 1
  BY UnreadRange
<1>3. n # QSize - 1 => UnreadIn(hd2, tl) = n + 1
  BY TasksAssumption, SMT DEF Slot, UnreadIn, Mask
<1>4. n = QSize - 1 => UnreadIn(hd2, tl) = 0
  BY TasksAssumption, SMT DEF Slot, UnreadIn, Mask
<1>5. SlotAt(tl, n + 1) = hd
  BY TasksAssumption, SMT DEF Slot, UnreadIn, SlotAt, Mask
<1>6. \A j \in 1 .. n : SlotAt(tl, j) \in Slot /\ SlotAt(tl, j) # hd
  BY TasksAssumption, SMT DEF Slot, UnreadIn, SlotAt, Mask
<1>7. ASSUME n # QSize - 1
      PROVE  ContentsIn(q2, hd2, tl) = Append(ContentsIn(q, hd, tl), m)
  <2> DEFINE c == ContentsIn(q, hd, tl)
             c2 == ContentsIn(q2, hd2, tl)
  <2>1. c \in Seq(Notice) /\ Len(c) = n
    BY ContentsType
  <2>2. q2 \in Queue
    BY DEF Queue, Stored
  <2>3. c2 \in Seq(Notice) /\ Len(c2) = n + 1
        <3>1. /\ ContentsIn(q2, hd2, tl) \in Seq(Notice)
          /\ Len(ContentsIn(q2, hd2, tl)) = UnreadIn(hd2, tl)
      BY <1>1, <2>2, ContentsType
    <3>2. QED
      BY <1>3, <1>7, <3>1
  <2>4. \A j \in 1 .. n : c2[j] = c[j]
    BY <1>2, <1>3, <1>6, <1>7, SMT DEF ContentsIn, Queue, Stored
  <2>5. c2[n + 1] = m
    BY <1>2, <1>3, <1>5, <1>7, SMT DEF ContentsIn, Queue, Stored
  <2> HIDE DEF c, c2, n
  <2>6. /\ Append(c, m) \in Seq(Notice)
        /\ Len(Append(c, m)) = n + 1
        /\ \A j \in 1 .. n : Append(c, m)[j] = c[j]
        /\ Append(c, m)[n + 1] = m
    BY <2>1, AppendProperties
  <2>7. \A j \in 1 .. n + 1 : c2[j] = Append(c, m)[j]
    BY <1>2, <2>4, <2>5, <2>6, TasksAssumption, SMT
  <2>8. c2 = Append(c, m)
    BY <2>3, <2>6, <2>7, SeqEqual
  <2>9. QED
    BY <2>8 DEF c, c2
<1>8. ASSUME n = QSize - 1
      PROVE  ContentsIn(q2, hd2, tl) = <<>>
  BY <1>4, <1>8, SMT DEF ContentsIn
<1>9. QED
  BY <1>1, <1>7, <1>8

(* A pop from a queue that does not read as empty returns the oldest       *)
(* message and leaves the others.                                          *)
LEMMA PopContents ==
  ASSUME NEW q \in Queue, NEW hd \in Slot, NEW tl \in Slot,
         tl # hd
  PROVE  /\ tl + 1 \in 0 .. QSize
         /\ ContentsIn(q, hd, tl) # <<>>
         /\ ContentsIn(q, hd, tl + 1) = Tail(ContentsIn(q, hd, tl))
         /\ ContentsIn(q, hd, tl) = <<q[tl]>> \o ContentsIn(q, hd, tl + 1)
<1> DEFINE n == UnreadIn(hd, tl)
           c == ContentsIn(q, hd, tl)
           d == ContentsIn(q, hd, tl + 1)
<1>1. tl + 1 \in 0 .. QSize /\ tl \in 0 .. QSize
  BY TasksAssumption, SMT DEF Slot
<1>2. n \in 1 .. QSize - 1 /\ UnreadIn(hd, tl + 1) = n - 1
  BY TasksAssumption, SMT DEF Slot, UnreadIn, Mask
<1>3. SlotAt(tl, 1) = tl
  BY TasksAssumption, SMT DEF Slot, SlotAt, Mask
<1>4. \A j \in 1 .. n - 1 : SlotAt(tl + 1, j) = SlotAt(tl, j + 1)
  BY <1>2, TasksAssumption, SMT DEF Slot, SlotAt, Mask
<1>5. c \in Seq(Notice) /\ Len(c) = n /\ d \in Seq(Notice) /\ Len(d) = n - 1
  BY <1>1, <1>2, ContentsType
<1>6. \A j \in 1 .. n - 1 : d[j] = c[j + 1]
  BY <1>2, <1>4, SMT DEF ContentsIn
<1>7. c[1] = q[tl]
  BY <1>2, <1>3, SMT DEF ContentsIn
<1>8. c # <<>>
  BY <1>2, <1>5, SMT
<1>9. d = Tail(c)
  <2>1. Tail(c) \in Seq(Notice) /\ Len(Tail(c)) = n - 1
    BY <1>5, <1>8, HeadTailProperties
  <2>2. \A j \in 1 .. n - 1 : Tail(c)[j] = c[j + 1]
    BY <1>5, <1>8, HeadTailProperties, SMT
  <2>3. QED
    BY <1>5, <1>6, <2>1, <2>2, SeqEqual, SMT
<1>10. c = <<q[tl]>> \o d
  <2>1. <<q[tl]>> \in Seq(Notice) /\ Len(<<q[tl]>>) = 1 /\ <<q[tl]>>[1] = q[tl]
    BY q[tl] \in Notice DEF Queue
  <2> HIDE DEF c, d, n
  <2>2. /\ <<q[tl]>> \o d \in Seq(Notice)
        /\ Len(<<q[tl]>> \o d) = 1 + Len(d)
        /\ \A j \in 1 .. 1 + Len(d) :
             (<<q[tl]>> \o d)[j] = IF j <= 1 THEN <<q[tl]>>[j] ELSE d[j - 1]
    BY <1>5, <2>1, ConcatProperties
  <2>3. \A j \in 1 .. n : c[j] = (<<q[tl]>> \o d)[j]
    BY <1>2, <1>5, <1>6, <1>7, <2>1, <2>2, TasksAssumption, SMT
  <2>4. QED
    BY <1>2, <1>5, <2>2, <2>3, SeqEqual, TasksAssumption, SMT
<1>11. QED
  BY <1>1, <1>8, <1>9, <1>10
-----------------------------------------------------------------------------
(* The inductive invariant.  RingInv adds to the order of the ring that    *)
(* every live task has a predecessor, which the walks of task_new and      *)
(* task_cleanup_zombie need, and that tids are handed out upwards.         *)
RingInv ==
  /\ RingIsTidOrdered
  /\ cpu # "spin" => \A x \in live : \E p \in live : next[p] = x
  /\ \A t \in live : t <= tid_counter
  /\ SchedulerOnLiveRing

(* Where a task resumes agrees with its state, its indices and its queue.  *)
ControlInv ==
  /\ \A t \in live : IF pc[t] = "dead" THEN state[t] = "T_DEAD"
                                       ELSE state[t] = "T_RUNNING"
  /\ \A t \in Tid : pc[t] = "popWait" => msg_tail[t] \in Slot
  /\ \A t \in Tid : pc[t] = "pushWait" => waitOn[t] \in Tid
  /\ \A t \in Tid : pc[t] = "none" <=> t > tid_counter

Core == TypeOK /\ RingInv /\ ControlInv

(* The predecessor found by a walk is a live task that points to x.        *)
LEMMA PrevInFound ==
  ASSUME NEW nx, NEW x, \E p \in live : nx[p] = x
  PROVE  PrevIn(nx, x) \in live /\ nx[PrevIn(nx, x)] = x
BY DEF PrevIn

(* The initial state satisfies the invariant.                              *)
LEMMA CoreInit == Init => Core
<1> SUFFICES ASSUME Init PROVE Core
  OBVIOUS
<1> USE TasksAssumption DEF Init, Tid, Null, Slot
<1>1. TypeOK
  <2>1. <<>> \in Seq(Tid) /\ <<>> \in Seq(Tid \cup {Null})
    OBVIOUS
  <2>2. QED
    BY <2>1 DEF TypeOK, Cpu, Pc
<1>2. RingInv
  BY DEF RingInv, RingIsTidOrdered, SchedulerOnLiveRing
<1>3. ControlInv
  BY DEF ControlInv
<1>4. QED
  BY <1>1, <1>2, <1>3 DEF Core

(* Linking a new task behind the youngest keeps the ring in tid order.     *)
LEMMA TaskNewStep ==
  ASSUME Core, cpu = "task", NEW n \in Tid, TaskNew(n), cpu' = cpu, curr' = curr,
         creator' \in [Tid -> Tid \cup {Null}], halfMade' \in SUBSET Tid,
         pc' \in [Tid -> Pc],
         \A t \in Tid \ {n} : pc'[t] \in {"user", "krnlTab"} \/ pc'[t] = pc[t],
         pc[curr] # "dead",
         \A t \in Tid \ {n} : pc'[t] # pc[t] => t = curr /\ pc[t] # "none",
         pc'[n] \in {"user", "unloaded"}
  PROVE  Core'
<1> DEFINE p == PrevIn(next, tasks)
<1> USE TasksAssumption DEF Core, Tid, Null
<1>0. (\A u \in live : u \in Nat) /\ tasks \in Nat /\ tid_counter \in Nat
  BY DEF TypeOK
<1>1. n = tid_counter + 1 /\ n \notin live /\ cpu # "spin"
  <2>1. n = tid_counter + 1 /\ \A t \in live : t <= tid_counter
    BY DEF TaskNew, RingInv
  <2>2. QED
    BY <1>0, <2>1
<1>2. p \in live /\ next[p] = tasks
  BY <1>1, PrevInFound DEF RingInv, RingIsTidOrdered
<1>3. next' = [next EXCEPT ![p] = n, ![n] = tasks] /\ live' = live \cup {n}
      /\ tasks' = tasks /\ tid_counter' = n
  BY DEF TaskNew
<1> HIDE DEF p
<1>4. TypeOK'
  <2>1. /\ live' \in SUBSET Tid /\ tasks' \in Tid /\ tid_counter' \in Tid
        /\ next' \in [Tid -> Tid \cup {Null}]
    BY <1>2, <1>3 DEF TypeOK
  <2>2. msg_queue' \in [Tid -> [Slot -> Tid \cup {Null}]]
    BY DEF TypeOK, TaskNew
  <2>3. /\ state' \in [Tid -> {"T_NULL", "T_RUNNING", "T_DEAD"}]
        /\ msg_head' \in [Tid -> Slot] /\ msg_tail' \in [Tid -> 0 .. QSize]
    <3>1. 0 \in Slot /\ 0 \in 0 .. QSize
      BY DEF Slot
    <3>2. QED
      BY <3>1 DEF TypeOK, TaskNew
  <2>4. QED
    BY <2>1, <2>2, <2>3 DEF TypeOK, TaskNew
<1>5. RingInv'
  <2>1. \A t \in live : next[t] \in live /\ tasks <= t /\ t \in Tid /\ t < n
    BY <1>1 DEF RingInv, RingIsTidOrdered, TypeOK
  <2>2. \A u \in live : u <= p
    <3>1. \/ next[p] > p
          \/ \A u \in live : u <= p
      BY <1>1, <1>2 DEF RingInv, RingIsTidOrdered
    <3>2. tasks <= p
      BY <1>2, <2>1
    <3>3. QED
      <4>1. next[p] = tasks /\ p \in Nat /\ tasks \in Nat
        BY <1>0, <1>2
      <4>2. ~(next[p] > p)
        BY <3>2, <4>1
      <4>3. QED
        BY <3>1, <4>2
  <2>3. next'[p] = n /\ next'[n] = tasks /\ tasks \in live
    BY <1>1, <1>2, <1>3, <2>1 DEF TypeOK, RingInv, RingIsTidOrdered
  <2>4. \A t \in live : t # p => next'[t] = next[t]
    BY <1>1, <1>3 DEF TypeOK
  <2>5. RingIsTidOrdered'
    <3>1. SUFFICES ASSUME NEW t \in live'
                   PROVE  /\ tasks' <= t
                          /\ next'[t] \in live'
                          /\ \/ next'[t] > t /\ \A u \in live' : u <= t \/ next'[t] <= u
                             \/ next'[t] = tasks' /\ \A u \in live' : u <= t
      BY <1>3, <2>3 DEF RingIsTidOrdered
    <3>2. CASE t = n
      <4>1. next'[t] = tasks' /\ tasks' < t /\ tasks' \in live'
        BY <1>0, <1>3, <2>1, <2>3, <3>2
      <4>2. \A u \in live' : u <= t
        BY <1>0, <1>3, <2>1, <3>2
      <4>3. QED
        BY <1>0, <1>3, <4>1, <4>2
    <3>3. CASE t = p
      <4>1. next'[t] = n /\ n \in live' /\ n > t /\ tasks' <= t
        BY <1>0, <1>2, <1>3, <2>1, <2>3, <3>3
      <4>2. \A u \in live' : u <= t \/ n <= u
        BY <1>0, <1>2, <1>3, <2>2, <3>3
      <4>3. QED
        BY <4>1, <4>2
    <3>4. CASE t \in live \ {p}
      <4>1. next'[t] = next[t] /\ next[t] \in live /\ t < n /\ next[t] < n
        BY <2>1, <2>4, <3>4
      <4>2. \/ next[t] > t /\ \A u \in live : u <= t \/ next[t] <= u
            \/ next[t] = tasks /\ \A u \in live : u <= t
        BY <1>1, <3>4 DEF RingInv, RingIsTidOrdered
      <4>3. t < p
        <5>1. t <= p /\ t # p /\ t \in Nat /\ p \in Nat
          BY <1>0, <1>2, <2>2, <3>4
        <5>2. QED
          BY <5>1
      <4>4. tasks' <= t /\ next'[t] \in live'
        BY <1>3, <2>1, <3>4, <4>1
      <4>5. next[t] > t /\ \A u \in live : u <= t \/ next[t] <= u
        <5>1. ~ \A u \in live : u <= t
          <6>1. t \in Nat /\ p \in Nat /\ ~(p <= t)
            BY <1>0, <1>2, <3>4, <4>3
          <6>2. QED
            BY <1>2, <6>1
        <5>2. QED
          BY <4>2, <5>1
      <4>6. next'[t] > t /\ \A u \in live' : u <= t \/ next'[t] <= u
        <5>1. next[t] <= n
          BY <1>0, <4>1
        <5>2. QED
          BY <1>3, <4>1, <4>5, <5>1
      <4>7. QED
        BY <4>4, <4>6
    <3>5. QED
      BY <1>3, <3>2, <3>3, <3>4
  <2>6. \A x \in live' : \E q \in live' : next'[q] = x
    <3>1. SUFFICES ASSUME NEW x \in live' PROVE \E q \in live' : next'[q] = x
      OBVIOUS
    <3>2. CASE x = n
      BY <1>2, <1>3, <2>3, <3>2
    <3>3. CASE x = tasks
      BY <1>3, <2>3, <3>3
    <3>4. CASE x \in live /\ x # tasks
      <4>1. PICK q \in live : next[q] = x
        BY <1>1, <3>4 DEF RingInv
      <4>2. next'[q] = x
        BY <1>2, <2>4, <3>4, <4>1
      <4>3. QED
        BY <1>3, <4>1, <4>2
    <3>5. QED
      BY <1>3, <3>2, <3>3, <3>4
  <2>7. SchedulerOnLiveRing' /\ \A t \in live' : t <= tid_counter'
    <3>1. curr \in live /\ state[curr] = "T_RUNNING" /\ curr # n
      BY <1>1 DEF RingInv, SchedulerOnLiveRing
    <3>2. state'[curr] = "T_RUNNING"
      BY <3>1 DEF TaskNew, TypeOK
    <3>3. QED
      BY <1>3, <2>1, <3>1, <3>2 DEF SchedulerOnLiveRing, TypeOK
  <2>8. QED
    BY <2>5, <2>6, <2>7 DEF RingInv
<1>6. ControlInv'
  <2>1. \A t \in live' : IF pc'[t] = "dead" THEN state'[t] = "T_DEAD"
                                           ELSE state'[t] = "T_RUNNING"
    <3>1. state'[n] = "T_RUNNING" /\ n \in Tid /\ pc'[n] # "dead"
      BY DEF TypeOK, TaskNew
    <3>2. ASSUME NEW t \in live
          PROVE  /\ t \in Tid \ {n} /\ state'[t] = state[t]
                 /\ pc'[t] = "dead" <=> pc[t] = "dead"
      <4>1. t \in Tid \ {n}
        BY <1>1 DEF TypeOK
      <4>2. state'[t] = state[t]
        BY <4>1 DEF TypeOK, TaskNew
      <4>3. pc'[t] = "dead" => pc[t] = "dead"
        BY <4>1
      <4>4. pc[t] = "dead" => pc'[t] = "dead"
        BY <4>1
      <4>5. QED
        BY <4>1, <4>2, <4>3, <4>4
    <3>3. QED
      BY <1>3, <3>1, <3>2 DEF ControlInv
  <2>2. \A t \in Tid : pc'[t] = "popWait" => msg_tail'[t] \in Slot
    BY DEF ControlInv, TypeOK, TaskNew, Slot
  <2>3. \A t \in Tid : pc'[t] = "pushWait" => waitOn'[t] \in Tid
    BY DEF ControlInv, TypeOK, TaskNew
  <2>4. \A t \in Tid : pc'[t] = "none" <=> t > tid_counter'
    <3>1. \A t \in Tid \ {n} : pc'[t] = "none" <=> pc[t] = "none"
      OBVIOUS
    <3>2. \A t \in Tid \ {n} : t > tid_counter <=> t > n
      BY <1>0, <1>1
    <3>3. ~(n > n) /\ pc'[n] # "none"
      BY <1>0, <1>1
    <3>4. \A t \in Tid : pc[t] = "none" <=> t > tid_counter
      BY DEF ControlInv
    <3>5. SUFFICES ASSUME NEW t \in Tid
                   PROVE  pc'[t] = "none" <=> t > n
      BY <1>3
    <3>6. CASE t = n
      BY <3>3, <3>6
    <3>7. CASE t # n
      BY <3>1, <3>2, <3>4, <3>7
    <3>8. QED
      BY <3>6, <3>7
  <2>5. QED
    BY <2>1, <2>2, <2>3, <2>4 DEF ControlInv
<1>7. QED
  BY <1>4, <1>5, <1>6

(* Unlinking a dead task that is not the head keeps the ring in tid order, *)
(* and the scheduler goes on from a task that still exists.                *)
LEMMA ReapStep == Core /\ Reap => Core'
<1> SUFFICES ASSUME Core, Reap PROVE Core'
  OBVIOUS
<1> DEFINE z == next[curr]
           p == PrevIn(next, z)
<1> USE TasksAssumption DEF Core, Tid, Null
<1>0. (\A u \in live : u \in Nat) /\ tasks \in Nat /\ tid_counter \in Nat
  BY DEF TypeOK
<1>1. cpu = "scheduler" /\ cpu' = cpu /\ z # tasks
  BY DEF Reap, NextTask
<1>2. z \in live /\ tasks \in live /\ next[z] \in live
  BY <1>1 DEF RingInv, RingIsTidOrdered, SchedulerOnLiveRing
<1>3. p \in live /\ next[p] = z
  BY <1>1, <1>2, PrevInFound DEF RingInv
<1>4. /\ next' = [next EXCEPT ![p] = next[z], ![z] = Null]
      /\ live' = live \ {z}
      /\ tasks' = tasks /\ curr' = tasks /\ tid_counter' = tid_counter
  BY DEF Reap, NextTask, AfterReap
<1> HIDE DEF p, z
<1>5. TypeOK'
  <2>1. next' \in [Tid -> Tid \cup {Null}]
    BY <1>2, <1>3, <1>4 DEF TypeOK
  <2>2. QED
    BY <1>1, <1>2, <1>4, <2>1 DEF TypeOK, Reap, queueVars, taskVars, Cpu
<1>6. RingInv'
  <2>1. \A t \in live : /\ tasks <= t
                        /\ next[t] \in live
                        /\ \/ next[t] > t /\ \A u \in live : u <= t \/ next[t] <= u
                           \/ next[t] = tasks /\ \A u \in live : u <= t
    BY <1>1 DEF RingInv, RingIsTidOrdered
  <2>2. p < z /\ \A u \in live : u <= p \/ z <= u
    BY <1>0, <1>1, <1>2, <1>3, <2>1
  <2>3. next[z] # z
    <3>1. ~(next[z] > z) \/ next[z] # z
      BY <1>0, <1>2
    <3>2. QED
      BY <1>1, <1>2, <2>1, <3>1
  <2>4. ASSUME NEW t \in live, next[t] = z
        PROVE  t = p
    <3>1. t < z /\ \A u \in live : u <= t \/ z <= u
      BY <1>0, <1>1, <1>2, <2>1, <2>4
    <3>2. t <= p /\ p <= t
      BY <1>0, <1>2, <1>3, <2>2, <3>1
    <3>3. QED
      BY <1>0, <1>3, <3>2
  <2>5. next'[p] = next[z] /\ \A t \in live \ {p, z} : next'[t] = next[t]
    <3>1. /\ next \in [Tid -> Tid \cup {Null}]
          /\ p \in Tid /\ live \subseteq Tid
      BY <1>0, <1>2, <1>3 DEF TypeOK
    <3>2. p # z
      BY <1>0, <1>2, <1>3, <2>2
    <3>3. QED
      BY <1>4, <3>1, <3>2
  <2>6. RingIsTidOrdered'
    <3>1. SUFFICES ASSUME NEW t \in live'
                   PROVE  /\ tasks <= t
                          /\ next'[t] \in live'
                          /\ \/ next'[t] > t /\ \A u \in live' : u <= t \/ next'[t] <= u
                             \/ next'[t] = tasks /\ \A u \in live' : u <= t
      BY <1>1, <1>2, <1>4 DEF RingIsTidOrdered
    <3>2. tasks <= t /\ t \in live /\ t # z
      BY <1>4, <2>1
    <3>3. CASE t = p
      <4>1. next'[t] = next[z] /\ next[z] \in live'
        BY <1>2, <1>4, <2>3, <2>5, <3>3
      <4>2. \A u \in live' : u <= p \/ z < u
        BY <1>0, <1>2, <1>4, <2>2
      <4>3. CASE next[z] > z /\ \A u \in live : u <= z \/ next[z] <= u
        <5>1. next[z] > p
          <6>1. next[z] \in Nat /\ z \in Nat /\ p \in Nat
            BY <1>0, <1>2, <1>3
          <6>2. p < z /\ z < next[z]
            BY <2>2, <4>3, <6>1
          <6>3. QED
            BY <6>1, <6>2
        <5>2. \A u \in live' : u <= p \/ next[z] <= u
          BY <1>0, <1>2, <1>4, <4>2, <4>3
        <5>3. QED
          BY <3>2, <3>3, <4>1, <5>1, <5>2
      <4>4. CASE next[z] = tasks /\ \A u \in live : u <= z
        <5>1. \A u \in live' : u <= p
          BY <1>0, <1>2, <1>4, <4>2, <4>4
        <5>2. QED
          BY <3>2, <3>3, <4>1, <4>4, <5>1
      <4>5. QED
        BY <1>2, <2>1, <4>3, <4>4
    <3>4. CASE t # p
      <4>1. next'[t] = next[t] /\ next[t] # z
        BY <2>4, <2>5, <3>2, <3>4
      <4>2. /\ next[t] \in live
            /\ \/ next[t] > t /\ \A u \in live : u <= t \/ next[t] <= u
               \/ next[t] = tasks /\ \A u \in live : u <= t
        BY <2>1, <3>2
      <4>3. next'[t] \in live' /\ \A u \in live' : u \in live
        BY <1>4, <4>1, <4>2
      <4>4. QED
        BY <3>2, <4>1, <4>2, <4>3
    <3>5. QED
      BY <3>3, <3>4
  <2>7. \A x \in live' : \E q \in live' : next'[q] = x
    <3>1. SUFFICES ASSUME NEW x \in live' PROVE \E q \in live' : next'[q] = x
      OBVIOUS
    <3>2. CASE x = next[z]
      BY <1>0, <1>2, <1>3, <1>4, <2>2, <2>5, <3>2
    <3>3. CASE x # next[z]
      <4>1. PICK q \in live : next[q] = x
        BY <1>1, <1>4 DEF RingInv
      <4>2. q # z /\ q # p
        BY <1>3, <1>4, <3>3, <4>1
      <4>3. QED
        BY <1>4, <2>5, <4>1, <4>2
    <3>4. QED
      BY <3>2, <3>3
  <2>8. SchedulerOnLiveRing' /\ \A t \in live' : t <= tid_counter'
    BY <1>1, <1>2, <1>4 DEF SchedulerOnLiveRing, RingInv
  <2>9. QED
    BY <2>6, <2>7, <2>8 DEF RingInv
<1>7. ControlInv'
  BY <1>4 DEF ControlInv, Reap, taskVars, queueVars
<1>8. QED
  BY <1>5, <1>6, <1>7

(* The cleanup of a dead head never gets past its walk: either the ring is *)
(* the head alone and unchanged, or the machine spins.                     *)
LEMMA ReapHeadStep == Core /\ ReapHead => Core'
<1> SUFFICES ASSUME Core, ReapHead PROVE Core'
  OBVIOUS
<1> DEFINE z == next[curr]
           p == PrevIn(next, z)
           nx == [next EXCEPT ![p] = next[z]]
<1> USE TasksAssumption DEF Core, Tid, Null
<1>0. (\A u \in live : u \in Nat) /\ tasks \in Nat /\ tid_counter \in Nat
  BY DEF TypeOK
<1>1. /\ cpu = "scheduler" /\ z = tasks /\ next' = nx /\ curr' = z
      /\ cpu' = IF \E iter \in live : nx[iter] = tasks THEN "ranOut" ELSE "spin"
      /\ UNCHANGED <<live, tasks, tid_counter, queueVars, taskVars>>
  BY DEF ReapHead, NextTask
<1>2. z \in live /\ next[z] \in live
  BY <1>1 DEF RingInv, RingIsTidOrdered, SchedulerOnLiveRing
<1>3. p \in live /\ next[p] = z
  BY <1>1, <1>2, PrevInFound DEF RingInv
<1> HIDE DEF p, z
<1>4. TypeOK'
  <2>1. nx \in [Tid -> Tid \cup {Null}]
    BY <1>2, <1>3 DEF TypeOK
  <2>2. QED
    BY <1>1, <1>2, <2>1 DEF TypeOK, queueVars, taskVars, Cpu
<1>5. ControlInv'
  BY <1>1 DEF ControlInv, taskVars, queueVars
<1>6. SchedulerOnLiveRing' /\ \A t \in live' : t <= tid_counter'
  BY <1>1, <1>2 DEF SchedulerOnLiveRing, RingInv
<1>7. cpu' # "spin" => next' = next
  <2>1. SUFFICES ASSUME NEW iter \in live, nx[iter] = tasks PROVE nx = next
    BY <1>1
  <2>2. \A t \in live : /\ tasks <= t
                        /\ \/ next[t] > t
                           \/ next[t] = tasks /\ \A u \in live : u <= t
    BY <1>1 DEF RingInv, RingIsTidOrdered
  <2>3. \A t \in live : next[t] = tasks => \A u \in live : u <= t
    BY <1>0, <2>2
  <2>4. \A u \in live : u <= p
    BY <1>1, <1>3, <2>3
  <2>5. CASE iter = p
    <3>1. next[z] = tasks
      BY <1>3, <2>1, <2>5 DEF TypeOK
    <3>2. QED
      BY <1>1, <1>3, <3>1 DEF TypeOK
  <2>6. CASE iter # p
    <3>1. next[iter] = tasks
      BY <1>3, <2>1, <2>6 DEF TypeOK
    <3>2. iter <= p /\ p <= iter
      BY <1>3, <2>3, <2>4, <3>1
    <3>3. QED
      BY <1>0, <1>3, <2>6, <3>2
  <2>7. QED
    BY <2>5, <2>6
<1>8. RingInv'
  <2>1. cpu' # "spin" => RingIsTidOrdered'
    BY <1>1, <1>7 DEF RingInv, RingIsTidOrdered
  <2>2. cpu' # "spin" => \A x \in live' : \E q \in live' : next'[q] = x
    BY <1>1, <1>7 DEF RingInv
  <2>3. RingIsTidOrdered'
    BY <2>1 DEF RingIsTidOrdered
  <2>4. QED
    BY <1>6, <2>2, <2>3 DEF RingInv
<1>9. QED
  BY <1>4, <1>5, <1>8

(* No other step touches the ring.                                         *)
LEMMA RingUnchanged ==
  ASSUME RingInv, UNCHANGED ringVars, cpu # "spin", cpu' # "spin",
         curr' \in live, cpu' = "task" => state'[curr'] = "T_RUNNING"
  PROVE  RingInv'
<1>1. RingIsTidOrdered'
  BY DEF RingInv, RingIsTidOrdered, ringVars
<1>2. QED
  BY <1>1 DEF RingInv, SchedulerOnLiveRing, ringVars

(* The invariant is kept by every step.                                    *)
LEMMA CoreStep == Core /\ [Next]_vars => Core'
<1> SUFFICES ASSUME Core, [Next]_vars PROVE Core'
  OBVIOUS
<1> USE TasksAssumption DEF Core
<1>1. CASE Dispatch
  <2>1. /\ cpu = "scheduler" /\ cpu' = "task" /\ curr' = next[curr]
        /\ state[curr'] # "T_DEAD" /\ UNCHANGED <<ringVars, queueVars, taskVars>>
    BY <1>1 DEF Dispatch, NextTask
  <2>2. next[curr] \in live
    BY <2>1 DEF RingInv, RingIsTidOrdered, SchedulerOnLiveRing
  <2>3. state'[curr'] = "T_RUNNING"
    BY <2>1, <2>2 DEF ControlInv, taskVars
  <2>4. TypeOK'
    BY <2>1, <2>2 DEF TypeOK, ringVars, queueVars, taskVars, Cpu
  <2>5. RingInv'
    BY <2>1, <2>2, <2>3, RingUnchanged
  <2>6. ControlInv'
    BY <2>1 DEF ControlInv, ringVars, queueVars, taskVars
  <2>7. QED
    BY <2>4, <2>5, <2>6
<1>1a. CASE ReapBadFree
  <2>1. /\ cpu = "scheduler" /\ cpu' = "badFree" /\ curr' = next[curr]
        /\ UNCHANGED <<ringVars, queueVars, taskVars>>
    BY <1>1a DEF ReapBadFree, NextTask
  <2>2. next[curr] \in live
    BY <2>1 DEF RingInv, RingIsTidOrdered, SchedulerOnLiveRing
  <2>3. TypeOK'
    BY <2>1, <2>2 DEF TypeOK, ringVars, queueVars, taskVars, Cpu
  <2>4. RingInv'
    BY <2>1, <2>2, RingUnchanged
  <2>5. ControlInv'
    BY <2>1 DEF ControlInv, ringVars, queueVars, taskVars
  <2>6. QED
    BY <2>3, <2>4, <2>5
<1>2. CASE Reap
  BY <1>2, ReapStep
<1>3. CASE ReapHead
  BY <1>3, ReapHeadStep
<1>4. CASE Spawn
  <2>1. PICK n \in Tid :
          /\ cpu = "task" /\ pc[curr] = "user"
          /\ TaskNew(n)
          /\ creator' = [creator EXCEPT ![n] = curr]
          /\ pc' = [pc EXCEPT ![n] = "user"]
          /\ UNCHANGED <<curr, cpu, halfMade>>
    BY <1>4 DEF Spawn, Runs
  <2>2. curr \in Tid /\ pc \in [Tid -> Pc] /\ creator \in [Tid -> Tid \cup {Null}]
    BY DEF TypeOK
  <2>3. /\ creator' \in [Tid -> Tid \cup {Null}] /\ pc' \in [Tid -> Pc]
        /\ halfMade' \in SUBSET Tid
    BY <2>1, <2>2 DEF Pc, TypeOK
  <2>4. /\ \A t \in Tid \ {n} : pc'[t] = pc[t]
        /\ pc'[n] = "user"
    BY <2>1, <2>2
  <2>5. QED
    BY <2>1, <2>3, <2>4, TaskNewStep
<1>5. CASE SpawnNoCwd
  <2>1. PICK n \in Tid, garbage \in Tid \cup {Null} :
          /\ cpu = "task" /\ pc[curr] = "user"
          /\ TaskNew(n)
          /\ creator' = [creator EXCEPT ![n] = garbage]
          /\ halfMade' = halfMade \cup {n}
          /\ pc' = [pc EXCEPT ![n] = "unloaded", ![curr] = "krnlTab"]
          /\ UNCHANGED <<curr, cpu>>
    BY <1>5 DEF SpawnNoCwd, Runs
  <2>2. curr \in Tid /\ pc \in [Tid -> Pc] /\ creator \in [Tid -> Tid \cup {Null}]
    BY DEF TypeOK
  <2>3. /\ creator' \in [Tid -> Tid \cup {Null}] /\ pc' \in [Tid -> Pc]
        /\ halfMade' \in SUBSET Tid
    BY <2>1, <2>2 DEF Pc, TypeOK
  <2>4. n # curr
    <3>1. n = tid_counter + 1 /\ curr \in live /\ tid_counter \in Nat
      BY <2>1 DEF TaskNew, RingInv, SchedulerOnLiveRing, TypeOK, Tid
    <3>2. curr <= tid_counter /\ curr \in Nat
      BY <3>1, <2>2 DEF RingInv, Tid
    <3>3. QED
      BY <3>1, <3>2
  <2>5. /\ \A t \in Tid \ {n} : pc'[t] = IF t = curr THEN "krnlTab" ELSE pc[t]
        /\ pc'[n] = "unloaded"
    BY <2>1, <2>2, <2>4
  <2>6. QED
    BY <2>1, <2>3, <2>5, TaskNewStep
<1>6. CASE Yield
  <2>1. /\ cpu = "task" /\ pc[curr] \in {"user", "krnlTab", "unloaded"}
        /\ cpu' = "scheduler"
        /\ pc' = [pc EXCEPT ![curr] = IF @ = "krnlTab" THEN "user" ELSE @]
        /\ UNCHANGED <<ringVars, curr, queueVars, state, creator, halfMade, waitOn>>
    BY <1>6 DEF Yield, Runs
  <2>2. curr \in live
    BY DEF RingInv, SchedulerOnLiveRing
  <2>3. TypeOK'
    BY <2>1 DEF TypeOK, ringVars, queueVars, Cpu, Pc
  <2>4. RingInv'
    BY <2>1, <2>2, RingUnchanged
  <2>5. ControlInv'
    BY <2>1 DEF ControlInv, TypeOK, ringVars, queueVars
  <2>6. QED
    BY <2>3, <2>4, <2>5
<1>7. ASSUME NEW tl \in Slot, cpu = "task", pc[curr] \in {"user", "popWait"},
             PopFrom(tl),
             UNCHANGED <<ringVars, curr, msg_queue, msg_head, sent, overrun,
                         state, creator, halfMade, waitOn>>
      PROVE  Core'
  <2>1. curr \in live /\ curr \in Tid /\ state[curr] = "T_RUNNING"
    BY <1>7 DEF RingInv, SchedulerOnLiveRing, TypeOK
  <2>2. tl \in 0 .. QSize /\ tl + 1 \in 0 .. QSize
    BY DEF Slot
  <2>3. msg_queue[curr][tl] \in Tid \cup {Null}
    BY <2>1 DEF TypeOK
  <2>4. CASE Empty(tl)
    <3>1. /\ msg_tail' = [msg_tail EXCEPT ![curr] = tl]
          /\ pc' = [pc EXCEPT ![curr] = "popWait"]
          /\ cpu' = "scheduler" /\ got' = got
      BY <1>7, <2>4 DEF PopFrom
    <3>2. TypeOK'
      BY <1>7, <2>2, <3>1 DEF TypeOK, ringVars, Cpu, Pc
    <3>3. RingInv'
      BY <1>7, <2>1, <3>1, RingUnchanged
    <3>4. ControlInv'
      BY <1>7, <2>1, <3>1 DEF ControlInv, TypeOK, ringVars
    <3>5. QED
      BY <3>2, <3>3, <3>4
  <2>5. CASE ~Empty(tl)
    <3>1. /\ msg_tail' = [msg_tail EXCEPT ![curr] = tl + 1]
          /\ pc' = [pc EXCEPT ![curr] = "user"]
          /\ cpu' = cpu
          /\ got' = [got EXCEPT ![curr] = Append(@, msg_queue[curr][tl])]
      BY <1>7, <2>5 DEF PopFrom
    <3>2. TypeOK'
      <4>1. got' \in [Tid -> Seq(Tid \cup {Null})]
        BY <2>1, <2>3, <3>1, AppendProperties DEF TypeOK
      <4>2. QED
        BY <1>7, <2>2, <3>1, <4>1 DEF TypeOK, ringVars, Cpu, Pc
    <3>3. RingInv'
      BY <1>7, <2>1, <3>1, RingUnchanged
    <3>4. ControlInv'
      BY <1>7, <2>1, <3>1 DEF ControlInv, TypeOK, ringVars
    <3>5. QED
      BY <3>2, <3>3, <3>4
  <2>6. QED
    BY <2>4, <2>5
<1>8. CASE Gmsg
  <2>1. Mask(msg_tail[curr]) \in Slot
    BY MaskRange DEF TypeOK
  <2>2. QED
    BY <1>7, <1>8, <2>1 DEF Gmsg, Runs
<1>9. CASE GmsgResume
  <2>1. msg_tail[curr] \in Slot
    BY <1>9 DEF ControlInv, TypeOK, GmsgResume, Runs
  <2>2. QED
    BY <1>7, <1>9, <2>1 DEF GmsgResume, Runs
<1>10. ASSUME cpu = "task",
              UNCHANGED <<ringVars, curr, creator, halfMade, msg_tail, got>>,
              msg_queue' \in [Tid -> [Slot -> Tid \cup {Null}]],
              msg_head' \in [Tid -> Slot],
              sent' \in [Tid -> Seq(Tid)], overrun' \in [Tid -> BOOLEAN],
              Die \/ \E dest \in Tid : WaitPush(dest)
       PROVE  Core'
  <2>1. curr \in live /\ curr \in Tid /\ state[curr] = "T_RUNNING"
    BY <1>10 DEF RingInv, SchedulerOnLiveRing, TypeOK
  <2>2. pc[curr] # "none"
    BY <2>1 DEF ControlInv, RingInv, TypeOK, Tid
  <2>3. cpu' = "scheduler"
    BY <1>10 DEF Die, WaitPush
  <2>4. PICK w \in Tid \cup {Null} :
          /\ waitOn' = [waitOn EXCEPT ![curr] = w]
          /\ \/ /\ state' = [state EXCEPT ![curr] = "T_DEAD"]
                /\ pc' = [pc EXCEPT ![curr] = "dead"]
             \/ /\ state' = state /\ w \in Tid
                /\ pc' = [pc EXCEPT ![curr] = "pushWait"]
    BY <1>10 DEF Die, WaitPush
  <2>8. /\ state' \in [Tid -> {"T_NULL", "T_RUNNING", "T_DEAD"}]
        /\ pc' \in [Tid -> Pc]
        /\ waitOn' \in [Tid -> Tid \cup {Null}]
    BY <2>4 DEF TypeOK, Pc
  <2>9. TypeOK'
    BY <1>10, <2>3, <2>8 DEF TypeOK, ringVars, Cpu
  <2>5. RingInv'
    BY <1>10, <2>1, <2>3, RingUnchanged
  <2>6. ControlInv'
    <3>1. /\ curr \in Tid /\ pc \in [Tid -> Pc] /\ waitOn \in [Tid -> Tid \cup {Null}]
          /\ state \in [Tid -> {"T_NULL", "T_RUNNING", "T_DEAD"}] /\ live \subseteq Tid
      BY DEF TypeOK
    <3>2. CASE pc' = [pc EXCEPT ![curr] = "dead"]
      BY <1>10, <2>1, <2>2, <2>4, <3>1, <3>2 DEF ControlInv, ringVars
    <3>3. CASE pc' = [pc EXCEPT ![curr] = "pushWait"] /\ state' = state /\ w \in Tid
      <4>1. \A t \in live : IF pc'[t] = "dead" THEN state'[t] = "T_DEAD"
                                              ELSE state'[t] = "T_RUNNING"
        BY <2>1, <3>1, <3>3 DEF ControlInv
      <4>2. \A t \in Tid : pc'[t] = "popWait" => msg_tail'[t] \in Slot
        BY <1>10, <3>1, <3>3 DEF ControlInv
      <4>3. \A t \in Tid : pc'[t] = "pushWait" => waitOn'[t] \in Tid
        BY <2>4, <3>1, <3>3 DEF ControlInv
      <4>4. \A t \in Tid : pc'[t] = "none" <=> t > tid_counter'
        BY <1>10, <2>2, <3>1, <3>3 DEF ControlInv, ringVars
      <4>5. QED
        BY <1>10, <4>1, <4>2, <4>3, <4>4 DEF ControlInv, ringVars
    <3>4. QED
      BY <2>4, <3>2, <3>3
  <2>7. QED
    BY <2>5, <2>6, <2>9
<1>11. CASE Exit
  <2> DEFINE dest == Find(creator[curr])
             hd == Mask(msg_head[dest] + 1)
  <2>1. cpu = "task" /\ UNCHANGED <<ringVars, curr, creator, halfMade>>
    BY <1>11 DEF Exit, Runs
  <2>2. CASE dest = Null
    <3>1. Die /\ UNCHANGED queueVars
      BY <1>11, <2>2 DEF Exit
    <3>2. QED
      BY <1>10, <2>1, <3>1 DEF queueVars, TypeOK
  <2>3. CASE dest # Null
    <3>1. dest \in Tid /\ curr \in Tid
      BY <2>3 DEF Find, TypeOK
    <3>2. /\ msg_queue' = [msg_queue EXCEPT ![dest][msg_head[dest]] = curr]
          /\ msg_head' = [msg_head EXCEPT ![dest] = hd]
          /\ sent' = [sent EXCEPT ![dest] = Append(@, curr)]
          /\ overrun' = [overrun EXCEPT ![dest] = @ \/ Unread(dest) = QSize - 1]
          /\ IF Full(dest, hd) THEN WaitPush(dest) ELSE Die
          /\ UNCHANGED <<msg_tail, got>>
      BY <1>11, <2>3 DEF Exit, Store
    <3>3. hd \in Slot
      <4>1. msg_head[dest] \in Slot
        BY <3>1 DEF TypeOK
      <4>2. msg_head[dest] + 1 \in 0 .. QSize
        BY <4>1 DEF Slot
      <4>3. QED
        BY <4>2, MaskRange
    <3> HIDE DEF dest, hd
    <3>4. msg_queue' \in [Tid -> [Slot -> Tid \cup {Null}]] /\ msg_head' \in [Tid -> Slot]
      BY <3>1, <3>2, <3>3 DEF TypeOK
    <3>5. sent' \in [Tid -> Seq(Tid)]
      BY <3>1, <3>2, AppendProperties DEF TypeOK
    <3>6. overrun' \in [Tid -> BOOLEAN]
      BY <3>1, <3>2, Zenon DEF TypeOK
    <3>7. QED
      BY <1>10, <2>1, <3>1, <3>2, <3>4, <3>5, <3>6
  <2>4. QED
    BY <2>2, <2>3
<1>12. CASE PushResume
  <2>1. /\ cpu = "task" /\ pc[curr] = "pushWait"
        /\ UNCHANGED <<ringVars, curr, creator, halfMade, queueVars>>
        /\ Die \/ WaitPush(waitOn[curr])
    BY <1>12 DEF PushResume, Runs
  <2>2. waitOn[curr] \in Tid
    BY <2>1 DEF ControlInv, TypeOK
  <2>3. QED
    BY <1>10, <2>1, <2>2 DEF queueVars, TypeOK
<1>13. CASE UNCHANGED vars
  <2>1. TypeOK'
    BY <1>13 DEF TypeOK, vars, ringVars, queueVars, taskVars
  <2>2. RingIsTidOrdered'
    BY <1>13 DEF RingInv, RingIsTidOrdered, vars, ringVars
  <2>3. RingInv' /\ ControlInv'
    BY <1>13, <2>2 DEF RingInv, SchedulerOnLiveRing, ControlInv,
                       vars, ringVars, queueVars, taskVars
  <2>4. QED
    BY <2>1, <2>3
<1>14. QED
  BY <1>1, <1>2, <1>3, <1>4, <1>5, <1>6, <1>8, <1>9, <1>11, <1>12, <1>13, <1>1a
     DEF Next, Scheduler
-----------------------------------------------------------------------------
(* The queues.  QueueInv adds to FifoUntilOverrun that nothing but tids    *)
(* can be read from a queue, that a pusher waits only on an overrun queue, *)
(* and that a queue that was never used is empty.                          *)
QueueInv ==
  /\ \A p \in Tid : Contents(p) \in Seq(Tid)
  /\ FifoUntilOverrun
  /\ \A t \in Tid : pc[t] = "pushWait" => overrun[waitOn[t]]
  /\ \A p \in Tid : p > tid_counter =>
       sent[p] = <<>> /\ got[p] = <<>> /\ Contents(p) = <<>>

(* Indices that are both 0 show nothing.                                   *)
LEMMA EmptyContents ==
  ASSUME NEW q PROVE ContentsIn(q, 0, 0) = <<>>
BY TasksAssumption, SMT DEF ContentsIn, UnreadIn, Mask

(* A queue whose three fields stay the same shows the same messages.       *)
LEMMA SameContents ==
  ASSUME NEW p, msg_queue'[p] = msg_queue[p], msg_head'[p] = msg_head[p],
         msg_tail'[p] = msg_tail[p]
  PROVE  Contents(p)' = Contents(p)
BY DEF Contents, ContentsIn, UnreadIn, SlotAt, Mask

(* Initially all queues are empty.                                         *)
LEMMA QueueInit == Init => QueueInv
<1> SUFFICES ASSUME Init PROVE QueueInv
  OBVIOUS
<1>1. \A p \in Tid : Contents(p) = <<>>
  BY EmptyContents DEF Init, Contents
<1>2. \A p \in Tid : sent[p] = <<>> /\ got[p] = <<>> /\ pc[p] # "pushWait"
  BY DEF Init
<1>3. <<>> \o <<>> = <<>> /\ <<>> \in Seq(Tid)
  OBVIOUS
<1>4. QED
  BY <1>1, <1>2, <1>3 DEF QueueInv, FifoUntilOverrun

(* What a step can do to the queues: nothing, start one afresh, take the   *)
(* oldest message of one, or put the exiting task's notice into one.       *)
TakeFrom(p) ==
  /\ msg_tail' = [msg_tail EXCEPT ![p] = Mask(msg_tail[p]) + 1]
  /\ Mask(msg_tail[p]) # msg_head[p]
  /\ got' = [got EXCEPT ![p] = Append(@, msg_queue[p][Mask(msg_tail[p])])]
  /\ UNCHANGED <<msg_queue, msg_head, sent, overrun>>

PutInto(p) ==
  /\ msg_queue' = [msg_queue EXCEPT ![p][msg_head[p]] = curr]
  /\ msg_head' = [msg_head EXCEPT ![p] = Mask(msg_head[p] + 1)]
  /\ sent' = [sent EXCEPT ![p] = Append(@, curr)]
  /\ overrun' = [overrun EXCEPT ![p] = @ \/ Unread(p) = QSize - 1]
  /\ UNCHANGED <<msg_tail, got>>

(* Taking: the box loses its oldest message, which is what was returned.   *)
LEMMA TakeStep ==
  ASSUME TypeOK, NEW p \in Tid, TakeFrom(p)
  PROVE  /\ Contents(p) # <<>>
         /\ Contents(p)' = Tail(Contents(p))
         /\ Contents(p) = <<msg_queue[p][Mask(msg_tail[p])]>> \o Contents(p)'
         /\ \A r \in Tid : r # p => Contents(r)' = Contents(r)
<1> DEFINE tl == Mask(msg_tail[p])
<1>1. /\ msg_queue[p] \in Queue /\ msg_head[p] \in Slot
      /\ msg_tail[p] \in 0 .. QSize /\ tl \in Slot
  BY MaskRange DEF TypeOK, Queue, Notice
<1>2. /\ msg_tail'[p] = tl + 1 /\ msg_head'[p] = msg_head[p] /\ tl # msg_head[p]
      /\ msg_queue'[p] = msg_queue[p]
  BY DEF TakeFrom, TypeOK
<1>3. Contents(p) = ContentsIn(msg_queue[p], msg_head[p], tl)
  BY <1>1, ContentsType DEF Contents
<1>4. Contents(p)' = ContentsIn(msg_queue[p], msg_head[p], tl + 1)
  BY <1>2 DEF Contents, ContentsIn, UnreadIn, SlotAt, Mask
<1>5. ASSUME NEW r \in Tid, r # p PROVE Contents(r)' = Contents(r)
  BY <1>5, SameContents DEF TakeFrom, TypeOK
<1> HIDE DEF tl
<1>6. /\ ContentsIn(msg_queue[p], msg_head[p], tl) # <<>>
      /\ ContentsIn(msg_queue[p], msg_head[p], tl + 1)
           = Tail(ContentsIn(msg_queue[p], msg_head[p], tl))
      /\ ContentsIn(msg_queue[p], msg_head[p], tl)
           = <<msg_queue[p][tl]>> \o ContentsIn(msg_queue[p], msg_head[p], tl + 1)
  BY <1>1, <1>2, PopContents
<1>7. QED
  BY <1>3, <1>4, <1>5, <1>6 DEF tl

(* Putting: the box gains the notice, or is emptied by its last slot.      *)
LEMMA PutStep ==
  ASSUME TypeOK, NEW p \in Tid, PutInto(p)
  PROVE  /\ Contents(p)' = IF Unread(p) = QSize - 1 THEN <<>>
                                                  ELSE Append(Contents(p), curr)
         /\ Len(Contents(p)) = Unread(p)
         /\ \A r \in Tid : r # p => Contents(r)' = Contents(r)
<1> DEFINE hd2 == Mask(msg_head[p] + 1)
           q2 == [msg_queue[p] EXCEPT ![msg_head[p]] = curr]
<1>1. /\ msg_queue[p] \in Queue /\ msg_head[p] \in Slot
      /\ msg_tail[p] \in 0 .. QSize /\ curr \in Notice
  BY DEF TypeOK, Queue, Notice
<1>2. msg_tail'[p] = msg_tail[p] /\ msg_head'[p] = hd2 /\ msg_queue'[p] = q2
  BY DEF PutInto, TypeOK
<1>3. Contents(p)' = ContentsIn(q2, hd2, msg_tail[p])
  BY <1>2 DEF Contents, ContentsIn, UnreadIn, SlotAt, Mask
<1>4. /\ Unread(p) # QSize - 1 =>
           ContentsIn(q2, hd2, msg_tail[p])
             = Append(ContentsIn(msg_queue[p], msg_head[p], msg_tail[p]), curr)
      /\ Unread(p) = QSize - 1 => ContentsIn(q2, hd2, msg_tail[p]) = <<>>
  <2> DEFINE q == msg_queue[p]
             hd == msg_head[p]
             tl == msg_tail[p]
  <2>1. /\ q \in Queue /\ hd \in Slot /\ tl \in 0 .. QSize /\ curr \in Notice
        /\ q2 = Stored(q, hd, curr) /\ hd2 = Mask(hd + 1)
    BY <1>1 DEF Stored
  <2> HIDE DEF q, hd, tl, q2, hd2
  <2>2. /\ UnreadIn(hd, tl) # QSize - 1 =>
             ContentsIn(q2, hd2, tl) = Append(ContentsIn(q, hd, tl), curr)
        /\ UnreadIn(hd, tl) = QSize - 1 => ContentsIn(q2, hd2, tl) = <<>>
    BY <2>1, PushContents
  <2>3. QED
    BY <2>2 DEF Unread, q, hd, tl
<1>5. Len(Contents(p)) = Unread(p)
  <2>1. Len(ContentsIn(msg_queue[p], msg_head[p], msg_tail[p]))
          = UnreadIn(msg_head[p], msg_tail[p])
    BY <1>1, ContentsType
  <2>2. QED
    BY <2>1 DEF Contents, Unread
<1>6. ASSUME NEW r \in Tid, r # p PROVE Contents(r)' = Contents(r)
  BY <1>6, SameContents DEF PutInto, TypeOK
<1> HIDE DEF hd2, q2
<1>7. QED
  BY <1>3, <1>4, <1>5, <1>6 DEF Contents

(* Every step is one of the four.                                          *)
LEMMA QueueSteps ==
  ASSUME Core, [Next]_vars
  PROVE  \/ /\ UNCHANGED <<sent, got, overrun, live, tid_counter>>
            /\ \A p \in Tid : Contents(p)' = Contents(p)
            /\ \A t \in Tid : pc'[t] = "pushWait" =>
                 pc[t] = "pushWait" /\ waitOn'[t] = waitOn[t]
         \/ /\ UNCHANGED <<sent, got, overrun, tid_counter>>
            /\ \A p \in Tid : Contents(p)' = Contents(p)
            /\ \E p \in live : live' = live \ {p}
            /\ \A t \in Tid : pc'[t] = "pushWait" =>
                 pc[t] = "pushWait" /\ waitOn'[t] = waitOn[t]
         \/ \E n \in Tid :
              /\ n \notin live /\ live' = live \cup {n}
              /\ n = tid_counter + 1 /\ tid_counter' = n
              /\ UNCHANGED <<sent, got, overrun>>
              /\ Contents(n)' = <<>>
              /\ \A p \in Tid \ {n} : Contents(p)' = Contents(p)
              /\ \A t \in Tid : pc'[t] = "pushWait" =>
                   pc[t] = "pushWait" /\ waitOn'[t] = waitOn[t]
         \/ /\ \E p \in live : TakeFrom(p)
            /\ UNCHANGED <<live, tid_counter>>
            /\ \A t \in Tid : pc'[t] = "pushWait" =>
                 pc[t] = "pushWait" /\ waitOn'[t] = waitOn[t]
         \/ \E p \in live :
              /\ curr \in Tid
              /\ PutInto(p) /\ UNCHANGED <<live, tid_counter>>
              /\ \A t \in Tid : pc'[t] = "pushWait" =>
                   \/ pc[t] = "pushWait" /\ waitOn'[t] = waitOn[t]
                   \/ waitOn'[t] = p /\ msg_tail[p] = Mask(msg_head[p] + 1)
<1> DEFINE SameWait == \A t \in Tid : pc'[t] = "pushWait" =>
                          pc[t] = "pushWait" /\ waitOn'[t] = waitOn[t]
           SameBoxes == \A p \in Tid : Contents(p)' = Contents(p)
<1> USE TasksAssumption DEF Core
<1>0. /\ curr \in live /\ live \subseteq Tid /\ curr \in Tid
      /\ pc \in [Tid -> Pc] /\ waitOn \in [Tid -> Tid \cup {Null}]
  BY DEF RingInv, SchedulerOnLiveRing, TypeOK
<1>1. UNCHANGED <<msg_queue, msg_head, msg_tail>> => SameBoxes
  BY SameContents
<1>2. CASE Dispatch \/ ReapBadFree \/ ReapHead \/ UNCHANGED vars
  BY <1>1, <1>2 DEF Dispatch, ReapBadFree, ReapHead, vars, ringVars, queueVars, taskVars
<1>3. CASE Reap
  <2>1. cpu # "spin" /\ next[curr] \in live
    BY <1>3 DEF Reap, RingInv, RingIsTidOrdered, SchedulerOnLiveRing
  <2>2. /\ UNCHANGED <<queueVars, taskVars, tid_counter>>
        /\ live' = live \ {next[curr]}
    BY <1>3 DEF Reap, NextTask
  <2>3. QED
    BY <1>1, <2>1, <2>2 DEF queueVars, taskVars
<1>4. CASE Spawn \/ SpawnNoCwd
  <2>1. PICK n \in Tid :
          /\ TaskNew(n)
          /\ \/ pc' = [pc EXCEPT ![n] = "user"]
             \/ pc' = [pc EXCEPT ![n] = "unloaded", ![curr] = "krnlTab"]
    BY <1>4 DEF Spawn, SpawnNoCwd
  <2>2. /\ n = tid_counter + 1 /\ tid_counter' = n /\ live' = live \cup {n}
        /\ UNCHANGED <<waitOn, sent, got, overrun>>
    BY <2>1 DEF TaskNew
  <2>3. n \notin live
    <3>1. (\A t \in live : t <= tid_counter) /\ tid_counter \in Nat
      BY DEF RingInv, TypeOK, Tid
    <3>2. QED
      BY <2>2, <3>1
  <2>4. Contents(n)' = <<>>
    BY <2>1, EmptyContents DEF TaskNew, TypeOK, Contents
  <2>5. \A p \in Tid \ {n} : Contents(p)' = Contents(p)
    BY <2>1, SameContents DEF TaskNew, TypeOK
  <2>6. SameWait
    BY <1>0, <2>1, <2>2
  <2>7. QED
    BY <2>2, <2>3, <2>4, <2>5, <2>6
<1>5. CASE Yield
  <2>1. SameWait
    BY <1>0, <1>5 DEF Yield, Runs
  <2>2. QED
    BY <1>1, <1>5, <2>1 DEF Yield, ringVars, queueVars
<1>6. ASSUME NEW tl, tl = Mask(msg_tail[curr]), PopFrom(tl),
             UNCHANGED <<ringVars, curr, msg_queue, msg_head, sent, overrun,
                         state, creator, halfMade, waitOn>>
      PROVE  \/ SameBoxes /\ SameWait /\ UNCHANGED <<sent, got, overrun, live, tid_counter>>
             \/ /\ \E p \in live : TakeFrom(p)
                /\ SameWait /\ UNCHANGED <<live, tid_counter>>
  <2>1. SameWait
    BY <1>0, <1>6 DEF PopFrom
  <2>2. CASE Empty(tl)
    <3>1. msg_tail' = [msg_tail EXCEPT ![curr] = tl] /\ got' = got
      BY <1>6, <2>2 DEF PopFrom
    <3>2. Contents(curr)' = Contents(curr)
      <4>1. /\ msg_tail[curr] \in 0 .. QSize /\ msg_head[curr] \in Slot
            /\ msg_queue[curr] \in Queue
        BY <1>0 DEF TypeOK, Queue, Notice
      <4>2. ContentsIn(msg_queue[curr], msg_head[curr], msg_tail[curr])
              = ContentsIn(msg_queue[curr], msg_head[curr], tl)
        <5>1. ContentsIn(msg_queue[curr], msg_head[curr], msg_tail[curr])
                = ContentsIn(msg_queue[curr], msg_head[curr], Mask(msg_tail[curr]))
          <6> DEFINE q == msg_queue[curr]
                     hd == msg_head[curr]
                     tail == msg_tail[curr]
                  <6>1. q \in Queue /\ hd \in Slot /\ tail \in 0 .. QSize
            BY <4>1
          <6> HIDE DEF q, hd, tail
          <6>2. ContentsIn(q, hd, tail) = ContentsIn(q, hd, Mask(tail))
            BY <6>1, ContentsType
          <6>3. QED
            BY <6>2 DEF q, hd, tail
        <5>2. QED
          BY <1>6, <5>1
      <4>3. /\ msg_tail'[curr] = tl /\ msg_queue'[curr] = msg_queue[curr]
            /\ msg_head'[curr] = msg_head[curr] /\ curr' = curr
        BY <1>0, <1>6, <3>1 DEF TypeOK
      <4>4. Contents(curr)' = ContentsIn(msg_queue[curr], msg_head[curr], tl)
        BY <4>3 DEF Contents, ContentsIn, UnreadIn, SlotAt, Mask
      <4>5. QED
        BY <4>2, <4>4 DEF Contents
    <3>3. \A p \in Tid : p # curr => Contents(p)' = Contents(p)
      BY <1>6, <3>1, SameContents DEF TypeOK
    <3>4. QED
      BY <1>6, <2>1, <3>1, <3>2, <3>3 DEF ringVars
  <2>3. CASE ~Empty(tl)
    <3>1. TakeFrom(curr)
      BY <1>6, <2>3 DEF PopFrom, Empty, TakeFrom
    <3>2. QED
      BY <1>0, <1>6, <2>1, <3>1 DEF ringVars
  <2>4. QED
    BY <2>2, <2>3
<1>7. CASE Gmsg
  BY <1>0, <1>6, <1>7 DEF Gmsg
<1>8. CASE GmsgResume
  <2>1. msg_tail[curr] = Mask(msg_tail[curr])
    BY <1>0, <1>8, MaskRange DEF GmsgResume, Runs, ControlInv, TypeOK
  <2>2. QED
    BY <1>0, <1>6, <1>8, <2>1 DEF GmsgResume
<1>9. CASE Exit
  <2> DEFINE dest == Find(creator[curr])
             hd == Mask(msg_head[dest] + 1)
  <2>1. UNCHANGED <<live, tid_counter>>
    BY <1>9 DEF Exit, ringVars
  <2>2. CASE dest = Null
    <3>1. Die /\ UNCHANGED queueVars
      BY <1>9, <2>2 DEF Exit
    <3>2. SameWait
      BY <1>0, <3>1 DEF Die
    <3>3. QED
      BY <1>1, <2>1, <3>1, <3>2 DEF queueVars
  <2>3. CASE dest # Null
    <3>1. dest \in live
      BY <2>3 DEF Find
    <3>2. /\ PutInto(dest)
          /\ IF Full(dest, hd) THEN WaitPush(dest) ELSE Die
      BY <1>9, <2>3 DEF Exit, PutInto, Store
    <3> HIDE DEF dest
    <3>3. \A t \in Tid : pc'[t] = "pushWait" =>
            \/ pc[t] = "pushWait" /\ waitOn'[t] = waitOn[t]
            \/ waitOn'[t] = dest /\ msg_tail[dest] = hd
      <4>1. CASE Full(dest, hd)
        BY <1>0, <3>2, <4>1 DEF WaitPush, Full
      <4>2. CASE ~Full(dest, hd)
        BY <1>0, <3>2, <4>2 DEF Die
      <4>3. QED
        BY <4>1, <4>2
    <3>4. QED
      BY <1>0, <2>1, <3>1, <3>2, <3>3
  <2>4. QED
    BY <2>2, <2>3
<1>10. CASE PushResume
  <2>1. /\ pc[curr] = "pushWait"
        /\ Die \/ WaitPush(waitOn[curr])
        /\ UNCHANGED <<ringVars, queueVars>>
    BY <1>10 DEF PushResume, Runs
  <2>2. SameWait
    BY <1>0, <2>1 DEF Die, WaitPush
  <2>3. QED
    BY <1>1, <2>1, <2>2 DEF ringVars, queueVars
<1>11. QED
  BY <1>2, <1>3, <1>4, <1>5, <1>7, <1>8, <1>9, <1>10 DEF Next, Scheduler

(* A sequence of tids is a sequence of notices, and appending one keeps it *)
(* so; what was got, what waits and what comes in concatenate in order.    *)
LEMMA SeqTidFacts ==
  ASSUME NEW s \in Seq(Tid), NEW g, NEW c, s = g \o c, NEW m \in Tid,
         g \in Seq(Notice), c \in Seq(Tid)
  PROVE  Append(s, m) = g \o Append(c, m)
<1>1. c \in Seq(Notice) /\ <<m>> \in Seq(Notice)
  BY DEF Notice
<1>2. (g \o c) \o <<m>> = g \o (c \o <<m>>)
  BY <1>1, ConcatAssociative
<1>3. Append(s, m) = s \o <<m>> /\ Append(c, m) = c \o <<m>>
  BY AppendIsConcat
<1>4. QED
  BY <1>2, <1>3

(* Moving the oldest waiting message to what was got keeps the whole.      *)
LEMMA MoveOldest ==
  ASSUME NEW g \in Seq(Notice), NEW m \in Notice, NEW d \in Seq(Notice)
  PROVE  g \o (<<m>> \o d) = Append(g, m) \o d
<1>1. <<m>> \in Seq(Notice)
  OBVIOUS
<1>2. g \o (<<m>> \o d) = (g \o <<m>>) \o d
  BY <1>1, ConcatAssociative
<1>3. QED
  BY <1>2, AppendIsConcat

(* Every step keeps the queue invariant.                                   *)
LEMMA QueueStep == Core /\ QueueInv /\ [Next]_vars => QueueInv'
<1> SUFFICES ASSUME Core, QueueInv, [Next]_vars PROVE QueueInv'
  OBVIOUS
<1>0. /\ tid_counter \in Nat /\ curr \in Tid /\ live \subseteq Tid
      /\ sent \in [Tid -> Seq(Tid)] /\ got \in [Tid -> Seq(Notice)]
      /\ overrun \in [Tid -> BOOLEAN]
  BY DEF Core, TypeOK, Tid, Notice
<1>1. ASSUME UNCHANGED <<sent, got, overrun>>, tid_counter' >= tid_counter,
             tid_counter' \in Nat,
             \A p \in Tid :
               \/ Contents(p)' = Contents(p)
               \/ p = tid_counter' /\ p > tid_counter /\ Contents(p)' = <<>>,
             \A t \in Tid : pc'[t] = "pushWait" =>
               pc[t] = "pushWait" /\ waitOn'[t] = waitOn[t]
      PROVE  QueueInv'
  <2>1. \A p \in Tid : Contents(p)' = Contents(p)
    BY <1>1 DEF QueueInv
  <2>2. \A p \in Tid : p > tid_counter' => p > tid_counter
    BY <1>0, <1>1 DEF Tid
  <2>3. (\A p \in Tid : Contents(p) \in Seq(Tid))'
    BY <2>1 DEF QueueInv
  <2>4. FifoUntilOverrun'
    BY <1>1, <2>1 DEF QueueInv, FifoUntilOverrun
  <2>5. (\A t \in Tid : pc[t] = "pushWait" => overrun[waitOn[t]])'
    BY <1>1 DEF QueueInv
  <2>6. (\A p \in Tid : p > tid_counter =>
           sent[p] = <<>> /\ got[p] = <<>> /\ Contents(p) = <<>>)'
    BY <1>1, <2>1, <2>2 DEF QueueInv
  <2>7. QED
    BY <2>3, <2>4, <2>5, <2>6 DEF QueueInv
<1>2. ASSUME NEW o \in live, TakeFrom(o), UNCHANGED <<live, tid_counter>>,
             \A t \in Tid : pc'[t] = "pushWait" =>
               pc[t] = "pushWait" /\ waitOn'[t] = waitOn[t]
      PROVE  QueueInv'
  <2> DEFINE m == msg_queue[o][Mask(msg_tail[o])]
  <2>0. o <= tid_counter /\ o \in Tid
    BY <1>0 DEF Core, RingInv
  <2>1. /\ Contents(o) # <<>>
        /\ Contents(o)' = Tail(Contents(o))
        /\ Contents(o) = <<m>> \o Contents(o)'
        /\ \A r \in Tid : r # o => Contents(r)' = Contents(r)
    BY <1>2, <2>0, TakeStep DEF Core
  <2>2. /\ got' = [got EXCEPT ![o] = Append(@, m)]
        /\ UNCHANGED <<sent, overrun>>
    BY <1>2 DEF TakeFrom
  <2>3. \A p \in Tid : Contents(p) \in Seq(Tid)
    BY DEF QueueInv
  <2> HIDE DEF m
  <2>5. Contents(o)' \in Seq(Tid)
    BY <2>0, <2>1, <2>3, HeadTailProperties
  <2>6. m \in Notice
    <3>1. msg_tail[o] \in 0 .. QSize /\ msg_queue[o] \in [Slot -> Notice]
      BY <2>0 DEF Core, TypeOK, Notice
    <3>2. QED
      BY <3>1, MaskRange DEF m
  <2>7. got[o] \o Contents(o) = Append(got[o], m) \o Contents(o)'
    <3> DEFINE g == got[o]
               d == Contents(o)'
    <3>1. g \in Seq(Notice) /\ d \in Seq(Notice)
      BY <1>0, <2>0, <2>5 DEF Notice
    <3> HIDE DEF g, d
    <3>2. g \o (<<m>> \o d) = Append(g, m) \o d
      BY <2>6, <3>1, MoveOldest
    <3>3. QED
      BY <2>1, <3>2 DEF g, d
  <2>8. FifoUntilOverrun'
    <3>1. SUFFICES ASSUME NEW p \in Tid, ~overrun'[p]
                   PROVE  sent'[p] = got'[p] \o Contents(p)'
      BY DEF FifoUntilOverrun
    <3>2. sent[p] = got[p] \o Contents(p)
      BY <2>2, <3>1 DEF QueueInv, FifoUntilOverrun
    <3>3. CASE p = o
      BY <1>0, <2>0, <2>2, <2>7, <3>2, <3>3
    <3>4. CASE p # o
      BY <1>0, <2>1, <2>2, <3>2, <3>4
    <3>5. QED
      BY <3>3, <3>4
  <2>9. (\A p \in Tid : p > tid_counter =>
           sent[p] = <<>> /\ got[p] = <<>> /\ Contents(p) = <<>>)'
    <3>1. \A p \in Tid : p > tid_counter => p # o
      BY <1>0, <2>0 DEF Tid
    <3>2. QED
      BY <1>0, <1>2, <2>1, <2>2, <3>1 DEF QueueInv
  <2>10. (\A t \in Tid : pc[t] = "pushWait" => overrun[waitOn[t]])'
    BY <1>2, <2>2 DEF QueueInv
  <2>11. (\A p \in Tid : Contents(p) \in Seq(Tid))'
    BY <2>1, <2>3, <2>5
  <2>12. QED
    BY <2>8, <2>9, <2>10, <2>11 DEF QueueInv
<1>3. ASSUME NEW p \in live, PutInto(p), UNCHANGED <<live, tid_counter>>,
             \A t \in Tid : pc'[t] = "pushWait" =>
               \/ pc[t] = "pushWait" /\ waitOn'[t] = waitOn[t]
               \/ waitOn'[t] = p /\ msg_tail[p] = Mask(msg_head[p] + 1)
      PROVE  QueueInv'
  <2>0. p \in Tid /\ p <= tid_counter
    BY <1>0 DEF Core, RingInv
  <2>1. /\ Contents(p)' = IF Unread(p) = QSize - 1 THEN <<>>
                                                  ELSE Append(Contents(p), curr)
        /\ \A r \in Tid : r # p => Contents(r)' = Contents(r)
    BY <1>3, <2>0, PutStep DEF Core
  <2>2. /\ sent' = [sent EXCEPT ![p] = Append(@, curr)]
        /\ overrun' = [overrun EXCEPT ![p] = @ \/ Unread(p) = QSize - 1]
        /\ got' = got
    BY <1>3 DEF PutInto
  <2>3. \A r \in Tid : Contents(r) \in Seq(Tid)
    BY DEF QueueInv
  <2>4. (\A r \in Tid : Contents(r) \in Seq(Tid))'
    <3>1. Append(Contents(p), curr) \in Seq(Tid) /\ <<>> \in Seq(Tid)
      BY <1>0, <2>0, <2>3, AppendProperties
    <3>2. QED
      BY <2>1, <2>3, <3>1
  <2>5. /\ overrun'[p] = (overrun[p] \/ Unread(p) = QSize - 1)
        /\ \A r \in Tid : r # p => overrun'[r] = overrun[r]
    BY <1>0, <2>0, <2>2, Zenon
  <2>6. FifoUntilOverrun'
    <3>1. SUFFICES ASSUME NEW r \in Tid, ~overrun'[r]
                   PROVE  sent'[r] = got'[r] \o Contents(r)'
      BY DEF FifoUntilOverrun
    <3>2. CASE r = p
      <4>1. ~overrun[p] /\ Unread(p) # QSize - 1
        BY <2>5, <3>1, <3>2
      <4>2. sent[p] = got[p] \o Contents(p)
        BY <2>0, <4>1 DEF QueueInv, FifoUntilOverrun
      <4>3. Append(sent[p], curr) = got[p] \o Append(Contents(p), curr)
        <5> DEFINE s == sent[p]
                   g == got[p]
                   c == Contents(p)
                   m == curr
        <5>1. /\ s \in Seq(Tid) /\ g \in Seq(Notice) /\ c \in Seq(Tid)
              /\ s = g \o c /\ m \in Tid
          BY <1>0, <2>0, <2>3, <4>2
        <5> HIDE DEF s, g, c, m
        <5>2. Append(s, m) = g \o Append(c, m)
          BY <5>1, SeqTidFacts
        <5>3. QED
          BY <5>2 DEF s, g, c, m
      <4>4. QED
        BY <1>0, <2>0, <2>1, <2>2, <3>2, <4>1, <4>3
    <3>3. CASE r # p
      <4>1. sent[r] = got[r] \o Contents(r)
        BY <2>5, <3>1, <3>3 DEF QueueInv, FifoUntilOverrun
      <4>2. QED
        BY <1>0, <2>1, <2>2, <3>3, <4>1
    <3>4. QED
      BY <3>2, <3>3
  <2>7. (\A r \in Tid : r > tid_counter =>
           sent[r] = <<>> /\ got[r] = <<>> /\ Contents(r) = <<>>)'
    <3>1. \A r \in Tid : r > tid_counter => r # p
      BY <1>0, <2>0 DEF Tid
    <3>2. QED
      BY <1>0, <1>3, <2>1, <2>2, <3>1 DEF QueueInv
  <2>8. (\A t \in Tid : pc[t] = "pushWait" => overrun[waitOn[t]])'
    <3>1. SUFFICES ASSUME NEW t \in Tid, pc'[t] = "pushWait"
                   PROVE  overrun'[waitOn'[t]]
      OBVIOUS
    <3>2. CASE pc[t] = "pushWait" /\ waitOn'[t] = waitOn[t]
      <4>1. overrun[waitOn[t]] /\ waitOn[t] \in Tid
        BY <3>2 DEF QueueInv, Core, ControlInv
      <4>2. QED
        BY <2>5, <3>2, <4>1
    <3>3. CASE waitOn'[t] = p /\ msg_tail[p] = Mask(msg_head[p] + 1)
      <4>1. msg_head[p] \in Slot /\ msg_tail[p] \in 0 .. QSize
        BY <2>0 DEF Core, TypeOK
      <4>2. Unread(p) = QSize - 1
        BY <3>3, <4>1, TasksAssumption, SMT DEF Unread, UnreadIn, Mask, Slot
      <4>3. QED
        BY <2>5, <3>3, <4>2
    <3>4. QED
      BY <1>3, <3>1, <3>2, <3>3
  <2>9. QED
    BY <2>4, <2>6, <2>7, <2>8 DEF QueueInv
<1>4. QED
  <2>1. \A n \in Tid : n = tid_counter + 1 =>
          tid_counter < n /\ n > tid_counter /\ n \in Nat
    BY <1>0 DEF Tid
  <2>2. CASE /\ UNCHANGED <<sent, got, overrun, tid_counter>>
             /\ \A q \in Tid : Contents(q)' = Contents(q)
             /\ \A t \in Tid : pc'[t] = "pushWait" =>
                  pc[t] = "pushWait" /\ waitOn'[t] = waitOn[t]
    <3>1. tid_counter' >= tid_counter /\ tid_counter' \in Nat
      BY <1>0, <2>2
    <3>2. QED
      BY <1>1, <2>2, <3>1
  <2>3. CASE \E n \in Tid :
               /\ n = tid_counter + 1 /\ tid_counter' = n
               /\ UNCHANGED <<sent, got, overrun>>
               /\ Contents(n)' = <<>>
               /\ \A q \in Tid \ {n} : Contents(q)' = Contents(q)
               /\ \A t \in Tid : pc'[t] = "pushWait" =>
                    pc[t] = "pushWait" /\ waitOn'[t] = waitOn[t]
    <3>1. PICK n \in Tid :
               /\ n = tid_counter + 1 /\ tid_counter' = n
               /\ UNCHANGED <<sent, got, overrun>>
               /\ Contents(n)' = <<>>
               /\ \A q \in Tid \ {n} : Contents(q)' = Contents(q)
               /\ \A t \in Tid : pc'[t] = "pushWait" =>
                    pc[t] = "pushWait" /\ waitOn'[t] = waitOn[t]
      BY <2>3
    <3>2. /\ tid_counter' >= tid_counter /\ tid_counter' \in Nat
          /\ n = tid_counter' /\ n > tid_counter
      BY <1>0, <2>1, <3>1
    <3>3. \A q \in Tid :
            \/ Contents(q)' = Contents(q)
            \/ q = tid_counter' /\ q > tid_counter /\ Contents(q)' = <<>>
      <4>1. SUFFICES ASSUME NEW q \in Tid
                     PROVE  \/ Contents(q)' = Contents(q)
                            \/ q = tid_counter' /\ q > tid_counter /\ Contents(q)' = <<>>
        OBVIOUS
      <4>2. CASE q = n
        <5>1. Contents(q)' = <<>>
          BY <3>1, <4>2
        <5>2. QED
          BY <3>2, <4>2, <5>1
      <4>3. CASE q # n
        BY <3>1, <4>3
      <4>4. QED
        BY <4>2, <4>3
    <3>4. QED
      BY <1>1, <3>1, <3>2, <3>3
  <2>4. QED
    BY <1>2, <1>3, <2>2, <2>3, QueueSteps
-----------------------------------------------------------------------------
(* Death notices.  NoticeInv adds to NoticeBeforeDeath that a task waiting *)
(* to finish its push has stored the notice already.                       *)
Told(s, t) == \E k \in DOMAIN s : s[k] = t

NoticeInv ==
  \A t \in live :
    /\ pc[t] \in {"pushWait", "dead"}
    /\ creator[t] \in live
    /\ creator[t] < t
    => Told(sent[creator[t]], t)

(* Appending a notice adds it and loses none.                              *)
LEMMA AppendTold ==
  ASSUME NEW s \in Seq(Tid), NEW m \in Tid
  PROVE  /\ Told(Append(s, m), m)
         /\ \A t : Told(s, t) => Told(Append(s, m), t)
<1>1. /\ Append(s, m) \in Seq(Tid) /\ Len(Append(s, m)) = Len(s) + 1
      /\ \A i \in 1 .. Len(s) : Append(s, m)[i] = s[i]
      /\ Append(s, m)[Len(s) + 1] = m
  BY AppendProperties
<1>2. /\ Len(s) \in Nat /\ DOMAIN s = 1 .. Len(s)
      /\ DOMAIN Append(s, m) = 1 .. Len(s) + 1
  BY <1>1, LenProperties
<1>3. Len(s) + 1 \in DOMAIN Append(s, m)
  BY <1>2
<1>4. \A i \in DOMAIN s : i \in DOMAIN Append(s, m) /\ Append(s, m)[i] = s[i]
  BY <1>1, <1>2
<1>5. QED
  BY <1>1, <1>3, <1>4 DEF Told

(* Every step keeps the notice invariant.                                  *)
LEMMA NoticeStep == Core /\ NoticeInv /\ [Next]_vars => NoticeInv'
<1> DEFINE W == {"pushWait", "dead"}
<1> SUFFICES ASSUME Core, NoticeInv, [Next]_vars PROVE NoticeInv'
  OBVIOUS
<1>0. /\ curr \in live /\ live \subseteq Tid /\ curr \in Tid
      /\ pc \in [Tid -> Pc] /\ sent \in [Tid -> Seq(Tid)]
      /\ creator \in [Tid -> Tid \cup {Null}]
  BY DEF Core, RingInv, SchedulerOnLiveRing, TypeOK
<1>1. ASSUME UNCHANGED <<creator, sent>>, live' \subseteq live,
             \A t \in live : pc'[t] \in W => pc[t] \in W
      PROVE  NoticeInv'
  BY <1>1 DEF NoticeInv
<1>2. CASE Dispatch \/ ReapBadFree \/ ReapHead \/ UNCHANGED vars
  BY <1>1, <1>2 DEF Dispatch, ReapBadFree, ReapHead, vars, ringVars, queueVars, taskVars
<1>3. CASE Reap
  BY <1>1, <1>3 DEF Reap, queueVars, taskVars
<1>4. CASE Spawn \/ SpawnNoCwd
  <2>1. PICK n \in Tid, c \in Tid \cup {Null} :
          /\ TaskNew(n)
          /\ creator' = [creator EXCEPT ![n] = c]
          /\ \/ pc' = [pc EXCEPT ![n] = "user"]
             \/ pc' = [pc EXCEPT ![n] = "unloaded", ![curr] = "krnlTab"]
    BY <1>0, <1>4 DEF Spawn, SpawnNoCwd
  <2>2. /\ n = tid_counter + 1 /\ live' = live \cup {n} /\ sent' = sent
    BY <2>1 DEF TaskNew
  <2>3. \A t \in live : t <= tid_counter /\ t < n /\ t \in Nat
    BY <2>2 DEF Core, RingInv, TypeOK, Tid
  <2>4. SUFFICES ASSUME NEW t \in live', pc'[t] \in W, creator'[t] \in live',
                        creator'[t] < t
                 PROVE  Told(sent'[creator'[t]], t)
    BY DEF NoticeInv
  <2>5. pc'[n] \notin W
    BY <1>0, <2>1
  <2>6. t \in live /\ t # n
    BY <2>2, <2>4, <2>5
  <2>7. creator'[t] = creator[t] /\ pc[t] \in W
    BY <1>0, <2>1, <2>4, <2>6
  <2>8. creator[t] \in live
    <3>1. creator[t] # n
      BY <2>2, <2>3, <2>4, <2>6, <2>7
    <3>2. QED
      BY <2>2, <2>4, <2>7, <3>1
  <2>9. Told(sent[creator[t]], t)
    BY <2>4, <2>6, <2>7, <2>8 DEF NoticeInv
  <2>10. QED
    BY <2>2, <2>7, <2>9
<1>5. CASE Yield
  <2>1. \A t \in live : pc'[t] \in W => pc[t] \in W
    BY <1>0, <1>5 DEF Yield
  <2>2. QED
    BY <1>1, <1>5, <2>1 DEF Yield, ringVars, queueVars
<1>6. CASE Gmsg \/ GmsgResume
  <2>1. /\ UNCHANGED <<live, creator, sent>>
        /\ \E tl : PopFrom(tl)
    BY <1>6 DEF Gmsg, GmsgResume, ringVars
  <2>2. \A t \in live : pc'[t] \in W => pc[t] \in W
    BY <1>0, <2>1 DEF PopFrom
  <2>3. QED
    BY <1>1, <2>1, <2>2
<1>7. CASE PushResume
  <2>1. /\ UNCHANGED <<live, creator, sent>> /\ pc[curr] = "pushWait"
        /\ \E x \in {"pushWait", "dead"} : pc' = [pc EXCEPT ![curr] = x]
    BY <1>7 DEF PushResume, Runs, Die, WaitPush, ringVars, queueVars
  <2>2. QED
    BY <1>0, <1>1, <2>1
<1>8. CASE Exit
  <2> DEFINE dest == Find(creator[curr])
  <2>1. /\ UNCHANGED <<live, creator>>
        /\ \E x \in {"pushWait", "dead"} : pc' = [pc EXCEPT ![curr] = x]
        /\ dest = Null => sent' = sent
        /\ dest # Null => sent' = [sent EXCEPT ![dest] = Append(@, curr)]
    BY <1>8 DEF Exit, Die, WaitPush, ringVars, queueVars
  <2>2. /\ creator[curr] \in live => dest = creator[curr] /\ dest # Null
        /\ dest # Null => dest \in Tid
    BY <1>0 DEF Find, Tid, Null
  <2> HIDE DEF dest
  <2>3. ASSUME NEW p \in Tid, NEW t, Told(sent[p], t)
        PROVE  Told(sent'[p], t)
    <3>1. CASE dest = p
      <4>1. sent'[p] = Append(sent[p], curr) /\ sent[p] \in Seq(Tid)
        <5>1. dest # Null
          BY <3>1 DEF Tid, Null
        <5>2. QED
          BY <1>0, <2>1, <3>1, <5>1
      <4>2. QED
        BY <1>0, <2>3, <4>1, AppendTold
    <3>2. CASE dest # p
      BY <1>0, <2>1, <2>3, <3>2
    <3>3. QED
      BY <3>1, <3>2
  <2>4. SUFFICES ASSUME NEW t \in live, pc'[t] \in W, creator[t] \in live,
                        creator[t] < t
                 PROVE  Told(sent'[creator'[t]], t)
    BY <2>1 DEF NoticeInv
  <2>5. CASE t = curr
    <3>1. /\ sent'[creator[t]] = Append(sent[creator[t]], curr)
          /\ sent[creator[t]] \in Seq(Tid)
      BY <1>0, <2>1, <2>2, <2>4, <2>5
    <3>2. Told(Append(sent[creator[t]], curr), curr)
      BY <1>0, <3>1, AppendTold
    <3>3. QED
      BY <2>1, <2>5, <3>1, <3>2
  <2>6. CASE t # curr
    <3>1. pc[t] \in W
      BY <1>0, <2>1, <2>4, <2>6
    <3>2. Told(sent[creator[t]], t)
      BY <2>4, <3>1 DEF NoticeInv
    <3>3. QED
      BY <1>0, <2>1, <2>3, <2>4, <3>2
  <2>7. QED
    BY <2>5, <2>6
<1>9. QED
  BY <1>2, <1>3, <1>4, <1>5, <1>6, <1>7, <1>8 DEF Next, Scheduler
-----------------------------------------------------------------------------
(* The refinement.  A push is a Deposit, a successful pop a Withdraw, and  *)
(* creating and reaping a task open and close its box.                     *)
Boxes == [p \in Tid |-> Contents(p)]

LEMMA BoxInit == Init => Box!Init
<1> SUFFICES ASSUME Init PROVE Box!Init
  OBVIOUS
<1>1. \A p \in Tid : Contents(p) = <<>>
  BY EmptyContents DEF Init, Contents
<1>2. live \in SUBSET Tid
  BY TasksAssumption DEF Init, Tid
<1>3. QED
  BY <1>1, <1>2 DEF Box!Init

LEMMA BoxStep == Core /\ [Next]_vars => [Box!Next]_(Box!boxVars)
<1> SUFFICES ASSUME Core, [Next]_vars PROVE [Box!Next]_(Box!boxVars)
  OBVIOUS
<1>0. live \subseteq Tid /\ curr \in Tid
  BY DEF Core, TypeOK
<1>1. ASSUME \A p \in Tid : Contents(p)' = Contents(p)
      PROVE  Boxes' = Boxes
  BY <1>1 DEF Boxes
<1>2. CASE live' = live /\ \A p \in Tid : Contents(p)' = Contents(p)
  BY <1>1, <1>2 DEF Box!boxVars, Boxes
<1>3. CASE /\ \E p \in live : live' = live \ {p}
           /\ \A p \in Tid : Contents(p)' = Contents(p)
  <2>1. PICK p \in live : live' = live \ {p}
    BY <1>3
  <2>2. Box!Close(p)
    BY <1>1, <1>3, <2>1 DEF Box!Close, Boxes
  <2>3. QED
    BY <1>0, <2>2 DEF Box!Next
<1>4. ASSUME NEW n \in Tid, n \notin live, live' = live \cup {n},
             Contents(n)' = <<>>,
             \A p \in Tid \ {n} : Contents(p)' = Contents(p)
      PROVE  Box!Next
  <2>1. Boxes' = [Boxes EXCEPT ![n] = <<>>]
    BY <1>4 DEF Boxes
  <2>2. Box!Open(n)
    BY <1>4, <2>1 DEF Box!Open, Boxes
  <2>3. QED
    BY <2>2 DEF Box!Next
<1>5. ASSUME NEW p \in live, TakeFrom(p), live' = live
      PROVE  Box!Next
  <2>1. /\ Contents(p) # <<>>
        /\ Contents(p)' = Tail(Contents(p))
        /\ \A r \in Tid : r # p => Contents(r)' = Contents(r)
    BY <1>0, <1>5, TakeStep DEF Core
  <2>2. Boxes' = [Boxes EXCEPT ![p] = Tail(@)]
    BY <1>0, <2>1 DEF Boxes
  <2>3. Box!Withdraw(p)
    BY <1>0, <1>5, <2>1, <2>2 DEF Box!Withdraw, Boxes
  <2>4. QED
    BY <1>0, <2>3 DEF Box!Next
<1>6. ASSUME NEW p \in live, PutInto(p), live' = live
      PROVE  Box!Next
  <2>1. /\ Contents(p)' = IF Unread(p) = QSize - 1 THEN <<>>
                                                  ELSE Append(Contents(p), curr)
        /\ Len(Contents(p)) = Unread(p)
        /\ \A r \in Tid : r # p => Contents(r)' = Contents(r)
    BY <1>0, <1>6, PutStep DEF Core
  <2>2. Boxes' = [Boxes EXCEPT ![p] =
                    IF Len(@) = QSize - 1 THEN <<>> ELSE Append(@, curr)]
    BY <1>0, <2>1 DEF Boxes
  <2>3. Box!Deposit(p, curr)
    BY <1>0, <1>6, <2>2 DEF Box!Deposit, Boxes
  <2>4. QED
    BY <1>0, <2>3 DEF Box!Next
<1>7. QED
  BY <1>2, <1>3, <1>4, <1>5, <1>6, QueueSteps
-----------------------------------------------------------------------------
(* The theorems.                                                           *)

(* The three invariants, proved together.                                  *)
LEMMA Invariants == Spec => [](Core /\ QueueInv /\ NoticeInv)
<1>1. Init => Core /\ QueueInv /\ NoticeInv
  <2>1. Init => NoticeInv
    BY TasksAssumption DEF Init, NoticeInv, Tid
  <2>2. QED
    BY <2>1, CoreInit, QueueInit
<1>2. Core /\ QueueInv /\ NoticeInv /\ [Next]_vars => (Core /\ QueueInv /\ NoticeInv)'
  BY CoreStep, QueueStep, NoticeStep
<1>3. QED
  BY <1>1, <1>2, PTL DEF Spec

(* Every variable keeps its type; in particular the two queue indices stay *)
(* within the array whatever the interleaving of pushes and pops.          *)
THEOREM TypeCorrect == Spec => []TypeOK
<1>1. Core => TypeOK
  BY DEF Core
<1>2. QED
  BY <1>1, Invariants, PTL

(* The circular list of task_new and task_cleanup_zombie always links      *)
(* exactly the live tasks, oldest first.                                   *)
THEOREM RingCorrect == Spec => []RingIsTidOrdered
<1>1. Core => RingIsTidOrdered
  BY DEF Core, RingInv
<1>2. QED
  BY <1>1, Invariants, PTL

(* task_scheduler never leaves curr_task on a freed task and never gives   *)
(* the CPU to a dead one.                                                  *)
THEOREM SchedulerCorrect == Spec => []SchedulerOnLiveRing
<1>1. Core => SchedulerOnLiveRing
  BY DEF Core, RingInv
<1>2. QED
  BY <1>1, Invariants, PTL

(* Notices are returned by task_msgqueue_pop in the order in which         *)
(* task_msgqueue_push stored them, each once, until QSize of them wait.    *)
THEOREM QueueCorrect == Spec => []FifoUntilOverrun
<1>1. QueueInv => FifoUntilOverrun
  BY DEF QueueInv
<1>2. QED
  BY <1>1, Invariants, PTL

(* task_msgqueue_push makes an exiting task wait only when its creator's   *)
(* queue has been overrun.                                                 *)
THEOREM PushWaitCorrect == Spec => []PushWaitMeansOverrun
<1>1. Core /\ QueueInv => PushWaitMeansOverrun
  BY DEF Core, TypeOK, QueueInv, PushWaitMeansOverrun
<1>2. QED
  BY <1>1, Invariants, PTL

(* task_exit lets no task die untold: before the scheduler may free it,    *)
(* its notice is in its living creator's queue.                            *)
THEOREM NoticeCorrect == Spec => []NoticeBeforeDeath
<1>1. Core /\ NoticeInv => NoticeBeforeDeath
  BY DEF Core, ControlInv, NoticeInv, NoticeBeforeDeath, Told
<1>2. QED
  BY <1>1, Invariants, PTL

(* The three together: a parent that reads its queue learns of the death   *)
(* of each child, in order, unless its queue was overrun.                  *)
THEOREM NoticesCorrect == Spec => []NoticesArrive
<1>1. FifoUntilOverrun /\ PushWaitMeansOverrun /\ NoticeBeforeDeath => NoticesArrive
  BY DEF NoticesArrive
<1>2. QED
  BY <1>1, QueueCorrect, PushWaitCorrect, NoticeCorrect, PTL

(* The index arithmetic of task_msgqueue_push and task_msgqueue_pop        *)
(* implements the mailboxes of module Mailbox, for every number of slots.  *)
THEOREM QueuesImplementMailbox == Spec => ImplementsMailbox
<1>1. Spec => []Core
  BY Invariants, PTL
<1>2. QED
  BY <1>1, BoxInit, BoxStep, PTL DEF Spec, ImplementsMailbox, Box!Spec
=============================================================================
