-------------------------------- MODULE Nvme --------------------------------
(***************************************************************************)
(* Reading a disk: nvme_read_disk and nvme_send_io_cmd (src/src/nvme.c),   *)
(* with the controller they talk to.                                       *)
(*                                                                         *)
(* The driver puts a command into the submission queue, rings the          *)
(* doorbell, and looks at the slot of the completion queue with the same   *)
(* number until it is not zero.  The controller fetches the command, moves *)
(* the data and posts the completion with its phase bit, which changes     *)
(* each time it wraps around.  The processor does nothing else meanwhile,  *)
(* so a call of the driver is two steps: up to the wait, and after it.     *)
(*                                                                         *)
(* Data is counted in bytes; a byte of the disk stands for its contents.   *)
(***************************************************************************)
EXTENDS Integers, Sequences

CONSTANTS
  QSize,       \* slots of a queue (64)
  IdCount,     \* values of io_cmdid_c, a short (65536)
  Sector,      \* bytes of a sector (512)
  PerPage,     \* sectors of a page of the page heap (8)
  Request      \* what is read: records of off_bytes and num_bytes

ASSUME NvmeAssumption ==
  /\ QSize \in Nat /\ QSize > 2
  /\ IdCount \in Nat /\ IdCount > 1
  /\ Sector \in Nat \ {0} /\ PerPage \in Nat /\ PerPage > 1
  /\ Request \subseteq [off_bytes : Nat, num_bytes : Nat \ {0}]

VARIABLES
  isq,         \* submission queue
  icq,         \* completion queue: cint3_raw of each entry
  io_tail_i,   \* the driver's next slot in both
  io_cmdid_c,  \* the last command id
  doorbell,    \* the doorbells: sub, the tail; cmpl, the head
  ctrl,        \* the controller: its place in the queues, phase, and moved
  page,        \* the pages prp1 and prp2, and those of prp2_vm
  reading,     \* the request that is being read, or NoRequest
  last         \* the last read that returned: what it got, pages it lost

vars == <<isq, icq, io_tail_i, io_cmdid_c, doorbell, ctrl, page, reading, last>>

Slot  == 0 .. QSize - 1
Bytes == PerPage * Sector          \* 4096
Stale == -1                        \* what was in the memory before
Zero  == [phase |-> 0, cmd_id |-> 0]
NoRequest == [off_bytes |-> 0, num_bytes |-> 0]
NoCommand == [cid |-> 0, off_sects |-> 0, num_sects |-> 0]
Blank     == [b \in 0 .. Bytes - 1 |-> Stale]
-----------------------------------------------------------------------------
(* num_bytes in sectors, rounded up. *)
NumSects(r) == (r.num_bytes + Sector - 1) \div Sector

(* The entries of prp2, each a page of prp2_vm. *)
Entries(n) == IF n >= PerPage THEN (n - PerPage) \div PerPage + 1 ELSE 0

(* The slot after s. *)
NextSlot(s) == (s + 1) % QSize

(* ++io_cmdid_c. *)
NextId == (io_cmdid_c + 1) % IdCount

Init ==
  /\ isq = [s \in Slot |-> NoCommand]
  /\ icq = [s \in Slot |-> Zero]
  /\ io_tail_i = 0 /\ io_cmdid_c = 0
  /\ doorbell = [sub |-> 0, cmpl |-> 0]
  /\ ctrl = [head |-> 0, tail |-> 0, phase |-> 1, moved |-> FALSE]
  /\ page = [prp1 |-> Blank, prp2 |-> Blank, vm |-> <<>>]
  /\ reading = NoRequest
  /\ last = [req |-> NoRequest, buf |-> <<>>, lost |-> 0]

(* nvme_read_disk up to the wait in nvme_send_io_cmd. *)
Send(r) ==
  LET n == NumSects(r)
  IN  /\ reading = NoRequest
      /\ reading' = r
      /\ io_cmdid_c' = NextId
      /\ isq' = [isq EXCEPT ![io_tail_i] =
                   [cid |-> NextId, off_sects |-> r.off_bytes \div Sector,
                    num_sects |-> n]]
      /\ io_tail_i' = NextSlot(io_tail_i)
      /\ doorbell' = [doorbell EXCEPT !.sub = NextSlot(io_tail_i)]
      /\ page' = [prp1 |-> Blank, prp2 |-> Blank,
                  vm |-> [i \in 1 .. Entries(n) |-> Blank]]
      /\ last' = [req |-> NoRequest, buf |-> <<>>, lost |-> 0]
      /\ UNCHANGED <<icq, ctrl>>
-----------------------------------------------------------------------------
(* The controller moves the data of the next command.  It takes PRP2 for   *)
(* the second page when there are two, and for a list when there are more. *)
Transfer ==
  LET c == isq[ctrl.head]
      len == c.num_sects * Sector
      At(first, i) == IF first + i < len THEN c.off_sects * Sector + first + i
                                         ELSE Stale
      Filled(first) == [i \in 0 .. Bytes - 1 |-> At(first, i)]
  IN  /\ ctrl.head # doorbell.sub /\ ~ctrl.moved
      /\ ctrl' = [ctrl EXCEPT !.moved = TRUE]
      /\ page' = [prp1 |-> Filled(0),
                  prp2 |-> IF Bytes < len /\ len <= 2 * Bytes
                           THEN Filled(Bytes) ELSE page.prp2,
                  vm   |-> IF len > 2 * Bytes
                           THEN [i \in DOMAIN page.vm |-> Filled(i * Bytes)]
                           ELSE page.vm]
      /\ UNCHANGED <<isq, icq, io_tail_i, io_cmdid_c, doorbell, reading, last>>

(* It posts the completion, if its queue is not full. *)
Post ==
  /\ ctrl.moved
  /\ NextSlot(ctrl.tail) # doorbell.cmpl
  /\ icq' = [icq EXCEPT ![ctrl.tail] =
               [phase |-> ctrl.phase, cmd_id |-> isq[ctrl.head].cid]]
  /\ ctrl' = [head  |-> NextSlot(ctrl.head), tail |-> NextSlot(ctrl.tail),
              phase |-> IF NextSlot(ctrl.tail) = 0 THEN 1 - ctrl.phase
                                                   ELSE ctrl.phase,
              moved |-> FALSE]
  /\ UNCHANGED <<isq, io_tail_i, io_cmdid_c, doorbell, page, reading, last>>
-----------------------------------------------------------------------------
(* The slot the driver looks at. *)
Old == (io_tail_i + QSize - 1) % QSize

(* Leaving the entry for the next round (fault injection). *)
ClearedForgotten == icq

(* The completion queue with that entry overwritten. *)
Cleared == [icq EXCEPT ![Old] = Zero]

(* Not ringing (fault injection). *)
RungForgotten == doorbell

(* The doorbells when the entry was seen. *)
Rung == [doorbell EXCEPT !.cmpl = Old]

(* The byte i of rdbuf: the first page comes from prp1, one more sector    *)
(* from prp2, and anything longer from the pages of prp2_vm.               *)
Rdbuf(n, i) ==
  IF i >= n * Sector THEN Stale
  ELSE IF i < Bytes THEN page.prp1[i]
  ELSE IF n - PerPage = 1 THEN page.prp2[i - Bytes]
  ELSE page.vm[i \div Bytes][i % Bytes]

(* Leaving the page that is not full (fault injection). *)
FreedFull(n) == IF n <= PerPage + 1 THEN 0 ELSE (n - PerPage) \div PerPage

(* The pages of prp2_vm that the copying frees. *)
Freed(n) ==
  IF n <= PerPage + 1 THEN 0 ELSE (n - PerPage + PerPage - 1) \div PerPage

(* The rest of nvme_send_io_cmd and of nvme_read_disk, once cint3_raw is   *)
(* not 0.                                                                  *)
Return ==
  LET n   == NumSects(reading)
      off == reading.off_bytes % Sector
  IN  /\ reading # NoRequest /\ icq[Old] # Zero
      /\ doorbell' = Rung
      /\ icq' = Cleared
      /\ last' = [req  |-> reading,
                  buf  |-> [i \in 1 .. reading.num_bytes |-> Rdbuf(n, off + i - 1)],
                  lost |-> Entries(n) - Freed(n)]
      /\ page' = [prp1 |-> Blank, prp2 |-> Blank, vm |-> <<>>]
      /\ reading' = NoRequest
      /\ UNCHANGED <<isq, io_tail_i, io_cmdid_c, ctrl>>

Next ==
  \/ \E r \in Request : Send(r)
  \/ Transfer
  \/ Post
  \/ Return

Spec == Init /\ [][Next]_vars

(* The controller works, and the driver polls. *)
FairSpec == Spec /\ WF_vars(Transfer) /\ WF_vars(Post) /\ WF_vars(Return)
-----------------------------------------------------------------------------
Id == 0 .. IdCount - 1
Memory == [0 .. Bytes - 1 -> Nat \cup {Stale}]

TypeOK ==
  /\ isq \in [Slot -> [cid : Id, off_sects : Nat, num_sects : Nat]]
  /\ icq \in [Slot -> [phase : {0, 1}, cmd_id : Id]]
  /\ io_tail_i \in Slot /\ io_cmdid_c \in Id
  /\ doorbell \in [sub : Slot, cmpl : Slot]
  /\ ctrl \in [head : Slot, tail : Slot, phase : {0, 1}, moved : BOOLEAN]
  /\ page.prp1 \in Memory /\ page.prp2 \in Memory /\ page.vm \in Seq(Memory)
  /\ reading \in Request \cup {NoRequest}
  /\ last.req \in Request \cup {NoRequest}
  /\ last.buf \in Seq(Nat \cup {Stale}) /\ last.lost \in Int

(* Reads that do not depend on the two cases below give what is on the     *)
(* disk: the driver takes its own completion for its own, after the data   *)
(* arrived, however often the queues and the phase wrapped.  The cases: a  *)
(* read of more than PerPage + 1 sectors up to two pages, and one whose    *)
(* last byte lies past the sectors that its length was rounded to.         *)
TwoPages(r)  == NumSects(r) > PerPage + 1 /\ NumSects(r) <= 2 * PerPage
Straddles(r) == (r.off_bytes % Sector) + r.num_bytes > NumSects(r) * Sector
RightBytes   == \A i \in DOMAIN last.buf : last.buf[i] = last.req.off_bytes + i - 1

OtherReadsAreRight ==
  ~TwoPages(last.req) /\ ~Straddles(last.req) => RightBytes

(* Together: every read but those of the two divergences puts the sectors *)
(* that were asked for where they were asked for.                         *)
ReadsAreSound == TypeOK /\ OtherReadsAreRight

(* A command gives back all its pages, but for one when it reads whole     *)
(* pages or one sector more than a page: an entry too many was made, or    *)
(* not freed.                                                              *)
PagesComeBack ==
  last.lost = IF /\ NumSects(last.req) > 0
                 /\ \/ NumSects(last.req) % PerPage = 0
                    \/ NumSects(last.req) = PerPage + 1
              THEN 1 ELSE 0

(* Every command ends, but for the one with id 0 in a round with phase 0:  *)
(* its completion reads as zero, and the driver waits on.                  *)
CommandsEnd ==
  reading # NoRequest ~>
    \/ reading = NoRequest
    \/ io_cmdid_c = 0 /\ icq[Old] = Zero /\ ctrl.head = io_tail_i
=============================================================================
