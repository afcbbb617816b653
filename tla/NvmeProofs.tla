----------------------------- MODULE NvmeProofs -----------------------------
(***************************************************************************)
(* Proofs about reading a disk, for every size of the queues, of a sector  *)
(* and of a page, and for every request: the driver and the controller     *)
(* stay in step, a buffer is copied only after its data arrived, and which *)
(* commands lose a page.                                                   *)
(***************************************************************************)
EXTENDS Nvme, SequenceTheorems, TLAPS

(* The command is with the controller, in the slot before the tail.        *)
Fetched ==
  /\ reading # NoRequest
  /\ io_tail_i = NextSlot(ctrl.head)
  /\ isq[ctrl.head].off_sects = reading.off_bytes \div Sector
  /\ isq[ctrl.head].num_sects = NumSects(reading)

(* Driver and controller are in step: nothing is outstanding, or the one   *)
(* command that the driver waits for.                                      *)
InStep ==
  /\ doorbell.sub = io_tail_i /\ ctrl.tail = ctrl.head
  /\ \/ ctrl.head = io_tail_i /\ ~ctrl.moved
     \/ Fetched

(* A completion is there only after its command, and only where the driver *)
(* looks for it.                                                           *)
CompletionIsNew ==
  \A s \in Slot : icq[s] # Zero => reading # NoRequest /\ s = Old /\ ctrl.head = io_tail_i

(* What the pages hold when the sectors that r asks for have arrived.      *)
Arrived(r) ==
  LET n    == NumSects(r)
      base == (r.off_bytes \div Sector) * Sector
  IN  \A b \in 0 .. Bytes - 1 :
        /\ b < n * Sector => page.prp1[b] = base + b
        /\ Bytes + b < n * Sector /\ n <= 2 * PerPage => page.prp2[b] = base + (Bytes + b)
        /\ n > 2 * PerPage =>
             \A i \in 1 .. Entries(n) :
               i * Bytes + b < n * Sector => page.vm[i][b] = base + (i * Bytes + b)

DataFirst ==
  reading # NoRequest =>
    /\ Len(page.vm) = Entries(NumSects(reading))
    /\ ctrl.moved \/ ctrl.head = io_tail_i => Arrived(reading)

IInv ==
  /\ TypeOK
  /\ InStep /\ CompletionIsNew /\ DataFirst
  /\ OtherReadsAreRight /\ PagesComeBack
-----------------------------------------------------------------------------
(***************************************************************************)
(* Division.                                                               *)
(***************************************************************************)

LEMMA Division ==
  ASSUME NEW x \in Nat, NEW a \in Nat \ {0}
  PROVE  x \div a \in Nat /\ x % a \in 0 .. a - 1 /\ x = (x \div a) * a + (x % a)
<1>1. x \div a \in Nat /\ x % a \in 0 .. a - 1 /\ x = a * (x \div a) + (x % a)
  OBVIOUS
<1> QED  BY <1>1

LEMMA TimesMonotone ==
  ASSUME NEW a \in Nat, NEW b \in Nat, NEW c \in Nat, a <= b
  PROVE  a * c \in Nat /\ b * c \in Nat /\ a * c <= b * c
<1>1. PICK d \in Nat : b = a + d
  <2>1. b - a \in Nat /\ b = a + (b - a)
    OBVIOUS
  <2> QED  BY <2>1
<1>2. b * c = a * c + d * c /\ d * c \in Nat /\ a * c \in Nat
  BY <1>1
<1> QED  BY <1>2

LEMMA NextTimes ==
  ASSUME NEW a \in Nat, NEW c \in Nat
  PROVE  a * c \in Nat /\ (a + 1) * c = a * c + c
OBVIOUS

LEMMA DivBounds ==
  ASSUME NEW x \in Nat, NEW a \in Nat \ {0}, NEW k \in Nat
  PROVE  /\ k * a <= x => k <= x \div a
         /\ x < k * a => x \div a < k
<1>1. PICK q, s : q = x \div a /\ s = x % a
  OBVIOUS
<1>2. q \in Nat /\ s \in 0 .. a - 1 /\ x = q * a + s
  BY <1>1, Division
<1>3. q * a \in Nat /\ k * a \in Nat /\ (q + 1) * a = q * a + a
  BY <1>2, NextTimes
<1>4. q < k => (q + 1) * a <= k * a
  BY <1>2, TimesMonotone
<1>5. k <= q => k * a <= q * a
  BY <1>2, TimesMonotone
<1> QED  BY <1>1, <1>2, <1>3, <1>4, <1>5

LEMMA Quotient ==
  ASSUME NEW x \in Nat, NEW a \in Nat \ {0}, NEW q \in Nat, NEW s \in 0 .. a - 1,
         x = q * a + s
  PROVE  x \div a = q /\ x % a = s
<1>1. PICK d, t : d = x \div a /\ t = x % a
  OBVIOUS
<1>2. d \in Nat /\ t \in 0 .. a - 1 /\ x = d * a + t
  BY <1>1, Division
<1>3. q * a \in Nat /\ (q + 1) * a = q * a + a
  BY NextTimes
<1>4. q <= d /\ d < q + 1
  <2>1. q * a <= x /\ x < (q + 1) * a
    BY <1>3
  <2> QED  BY <1>1, <2>1, DivBounds
<1>5. d = q
  BY <1>2, <1>4
<1> QED  BY <1>1, <1>2, <1>3, <1>5
-----------------------------------------------------------------------------
(***************************************************************************)
(* Sectors and pages of a request.                                         *)
(***************************************************************************)

LEMMA Sizes ==
  /\ Sector \in Nat \ {0} /\ PerPage \in Nat /\ PerPage > 1
  /\ Bytes \in Nat \ {0} /\ Bytes = PerPage * Sector /\ Sector <= Bytes
<1>1. Sector \in Nat \ {0} /\ PerPage \in Nat /\ PerPage > 1
  BY NvmeAssumption
<1>2. 1 * Sector <= PerPage * Sector /\ PerPage * Sector \in Nat
  BY <1>1, TimesMonotone
<1> QED  BY <1>1, <1>2 DEF Bytes

LEMMA SectsOf ==
  ASSUME NEW r \in Request \cup {NoRequest}
  PROVE  /\ NumSects(r) \in Nat
         /\ r = NoRequest => NumSects(r) = 0
         /\ r.off_bytes \in Nat /\ r.num_bytes \in Nat
         /\ r.off_bytes \div Sector \in Nat /\ r.off_bytes % Sector \in 0 .. Sector - 1
         /\ r.off_bytes = (r.off_bytes \div Sector) * Sector + (r.off_bytes % Sector)
         /\ r \in Request => r # NoRequest
<1>1. r.off_bytes \in Nat /\ r.num_bytes \in Nat /\ (r \in Request => r.num_bytes # 0)
  BY NvmeAssumption DEF NoRequest
<1>2. r.num_bytes + Sector - 1 \in Nat
  BY <1>1, Sizes
<1>3. NumSects(r) \in Nat
  BY <1>2, Sizes, Division DEF NumSects
<1>4. ASSUME r = NoRequest PROVE NumSects(r) = 0
  <2>1. r.num_bytes = 0 /\ 0 * Sector = 0
    BY <1>4, Sizes DEF NoRequest
  <2>2. (Sector - 1) \div Sector = 0
    BY <2>1, Sizes, Quotient
  <2> QED  BY <2>1, <2>2, Sizes DEF NumSects
<1>5. r \in Request => r # NoRequest
  BY <1>1 DEF NoRequest
<1> QED  BY <1>1, <1>3, <1>4, <1>5, Sizes, Division

LEMMA EntriesOf ==
  ASSUME NEW n \in Nat
  PROVE  Entries(n) \in Nat
<1>1. CASE n >= PerPage
  <2>1. n - PerPage \in Nat
    BY <1>1, Sizes
  <2>2. (n - PerPage) \div PerPage \in Nat
    BY <2>1, Sizes, Division
  <2> QED  BY <2>2, <1>1, Sizes DEF Entries
<1>2. CASE ~(n >= PerPage)
  BY <1>2 DEF Entries
<1> QED  BY <1>1, <1>2

(* An entry is lost when the last page is full, or when there is one       *)
(* sector more than a page.                                                *)
LEMMA PagesLost ==
  ASSUME NEW n \in Nat
  PROVE  Entries(n) - Freed(n) =
           IF n > 0 /\ (n % PerPage = 0 \/ n = PerPage + 1) THEN 1 ELSE 0
<1> DEFINE P == PerPage
<1>0. P \in Nat \ {0} /\ P > 1
  BY Sizes
<1>a. 1 * P = P /\ 0 * P = 0
  BY <1>0
<1> HIDE DEF P
<1>1. CASE n < P
  <2>1. n % P = n
    BY <1>0, <1>1, <1>a, Quotient
  <2>2. Entries(n) = 0 /\ Freed(n) = 0
    BY <1>0, <1>1 DEF Entries, Freed, P
  <2> QED  BY <1>0, <1>1, <2>1, <2>2 DEF P
<1>2. CASE n = P
  <2>1. n % P = 0 /\ 0 \div P = 0
    BY <1>0, <1>2, <1>a, Quotient
  <2>2. Entries(n) = 1 /\ Freed(n) = 0
    BY <1>0, <1>2, <2>1 DEF Entries, Freed, P
  <2> QED  BY <1>0, <1>2, <2>1, <2>2 DEF P
<1>3. CASE n = P + 1
  <2>1. 1 \div P = 0
    BY <1>0, <1>a, Quotient
  <2>2. Entries(n) = 1 /\ Freed(n) = 0
    BY <1>0, <1>3, <2>1 DEF Entries, Freed, P
  <2> QED  BY <1>0, <1>3, <2>2 DEF P
<1>4. CASE n > P + 1
  <2>1. PICK m : m = n - P
    OBVIOUS
  <2>2. m \in Nat
    BY <1>0, <1>4, <2>1
  <2>3. PICK q, s : q = m \div P /\ s = m % P
    OBVIOUS
  <2>4. q \in Nat /\ s \in 0 .. P - 1 /\ m = q * P + s
    BY <1>0, <2>2, <2>3, Division
  <2>5. q * P \in Nat /\ (q + 1) * P = q * P + P
    BY <1>0, <2>4, NextTimes
  <2>6. n % P = s
    <3>1. n = (q + 1) * P + s
      BY <1>0, <2>1, <2>2, <2>4, <2>5
    <3> QED  BY <1>0, <2>4, <3>1, Quotient
  <2>7. Entries(n) = q + 1 /\ Freed(n) = (m + P - 1) \div P
    BY <1>0, <1>4, <2>1, <2>3 DEF Entries, Freed, P
  <2>8. CASE s = 0
    <3>1. (m + P - 1) \div P = q
      BY <1>0, <2>4, <2>5, <2>8, Quotient
    <3> QED  BY <1>0, <1>4, <2>4, <2>6, <2>7, <2>8, <3>1 DEF P
  <2>9. CASE s # 0
    <3>1. m + P - 1 = (q + 1) * P + (s - 1) /\ s - 1 \in 0 .. P - 1 /\ m + P - 1 \in Nat
      BY <1>0, <2>2, <2>4, <2>5, <2>9
    <3>2. (m + P - 1) \div P = q + 1
      BY <1>0, <2>4, <3>1, Quotient
    <3> QED  BY <1>0, <1>4, <2>4, <2>6, <2>7, <2>9, <3>2 DEF P
  <2> QED  BY <2>4, <2>8, <2>9
<1> QED  BY <1>0, <1>1, <1>2, <1>3, <1>4
-----------------------------------------------------------------------------
(***************************************************************************)
(* Copying to rdbuf.                                                       *)
(***************************************************************************)

(* A byte after the first page lies in a page of prp2_vm.                  *)
LEMMA PageOf ==
  ASSUME NEW n \in Nat, NEW j \in Nat, Bytes <= j, j < n * Sector
  PROVE  /\ n > PerPage
         /\ j \div Bytes \in 1 .. Entries(n) /\ j % Bytes \in 0 .. Bytes - 1
         /\ j = (j \div Bytes) * Bytes + (j % Bytes)
<1>1. PICK q, b : q = j \div Bytes /\ b = j % Bytes
  OBVIOUS
<1>2. q \in Nat /\ b \in 0 .. Bytes - 1 /\ j = q * Bytes + b
  BY <1>1, Sizes, Division
<1>3. q >= 1
  <2>1. 1 * Bytes <= j
    BY Sizes
  <2> QED  BY <1>1, <2>1, Sizes, DivBounds
<1>4. PICK qp : qp = q * PerPage
  OBVIOUS
<1>5. qp \in Nat /\ qp >= PerPage
  <2>1. 1 * PerPage <= q * PerPage /\ q * PerPage \in Nat
    BY <1>2, <1>3, Sizes, TimesMonotone
  <2> QED  BY <1>4, <2>1, Sizes
<1>6. q * Bytes = qp * Sector
  BY <1>2, <1>4, Sizes
<1>7. qp < n
  <2>1. n <= qp => n * Sector <= qp * Sector /\ n * Sector \in Nat /\ qp * Sector \in Nat
    BY <1>5, Sizes, TimesMonotone
  <2> QED  BY <1>2, <1>5, <1>6, <2>1, Sizes
<1>8. q - 1 <= (n - PerPage) \div PerPage
  <2>1. q - 1 \in Nat /\ n - PerPage \in Nat
    BY <1>2, <1>3, <1>5, <1>7, Sizes
  <2>2. (q - 1) * PerPage = qp - PerPage
    <3>1. ((q - 1) + 1) * PerPage = (q - 1) * PerPage + PerPage /\ (q - 1) * PerPage \in Nat
      BY <2>1, Sizes, NextTimes
    <3> QED  BY <1>2, <1>4, <1>5, <3>1, Sizes
  <2>3. (q - 1) * PerPage <= n - PerPage
    BY <1>5, <1>7, <2>2, Sizes
  <2> QED  BY <2>1, <2>3, Sizes, DivBounds
<1>9. (n - PerPage) \div PerPage \in Nat
  <2>1. n - PerPage \in Nat
    BY <1>5, <1>7, Sizes
  <2> QED  BY <2>1, Sizes, Division
<1>10. q <= Entries(n) /\ Entries(n) \in Nat
  BY <1>2, <1>5, <1>7, <1>8, <1>9, Sizes DEF Entries
<1> QED  BY <1>1, <1>2, <1>3, <1>5, <1>7, <1>10, Sizes

(* Each byte comes from the page that the controller wrote it to, but for  *)
(* the reads of two pages.                                                 *)
LEMMA Copied ==
  ASSUME TypeOK, NEW r \in Request, Len(page.vm) = Entries(NumSects(r)), NEW j \in Nat
  PROVE  /\ Rdbuf(NumSects(r), j) \in Nat \cup {Stale}
         /\ Arrived(r) /\ j < NumSects(r) * Sector /\ ~TwoPages(r) =>
              Rdbuf(NumSects(r), j) = (r.off_bytes \div Sector) * Sector + j
<1>1. PICK n, base : n = NumSects(r) /\ base = (r.off_bytes \div Sector) * Sector
  OBVIOUS
<1>2. n \in Nat /\ base \in Nat
  BY <1>1, SectsOf, Sizes, NextTimes
<1>3. page.prp1 \in Memory /\ page.prp2 \in Memory /\ page.vm \in Seq(Memory)
  BY DEF TypeOK
<1>4. CASE j >= n * Sector
  <2>1. n * Sector \in Nat
    BY <1>2, Sizes, NextTimes
  <2> QED  BY <1>1, <1>4, <2>1 DEF Rdbuf
<1>5. CASE j < n * Sector /\ j < Bytes
  <2>1. n * Sector \in Nat /\ j \in 0 .. Bytes - 1
    BY <1>2, <1>5, Sizes, NextTimes
  <2>2. Rdbuf(n, j) = page.prp1[j]
    BY <1>2, <1>5, <2>1, Sizes DEF Rdbuf
  <2>3. page.prp1[j] \in Nat \cup {Stale}
    BY <1>3, <2>1 DEF Memory
  <2>4. Arrived(r) => page.prp1[j] = base + j
    BY <1>1, <1>5, <2>1 DEF Arrived
  <2> QED  BY <1>1, <2>2, <2>3, <2>4
<1>6. CASE j < n * Sector /\ Bytes <= j
  <2>1. PICK q, b : q = j \div Bytes /\ b = j % Bytes
    OBVIOUS
  <2>2. n > PerPage /\ q \in 1 .. Entries(n) /\ b \in 0 .. Bytes - 1 /\ j = q * Bytes + b
    BY <1>2, <1>6, <2>1, PageOf
  <2>3. n * Sector \in Nat
    BY <1>2, Sizes, NextTimes
  <2>4. CASE n - PerPage = 1
    <3>1. Rdbuf(n, j) = page.prp2[j - Bytes]
      BY <1>2, <1>6, <2>3, <2>4, Sizes DEF Rdbuf
    <3>2. n = PerPage + 1
      BY <1>2, <2>4, Sizes
    <3>3. n * Sector = Bytes + Sector
      BY <3>2, Sizes, NextTimes
    <3>4. j - Bytes \in 0 .. Bytes - 1 /\ Bytes + (j - Bytes) = j
      BY <1>6, <3>3, Sizes
    <3>5. page.prp2[j - Bytes] \in Nat \cup {Stale}
      BY <1>3, <3>4 DEF Memory
    <3>6. n <= 2 * PerPage
      BY <3>2, Sizes
    <3>7. Arrived(r) => page.prp2[j - Bytes] = base + j
      BY <1>1, <1>6, <3>4, <3>6 DEF Arrived
    <3> QED  BY <1>1, <3>1, <3>5, <3>7
  <2>5. CASE n - PerPage # 1
    <3>1. Rdbuf(n, j) = page.vm[q][b]
      BY <1>2, <1>6, <2>1, <2>3, <2>5, Sizes DEF Rdbuf
    <3>2. page.vm[q] \in Memory
      BY <1>1, <1>3, <2>2, ElementOfSeq
    <3>3. page.vm[q][b] \in Nat \cup {Stale}
      BY <2>2, <3>2 DEF Memory
    <3>4. ~TwoPages(r) => n > 2 * PerPage
      BY <1>1, <1>2, <2>2, <2>5, Sizes DEF TwoPages
    <3>5. Arrived(r) /\ ~TwoPages(r) => page.vm[q][b] = base + j
      BY <1>1, <1>6, <2>2, <3>4 DEF Arrived
    <3> QED  BY <1>1, <3>1, <3>3, <3>5
  <2> QED  BY <2>4, <2>5
<1> QED
  <2>1. n * Sector \in Nat
    BY <1>2, Sizes, NextTimes
  <2> QED  BY <1>4, <1>5, <1>6, <2>1, Sizes
-----------------------------------------------------------------------------
(***************************************************************************)
(* The queues.                                                             *)
(***************************************************************************)

LEMMA NextSlotOf ==
  ASSUME NEW s \in Slot
  PROVE  /\ NextSlot(s) \in Slot /\ NextSlot(s) # s
         /\ NextSlot(s) = io_tail_i => Old = s
<1>1. QSize \in Nat /\ QSize > 2
  BY NvmeAssumption
<1>2. CASE s + 1 < QSize
  <2>1. s + 1 \in Nat /\ (s + 1) % QSize = s + 1
    BY <1>1, <1>2, Quotient DEF Slot
  <2>2. s + 1 + QSize - 1 = 1 * QSize + s /\ s \in 0 .. QSize - 1
    BY <1>1 DEF Slot
  <2>3. (s + 1 + QSize - 1) % QSize = s
    BY <1>1, <2>1, <2>2, Quotient
  <2> QED  BY <1>1, <1>2, <2>1, <2>3 DEF Slot, NextSlot, Old
<1>3. CASE s + 1 = QSize
  <2>1. s + 1 = 1 * QSize + 0 /\ 0 \in 0 .. QSize - 1
    BY <1>1, <1>3
  <2>2. (s + 1) % QSize = 0
    BY <1>1, <1>3, <2>1, Quotient
  <2>3. 0 + QSize - 1 = 0 * QSize + s /\ s \in 0 .. QSize - 1
    BY <1>1, <1>3 DEF Slot
  <2>4. (0 + QSize - 1) % QSize = s
    BY <1>1, <2>3, Quotient
  <2> QED  BY <1>1, <1>3, <2>2, <2>4 DEF Slot, NextSlot, Old
<1> QED  BY <1>1, <1>2, <1>3 DEF Slot

LEMMA SmallIds ==
  /\ NextId \in Id \/ io_cmdid_c \notin Id
  /\ 0 \in Id /\ 0 \in Slot
<1>1. IdCount \in Nat /\ IdCount > 1 /\ QSize \in Nat /\ QSize > 2
  BY NvmeAssumption
<1>2. io_cmdid_c \in Id => NextId \in Id
  <2> SUFFICES ASSUME io_cmdid_c \in Id PROVE NextId \in Id
    OBVIOUS
  <2>1. io_cmdid_c + 1 \in Nat
    BY <1>1 DEF Id
  <2> QED  BY <1>1, <2>1, Division DEF Id, NextId
<1> QED  BY <1>1, <1>2 DEF Id, Slot

LEMMA BlankPage == Blank \in Memory
BY DEF Blank, Memory, Stale

LEMMA InitIInv == Init => IInv
<1> SUFFICES ASSUME Init PROVE IInv
  OBVIOUS
<1>1. TypeOK
  <2>1. NoCommand \in [cid : Id, off_sects : Nat, num_sects : Nat] /\ Zero \in [phase : {0, 1}, cmd_id : Id]
    BY SmallIds DEF NoCommand, Zero
  <2>2. isq \in [Slot -> [cid : Id, off_sects : Nat, num_sects : Nat]] /\ icq \in [Slot -> [phase : {0, 1}, cmd_id : Id]]
    BY <2>1 DEF Init
  <2>3. /\ io_tail_i \in Slot /\ io_cmdid_c \in Id /\ doorbell \in [sub : Slot, cmpl : Slot]
        /\ ctrl \in [head : Slot, tail : Slot, phase : {0, 1}, moved : BOOLEAN]
    BY SmallIds DEF Init
  <2>4. page.prp1 \in Memory /\ page.prp2 \in Memory /\ page.vm \in Seq(Memory)
    BY BlankPage DEF Init
  <2>5. reading = NoRequest /\ last.req = NoRequest /\ last.buf \in Seq(Nat \cup {Stale}) /\ last.lost \in Int
    BY DEF Init
  <2> QED  BY <2>2, <2>3, <2>4, <2>5 DEF TypeOK
<1>2. InStep /\ CompletionIsNew /\ DataFirst
  BY DEF Init, InStep, CompletionIsNew, DataFirst
<1>3. OtherReadsAreRight
  BY DEF Init, OtherReadsAreRight, RightBytes
<1>4. PagesComeBack
  <2>1. last.req = NoRequest /\ last.lost = 0
    BY DEF Init
  <2>2. NumSects(NoRequest) = 0
    BY SectsOf
  <2>3. PerPage + 1 # 0
    BY Sizes
  <2> QED  BY <2>1, <2>2, <2>3 DEF PagesComeBack
<1> QED  BY <1>1, <1>2, <1>3, <1>4 DEF IInv

LEMMA SendKeeps ==
  ASSUME IInv, NEW r \in Request, Send(r)
  PROVE  IInv'
<1> DEFINE n == NumSects(r)
<1>1. /\ reading = NoRequest /\ reading' = r
      /\ io_cmdid_c' = NextId /\ io_tail_i' = NextSlot(io_tail_i)
      /\ isq' = [isq EXCEPT ![io_tail_i] = [cid |-> NextId, off_sects |-> r.off_bytes \div Sector,
                                            num_sects |-> n]]
      /\ doorbell' = [doorbell EXCEPT !.sub = NextSlot(io_tail_i)]
      /\ page' = [prp1 |-> Blank, prp2 |-> Blank, vm |-> [i \in 1 .. Entries(n) |-> Blank]]
      /\ last' = [req |-> NoRequest, buf |-> <<>>, lost |-> 0]
      /\ UNCHANGED <<icq, ctrl>>
  BY DEF Send
<1>2. n \in Nat /\ r.off_bytes \div Sector \in Nat /\ r # NoRequest /\ Entries(n) \in Nat
  BY SectsOf, EntriesOf
<1> HIDE DEF n
<1>3. TypeOK
  BY DEF IInv
<1>4. io_tail_i \in Slot /\ NextSlot(io_tail_i) \in Slot /\ NextSlot(io_tail_i) # io_tail_i /\ NextId \in Id
  BY <1>3, NextSlotOf, SmallIds DEF TypeOK
<1>5. page'.vm \in Seq(Memory) /\ Len(page'.vm) = Entries(n)
  <2>1. [i \in 1 .. Entries(n) |-> Blank] \in [1 .. Entries(n) -> Memory]
    BY BlankPage
  <2>2. page'.vm \in [1 .. Entries(n) -> Memory]
    BY <1>1, <2>1
  <2> QED  BY <1>2, <2>2, SeqDef, LenProperties
<1>6. TypeOK'
  <2>1. isq' \in [Slot -> [cid : Id, off_sects : Nat, num_sects : Nat]]
    BY <1>1, <1>2, <1>3, <1>4 DEF TypeOK
  <2>2. doorbell' \in [sub : Slot, cmpl : Slot] /\ page'.prp1 \in Memory /\ page'.prp2 \in Memory
    BY <1>1, <1>3, <1>4, BlankPage DEF TypeOK
  <2>3. last'.req = NoRequest /\ last'.buf \in Seq(Nat \cup {Stale}) /\ last'.lost \in Int
    BY <1>1
  <2> QED  BY <1>1, <1>3, <1>4, <1>5, <2>1, <2>2, <2>3 DEF TypeOK
<1>7. ctrl.head = io_tail_i /\ ~ctrl.moved /\ ctrl.tail = ctrl.head
  BY <1>1 DEF IInv, InStep, Fetched
<1>8. InStep'
  <2>1. doorbell'.sub = io_tail_i'
    BY <1>1, <1>3 DEF TypeOK
  <2>2. isq'[ctrl'.head].off_sects = r.off_bytes \div Sector /\ isq'[ctrl'.head].num_sects = n
    BY <1>1, <1>3, <1>4, <1>7 DEF TypeOK
  <2>3. Fetched'
    BY <1>1, <1>2, <1>7, <2>2 DEF Fetched, NextSlot, n, NumSects
  <2> QED  BY <1>1, <1>7, <2>1, <2>3 DEF InStep
<1>9. CompletionIsNew'
  BY <1>1 DEF IInv, CompletionIsNew
<1>10. DataFirst'
  BY <1>1, <1>4, <1>5, <1>7 DEF DataFirst, n, NumSects, Entries
<1>11. OtherReadsAreRight'
  BY <1>1 DEF OtherReadsAreRight, RightBytes
<1>12. PagesComeBack'
  <2>1. last'.req = NoRequest /\ last'.lost = 0
    BY <1>1
  <2>2. NumSects(NoRequest) = 0 /\ PerPage + 1 # 0
    BY SectsOf, Sizes
  <2> QED  BY <2>1, <2>2 DEF PagesComeBack, NumSects
<1> QED  BY <1>6, <1>8, <1>9, <1>10, <1>11, <1>12 DEF IInv

LEMMA TransferKeeps ==
  ASSUME IInv, Transfer
  PROVE  IInv'
<1> DEFINE c == isq[ctrl.head]
           n == NumSects(reading)
           At(first, i) == IF first + i < n * Sector
                           THEN (reading.off_bytes \div Sector) * Sector + first + i ELSE Stale
           Filled(first) == [i \in 0 .. Bytes - 1 |-> At(first, i)]
<1>1. TypeOK /\ InStep /\ ctrl.head # doorbell.sub /\ ~ctrl.moved
  BY DEF IInv, Transfer
<1>2. Fetched /\ ctrl.head # io_tail_i /\ reading \in Request
  BY <1>1 DEF InStep, Fetched, TypeOK
<1>3. c.off_sects = reading.off_bytes \div Sector /\ c.num_sects = n
  BY <1>2 DEF Fetched
<1>4. /\ ctrl' = [ctrl EXCEPT !.moved = TRUE]
      /\ UNCHANGED <<isq, icq, io_tail_i, io_cmdid_c, doorbell, reading, last>>
  BY DEF Transfer
<1>5. page' = [prp1 |-> Filled(0),
               prp2 |-> IF Bytes < n * Sector /\ n * Sector <= 2 * Bytes
                        THEN Filled(Bytes) ELSE page.prp2,
               vm   |-> IF n * Sector > 2 * Bytes
                        THEN [i \in DOMAIN page.vm |-> Filled(i * Bytes)] ELSE page.vm]
  BY <1>3 DEF Transfer
<1>6. n \in Nat /\ reading.off_bytes \div Sector \in Nat /\ n * Sector \in Nat
  BY <1>2, SectsOf, Sizes, NextTimes
<1>7. PICK base : base = (reading.off_bytes \div Sector) * Sector
  OBVIOUS
<1>8. base \in Nat
  BY <1>6, <1>7, Sizes, NextTimes
<1>9. ASSUME NEW first \in Nat
      PROVE  /\ Filled(first) \in Memory
             /\ \A b \in 0 .. Bytes - 1 : first + b < n * Sector => Filled(first)[b] = base + (first + b)
  <2>1. ASSUME NEW b \in 0 .. Bytes - 1
        PROVE  /\ At(first, b) \in Nat \cup {Stale}
               /\ first + b < n * Sector => At(first, b) = base + (first + b)
    <3>1. b \in Nat /\ base + first + b = base + (first + b) /\ base + first + b \in Nat
      BY <1>8, Sizes
    <3> QED  BY <1>7, <3>1
  <2> HIDE DEF At
  <2> QED  BY <2>1 DEF Memory
<1>10. Len(page.vm) = Entries(n) /\ Entries(n) \in Nat /\ page.vm \in Seq(Memory) /\ DOMAIN page.vm = 1 .. Entries(n)
  <2>1. Len(page.vm) = Entries(n) /\ page.vm \in Seq(Memory)
    BY <1>2 DEF IInv, DataFirst, TypeOK, Fetched
  <2> QED  BY <1>6, <2>1, EntriesOf, LenProperties
<1> HIDE DEF At, Filled, c, n
<1>11. \A i \in 1 .. Entries(n) : i * Bytes \in Nat
  BY <1>10, Sizes, NextTimes
<1>12. [i \in DOMAIN page.vm |-> Filled(i * Bytes)] \in Seq(Memory)
       /\ Len([i \in DOMAIN page.vm |-> Filled(i * Bytes)]) = Entries(n)
  <2>1. [i \in 1 .. Entries(n) |-> Filled(i * Bytes)] \in [1 .. Entries(n) -> Memory]
    BY <1>9, <1>11
  <2> QED  BY <1>10, <2>1, SeqDef, LenProperties
<1>13. page'.prp1 \in Memory /\ page'.prp2 \in Memory /\ page'.vm \in Seq(Memory) /\ Len(page'.vm) = Entries(n)
  BY <1>1, <1>5, <1>9, <1>10, <1>12, Sizes DEF TypeOK
<1>14. ctrl' \in [head : Slot, tail : Slot, phase : {0, 1}, moved : BOOLEAN] /\ ctrl'.head = ctrl.head /\ ctrl'.tail = ctrl.tail
  BY <1>1, <1>4 DEF TypeOK
<1>15. TypeOK'
  BY <1>1, <1>4, <1>13, <1>14 DEF TypeOK
<1>16. InStep'
  BY <1>1, <1>2, <1>4, <1>14 DEF InStep, Fetched, NextSlot, NumSects
<1>17. CompletionIsNew'
  BY <1>4, <1>14 DEF IInv, CompletionIsNew, Old
<1>18. Arrived(reading)'
  <2>1. /\ n * Sector > 2 * Bytes <=> n > 2 * PerPage
    <3>1. 2 * Bytes = (2 * PerPage) * Sector
      BY Sizes
    <3>2. n <= 2 * PerPage => n * Sector <= (2 * PerPage) * Sector
      BY <1>6, Sizes, TimesMonotone
    <3>3. 2 * PerPage + 1 <= n => (2 * PerPage + 1) * Sector <= n * Sector
      BY <1>6, Sizes, TimesMonotone
    <3>4. (2 * PerPage + 1) * Sector = (2 * PerPage) * Sector + Sector
      BY Sizes, NextTimes
    <3> QED  BY <1>6, <3>1, <3>2, <3>3, <3>4, Sizes
  <2>2. ASSUME NEW b \in 0 .. Bytes - 1
        PROVE  /\ b < n * Sector => page'.prp1[b] = base + b
               /\ Bytes + b < n * Sector /\ n <= 2 * PerPage => page'.prp2[b] = base + (Bytes + b)
               /\ n > 2 * PerPage =>
                    \A i \in 1 .. Entries(n) :
                      i * Bytes + b < n * Sector => page'.vm[i][b] = base + (i * Bytes + b)
    <3>1. b < n * Sector => page'.prp1[b] = base + b
      <4>1. 0 + b = b
        BY Sizes
      <4> QED  BY <1>5, <1>9, <4>1
    <3>2. ASSUME Bytes + b < n * Sector, n <= 2 * PerPage PROVE page'.prp2[b] = base + (Bytes + b)
      <4>1. Bytes < n * Sector /\ n * Sector <= 2 * Bytes
        BY <1>6, <2>1, <3>2, Sizes
      <4>2. page'.prp2 = Filled(Bytes)
        BY <1>5, <4>1
      <4> QED  BY <1>9, <3>2, <4>2, Sizes
    <3>3. ASSUME n > 2 * PerPage, NEW i \in 1 .. Entries(n), i * Bytes + b < n * Sector
          PROVE  page'.vm[i][b] = base + (i * Bytes + b)
      <4>1. page'.vm = [k \in DOMAIN page.vm |-> Filled(k * Bytes)]
        BY <1>5, <2>1, <3>3
      <4>2. page'.vm[i] = Filled(i * Bytes)
        BY <1>10, <4>1
      <4> QED  BY <1>9, <1>11, <3>3, <4>2
    <3> QED  BY <3>1, <3>2, <3>3
  <2> QED  BY <1>4, <1>7, <2>2 DEF Arrived, n, NumSects, Entries
<1>19. DataFirst'
  BY <1>4, <1>13, <1>18 DEF DataFirst, n, NumSects, Entries
<1>20. OtherReadsAreRight' /\ PagesComeBack'
  BY <1>4 DEF IInv, OtherReadsAreRight, RightBytes, PagesComeBack, TwoPages, Straddles, NumSects
<1> QED  BY <1>15, <1>16, <1>17, <1>19, <1>20 DEF IInv

LEMMA PostKeeps ==
  ASSUME IInv, Post
  PROVE  IInv'
<1>1. /\ TypeOK /\ InStep /\ ctrl.moved
      /\ icq' = [icq EXCEPT ![ctrl.tail] = [phase |-> ctrl.phase, cmd_id |-> isq[ctrl.head].cid]]
      /\ ctrl' = [head |-> NextSlot(ctrl.head), tail |-> NextSlot(ctrl.tail),
                  phase |-> IF NextSlot(ctrl.tail) = 0 THEN 1 - ctrl.phase ELSE ctrl.phase,
                  moved |-> FALSE]
      /\ UNCHANGED <<isq, io_tail_i, io_cmdid_c, doorbell, page, reading, last>>
  BY DEF IInv, Post
<1>2. Fetched /\ ctrl.tail = ctrl.head /\ doorbell.sub = io_tail_i
  BY <1>1 DEF InStep
<1>3. /\ ctrl.head \in Slot /\ NextSlot(ctrl.head) = io_tail_i /\ io_tail_i \in Slot
      /\ ctrl.head # io_tail_i /\ Old = ctrl.head /\ reading # NoRequest
  BY <1>1, <1>2, NextSlotOf DEF TypeOK, Fetched
<1>4. ctrl.phase \in {0, 1} /\ isq[ctrl.head].cid \in Id
  BY <1>1, <1>3 DEF TypeOK
<1>5. TypeOK'
  <2>1. icq' \in [Slot -> [phase : {0, 1}, cmd_id : Id]]
    BY <1>1, <1>4 DEF TypeOK
  <2>2. ctrl' \in [head : Slot, tail : Slot, phase : {0, 1}, moved : BOOLEAN]
    BY <1>1, <1>2, <1>3, <1>4
  <2> QED  BY <1>1, <2>1, <2>2 DEF TypeOK
<1>6. InStep'
  BY <1>1, <1>2, <1>3 DEF InStep
<1>7. CompletionIsNew'
  <2>1. ASSUME NEW s \in Slot, s # ctrl.head PROVE icq'[s] = Zero
    BY <1>1, <1>2, <1>3, <2>1 DEF IInv, CompletionIsNew, TypeOK
  <2>2. Old' = ctrl.head /\ ctrl'.head = io_tail_i' /\ reading' # NoRequest
    BY <1>1, <1>3 DEF Old
  <2> QED  BY <2>1, <2>2 DEF CompletionIsNew
<1>8. DataFirst'
  BY <1>1 DEF IInv, DataFirst, Arrived, NumSects, Entries
<1>9. OtherReadsAreRight' /\ PagesComeBack'
  BY <1>1 DEF IInv, OtherReadsAreRight, RightBytes, PagesComeBack, TwoPages, Straddles, NumSects
<1> QED  BY <1>5, <1>6, <1>7, <1>8, <1>9 DEF IInv

LEMMA ReturnKeeps ==
  ASSUME IInv, Return
  PROVE  IInv'
<1> DEFINE n   == NumSects(reading)
           off == reading.off_bytes % Sector
           buf == [i \in 1 .. reading.num_bytes |-> Rdbuf(n, off + i - 1)]
<1>1. /\ TypeOK /\ reading # NoRequest /\ icq[Old] # Zero
      /\ doorbell' = Rung /\ icq' = Cleared
      /\ last' = [req |-> reading, buf |-> buf, lost |-> Entries(n) - Freed(n)]
      /\ page' = [prp1 |-> Blank, prp2 |-> Blank, vm |-> <<>>]
      /\ reading' = NoRequest
      /\ UNCHANGED <<isq, io_tail_i, io_cmdid_c, ctrl>>
  BY DEF IInv, Return
<1>2. Old \in Slot
  <2>1. QSize \in Nat \ {0} /\ io_tail_i + QSize - 1 \in Nat
    BY <1>1, NvmeAssumption DEF TypeOK, Slot
  <2> QED  BY <2>1, Division DEF Old, Slot
<1>3. ctrl.head = io_tail_i /\ ~ctrl.moved /\ doorbell.sub = io_tail_i /\ ctrl.tail = ctrl.head
  <2>1. ctrl.head = io_tail_i
    BY <1>1, <1>2 DEF IInv, CompletionIsNew
  <2>2. io_tail_i # NextSlot(io_tail_i)
    BY <1>1, NextSlotOf DEF TypeOK
  <2> QED  BY <2>1, <2>2 DEF IInv, InStep, Fetched
<1>4. reading \in Request /\ Len(page.vm) = Entries(n) /\ Arrived(reading)
  BY <1>1, <1>3 DEF IInv, DataFirst, TypeOK
<1>5. /\ n \in Nat /\ off \in 0 .. Sector - 1 /\ reading.num_bytes \in Nat /\ reading.off_bytes \in Nat
      /\ reading.off_bytes \div Sector \in Nat
      /\ reading.off_bytes = (reading.off_bytes \div Sector) * Sector + off
  BY <1>4, SectsOf
<1>6. PICK base : base = (reading.off_bytes \div Sector) * Sector
  OBVIOUS
<1>7. base \in Nat /\ n * Sector \in Nat /\ Entries(n) \in Nat
  BY <1>5, <1>6, Sizes, NextTimes, EntriesOf
<1>8. ASSUME NEW i \in 1 .. reading.num_bytes
      PROVE  /\ Rdbuf(n, off + i - 1) \in Nat \cup {Stale}
             /\ ~TwoPages(reading) /\ ~Straddles(reading) =>
                  Rdbuf(n, off + i - 1) = reading.off_bytes + i - 1
  <2>1. off + i - 1 \in Nat /\ base + (off + i - 1) = reading.off_bytes + i - 1
    <3> HIDE DEF n, off
    <3>1. i \in Nat /\ i >= 1 /\ off \in Nat /\ reading.off_bytes = base + off
      BY <1>5, <1>6, Sizes
    <3> QED  BY <1>7, <3>1
  <2>2. ~Straddles(reading) => off + i - 1 < n * Sector
    BY <1>5, <1>7, Sizes DEF Straddles
  <2> HIDE DEF n, off
  <2> QED  BY <1>1, <1>4, <1>6, <2>1, <2>2, Copied DEF n
<1>9. /\ buf \in Seq(Nat \cup {Stale}) /\ DOMAIN buf = 1 .. reading.num_bytes
      /\ \A i \in DOMAIN buf : buf[i] = Rdbuf(n, off + i - 1)
  <2> HIDE DEF n, off
  <2>1. buf \in [1 .. reading.num_bytes -> Nat \cup {Stale}]
    BY <1>8
  <2> QED  BY <1>5, <2>1, SeqDef
<1>10. Entries(n) - Freed(n) = IF n > 0 /\ (n % PerPage = 0 \/ n = PerPage + 1) THEN 1 ELSE 0
  BY <1>5, PagesLost
<1> HIDE DEF n, off, buf
<1>11. last'.req = reading /\ last'.buf = buf /\ last'.lost = Entries(n) - Freed(n)
  BY <1>1
<1>12. TypeOK'
  <2>1. Zero \in [phase : {0, 1}, cmd_id : Id]
    BY SmallIds DEF Zero
  <2>2. icq' \in [Slot -> [phase : {0, 1}, cmd_id : Id]]
    BY <1>1, <2>1 DEF TypeOK, Cleared
  <2>3. doorbell' \in [sub : Slot, cmpl : Slot]
    BY <1>1, <1>2 DEF TypeOK, Rung
  <2>4. page'.prp1 \in Memory /\ page'.prp2 \in Memory /\ page'.vm \in Seq(Memory)
    BY <1>1, BlankPage
  <2>5. last'.req \in Request \cup {NoRequest} /\ last'.buf \in Seq(Nat \cup {Stale}) /\ last'.lost \in Int
    BY <1>4, <1>9, <1>10, <1>11
  <2> QED  BY <1>1, <2>2, <2>3, <2>4, <2>5 DEF TypeOK
<1>13. InStep'
  <2>1. doorbell'.sub = doorbell.sub
    BY <1>1 DEF TypeOK, Rung
  <2> QED  BY <1>1, <1>3, <2>1 DEF InStep
<1>14. CompletionIsNew'
  <2>1. \A s \in Slot : icq'[s] = Zero
    BY <1>1, <1>2 DEF IInv, CompletionIsNew, TypeOK, Cleared
  <2> QED  BY <2>1 DEF CompletionIsNew
<1>15. DataFirst'
  BY <1>1 DEF DataFirst
<1>16. OtherReadsAreRight'
  <2>1. ~TwoPages(reading) /\ ~Straddles(reading) =>
          \A i \in DOMAIN buf : buf[i] = reading.off_bytes + i - 1
    BY <1>8, <1>9
  <2> QED  BY <1>11, <2>1 DEF OtherReadsAreRight, RightBytes, TwoPages, Straddles, NumSects
<1>17. PagesComeBack'
  BY <1>10, <1>11 DEF PagesComeBack, n, NumSects
<1> QED  BY <1>12, <1>13, <1>14, <1>15, <1>16, <1>17 DEF IInv

LEMMA NextIInv == IInv /\ [Next]_vars => IInv'
<1> SUFFICES ASSUME IInv, [Next]_vars PROVE IInv'
  OBVIOUS
<1>1. ASSUME NEW r \in Request, Send(r) PROVE IInv'
  BY <1>1, SendKeeps
<1>2. CASE Transfer
  BY <1>2, TransferKeeps
<1>3. CASE Post
  BY <1>3, PostKeeps
<1>4. CASE Return
  BY <1>4, ReturnKeeps
<1>5. CASE UNCHANGED vars
  BY <1>5 DEF IInv, vars, TypeOK, InStep, Fetched, CompletionIsNew, DataFirst, Arrived, Old,
     OtherReadsAreRight, RightBytes, PagesComeBack, TwoPages, Straddles, NumSects, Entries
<1> QED  BY <1>1, <1>2, <1>3, <1>4, <1>5 DEF Next

(* The inductive invariant: driver and controller are in step, and the     *)
(* pages hold the data of the request before its completion can be seen.   *)
THEOREM Invariant == Spec => []IInv
BY InitIInv, NextIInv, PTL DEF Spec
-----------------------------------------------------------------------------
(* nvme_read_disk: but for the reads of two pages and those that reach     *)
(* past their last sector, every byte of rdbuf is the byte of the disk     *)
(* that was asked for, however often queues, phase and ids wrapped.        *)
THEOREM ReadsCorrect == Spec => []ReadsAreSound
<1>1. IInv => ReadsAreSound
  BY DEF IInv, ReadsAreSound
<1> QED  BY <1>1, Invariant, PTL

(* nvme_send_io_cmd: a command gives back every page that it took, but for *)
(* one when it reads whole pages or a page and one sector.                 *)
THEOREM PagesCorrect == Spec => []PagesComeBack
<1>1. IInv => PagesComeBack
  BY DEF IInv
<1> QED  BY <1>1, Invariant, PTL
=============================================================================
