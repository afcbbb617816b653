------------------------- MODULE AddressSpacesProofs -------------------------
(***************************************************************************)
(* Proofs about frames and page tables, for any memory, any number of      *)
(* tasks and pages, and any programs that are linked where the kernel is   *)
(* not and of which all headers are loaded: a frame has one user and stays *)
(* marked, the kernel's image is in every table, and the page allocator    *)
(* implements FrameOwners.                                                 *)
(***************************************************************************)
EXTENDS AddressSpaces, FiniteSetTheorems, SequenceTheorems, WellFoundedInduction, TLAPS

(* The programs that the theorems are about.                               *)
ProgramsFit == Program \subseteq Seq(Page \ Image)

(* What a task has: the frames of its pages, and those it was loaded into. *)
Held(t) == UserFrames(t) \cup UNION Range(ptr[t])

Loading ==
  /\ loading \in [tid : Tid \cup {None}, todo : Seq(Page \ Image)]
  /\ loading # Idle => loading.tid \in live

(* Who can have a frame, and what each has.                                *)
Holder == Tid \cup {None}
has == [o \in Holder |-> IF o = None THEN KernelFrames ELSE Held(o)]

(* Frames are held by one task or by the kernel, and are marked meanwhile. *)
HeldApart ==
  /\ \A o, u \in Holder : o # u => has[o] \cap has[u] = {}
  /\ \A t \in Tid : has[t] \subseteq phys_mem_map \cap Memory
  /\ has[None] \subseteq phys_mem_map \cup Device
  /\ \A t \in Tid \ live : has[t] = {}

(* No table has a frame twice.                                             *)
Once(tab) == \A p, q \in Page :
  tab[p].isuser /\ tab[q].isuser /\ tab[p].frame = tab[q].frame => p = q

MappedOnce ==
  /\ \A t \in Tid : Once(table[t])
  /\ \A p, q \in Page : kernel[p] = kernel[q] => p = q \/ kernel[p] = NoFrame

(* Task numbers are new, what liballoc may give back is not the kernel's   *)
(* image, and the cleanup finds a frame of the task at its stack.          *)
Places ==
  /\ \A t \in live : t <= tid_counter
  /\ majors \cap Image = {}
  /\ halted = "no" => \A t \in live : table[t][stack[t]].isuser

IInv == TypeOK /\ Loading /\ HeldApart /\ MappedOnce /\ Places /\ ImageIsEverywhere
-----------------------------------------------------------------------------
(***************************************************************************)
(* Facts about the operators of the model.                                 *)
(***************************************************************************)

(* The smallest element of a set of numbers is one of them.                *)
LEMMA MinIsElement ==
  ASSUME NEW S \in SUBSET Nat, S # {}
  PROVE  Min(S) \in S
<1>1. OpToRel(<, Nat) = {ss \in Nat \X Nat : ss[1] < ss[2]}
  BY DEF OpToRel
<1>2. PICK x \in S : \A y \in S : <<y, x>> \notin OpToRel(<, Nat)
  BY WFMin, NatLessThanWellFounded, Zenon
<1>3. ASSUME NEW y \in S PROVE x <= y
  <2>1. ~(y < x)
    BY <1>1, <1>2, Zenon
  <2> QED  BY <2>1
<1> QED  BY <1>3 DEF Min

(* In a finite set of numbers every rank below its size is taken, by one   *)
(* element; so the n lowest ones are n different ones.                     *)
LEMMA LowestAreDistinct ==
  ASSUME NEW S \in SUBSET Nat, IsFiniteSet(S), NEW n \in Nat, n <= Cardinality(S)
  PROVE  /\ Lowest(S, n) \in [1 .. n -> S]
         /\ \A i, j \in 1 .. n : Lowest(S, n)[i] = Lowest(S, n)[j] => i = j
<1> DEFINE Below(f) == {g \in S : g < f}
           R == [f \in S |-> Cardinality(Below(f))]
           T == 0 .. Cardinality(S) - 1
<1>1. Cardinality(S) \in Nat
  BY FS_CardinalityType
<1>2. ASSUME NEW f \in S
      PROVE  IsFiniteSet(Below(f)) /\ Cardinality(Below(f)) \in T
  <2>1. Below(f) \in SUBSET S /\ f \notin Below(f) /\ f \in S
    OBVIOUS
  <2> HIDE DEF Below
  <2>2. IsFiniteSet(Below(f)) /\ Cardinality(Below(f)) <= Cardinality(S)
        /\ Cardinality(S) # Cardinality(Below(f))
    BY <2>1, FS_Subset
  <2>3. Cardinality(Below(f)) \in Nat
    BY <2>2, FS_CardinalityType
  <2> QED  BY <1>1, <2>2, <2>3
<1>3. ASSUME NEW f \in S, NEW g \in S, f < g
      PROVE  Cardinality(Below(f)) # Cardinality(Below(g))
  <2>1. Below(f) \in SUBSET Below(g) /\ f \in Below(g) /\ f \notin Below(f)
    <3>1. \A h \in S : h < f => h < g
      <4>1. ASSUME NEW h \in S, h < f PROVE h < g
        <5>1. h \in Nat /\ f \in Nat /\ g \in Nat
          OBVIOUS
        <5> QED  BY <1>3, <4>1, <5>1
      <4> QED  BY <4>1
    <3>2. ~(f < f)
      <4>1. f \in Nat
        OBVIOUS
      <4> QED  BY <4>1
    <3> QED  BY <1>3, <3>1, <3>2
  <2> HIDE DEF Below
  <2> QED  BY <1>2, <2>1, FS_Subset
<1>4. R \in [S -> T]
  BY <1>2
<1>5. \A f \in S : R[f] = Cardinality(Below(f))
  OBVIOUS
<1> HIDE DEF R, Below
<1>6. ASSUME NEW f \in S, NEW g \in S, R[f] = R[g] PROVE f = g
  <2>1. ~(f < g) /\ ~(g < f) /\ f \in Nat /\ g \in Nat
    BY <1>3, <1>5, <1>6
  <2> QED  BY <2>1
<1>7. R \in Injection(S, T)
  BY <1>4, <1>6 DEF Injection, IsInjective
<1>8. IsFiniteSet(T) /\ Cardinality(T) = Cardinality(S)
  <2>1. PICK c \in Nat : c = Cardinality(S)
    BY <1>1
  <2>2. T = 0 .. c - 1 /\ 0 \in Int /\ c - 1 \in Int
    BY <2>1
  <2>3. IsFiniteSet(0 .. c - 1)
        /\ Cardinality(0 .. c - 1) = IF 0 > c - 1 THEN 0 ELSE (c - 1) - 0 + 1
    BY <2>2, FS_Interval
  <2>4. Cardinality(0 .. c - 1) = c
    BY <2>3
  <2> QED  BY <2>1, <2>2, <2>3, <2>4
<1>9. R \in Surjection(S, T)
  <2> HIDE DEF T
  <2> QED  BY <1>7, <1>8, FS_Injection
<1>10. ASSUME NEW i \in 1 .. n
       PROVE  /\ Lowest(S, n)[i] \in S
              /\ Cardinality(Below(Lowest(S, n)[i])) = i - 1
  <2>1. i - 1 \in T
    BY <1>1
  <2>2. \E f \in S : Cardinality(Below(f)) = i - 1
    <3> HIDE DEF T
    <3> QED  BY <1>5, <1>9, <2>1 DEF Surjection
  <2>3. Lowest(S, n)[i] = CHOOSE f \in S : Cardinality(Below(f)) = i - 1
    BY DEF Lowest, Below
  <2> QED  BY <2>2, <2>3
<1>11. \A i, j \in 1 .. n : Lowest(S, n)[i] = Lowest(S, n)[j] => i = j
  BY <1>10
<1>12. Lowest(S, n) = [i \in 1 .. n |-> Lowest(S, n)[i]]
  BY DEF Lowest
<1> QED  BY <1>10, <1>11, <1>12

LEMMA Constants ==
  /\ Memory \in SUBSET Nat /\ IsFiniteSet(Memory)
  /\ Device \cap Memory = {} /\ Device \cap Image = {}
  /\ NoFrame \notin Memory /\ NoFrame \notin Image /\ NoFrame \notin Device
  /\ Image \subseteq Page /\ Page \subseteq Nat
  /\ MaxTid \in Nat /\ None \notin Tid /\ FreeFrame \notin Tid /\ LostFrame \notin Tid
  /\ FreeFrame # LostFrame /\ FreeFrame # None /\ LostFrame # None
BY AddressSpacesAssumption DEF Page, Tid, None, FreeFrame, LostFrame

LEMMA UnusedIsFinite ==
  /\ Unused \in SUBSET Nat /\ IsFiniteSet(Unused) /\ Cardinality(Unused) \in Nat
  /\ Unused \subseteq Memory /\ Unused \cap phys_mem_map = {}
<1>1. Unused \in SUBSET Memory
  BY DEF Unused
<1>2. IsFiniteSet(Unused)
  BY <1>1, Constants, FS_Subset
<1> QED  BY <1>1, <1>2, Constants, FS_CardinalityType DEF Unused

(* The frames an allocation of n pages gets.                               *)
LEMMA NewFrames ==
  ASSUME NEW n \in Nat, n <= Cardinality(Unused)
  PROVE  \E fs \in [1 .. n -> Unused] :
           /\ fs = Lowest(Unused, n)
           /\ Range(fs) \subseteq Unused /\ Len(fs) = n
           /\ \A i, j \in 1 .. n : fs[i] = fs[j] => i = j
<1>1. /\ Lowest(Unused, n) \in [1 .. n -> Unused]
      /\ \A i, j \in 1 .. n : Lowest(Unused, n)[i] = Lowest(Unused, n)[j] => i = j
  BY UnusedIsFinite, LowestAreDistinct
<1>2. Lowest(Unused, n) \in Seq(Unused) /\ Len(Lowest(Unused, n)) = n
  BY <1>1, SeqDef, LenProperties
<1>3. Range(Lowest(Unused, n)) \subseteq Unused
  BY <1>1 DEF Range
<1> QED  BY <1>1, <1>2, <1>3

(* Where a hole is, nothing is.                                            *)
LEMMA MinHole ==
  ASSUME NEW tab, NEW n \in Nat \ {0}, Holes(tab, n) # {}
  PROVE  /\ Min(Holes(tab, n)) \in Page /\ Min(Holes(tab, n)) + n <= NPages
         /\ \A q \in Min(Holes(tab, n)) .. Min(Holes(tab, n)) + n - 1 :
              q \in Page /\ tab[q].frame = NoFrame
         /\ Min(Holes(tab, n)) \in Min(Holes(tab, n)) .. Min(Holes(tab, n)) + n - 1
<1>1. Holes(tab, n) \in SUBSET Nat
  BY Constants DEF Holes
<1>2. Min(Holes(tab, n)) \in Holes(tab, n)
  BY <1>1, MinIsElement
<1>3. PICK p \in Page : p = Min(Holes(tab, n)) /\ p \in Holes(tab, n)
  BY <1>2 DEF Holes
<1>4. p + n <= NPages /\ \A q \in p .. p + n - 1 : tab[q].frame = NoFrame
  BY <1>3 DEF Holes
<1>5. \A q \in p .. p + n - 1 : q \in Page
  BY <1>4, AddressSpacesAssumption DEF Page
<1>6. p \in p .. p + n - 1
  BY DEF Page
<1> QED  BY <1>3, <1>4, <1>5, <1>6
-----------------------------------------------------------------------------
(***************************************************************************)
(* Frames that change hands.                                               *)
(***************************************************************************)

(* The holder o takes the frames in F and gives up those in G; it may also *)
(* lose frames that stay marked.  Nobody else is concerned.                *)
Moves(o, F, G) ==
  /\ F \subseteq Unused /\ G \subseteq has[o]
  /\ phys_mem_map' = (phys_mem_map \cup F) \ G
  /\ F \subseteq has'[o]
  /\ has'[o] \subseteq (has[o] \ G) \cup F \cup (IF o = None THEN Device ELSE {})
  /\ \A u \in Holder \ {o} : has'[u] = has[u]

LEMMA MovesKeep ==
  ASSUME HeldApart, NEW o \in Holder, NEW F, NEW G, Moves(o, F, G),
         \A t \in Tid \ live' : has'[t] = {}
  PROVE  HeldApart'
<1>1. F \cap phys_mem_map = {} /\ F \subseteq Memory /\ F \cap Device = {}
  BY UnusedIsFinite, Constants DEF Moves
<1>2. Tid \subseteq Holder /\ None \in Holder /\ None \notin Tid
  BY Constants DEF Holder
<1>3. ASSUME NEW t \in Tid
      PROVE  has[t] \cap Device = {}
  BY <1>3, Constants DEF HeldApart
<1>4. ASSUME NEW u \in Holder \ {o}
      PROVE  has'[o] \cap has'[u] = {}
  <2>1. has'[u] = has[u] /\ has[o] \cap has[u] = {}
    BY DEF Moves, HeldApart
  <2>2. F \cap has[u] = {}
    BY <1>1, <1>2 DEF HeldApart, Holder
  <2>3. o = None => Device \cap has[u] = {}
    BY <1>2, <1>3 DEF Holder
  <2> QED  BY <2>1, <2>2, <2>3 DEF Moves
<1>5. ASSUME NEW v \in Holder, NEW u \in Holder, v # u
      PROVE  has'[v] \cap has'[u] = {}
  <2>1. CASE v = o \/ u = o
    BY <1>4, <1>5, <2>1
  <2>2. CASE v # o /\ u # o
    <3>1. has'[v] = has[v] /\ has'[u] = has[u] /\ has[v] \cap has[u] = {}
      BY <1>5, <2>2 DEF Moves, HeldApart
    <3> QED  BY <3>1
  <2> QED  BY <2>1, <2>2
<1>6. ASSUME NEW t \in Tid
      PROVE  has'[t] \subseteq phys_mem_map' \cap Memory
  <2>1. has[t] \subseteq phys_mem_map \cap Memory
    BY DEF HeldApart
  <2>2. CASE t = o
    BY <1>1, <1>2, <2>1, <2>2 DEF Moves
  <2>3. CASE t # o
    <3>1. has'[t] = has[t] /\ has[t] \cap has[o] = {}
      BY <1>2, <2>3 DEF Moves, HeldApart
    <3> QED  BY <2>1, <3>1 DEF Moves
  <2> QED  BY <2>2, <2>3
<1>7. has'[None] \subseteq phys_mem_map' \cup Device
  <2>1. has[None] \subseteq phys_mem_map \cup Device
    BY DEF HeldApart
  <2>2. CASE o = None
    BY <1>1, <2>1, <2>2 DEF Moves
  <2>3. CASE o # None
    <3>1. has'[None] = has[None] /\ has[None] \cap has[o] = {}
      BY <1>2, <2>3 DEF Moves, HeldApart
    <3> QED  BY <2>1, <3>1 DEF Moves
  <2> QED  BY <2>2, <2>3
<1> QED  BY <1>5, <1>6, <1>7 DEF HeldApart

(* The refinement mapping, frame by frame.                                 *)
own == [f \in Memory |-> OwnerOf(f)]

OwnersKnown ==
  \A f \in Memory :
    /\ f \notin phys_mem_map => own[f] = FreeFrame
    /\ \A o \in Holder : f \in has[o] => own[f] = o
    /\ f \in phys_mem_map /\ (\A o \in Holder : f \notin has[o]) => own[f] = LostFrame

LEMMA OwnersAreKnown == TypeOK /\ HeldApart => OwnersKnown
<1> SUFFICES ASSUME TypeOK, HeldApart, NEW f \in Memory
             PROVE  /\ f \notin phys_mem_map => own[f] = FreeFrame
                    /\ \A o \in Holder : f \in has[o] => own[f] = o
                    /\ f \in phys_mem_map /\ (\A o \in Holder : f \notin has[o]) => own[f] = LostFrame
  BY DEF OwnersKnown
<1>1. /\ live \subseteq Tid /\ Tid \subseteq Holder /\ None \in Holder /\ None \notin Tid
      /\ Tid \subseteq Nat
  BY Constants DEF TypeOK, Holder, Tid
<1>2. has[None] = KernelFrames /\ \A t \in Tid : has[t] = UserFrames(t) \cup UNION Range(ptr[t])
  BY <1>1 DEF has, Held
<1> DEFINE S == {t \in live : f \in UserFrames(t) \cup UNION Range(ptr[t])}
<1>3. S = {t \in live : f \in has[t]}
  BY <1>1, <1>2
<1>4. own[f] = IF f \notin phys_mem_map THEN FreeFrame
               ELSE IF f \in has[None] THEN None
               ELSE IF S = {} THEN LostFrame ELSE Min(S)
  BY <1>2 DEF own, OwnerOf
<1> HIDE DEF S
<1>5. \A o \in Holder : f \in has[o] => f \in phys_mem_map
  BY Constants DEF HeldApart, Holder
<1>6. ASSUME NEW t \in Tid, f \in has[t]
      PROVE  f \notin has[None] /\ S = {t}
  <2>1. t \in live
    BY <1>6 DEF HeldApart
  <2>2. \A o \in Holder : o # t => f \notin has[o]
    BY <1>1, <1>6 DEF HeldApart
  <2> QED  BY <1>1, <1>3, <1>6, <2>1, <2>2
<1>7. ASSUME NEW t \in Tid PROVE Min({t}) = t
  <2>1. {t} \in SUBSET Nat /\ {t} # {}
    BY <1>1
  <2>2. Min({t}) \in {t}
    BY <2>1, MinIsElement
  <2> QED  BY <2>2
<1>8. ASSUME NEW o \in Holder, f \in has[o] PROVE own[f] = o
  <2>1. CASE o = None
    BY <1>4, <1>5, <1>8, <2>1
  <2>2. CASE o \in Tid
    <3>1. f \in phys_mem_map /\ f \notin has[None] /\ S = {o}
      BY <1>5, <1>6, <1>8, <2>2
    <3>2. own[f] = Min({o})
      BY <1>4, <3>1
    <3> QED  BY <1>7, <2>2, <3>2
  <2> QED  BY <2>1, <2>2 DEF Holder
<1>9. (\A o \in Holder : f \notin has[o]) => S = {} /\ f \notin has[None]
  BY <1>1, <1>3
<1> QED  BY <1>4, <1>8, <1>9

LEMMA OwnersChange ==
  ASSUME HeldApart, OwnersKnown, OwnersKnown', NEW o \in Holder, NEW F, NEW G,
         Moves(o, F, G)
  PROVE  \A f \in Memory :
           /\ own'[f] \in Holder \cup {FreeFrame, LostFrame}
           /\ \/ own'[f] = own[f]
              \/ own[f] = FreeFrame /\ own'[f] = o
              \/ own[f] = o /\ own'[f] \in {FreeFrame, LostFrame}
           /\ own'[f] = LostFrame => own[f] = LostFrame \/ f \in has[o] \ G
<1> SUFFICES ASSUME NEW f \in Memory
             PROVE  /\ own'[f] \in Holder \cup {FreeFrame, LostFrame}
                    /\ \/ own'[f] = own[f]
                       \/ own[f] = FreeFrame /\ own'[f] = o
                       \/ own[f] = o /\ own'[f] \in {FreeFrame, LostFrame}
                    /\ own'[f] = LostFrame => own[f] = LostFrame \/ f \in has[o] \ G
  OBVIOUS
<1>0. /\ F \cap phys_mem_map = {} /\ f \notin Device
      /\ LostFrame \notin Holder /\ FreeFrame \notin Holder /\ LostFrame # FreeFrame
  BY UnusedIsFinite, Constants DEF Moves, Holder
<1>1. /\ f \notin phys_mem_map => own[f] = FreeFrame
      /\ \A u \in Holder : f \in has[u] => own[f] = u
      /\ f \in phys_mem_map /\ (\A u \in Holder : f \notin has[u]) => own[f] = LostFrame
  BY DEF OwnersKnown
<1>2. /\ f \notin phys_mem_map' => own'[f] = FreeFrame
      /\ \A u \in Holder : f \in has'[u] => own'[f] = u
      /\ f \in phys_mem_map' /\ (\A u \in Holder : f \notin has'[u]) => own'[f] = LostFrame
  BY DEF OwnersKnown
<1>3. /\ f \in phys_mem_map' <=> (f \in phys_mem_map \/ f \in F) /\ f \notin G
      /\ f \in F => f \in has'[o]
      /\ f \in has'[o] => (f \in has[o] /\ f \notin G) \/ f \in F
      /\ f \in G => f \in has[o]
      /\ \A u \in Holder \ {o} : f \in has'[u] <=> f \in has[u]
  BY <1>0 DEF Moves
<1>4. \A u \in Holder : f \in has[u] => f \in phys_mem_map
  BY <1>0, Constants DEF HeldApart, Holder
<1>5. CASE f \notin phys_mem_map
  BY <1>0, <1>1, <1>2, <1>3, <1>4, <1>5
<1>6. ASSUME NEW u \in Holder \ {o}, f \in has[u]
      PROVE  own'[f] = own[f] /\ own[f] = u
  BY <1>1, <1>2, <1>3, <1>6
<1>7. CASE f \in has[o]
  <2>1. \A u \in Holder \ {o} : f \notin has[u]
    BY <1>7 DEF HeldApart
  <2>2. f \in phys_mem_map /\ f \notin F /\ own[f] = o
    BY <1>0, <1>1, <1>4, <1>7
  <2> QED  BY <1>0, <1>2, <1>3, <1>7, <2>1, <2>2
<1>8. CASE f \in phys_mem_map /\ \A u \in Holder : f \notin has[u]
  <2>1. f \notin F /\ f \notin G /\ own[f] = LostFrame
    BY <1>0, <1>1, <1>3, <1>8
  <2> QED  BY <1>0, <1>2, <1>3, <1>8, <2>1
<1> QED  BY <1>0, <1>5, <1>6, <1>7, <1>8
-----------------------------------------------------------------------------
(***************************************************************************)
(* Allocation, for a task and for the kernel.                              *)
(***************************************************************************)
FramesIn(tab) == {tab[p].frame : p \in {q \in Page : tab[q].isuser}}

LEMMA HasIs ==
  /\ has[None] = KernelFrames
  /\ \A t \in Tid : has[t] = FramesIn(table[t]) \cup UNION Range(ptr[t])
  /\ None \in Holder /\ Tid \subseteq Holder
<1>1. None \in Holder /\ Tid \subseteq Holder /\ None \notin Tid
  BY Constants DEF Holder
<1> QED  BY <1>1 DEF has, Held, UserFrames, FramesIn

LEMMA HasIsNext ==
  /\ has'[None] = KernelFrames'
  /\ \A t \in Tid : has'[t] = FramesIn(table'[t]) \cup UNION Range(ptr'[t])
<1>1. None \in Holder /\ Tid \subseteq Holder /\ None \notin Tid
  BY Constants DEF Holder
<1> QED  BY <1>1 DEF has, Held, UserFrames, FramesIn

(* The table new is tab with the frames fs, from the set S, at p.          *)
Extends(tab, new, p, n, fs, S) ==
  /\ new \in [Page -> Entry]
  /\ FramesIn(new) \subseteq FramesIn(tab) \cup Range(fs)
  /\ Range(fs) \subseteq FramesIn(new)
  /\ Once(tab) /\ FramesIn(tab) \cap S = {} => Once(new)
  /\ new[p].isuser
  /\ \A q \in Page : new[q] = tab[q] \/ (q \in p .. p + n - 1 /\ new[q].isuser)
  /\ n = 1 /\ ~tab[p].isuser => FramesIn(tab) \subseteq FramesIn(new)

(* MapPages adds new frames to a table, and may cover old ones.            *)
LEMMA MapPagesTakes ==
  ASSUME NEW tab \in [Page -> Entry], NEW p \in Page, NEW n \in Nat \ {0}, p + n <= NPages,
         NEW S \in SUBSET Memory, NEW fs \in [1 .. n -> S], Len(fs) = n,
         \A i, j \in 1 .. n : fs[i] = fs[j] => i = j
  PROVE  Extends(tab, MapPages(tab, p, fs), p, n, fs, S)
<1> DEFINE W == p .. p + n - 1
           new == MapPages(tab, p, fs)
<1>1. W \subseteq Page /\ p \in W /\ Page \subseteq Nat /\ p \in Nat
  BY AddressSpacesAssumption DEF Page
<1>2. \A q \in W : q - p + 1 \in 1 .. n
  BY <1>1
<1>3. \A q \in W : fs[q - p + 1] \in S /\ fs[q - p + 1] \in Range(fs)
  BY <1>2 DEF Range
<1>4. new = [q \in Page |-> IF q \in W THEN [frame |-> fs[q - p + 1], isuser |-> TRUE] ELSE tab[q]]
  BY DEF MapPages
<1> HIDE DEF W, new
<1>5. /\ \A q \in W : new[q] = [frame |-> fs[q - p + 1], isuser |-> TRUE]
      /\ \A q \in Page \ W : new[q] = tab[q]
  BY <1>1, <1>4
<1>a. \A q \in W : new[q].frame = fs[q - p + 1] /\ new[q].isuser
  <2> SUFFICES ASSUME NEW q \in W PROVE new[q].frame = fs[q - p + 1] /\ new[q].isuser
    OBVIOUS
  <2>1. PICK f : f = fs[q - p + 1]
    OBVIOUS
  <2>2. new[q] = [frame |-> f, isuser |-> TRUE]
    BY <1>5, <2>1
  <2> QED  BY <2>1, <2>2
<1>6. new \in [Page -> Entry]
  <2>1. \A q \in W : [frame |-> fs[q - p + 1], isuser |-> TRUE] \in Entry
    BY <1>3 DEF Entry, Frame
  <2> QED  BY <1>4, <2>1
<1>7. FramesIn(new) \subseteq FramesIn(tab) \cup Range(fs)
  <2>1. ASSUME NEW q \in Page, new[q].isuser
        PROVE  new[q].frame \in FramesIn(tab) \cup Range(fs)
    BY <1>3, <1>5, <1>a, <2>1 DEF FramesIn
  <2> QED  BY <2>1 DEF FramesIn
<1>8. Range(fs) \subseteq FramesIn(new)
  <2>1. ASSUME NEW i \in 1 .. n
        PROVE  fs[i] \in FramesIn(new)
    <3>1. p + i - 1 \in W /\ (p + i - 1) - p + 1 = i
      BY <1>1 DEF W
    <3>2. new[p + i - 1].frame = fs[i] /\ new[p + i - 1].isuser /\ p + i - 1 \in Page
      BY <1>1, <1>a, <3>1
    <3> QED  BY <3>2 DEF FramesIn
  <2> QED  BY <2>1 DEF Range
<1>9. ASSUME Once(tab), FramesIn(tab) \cap S = {} PROVE Once(new)
  <2>1. ASSUME NEW x \in Page, NEW y \in Page, new[x].isuser, new[y].isuser,
               new[x].frame = new[y].frame
        PROVE  x = y
    <3>1. CASE x \in W /\ y \in W
      <4>1. fs[x - p + 1] = fs[y - p + 1]
        BY <1>a, <2>1, <3>1
      <4>2. x - p + 1 = y - p + 1
        BY <1>2, <3>1, <4>1
      <4> QED  BY <1>1, <4>2
    <3>2. CASE x \notin W /\ y \notin W
      BY <1>5, <1>9, <2>1, <3>2 DEF Once
    <3>3. CASE x \in W /\ y \notin W
      BY <1>3, <1>5, <1>a, <1>9, <2>1, <3>3 DEF FramesIn
    <3>4. CASE x \notin W /\ y \in W
      BY <1>3, <1>5, <1>a, <1>9, <2>1, <3>4 DEF FramesIn
    <3> QED  BY <3>1, <3>2, <3>3, <3>4
  <2> QED  BY <2>1 DEF Once
<1>10. ASSUME n = 1, ~tab[p].isuser PROVE FramesIn(tab) \subseteq FramesIn(new)
  <2>1. W = {p}
    BY <1>1, <1>10 DEF W
  <2> QED  BY <1>5, <1>10, <2>1 DEF FramesIn
<1>11. new[p].isuser
  BY <1>1, <1>a
<1> QED  BY <1>5, <1>a, <1>6, <1>7, <1>8, <1>9, <1>10, <1>11 DEF W, new, Extends

(* What AllocUser does: it halts, finds the page mapped, or takes F.       *)
Outcome(t, tab, p, n, F) ==
  /\ phys_mem_map' = phys_mem_map \cup F
  /\ table' \in [Tid -> [Page -> Entry]] /\ \A u \in Tid \ {t} : table'[u] = table[u]
  /\ \/ halted' = "noMemory" /\ table' = table /\ F = {}
     \/ /\ halted' = "no"
        /\ F \subseteq FramesIn(table'[t])
        /\ FramesIn(table'[t]) \subseteq FramesIn(tab) \cup F
        /\ Once(table'[t])
        /\ table'[t][p].isuser
        /\ \A q \in Page : \/ table'[t][q] = tab[q]
                           \/ q \in p .. p + n - 1 /\ table'[t][q].isuser
        /\ n = 1 => FramesIn(tab) \subseteq FramesIn(table'[t])

LEMMA AllocUserOutcome ==
  ASSUME TypeOK, HeldApart, MappedOnce, halted = "no",
         NEW t \in Tid, NEW tab \in [Page -> Entry], NEW p \in Page,
         NEW n \in Nat \ {0}, p + n <= NPages,
         FramesIn(tab) \subseteq has[t], Once(tab), AllocUser(t, tab, p, n)
  PROVE  \E F \in SUBSET Unused : Outcome(t, tab, p, n, F)
<1>1. table \in [Tid -> [Page -> Entry]]
  BY DEF TypeOK
<1>2. CASE halted' = "noMemory" /\ UNCHANGED <<phys_mem_map, table>>
  <2>1. phys_mem_map' = phys_mem_map \cup {} /\ {} \in SUBSET Unused /\ table' = table
    BY <1>2
  <2> QED  BY <1>1, <1>2, <2>1 DEF Outcome
<1>3. CASE tab[p].isuser /\ table' = [table EXCEPT ![t] = tab] /\ UNCHANGED <<phys_mem_map, halted>>
  <2>1. table'[t] = tab /\ table' \in [Tid -> [Page -> Entry]] /\ \A u \in Tid \ {t} : table'[u] = table[u]
    BY <1>1, <1>3
  <2>2. phys_mem_map' = phys_mem_map \cup {} /\ {} \in SUBSET Unused /\ halted' = "no"
    BY <1>3
  <2> QED  BY <1>3, <2>1, <2>2 DEF Outcome
<1>4. CASE /\ ~tab[p].isuser /\ n <= Cardinality(Unused) /\ UNCHANGED halted
           /\ table' = [table EXCEPT ![t] = MapPages(tab, p, Lowest(Unused, n))]
           /\ phys_mem_map' = Mark(Lowest(Unused, n))
  <2>1. PICK fs \in [1 .. n -> Unused] :
          /\ fs = Lowest(Unused, n)
          /\ Range(fs) \subseteq Unused /\ Len(fs) = n
          /\ \A i, j \in 1 .. n : fs[i] = fs[j] => i = j
    BY <1>4, NewFrames
  <2>2. PICK new : new = MapPages(tab, p, fs)
    OBVIOUS
  <2>3. FramesIn(tab) \cap Unused = {}
    BY UnusedIsFinite DEF HeldApart
  <2>4. /\ new \in [Page -> Entry]
        /\ FramesIn(new) \subseteq FramesIn(tab) \cup Range(fs)
        /\ Range(fs) \subseteq FramesIn(new)
        /\ Once(new) /\ new[p].isuser
        /\ \A q \in Page : new[q] = tab[q] \/ (q \in p .. p + n - 1 /\ new[q].isuser)
        /\ n = 1 => FramesIn(tab) \subseteq FramesIn(new)
    <3>1. Unused \in SUBSET Memory
      BY UnusedIsFinite
    <3>2. Extends(tab, MapPages(tab, p, fs), p, n, fs, Unused)
      BY <2>1, <3>1, MapPagesTakes
    <3> QED  BY <1>4, <2>2, <2>3, <3>2 DEF Extends
  <2>5. table'[t] = new /\ table' \in [Tid -> [Page -> Entry]] /\ \A u \in Tid \ {t} : table'[u] = table[u]
    BY <1>1, <1>4, <2>1, <2>2, <2>4
  <2>6. phys_mem_map' = phys_mem_map \cup Range(fs) /\ Range(fs) \in SUBSET Unused /\ halted' = "no"
    BY <1>4, <2>1 DEF Mark
  <2> QED  BY <2>4, <2>5, <2>6 DEF Outcome
<1> QED
  <2>1. ~(Cardinality(Unused) < n) => n <= Cardinality(Unused)
    BY UnusedIsFinite
  <2> QED  BY <1>2, <1>3, <1>4, <2>1 DEF AllocUser

LEMMA AllocKernelOutcome ==
  ASSUME TypeOK, HeldApart, MappedOnce, halted = "no",
         NEW n \in Nat \ {0}, AllocKernel(n)
  PROVE  \E F \in SUBSET Unused :
           /\ phys_mem_map' = phys_mem_map \cup F
           /\ kernel' \in [Page -> Frame \cup {NoFrame}]
           /\ KernelFrames' = KernelFrames \cup F
           /\ \A x \in Page : kernel[x] # NoFrame => kernel'[x] = kernel[x]
           /\ \A x, y \in Page : kernel'[x] = kernel'[y] => x = y \/ kernel'[x] = NoFrame
           /\ halted' \in {"no", "noMemory"}
<1>0. kernel \in [Page -> Frame \cup {NoFrame}]
  BY DEF TypeOK
<1>1. Holes(Clone, n) # {}
  BY DEF AllocKernel
<1>2. PICK p \in Page : p = Min(Holes(Clone, n)) /\ p + n <= NPages
    /\ \A q \in p .. p + n - 1 : q \in Page /\ kernel[q] = NoFrame
  <2>1. \A q \in Page : Clone[q].frame = kernel[q]
    BY DEF Clone
  <2>2. PICK x : x = Min(Holes(Clone, n))
    OBVIOUS
  <2>3. x \in Page /\ x + n <= NPages
        /\ \A q \in x .. x + n - 1 : q \in Page /\ Clone[q].frame = NoFrame
    BY <1>1, <2>2, MinHole
  <2>4. \A q \in x .. x + n - 1 : q \in Page /\ kernel[q] = NoFrame
    BY <2>1, <2>3
  <2> QED  BY <2>2, <2>3, <2>4
<1>3. CASE halted' = "noMemory" /\ UNCHANGED <<phys_mem_map, kernel>>
  <2>1. phys_mem_map' = phys_mem_map \cup {} /\ {} \in SUBSET Unused /\ kernel' = kernel
        /\ KernelFrames' = KernelFrames \cup {}
    BY <1>3 DEF KernelFrames
  <2> QED  BY <1>0, <1>3, <2>1 DEF MappedOnce
<1>4. CASE /\ n <= Cardinality(Unused) /\ UNCHANGED halted
           /\ kernel' = [q \in Page |-> IF q \in p .. p + n - 1
                                        THEN Lowest(Unused, n)[q - p + 1] ELSE kernel[q]]
           /\ phys_mem_map' = Mark(Lowest(Unused, n))
  <2>1. PICK fs \in [1 .. n -> Unused] :
          /\ fs = Lowest(Unused, n)
          /\ Range(fs) \subseteq Unused /\ Len(fs) = n
          /\ \A i, j \in 1 .. n : fs[i] = fs[j] => i = j
    BY <1>4, NewFrames
  <2>2. PICK W : W = p .. p + n - 1
    OBVIOUS
  <2>3. /\ W \subseteq Page /\ p \in Nat /\ Page \subseteq Nat
        /\ \A q \in W : q - p + 1 \in 1 .. n
    <3>1. p \in Nat /\ Page \subseteq Nat
      BY Constants
    <3> QED  BY <1>2, <2>2, <3>1
  <2>4. /\ \A q \in W : kernel'[q] = fs[q - p + 1] /\ kernel'[q] \in Unused /\ kernel'[q] \in Range(fs)
        /\ \A q \in Page \ W : kernel'[q] = kernel[q]
        /\ \A q \in W : kernel[q] = NoFrame
    BY <1>2, <1>4, <2>1, <2>2, <2>3 DEF Range
  <2>5. Unused \subseteq Frame /\ NoFrame \notin Unused
    BY UnusedIsFinite, Constants DEF Frame
  <2>6. kernel' \in [Page -> Frame \cup {NoFrame}]
    <3>1. \A q \in Page : kernel'[q] \in Frame \cup {NoFrame}
      BY <1>0, <2>4, <2>5
    <3>2. kernel' = [q \in Page |-> kernel'[q]]
      BY <1>4
    <3> QED  BY <3>1, <3>2
  <2>7. KernelFrames' = KernelFrames \cup Range(fs)
    <3>1. Range(fs) \subseteq KernelFrames'
      <4>1. ASSUME NEW i \in 1 .. n PROVE fs[i] \in KernelFrames'
        <5>1. p + i - 1 \in W /\ (p + i - 1) - p + 1 = i
          BY <2>2, <2>3
        <5>2. p + i - 1 \in Page /\ kernel'[p + i - 1] = fs[i] /\ fs[i] # NoFrame
          BY <2>1, <2>3, <2>4, <2>5, <5>1
        <5> QED  BY <2>6, <5>2 DEF KernelFrames, Range
      <4> QED  BY <4>1 DEF Range
    <3>2. KernelFrames \subseteq KernelFrames'
      BY <1>0, <2>4, <2>6 DEF KernelFrames, Range
    <3>3. KernelFrames' \subseteq KernelFrames \cup Range(fs)
      BY <1>0, <2>4, <2>6 DEF KernelFrames, Range
    <3> QED  BY <3>1, <3>2, <3>3
  <2>8. KernelFrames \cap Unused = {}
    <3>1. KernelFrames \subseteq phys_mem_map \cup Device
      BY HasIs DEF HeldApart
    <3> QED  BY <3>1, UnusedIsFinite, Constants
  <2>9. ASSUME NEW x \in Page, NEW y \in Page, kernel'[x] = kernel'[y], kernel'[x] # NoFrame
        PROVE  x = y
    <3>1. CASE x \in W /\ y \in W
      <4>1. x - p + 1 = y - p + 1
        BY <2>1, <2>3, <2>4, <2>9, <3>1
      <4> QED  BY <2>3, <4>1
    <3>2. CASE x \notin W /\ y \notin W
      BY <2>4, <2>9, <3>2 DEF MappedOnce
    <3>3. \A q \in Page \ W : kernel'[q] # NoFrame => kernel'[q] \in KernelFrames
      BY <1>0, <2>4 DEF KernelFrames, Range
    <3>4. CASE (x \in W) # (y \in W)
      BY <2>4, <2>8, <2>9, <3>3, <3>4
    <3> QED  BY <3>1, <3>2, <3>4
  <2>10. phys_mem_map' = phys_mem_map \cup Range(fs) /\ Range(fs) \in SUBSET Unused /\ halted' = "no"
    BY <1>4, <2>1 DEF Mark
  <2>11. \A x \in Page : kernel[x] # NoFrame => kernel'[x] = kernel[x]
    BY <2>4
  <2> QED  BY <2>6, <2>7, <2>9, <2>10, <2>11
<1> QED
  <2>1. ~(Cardinality(Unused) < n) => n <= Cardinality(Unused)
    BY UnusedIsFinite
  <2> QED  BY <1>2, <1>3, <1>4, <2>1 DEF AllocKernel
-----------------------------------------------------------------------------
(***************************************************************************)
(* The invariant, and what each action moves.                              *)
(***************************************************************************)

(* Frames change hands, and none is lost.                                  *)
LosesNone == \E o \in Holder : \E F, G \in SUBSET Frame :
  Moves(o, F, G) /\ has[o] \ G \subseteq has'[o]

LEMMA Holding ==
  ASSUME IInv
  PROVE  /\ TypeOK /\ HeldApart /\ MappedOnce /\ Places /\ Loading
         /\ phys_mem_map \subseteq Memory \cup Image
         /\ \A t \in Tid : has[t] \subseteq Memory /\ has[t] \subseteq Frame
         /\ KernelFrames \subseteq Frame /\ Unused \subseteq Frame
BY HasIs, UnusedIsFinite DEF IInv, TypeOK, HeldApart, KernelFrames, Range, Frame

LEMMA NoMove ==
  ASSUME IInv, UNCHANGED <<phys_mem_map, kernel, table, live, ptr>>
  PROVE  LosesNone /\ HeldApart'
<1>1. \A u \in Holder : has'[u] = has[u]
  <2>1. has'[None] = has[None]
    BY HasIs, HasIsNext DEF KernelFrames
  <2>2. \A t \in Tid : has'[t] = has[t]
    BY HasIs, HasIsNext
  <2> QED  BY <2>1, <2>2 DEF Holder
<1>2. Moves(None, {}, {})
  BY <1>1, HasIs DEF Moves
<1>3. \A t \in Tid \ live' : has'[t] = {}
  BY <1>1, HasIs, Holding DEF HeldApart
<1> QED  BY <1>1, <1>2, <1>3, HasIs, Holding, MovesKeep DEF LosesNone

LEMMA InitIInv == Init => IInv
<1> SUFFICES ASSUME Init PROVE IInv
  OBVIOUS
<1>1. /\ Image \subseteq Page /\ Page \subseteq Nat /\ MaxTid \in Nat /\ 0 \in Tid \cup {None}
      /\ Image \cap Device = {} /\ NoFrame \notin Image
  BY Constants DEF None
<1>2. /\ phys_mem_map = Image /\ kernel = [p \in Page |-> IF p \in Image THEN p ELSE NoFrame]
      /\ majors = {} /\ blocks = {} /\ live = {} /\ leftover = {} /\ loading = Idle
      /\ tid_counter = 0 /\ halted = "no"
      /\ table = [t \in Tid |-> [p \in Page |-> Absent]]
      /\ stack = [t \in Tid |-> 0] /\ ptr = [t \in Tid |-> <<>>]
  BY DEF Init
<1>3. kernel \in [Page -> Frame \cup {NoFrame}]
  BY <1>2 DEF Frame
<1>4. KernelFrames = Image
  <2>1. KernelFrames \subseteq Image
    BY <1>2 DEF KernelFrames, Range
  <2>2. \A p \in Image : p \in DOMAIN kernel /\ kernel[p] = p /\ p # NoFrame
    BY <1>1, <1>2
  <2> QED  BY <2>1, <2>2 DEF KernelFrames, Range
<1>5. ASSUME NEW t \in Tid
      PROVE  has[t] = {} /\ Once(table[t])
  <2>1. \A p \in Page : table[t][p] = Absent
    BY <1>2
  <2>2. \A p \in Page : ~table[t][p].isuser
    BY <2>1 DEF Absent
  <2>3. ptr[t] = <<>> /\ Range(ptr[t]) = {}
    BY <1>2 DEF Range
  <2>4. UNION Range(ptr[t]) = {} /\ FramesIn(table[t]) = {}
    BY <2>2, <2>3 DEF FramesIn
  <2> QED  BY <2>2, <2>4, HasIs DEF Once
<1>6. TypeOK
  <2>1. Absent \in Entry
    BY DEF Absent, Entry
  <2>2. table \in [Tid -> [Page -> Entry]]
    BY <1>2, <2>1
  <2>3. stack \in [Tid -> Page]
    <3>1. Tid = {} \/ 0 \in Page
      BY AddressSpacesAssumption DEF Page
    <3> QED  BY <1>2, <3>1
  <2>4. ptr \in [Tid -> Seq(SUBSET Memory)]
    BY <1>2
  <2>5. loading.tid \in Tid \cup {None} /\ loading.todo \in Seq(Page \cup {Other})
    BY <1>1, <1>2 DEF Idle
  <2> QED  BY <1>1, <1>2, <1>3, <2>2, <2>3, <2>4, <2>5 DEF TypeOK
<1>7. HeldApart
  <2>1. has[None] = Image
    BY <1>4, HasIs
  <2> QED  BY <1>2, <1>5, <2>1 DEF HeldApart, Holder
<1>8. MappedOnce
  BY <1>2, <1>5 DEF MappedOnce
<1>9. Places /\ Loading /\ ImageIsEverywhere
  <2>1. Idle \in [tid : Tid \cup {None}, todo : Seq(Page \ Image)]
    BY DEF Idle
  <2> QED  BY <1>1, <1>2, <2>1 DEF Places, Loading, ImageIsEverywhere
<1> QED  BY <1>6, <1>7, <1>8, <1>9 DEF IInv
-----------------------------------------------------------------------------
(* The kernel allocates.                                                   *)
LEMMA KernelTakes ==
  ASSUME IInv, halted = "no", NEW n \in Nat \ {0}, AllocKernel(n),
         UNCHANGED <<table, live, stack, ptr, leftover, loading, tid_counter>>,
         majors' \subseteq Page, blocks' \subseteq Page,
         majors' \subseteq majors \cup {p \in Page : kernel'[p] # kernel[p]}
  PROVE  IInv' /\ LosesNone
<1>1. PICK F \in SUBSET Unused :
        /\ phys_mem_map' = phys_mem_map \cup F
        /\ kernel' \in [Page -> Frame \cup {NoFrame}]
        /\ KernelFrames' = KernelFrames \cup F
        /\ \A x \in Page : kernel[x] # NoFrame => kernel'[x] = kernel[x]
        /\ \A x, y \in Page : kernel'[x] = kernel'[y] => x = y \/ kernel'[x] = NoFrame
        /\ halted' \in {"no", "noMemory"}
  BY Holding, AllocKernelOutcome
<1>2. /\ has'[None] = has[None] \cup F
      /\ \A t \in Tid : has'[t] = has[t]
  BY <1>1, HasIs, HasIsNext
<1>3. Moves(None, F, {}) /\ has[None] \ {} \subseteq has'[None]
  BY <1>1, <1>2, HasIs DEF Moves, Holder
<1>4. LosesNone
  BY <1>3, Holding, HasIs DEF LosesNone
<1>5. HeldApart'
  <2>1. \A t \in Tid \ live' : has'[t] = {}
    BY <1>2, Holding DEF HeldApart
  <2> QED  BY <1>3, <2>1, HasIs, Holding, MovesKeep
<1>6. TypeOK'
  BY <1>1, Holding, UnusedIsFinite DEF TypeOK
<1>7. MappedOnce' /\ Loading'
  BY <1>1, Holding DEF MappedOnce, Loading
<1>8. \A p \in Image : kernel[p] = p /\ kernel'[p] = p
  <2>1. \A p \in Image : p \in Page /\ kernel[p] = p /\ p # NoFrame
    BY Constants DEF IInv, ImageIsEverywhere
  <2> QED  BY <1>1, <2>1
<1>9. ImageIsEverywhere'
  BY <1>8 DEF IInv, ImageIsEverywhere
<1>10. Places'
  BY <1>8, Holding DEF Places
<1> QED  BY <1>4, <1>5, <1>6, <1>7, <1>9, <1>10 DEF IInv

LEMMA AllocKeeps ==
  ASSUME IInv, liballoc_alloc \/ ExtendPageHeap
  PROVE  IInv' /\ LosesNone
<1>1. majors \subseteq Page /\ blocks \subseteq Page
  BY Holding DEF TypeOK
<1>2. CASE liballoc_alloc
  BY <1>1, <1>2, KernelTakes DEF liballoc_alloc
<1>3. CASE ExtendPageHeap
  <2>1. blocks' \subseteq Page
    BY <1>3 DEF ExtendPageHeap
  <2> QED  BY <1>1, <1>3, <2>1, KernelTakes DEF ExtendPageHeap
<1> QED  BY <1>2, <1>3

LEMMA FreeKeeps ==
  ASSUME IInv, liballoc_free
  PROVE  IInv' /\ LosesNone
<1>1. PICK p \in majors :
        /\ phys_mem_map' = phys_mem_map \ {kernel[p]}
        /\ kernel' = [kernel EXCEPT ![p] = NoFrame]
        /\ majors' = majors \ {p}
  BY DEF liballoc_free, Unmapped
<1>2. /\ UNCHANGED <<blocks, table, live, stack, ptr, leftover, loading, tid_counter, halted>>
      /\ halted = "no"
  BY DEF liballoc_free
<1>3. p \in Page /\ p \notin Image /\ kernel \in [Page -> Frame \cup {NoFrame}]
  BY Holding DEF TypeOK, Places
<1>4. PICK G : G = {kernel[p]} \cap KernelFrames
  OBVIOUS
<1>5. phys_mem_map' = (phys_mem_map \cup {}) \ G
  <2>1. kernel[p] \in KernelFrames \/ kernel[p] = NoFrame
    BY <1>3 DEF KernelFrames, Range
  <2>2. NoFrame \notin phys_mem_map
    BY Holding, Constants
  <2> QED  BY <1>1, <1>4, <2>1, <2>2
<1>6. KernelFrames' = KernelFrames \ G
  <2>1. ASSUME NEW q \in Page, q # p
        PROVE  kernel'[q] = kernel[q] /\ (kernel[q] # NoFrame => kernel[q] # kernel[p])
    BY <1>1, <1>3, <2>1, Holding DEF MappedOnce
  <2>2. kernel'[p] = NoFrame /\ DOMAIN kernel' = Page /\ DOMAIN kernel = Page
    BY <1>1, <1>3
  <2> QED  BY <1>3, <1>4, <2>1, <2>2 DEF KernelFrames, Range
<1>7. /\ has'[None] = has[None] \ G
      /\ \A t \in Tid : has'[t] = has[t]
  BY <1>2, <1>6, HasIs, HasIsNext
<1>8. Moves(None, {}, G) /\ has[None] \ G \subseteq has'[None]
  BY <1>4, <1>5, <1>7, HasIs DEF Moves, Holder
<1>9. LosesNone
  BY <1>4, <1>8, Holding, HasIs DEF LosesNone
<1>10. HeldApart'
  <2>1. \A t \in Tid \ live' : has'[t] = {}
    BY <1>2, <1>7, Holding DEF HeldApart
  <2> QED  BY <1>8, <2>1, HasIs, Holding, MovesKeep
<1>11. TypeOK'
  BY <1>1, <1>2, <1>3, Holding DEF TypeOK
<1>12. MappedOnce'
  <2>1. \A t \in Tid : Once(table'[t])
    BY <1>2, Holding DEF MappedOnce
  <2>2. \A x, y \in Page : kernel'[x] = kernel'[y] => x = y \/ kernel'[x] = NoFrame
    BY <1>1, <1>3, Holding DEF MappedOnce
  <2> QED  BY <2>1, <2>2 DEF MappedOnce
<1>13. Loading' /\ Places'
  BY <1>1, <1>2, Holding DEF Places, Loading
<1>14. ImageIsEverywhere'
  <2>1. Image \subseteq Page
    BY Constants
  <2> QED  BY <1>1, <1>2, <1>3, <2>1 DEF IInv, ImageIsEverywhere
<1> QED  BY <1>9, <1>10, <1>11, <1>12, <1>13, <1>14 DEF IInv

LEMMA DeviceKeeps ==
  ASSUME IInv, MapDevice
  PROVE  IInv' /\ LosesNone
<1>1. PICK f \in Device :
        /\ \A x \in Page : kernel[x] # f
        /\ Holes(Clone, 1) # {}
        /\ kernel' = [kernel EXCEPT ![Min(Holes(Clone, 1))] = f]
  BY DEF MapDevice
<1>2. PICK p : p = Min(Holes(Clone, 1))
  OBVIOUS
<1>3. p \in Page /\ kernel[p] = NoFrame
  <2>1. p \in Page /\ Clone[p].frame = NoFrame
    BY <1>1, <1>2, MinHole
  <2> QED  BY <2>1 DEF Clone
<1>4. /\ UNCHANGED <<phys_mem_map, majors, blocks, table, live, stack, ptr, leftover,
                     loading, tid_counter, halted>>
      /\ halted = "no"
  BY DEF MapDevice
<1>5. /\ kernel \in [Page -> Frame \cup {NoFrame}] /\ f \in Frame
      /\ kernel' \in [Page -> Frame \cup {NoFrame}]
      /\ kernel'[p] = f /\ \A q \in Page \ {p} : kernel'[q] = kernel[q]
  BY <1>1, <1>2, <1>3, Holding DEF TypeOK, Frame
<1>6. KernelFrames' = KernelFrames \cup {f}
  <2>1. f # NoFrame
    BY Constants
  <2> QED  BY <1>3, <1>5, <2>1 DEF KernelFrames, Range
<1>7. /\ has'[None] = has[None] \cup {f}
      /\ \A t \in Tid : has'[t] = has[t]
  BY <1>4, <1>6, HasIs, HasIsNext
<1>8. Moves(None, {}, {}) /\ has[None] \ {} \subseteq has'[None]
  BY <1>4, <1>7, HasIs DEF Moves, Holder
<1>9. LosesNone
  BY <1>8, HasIs DEF LosesNone
<1>10. HeldApart'
  <2>1. \A t \in Tid \ live' : has'[t] = {}
    BY <1>4, <1>7, Holding DEF HeldApart
  <2> QED  BY <1>8, <2>1, HasIs, Holding, MovesKeep
<1>11. TypeOK'
  BY <1>4, <1>5, Holding DEF TypeOK
<1>12. MappedOnce'
  <2>1. \A t \in Tid : Once(table'[t])
    BY <1>4, Holding DEF MappedOnce
  <2>2. \A x, y \in Page : kernel'[x] = kernel'[y] => x = y \/ kernel'[x] = NoFrame
    BY <1>1, <1>3, <1>5, Holding DEF MappedOnce
  <2> QED  BY <2>1, <2>2 DEF MappedOnce
<1>13. Loading' /\ Places'
  BY <1>4, Holding DEF Places, Loading
<1>14. ImageIsEverywhere'
  <2>1. p \notin Image /\ Image \subseteq Page
    BY <1>3, <1>4, Constants DEF IInv, ImageIsEverywhere
  <2> QED  BY <1>4, <1>5, <2>1 DEF IInv, ImageIsEverywhere
<1> QED  BY <1>9, <1>10, <1>11, <1>12, <1>13, <1>14 DEF IInv
-----------------------------------------------------------------------------
(* A task takes frames; what it has it keeps, but for what it maps over.   *)
LEMMA TaskTakes ==
  ASSUME IInv, NEW t \in Tid, NEW F \in SUBSET Unused,
         phys_mem_map' = phys_mem_map \cup F, kernel' = kernel,
         \A u \in Tid \ {t} : table'[u] = table[u] /\ ptr'[u] = ptr[u],
         F \subseteq FramesIn(table'[t]), FramesIn(table'[t]) \subseteq has[t] \cup F,
         UNION Range(ptr'[t]) \subseteq has[t] \cup F,
         Once(table'[t]), t \in live', live \subseteq live'
  PROVE  /\ Moves(t, F, {}) /\ HeldApart' /\ MappedOnce'
         /\ has'[t] = FramesIn(table'[t]) \cup UNION Range(ptr'[t])
<1>1. \A u \in Tid \ {t} : has'[u] = has[u]
  BY HasIs, HasIsNext
<1>2. has'[None] = has[None]
  BY HasIs, HasIsNext DEF KernelFrames
<1>3. has'[t] = FramesIn(table'[t]) \cup UNION Range(ptr'[t])
  BY HasIsNext
<1>4. Moves(t, F, {})
  BY <1>1, <1>2, <1>3, Constants DEF Moves, Holder
<1>5. HeldApart'
  <2>1. \A u \in Tid \ live' : has'[u] = {}
    BY <1>1, Holding DEF HeldApart
  <2> QED  BY <1>4, <2>1, HasIs, Holding, MovesKeep
<1>6. MappedOnce'
  <2>1. \A u \in Tid : Once(table'[u])
    BY Holding DEF MappedOnce
  <2> QED  BY <2>1, Holding DEF MappedOnce
<1> QED  BY <1>3, <1>4, <1>5, <1>6

LEMMA StartKeeps ==
  ASSUME ProgramsFit, IInv, task_start_func
  PROVE  IInv' /\ LosesNone
<1>1. PICK t, p : t = tid_counter + 1 /\ p = Min(Holes(Clone, 1))
  OBVIOUS
<1>2. /\ halted = "no" /\ tid_counter < MaxTid /\ Holes(Clone, 1) # {}
      /\ tid_counter' = t /\ AllocUser(t, Clone, p, 1) /\ live' = live \cup {t}
      /\ stack' = [stack EXCEPT ![t] = p] /\ ptr' = [ptr EXCEPT ![t] = <<>>]
      /\ UNCHANGED <<kernel, majors, blocks, leftover>>
  BY <1>1 DEF task_start_func
<1>3. PICK prog \in Program : loading' = [tid |-> t, todo |-> prog]
  BY <1>1 DEF task_start_func
<1>4. /\ t \in Tid /\ t \notin live /\ t \in 0 .. MaxTid /\ \A u \in live' : u <= t
  <2>1. tid_counter \in 0 .. MaxTid /\ MaxTid \in Nat
    BY Holding, Constants DEF TypeOK
  <2>2. live \subseteq Tid /\ \A u \in live : u <= tid_counter
    BY Holding DEF TypeOK, Places
  <2> QED  BY <1>1, <1>2, <2>1, <2>2 DEF Tid
<1>5. p \in Page /\ p + 1 <= NPages /\ kernel[p] = NoFrame
  <2>1. p \in Page /\ p + 1 <= NPages /\ Clone[p].frame = NoFrame
    BY <1>1, <1>2, MinHole
  <2> QED  BY <2>1 DEF Clone
<1>6. /\ Clone \in [Page -> Entry] /\ FramesIn(Clone) = {} /\ Once(Clone)
      /\ \A q \in Page : Clone[q] = [frame |-> kernel[q], isuser |-> FALSE]
  <2>1. \A q \in Page : Clone[q] = [frame |-> kernel[q], isuser |-> FALSE] /\ ~Clone[q].isuser
    BY DEF Clone
  <2>2. \A q \in Page : [frame |-> kernel[q], isuser |-> FALSE] \in Entry
    BY Holding DEF TypeOK, Entry
  <2> QED  BY <2>1, <2>2 DEF Clone, FramesIn, Once
<1>7. has[t] = {} /\ FramesIn(table[t]) = {}
  BY <1>4, Holding, HasIs DEF HeldApart
<1>a. PICK F \in SUBSET Unused : Outcome(t, Clone, p, 1, F)
  <2>1. FramesIn(Clone) \subseteq has[t] /\ 1 \in Nat \ {0} /\ TypeOK /\ HeldApart /\ MappedOnce
    BY <1>6, Holding
  <2> QED  BY <1>2, <1>4, <1>5, <1>6, <2>1, AllocUserOutcome
<1>8. /\ phys_mem_map' = phys_mem_map \cup F
      /\ table' \in [Tid -> [Page -> Entry]] /\ \A u \in Tid \ {t} : table'[u] = table[u]
      /\ \/ halted' = "noMemory" /\ table' = table /\ F = {}
         \/ /\ halted' = "no"
            /\ F \subseteq FramesIn(table'[t])
            /\ FramesIn(table'[t]) \subseteq FramesIn(Clone) \cup F
            /\ Once(table'[t])
            /\ table'[t][p].isuser
            /\ \A q \in Page \ (p .. p + 1 - 1) : table'[t][q] = Clone[q]
  BY <1>a DEF Outcome
<1>9. /\ ptr' \in [Tid -> Seq(SUBSET Memory)] /\ ptr'[t] = <<>>
      /\ \A u \in Tid \ {t} : ptr'[u] = ptr[u]
      /\ UNION Range(ptr'[t]) = {}
  <2>1. ptr \in [Tid -> Seq(SUBSET Memory)] /\ <<>> \in Seq(SUBSET Memory)
    BY Holding DEF TypeOK
  <2>2. ptr'[t] = <<>>
    BY <1>2, <1>4, <2>1
  <2>3. Range(ptr'[t]) = {}
    BY <2>2 DEF Range
  <2> QED  BY <1>2, <1>4, <2>1, <2>2, <2>3
<1>10. F \subseteq FramesIn(table'[t]) /\ FramesIn(table'[t]) \subseteq has[t] \cup F /\ Once(table'[t])
  BY <1>4, <1>6, <1>7, <1>8, Holding DEF MappedOnce
<1>11. Moves(t, F, {}) /\ HeldApart' /\ MappedOnce'
  BY <1>2, <1>4, <1>8, <1>9, <1>10, TaskTakes
<1>12. LosesNone
  BY <1>4, <1>7, <1>11, HasIs, Holding DEF LosesNone
<1>13. loading' \in [tid : Tid \cup {None}, todo : Seq(Page \ Image)]
       /\ loading'.tid = t /\ loading'.todo \in Seq(Page \cup {Other})
  BY <1>3, <1>4, AddressSpacesAssumption DEF ProgramsFit
<1>14. TypeOK'
  <2>1. stack' \in [Tid -> Page] /\ live' \subseteq Tid
    BY <1>2, <1>4, <1>5, Holding DEF TypeOK
  <2>2. halted' \in {"no", "noMemory", "overwritten"} /\ tid_counter' \in 0 .. MaxTid
    BY <1>2, <1>4, <1>8
  <2>3. phys_mem_map' \subseteq Memory \cup Image
    BY <1>8, Holding, UnusedIsFinite
  <2>4. UNCHANGED <<kernel, majors, blocks, leftover>> /\ kernel \in [Page -> Frame \cup {NoFrame}]
        /\ majors \subseteq Page /\ blocks \subseteq Page /\ leftover \subseteq Memory
    BY <1>2, Holding DEF TypeOK
  <2> QED  BY <1>4, <1>8, <1>9, <1>13, <2>1, <2>2, <2>3, <2>4 DEF TypeOK
<1>15. Loading'
  BY <1>2, <1>13 DEF Loading
<1>16. Places'
  <2>1. ASSUME halted' = "no", NEW u \in live' PROVE table'[u][stack'[u]].isuser
    <3>1. CASE u = t
      <4>1. stack'[t] = p
        BY <1>2, <1>4, Holding DEF TypeOK
      <4> QED  BY <1>8, <2>1, <3>1, <4>1
    <3>2. CASE u # t
      <4>1. u \in live /\ u \in Tid /\ table'[u] = table[u] /\ stack'[u] = stack[u]
        BY <1>2, <1>8, <3>2, Holding DEF TypeOK
      <4> QED  BY <1>2, <4>1, Holding DEF Places
    <3> QED  BY <3>1, <3>2
  <2>2. majors' \cap Image = {}
    BY <1>2, Holding DEF Places
  <2> QED  BY <1>2, <1>4, <2>1, <2>2 DEF Places
<1>17. ImageIsEverywhere'
  <2> SUFFICES ASSUME halted' = "no", NEW q \in Image
               PROVE  kernel'[q] = q /\ \A u \in live' : table'[u][q] = [frame |-> q, isuser |-> FALSE]
    BY DEF ImageIsEverywhere
  <2>1. kernel[q] = q /\ q \in Page /\ q # NoFrame /\ \A u \in live : table[u][q] = [frame |-> q, isuser |-> FALSE]
    BY <1>2, Constants DEF IInv, ImageIsEverywhere
  <2>2. \A u \in live : u \in Tid /\ u # t
    BY <1>4, Holding DEF TypeOK
  <2>3. q \notin p .. p + 1 - 1
    <3>1. q # p /\ p \in Nat
      BY <1>5, <2>1, Constants
    <3> QED  BY <3>1
  <2>4. table'[t][q] = [frame |-> q, isuser |-> FALSE]
    BY <1>6, <1>8, <2>1, <2>3
  <2> QED  BY <1>2, <1>8, <2>1, <2>2, <2>4
<1> QED  BY <1>11, <1>12, <1>14, <1>15, <1>16, <1>17 DEF IInv
-----------------------------------------------------------------------------
LEMMA LiveOutcome ==
  ASSUME IInv, halted = "no", NEW t \in live, NEW p \in Page, NEW n \in Nat \ {0},
         p + n <= NPages, AllocUser(t, table[t], p, n)
  PROVE  t \in Tid /\ \E F \in SUBSET Unused : Outcome(t, table[t], p, n, F)
<1>1. TypeOK /\ HeldApart /\ MappedOnce /\ t \in Tid /\ table[t] \in [Page -> Entry]
  BY Holding DEF TypeOK
<1>2. FramesIn(table[t]) \subseteq has[t] /\ Once(table[t])
  BY <1>1, HasIs DEF MappedOnce
<1> QED  BY <1>1, <1>2, AllocUserOutcome

(* A task that has a table gets pages where the kernel's image is not.     *)
LEMMA LiveTakes ==
  ASSUME IInv, halted = "no", NEW t \in live, NEW p \in Page, NEW n \in Nat \ {0},
         NEW F \in SUBSET Unused, Outcome(t, table[t], p, n, F),
         \A q \in Image : q \notin p .. p + n - 1,
         UNCHANGED <<kernel, majors, blocks, live, stack, leftover, tid_counter>>,
         ptr' \in [Tid -> Seq(SUBSET Memory)], \A u \in Tid \ {t} : ptr'[u] = ptr[u],
         UNION Range(ptr'[t]) \subseteq (UNION Range(ptr[t])) \cup FramesIn(table'[t]),
         Loading', loading'.todo \in Seq(Page \cup {Other})
  PROVE  /\ IInv' /\ Moves(t, F, {})
         /\ n = 1 /\ UNION Range(ptr[t]) \subseteq UNION Range(ptr'[t]) => LosesNone
<1>1. t \in Tid /\ live \subseteq Tid /\ table \in [Tid -> [Page -> Entry]]
  BY Holding DEF TypeOK
<1>2. has[t] = FramesIn(table[t]) \cup UNION Range(ptr[t])
  BY <1>1, HasIs
<1>3. /\ phys_mem_map' = phys_mem_map \cup F
      /\ table' \in [Tid -> [Page -> Entry]] /\ \A u \in Tid \ {t} : table'[u] = table[u]
      /\ halted' \in {"no", "noMemory"}
      /\ F \subseteq FramesIn(table'[t]) /\ FramesIn(table'[t]) \subseteq FramesIn(table[t]) \cup F
      /\ n = 1 => FramesIn(table[t]) \subseteq FramesIn(table'[t])
      /\ halted' = "no" => table'[t][p].isuser
      /\ halted' = "no" =>
           \A q \in Page : \/ table'[t][q] = table[t][q]
                           \/ q \in p .. p + n - 1 /\ table'[t][q].isuser
  <2>1. CASE halted' = "noMemory" /\ table' = table /\ F = {}
    BY <2>1 DEF Outcome
  <2>2. CASE halted' = "no"
    BY <2>2 DEF Outcome
  <2> QED  BY <2>1, <2>2 DEF Outcome
<1>4. Once(table'[t])
  BY <1>1, Holding DEF Outcome, MappedOnce
<1>5. /\ Moves(t, F, {}) /\ HeldApart' /\ MappedOnce'
      /\ has'[t] = FramesIn(table'[t]) \cup UNION Range(ptr'[t])
  <2>1. FramesIn(table'[t]) \subseteq has[t] \cup F /\ UNION Range(ptr'[t]) \subseteq has[t] \cup F
    <3>1. PICK A, B, C, D : /\ A = FramesIn(table'[t]) /\ B = UNION Range(ptr'[t])
                            /\ C = FramesIn(table[t]) /\ D = UNION Range(ptr[t])
      OBVIOUS
    <3>2. has[t] = C \cup D /\ A \subseteq C \cup F /\ B \subseteq D \cup A
      BY <1>2, <1>3, <3>1
    <3>3. A \subseteq has[t] \cup F /\ B \subseteq has[t] \cup F
      BY <3>2
    <3> QED  BY <3>1, <3>3
  <2> QED  BY <1>1, <1>3, <1>4, <2>1, TaskTakes
<1>6. ASSUME n = 1, UNION Range(ptr[t]) \subseteq UNION Range(ptr'[t]) PROVE LosesNone
  <2>1. has[t] \ {} \subseteq has'[t]
    BY <1>2, <1>3, <1>5, <1>6
  <2> QED  BY <1>1, <1>5, <2>1, HasIs, Holding DEF LosesNone
<1>7. TypeOK'
  <2>1. phys_mem_map' \subseteq Memory \cup Image
    BY <1>3, Holding, UnusedIsFinite
  <2>2. loading'.tid \in Tid \cup {None}
    BY DEF Loading
  <2> QED  BY <1>3, <2>1, <2>2, Holding DEF TypeOK
<1>8. Places'
  <2>1. ASSUME halted' = "no", NEW u \in live PROVE table'[u][stack[u]].isuser
    <3>1. u \in Tid /\ stack[u] \in Page /\ table[u][stack[u]].isuser
      BY Holding DEF TypeOK, Places
    <3>2. CASE u # t
      BY <1>3, <3>1, <3>2
    <3>3. CASE u = t
      BY <1>3, <2>1, <3>1, <3>3
    <3> QED  BY <3>2, <3>3
  <2> QED  BY <2>1, Holding DEF Places
<1>9. ImageIsEverywhere'
  <2> SUFFICES ASSUME halted' = "no", NEW q \in Image
               PROVE  kernel'[q] = q /\ \A u \in live' : table'[u][q] = [frame |-> q, isuser |-> FALSE]
    BY DEF ImageIsEverywhere
  <2>1. kernel[q] = q /\ q \in Page /\ \A u \in live : table[u][q] = [frame |-> q, isuser |-> FALSE]
    BY Constants DEF IInv, ImageIsEverywhere
  <2>2. table'[t][q] = table[t][q]
    BY <1>3, <2>1
  <2> QED  BY <1>1, <1>3, <2>1, <2>2
<1> QED  BY <1>5, <1>6, <1>7, <1>8, <1>9 DEF IInv

(* The array of a task gets another entry.                                 *)
LEMMA RangeAppend ==
  ASSUME NEW S, NEW s \in Seq(S), NEW e \in S
  PROVE  Range(Append(s, e)) = Range(s) \cup {e}
<1>1. /\ Append(s, e) \in Seq(S) /\ Len(Append(s, e)) = Len(s) + 1
      /\ \A i \in 1 .. Len(s) : Append(s, e)[i] = s[i] /\ Append(s, e)[Len(s) + 1] = e
      /\ Append(s, e)[Len(s) + 1] = e
  BY AppendProperties
<1>2. Len(s) \in Nat /\ DOMAIN s = 1 .. Len(s) /\ DOMAIN Append(s, e) = 1 .. Len(s) + 1
  BY <1>1, LenProperties
<1>3. ASSUME NEW i \in DOMAIN Append(s, e)
      PROVE  Append(s, e)[i] \in Range(s) \cup {e}
  <2>1. CASE i \in 1 .. Len(s)
    BY <1>1, <1>2, <2>1 DEF Range
  <2>2. CASE i = Len(s) + 1
    BY <1>1, <2>2
  <2> QED  BY <1>2, <2>1, <2>2
<1>4. ASSUME NEW i \in DOMAIN s
      PROVE  s[i] \in Range(Append(s, e))
  <2>1. i \in DOMAIN Append(s, e) /\ Append(s, e)[i] = s[i]
    BY <1>1, <1>2
  <2> HIDE <1>1
  <2> QED  BY <2>1 DEF Range
<1>5. e \in Range(Append(s, e))
  <2>1. Len(s) + 1 \in DOMAIN Append(s, e)
    BY <1>2
  <2> QED  BY <1>1, <2>1 DEF Range
<1>6. Range(Append(s, e)) \subseteq Range(s) \cup {e}
  BY <1>3 DEF Range
<1>7. Range(s) \subseteq Range(Append(s, e))
  BY <1>4 DEF Range
<1> QED  BY <1>5, <1>6, <1>7

LEMMA LoadKeeps ==
  ASSUME IInv, LoadHeader
  PROVE  IInv' /\ LosesNone
<1>1. PICK t, h : t = loading.tid /\ h = Head(loading.todo)
  OBVIOUS
<1>2. /\ halted = "no" /\ loading # Idle /\ loading.todo # <<>>
      /\ loading' = [loading EXCEPT !.todo = Tail(loading.todo)]
      /\ UNCHANGED <<kernel, majors, blocks, live, stack, leftover, tid_counter>>
  BY DEF LoadHeader
<1>3. /\ loading \in [tid : Tid \cup {None}, todo : Seq(Page \ Image)] /\ t \in live
      /\ loading.todo \in Seq(Page \cup {Other})
  BY <1>1, <1>2, Holding DEF Loading, TypeOK
<1>4. h \in Page \ Image /\ h # Other
  <2>1. h \in Page \ Image
    BY <1>1, <1>2, <1>3, HeadTailProperties
  <2> QED  BY <2>1, AddressSpacesAssumption
<1>5. /\ AllocUser(t, table[t], h, 1)
      /\ ptr' = IF halted' # "no" THEN ptr
                ELSE [ptr EXCEPT ![t] = Append(ptr[t], {table'[t][h].frame})]
  BY <1>1, <1>4 DEF LoadHeader
<1>6. h + 1 <= NPages /\ \A q \in Image : q \notin h .. h + 1 - 1
  <2>1. h \in Nat /\ h <= NPages - 1 /\ NPages \in Nat /\ Image \subseteq Nat
    BY <1>4, Constants, AddressSpacesAssumption DEF Page
  <2>2. h .. h + 1 - 1 = {h}
    BY <2>1
  <2> QED  BY <1>4, <2>1, <2>2
<1>7. PICK F \in SUBSET Unused : Outcome(t, table[t], h, 1, F)
  BY <1>2, <1>3, <1>4, <1>5, <1>6, LiveOutcome
<1>8. t \in Tid /\ ptr \in [Tid -> Seq(SUBSET Memory)] /\ ptr[t] \in Seq(SUBSET Memory)
  BY <1>3, Holding DEF TypeOK
<1>9. /\ ptr' \in [Tid -> Seq(SUBSET Memory)] /\ \A u \in Tid \ {t} : ptr'[u] = ptr[u]
      /\ UNION Range(ptr'[t]) \subseteq (UNION Range(ptr[t])) \cup FramesIn(table'[t])
      /\ UNION Range(ptr[t]) \subseteq UNION Range(ptr'[t])
  <2>1. CASE halted' # "no"
    BY <1>5, <1>8, <2>1
  <2>2. CASE halted' = "no"
    <3>1. table'[t][h].isuser /\ FramesIn(table'[t]) \subseteq FramesIn(table[t]) \cup F
      BY <1>7, <2>2 DEF Outcome
    <3>2. PICK f : f = table'[t][h].frame
      OBVIOUS
    <3>3. f \in FramesIn(table'[t])
      BY <1>4, <3>1, <3>2 DEF FramesIn
    <3>4. FramesIn(table[t]) \subseteq Memory /\ F \subseteq Memory
      BY <1>8, HasIs, Holding, UnusedIsFinite
    <3>5. {f} \in SUBSET Memory
      BY <3>1, <3>3, <3>4
    <3>6. /\ ptr'[t] = Append(ptr[t], {f})
          /\ \A u \in Tid \ {t} : ptr'[u] = ptr[u]
          /\ ptr' \in [Tid -> Seq(SUBSET Memory)]
      <4>1. Append(ptr[t], {f}) \in Seq(SUBSET Memory)
        BY <1>8, <3>5, AppendProperties
      <4> QED  BY <1>5, <1>8, <2>2, <3>2, <4>1
    <3>7. UNION Range(ptr'[t]) = (UNION Range(ptr[t])) \cup {f}
      <4>1. PICK S, s, e : S = SUBSET Memory /\ s = ptr[t] /\ e = {f}
        OBVIOUS
      <4>a. s \in Seq(S) /\ e \in S
        BY <1>8, <3>5, <4>1
      <4>2. Range(Append(s, e)) = Range(s) \cup {e}
        BY <4>a, RangeAppend
      <4>3. PICK R, N : R = Range(ptr[t]) /\ N = Range(ptr'[t])
        OBVIOUS
      <4>4. N = R \cup {e}
        BY <3>6, <4>1, <4>2, <4>3
      <4>5. UNION N = (UNION R) \cup e
        BY <4>4
      <4> QED  BY <4>1, <4>3, <4>5
    <3>8. PICK X, Y, Z : X = UNION Range(ptr'[t]) /\ Y = UNION Range(ptr[t]) /\ Z = FramesIn(table'[t])
      OBVIOUS
    <3>9. X \subseteq Y \cup Z /\ Y \subseteq X
      BY <3>3, <3>7, <3>8
    <3>10. UNION Range(ptr'[t]) \subseteq (UNION Range(ptr[t])) \cup FramesIn(table'[t])
      BY <3>8, <3>9
    <3>11. UNION Range(ptr[t]) \subseteq UNION Range(ptr'[t])
      BY <3>8, <3>9
    <3> QED  BY <3>6, <3>10, <3>11, Zenon
  <2> QED  BY <2>1, <2>2
<1>10. Loading' /\ loading'.todo \in Seq(Page \cup {Other})
  <2>1. /\ Tail(loading.todo) \in Seq(Page \ Image)
        /\ Tail(loading.todo) \in Seq(Page \cup {Other})
    BY <1>2, <1>3, HeadTailProperties
  <2>2. /\ loading' \in [tid : Tid \cup {None}, todo : Seq(Page \ Image)]
        /\ loading'.tid = t /\ loading'.todo = Tail(loading.todo)
    BY <1>1, <1>2, <1>3, <2>1
  <2> QED  BY <1>2, <1>3, <2>1, <2>2 DEF Loading
<1>11. 1 \in Nat \ {0} /\ h \in Page /\ t \in live
  BY <1>3, <1>4
<1>12. /\ IInv' /\ Moves(t, F, {})
       /\ 1 = 1 /\ UNION Range(ptr[t]) \subseteq UNION Range(ptr'[t]) => LosesNone
  BY <1>2, <1>6, <1>7, <1>9, <1>10, <1>11, LiveTakes
<1> QED  BY <1>9, <1>12

LEMMA LoadedKeeps ==
  ASSUME IInv, Loaded
  PROVE  IInv' /\ LosesNone
<1>1. /\ loading' = Idle
      /\ UNCHANGED <<phys_mem_map, kernel, majors, blocks, table, live, stack, ptr,
                     leftover, tid_counter, halted>>
  BY DEF Loaded
<1>2. LosesNone /\ HeldApart'
  BY <1>1, NoMove
<1>3. TypeOK' /\ Loading'
  <2>1. Idle \in [tid : Tid \cup {None}, todo : Seq(Page \ Image)]
        /\ Idle.tid \in Tid \cup {None} /\ Idle.todo \in Seq(Page \cup {Other})
    BY DEF Idle
  <2> QED  BY <1>1, <2>1, Holding DEF TypeOK, Loading
<1>4. MappedOnce' /\ Places' /\ ImageIsEverywhere'
  BY <1>1 DEF IInv, MappedOnce, Places, ImageIsEverywhere
<1> QED  BY <1>2, <1>3, <1>4 DEF IInv

LEMMA MmapKeeps ==
  ASSUME IInv, syscall_mmap
  PROVE  IInv' /\ \E o \in Holder : \E F, G \in SUBSET Frame : Moves(o, F, G)
<1>1. /\ halted = "no" /\ loading = Idle
      /\ UNCHANGED <<kernel, majors, blocks, live, stack, ptr, leftover, loading, tid_counter>>
  BY DEF syscall_mmap
<1>2. Loading' /\ loading'.todo \in Seq(Page \cup {Other}) /\ ptr \in [Tid -> Seq(SUBSET Memory)]
  BY <1>1, Holding DEF Loading, TypeOK
<1>3. PICK t \in live, n \in MmapLen :
        \/ n = 0 /\ halted' = "overwritten" /\ UNCHANGED <<phys_mem_map, table>>
        \/ /\ n > 0 /\ Holes(table[t], n) # {}
           /\ AllocUser(t, table[t], Min(Holes(table[t], n)), n)
        \/ /\ n > 0
           /\ \E p \in Page :
                /\ p + n <= NPages
                /\ \A q \in p .. p + n - 1 : table[t][q].isuser \/ table[t][q] = Absent
                /\ AllocUser(t, table[t], p, n)
  BY DEF syscall_mmap
<1>4. n \in Nat /\ t \in Tid
  BY Holding, AddressSpacesAssumption DEF TypeOK
<1>5. CASE n = 0 /\ halted' = "overwritten" /\ UNCHANGED <<phys_mem_map, table>>
  <2>1. LosesNone /\ HeldApart'
    BY <1>1, <1>5, NoMove
  <2>2. TypeOK' /\ MappedOnce' /\ Places' /\ ImageIsEverywhere'
    BY <1>1, <1>5, Holding DEF TypeOK, MappedOnce, Places, ImageIsEverywhere
  <2> QED  BY <1>2, <2>1, <2>2 DEF IInv, LosesNone
<1>6. ASSUME NEW p \in Page, n > 0, p + n <= NPages, AllocUser(t, table[t], p, n),
             \A q \in Image : q \notin p .. p + n - 1
      PROVE  IInv' /\ \E o \in Holder : \E F, G \in SUBSET Frame : Moves(o, F, G)
  <2>1. n \in Nat \ {0}
    BY <1>4, <1>6
  <2>2. PICK F \in SUBSET Unused : Outcome(t, table[t], p, n, F)
    BY <1>1, <1>6, <2>1, LiveOutcome
  <2>3. /\ ptr' \in [Tid -> Seq(SUBSET Memory)] /\ \A u \in Tid \ {t} : ptr'[u] = ptr[u]
        /\ UNION Range(ptr'[t]) \subseteq (UNION Range(ptr[t])) \cup FramesIn(table'[t])
    BY <1>1, <1>2
  <2>4. IInv' /\ Moves(t, F, {})
    BY <1>1, <1>2, <1>6, <2>1, <2>2, <2>3, LiveTakes
  <2> QED  BY <1>4, <2>4, HasIs, Holding
<1>7. \A q \in Image : q \in Page /\ q # NoFrame /\ table[t][q] = [frame |-> q, isuser |-> FALSE]
  BY <1>1, Constants DEF IInv, ImageIsEverywhere
<1>8. CASE /\ n > 0 /\ Holes(table[t], n) # {}
           /\ AllocUser(t, table[t], Min(Holes(table[t], n)), n)
  <2>1. PICK p : p = Min(Holes(table[t], n))
    OBVIOUS
  <2>2. n \in Nat \ {0}
    BY <1>4, <1>8
  <2>3. /\ p \in Page /\ p + n <= NPages
        /\ \A q \in p .. p + n - 1 : q \in Page /\ table[t][q].frame = NoFrame
    BY <1>8, <2>1, <2>2, MinHole
  <2>4. ASSUME NEW q \in Image PROVE q \notin p .. p + n - 1
    <3>1. PICK e : e = table[t][q]
      OBVIOUS
    <3>2. e = [frame |-> q, isuser |-> FALSE] /\ q # NoFrame
      BY <1>7, <3>1
    <3>3. table[t][q].frame = q
      BY <3>1, <3>2
    <3> QED  BY <2>3, <3>2, <3>3
  <2> QED  BY <1>6, <1>8, <2>1, <2>3, <2>4
<1>9. CASE /\ n > 0
           /\ \E p \in Page :
                /\ p + n <= NPages
                /\ \A q \in p .. p + n - 1 : table[t][q].isuser \/ table[t][q] = Absent
                /\ AllocUser(t, table[t], p, n)
  <2>1. PICK p \in Page :
          /\ p + n <= NPages
          /\ \A q \in p .. p + n - 1 : table[t][q].isuser \/ table[t][q] = Absent
          /\ AllocUser(t, table[t], p, n)
    BY <1>9
  <2>2. ASSUME NEW q \in Image PROVE ~table[t][q].isuser /\ table[t][q] # Absent
    <3>1. PICK e : e = table[t][q]
      OBVIOUS
    <3>2. e = [frame |-> q, isuser |-> FALSE] /\ q # NoFrame
      BY <1>7, <3>1
    <3>3. e.frame = q /\ Absent.frame = NoFrame
      BY <3>2 DEF Absent
    <3>4. ~e.isuser
      BY <3>2
    <3> QED  BY <3>1, <3>2, <3>3, <3>4
  <2>3. \A q \in Image : q \notin p .. p + n - 1
    BY <2>1, <2>2
  <2> QED  BY <1>6, <1>9, <2>1, <2>3
<1> QED  BY <1>3, <1>5, <1>8, <1>9

LEMMA CleanupKeeps ==
  ASSUME IInv, task_cleanup_zombie
  PROVE  IInv' /\ \E t \in live : /\ t \in Tid /\ Returned(t) \in SUBSET Frame
                                  /\ Moves(t, {}, Returned(t))
<1>1. /\ halted = "no" /\ loading = Idle
      /\ UNCHANGED <<kernel, majors, blocks, loading, tid_counter, halted>>
  BY DEF task_cleanup_zombie
<1>2. PICK t \in live :
       /\ phys_mem_map' = phys_mem_map \ Returned(t)
       /\ table' = [table EXCEPT ![t] = [p \in Page |-> Absent]]
       /\ live' = live \ {t}
       /\ stack' = [stack EXCEPT ![t] = 0]
       /\ leftover' = leftover \cup UNION Range(ptr[t])
       /\ ptr' = [ptr EXCEPT ![t] = <<>>]
  BY DEF task_cleanup_zombie
<1>3. /\ t \in Tid /\ live \subseteq Tid /\ table \in [Tid -> [Page -> Entry]]
      /\ ptr \in [Tid -> Seq(SUBSET Memory)] /\ stack \in [Tid -> Page]
  BY Holding DEF TypeOK
<1>4. has[t] = FramesIn(table[t]) \cup UNION Range(ptr[t])
  BY <1>3, HasIs
<1>5. Returned(t) \subseteq has[t]
  <2>1. table[t][stack[t]].isuser /\ stack[t] \in Page
    BY <1>1, <1>3, Holding DEF Places
  <2>2. table[t][stack[t]].frame \in FramesIn(table[t])
    BY <2>1 DEF FramesIn
  <2> QED  BY <1>4, <2>2 DEF Returned
<1>6. /\ table' \in [Tid -> [Page -> Entry]] /\ FramesIn(table'[t]) = {} /\ Once(table'[t])
      /\ \A u \in Tid \ {t} : table'[u] = table[u]
  <2>1. [p \in Page |-> Absent] \in [Page -> Entry]
    BY DEF Absent, Entry
  <2>2. \A p \in Page : ~table'[t][p].isuser
    BY <1>2, <1>3 DEF Absent
  <2> QED  BY <1>2, <1>3, <2>1, <2>2 DEF FramesIn, Once
<1>7. /\ ptr' \in [Tid -> Seq(SUBSET Memory)] /\ UNION Range(ptr'[t]) = {}
      /\ \A u \in Tid \ {t} : ptr'[u] = ptr[u]
  <2>1. ptr'[t] = <<>> /\ <<>> \in Seq(SUBSET Memory)
    BY <1>2, <1>3
  <2>2. Range(ptr'[t]) = {}
    BY <2>1 DEF Range
  <2> QED  BY <1>2, <1>3, <2>1, <2>2
<1>8. has'[t] = {} /\ (\A u \in Tid \ {t} : has'[u] = has[u]) /\ has'[None] = has[None]
  <2>1. has'[None] = has[None]
    BY <1>1, HasIs, HasIsNext DEF KernelFrames
  <2> QED  BY <1>3, <1>6, <1>7, <2>1, HasIs, HasIsNext
<1>9. Moves(t, {}, Returned(t))
  BY <1>2, <1>3, <1>5, <1>8, Constants DEF Moves, Holder
<1>10. HeldApart'
  <2>1. \A u \in Tid \ live' : has'[u] = {}
    BY <1>2, <1>8, Holding DEF HeldApart
  <2> QED  BY <1>3, <1>9, <2>1, HasIs, Holding, MovesKeep
<1>11. MappedOnce'
  <2>1. \A u \in Tid : Once(table'[u])
    BY <1>6, Holding DEF MappedOnce
  <2> QED  BY <1>1, <2>1, Holding DEF MappedOnce
<1>12. TypeOK'
  <2>1. 0 \in Page
    BY AddressSpacesAssumption DEF Page
  <2>2. stack' \in [Tid -> Page]
    BY <1>2, <1>3, <2>1
  <2>3. UNION Range(ptr[t]) \subseteq Memory
    BY <1>3, <1>4, Holding
  <2>4. leftover' \subseteq Memory /\ phys_mem_map' \subseteq Memory \cup Image /\ live' \subseteq Tid
    BY <1>2, <1>3, <2>3, Holding DEF TypeOK
  <2> QED  BY <1>1, <1>6, <1>7, <2>2, <2>4, Holding DEF TypeOK
<1>13. Loading'
  BY <1>1, Holding DEF Loading
<1>14. Places' /\ ImageIsEverywhere'
  <2>1. \A u \in live' : u \in live /\ u \in Tid /\ u # t /\ table'[u] = table[u] /\ stack'[u] = stack[u]
    BY <1>2, <1>3, <1>6
  <2>2. Places'
    BY <1>1, <2>1, Holding DEF Places
  <2>3. ImageIsEverywhere'
    BY <1>1, <2>1 DEF IInv, ImageIsEverywhere
  <2> QED  BY <2>2, <2>3
<1>15. Returned(t) \in SUBSET Frame
  BY <1>3, <1>5, Holding
<1> QED  BY <1>3, <1>9, <1>10, <1>11, <1>12, <1>13, <1>14, <1>15 DEF IInv
-----------------------------------------------------------------------------
(***************************************************************************)
(* The theorems.                                                           *)
(***************************************************************************)

(* What a step does with the frames.                                       *)
FrameStep ==
  \/ UNCHANGED vars
  \/ LosesNone
  \/ syscall_mmap /\ \E o \in Holder : \E F, G \in SUBSET Frame : Moves(o, F, G)
  \/ task_cleanup_zombie /\ \E t \in live :
       t \in Tid /\ Returned(t) \in SUBSET Frame /\ Moves(t, {}, Returned(t))

LEMMA StutterKeeps ==
  ASSUME IInv, UNCHANGED vars
  PROVE  IInv'
<1>1. UNCHANGED <<phys_mem_map, kernel, majors, blocks, table, live, stack, ptr,
                  leftover, loading, tid_counter, halted>>
  BY DEF vars
<1>2. HeldApart'
  BY <1>1, NoMove
<1>3. TypeOK' /\ Loading' /\ MappedOnce' /\ Places' /\ ImageIsEverywhere'
  BY <1>1, Holding DEF IInv, TypeOK, Loading, MappedOnce, Places, ImageIsEverywhere
<1> QED  BY <1>2, <1>3 DEF IInv

LEMMA NextIInv ==
  ASSUME ProgramsFit, IInv, [Next]_vars
  PROVE  IInv' /\ FrameStep
<1>1. CASE UNCHANGED vars
  BY <1>1, StutterKeeps DEF FrameStep
<1>2. CASE liballoc_alloc \/ ExtendPageHeap
  BY <1>2, AllocKeeps DEF FrameStep
<1>3. CASE liballoc_free
  BY <1>3, FreeKeeps DEF FrameStep
<1>4. CASE MapDevice
  BY <1>4, DeviceKeeps DEF FrameStep
<1>5. CASE task_start_func
  BY <1>5, StartKeeps DEF FrameStep
<1>6. CASE LoadHeader
  BY <1>6, LoadKeeps DEF FrameStep
<1>7. CASE Loaded
  BY <1>7, LoadedKeeps DEF FrameStep
<1>8. CASE syscall_mmap
  BY <1>8, MmapKeeps DEF FrameStep
<1>9. CASE task_cleanup_zombie
  BY <1>9, CleanupKeeps DEF FrameStep
<1> QED
  BY <1>1, <1>2, <1>3, <1>4, <1>5, <1>6, <1>7, <1>8, <1>9 DEF Next

(* Frames are held by one task or by the kernel and are marked meanwhile,  *)
(* through allocation, loading, mapping, cleanup and what liballoc gives   *)
(* back.                                                                   *)
THEOREM Invariant == ASSUME ProgramsFit PROVE Spec => []IInv
<1>1. IInv /\ [Next]_vars => IInv'
  BY NextIInv
<1> QED  BY <1>1, InitIInv, PTL DEF Spec

LEMMA FramesFollow == IInv => FramesAreSound
<1> SUFFICES ASSUME IInv PROVE FramesAreSound
  OBVIOUS
<1>1. live \subseteq Tid /\ \A t \in Tid : UserFrames(t) = FramesIn(table[t])
  BY Holding DEF TypeOK, UserFrames, FramesIn
<1>2. /\ \A t \in Tid : UserFrames(t) \subseteq has[t]
      /\ has[None] = KernelFrames /\ None \notin Tid /\ None \in Holder /\ Tid \subseteq Holder
  BY <1>1, HasIs, Constants
<1>3. ASSUME NEW t \in live, NEW u \in live, NEW p \in Page, NEW q \in Page,
             table[t][p].isuser, table[u][q].isuser, table[t][p].frame = table[u][q].frame
      PROVE  t = u /\ p = q
  <2>1. table[t][p].frame \in UserFrames(t) /\ table[u][q].frame \in UserFrames(u)
    BY <1>3 DEF UserFrames
  <2>2. t \in Tid /\ u \in Tid /\ table[t][p].frame \in has[t] \cap has[u]
    BY <1>1, <1>2, <1>3, <2>1
  <2>3. t = u
    BY <1>2, <2>2, Holding DEF HeldApart
  <2> QED  BY <1>3, <2>2, <2>3, Holding DEF MappedOnce, Once
<1>4. ASSUME NEW t \in live
      PROVE  UserFrames(t) \cap KernelFrames = {} /\ UserFrames(t) \subseteq phys_mem_map
  <2>1. has[t] \cap has[None] = {} /\ has[t] \subseteq phys_mem_map
    BY <1>1, <1>2, Holding DEF HeldApart
  <2> QED  BY <1>1, <1>2, <2>1
<1>5. FramesHaveOneUser
  BY <1>3, <1>4, Holding DEF FramesHaveOneUser, MappedOnce
<1>6. MappedFramesAreMarked
  BY <1>2, <1>4, Holding DEF MappedFramesAreMarked, HeldApart
<1> QED  BY <1>5, <1>6 DEF IInv, FramesAreSound

(* A frame is mapped once, for one task or for the kernel, and is marked   *)
(* as long as it is mapped; the kernel's image is at its place in every    *)
(* table.  For any memory, and any tasks, allocations and exits.           *)
THEOREM FramesCorrect == ASSUME ProgramsFit PROVE Spec => []FramesAreSound
<1> QED  BY Invariant, FramesFollow, PTL
-----------------------------------------------------------------------------
LEMMA OwnersAreKnownNext == IInv' => OwnersKnown'
<1>1. IInv => OwnersKnown
  BY OwnersAreKnown DEF IInv
<1> QED  BY <1>1, PTL

(* In every step at most one holder changes, and only with free frames.    *)
LEMMA OneChanges ==
  ASSUME IInv, IInv', FrameStep
  PROVE  \/ own' = own
         \/ \E o \in Holder : \E F, G \in SUBSET Frame :
              /\ Moves(o, F, G)
              /\ \/ has[o] \ G \subseteq has'[o] \/ syscall_mmap
                 \/ task_cleanup_zombie /\ o \in live /\ G = Returned(o)
<1>1. CASE UNCHANGED vars
  <2>1. UNCHANGED <<phys_mem_map, kernel, live, table, ptr>>
    BY <1>1 DEF vars
  <2> QED  BY <2>1 DEF own, OwnerOf, KernelFrames, UserFrames
<1>2. CASE LosesNone
  BY <1>2 DEF LosesNone
<1>3. CASE syscall_mmap /\ \E o \in Holder : \E F, G \in SUBSET Frame : Moves(o, F, G)
  BY <1>3
<1>4. CASE task_cleanup_zombie /\ \E t \in live :
             t \in Tid /\ Returned(t) \in SUBSET Frame /\ Moves(t, {}, Returned(t))
  <2>1. {} \in SUBSET Frame
    OBVIOUS
  <2> QED  BY <1>4, <2>1, HasIs
<1> QED  BY <1>1, <1>2, <1>3, <1>4 DEF FrameStep

LEMMA OwnersInit == Init => own \in [Memory -> Tid \cup {None} \cup {FreeFrame}]
<1> SUFFICES ASSUME Init, NEW f \in Memory PROVE own[f] \in Tid \cup {None} \cup {FreeFrame}
  BY DEF own
<1>1. IInv /\ OwnersKnown
  BY InitIInv, OwnersAreKnown DEF IInv
<1>2. CASE f \notin phys_mem_map
  BY <1>1, <1>2 DEF OwnersKnown
<1>3. CASE f \in phys_mem_map
  <2>1. f \in Image /\ f \in Page /\ kernel[f] = f /\ f # NoFrame
    BY <1>3, Constants DEF Init
  <2>2. f \in KernelFrames
    BY <2>1 DEF KernelFrames, Range, Init
  <2> QED  BY <1>1, <2>2, HasIs DEF OwnersKnown
<1> QED  BY <1>2, <1>3

LEMMA OwnersStep ==
  ASSUME IInv, IInv', FrameStep
  PROVE  [Owners!Next]_[f \in Memory |-> OwnerOf(f)]
<1>1. OwnersKnown /\ OwnersKnown' /\ HeldApart
  BY OwnersAreKnown, OwnersAreKnownNext DEF IInv
<1>2. CASE own' = own
  BY <1>2 DEF own
<1>3. ASSUME NEW o \in Holder, NEW F \in SUBSET Frame, NEW G \in SUBSET Frame, Moves(o, F, G)
      PROVE  Owners!Change(o)
  <2>1. \A f \in Memory :
          /\ own'[f] \in Holder \cup {FreeFrame, LostFrame}
          /\ \/ own'[f] = own[f]
             \/ own[f] = FreeFrame /\ own'[f] = o
             \/ own[f] = o /\ own'[f] \in {FreeFrame, LostFrame}
    BY <1>1, <1>3, OwnersChange
  <2>2. own' \in [Memory -> Holder \cup {FreeFrame, LostFrame}]
    BY <2>1 DEF own
  <2> QED  BY <2>1, <2>2 DEF Owners!Change, own, Holder
<1> QED  BY <1>2, <1>3, OneChanges DEF Owners!Next, own, Holder

(* Frames pass from one owner to another only through the free ones: the   *)
(* page allocator and its callers implement FrameOwners.                   *)
THEOREM AllocatorImplementsOwners == ASSUME ProgramsFit PROVE Spec => ImplementsFrameOwners
<1>1. Init => Owners!Init
  BY OwnersInit DEF Owners!Init, own
<1>2. IInv /\ IInv' /\ [Next]_vars => [Owners!Next]_[f \in Memory |-> OwnerOf(f)]
  BY NextIInv, OwnersStep
<1> QED  BY <1>1, <1>2, Invariant, PTL DEF Spec, ImplementsFrameOwners, Owners!Spec

LEMMA LossStep ==
  ASSUME IInv, IInv', FrameStep, NEW f \in Memory, OwnerOf(f)' = LostFrame
  PROVE  \/ OwnerOf(f) = LostFrame \/ syscall_mmap
         \/ /\ f \notin KernelFrames
            /\ \A t \in live :
                 f # table[t][stack[t]].frame /\ f \notin UNION Range(ptr[t])
<1>1. OwnersKnown /\ OwnersKnown' /\ HeldApart
  BY OwnersAreKnown, OwnersAreKnownNext DEF IInv
<1>2. own[f] = OwnerOf(f) /\ own'[f] = LostFrame
  BY DEF own
<1>3. CASE own' = own
  BY <1>2, <1>3
<1>4. ASSUME NEW o \in Holder, NEW F \in SUBSET Frame, NEW G \in SUBSET Frame, Moves(o, F, G),
             OwnerOf(f) # LostFrame, ~syscall_mmap,
             \/ has[o] \ G \subseteq has'[o] \/ syscall_mmap
             \/ task_cleanup_zombie /\ o \in live /\ G = Returned(o)
      PROVE  /\ f \notin KernelFrames
             /\ \A t \in live :
                  f # table[t][stack[t]].frame /\ f \notin UNION Range(ptr[t])
  <2>1. f \in has[o] \ G
    BY <1>1, <1>2, <1>4, OwnersChange
  <2>2. f \notin has'[o]
    <3>1. o # LostFrame
      BY Constants DEF Holder
    <3> QED  BY <1>1, <1>2, <3>1 DEF OwnersKnown
  <2>3. task_cleanup_zombie /\ o \in live /\ G = Returned(o) /\ o \in Tid
    BY <1>4, <2>1, <2>2, Holding DEF TypeOK
  <2>4. \A u \in Holder \ {o} : f \notin has[u]
    BY <1>1, <2>1 DEF HeldApart
  <2>5. f \notin KernelFrames
    BY <2>3, <2>4, HasIs, Constants
  <2>6. ASSUME NEW t \in live
        PROVE  f # table[t][stack[t]].frame /\ f \notin UNION Range(ptr[t])
    <3>1. CASE t = o
      BY <2>1, <2>3, <3>1 DEF Returned
    <3>2. CASE t # o
      <4>1. t \in Tid /\ f \notin has[t] /\ stack[t] \in Page /\ table[t][stack[t]].isuser
        <5>1. halted = "no"
          BY <2>3 DEF task_cleanup_zombie
        <5> QED  BY <2>4, <3>2, <5>1, HasIs, Holding DEF TypeOK, Places
      <4>2. table[t][stack[t]].frame \in FramesIn(table[t])
        BY <4>1 DEF FramesIn
      <4>3. has[t] = FramesIn(table[t]) \cup UNION Range(ptr[t])
        BY <4>1, HasIs
      <4> QED  BY <4>1, <4>2, <4>3
    <3> QED  BY <3>1, <3>2
  <2> QED  BY <2>5, <2>6
<1> QED  BY <1>3, <1>2, <1>4, OneChanges

LEMMA LossSteps ==
  ASSUME IInv, IInv', FrameStep
  PROVE  \A f \in Memory :
           OwnerOf(f)' = LostFrame =>
             \/ OwnerOf(f) = LostFrame \/ syscall_mmap
             \/ /\ f \notin KernelFrames
                /\ \A t \in live :
                     f # table[t][stack[t]].frame /\ f \notin UNION Range(ptr[t])
BY LossStep

(* Only syscall_mmap, which maps over the pages of a program, loses frames *)
(* that the kernel holds or that a task was started and loaded with: no    *)
(* cleanup, load or allocation does.                                       *)
THEOREM LossesAreMmaps == ASSUME ProgramsFit PROVE Spec => OnlyMmapLosesFrames
<1>1. IInv /\ IInv' /\ [Next]_vars =>
        [\A f \in Memory :
           OwnerOf(f)' = LostFrame =>
             \/ OwnerOf(f) = LostFrame \/ syscall_mmap
             \/ /\ f \notin KernelFrames
                /\ \A t \in live :
                     f # table[t][stack[t]].frame /\ f \notin UNION Range(ptr[t])]_vars
  BY NextIInv, LossSteps
<1> QED  BY <1>1, Invariant, PTL DEF Spec, OnlyMmapLosesFrames
=============================================================================
