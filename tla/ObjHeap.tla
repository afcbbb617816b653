------------------------------ MODULE ObjHeap ------------------------------
(***************************************************************************)
(* The kernel's object heap, src/src/obj_heap.c (liballoc).  Memory comes  *)
(* from the page allocator in majors; the objects of a major, its minors,  *)
(* form a list.  Every call runs with interrupts off, so it is one step;   *)
(* only k_obj_realloc takes two when it has to move the object.            *)
(*                                                                         *)
(* A pointer is the number of a major and an offset in it.  Majors start   *)
(* at a page boundary, which is aligned.                                   *)
(***************************************************************************)
EXTENDS Naturals, SequencesExt

CONSTANTS
  PageSize,    \* l_pageSize (2097152)
  Major,       \* sizeof(struct liballoc_major) (36)
  Minor,       \* sizeof(struct liballoc_minor) (36)
  Alignment,   \* ALIGNMENT (128)
  AlignInfo,   \* ALIGN_INFO (16)
  Request,     \* the sizes the kernel asks for
  MaxMajors    \* bound: majors for which there is memory

ASSUME ObjHeapAssumption ==
  /\ Alignment \in Nat \ {0} /\ AlignInfo \in Nat \ {0}
  /\ PageSize \in Nat \ {0} /\ PageSize % Alignment = 0
  /\ Major \in Nat \ {0} /\ Minor \in Nat \ {0}
  /\ Request \subseteq Nat
  /\ MaxMajors \in Nat

MajorId == 1 .. MaxMajors
None    == 0                  \* no major
NoPtr   == [maj |-> None, at |-> 0]

VARIABLES
  list,        \* the majors, from l_memRoot on
  size, usage, minors,   \* of each major: .size, .usage, the list at .first
  l_bestBet, l_inuse, l_allocated,
  moved,       \* the pointer that k_obj_realloc still has to free
  full         \* the page allocator found no memory and loops

vars == <<list, size, usage, minors, l_bestBet, l_inuse, l_allocated,
          moved, full>>

Init ==
  /\ list = <<>>
  /\ size = [m \in MajorId |-> 0]
  /\ usage = [m \in MajorId |-> 0]
  /\ minors = [m \in MajorId |-> <<>>]
  /\ l_bestBet = None
  /\ l_inuse = 0 /\ l_allocated = 0
  /\ moved = NoPtr
  /\ full = FALSE
-----------------------------------------------------------------------------
(* The size of a minor: what is asked for, and room to align it. *)
Padded(req) == req + Alignment + AlignInfo

(* What an allocation takes from a major. *)
Need(req) == Padded(req) + Minor

(* ALIGN: the pointer returned for a minor at offset at.  The distance is  *)
(* kept AlignInfo bytes in front of it, where UNALIGN finds it again.      *)
Data(at) ==
  ((at + Minor + AlignInfo + Alignment - 1) \div Alignment) * Alignment

(* allocate_new_page: the bytes of the pages that hold such an allocation. *)
NewSize(req) == ((Need(req) + Major + PageSize - 1) \div PageSize) * PageSize

(* l_allocated with such a major. *)
Grown(req) == l_allocated + NewSize(req)

Room == [m \in MajorId |-> size[m] - usage[m]]

(* Not counting the header of the object itself (fault injection). *)
EndNoHeader(b) == b.at + b.size

(* The first byte behind minor b. *)
End(b) == b.at + Minor + b.size

(* The hole behind the first k minors of m, where CASE 3 (k = 0), 4.1 (the *)
(* last) and 4.2 look for space.                                           *)
HoleStart(m, k) == IF k = 0 THEN Major ELSE End(minors[m][k])

(* Taking everything behind a minor for free (fault injection). *)
HoleEndLast(m, k) == size[m]

HoleEnd(m, k) ==
  IF k = Len(minors[m]) THEN size[m] ELSE minors[m][k + 1].at

Holes(m, need) ==
  {k \in 0 .. Len(minors[m]) : HoleEnd(m, k) - HoleStart(m, k) >= need}

(* CASE 1 and CASE 5: m has the space, and has it in one piece. *)
Holds(m, need) == Room[m] >= need /\ Holes(m, need) # {}

(* Where major m stands in the list. *)
Pos(m) == CHOOSE j \in DOMAIN list : list[j] = m

(* The majors in the order in which k_obj_alloc_2 looks at them: from the  *)
(* best bet on, then, if that was not the start, all over again.           *)
Route(need) ==
  IF l_bestBet # None /\ Room[l_bestBet] > need
  THEN SubSeq(list, Pos(l_bestBet), Len(list)) \o list
  ELSE list

(* l_bestBet after the majors in seen were looked at. *)
BetAfter(seen, room) ==
  LET start == IF l_bestBet = None THEN 0 ELSE room[l_bestBet]
      best  == {i \in DOMAIN seen :
                  /\ room[seen[i]] > start
                  /\ \A j \in DOMAIN seen : room[seen[j]] <= room[seen[i]]}
  IN  IF best = {} THEN l_bestBet ELSE seen[Min(best)]

(* Writing the header of a minor behind the first k minors of m. *)
PutMinor(m, k, at, req) ==
  /\ minors' = [minors EXCEPT
       ![m] = InsertAt(@, k + 1, [at |-> at, size |-> Padded(req), req |-> req])]
  /\ l_inuse' = l_inuse + Padded(req)
-----------------------------------------------------------------------------
(* An allocation from the first major on the route that holds it. *)
AllocOld(req) ==
  LET need  == Need(req)
      route == Route(need)
      hits  == {j \in DOMAIN route : Holds(route[j], need)}
      m     == route[Min(hits)]
      k     == Min(Holes(m, need))
  IN  /\ hits # {}
      /\ PutMinor(m, k, HoleStart(m, k), req)
      /\ usage' = [usage EXCEPT ![m] = @ + need]
      /\ l_bestBet' = BetAfter(SubSeq(route, 1, Min(hits)), Room)
      /\ UNCHANGED <<list, size, l_allocated, full>>

(* An allocation that gets a new major, at the end of the list.  CASE 1    *)
(* goes on with the new major at once; CASE 5, and an empty heap, look at  *)
(* it as at any other, so it can become the best bet.                      *)
AllocNew(req) ==
  LET need  == Need(req)
      route == Route(need)
      new   == MajorId \ ToSet(list)
      m     == Min(new)
      room  == [Room EXCEPT ![m] = NewSize(req) - Major]
      again == list = <<>> \/ Room[Last(list)] >= need
  IN  /\ \A j \in DOMAIN route : ~Holds(route[j], need)
      /\ IF new = {}
         THEN full' = TRUE /\ UNCHANGED <<list, size, usage, minors,
                                l_bestBet, l_inuse, l_allocated>>
         ELSE /\ list' = Append(list, m)
              /\ size' = [size EXCEPT ![m] = NewSize(req)]
              /\ usage' = [usage EXCEPT ![m] = Major + need]
              /\ l_allocated' = Grown(req)
              /\ PutMinor(m, 0, Major, req)
              /\ l_bestBet' =
                   BetAfter(IF again THEN Append(route, m) ELSE route, room)
              /\ full' = FALSE

k_obj_alloc ==
  /\ ~full /\ moved = NoPtr
  /\ \E req \in Request : AllocOld(req) \/ AllocNew(req)
  /\ UNCHANGED moved
-----------------------------------------------------------------------------
(* The best bet stays when its memory goes (fault injection). *)
BetWithoutKept(m) == l_bestBet

(* l_bestBet when major m is given back to the page allocator. *)
BetWithout(m) == IF l_bestBet = m THEN None ELSE l_bestBet

(* Not counting the header, or counting it twice (fault injection). *)
ReleasedNoHeader(b) == b.size
ReleasedTwice(b)    == b.size + 2 * Minor

(* What freeing minor b gives back to its major. *)
Released(b) == b.size + Minor

(* k_obj_free of the i-th object of m. *)
FreeMinor(m, i) ==
  LET b     == minors[m][i]
      rest  == RemoveAt(minors[m], i)
      use   == usage[m] - Released(b)
      room  == [Room EXCEPT ![m] = size[m] - use]
  IN  /\ minors' = [minors EXCEPT ![m] = rest]
      /\ l_inuse' = l_inuse - b.size
      /\ IF rest = <<>>
         THEN /\ list' = RemoveAt(list, Pos(m))
              /\ size' = [size EXCEPT ![m] = 0]
              /\ usage' = [usage EXCEPT ![m] = 0]
              /\ l_allocated' = l_allocated - size[m]
              /\ l_bestBet' = BetWithout(m)
         ELSE /\ usage' = [usage EXCEPT ![m] = use]
              /\ l_bestBet' =
                   IF l_bestBet # None /\ room[m] > room[l_bestBet]
                   THEN m ELSE l_bestBet
              /\ UNCHANGED <<list, size, l_allocated>>

(* The kernel frees what it was given, once. *)
k_obj_free ==
  /\ ~full /\ moved = NoPtr
  /\ \E m \in MajorId : \E i \in DOMAIN minors[m] : FreeMinor(m, i)
  /\ UNCHANGED <<moved, full>>

(* k_obj_realloc: a smaller size is only noted; for a larger one a new     *)
(* object is allocated, the old bytes are copied, ...                      *)
k_obj_realloc ==
  /\ ~full /\ moved = NoPtr
  /\ \E m \in MajorId : \E i \in DOMAIN minors[m] : \E req \in Request \ {0} :
       IF minors[m][i].req >= req
       THEN /\ minors' = [minors EXCEPT ![m][i].req = req]
            /\ UNCHANGED <<list, size, usage, l_bestBet, l_inuse, l_allocated,
                           moved, full>>
       ELSE /\ AllocOld(req) \/ AllocNew(req)
            /\ moved' = IF full' THEN NoPtr
                        ELSE [maj |-> m, at |-> Data(minors[m][i].at)]

(* ... and the old object is freed. *)
FinishRealloc ==
  /\ moved # NoPtr
  /\ \E i \in DOMAIN minors[moved.maj] :
       /\ Data(minors[moved.maj][i].at) = moved.at
       /\ FreeMinor(moved.maj, i)
  /\ moved' = NoPtr
  /\ UNCHANGED full

Next == k_obj_alloc \/ k_obj_free \/ k_obj_realloc \/ FinishRealloc

Spec == Init /\ [][Next]_vars
-----------------------------------------------------------------------------
Block == [at : Nat, size : Nat, req : Nat]

TypeOK ==
  /\ list \in Seq(MajorId)
  /\ size \in [MajorId -> Nat]
  /\ usage \in [MajorId -> Nat]
  /\ minors \in [MajorId -> Seq(Block)]
  /\ l_bestBet \in MajorId \cup {None}
  /\ l_inuse \in Nat /\ l_allocated \in Nat
  /\ moved = NoPtr \/ moved \in [maj : MajorId, at : Nat]
  /\ full \in BOOLEAN

(* The list of minors is in the order of their addresses, no two overlap,  *)
(* and all lie between the header of the major and its end; inserting in   *)
(* CASE 3, 4.1 and 4.2 relies on all three.                                *)
MinorsInOrder ==
  \A m \in MajorId : \A i \in DOMAIN minors[m] :
    LET b == minors[m][i]
    IN  /\ Major <= b.at
        /\ b.at + Minor + b.size <=
             IF i = Len(minors[m]) THEN size[m] ELSE minors[m][i + 1].at

(* The aligned pointer leaves the byte that UNALIGN reads behind the       *)
(* header of the object, and the bytes asked for end before the next one.  *)
DataInside ==
  \A m \in MajorId : \A i \in DOMAIN minors[m] :
    LET b == minors[m][i]
    IN  /\ b.at + Minor + AlignInfo <= Data(b.at)
        /\ Data(b.at) + b.req <= b.at + Minor + b.size

(* No object reaches into another one, into a header, or past its major's  *)
(* end, however k_obj_alloc placed it and k_obj_realloc resized it.        *)
ObjectsAreSound == MinorsInOrder /\ DataInside

(* The sum of a sequence of numbers. *)
Total(q) ==
  LET S[n \in 0 .. Len(q)] == IF n = 0 THEN 0 ELSE S[n - 1] + q[n]
  IN  S[Len(q)]

(* The usage of a major, on which CASE 1 decides whether to look at its    *)
(* list at all, is the sum of its parts; a major not in the list has none. *)
(* So are the totals that liballoc_dump reports.                           *)
UsageIsExact ==
  /\ \A m \in MajorId :
       IF m \in ToSet(list)
       THEN usage[m] = Major + Total([i \in DOMAIN minors[m] |-> Minor + minors[m][i].size])
       ELSE usage[m] = 0 /\ minors[m] = <<>>
  /\ l_allocated = Total(size)
  /\ l_inuse = Total([m \in MajorId |->
                 Total([i \in DOMAIN minors[m] |-> minors[m][i].size])])

(* No major stays when its last object goes: what is not needed any more   *)
(* is given back to the page allocator, and l_bestBet never points there.  *)
MajorsInUse ==
  /\ \A m \in ToSet(list) : minors[m] # <<>>
  /\ IsInjective(list)
  /\ l_bestBet = None \/ l_bestBet \in ToSet(list)

(* The heap implements the objects of module Arena. *)
Objects ==
  UNION {{[maj |-> m, at |-> Data(minors[m][i].at), req |-> minors[m][i].req]
            : i \in DOMAIN minors[m]} : m \in MajorId}

Ideal == INSTANCE Arena
           WITH Region <- MajorId, objects <- Objects

ImplementsArena == Ideal!Spec
=============================================================================
