------------------------------ MODULE Dlmalloc ------------------------------
(***************************************************************************)
(* malloc, free and their relatives of the programs' C library             *)
(* (src/hagen/src/malloc.c), built as it is for hagen: no locks, no        *)
(* mspaces, no footers, sbrk before mmap, no mremap.                       *)
(*                                                                         *)
(* Sizes and addresses are counted in units of MALLOC_ALIGNMENT (16        *)
(* bytes), requests in words (8 bytes).  A call of the library is one      *)
(* step: a program has one thread.  sbrk, mmap and munmap are the system's *)
(* (hagen declares them, the kernel is to provide them): they fail or not, *)
(* and mmap returns any free place.                                        *)
(*                                                                         *)
(* mem is struct malloc_state with the memory it describes:                *)
(*   hd     the headers, by address: z chunksize, c CINUSE_BIT, p          *)
(*          PINUSE_BIT, f the prev_foot field                              *)
(*   top, topsize, dv, dvsize, small (the small bins), tree, segs (the     *)
(*   list of segments, the newest first; rec is where its record lies, 0   *)
(*   for the one inside malloc_state), foot (footprint), limit             *)
(*   (footprint_limit), noncont and usemmap (flags), trimck, relck, least  *)
(*   dead   the program was aborted: a check of RTCHECK failed             *)
(*   brk    where the system's break is; own: the pages the system gave    *)
(*          and has not got back, in halves of a page                      *)
(***************************************************************************)
EXTENDS TreeBins, Functions

CONSTANTS
  Page,            \* units of a page, which is also the granularity
  BrkBase,         \* sbrk moves the break up from here
  MapBase,         \* mmap finds place from here on
  MmapThreshold,   \* chunks of so many units are mapped on their own
  TrimThreshold,   \* a top larger than this is trimmed
  ReleaseRate,     \* MAX_RELEASE_CHECK_RATE
  Alignments,      \* the alignments programs ask for, in units
  Worlds           \* what programs ask for and what the system gives: the sizes
                   \* in words, the footprint limits set (0 for none), the ends
                   \* of the break's and of mmap's room, and the bounds: blocks
                   \* at a time, moves of the break by others

MinChunk == 2
RecordSize == 3            \* pad_request(sizeof(struct malloc_segment))
TopFoot == RecordSize + MinChunk
Padding == TopFoot + 1     \* SYS_ALLOC_PADDING
MmapFoot == 2              \* MMAP_FOOT_PAD

ASSUME DlmallocAssumption ==
  /\ Page \in Nat /\ Page % 2 = 0
  /\ BrkBase % Page = 0 /\ BrkBase > 0 /\ MapBase % Page = 0
  /\ \A w \in Worlds : w.mapEnd % Page = 0 /\ (w.brkEnd < MapBase \/ w.mapEnd < BrkBase)
  /\ MmapThreshold >= MinLarge /\ Page >= TopFoot + MinLarge

VARIABLES mem, blocks, foreign, world

vars == <<mem, blocks, foreign, world>>

PageUp(x) == ((x + Page - 1) \div Page) * Page
PadRequest(w) == Max({MinChunk, (w + 2) \div 2})
IsSmall(z) == z < MinLarge
-----------------------------------------------------------------------------
(* The headers.  What lies outside the chunks is whatever was there. *)
Hd(m, a) == IF a \in DOMAIN m.hd THEN m.hd[a]
            ELSE [z |-> 0, c |-> FALSE, p |-> FALSE, f |-> 0]
WithHd(m, a, h) == [m EXCEPT !.hd = [b \in DOMAIN @ \cup {a} |-> IF b = a THEN h ELSE @[b]]]

SetPinuse(m, a, bit) == WithHd(m, a, [Hd(m, a) EXCEPT !.p = bit])
SetHead(m, a, size, cin, pin) == WithHd(m, a, [Hd(m, a) EXCEPT !.z = size, !.c = cin, !.p = pin])
SetFoot(m, a, z) == WithHd(m, a + z, [Hd(m, a + z) EXCEPT !.f = z])

IsMmapped(m, a) == ~Hd(m, a).c /\ ~Hd(m, a).p
IsInuse(m, a) == Hd(m, a).c \/ ~Hd(m, a).p
IsFence(m, a) == Hd(m, a).z = 0 /\ Hd(m, a).c /\ Hd(m, a).p

SetInuse(m, a, z) == SetPinuse(SetHead(m, a, z, TRUE, Hd(m, a).p), a + z, TRUE)
SetInuseAndPinuse(m, a, z) == SetPinuse(SetHead(m, a, z, TRUE, TRUE), a + z, TRUE)
SetSizeInuse(m, a, z) == SetHead(m, a, z, TRUE, TRUE)
SetSizeFree(m, a, z) == SetFoot(SetHead(m, a, z, FALSE, TRUE), a, z)
(* Mutant: the next chunk is not told. *)
SetFreeOnly(m, a, z, next) == SetSizeFree(m, a, z)

SetFree(m, a, z, next) == SetSizeFree(SetPinuse(m, next, FALSE), a, z)

(* ok_address, ok_inuse, ok_next and ok_pinuse of a chunk a program passes *)
ChunkOk(m, a) ==
  /\ a >= m.least /\ IsInuse(m, a)
  /\ Hd(m, a).z > 0 /\ Hd(m, a + Hd(m, a).z).p

Abort(m) == [m EXCEPT !.dead = TRUE]
-----------------------------------------------------------------------------
(* The bins.  A small bin is a list, a chunk goes to its front. *)
InsertSmall(m, a, z) == [m EXCEPT !.small[z] = <<a>> \o @]
UnlinkSmall(m, a, z) == [m EXCEPT !.small[z] = SelectSeq(@, LAMBDA b : b # a)]

InsertChunk(m, a, z) ==
  IF IsSmall(z) THEN InsertSmall(m, a, z) ELSE [m EXCEPT !.tree = InsertLarge(@, a, z)]
UnlinkChunk(m, a, z) ==
  IF IsSmall(z) THEN UnlinkSmall(m, a, z) ELSE [m EXCEPT !.tree = UnlinkLarge(@, a)]

NoDv(m) == [m EXCEPT !.dv = Null, !.dvsize = 0]
ReplaceDv(m, a, z) ==
  [IF m.dvsize = 0 THEN m ELSE InsertSmall(m, m.dv, m.dvsize) EXCEPT !.dv = a, !.dvsize = z]

(* bin_find *)
InBin(m, a, z) == IF IsSmall(z) THEN a \in Range(m.small[z]) ELSE BinFind(m.tree, a, z)
-----------------------------------------------------------------------------
(* The segments. *)
Holds(seg, a) == seg.base <= a /\ a < seg.base + seg.size
SegHolding(m, a) == CHOOSE i \in DOMAIN m.segs : Holds(m.segs[i], a)
HasSegmentLink(m, i) == \E j \in DOMAIN m.segs : Holds(m.segs[i], m.segs[j].rec)

InitTop(m, a, z) ==
  [SetHead(m, a, z, FALSE, TRUE) EXCEPT !.top = a, !.topsize = z, !.trimck = TrimThreshold]

(* Mutant: the block is handed out and top stays where it was. *)
FromTopKept(m, nb) == [m |-> SetSizeInuse(m, m.top, nb), a |-> m.top]

(* The split of top that sys_alloc and malloc have in common. *)
FromTop(m, nb) ==
  LET r == m.top + nb IN
  [m |-> [SetSizeInuse(SetHead(m, r, m.topsize - nb, FALSE, TRUE), m.top, nb)
            EXCEPT !.top = r, !.topsize = @ - nb],
   a |-> m.top]

Fail(m) == [m |-> m, a |-> Null]
-----------------------------------------------------------------------------
(* The system: what one call of the library meets.  env.sbrk and env.unmap *)
(* say whether sbrk and munmap work, env.at where mmap finds place.        *)
Halves(base, size) == (base \div (Page \div 2))..((base + size - 1) \div (Page \div 2))
Own(m, base, size) == [m EXCEPT !.own = @ \cup Halves(base, size)]
Disown(m, base, size) == IF size = 0 THEN m ELSE [m EXCEPT !.own = @ \ Halves(base, size)]

CanSbrk(m, n, env) == env.sbrk /\ m.brk + n <= world.brkEnd
Sbrk(m, n) == IF n >= 0 THEN [Own(m, m.brk, n) EXCEPT !.brk = @ + n]
              ELSE [Disown(m, m.brk + n, -n) EXCEPT !.brk = @ + n]

CanMap(m, size, env) ==
  env.at # Null /\ env.at + size <= world.mapEnd /\ Halves(env.at, size) \cap m.own = {}

MmapAligned(nb) == PageUp(nb + 4)   \* mmap_align(nb + SIX_SIZE_T_SIZES + CHUNK_ALIGN_MASK)

(* Mutant: what is asked for is not counted. *)
LimitAllowsOneMore(m, size) == m.limit = 0 \/ m.foot <= m.limit

LimitAllows(m, size) == m.limit = 0 \/ m.foot + size <= m.limit

MmapAlloc(m, nb, env) ==
  LET size == MmapAligned(nb)
      z == size - MmapFoot
      got == Own(m, env.at, size)
      chunk == WithHd(got, env.at, [z |-> z, c |-> FALSE, p |-> FALSE, f |-> 0])
  IN IF LimitAllows(m, size) /\ CanMap(m, size, env)
     THEN [m |-> [SetHead(chunk, env.at + z, 0, TRUE, TRUE)
                    EXCEPT !.foot = @ + size, !.least = IF @ = 0 THEN env.at ELSE Min({@, env.at})],
           a |-> env.at]
     ELSE Fail(m)

(* Mutant: the footprint is not told. *)
UnmapUncounted(m, a, env) ==
  IF env.unmap THEN Disown(m, a - Hd(m, a).f, Hd(m, a).z + Hd(m, a).f + MmapFoot) ELSE m

(* A chunk that was mapped on its own goes back whole; if munmap fails it is lost. *)
UnmapChunk(m, a, env) ==
  LET base == a - Hd(m, a).f
      size == Hd(m, a).z + Hd(m, a).f + MmapFoot
  IN IF env.unmap THEN [Disown(m, base, size) EXCEPT !.foot = @ - size] ELSE m
-----------------------------------------------------------------------------
(* New memory comes below an old segment: the block is cut from its front, *)
(* the rest joins the first chunk of the old segment.                      *)
PrependAlloc(m, newbase, oldbase, nb) ==
  LET q == newbase + nb
      qsize == oldbase - newbase - nb
      cut == SetSizeInuse(m, newbase, nb)
      first == Hd(m, oldbase)
      free == IF IsInuse(m, oldbase) THEN cut ELSE UnlinkChunk(cut, oldbase, first.z)
      size == IF IsInuse(m, oldbase) THEN qsize ELSE qsize + first.z
      rest == IF oldbase = m.top
              THEN [SetHead(cut, q, m.topsize + qsize, FALSE, TRUE)
                      EXCEPT !.top = q, !.topsize = @ + qsize]
              ELSE IF oldbase = m.dv
              THEN [SetSizeFree(cut, q, m.dvsize + qsize) EXCEPT !.dv = q, !.dvsize = @ + qsize]
              ELSE InsertChunk(SetFree(free, q, size, q + size), q, size)
  IN [m |-> rest, a |-> newbase]

(* New memory that touches nothing becomes a segment and holds top.  The   *)
(* record of the old one goes to the end of the old top, with fenceposts   *)
(* behind it; what is left of the old top is a free chunk.                 *)
AddSegment(m, base, size, mm) ==
  LET i == SegHolding(m, m.top)
      oldend == m.segs[i].base + m.segs[i].size
      asp == oldend - TopFoot
      csp == IF asp < m.top + MinChunk THEN m.top ELSE asp
      fence(x) == SetHead(x, csp + RecordSize, 0, TRUE, TRUE)
      record == SetSizeInuse(InitTop(m, base, size - TopFoot), csp, RecordSize)
      pushed == [fence(record) EXCEPT !.segs =
                  <<[base |-> base, size |-> size, mm |-> mm, rec |-> 0]>>
                    \o <<[Head(@) EXCEPT !.rec = csp]>> \o Tail(@)]
  IN IF csp = m.top THEN pushed
     ELSE InsertChunk(SetFree(pushed, m.top, csp - m.top, csp), m.top, csp - m.top)

(* Memory from the system: at base, or none if base is 0; mm: it is mapped. *)
Got(m, base, size, mapped) == [m |-> m, base |-> base, size |-> size, mm |-> mapped]

(* What sbrk gave does not extend the segment of top: it is used if it can *)
(* be made large enough, else it goes back, and sbrk is not relied on again. *)
CopeWithPartial(m, got, want, nb, env) ==
  LET more == IF want < nb + Padding THEN PageUp(nb + Padding - want) ELSE 0 IN
  IF more = 0 \/ CanSbrk(got, more, env)
  THEN Got(Sbrk(got, more), m.brk, want + more, FALSE)
  ELSE Got([m EXCEPT !.noncont = TRUE], 0, 0, FALSE)

(* MORECORE contiguous. *)
Contiguous(m, nb, env) ==
  LET first == m.top = Null
      want == IF first THEN PageUp(nb + Padding) + PageUp(m.brk) - m.brk
              ELSE PageUp(nb - m.topsize + Padding)
      end == m.segs[SegHolding(m, m.top)].base + m.segs[SegHolding(m, m.top)].size
  IN IF m.noncont THEN Got(m, 0, 0, FALSE)
     ELSE IF ~CanSbrk(m, want, env) \/ (first /\ ~LimitAllows(m, want))
     THEN Got([m EXCEPT !.noncont = TRUE], 0, 0, FALSE)
     ELSE IF first \/ m.brk = end THEN Got(Sbrk(m, want), m.brk, want, FALSE)
     ELSE CopeWithPartial(m, Sbrk(m, want), want, nb, env)

(* CALL_MMAP, and MORECORE where it need not extend anything: if there is  *)
(* nothing yet.                                                            *)
FromMmap(got, asize, env) ==
  IF got.base = 0 /\ CanMap(got.m, asize, env)
  THEN Got(Own(got.m, env.at, asize), env.at, asize, TRUE) ELSE got

Noncontiguous(got, asize, env) ==
  IF got.base = 0 /\ CanSbrk(got.m, asize, env)
  THEN Got(Sbrk(got.m, asize), got.m.brk, asize, FALSE) ELSE got

(* The new memory is the first segment, extends the segment of top, comes  *)
(* below a segment, or becomes one.                                        *)
AddToSegments(n, base, size, mm, nb) ==
  LET \* the first segment of the list that ends, or begins, where the memory begins, or ends
      below == {i \in DOMAIN n.segs : n.segs[i].base + n.segs[i].size = base}
      above == {i \in DOMAIN n.segs : n.segs[i].base = base + size}
      lower == [n EXCEPT !.least = Min({@, base})]
  IN IF below # {} /\ n.segs[Min(below)].mm = mm /\ Holds(n.segs[Min(below)], n.top)
     THEN Fail(InitTop([n EXCEPT !.segs[Min(below)].size = @ + size], n.top, n.topsize + size))
     ELSE IF above # {} /\ n.segs[Min(above)].mm = mm
     THEN PrependAlloc([lower EXCEPT !.segs[Min(above)].base = base, !.segs[Min(above)].size = @ + size],
                       base, base + size, nb)
     ELSE Fail(AddSegment(lower, base, size, mm))

Absorb(m, base, size, mm, nb) ==
  IF m.top = Null
  THEN Fail([InitTop([m EXCEPT !.foot = @ + size], base, size - TopFoot)
              EXCEPT !.segs = <<[base |-> base, size |-> size, mm |-> mm, rec |-> 0]>>,
                     !.least = base, !.relck = ReleaseRate])
  ELSE AddToSegments([m EXCEPT !.foot = @ + size], base, size, mm, nb)

TopOf(made, nb) ==
  IF made.a = Null /\ nb < made.m.topsize THEN FromTop(made.m, nb) ELSE made

UseSystem(got, nb) ==
  IF got.base = 0 THEN Fail(got.m)
  ELSE TopOf(Absorb(got.m, got.base, got.size, got.mm, nb), nb)

OrSystem(direct, m, nb, asize, env) ==
  IF direct.a # Null THEN direct
  ELSE IF ~LimitAllows(m, asize) THEN Fail(m)
  ELSE UseSystem(Noncontiguous(FromMmap(Contiguous(m, nb, env), asize, env), asize, env), nb)

SysAlloc(m, nb, env) ==
  OrSystem(IF m.usemmap /\ nb >= MmapThreshold /\ m.topsize # 0 THEN MmapAlloc(m, nb, env) ELSE Fail(m),
           m, nb, PageUp(nb + Padding), env)
-----------------------------------------------------------------------------
(* The mapped segments but the first that hold nothing in use are unmapped. *)
TakeOut(m, a) == IF a = m.dv THEN NoDv(m) ELSE [m EXCEPT !.tree = UnlinkLarge(@, a)]

RECURSIVE ReleaseFrom(_, _, _)
ReleaseFrom(m, i, env) ==
  IF i > Len(m.segs) THEN m
  ELSE LET seg == m.segs[i]
           z == Hd(m, seg.base).z
           alone == seg.mm /\ ~IsInuse(m, seg.base) /\ seg.base + z >= seg.base + seg.size - TopFoot
           unmapped(n) == [Disown(n, seg.base, seg.size)
                             EXCEPT !.foot = @ - seg.size, !.segs = RemoveAt(@, i)]
           backOut(n) == [n EXCEPT !.tree = InsertLarge(@, seg.base, z)]
       IN IF ~alone THEN ReleaseFrom(m, i + 1, env)
          ELSE IF env.unmap THEN ReleaseFrom(unmapped(TakeOut(m, seg.base)), i, env)
          ELSE ReleaseFrom(backOut(TakeOut(m, seg.base)), i + 1, env)

ReleaseUnusedSegments(m, env) ==
  [ReleaseFrom(m, 2, env) EXCEPT !.relck = Max({Len(m.segs) - 1, ReleaseRate})]

(* The part of top that is given back: whole pages, all but one. *)
Extra(m, pad) == ((m.topsize - pad - TopFoot + Page - 1) \div Page - 1) * Page

ShrinkTop(m, pad, env) ==
  LET i == SegHolding(m, m.top)
      seg == m.segs[i]
      extra == Extra(m, pad)
      end == seg.base + seg.size
      mayUnmap == seg.mm /\ seg.size >= extra /\ ~HasSegmentLink(m, i) /\ env.unmap
      mayLower == ~seg.mm /\ m.brk = end /\ env.sbrk
      back == IF mayUnmap THEN Disown(m, end - extra, extra) ELSE Sbrk(m, -extra)
  IN IF m.topsize > pad + TopFoot /\ extra > 0 /\ (mayUnmap \/ mayLower)
     THEN InitTop([back EXCEPT !.segs[i].size = @ - extra, !.foot = @ - extra],
                  m.top, m.topsize - extra)
     ELSE m

Trimmed(m, done) ==
  IF done.foot = m.foot /\ done.topsize > done.trimck THEN [done EXCEPT !.trimck = Unbounded] ELSE done

SysTrim(m, pad, env) ==
  IF m.top = Null THEN m ELSE Trimmed(m, ReleaseUnusedSegments(ShrinkTop(m, pad, env), env))

TrimIfLarge(m, env) == IF m.topsize > m.trimck THEN SysTrim(m, 0, env) ELSE m
-----------------------------------------------------------------------------
(* A chunk that is no longer used joins its free neighbours.  bin says     *)
(* whether it is then to be put into a bin, or is part of dv or top.       *)
Joined(m, a, z, bin) == [m |-> m, a |-> a, z |-> z, bin |-> bin]

JoinNext(m, a, z, next, nz) ==
  IF Hd(m, next).c THEN Joined(SetFree(m, a, z, next), a, z, "bin")
  ELSE IF next = m.top
  THEN Joined([SetHead(IF a = m.dv THEN NoDv(m) ELSE m, a, m.topsize + z, FALSE, TRUE)
                 EXCEPT !.top = a, !.topsize = @ + z], a, z, "top")
  ELSE IF next = m.dv
  THEN Joined([SetSizeFree(m, a, z + m.dvsize) EXCEPT !.dv = a, !.dvsize = @ + z], a, z, "dv")
  ELSE IF a = m.dv
  THEN Joined([SetSizeFree(UnlinkChunk(m, next, nz), a, z + nz) EXCEPT !.dvsize = z + nz],
              a, z + nz, "dv")
  ELSE Joined(SetSizeFree(UnlinkChunk(m, next, nz), a, z + nz), a, z + nz, "bin")

Join(m, a, size) ==
  LET next == a + size
      pz == Hd(m, a).f
      prev == a - pz
  IN IF Hd(m, a).p THEN JoinNext(m, a, size, next, Hd(m, next).z)
     ELSE IF prev # m.dv
     THEN JoinNext(UnlinkChunk(m, prev, pz), prev, size + pz, next, Hd(m, next).z)
     ELSE IF Hd(m, next).c /\ Hd(m, next).p
     THEN Joined([SetFree(m, prev, size + pz, next) EXCEPT !.dvsize = size + pz],
                 prev, size + pz, "dv")
     ELSE JoinNext(m, prev, size + pz, next, Hd(m, next).z)

(* dispose_chunk *)
Bin(j) == IF j.bin = "bin" THEN InsertChunk(j.m, j.a, j.z) ELSE j.m

Dispose(m, a, size, env) ==
  IF IsMmapped(m, a) THEN UnmapChunk(m, a, env) ELSE Bin(Join(m, a, size))

(* dlfree: a top that grew may be trimmed, and a large chunk may be the    *)
(* one after which unused segments are looked for.                         *)
CountRelease(m, env) == IF m.relck = 0 THEN ReleaseUnusedSegments(m, env) ELSE m

AfterJoin(j, m, env) ==
  CASE j.bin = "top" -> TrimIfLarge(m, env)
    [] j.bin = "bin" /\ ~IsSmall(j.z) -> CountRelease([m EXCEPT !.relck = @ - 1], env)
    [] OTHER -> m

FreeJoined(j, env) == AfterJoin(j, Bin(j), env)

FreeChunk(m, a, env) ==
  IF ~ChunkOk(m, a) THEN Abort(m)
  ELSE IF IsMmapped(m, a) THEN UnmapChunk(m, a, env)
  ELSE FreeJoined(Join(m, a, Hd(m, a).z), env)
-----------------------------------------------------------------------------
(* A free chunk a of size z that left its bin is cut; the rest becomes dv  *)
(* or goes into its bin.                                                   *)
Cut(m, a, z, nb, toDv) ==
  LET rest == SetSizeFree(SetSizeInuse(m, a, nb), a + nb, z - nb) IN
  [m |-> IF z - nb < MinChunk THEN SetInuseAndPinuse(m, a, z)
         ELSE IF toDv THEN ReplaceDv(rest, a + nb, z - nb)
         ELSE InsertChunk(rest, a + nb, z - nb),
   a |-> a]

SmallestSmall(m, nb) ==
  Min({z \in MinChunk..MinLarge - 1 : z > nb /\ m.small[z] # <<>>} \cup {MinLarge})

FromDv(m, nb) ==
  LET z == m.dvsize - nb IN
  [m |-> IF z < MinChunk THEN SetInuseAndPinuse(NoDv(m), m.dv, m.dvsize)
         ELSE SetSizeInuse(SetSizeFree([m EXCEPT !.dv = @ + nb, !.dvsize = z], m.dv + nb, z),
                           m.dv, nb),
   a |-> m.dv]

(* dv, then top, then the system. *)
FromRest(m, nb, env) ==
  IF nb <= m.dvsize THEN FromDv(m, nb)
  ELSE IF nb < m.topsize THEN FromTop(m, nb)
  ELSE SysAlloc(m, nb, env)

(* A small request: a chunk of its size, else dv if that is large enough,  *)
(* else the best of the bins, whose rest becomes dv.                       *)
MallocSmall(m, nb, env) ==
  LET z == SmallestSmall(m, nb)
      v == FindSmallest(m.tree, nb).v
  IN IF m.small[nb] # <<>>
     THEN [m |-> SetInuseAndPinuse([m EXCEPT !.small[nb] = Tail(@)], Head(m.small[nb]), nb),
           a |-> Head(m.small[nb])]
     ELSE IF nb <= m.dvsize THEN FromDv(m, nb)
     ELSE IF z < MinLarge
     THEN Cut([m EXCEPT !.small[z] = Tail(@)], Head(m.small[z]), z, nb, TRUE)
     ELSE IF DOMAIN m.tree.n # {}
     THEN Cut([m EXCEPT !.tree = UnlinkLarge(@, v)], v, Hd(m, v).z, nb, TRUE)
     ELSE FromRest(m, nb, env)

(* A large request: the best of the tries, unless dv fits better. *)
LargeOrRest(m, found, nb, env) ==
  IF found.v # Null /\ (m.dvsize < nb \/ found.rem < m.dvsize - nb)
  THEN Cut([m EXCEPT !.tree = UnlinkLarge(@, found.v)], found.v, found.rem + nb, nb, FALSE)
  ELSE FromRest(m, nb, env)

MallocLarge(m, nb, env) == LargeOrRest(m, FindLarge(m.tree, nb), nb, env)

(* dlmalloc; a is the chunk, or Null. *)
MallocChunk(m, nb, env) ==
  IF IsSmall(nb) THEN MallocSmall(m, nb, env) ELSE MallocLarge(m, nb, env)
-----------------------------------------------------------------------------
(* try_realloc_chunk; there is no mremap, so a mapped chunk stays or fails. *)
TryRealloc(m, a, nb, env) ==
  LET old == Hd(m, a).z
      next == a + old
      nz == Hd(m, next).z
      give(n, z) == Dispose(SetInuse(SetInuse(n, a, nb), a + nb, z), a + nb, z, env)
      fits == [m |-> IF old - nb >= MinChunk THEN give(m, old - nb) ELSE m, a |-> a]
      rest == old + m.dvsize - nb
      overDv == IF rest >= MinChunk
                THEN SetPinuse([SetSizeFree(SetInuse(m, a, nb), a + nb, rest)
                                  EXCEPT !.dv = a + nb, !.dvsize = rest], a + nb + rest, FALSE)
                ELSE SetInuse(NoDv(m), a, old + m.dvsize)
      overTop == [SetHead(SetInuse(m, a, nb), a + nb, old + m.topsize - nb, FALSE, TRUE)
                    EXCEPT !.top = a + nb, !.topsize = old + @ - nb]
      taken == UnlinkChunk(m, next, nz)
  IN IF ~ChunkOk(m, a) THEN Fail(Abort(m))
     ELSE IF IsMmapped(m, a)
     THEN IF ~IsSmall(nb) /\ 2 * old >= 2 * nb + 1 /\ old - nb <= 2 * Page
          THEN [m |-> m, a |-> a] ELSE Fail(m)
     ELSE IF old >= nb THEN fits
     ELSE IF next = m.top
     THEN IF old + m.topsize > nb THEN [m |-> overTop, a |-> a] ELSE Fail(m)
     ELSE IF next = m.dv
     THEN IF old + m.dvsize >= nb THEN [m |-> overDv, a |-> a] ELSE Fail(m)
     ELSE IF ~Hd(m, next).c /\ old + nz >= nb
     THEN [m |-> IF old + nz - nb < MinChunk THEN SetInuse(taken, a, old + nz)
                 ELSE give(taken, old + nz - nb),
           a |-> a]
     ELSE Fail(m)

(* dlrealloc: in place if that can be, else to a new block. *)
Moved(fresh, a, env) ==
  IF fresh.a = Null THEN fresh ELSE [m |-> FreeChunk(fresh.m, a, env), a |-> fresh.a]

OrMoved(tried, a, nb, env) ==
  IF tried.a # Null THEN tried ELSE Moved(MallocChunk(tried.m, nb, env), a, env)

ReallocChunk(m, a, nb, env) == OrMoved(TryRealloc(m, a, nb, env), a, nb, env)

(* internal_memalign: a larger block, of which what lies before the        *)
(* aligned place and what is left at the end are given back.               *)
GiveLead(m, p, pos, size, env) ==
  IF IsMmapped(m, p)
  THEN WithHd(m, pos, [z |-> size, c |-> FALSE, p |-> FALSE, f |-> Hd(m, p).f + pos - p])
  ELSE Dispose(SetInuse(SetInuse(m, pos, size), p, pos - p), p, pos - p, env)

Align(got, al, env) ==
  LET p == got.a
      br == ((p + al) \div al) * al - 1   \* the chunk whose memory is aligned, from p on
      pos == IF br - p >= MinChunk THEN br ELSE br + al
  IN IF p = Null \/ (p + 1) % al = 0 THEN got
     ELSE [m |-> GiveLead(got.m, p, pos, Hd(got.m, p).z - (pos - p), env), a |-> pos]

GiveSpare(got, nb, env) ==
  LET p == got.a
      z == Hd(got.m, p).z
  IN IF p = Null \/ IsMmapped(got.m, p) \/ z <= nb + MinChunk THEN got
     ELSE [m |-> Dispose(SetInuse(SetInuse(got.m, p, nb), p + nb, z - nb), p + nb, z - nb, env),
           a |-> p]

MemalignChunk(m, al, nb, env) ==
  GiveSpare(Align(MallocChunk(m, PadRequest(2 * (nb + al + MinChunk) - 1), env), al, env), nb, env)
-----------------------------------------------------------------------------
(* ialloc: one block for all elements, and for the array of pointers to    *)
(* them if the caller brings none, is cut into pieces; the last element    *)
(* takes what is left over.  It is not mapped on its own: pieces are freed *)
(* one by one.                                                             *)
RECURSIVE CutElements(_, _, _, _)
CutElements(m, at, sizes, left) ==
  LET z == sizes[Len(at)]
      a == Last(at)
  IN IF Len(at) = Len(sizes) THEN [m |-> SetSizeInuse(m, a, left), at |-> at]
     ELSE CutElements(SetSizeInuse(m, a, z), Append(at, a + z), sizes, left - z)

CutArray(m, a, contents) == SetSizeInuse(m, a + contents, Hd(m, a).z - contents)

Pieces(got, m, sizes, contents, array) ==
  IF got.a = Null THEN [m |-> m, at |-> <<>>]
  ELSE IF array THEN CutElements(CutArray(m, got.a, contents), <<got.a>>, sizes, contents)
  ELSE CutElements(m, <<got.a>>, sizes, Hd(m, got.a).z)

SumOf(sizes) == FoldLeft(LAMBDA x, y : x + y, 0, sizes)

IallocFrom(got, m, sizes, array) ==
  Pieces(got, [got.m EXCEPT !.usemmap = m.usemmap], sizes, SumOf(sizes), array)

Ialloc(m, sizes, array, env) ==
  IallocFrom(MallocChunk([m EXCEPT !.usemmap = FALSE],
                         SumOf(sizes) + (IF array THEN PadRequest(Len(sizes)) ELSE 0), env),
             m, sizes, array)

(* internal_bulk_free: a block whose neighbour follows it in the array is  *)
(* freed with it.                                                          *)
RECURSIVE BulkFree(_, _, _)
BulkFree(m, list, env) ==
  LET a == Head(list)
      next == a + Hd(m, a).z
  IN IF list = <<>> THEN TrimIfLarge(m, env)
     ELSE IF a < m.least \/ ~IsInuse(m, a) THEN Abort(m)
     ELSE IF Len(list) > 1 /\ list[2] = next
     THEN BulkFree(SetInuse(m, a, Hd(m, a).z + Hd(m, next).z), <<a>> \o SubSeq(list, 3, Len(list)), env)
     ELSE BulkFree(Dispose(m, a, Hd(m, a).z, env), Tail(list), env)
-----------------------------------------------------------------------------
(* The chunks of a segment, from its base to top or to the fenceposts. *)
RECURSIVE ChunksFrom(_, _, _)
ChunksFrom(m, a, end) ==
  IF a >= end \/ a = m.top \/ Hd(m, a).z = 0 THEN {}
  ELSE {a} \cup ChunksFrom(m, a + Hd(m, a).z, end)

ChunksOf(m, seg) == ChunksFrom(m, seg.base, seg.base + seg.size)
AllChunks(m) == UNION {ChunksOf(m, seg) : seg \in Range(m.segs)}
Fences(m) == {seg.rec + RecordSize : seg \in {g \in Range(m.segs) : g.rec # 0}}

(* Words that are no headers, and a prev_foot inside a block, are data. *)
Tidy(m, bs) ==
  LET heads == AllChunks(m) \cup {b.at : b \in bs} \cup {m.top}
      ends == {b.at + Hd(m, b.at).z : b \in {c \in bs : IsMmapped(m, c.at)}}
      keep == (heads \cup Fences(m) \cup ends) \cap DOMAIN m.hd
  IN [m EXCEPT !.hd = [a \in keep |-> IF @[a].p THEN [@[a] EXCEPT !.f = 0] ELSE @[a]]]

Envs(sbrks, unmaps, ats) == [sbrk : sbrks, unmap : unmaps, at : ats]
Places == {a \in MapBase..world.mapEnd - 1 : a % Page = 0}
AllocEnvs == Envs(BOOLEAN, {TRUE}, Places \cup {Null})
FreeEnvs == Envs(BOOLEAN, BOOLEAN, {Null})

Return(m, bs) == blocks' = bs /\ mem' = Tidy(m, bs) /\ UNCHANGED <<foreign, world>>
NewBlock(a, w) == IF a = Null THEN {} ELSE {[at |-> a, req |-> w]}
Room(n) == ~mem.dead /\ Cardinality(blocks) + n <= world.blocks

(* The step that makes a rounded alignment of internal_memalign. *)
PowerOfTwo(al) == Min({2^k : k \in {j \in 1..10 : 2^j >= al}})

Init ==
  /\ mem = [hd |-> [a \in {} |-> 0], top |-> Null, topsize |-> 0, dv |-> Null, dvsize |-> 0,
            small |-> [z \in MinChunk..MinLarge - 1 |-> <<>>], tree |-> NoTrees,
            segs |-> <<>>, foot |-> 0, limit |-> 0, noncont |-> FALSE, usemmap |-> TRUE,
            trimck |-> 0, relck |-> 0, least |-> 0, dead |-> FALSE, brk |-> BrkBase, own |-> {}]
  /\ blocks = {}
  /\ foreign = 0
  /\ world \in Worlds

(* A call that returns r: a new block of w words, or none. *)
Made(r, w) == Return(r.m, blocks \cup NewBlock(r.a, w))
Changed(r, b, w) == Return(r.m, IF r.a = Null THEN blocks ELSE (blocks \ {b}) \cup NewBlock(r.a, w))

Malloc == \E w \in world.words, env \in AllocEnvs :
  Room(1) /\ Made(MallocChunk(mem, PadRequest(w), env), w)

Free == \E b \in blocks, env \in FreeEnvs :
  Room(0) /\ Return(FreeChunk(mem, b.at, env), blocks \ {b})

Realloc == \E b \in blocks, w \in world.words, env \in AllocEnvs \cup FreeEnvs :
  Room(0) /\ Changed(ReallocChunk(mem, b.at, PadRequest(w), env), b, w)

ReallocInPlace == \E b \in blocks, w \in world.words, env \in FreeEnvs :
  Room(0) /\ Changed(TryRealloc(mem, b.at, PadRequest(w), env), b, w)

Memalign == \E al \in Alignments, w \in world.words, env \in AllocEnvs :
  /\ Room(1)
  /\ IF al <= 1 THEN Made(MallocChunk(mem, PadRequest(w), env), w)
     ELSE Made(MemalignChunk(mem, PowerOfTwo(al), PadRequest(w), env), w)

(* independent_comalloc of two elements; with an array of its own that is  *)
(* a third block, right behind them.                                       *)
MadeMany(r, w, v, array) ==
  Return(r.m, IF r.at = <<>> THEN blocks
              ELSE blocks \cup NewBlock(r.at[1], w) \cup NewBlock(r.at[2], v) \cup
                   (IF array THEN NewBlock(r.at[2] + PadRequest(v), 2) ELSE {}))

Independent == \E w, v \in world.words, array \in BOOLEAN, env \in AllocEnvs :
  Room(2) /\ MadeMany(Ialloc(mem, <<PadRequest(w), PadRequest(v)>>, array, env), w, v, array)

BulkFreeAll == \E list \in [1..Cardinality(blocks) -> {b.at : b \in blocks}], env \in FreeEnvs :
  /\ Room(0) /\ IsInjective(list)
  /\ Return(BulkFree(mem, list, env), {})

Trim == \E env \in FreeEnvs : Room(0) /\ Return(SysTrim(mem, 0, env), blocks)

(* dlmalloc_set_footprint_limit: 0 is meant as the least limit, but the    *)
(* second test has no else and makes it granularity_align(0), no limit.    *)
SetFootprintLimit == \E x \in world.limits :
  Room(0) /\ Return([mem EXCEPT !.limit = PageUp(x)], blocks)

(* Something else in the program moves the break. *)
ForeignSbrk == \E n \in {Page \div 2, Page} :
  /\ foreign < world.foreign /\ mem.brk + n <= world.brkEnd
  /\ foreign' = foreign + 1
  /\ mem' = [mem EXCEPT !.brk = @ + n]
  /\ UNCHANGED <<blocks, world>>

Next ==
  \/ Malloc \/ Free \/ Realloc \/ ReallocInPlace \/ Memalign
  \/ Independent \/ BulkFreeAll \/ Trim \/ SetFootprintLimit \/ ForeignSbrk

Spec == Init /\ [][Next]_vars
-----------------------------------------------------------------------------
FreeChunks == {a \in AllChunks(mem) : ~mem.hd[a].c}

(* do_check_free_chunk, and traverse_and_check for a free chunk: it is in  *)
(* the bin of its size or is dv, its neighbours are in use and know of it. *)
FreeChunkOk(a) ==
  LET z == mem.hd[a].z
      next == mem.hd[a + z]
  IN /\ z >= MinChunk /\ mem.hd[a].p /\ ~next.p /\ next.f = z
     /\ next.c \/ a + z = mem.top
     /\ (a = mem.dv) # InBin(mem, a, z)

(* do_check_inuse_chunk, and that someone has the chunk: it is the chunk   *)
(* of a block, large enough, or holds the record of a segment.             *)
InuseChunkOk(a) ==
  LET h == mem.hd[a] IN
  /\ mem.hd[a + h.z].p
  /\ ~h.p => mem.hd[a - h.f].z = h.f /\ ~mem.hd[a - h.f].c
  /\ \/ \E b \in blocks : b.at = a /\ b.req <= 2 * h.z - 1
     \/ \E seg \in Range(mem.segs) : seg.rec = a /\ h.z = RecordSize

(* do_check_mmapped_chunk of a block that was mapped on its own. *)
MappedBlockOk(b) ==
  LET h == mem.hd[b.at] IN
  /\ b.req <= 2 * h.z - 2 /\ ~IsSmall(h.z)
  /\ (h.z + h.f + MmapFoot) % Page = 0
  /\ IsFence(mem, b.at + h.z)

(* do_check_malloc_state, which the library can be built to run after each *)
(* call: the headers tile every segment, top ends the newest one, each     *)
(* free chunk is in its bin and nothing else is, no two free chunks touch, *)
(* each chunk in use has an owner; the records lie in the segments they    *)
(* describe.  And no RTCHECK (ok_address, ok_inuse, ok_pinuse) has aborted *)
(* a program that frees only what it got.                                  *)
HeapIsSound ==
  /\ ~mem.dead
  /\ \A a \in AllChunks(mem) : IF mem.hd[a].c THEN InuseChunkOk(a) ELSE FreeChunkOk(a)
  /\ \A b \in blocks : b.at \in AllChunks(mem) \/ MappedBlockOk(b)
  /\ \A i \in Bins : BinOk(mem.tree, i)
  /\ UNION {Range(mem.small[z]) : z \in DOMAIN mem.small} \cup TreeChunks(mem.tree)
       = FreeChunks \ {mem.dv}
  /\ \A z \in DOMAIN mem.small : IsInjective(mem.small[z])
  /\ mem.dvsize = IF mem.dv = Null THEN 0 ELSE mem.hd[mem.dv].z
  /\ \A i \in DOMAIN mem.segs :
       LET seg == mem.segs[i]
           last == Max({a \in AllChunks(mem) : Holds(seg, a)} \cup {0})
       IN IF i = 1
          THEN /\ Holds(seg, mem.top) /\ mem.topsize > 0 /\ mem.hd[mem.top].p
               /\ mem.top + mem.topsize + TopFoot = seg.base + seg.size
               /\ seg.rec = 0
          ELSE Holds(seg, seg.rec) /\ last = seg.rec

(* The footprint is what the system gave and did not get back; every block *)
(* and every segment lies in it.  sys_trim, release_unused_segments and a  *)
(* free of a mapped block never give back memory that is still used, and   *)
(* a munmap that fails takes back what was done before it.                 *)
FootprintIsOwned ==
  /\ mem.foot = Cardinality(mem.own) * (Page \div 2)
  /\ \A seg \in Range(mem.segs) : Halves(seg.base, seg.size) \subseteq mem.own
  /\ \A b \in blocks : Halves(b.at, Hd(mem, b.at).z) \subseteq mem.own

(* malloc and its relatives keep their promise to programs. *)
UserBlocks == INSTANCE Blocks
ImplementsBlocks == UserBlocks!Spec

(* No call takes the footprint over a limit that is set, whatever          *)
(* alignment, retry of sbrk or second block of realloc it asks for.        *)
LimitHolds == [][mem.limit # 0 /\ mem'.foot > mem.foot => mem'.foot <= mem.limit]_vars
=============================================================================
