--------------------------- MODULE AddressSpaces ---------------------------
(***************************************************************************)
(* Physical frames and page tables: src/src/page.c, with the callers that  *)
(* give out and take back frames: liballoc (src/src/obj_heap.c:115-131),   *)
(* the page heap (src/src/pageobj_heap.c:93), the loader                   *)
(* (src/src/runner.c:151-182), task_start_func and task_cleanup_zombie     *)
(* (src/src/tasks.c) and syscall_mmap (src/src/syscall.c:358-370).         *)
(*                                                                         *)
(* All pages have 2 MiB.  A frame is numbered by its physical address, a   *)
(* page by its virtual one.  Kernel code runs with interrupts off; loading *)
(* a program takes one step for each header, because the kernel allocates  *)
(* memory in between.                                                      *)
(***************************************************************************)
EXTENDS Naturals, FiniteSetsExt, SequencesExt

CONSTANTS
  NPages,      \* the pages of the address space (bound)
  Memory,      \* the frames in the available memory of the boot loader's map
  Image,       \* the pages krnl_main maps one to one: page 0 and the kernel
  Device,      \* the frames of the devices the kernel maps while it boots
  Program,     \* executables: for each header, its page, or Other
  Other,       \* a header that is not ELF_LOAD
  NoFrame,     \* where a page that is not present points
  MmapLen,     \* lengths of syscall_mmap, in whole pages
  MaxTid,      \* bound: tasks created
  MaxMajors    \* bound: majors of liballoc at a time

Page == 0 .. NPages - 1
Tid  == 1 .. MaxTid
None == 0                        \* no task

ASSUME AddressSpacesAssumption ==
  /\ NPages \in Nat \ {0} /\ MaxTid \in Nat /\ MaxMajors \in Nat
  /\ Memory \subseteq Nat /\ IsFiniteSet(Memory)
  /\ Image \subseteq Page
  /\ Device \subseteq Nat /\ Device \cap Memory = {} /\ Device \cap Image = {}
  /\ Other \notin Page
  /\ Program \subseteq Seq(Page \cup {Other})
  /\ MmapLen \subseteq Nat
  /\ NoFrame \notin Memory \cup Image \cup Device

Frame == Memory \cup Image \cup Device

VARIABLES
  phys_mem_map,  \* the frames marked as used
  kernel,        \* the kernel's page table: the frame of each page
  majors,        \* pages of liballoc
  blocks,        \* pages the page heap was extended by
  table,         \* the page table of each task
  live,          \* the tasks that have one
  stack,         \* user_stack_base of each task
  ptr,           \* task_page_ptr of each task: the frames of each entry
  leftover,      \* frames in arrays that were freed and may be reused as they are
  loading,       \* the task that is being loaded, and its headers still to do
  tid_counter,
  halted         \* why the kernel stopped, if it did

vars == <<phys_mem_map, kernel, majors, blocks, table, live, stack, ptr,
          leftover, loading, tid_counter, halted>>

Entry   == [frame : Frame \cup {NoFrame}, isuser : BOOLEAN]
Absent  == [frame |-> NoFrame, isuser |-> FALSE]
Idle    == [tid |-> None, todo |-> <<>>]
-----------------------------------------------------------------------------
(* krnl_main.c: page 0 and the kernel are mapped one to one. *)
Init ==
  /\ phys_mem_map = Image
  /\ kernel = [p \in Page |-> IF p \in Image THEN p ELSE NoFrame]
  /\ majors = {} /\ blocks = {}
  /\ table = [t \in Tid |-> [p \in Page |-> Absent]]
  /\ live = {}
  /\ stack = [t \in Tid |-> 0]
  /\ ptr = [t \in Tid |-> <<>>]
  /\ leftover = {}
  /\ loading = Idle
  /\ tid_counter = 0
  /\ halted = "no"

(* Taking also what is marked (fault injection). *)
UnusedForgetsMarks == Memory

(* page_physmemmap_is_used: the frames that can be given out. *)
Unused == Memory \ phys_mem_map

(* The n lowest frames of a set, in order. *)
Lowest(S, n) ==
  [i \in 1 .. n |-> CHOOSE f \in S : Cardinality({g \in S : g < f}) = i - 1]

(* page_virt_find_addr, page_virt_find_addr_user: where n pages are free.  *)
Holes(tab, n) ==
  {p \in Page : p + n <= NPages /\ \A q \in p .. p + n - 1 : tab[q].frame = NoFrame}

(* A page table made from the kernel's: page_clone_krnl_tab. *)
Clone == [p \in Page |-> [frame |-> kernel[p], isuser |-> FALSE]]

(* The table tab with n pages from p on mapped to the frames in fs. *)
MapPages(tab, p, fs) ==
  [q \in Page |-> IF q \in p .. p + Len(fs) - 1
                  THEN [frame |-> fs[q - p + 1], isuser |-> TRUE]
                  ELSE tab[q]]

(* The frames stay unmarked (fault injection). *)
MarkForgotten(fs) == phys_mem_map

(* phys_mem_map with the frames in fs: page_mark_physmemmap.               *)
Mark(fs) == phys_mem_map \cup Range(fs)

(* page_find_and_alloc_user: n pages of t at page p.  Only the first one   *)
(* is looked at, "we mapped it already"; without memory it never returns.  *)
AllocUser(t, tab, p, n) ==
  IF Cardinality(Unused) < 1
  THEN halted' = "noMemory" /\ UNCHANGED <<phys_mem_map, table>>
  ELSE IF tab[p].isuser
  THEN /\ table' = [table EXCEPT ![t] = tab]
       /\ UNCHANGED <<phys_mem_map, halted>>
  ELSE IF Cardinality(Unused) < n
  THEN halted' = "noMemory" /\ UNCHANGED <<phys_mem_map, table>>
  ELSE LET fs == Lowest(Unused, n)
       IN  /\ table' = [table EXCEPT ![t] = MapPages(tab, p, fs)]
           /\ phys_mem_map' = Mark(fs)
           /\ UNCHANGED halted
-----------------------------------------------------------------------------
(* page_find_and_alloc: n pages for the kernel in its first hole. *)
AllocKernel(n) ==
  LET hole == Holes(Clone, n)
      fs   == Lowest(Unused, n)
      p    == Min(hole)
  IN  /\ hole # {}
      /\ IF Cardinality(Unused) < n
         THEN halted' = "noMemory" /\ UNCHANGED <<phys_mem_map, kernel>>
         ELSE /\ kernel' = [q \in Page |-> IF q \in p .. p + n - 1
                                           THEN fs[q - p + 1] ELSE kernel[q]]
              /\ phys_mem_map' = Mark(fs)
              /\ UNCHANGED halted

(* liballoc gets a major. *)
liballoc_alloc ==
  /\ halted = "no" /\ Cardinality(majors) < MaxMajors
  /\ AllocKernel(1)
  /\ majors' = majors \cup {p \in Page : kernel'[p] # kernel[p]}
  /\ UNCHANGED <<blocks, table, live, stack, ptr, leftover, loading, tid_counter>>

(* k_pageobj_alloc extends the page heap; once is enough to see. *)
ExtendPageHeap ==
  /\ halted = "no" /\ blocks = {}
  /\ AllocKernel(2)
  /\ blocks' = {p \in Page : kernel'[p] # kernel[p]}
  /\ UNCHANGED <<majors, table, live, stack, ptr, leftover, loading, tid_counter>>

(* The kernel's table without page p. *)
Unmapped(p) == [kernel EXCEPT ![p] = NoFrame]

(* liballoc gives a major back: page_free_found.  The tables of the tasks  *)
(* keep their copies of the entry.                                         *)
liballoc_free ==
  /\ halted = "no"
  /\ \E p \in majors :
       /\ phys_mem_map' = phys_mem_map \ {kernel[p]}
       /\ kernel' = Unmapped(p)
       /\ majors' = majors \ {p}
  /\ UNCHANGED <<blocks, table, live, stack, ptr, leftover, loading,
                 tid_counter, halted>>

(* page_map_paddr and page_map_paddr_mmio for a device, while the kernel   *)
(* boots.  Its frame is not available memory, so its mark means nothing.   *)
MapDevice ==
  /\ halted = "no" /\ tid_counter = 0
  /\ \E f \in Device :
       /\ \A p \in Page : kernel[p] # f
       /\ Holes(Clone, 1) # {}
       /\ kernel' = [kernel EXCEPT ![Min(Holes(Clone, 1))] = f]
  /\ UNCHANGED <<phys_mem_map, majors, blocks, table, live, stack, ptr,
                 leftover, loading, tid_counter, halted>>
-----------------------------------------------------------------------------
(* task_start_func: a copy of the kernel's table, and a stack in its first *)
(* hole.                                                                   *)
task_start_func ==
  /\ halted = "no" /\ loading = Idle /\ tid_counter < MaxTid
  /\ Holes(Clone, 1) # {}
  /\ LET t == tid_counter + 1
         p == Min(Holes(Clone, 1))
     IN  /\ tid_counter' = t
         /\ AllocUser(t, Clone, p, 1)
         /\ live' = live \cup {t}
         /\ stack' = [stack EXCEPT ![t] = p]
         /\ ptr' = [ptr EXCEPT ![t] = <<>>]
         /\ \E prog \in Program : loading' = [tid |-> t, todo |-> prog]
  /\ UNCHANGED <<kernel, majors, blocks, leftover>>

(* The next header of the program: runner_spawn_task.  The entry of a      *)
(* header that is not loaded is never written; it holds zeros or what an   *)
(* earlier array left there.                                               *)
LoadHeader ==
  /\ halted = "no" /\ loading # Idle /\ loading.todo # <<>>
  /\ LET t == loading.tid
         h == Head(loading.todo)
     IN  IF h = Other
         THEN /\ \E garbage \in {{}} \cup {{f} : f \in leftover} :
                   ptr' = [ptr EXCEPT ![t] = Append(@, garbage)]
              /\ UNCHANGED <<phys_mem_map, table, halted>>
         ELSE /\ AllocUser(t, table[t], h, 1)
              /\ ptr' = IF halted' # "no" THEN ptr
                        ELSE [ptr EXCEPT ![t] = Append(@, {table'[t][h].frame})]
  /\ loading' = [loading EXCEPT !.todo = Tail(@)]
  /\ UNCHANGED <<kernel, majors, blocks, live, stack, leftover, tid_counter>>

(* The program is loaded: runner_spawn_task returns. *)
Loaded ==
  /\ halted = "no" /\ loading # Idle /\ loading.todo = <<>>
  /\ loading' = Idle
  /\ UNCHANGED <<phys_mem_map, kernel, majors, blocks, table, live, stack, ptr,
                 leftover, tid_counter, halted>>

(* syscall_mmap of n whole pages at page p, or anywhere.  Programs hint at *)
(* pages where the kernel is not.  With n = 0 the search finds page 0 and  *)
(* the memory test, whose bound wraps around, overwrites the kernel.       *)
syscall_mmap ==
  /\ halted = "no" /\ loading = Idle
  /\ \E t \in live, n \in MmapLen :
       LET tab == table[t]
       IN  \/ /\ n = 0
              /\ halted' = "overwritten"
              /\ UNCHANGED <<phys_mem_map, table>>
           \/ /\ n > 0 /\ Holes(tab, n) # {}
              /\ AllocUser(t, tab, Min(Holes(tab, n)), n)
           \/ /\ n > 0
              /\ \E p \in Page :
                   /\ p + n <= NPages
                   /\ \A q \in p .. p + n - 1 : tab[q].isuser \/ tab[q] = Absent
                   /\ ~tab[p].isuser
                   /\ AllocUser(t, tab, p, n)
  /\ UNCHANGED <<kernel, majors, blocks, live, stack, ptr, leftover, loading,
                 tid_counter>>

(* Leaving the frames of the program (fault injection). *)
ReturnedWithoutProgram(t) == {table[t][stack[t]].frame}

(* The frames task_cleanup_zombie unmarks: the one of the stack, looked up *)
(* in the table, and those in the array.                                   *)
Returned(t) == {table[t][stack[t]].frame} \cup UNION Range(ptr[t])

(* task_cleanup_zombie. *)
task_cleanup_zombie ==
  /\ halted = "no" /\ loading = Idle
  /\ \E t \in live :
       /\ phys_mem_map' = phys_mem_map \ Returned(t)
       /\ table' = [table EXCEPT ![t] = [p \in Page |-> Absent]]
       /\ live' = live \ {t}
       /\ stack' = [stack EXCEPT ![t] = 0]
       /\ leftover' = leftover \cup UNION Range(ptr[t])
       /\ ptr' = [ptr EXCEPT ![t] = <<>>]
  /\ UNCHANGED <<kernel, majors, blocks, loading, tid_counter, halted>>

Next ==
  \/ liballoc_alloc \/ liballoc_free \/ ExtendPageHeap \/ MapDevice
  \/ task_start_func \/ LoadHeader \/ Loaded
  \/ syscall_mmap \/ task_cleanup_zombie

Spec == Init /\ [][Next]_vars
-----------------------------------------------------------------------------
TypeOK ==
  /\ phys_mem_map \subseteq Memory \cup Image
  /\ kernel \in [Page -> Frame \cup {NoFrame}]
  /\ majors \subseteq Page /\ blocks \subseteq Page
  /\ table \in [Tid -> [Page -> Entry]]
  /\ live \subseteq Tid
  /\ stack \in [Tid -> Page]
  /\ ptr \in [Tid -> Seq(SUBSET Memory)]
  /\ leftover \subseteq Memory
  /\ loading.tid \in Tid \cup {None} /\ loading.todo \in Seq(Page \cup {Other})
  /\ tid_counter \in 0 .. MaxTid
  /\ halted \in {"no", "noMemory", "overwritten"}

KernelFrames == Range(kernel) \ {NoFrame}
UserFrames(t) == {table[t][p].frame : p \in {q \in Page : table[t][q].isuser}}

(* A frame is mapped at one page, of one task or of the kernel: memory     *)
(* that was given to one is never given to another as well.                *)
FramesHaveOneUser ==
  /\ \A t, u \in live : \A p, q \in Page :
       (/\ table[t][p].isuser /\ table[u][q].isuser
        /\ table[t][p].frame = table[u][q].frame) => t = u /\ p = q
  /\ \A t \in live : UserFrames(t) \cap KernelFrames = {}
  /\ \A p, q \in Page : kernel[p] = kernel[q] => p = q \/ kernel[p] = NoFrame

(* "mark phys mem usage" (src/src/page.c:408, 457): what is mapped stays   *)
(* marked until it is unmapped, whoever frees what in the meantime.        *)
MappedFramesAreMarked ==
  /\ KernelFrames \subseteq phys_mem_map \cup Device
  /\ \A t \in live : UserFrames(t) \subseteq phys_mem_map

(* What krnl_main mapped one to one stays so, in every table: a lookup     *)
(* trusts it ("id mapped", src/src/page.c:328), and an interrupt enters    *)
(* the kernel on the table of the task it interrupts.                      *)
ImageIsEverywhere ==
  halted = "no" => \A p \in Image :
    /\ kernel[p] = p
    /\ \A t \in live : table[t][p] = [frame |-> p, isuser |-> FALSE]

(* Together: the tables, the marks and the users of a frame agree.         *)
FramesAreSound ==
  TypeOK /\ FramesHaveOneUser /\ MappedFramesAreMarked /\ ImageIsEverywhere

(* Frames have owners: module FrameOwners.  A task keeps the frames in its *)
(* array although syscall_mmap may have mapped others in their place.      *)
FreeFrame == MaxTid + 1
LostFrame == MaxTid + 2
OwnerOf(f) ==
  IF f \notin phys_mem_map THEN FreeFrame
  ELSE IF f \in KernelFrames THEN None
  ELSE LET has == {t \in live : f \in UserFrames(t) \cup UNION Range(ptr[t])}
       IN  IF has = {} THEN LostFrame ELSE Min(has)

Owners == INSTANCE FrameOwners
            WITH Frame <- Memory, Owner <- Tid \cup {None},
                 Free <- FreeFrame, Lost <- LostFrame,
                 owner <- [f \in Memory |-> OwnerOf(f)]

ImplementsFrameOwners == Owners!Spec

(* Frames that the kernel holds, or that a task was started and loaded     *)
(* with, are lost by no step but the syscall_mmap that maps over them: a   *)
(* cleanup, or liballoc giving up a major, makes them usable again.        *)
OnlyMmapLosesFrames ==
  [][\A f \in Memory :
       OwnerOf(f)' = LostFrame =>
         \/ OwnerOf(f) = LostFrame \/ syscall_mmap
         \/ /\ f \notin KernelFrames
            /\ \A t \in live :
                 f # table[t][stack[t]].frame /\ f \notin UNION Range(ptr[t])]_vars
=============================================================================
