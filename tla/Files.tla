-------------------------------- MODULE Files --------------------------------
(***************************************************************************)
(* The system calls on files and directories (src/src/syscall.c), over the *)
(* list of disks (module Disks), the file system (module Extfs) and the    *)
(* device files (src/src/devfs.c), and what runner_spawn_task              *)
(* (src/src/runner.c) does with paths.                                     *)
(*                                                                         *)
(* A call is one step: it runs with interrupts off.  A path a program      *)
(* gives is [disk, abs, names]: //2/a/b names disk 2, any other path disk  *)
(* 0, which stands for the root disk.                                      *)
(*                                                                         *)
(*   disks, root  diskman's list and krnl_init_inode, as the boot left them *)
(*   task    for each task: dm, the disk of its program; whole, whether    *)
(*           its program was loaded; cwd, the directory [di, ino, par] its *)
(*           paths begin at, and at, where that struct is: on the heap, on *)
(*           a stack that is no longer in use, or on the heap and never    *)
(*           filled in ("junk")                                            *)
(*   files   the open files [di, ino]                                      *)
(*   call    the last call, what decided it and what it returned           *)
(*   fault   the kernel called a function through a pointer never set      *)
(***************************************************************************)
EXTENDS Disks, Boot, Extfs

CONSTANTS
  Machines,     \* what the boot may find, see module Disks
  Trees,        \* for a place of a superblock the tree of that file system
  NameLen,      \* the length of each name
  Initial,      \* the name that is the first letter of a name
  Programs,     \* the names of files that hold a program
  Devices,      \* the names of the device files
  Paths,        \* the paths programs use
  BufferSizes,  \* the buffers they pass to getcwd
  Offsets, Counts,  \* where reads begin, how much they ask for
  MaxDepth,     \* bound: how many directories getcwd goes through
  MaxTasks, MaxFiles

(* There is a tree for each file system the boot finds, and what is on no  *)
(* disk reads as no directory.                                             *)
ASSUME FilesAssumption ==
  /\ BlockSize \in Nat \ {0}
  /\ NodeIsSound(Garbage) /\ Garbage.kind # "dir"
  /\ \A place \in DOMAIN Trees : TreeIsSound(Trees[place])
  /\ \A m \in Machines : MachineIsSound(m) /\ DrivesAreSound(m) /\ LineIsSound(m)
  /\ \A m \in Machines : ~PciEnum(m).fault =>
       LET list == Setup(m) IN
       \A i \in DOMAIN list : list[i].fs = "extfs" => Start(list, i) \in DOMAIN Trees
  /\ \A n \in DOMAIN NameLen : n \in STRING /\ NameLen[n] \in Nat
  /\ "" \in DOMAIN NameLen
  /\ \A place \in DOMAIN Trees : \A i \in DOMAIN Trees[place] :
       \A e \in Range(Trees[place][i].ents) : e.name \in DOMAIN NameLen
  /\ \A path \in Paths : path.abs \in BOOLEAN /\ path.names \in Seq(STRING)
  /\ Offsets \subseteq Nat /\ Counts \subseteq Nat /\ BufferSizes \subseteq Nat
  /\ DOMAIN UuidTexts \subseteq STRING \ {" ", ""}
  /\ MaxDepth \in Nat \ {0}

(* Trees in which getcwd works, as far as it goes here. *)
NoDirectoryIsHidden == \A place \in DOMAIN Trees : DirectoriesLeadUp(Trees[place], MaxDepth - 1)

EINVAL == 22
ENOEXEC == 8
ENOSYS == 88

VARIABLES machine, disks, root, task, files, call, fault

vars == <<machine, disks, root, task, files, call, fault>>

DiskOf(path) == IF path.disk = 0 THEN root ELSE path.disk
Fs(di) == IF Known(disks, di) THEN disks[di].fs ELSE "none"
TreeOf(di) == Trees[Start(disks, di)]

Tasks == DOMAIN task
Cwd(t) == task[t].cwd
HeapDir(di, d) == [di |-> di, ino |-> d.ino, par |-> d.par, at |-> IF d.filled THEN "heap" ELSE "junk"]

(* A task whose cwd is lost reads whatever is there; it goes no further here. *)
Usable(t, path) == path.abs \/ Cwd(t).at = "heap"
-----------------------------------------------------------------------------
(* One level of sys_get_dir_name, of a directory [ino, par]; s: the size   *)
(* of the buffer, names: the tree the names are read from, up: what the    *)
(* inner call made of the parent.  off: how far the text goes; over:       *)
(* something was written behind the buffer; stale: the task's cwd is left  *)
(* at the struct on this call's stack.  An error of the inner call is      *)
(* taken for its offset, and the name goes before the buffer.              *)
Up == [abs |-> FALSE, names |-> <<"..">>]
DirAt == [ino : Int, par : Int]

NameBehind(s, up, self) ==
  LET off == up.off + NameLen[self]
      text == IF up.off = s THEN up.text ELSE Append(up.text, self)
  IN IF off = s - 1 THEN [text |-> text, off |-> s, over |-> up.over, stale |-> TRUE]
     ELSE [text |-> text, off |-> off + 1, over |-> up.over \/ up.off < 0 \/ off + 1 >= s, stale |-> FALSE]

NameUnder(par, names, s, dir, named) ==
  IF dir.ino = RootInode THEN [text |-> <<>>, off |-> 1, over |-> s < 1, stale |-> FALSE]
  ELSE IF par.r < 0 THEN [text |-> <<>>, off |-> par.r, over |-> FALSE, stale |-> FALSE]
  ELSE NameBehind(s, named[[ino |-> par.ino, par |-> par.par]], NameInDir(names, dir.par, dir.ino))

DirName(tree, names, s, dir, named) ==
  NameUnder(OpenDir(tree, dir.ino, Up), names, s, dir, named)

(* The call and the calls in it; deeper ones would use up the stack. *)
TooDeep == [text |-> <<>>, off |-> Loop, over |-> TRUE, stale |-> FALSE]
DirNamed(tree, names, s, dir) ==
  LET named[n \in 0..MaxDepth] ==
        IF n = 0 THEN [d \in DirAt |-> TooDeep]
        ELSE [d \in DirAt |-> DirName(tree, names, s, d, named[n - 1])]
  IN named[MaxDepth][dir]

GetcwdOf(t, s) ==
  DirNamed(TreeOf(root), TreeOf(task[t].dm), s, [ino |-> Cwd(t).ino, par |-> Cwd(t).par])

(* sys_dirname: up to the last slash; of a bare name its first letter. *)
Dirname(path) ==
  IF ~path.abs /\ Len(path.names) = 1 THEN [abs |-> FALSE, names |-> <<Initial[path.names[1]]>>]
  ELSE [abs |-> path.abs, names |-> SubSeq(path.names, 1, Len(path.names) - 1)]
-----------------------------------------------------------------------------
(* The boot: the disks are found, the root disk by the uuid the command    *)
(* line gives or else by the number, and the first task starts: its        *)
(* program is on that disk, in /sbin or in the root directory.             *)
FirstPrograms == {[disk |-> 0, abs |-> TRUE, names |-> n] : n \in {<<"sbin", "sfinit">>, <<"sfinit">>}}

RootOf(chosen) == IF chosen.uuid = ZeroUuid THEN chosen.inode ELSE FindFromUuid(disks, chosen.uuid)

FirstTask(path) ==
  LET tree == TreeOf(root) IN
  <<[dm |-> root, whole |-> TRUE, cwd |-> HeapDir(root, OpenDir(tree, RootInode, Dirname(path)))]>>

(* tasks_setup tries the longer path first. *)
FirstTasks ==
  LET there == {p \in FirstPrograms : FindInode(TreeOf(root), RootInode, p) > 0} IN
  IF Fs(root) # "extfs" \/ there = {} THEN <<>>
  ELSE FirstTask(CHOOSE p \in there : \A q \in there : Len(q.names) <= Len(p.names))

Init ==
  /\ machine \in Machines
  /\ disks = IF PciEnum(machine).fault THEN <<>> ELSE Setup(machine)
  /\ root = RootOf(Chosen(machine))
  /\ fault = (disks = <<>> \/ root = Fault \/ Fs(root) = "null")
  /\ task = IF fault THEN <<>> ELSE FirstTasks
  /\ files = {}
  /\ call = [op |-> "boot"]

(* What a call through the table of a disk meets: dev has only fopen and   *)
(* fread, a disk without file system nothing; their other pointers are     *)
(* never set.  fopendir alone is tested against 0.                         *)
Absent(di, op) ==
  \/ Fs(di) = "null"
  \/ Fs(di) = "dev" /\ op \notin {"fopen", "fread"}

Crash(c) == fault' = TRUE /\ call' = c /\ UNCHANGED <<machine, disks, root, task, files>>
Return(c) == call' = c /\ UNCHANGED <<machine, disks, root, fault>>

(* syscall_open up to the file it finds, or an error. *)
Found1(t, path) ==
  LET di == DiskOf(path) IN
  IF Fs(di) = "dev"
  THEN IF path.abs /\ Len(path.names) = 1 /\ path.names[1] \in Devices
       THEN [di |-> di, ino |-> 1] ELSE [di |-> di, ino |-> -EINVAL]
  ELSE IF Fs(di) = "extfs" THEN [di |-> di, ino |-> FindInode(TreeOf(di), Cwd(t).ino, path)]
  ELSE [di |-> di, ino |-> -EINVAL]

Open(t, path) ==
  LET f == Found1(t, path) IN
  /\ Usable(t, path)
  /\ IF Absent(DiskOf(path), "fopen") THEN Crash([op |-> "open"])
     ELSE /\ f.ino > 0 => Cardinality(files) < MaxFiles
          /\ files' = IF f.ino > 0 THEN files \cup {f} ELSE files
          /\ Return([op |-> "open", ret |-> Min({f.ino, 0})])
          /\ UNCHANGED task

Close(f) ==
  IF Absent(f.di, "fclose") THEN Crash([op |-> "close"])
  ELSE files' = files \ {f} /\ Return([op |-> "close", ret |-> 0]) /\ UNCHANGED task

(* syscall_stat opens, asks and closes. *)
Stat(t, path) ==
  LET f == Found1(t, path) IN
  /\ Usable(t, path)
  /\ IF Absent(DiskOf(path), "fopen") \/ (f.ino > 0 /\ Absent(f.di, "fstat"))
     THEN Crash([op |-> "stat"])
     ELSE Return([op |-> "stat", ret |-> IF f.ino > 0 THEN 0 ELSE -EINVAL]) /\ UNCHANGED <<task, files>>

(* syscall_read begins at f->off, which nothing ever sets. *)
Read(f, off, n) ==
  /\ IF Fs(f.di) = "dev" THEN Return([op |-> "read", ret |-> -EINVAL])
     ELSE LET node == Node(TreeOf(f.di), f.ino) IN
          IF DirBit(node) THEN Return([op |-> "read", ret |-> -EISDIR])
          ELSE Return([op |-> "read", node |-> node, off |-> off, n |-> n,
                       ret |-> Len(ReadContents(node, n, off)), data |-> ReadContents(node, n, off)])
  /\ UNCHANGED <<task, files>>

(* syscall_write: no file system has an fwrite. *)
Write(f) == Crash([op |-> "write"])

(* syscall_open_dir: what happens, and what the struct holds afterwards. *)
NoDir(error) == [Unfilled EXCEPT !.r = error]
DirFound(t, di, path) ==
  IF Fs(di) = "extfs" THEN OpenDir(TreeOf(di), Cwd(t).ino, path)
  ELSE IF Fs(di) = "none" THEN NoDir(-EINVAL) ELSE NoDir(-ENOSYS)

(* fopendir of a disk that has none is 0 only by chance. *)
MayCrash(di) == "pointers" \in machine.junk /\ Absent(di, "fopendir")

OpenAndReadDir(t, path) ==
  LET di == DiskOf(path)
      d == DirFound(t, di, path)
  IN /\ Usable(t, path)
     /\ IF MayCrash(di) THEN Crash([op |-> "opendir"])
        ELSE /\ Return([op |-> "readdir", ret |-> d.r,
                        names |-> IF d.filled THEN DirNames(TreeOf(di), d.ino) ELSE <<>>])
             /\ UNCHANGED <<task, files>>

(* syscall_chdir: the old cwd is closed, which does nothing, and stays allocated. *)
Chdir(t, path) ==
  LET di == DiskOf(path)
      d == DirFound(t, di, path)
  IN /\ Cwd(t).at = "heap"
     /\ IF MayCrash(di) THEN Crash([op |-> "opendir"])
        ELSE /\ Return([op |-> "chdir", ret |-> d.r, path |-> path])
             /\ task' = IF d.r < 0 THEN task ELSE [task EXCEPT ![t].cwd = HeapDir(di, d)]
             /\ UNCHANGED files

(* syscall_getcwd *)
Getcwd(t, s) ==
  LET g == GetcwdOf(t, s) IN
  /\ Cwd(t).at = "heap"
  /\ Return([op |-> "getcwd", ret |-> 0, size |-> s])
  /\ task' = IF g.stale THEN [task EXCEPT ![t].cwd.at = "stack"] ELSE task
  /\ UNCHANGED files

(* runner_spawn_task, as far as paths decide it: the program is opened on  *)
(* its disk and read, the task is made, and then its cwd is opened: the    *)
(* directory of the program, but always on the root disk.  If that fails   *)
(* the call returns and the task stays in the ring.                        *)
SpawnResult(path, f, d) ==
  IF f.ino <= 0 THEN f.ino
  ELSE IF Fs(f.di) = "dev" THEN -EINVAL
  ELSE IF DirBit(Node(TreeOf(f.di), f.ino)) THEN -EISDIR
  ELSE IF Last(path.names) \notin Programs THEN -ENOEXEC
  ELSE IF d.r < 0 THEN -ENOENT ELSE 0

Spawn(t, path) ==
  LET di == DiskOf(path)
      f == Found1(t, path)
      d == OpenDir(TreeOf(root), Cwd(t).ino, Dirname(path))
      r == SpawnResult(path, f, d)
      made == r = 0 \/ (r = -ENOENT /\ f.ino > 0)
      new == [dm |-> di, whole |-> r = 0,
              cwd |-> IF d.r < 0 THEN [di |-> root, ino |-> 0, par |-> 0, at |-> "junk"]
                      ELSE HeapDir(root, d)]
  IN /\ Usable(t, path) /\ Cwd(t).at = "heap" /\ path.names # <<>>
     /\ IF Absent(di, "fopen") THEN Crash([op |-> "spawn"])
        ELSE /\ Return([op |-> "spawn", ret |-> r, path |-> path])
             /\ made => Len(task) < MaxTasks
             /\ task' = IF made THEN Append(task, new) ELSE task
             /\ UNCHANGED files

OpenSome == \E t \in Tasks, path \in Paths : ~fault /\ task[t].whole /\ Open(t, path)
CloseSome == \E f \in files : ~fault /\ Close(f)
StatSome == \E t \in Tasks, path \in Paths : ~fault /\ task[t].whole /\ Stat(t, path)
ReadSome == \E f \in files, off \in Offsets, n \in Counts : ~fault /\ Read(f, off, n)
WriteSome == \E f \in files : ~fault /\ Write(f)
ReadDirSome == \E t \in Tasks, path \in Paths : ~fault /\ task[t].whole /\ OpenAndReadDir(t, path)
ChdirSome == \E t \in Tasks, path \in Paths : ~fault /\ task[t].whole /\ Chdir(t, path)
GetcwdSome == \E t \in Tasks, s \in BufferSizes : ~fault /\ task[t].whole /\ Getcwd(t, s)
SpawnSome == \E t \in Tasks, path \in Paths : ~fault /\ task[t].whole /\ Spawn(t, path)

Next ==
  \/ OpenSome \/ CloseSome \/ StatSome \/ ReadSome \/ WriteSome
  \/ ReadDirSome \/ ChdirSome \/ GetcwdSome \/ SpawnSome

Spec == Init /\ [][Next]_vars
-----------------------------------------------------------------------------
(* The same in the words of the interface: what a path means. *)
MeantStep(tree, i, name) ==
  LET hits == {e \in Range(tree[i].ents) : e.ino # 0 /\ e.name = name} IN
  IF i < 0 THEN i
  ELSE IF i \notin DOMAIN tree \/ tree[i].kind # "dir" THEN -ENOTDIR
  ELSE IF hits = {} THEN -ENOENT ELSE (CHOOSE e \in hits : TRUE).ino
Meant(tree, at, names) ==
  LET meant[k \in 0..Len(names)] ==
        IF k = 0 THEN at ELSE MeantStep(tree, meant[k - 1], names[k])
  IN meant[Len(names)]

(* A path the walk is made for: of what it crosses all is there and a      *)
(* directory, none with a removed entry.                                   *)
Plain(tree, at, path) ==
  \A k \in 0..Len(path.names) - 1 :
    LET i == Meant(tree, at, SubSeq(path.names, 1, k)) IN
    /\ i \in DOMAIN tree /\ tree[i].kind = "dir" /\ \A e \in Range(tree[i].ents) : e.ino # 0

(* A path leads where it says: extfs_find_inode_from_name_and_set_name     *)
(* finds just what each name in turn names, from the root or from the      *)
(* task's cwd as the calls before have left it, and an error where there   *)
(* is nothing.                                                             *)
OpenFindsTheFile ==
  \A t \in Tasks, path \in Paths :
    (path.disk = 0 /\ Cwd(t).at = "heap" /\ Cwd(t).di = root)
      => LET tree == TreeOf(root)
             at == IF path.abs THEN RootInode ELSE Cwd(t).ino
         IN Plain(tree, at, path) => FindInode(tree, Cwd(t).ino, path) = Meant(tree, at, path.names)

(* A cwd is a directory of its disk, with its true parent, which getcwd    *)
(* relies on; links in the path, an entry .. of the root and calls that    *)
(* fail do not spoil it.  It is lost only to a block device, which opens   *)
(* as a directory of nothing, and to a getcwd whose text just fills the    *)
(* buffer.                                                                 *)
CwdIsADirectory ==
  \A t \in Tasks :
    LET tree == TreeOf(Cwd(t).di) IN
    Cwd(t).at = "heap" =>
      /\ Cwd(t).ino \in DOMAIN tree /\ tree[Cwd(t).ino].kind = "dir"
      /\ [name |-> "..", ino |-> Cwd(t).par] \in Range(tree[Cwd(t).ino].ents)

CwdIsLostOnlyBy ==
  [][\A t \in Tasks : (Cwd(t).at = "heap" /\ task'[t].cwd.at # "heap") =>
       \/ /\ call'.op = "chdir"
          /\ LET tree == TreeOf(DiskOf(call'.path)) IN
             Node(tree, FindInode(tree, Cwd(t).ino, call'.path)).kind = "blockdev"
       \/ call'.op = "getcwd" /\ GetcwdOf(t, call'.size).off = call'.size]_vars

(* getcwd with room to spare writes nothing behind the buffer, leaves the  *)
(* cwd alone, and its text leads back to the cwd.                          *)
GetcwdLeadsBack ==
  \A t \in Tasks, s \in BufferSizes :
    (Cwd(t).at = "heap" /\ Cwd(t).di = root /\ task[t].dm = root) =>
      LET g == GetcwdOf(t, s) IN
      s > GetcwdOf(t, 1000).off =>
        /\ ~g.over /\ ~g.stale
        /\ Meant(TreeOf(root), RootInode, g.text) = Cwd(t).ino

(* Together: a task's directory is one, and its name leads back to it.    *)
CwdIsWhereItSays == CwdIsADirectory /\ GetcwdLeadsBack

(* A read that lies in the extents of the file gives the file's bytes, in  *)
(* their order, however the extents cut it.                                *)
InExtents(exts, o) == \E e \in Range(exts) : e.f * BlockSize <= o /\ o < (e.f + e.n) * BlockSize
ByteAt(exts, o) ==
  LET e == CHOOSE x \in Range(exts) : x.f * BlockSize <= o /\ o < (x.f + x.n) * BlockSize
  IN e.d * BlockSize + o - e.f * BlockSize

ReadIsRight ==
  (call.op = "read" /\ call.ret >= 0) =>
    LET exts == ParseExtents(call.node.extents) IN
    (\A o \in call.off..call.off + call.n - 1 : InExtents(exts, o)) =>
      call.data = [k \in 1..call.n |-> ByteAt(exts, call.off + k - 1)]

(* The walk over the buses enters each function that shows, once, through  *)
(* bridges behind bridges and behind VMD controllers.                      *)
FunctionsAreFound ==
  (call.op = "boot" /\ Walkable(machine)) =>
    LET walk == PciEnum(machine) IN
    /\ ~walk.fault
    /\ ToSet(walk.found) = Shown(machine)
    /\ Len(walk.found) = Cardinality(Shown(machine))

(* Drives whose partitions each have a uuid of their own. *)
UuidsAreOwn ==
  \A j, k \in DOMAIN machine.drives : machine.drives[j].gpt /\ machine.drives[k].gpt =>
    \A p \in Range(machine.drives[j].parts) : p.used =>
      /\ p.guid \notin {ZeroUuid, machine.drives[k].guid}
      /\ \A q \in Range(machine.drives[k].parts) : q.used /\ q.guid = p.guid => j = k /\ p.lba = q.lba

(* The root is the partition the command line asks for: wherever its drive *)
(* is in the machine, diskman_find_from_uuid finds it, and reads of it go  *)
(* to its own place on its own drive.                                      *)
RootIsFound ==
  (/\ call.op = "boot" /\ Walkable(machine) /\ UuidsAreOwn /\ WellSpaced(machine)
   /\ "uuid_len" \notin machine.junk) =>
    \A f \in Shown(machine) : \A k \in Range(f.spaces) : \A p \in Range(machine.drives[k].parts) :
      (machine.drives[k].gpt /\ p.used /\ p.guid = AskedUuid(CmdLine(machine))) =>
        Known(disks, root) /\ disks[root].ispart /\ Start(disks, root) = [drive |-> k, lba |-> p.lba]
=============================================================================
