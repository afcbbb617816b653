-------------------------------- MODULE Extfs --------------------------------
(***************************************************************************)
(* Reading the ext4 file system (src/src/extfs.c): the walk along a path,  *)
(* directories, and the contents of a file through its extents.  The disk  *)
(* is never written, so these are operators on a tree:                     *)
(*   tree[i]  the inode i: kind, ents (a directory's entries [name, ino]   *)
(*            in order; ino 0 marks a removed one), to (the path that is   *)
(*            the text of a link or of a file), extents, size              *)
(* A path is [abs, names]: whether it begins with a slash, and the names   *)
(* between single slashes.                                                 *)
(***************************************************************************)
EXTENDS Integers, FiniteSetsExt, SequencesExt

CONSTANTS
  BlockSize,    \* bytes of a block
  Garbage       \* what an inode reads as that is not on the disk

RootInode == 2
ENOENT == 2
ENOTDIR == 20
EISDIR == 21
Loop == -1000   \* no error of the code: a link leads to itself

(* The inode's type as the masks of the code see it: EXTFS_SYMLINK_TYPE is *)
(* two bits, of which a regular file and every device have one;            *)
(* EXTFS_DIR_TYPE is one bit, which a block device has too.                *)
LinkBits(node) == node.kind \in {"link", "file", "chardev", "blockdev"}
DirBit(node) == node.kind \in {"dir", "blockdev"}

Node(tree, i) == IF i \in DOMAIN tree THEN tree[i] ELSE Garbage
-----------------------------------------------------------------------------
(* Contents.  An extent is [f, n, d]: n blocks of the file from block f on *)
(* are the disk's from block d on.  A tree of extents has leaves [magic,   *)
(* depth 0, ents], whose entries are extents, over nodes whose entries are *)
(* nodes of less depth; one without its magic is passed over.  The nodes   *)
(* of each level in turn, down to the leaves.                              *)
NodesBelow(heads) ==
  FlattenSeq([k \in DOMAIN heads |->
    IF heads[k].depth = 0 THEN <<heads[k]>> ELSE SelectSeq(heads[k].ents, LAMBDA h : h.magic)])

ParseExtents(head) ==
  LET level[n \in 0..head.depth] == IF n = 0 THEN <<head>> ELSE NodesBelow(level[n - 1])
      leaves == level[head.depth]
  IN FlattenSeq([k \in DOMAIN leaves |-> leaves[k].ents])

(* Mutant: every extent is read from its start. *)
ExtentOffAtStart(off, start) == 0

(* Where in an extent that starts at byte start of the file a read goes on. *)
ExtentOff(off, start) == IF off > start THEN off - start ELSE 0

(* The loop of extfs_read_inode_contents: the disk's bytes, named by their *)
(* place on the disk, in the order they come into the buffer.  r: the      *)
(* bytes so far, how many are left to read and where the next one is.      *)
ReadExtent(r, e) ==
  LET start == e.f * BlockSize
      size == e.n * BlockSize
      from == ExtentOff(r.off, start)
      n == Min({size - from, r.left})
  IN IF r.left <= 0 \/ r.off >= start + size THEN r
     ELSE [data |-> r.data \o [k \in 1..n |-> e.d * BlockSize + from + k - 1],
           left |-> r.left - n, off |-> r.off + n]

ReadExtents(exts, count, off) ==
  LET read[k \in 0..Len(exts)] ==
        IF k = 0 THEN [data |-> <<>>, left |-> count, off |-> off]
        ELSE ReadExtent(read[k - 1], exts[k])
  IN read[Len(exts)].data

ReadContents(node, count, off) == ReadExtents(ParseExtents(node.extents), count, off)
-----------------------------------------------------------------------------
(* The entries the loops over a directory see: they stop at a removed one. *)
Seen(node) ==
  LET stops == {k \in DOMAIN node.ents : node.ents[k].ino = 0} IN
  SubSeq(node.ents, 1, Min(stops \cup {Len(node.ents) + 1}) - 1)

(* Mutant: what is no directory is one without entries. *)
ReadDirentsOfAny(node) == IF node.kind = "dir" THEN 1 ELSE 0

(* extfs_read_dir_dirents: an error, or what was read, which is nothing of *)
(* a block device.                                                         *)
ReadDirents(node) == IF ~DirBit(node) THEN -ENOTDIR ELSE IF node.kind = "dir" THEN 1 ELSE 0

(* extfs_find_finode_from_dir *)
FindInDir(tree, dir, name) ==
  LET node == Node(tree, dir)
      hits == {k \in DOMAIN Seen(node) : Seen(node)[k].name = name}
  IN IF ReadDirents(node) <= 0 THEN ReadDirents(node)
     ELSE IF hits = {} THEN -ENOENT ELSE Seen(node)[Min(hits)].ino

(* extfs_find_name_from_parent: the name of target in dir, or none *)
NameInDir(tree, dir, target) ==
  LET hits == {k \in DOMAIN Seen(Node(tree, dir)) : Seen(Node(tree, dir))[k].ino = target} IN
  IF ReadDirents(Node(tree, dir)) <= 0 \/ hits = {} THEN ""
  ELSE Seen(Node(tree, dir))[Min(hits)].name
-----------------------------------------------------------------------------
(* Mutant: a relative path begins at the root. *)
FromRoot(path, cwd) == RootInode

(* Where a walk begins. *)
From(path, cwd) == IF path.abs THEN RootInode ELSE cwd

(* One round of the loop of extfs_find_inode_from_name_and_set_name, for   *)
(* the name it has come to.  w: where the walk is; the directory the last  *)
(* name was looked up in; and whether it has ended with an error.  If the  *)
(* inode is no directory but has a bit of a link its text is walked        *)
(* instead, and the name is spent; links says where a text leads.  An      *)
(* error of a lookup is an inode like any other until the path ends.       *)
Ended(error, last) == [ino |-> error, last |-> last, ended |-> TRUE]

WalkStep(tree, links, w, name) ==
  LET node == Node(tree, w.ino)
      next == FindInDir(tree, w.ino, name)
  IN IF w.ended THEN w
     ELSE IF LinkBits(node)
     THEN IF links[node.to] = 0 THEN Ended(-ENOENT, w.last) ELSE [w EXCEPT !.ino = links[node.to]]
     ELSE IF ~DirBit(node) THEN Ended(-ENOTDIR, w.ino)
     ELSE IF next = 0 THEN Ended(-ENOENT, w.ino)
     ELSE [ino |-> next, last |-> w.ino, ended |-> FALSE]

(* The whole loop, from the root or from the task's cwd. *)
WalkNames(tree, cwd, links, path) ==
  LET from == From(path, cwd)
      walk[k \in 0..Len(path.names)] ==
        IF k = 0 THEN [ino |-> from, last |-> from, ended |-> FALSE]
        ELSE WalkStep(tree, links, walk[k - 1], path.names[k])
  IN walk[Len(path.names)]

(* Where texts lead, through at most n links: links may lead round, and    *)
(* the code recurs until its stack is used up.                             *)
Texts == [abs : BOOLEAN, names : Seq(STRING)]
Fuel == 3
NoLinks(cwd) ==
  [text \in Texts |-> IF text.names = <<>> THEN From(text, cwd) ELSE Loop]
Links(tree, cwd) ==
  LET links[n \in 0..Fuel - 1] ==
        IF n = 0 THEN NoLinks(cwd)
        ELSE [text \in Texts |-> WalkNames(tree, cwd, links[n - 1], text).ino]
  IN links[Fuel - 1]

WalkFrom(tree, cwd, path) == WalkNames(tree, cwd, Links(tree, cwd), path)

FindInode(tree, cwd, path) == WalkFrom(tree, cwd, path).ino

(* Mutant: the directory the last name was found in is taken for the parent. *)
ParentIsLast(tree, w) == w.last

(* The parent that is handed back with it: of what has a bit of a link the *)
(* directory it was found in, else what its entry .. says.                 *)
ParentOf(tree, w) ==
  IF LinkBits(Node(tree, w.ino)) THEN w.last ELSE FindInDir(tree, w.ino, "..")

(* extfs_fopendir: r, 0 when it worked; the struct is filled only if some  *)
(* of the directory could be read.                                         *)
Unfilled == [r |-> 0, ino |-> 0, par |-> 0, filled |-> FALSE]

OpenDirAt(tree, w) ==
  LET par == ParentOf(tree, w)
      node == Node(tree, w.ino)
  IN IF w.ino <= 0 THEN [Unfilled EXCEPT !.r = w.ino]
     ELSE IF par < 0 THEN [Unfilled EXCEPT !.r = -ENOENT]
     ELSE IF ReadDirents(node) <= 0 THEN [Unfilled EXCEPT !.r = ReadDirents(node)]
     ELSE [r |-> 0, ino |-> w.ino, par |-> par, filled |-> TRUE]

OpenDir(tree, cwd, path) == OpenDirAt(tree, WalkFrom(tree, cwd, path))

(* extfs_freaddir, of the open directory i *)
DirNames(tree, i) == [k \in DOMAIN Seen(Node(tree, i)) |-> Seen(Node(tree, i))[k].name]
-----------------------------------------------------------------------------
(* A file system as its format wants it: entries and texts are what they   *)
(* are, no directory has a name twice, and the extents of a file come in   *)
(* the order of its blocks, each block in one.                             *)
Entry == [name : STRING, ino : Nat]
Extent == [f : Nat, n : Nat, d : Nat]

ExtentsAreSorted(exts) ==
  /\ exts \in Seq(Extent)
  /\ \A i, j \in DOMAIN exts : i < j => exts[i].f + exts[i].n <= exts[j].f

NodeIsSound(node) ==
  /\ node.ents \in Seq(Entry) /\ node.to \in Texts
  /\ \A j, k \in DOMAIN node.ents :
       (node.ents[j].ino # 0 /\ node.ents[k].ino # 0 /\ node.ents[j].name = node.ents[k].name) => j = k
  /\ ExtentsAreSorted(ParseExtents(node.extents))

TreeIsSound(tree) ==
  /\ DOMAIN tree \subseteq Nat \ {0}
  /\ \A i \in DOMAIN tree : NodeIsSound(tree[i])

(* Where getcwd works: the directories hang together under the root, no    *)
(* deeper than deepest, and none is hidden from its parent by a removed    *)
(* entry before it.                                                        *)
Directories(tree) == {i \in DOMAIN tree : tree[i].kind = "dir"}
IsSeen(tree, dir, i) == \E k \in DOMAIN Seen(tree[dir]) : Seen(tree[dir])[k].ino = i

LeadsUp(tree, depth, i) ==
  LET up == FindInDir(tree, i, "..") IN
  /\ up \in Directories(tree)
  /\ i # RootInode => depth[up] < depth[i] /\ IsSeen(tree, up, i)

DirectoriesLeadUp(tree, deepest) ==
  \E depth \in [Directories(tree) -> 0..deepest] : \A i \in Directories(tree) : LeadsUp(tree, depth, i)
=============================================================================
