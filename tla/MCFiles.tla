------------------------------- MODULE MCFiles -------------------------------
(* Two drives with small file systems: the root with directories two deep, *)
(* a link to one, a removed entry, a device node and files in pieces.      *)
EXTENDS Files

Ent(name, ino) == [name |-> name, ino |-> ino]
Path(disk, abs, names) == [disk |-> disk, abs |-> abs, names |-> names]
Text(abs, names) == [abs |-> abs, names |-> names]

Ext(f, n, d) == [f |-> f, n |-> n, d |-> d]
Leaf(exts) == [magic |-> TRUE, depth |-> 0, ents |-> exts]
Inode(kind, ents, to, extents) == [kind |-> kind, ents |-> ents, to |-> to, extents |-> extents]
NoText == Text(FALSE, <<>>)
MCDir(ents) == Inode("dir", ents, NoText, Leaf(<<>>))
MCFile(extents) == Inode("file", <<>>, NoText, extents)
MCGarbage == Inode("none", <<>>, NoText, Leaf(<<>>))

(* In two pieces the wrong way round on the disk; in a tree with a bad     *)
(* node, and with a hole.                                                  *)
Pieces == Leaf(<<Ext(0, 2, 30), Ext(2, 1, 20)>>)
Deep == [magic |-> TRUE, depth |-> 1,
         ents |-> <<Leaf(<<Ext(0, 1, 40)>>),
                    [magic |-> FALSE, depth |-> 0, ents |-> <<Ext(1, 1, 90)>>],
                    Leaf(<<Ext(1, 1, 50), Ext(3, 1, 60)>>)>>]

RootTree ==
  (2 :> MCDir(<<Ent(".", 2), Ent("..", 2), Ent("a", 11), Ent("f", 12), Ent("link", 13), Ent("dev", 14), Ent("sfinit", 17)>>))
  @@ (11 :> MCDir(<<Ent(".", 11), Ent("..", 2), Ent("bb", 15), Ent("f", 16)>>))
  @@ (12 :> MCFile(Pieces))
  @@ (13 :> Inode("link", <<>>, Text(TRUE, <<"a", "bb">>), Leaf(<<>>)))
  @@ (14 :> Inode("blockdev", <<>>, NoText, Leaf(<<>>)))
  @@ (15 :> MCDir(<<Ent(".", 15), Ent("..", 11), Ent("f", 16), Ent("gone", 0), Ent("a", 12)>>))
  @@ (16 :> MCFile(Deep))
  @@ (17 :> MCFile(Leaf(<<Ext(0, 1, 70)>>)))

OtherTree ==
  (2 :> MCDir(<<Ent(".", 2), Ent("..", 2), Ent("sbin", 11), Ent("a", 12)>>))
  @@ (11 :> MCDir(<<Ent(".", 11), Ent("..", 2), Ent("sfinit", 13)>>))
  @@ (12 :> MCDir(<<Ent(".", 12), Ent("..", 2), Ent("f", 13)>>))
  @@ (13 :> MCFile(Pieces))

Place(drive, lba) == [drive |-> drive, lba |-> lba]
MCTrees == (Place(1, 8) :> RootTree) @@ (Place(1, 20) :> OtherTree) @@ (Place(2, 8) :> RootTree)
             @@ (Place(1, 0) :> OtherTree)

Part(used, guid, lba) == [used |-> used, guid |-> guid, lba |-> lba]
Gpt(parts) == [gpt |-> TRUE, guid |-> <<9, 9>>, parts |-> parts]
Plain1 == [gpt |-> FALSE, guid |-> <<0, 0>>, parts |-> <<>>]

(* The texts of the root's uuid, of the other partition's, and of a table. *)
MCUuidTexts == [u \in {"U", "V", "T"} |-> CASE u = "U" -> <<1, 2>> [] u = "V" -> <<3, 4>> [] u = "T" -> <<9, 9>>]
MCNumberTexts == [n \in {"2", "3"} |-> IF n = "2" THEN 2 ELSE 3]
RootGuid == <<2, 1>>
OtherGuid == <<4, 3>>

Function(dom, bus, dev, func, kind) ==
  [dom |-> dom, bus |-> bus, dev |-> dev, func |-> func, kind |-> kind, multi |-> FALSE, sec |-> 0,
   bits |-> 0, buses |-> 0, id |-> 0, spaces |-> <<>>]
MCNvme(dom, bus, dev, func, spaces) == [Function(dom, bus, dev, func, "nvme") EXCEPT !.spaces = spaces]
Bridge(dom, bus, dev, sec) == [Function(dom, bus, dev, 0, "bridge") EXCEPT !.sec = sec]

(* Drives on the host's bus, behind two bridges and in a VMD's domain; a   *)
(* device of several functions and one that only seems so.                 *)
Topology(end, sec1, sec2, bits, buses) ==
  LET base == CASE bits = 1 -> 128 [] bits = 2 -> 224 [] OTHER -> 0 IN
  [bridges |-> <<[start |-> 0, end |-> end]>>, leftover |-> 7,
   functions |->
     {[Function(0, 0, 2, 0, "other") EXCEPT !.multi = TRUE], MCNvme(0, 0, 2, 7, <<1>>),
      Function(0, 0, 3, 0, "other"), MCNvme(0, 0, 3, 1, <<2>>),
      Bridge(0, 0, 5, sec1), Bridge(0, sec1, 0, sec2), MCNvme(0, sec2, 31, 0, <<2>>),
      [Function(0, 0, 31, 0, "vmd") EXCEPT !.bits = bits, !.buses = buses, !.id = 1],
      Bridge(1, base, 1, base + 1), MCNvme(1, base + 1, 0, 0, <<3>>)}]

Simple == Topology(128, 1, 2, 1, 32)
OneBus == [bridges |-> <<[start |-> 0, end |-> 255]>>, leftover |-> 0,
           functions |-> {MCNvme(0, 0, 3, 0, <<1, 2>>)}]

Line(pieces) == [type |-> "cmdline", line |-> pieces]
MCMachine(topology, tags, res, drives, supers, junk) ==
  [bridges |-> topology.bridges, leftover |-> topology.leftover, functions |-> topology.functions,
   tags |-> tags, res |-> res, drives |-> drives, supers |-> supers, junk |-> junk]

Res(off, sz) == [off |-> off, sz |-> sz]
AskRoot == <<[type |-> "mmap"], Line(<<"ruuid=", "V">>), Line(<<"quiet", " ", "ruuid=", "U">>)>>

OneDrive == <<Gpt(<<Part(FALSE, <<0, 0>>, 0), Part(TRUE, OtherGuid, 20), Part(TRUE, RootGuid, 8)>>), Plain1, Plain1>>
TwoDrives == <<Plain1, Gpt(<<Part(TRUE, RootGuid, 8)>>), Gpt(<<Part(TRUE, OtherGuid, 8)>>)>>

(* Machines that reach their first task. *)
Running ==
  {MCMachine(Simple, AskRoot, Res(99, 1), OneDrive, {Place(1, 8), Place(1, 20)}, {"pointers"}),
   MCMachine(Simple, <<Line(<<"root=", "2">>)>>, Res(0, 0), TwoDrives, {Place(2, 8), Place(1, 0)}, {})}

(* Machines whose root has no file system, to look at the boot alone. *)
Buses3 == {MCMachine(Topology(end, sec1, sec2, bits, buses), AskRoot, Res(0, 0), TwoDrives, {}, {}) :
             end \in {2, 3, 128, 255}, sec1 \in 0..3, sec2 \in {2, 3}, bits \in 0..3, buses \in {1, 32}}
Lines == UNION {[1..n -> {" ", "ruuid=", "U", "V"}] : n \in 0..4}
           \cup {<<"ruuid=", "U", " ", "ruuid=", "V">>, <<"ruuid=", "U", " ", "ruuid=", "quiet">>,
                 <<"root=", "3", " ", "ruuid=", "T">>, <<"quiet", " ", "root=">>}
Asking == {MCMachine(OneBus, <<Line(line)>>, res, OneDrive, {}, {}) :
             line \in Lines, res \in {Res(0, 0), Res(1, 1), Res(99, 5)}}
Others == {MCMachine(Simple, AskRoot, Res(0, 0), OneDrive, {Place(1, 8)}, {"uuid_len"}),
           MCMachine(Simple, <<>>, Res(0, 0), TwoDrives, {}, {})}

MCMachines == Running \cup Buses3 \cup Asking \cup Others

MCPaths ==
  {Path(0, TRUE, <<>>), Path(0, TRUE, <<"a">>), Path(0, FALSE, <<"..">>), Path(0, FALSE, <<"bb">>),
   Path(0, TRUE, <<"a", "bb", "a">>), Path(0, TRUE, <<"a", "..", "a", "f">>), Path(0, FALSE, <<"f">>),
   Path(0, TRUE, <<"link", "f">>), Path(0, TRUE, <<"dev">>), Path(0, FALSE, <<"dev", "a">>),
   Path(5, FALSE, <<>>), Path(5, TRUE, <<"a", "f">>),
   Path(1, TRUE, <<"ps2kb">>), Path(2, TRUE, <<>>), Path(9, TRUE, <<"a">>)}

(* What the properties and the actions look at: of the last call only a    *)
(* read.                                                                   *)
View == <<machine, disks, root, task, files, fault, IF call.op = "read" THEN call ELSE <<>>>>

MCNameLen == [n \in {"", ".", "..", "a", "bb", "f", "link", "dev", "gone", "sbin", "sfinit"} |->
                CASE n = "" -> 0 [] n \in {".", "a", "f"} -> 1 [] n \in {"..", "bb"} -> 2
                  [] n = "dev" -> 3 [] n = "sfinit" -> 6 [] OTHER -> 4]
MCInitial == [n \in DOMAIN MCNameLen |-> IF n = "bb" THEN "b" ELSE n]

(* The trees are such that getcwd works in them. *)
ASSUME TheNamesLeadUp == NoDirectoryIsHidden
==============================================================================
