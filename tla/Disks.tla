-------------------------------- MODULE Disks --------------------------------
(***************************************************************************)
(* The list of disks and partitions (src/src/diskman.c), the partitions of *)
(* a disk with a GUID partition table (src/src/diskman_gpt.c) and the      *)
(* superblocks that make one a file system (extfs_enum).  All is set up    *)
(* once, before there are tasks: only operators.                           *)
(*                                                                         *)
(* A machine describes what the drivers find (and see module Pci for the   *)
(* way to the drives):                                                     *)
(*   drives  for each drive: gpt, whether its second sector says EFI PART; *)
(*           guid, of the table; parts, the table's entries [used (its     *)
(*           type is not 0), guid, lba]                                    *)
(*   supers  where superblocks of extfs are, as [drive, lba]; the drive    *)
(*           itself is at lba 0                                            *)
(*   junk    what the heap had something in where the code sets nothing:   *)
(*           the uuid_len of the device files' entry, or pointers to       *)
(*           functions that a file system lacks                            *)
(* An entry of the list has its inode (its place in the list: both grow    *)
(* together), uuid, fs, for a drive which one, and for a partition its     *)
(* place on a disk.                                                        *)
(***************************************************************************)
EXTENDS Pci

NoUuid == <<>>
Junk == <<"junk">>    \* uuid_len was never set and is not 0
NotFound == -1
Fault == -2           \* the kernel follows a pointer that was never set

NewEnt(uuid) ==
  [uuid |-> uuid, ispart |-> FALSE, fs |-> "null", drive |-> 0, on |-> 0, lba |-> 0]

(* devfs_setup, then nvme_setup: a drive is entered for each name space. *)
Found(machine) ==
  LET drives == Drives(PciEnum(machine).found) IN
  <<[NewEnt(IF "uuid_len" \in machine.junk THEN Junk ELSE NoUuid) EXCEPT !.fs = "dev"]>>
    \o [i \in DOMAIN drives |-> [NewEnt(NoUuid) EXCEPT !.drive = drives[i]]]

NewPart(disk, part) ==
  [NewEnt(part.guid) EXCEPT !.ispart = TRUE, !.on = disk, !.lba = part.lba]

(* diskman_gpt_enum: the disk gets the uuid of its table, the entries in   *)
(* use become partitions at the end of the list.                           *)
EnumPart(disks, i, part) == IF part.used THEN Append(disks, NewPart(i, part)) ELSE disks

GptEnum(disks, i, drive) ==
  LET entered[k \in 0..Len(drive.parts)] ==
        IF k = 0 THEN [disks EXCEPT ![i].uuid = drive.guid]
        ELSE EnumPart(entered[k - 1], i, drive.parts[k])
  IN entered[Len(drive.parts)]

(* The first loop of diskman_setup; it meets the new partitions too and    *)
(* passes over them.                                                       *)
EnumDisk(disks, i, machine) ==
  IF disks[i].drive # 0 /\ machine.drives[disks[i].drive].gpt
  THEN GptEnum(disks, i, machine.drives[disks[i].drive]) ELSE disks

EnumPartitions(disks, machine) ==
  LET passed[i \in 0..Len(disks)] ==
        IF i = 0 THEN disks ELSE EnumDisk(passed[i - 1], i, machine)
  IN passed[Len(disks)]

(* Where a read of an entry's first byte goes: diskman_gpt_read adds the   *)
(* partition's place and passes on to the disk.                            *)
Start(disks, i) ==
  IF disks[i].ispart THEN [drive |-> disks[disks[i].on].drive, lba |-> disks[i].lba]
  ELSE [drive |-> disks[i].drive, lba |-> 0]

(* The second loop: extfs_enum of what has no file system yet. *)
EnumFileSystems(disks, machine) ==
  [i \in DOMAIN disks |->
    IF disks[i].fs = "null" /\ Start(disks, i) \in machine.supers
    THEN [disks[i] EXCEPT !.fs = "extfs"] ELSE disks[i]]

Setup(machine) == EnumFileSystems(EnumPartitions(Found(machine), machine), machine)

(* diskman_find_ent *)
Known(disks, i) == i \in DOMAIN disks

(* diskman_find_from_uuid: the first with that uuid; on the way it looks at *)
(* every uuid whose length is not 0.                                       *)
FindFromUuid(disks, uuid) ==
  LET hits == {i \in DOMAIN disks : disks[i].uuid \in {uuid, Junk}} IN
  IF hits = {} THEN NotFound
  ELSE IF disks[Min(hits)].uuid = Junk THEN Fault
  ELSE Min(hits)
-----------------------------------------------------------------------------
(* What drives contain, and the controllers' name spaces are drives. *)
Uuid == Nat \X Nat
DrivesAreSound(machine) ==
  /\ machine.drives \in
       Seq([gpt : BOOLEAN, guid : Uuid, parts : Seq([used : BOOLEAN, guid : Uuid, lba : Nat])])
  /\ \A f \in machine.functions : Range(f.spaces) \subseteq DOMAIN machine.drives
=============================================================================
