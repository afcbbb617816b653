---------------------------------- MODULE Pci ----------------------------------
(***************************************************************************)
(* The walk over the PCI buses at boot (src/src/pci.c), through the        *)
(* windows of memory that show a range of buses: those the firmware lists  *)
(* in its table MCFG and one for each VMD controller, which has buses of   *)
(* its own behind it.  Done once, before there are tasks: only operators.  *)
(*                                                                         *)
(* Of a machine it needs                                                   *)
(*   bridges    MCFG: for each window its first and last bus, [start, end] *)
(*   functions  what answers: [dom, bus, dev, func, kind, multi, sec,      *)
(*              bits, buses, spaces, id]; dom: 0, or the id of the VMD it  *)
(*              is behind; multi: the header says there may be more than   *)
(*              one function; sec: the bus behind a bridge; bits, buses:   *)
(*              where a VMD numbers its buses from, and how many it shows; *)
(*              spaces: the drives behind an NVMe controller               *)
(*   leftover   what is on the stack where the code sets no bus            *)
(*                                                                         *)
(* The walk's state: found, the list pci_root; windows, the list           *)
(* pci_bridge_root [start, end, dom]; open, its last entry has no next     *)
(* yet; path, the buses being walked; fault, the walk follows a pointer    *)
(* that is 0 or was never set, or does not end.                            *)
(***************************************************************************)
EXTENDS Integers, FiniteSetsExt, SequencesExt

At(machine, dom, bus, dev, func) ==
  {f \in machine.functions : f.dom = dom /\ f.bus = bus /\ f.dev = dev /\ f.func = func}

(* The window's last bus is left out, although a table's end names the     *)
(* last one; for a VMD end is one further.                                 *)
Covers(w, bus) == w.start <= bus /\ bus < w.end

(* pci_find_bridge_from_ent: the first window that covers the bus.  At the *)
(* end of the list it is 0, or behind a VMD's entry what its next was left *)
(* as; no caller asks.                                                     *)
Windows(s, bus) == {k \in DOMAIN s.windows : Covers(s.windows[k], bus)}
DomainOf(s, bus) == s.windows[Min(Windows(s, bus))].dom

Stop(s) == [s EXCEPT !.fault = TRUE]

(* vmd_bus of pci_enum_func *)
VmdBus(machine, f) ==
  CASE f.bits = 0 -> 0 [] f.bits = 1 -> 128 [] f.bits = 2 -> 224 [] OTHER -> machine.leftover

(* walk: the walk of a bus from a state, see PciEnum, which a function may  *)
(* lead back to.                                                           *)

(* The part of pci_enum_func for a VMD: its window goes to the end of the  *)
(* list, its buses are walked, and only then the list ends behind it.      *)
VmdWindow(machine, f) ==
  [start |-> VmdBus(machine, f), end |-> VmdBus(machine, f) + f.buses, dom |-> f.id]

EnumVmd(machine, walk, s, f) ==
  LET shown == [s EXCEPT !.windows = Append(@, VmdWindow(machine, f)), !.open = TRUE] IN
  IF s.open THEN Stop(s) ELSE [walk[shown, VmdBus(machine, f)] EXCEPT !.open = FALSE]

(* pci_enum_func *)
EnumFunc(machine, walk, s, f) ==
  LET entered == [s EXCEPT !.found = Append(@, f)] IN
  IF f.kind = "vmd" THEN EnumVmd(machine, walk, entered, f)
  ELSE IF f.kind = "bridge" THEN walk[entered, f.sec]
  ELSE entered

(* Mutant: the last function of a device is passed over. *)
OtherFunctionsShort == 1..6

OtherFunctions == 1..7

(* pci_enum_dev: function 0 first; the others if it says there may be some. *)
(* Windows that are added in between are at the end of the list, so that a *)
(* bus keeps the domain it had in s.                                       *)
Answers(machine, s, bus, dev, func) == At(machine, DomainOf(s, bus), bus, dev, func)

Visit(machine, walk, s, answers) ==
  IF s.fault \/ answers = {} THEN s ELSE EnumFunc(machine, walk, s, CHOOSE f \in answers : TRUE)

HasMany(answers) == answers # {} /\ (CHOOSE f \in answers : TRUE).multi

EnumDev(machine, walk, s, bus, dev) ==
  LET visited[k \in 0..7] ==
        IF k = 0 THEN Visit(machine, walk, s, Answers(machine, s, bus, dev, 0))
        ELSE IF k \in OtherFunctions
        THEN Visit(machine, walk, visited[k - 1], Answers(machine, s, bus, dev, k))
        ELSE visited[k - 1]
  IN visited[IF HasMany(Answers(machine, s, bus, dev, 0)) THEN 7 ELSE 0]

(* pci_enum_bus; a bus that is being walked already leads to itself again  *)
(* and again.                                                              *)
NextDev(machine, walk, s, bus, dev) == IF s.fault THEN s ELSE EnumDev(machine, walk, s, bus, dev)

EnumDevs(machine, walk, s, bus) ==
  LET visited[k \in 0..32] ==
        IF k = 0 THEN s ELSE NextDev(machine, walk, visited[k - 1], bus, k - 1)
  IN visited[32]

EnumBus(machine, walk, s, bus) ==
  IF Windows(s, bus) = {} \/ bus \in s.path THEN Stop(s)
  ELSE [EnumDevs(machine, walk, [s EXCEPT !.path = @ \cup {bus}], bus) EXCEPT !.path = s.path]

(* pci_enum, over the windows of MCFG.  No bus is walked inside its own    *)
(* walk, so buses lie in each other no deeper than there are functions     *)
(* that lead to them.                                                      *)
Window == [start : Nat, end : Nat, dom : Nat]
States(machine) ==
  [found : Seq(machine.functions), windows : Seq(Window), open : BOOLEAN, path : SUBSET Nat, fault : BOOLEAN]

Deepest(machine) == Cardinality(machine.functions) + 1
NoWalk(machine) == [at \in States(machine) \X Nat |-> Stop(at[1])]

FirstWindow(w) == [start |-> w.start, end |-> w.end, dom |-> 0]
FirstState(machine) ==
  [found |-> <<>>, open |-> FALSE, path |-> {}, fault |-> FALSE,
   windows |-> [k \in DOMAIN machine.bridges |-> FirstWindow(machine.bridges[k])]]

PciEnum(machine) ==
  LET walk[n \in 0..Deepest(machine)] ==
        IF n = 0 THEN NoWalk(machine)
        ELSE [at \in States(machine) \X Nat |-> EnumBus(machine, walk[n - 1], at[1], at[2])]
  IN walk[Deepest(machine)][FirstState(machine), 0]

(* nvme_setup: each NVMe controller in the order of the list, each of its  *)
(* name spaces in the order the controller gives.                          *)
NameSpaces(f) == IF f.kind = "nvme" THEN f.spaces ELSE <<>>
Drives(found) ==
  LET drives[k \in 0..Len(found)] ==
        IF k = 0 THEN <<>> ELSE drives[k - 1] \o NameSpaces(found[k])
  IN drives[Len(found)]
-----------------------------------------------------------------------------
(* What there is to find, as sets: the functions that show on the buses    *)
(* that functions lead to.                                                 *)
Shows(machine, f) ==
  f.func = 0 \/ \E g \in At(machine, f.dom, f.bus, f.dev, 0) : g.multi
ShownOn(machine, b) == {f \in machine.functions : <<f.dom, f.bus>> = b /\ Shows(machine, f)}

LeadsOn(f) == f.kind \in {"bridge", "vmd"}
LeadsTo(machine, f) == IF f.kind = "vmd" THEN <<f.id, VmdBus(machine, f)>> ELSE <<f.dom, f.sec>>

(* The buses: the first one, and where the functions that show lead on. *)
FirstBus == <<0, 0>>
AnyBuses(machine) == {FirstBus} \cup {LeadsTo(machine, f) : f \in {g \in machine.functions : LeadsOn(g)}}
LeadsNowhereElse(machine, buses) ==
  /\ FirstBus \in buses
  /\ \A b \in buses : \A f \in ShownOn(machine, b) : LeadsOn(f) => LeadsTo(machine, f) \in buses
Buses(machine) ==
  {b \in AnyBuses(machine) :
     \A buses \in SUBSET AnyBuses(machine) : LeadsNowhereElse(machine, buses) => b \in buses}

Shown(machine) == UNION {ShownOn(machine, b) : b \in Buses(machine)}
Leading(machine) == {f \in Shown(machine) : LeadsOn(f)}
Vmds(machine) == {f \in Shown(machine) : f.kind = "vmd"}

(* The machines the walk is made for: every bus lies in a window and is    *)
(* not its last, no two buses have the same number, each is reached in one *)
(* way, a VMD's buses are in no window of the firmware and begin at a      *)
(* known number, and no VMD is behind a VMD.                               *)
InFirmware(machine, bus) == \E w \in Range(machine.bridges) : Covers(w, bus)
Around(machine, bus) == {f.id : f \in {g \in Vmds(machine) : Covers(VmdWindow(machine, g), bus)}}

Walkable(machine) ==
  /\ \A b \in Buses(machine) :
       IF b[1] = 0 THEN InFirmware(machine, b[2])
                   ELSE Around(machine, b[2]) = {b[1]} /\ ~InFirmware(machine, b[2])
  /\ \A b, c \in Buses(machine) : b[2] = c[2] => b = c
  /\ \A f, g \in Leading(machine) : LeadsTo(machine, f) = LeadsTo(machine, g) => f = g
  /\ \A f \in Leading(machine) : LeadsTo(machine, f) # FirstBus
  /\ \A f \in Vmds(machine) : f.bits # 3 /\ f.dom = 0

(* What the records of a machine are: at one place there is one function,  *)
(* each VMD has an id of its own, and only NVMe controllers have drives.   *)
PciFunction ==
  [dom : Nat, bus : Nat, dev : 0..31, func : 0..7, kind : STRING, multi : BOOLEAN, sec : Nat,
   bits : Nat, buses : Nat, id : Nat, spaces : Seq(Nat)]

MachineIsSound(machine) ==
  /\ machine.functions \subseteq PciFunction /\ IsFiniteSet(machine.functions)
  /\ machine.bridges \in Seq([start : Nat, end : Nat]) /\ machine.leftover \in Nat
  /\ \A f, g \in machine.functions :
       f.dom = g.dom /\ f.bus = g.bus /\ f.dev = g.dev /\ f.func = g.func => f = g
  /\ \A f, g \in machine.functions : f.kind = "vmd" /\ g.kind = "vmd" /\ f.id = g.id => f = g
  /\ \A f \in machine.functions : (f.kind = "vmd" => f.id # 0) /\ (f.kind # "nvme" => f.spaces = <<>>)
=============================================================================
