----------------------------- MODULE MemoryMap -----------------------------
(***************************************************************************)
(* The address map of vp/main.cpp: the options place the RAM and size the  *)
(* MRAM, two assertions accept or refuse them, and the bus routes an       *)
(* access to the first of its ports whose range holds the address.  With   *)
(* use_data_dmi a hart reaches the RAM past the bus.                       *)
(*                                                                         *)
(* Addresses count KiB, and addr_t has 32 bits: sums wrap at Space.  A     *)
(* range that ends within a KiB takes all of it.                           *)
(***************************************************************************)
EXTENDS Integers, Sequences

CONSTANTS RamStarts, RamSizes, MramSizes,   \* options explored
          DisplaySize                       \* sizeof(Framebuffer)

MiB == 1024
Space == 4096 * MiB

ASSUME MapAssumption ==
  /\ RamStarts \subseteq 0 .. Space - 1
  /\ RamSizes \subseteq 1 .. Space - 1 /\ MramSizes \subseteq 1 .. Space - 1
  /\ DisplaySize \in 0 .. 16 * MiB - 1

VARIABLES ramStart, ramSize, mramSize,   \* the options
          dmi,                           \* and use_data_dmi
          phase,                         \* "parse", "run" or "refused"
          address, port                  \* the last access and where it went

mapVars == <<ramStart, ramSize, mramSize, dmi, phase, address, port>>

MapInit ==
  /\ ramStart \in RamStarts /\ ramSize \in RamSizes /\ mramSize \in MramSizes
  /\ dmi \in BOOLEAN
  /\ phase = "parse" /\ address = 0 /\ port = "none"

ClintStart == 32 * MiB
MramStart == 1536 * MiB
DmaStart == 1792 * MiB
DisplayEnd == 1824 * MiB + DisplaySize
RamEnd == (ramStart + ramSize - 1) % Space
MramEnd == (MramStart + mramSize - 1) % Space

\* Mutant of OptionsAccepted: RAM must only start outside the devices.
OptionsAcceptedByStart ==
  /\ ramStart < ClintStart \/ ramStart > DisplayEnd
  /\ MramEnd < DmaStart

\* "RAM too big, would overlap memory" and "MRAM too big, ...".
OptionsAccepted ==
  /\ RamEnd < ClintStart \/ ramStart > DisplayEnd
  /\ MramEnd < DmaStart

Parse ==
  /\ phase = "parse"
  /\ phase' = IF OptionsAccepted THEN "run" ELSE "refused"
  /\ UNCHANGED <<ramStart, ramSize, mramSize, dmi, address, port>>

-----------------------------------------------------------------------------
(* The bus                                                                 *)

Port(name, first, last) == [name |-> name, first |-> first, last |-> last]

DevicePorts ==
  << Port("clint", ClintStart, ClintStart + 63),
     Port("plic", 1024 * MiB, 1040 * MiB),
     Port("term", 512 * MiB, 512 * MiB),
     Port("uart", 512 * MiB + 64, 512 * MiB + 67),
     Port("sensor", 1280 * MiB, 1280 * MiB + 4),
     Port("dma", DmaStart, DmaStart + 4),
     Port("sensor2", 1280 * MiB + 8, 1280 * MiB + 16),
     Port("mram", MramStart, MramEnd),
     Port("flash", 1808 * MiB, 1808 * MiB),
     Port("ethernet", 768 * MiB, 768 * MiB + 1),
     Port("display", 1824 * MiB, DisplayEnd),
     Port("sys", ClintStart + 64, ClintStart + 64),
     Port("lenet0", 1840 * MiB, 1856 * MiB - 1),
     Port("lenet1", 1856 * MiB, 1872 * MiB - 1),
     Port("lenet2", 1872 * MiB, 1888 * MiB - 1),
     Port("lenet3", 1888 * MiB, 1904 * MiB - 1) >>

Ports == <<Port("ram", ramStart, RamEnd)>> \o DevicePorts

Holds(p, a) == p.first <= a /\ a <= p.last

\* SimpleBus: the first port that fits; none is an error of the simulation.
BusRoute(a) ==
  LET fits == {k \in DOMAIN Ports : Holds(Ports[k], a)}
  IN  IF fits = {} THEN "none"
      ELSE Ports[CHOOSE k \in fits : \A j \in fits : k <= j].name

Masters == {"hart", "dma"}

\* The range of MemoryDMI is a start and a size: it does not wrap.
Route(m, a) ==
  IF m = "hart" /\ dmi /\ a \in ramStart .. ramStart + ramSize - 1
  THEN "ram" ELSE BusRoute(a)

\* Software accesses the first or the last KiB of any range.
Access ==
  /\ phase = "run"
  /\ \E k \in DOMAIN Ports : address' \in {Ports[k].first, Ports[k].last}
  /\ \E m \in Masters : port' = Route(m, address')
  /\ UNCHANGED <<ramStart, ramSize, mramSize, dmi, phase>>

MapNext == Parse \/ Access

MapSpec == MapInit /\ [][MapNext]_mapVars

-----------------------------------------------------------------------------
(* Properties                                                              *)

Accelerators == {"lenet0", "lenet1", "lenet2", "lenet3"}

\* Whatever options the assertions accept, no access meant for a device goes
\* to the MRAM or to another device, and it goes to the RAM in two cases only,
\* which both need RAM that reaches further than the assertion looks: an
\* accelerator's, when the RAM begins after the display, and a hart's past the
\* bus, when the RAM wraps around the address space (vp/main.cpp:117-126).
DevicesReachable ==
  phase = "run" =>
    \A k \in DOMAIN DevicePorts :
      Holds(DevicePorts[k], address) =>
        \/ port = DevicePorts[k].name
        \/ /\ port = "ram"
           /\ \/ ramStart > DisplayEnd /\ DevicePorts[k].name \in Accelerators
              \/ dmi /\ ramStart + ramSize > Space
=============================================================================
