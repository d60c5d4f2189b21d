------------------------------ MODULE Discovery -------------------------------
(***************************************************************************)
(* What the firmware's tables say of the machine, src/src/initialize:      *)
(* acpi.cpp, which finds the tables and starts the other processors, and   *)
(* pcie.cpp, which looks for devices on the buses.                         *)
(***************************************************************************)
EXTENDS Integers, Sequences, FiniteSets, SequencesExt

CONSTANTS
  Machines,   \* records [functions, from, to, signatures, ebda, apic, entries, bsp]: what
              \* is at <<bus, device, function>>, a record [header, bridge, secondary];
              \* the buses from .. to - 1 of the MCFG table; the addresses of "RSD PTR "
              \* and of the extended BIOS data; whether there is an APIC table, and its
              \* entries [type, id]; the id of the processor that runs this
  MaxCores,   \* how many ids checkAPICs has room for, 128
  CoreIds,    \* the values of an id, 0 .. 255
  BusRange, DeviceRange, FunctionRange,   \* 0 .. 255, 0 .. 31 and 0 .. 7
  AreaLength,                   \* how far the extended BIOS data is looked through, 0xFFFF
  RomStart, RomLength           \* and where that of the firmware is

BusNumbers == 0 .. BusRange - 1

ASSUME DiscoveryAssumption ==
  /\ BusRange \in Nat \ {0} /\ DeviceRange \in Nat \ {0} /\ FunctionRange \in Nat \ {0}
  /\ AreaLength \in Nat /\ RomStart \in Nat /\ RomLength \in Nat
  /\ \A m \in Machines :
       /\ DOMAIN m.functions
            \subseteq BusNumbers \X (0 .. DeviceRange - 1) \X (0 .. FunctionRange - 1)
       /\ \A f \in DOMAIN m.functions : m.functions[f].secondary \in BusNumbers
       /\ m.from \in BusNumbers /\ m.to \in BusNumbers
       /\ m.apic \in BOOLEAN /\ m.entries \in Seq([type : Nat, id : CoreIds]) /\ m.bsp \in CoreIds
  /\ MaxCores \in Nat \ {0} /\ CoreIds \subseteq Nat

VARIABLES
  machine,
  stage_of,    \* what initialize_acpi does: "scan", "buses", "apics", "init", "startup", "done";
               \* or "overrun" once it has written past its array
  found,       \* the functions found on the buses, in their order
  core_ids,    \* the ids of the processors, and which of them is next
  core,
  processor    \* for each id: "waits", "reset" by an INIT, "runs"

discovery_vars == <<machine, stage_of, found, core_ids, core, processor>>

\* The ids in the entries of the processors.
LocalIds(entries) ==
  LET ids[n \in 0 .. Len(entries)] ==
        IF n = 0 THEN <<>>
        ELSE IF entries[n].type = 0 THEN Append(ids[n - 1], entries[n].id) ELSE ids[n - 1]
  IN  ids[Len(entries)]

Ids == ToSet(LocalIds(machine.entries)) \cup {machine.bsp}

DiscoveryInit ==
  /\ machine \in Machines
  /\ stage_of = "scan"
  /\ found = <<>>
  /\ core_ids = <<>> /\ core = 0
  /\ processor = [id \in Ids |-> IF id = machine.bsp THEN "runs" ELSE "waits"]

\* A step of the processor that runs this, which an INIT to itself ends.
StageGoes(from, to) ==
  /\ stage_of = from /\ stage_of' = to
  /\ processor[machine.bsp] = "runs"
  /\ UNCHANGED machine

-----------------------------------------------------------------------------
\* scan_for_sig looks at every eighth byte of an area and of 16 bytes more.
Scanned(start, length) ==
  LET first == start - (start % 16)
  IN  {a \in machine.signatures : a >= first /\ a < start + length + 16 /\ (a - first) % 8 = 0}

find_acpi == Scanned(machine.ebda, AreaLength) \cup Scanned(RomStart, RomLength) # {}

Scan ==
  /\ StageGoes("scan", IF find_acpi THEN "buses" ELSE "done")
  /\ UNCHANGED <<found, core_ids, core, processor>>

-----------------------------------------------------------------------------
(***************************************************************************)
(* checkBus, which looks at the bus behind a bridge where it finds the     *)
(* bridge, if that has a higher number.                                    *)
(***************************************************************************)
Present(f) == f \in DOMAIN machine.functions
Multi(f) == machine.functions[f].header >= 128

\* A faulty Checked that asks the function itself whether the device has more.
Checked_own(bus, device, function) ==
  /\ Present(<<bus, device, 0>>) /\ Present(<<bus, device, function>>)
  /\ function = 0 \/ Multi(<<bus, device, function>>)

Checked(bus, device, function) ==
  /\ Present(<<bus, device, 0>>) /\ Present(<<bus, device, function>>)
  /\ function = 0 \/ Multi(<<bus, device, 0>>)

\* A bridge of a device with more functions has a header of 129.
Bridge(f) == machine.functions[f].bridge /\ machine.functions[f].header = 1

checkBus ==
  LET check[bus \in BusNumbers] ==
        LET Function(device, function) ==
              LET f == <<bus, device, function>>
              IN  IF ~Checked(bus, device, function) THEN <<>>
                  ELSE <<f>> \o IF Bridge(f) /\ machine.functions[f].secondary > bus
                                THEN check[machine.functions[f].secondary] ELSE <<>>
            Device(device) == FlattenSeq([n \in 1 .. FunctionRange |-> Function(device, n - 1)])
        IN  FlattenSeq([n \in 1 .. DeviceRange |-> Device(n - 1)])
  IN  check

\* checkAllBuses: only the first where the host bridge has one function, which
\* is looked for on bus 0 of the range.  Where nothing answers there its header
\* reads as 255.
ManyHosts == Present(<<0, 0, 0>>) => Multi(<<0, 0, 0>>)

checkAllBuses ==
  LET last == IF ManyHosts \/ machine.to <= machine.from THEN machine.to ELSE machine.from + 1
  IN  FlattenSeq([n \in 1 .. last - machine.from |-> checkBus[machine.from + n - 1]])

CheckBuses ==
  /\ StageGoes("buses", IF machine.apic THEN "apics" ELSE "done")
  /\ found' = checkAllBuses
  /\ UNCHANGED <<core_ids, core, processor>>

-----------------------------------------------------------------------------
(***************************************************************************)
(* checkAPICs and startMultiCores.  The interrupts go to the processor     *)
(* whose id is the number of the entry, not to that in the entry; an INIT  *)
(* resets it, and it runs from the next STARTUP on.                        *)
(***************************************************************************)
\* Without an entry of a processor there is one all the same, whose id is what
\* the array has held before.  An id more than there is room for is written
\* over the stack, and what comes of that is left open.
CheckAPICs ==
  LET ids == LocalIds(machine.entries)
  IN  /\ StageGoes("apics", IF Len(ids) > MaxCores THEN "overrun" ELSE "init")
      /\ core_ids' \in IF Len(ids) > MaxCores THEN {<<>>}
                       ELSE IF ids = <<>> THEN {<<id>> : id \in CoreIds} ELSE {ids}
      /\ core' = 0
      /\ UNCHANGED <<found, processor>>

Sent(id, state) == IF id \in DOMAIN processor THEN [processor EXCEPT ![id] = state] ELSE processor

SendInit ==
  /\ StageGoes("init", "init") /\ core < Len(core_ids)
  /\ core' = core + 1
  /\ processor' = IF core_ids[core + 1] = machine.bsp THEN processor ELSE Sent(core, "reset")
  /\ UNCHANGED <<found, core_ids>>

AllReset ==
  /\ StageGoes("init", "startup") /\ core = Len(core_ids)
  /\ core' = 0
  /\ UNCHANGED <<found, core_ids, processor>>

SendStartup ==
  /\ StageGoes("startup", "startup") /\ core < Len(core_ids)
  /\ core' = core + 1
  /\ processor' = IF core \in DOMAIN processor /\ processor[core] = "reset"
                  THEN Sent(core, "runs") ELSE processor
  /\ UNCHANGED <<found, core_ids>>

Discovered ==
  /\ StageGoes("startup", "done") /\ core = Len(core_ids)
  /\ UNCHANGED <<found, core_ids, core, processor>>

DiscoveryNext ==
  Scan \/ CheckBuses \/ CheckAPICs \/ SendInit \/ AllReset \/ SendStartup \/ Discovered

DiscoverySpec == DiscoveryInit /\ [][DiscoveryNext]_discovery_vars

-----------------------------------------------------------------------------
\* The buses that can be reached: those of the range, and those behind a bridge
\* of one of them.
FirstBuses == {b \in machine.from .. machine.to - 1 : ManyHosts \/ b = machine.from}

Behind(buses) ==
  {machine.functions[f].secondary : f \in
     {g \in DOMAIN machine.functions : g[1] \in buses /\ Bridge(g) /\ Checked(g[1], g[2], g[3])
                                       /\ machine.functions[g].secondary > g[1]}}

Reached ==
  LET closed == {buses \in SUBSET BusNumbers : FirstBuses \subseteq buses /\ Behind(buses) \subseteq buses}
  IN  {b \in BusNumbers : \A buses \in closed : b \in buses}

\* Whether the ids of the processors are the numbers of their entries.
Numbered == core_ids = [i \in 1 .. Len(core_ids) |-> i - 1]

\* Every function on a bus that can be reached is found, and none that is not
\* there, in whatever order bridges and buses are numbered.  Where the table
\* numbers the processors from 0 in their order, the one that runs this is never
\* reset, and all of them run in the end (pcie.cpp:27, acpi.cpp:97).
FindsTheMachine ==
  /\ stage_of = "done" /\ find_acpi =>
       /\ LET reached == Reached
          IN  ToSet(found) = {f \in DOMAIN machine.functions :
                                /\ f[1] \in reached
                                /\ Present(<<f[1], f[2], 0>>)
                                /\ f[3] = 0 \/ Multi(<<f[1], f[2], 0>>)}
       /\ core_ids # <<>> /\ Numbered => \A id \in DOMAIN processor : processor[id] = "runs"
  /\ stage_of # "scan" /\ Numbered => processor[machine.bsp] = "runs"
=============================================================================
