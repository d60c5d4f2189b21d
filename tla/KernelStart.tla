----------------------------- MODULE KernelStart ------------------------------
(***************************************************************************)
(* The kernel on bare metal, from its first instruction to the scheduler:  *)
(* src/bootloader/i386/src/start.S and interrupts.S, then                  *)
(* src/src/arch/x86/entry.cpp and src/src/demo/main.cpp.                   *)
(***************************************************************************)
EXTENDS BootSectors, SequencesExt

CONSTANTS
  MaxMap,       \* how many ranges the memory map has room for, 64
  Ranges,       \* how many ranges the firmware may know of
  ModeLists,    \* the screen modes that firmwares list: records
                \* [width, height, bpp, linear, answers]
  MaxModes,     \* how many of them are looked at, 32
  Wanted,       \* the mode asked for, a record [width, height, bpp]
  Built         \* the drivers built in, in the order of their registration:
                \* records [class, name]

\* The classes of the drivers, in the order they are required.
module_class ==
  {"CPU_STATE", "MEMORY_MODEL", "SERIAL_DRIVER", "INTERRUPT_CONTROLLER", "TIMER_DRIVER",
   "SCHEDULER_MODULE", "KEYBOARD_DRIVER", "TEXT_DISPLAY", "GRAPHICS_DISPLAY", "DISK_DRIVER",
   "RANDOM_DEVICE", "IO_CONTROLLER", "DMA_CONTROLLER", "NETWORK_INTERFACE", "NETWORK_PROTOCOL",
   "VOLUME_MANAGER", "FILE_SYSTEM"}

ASSUME KernelStartAssumption ==
  /\ MaxMap \in Nat /\ MaxModes \in Nat /\ Ranges \subseteq Nat \ {0}
  /\ ModeLists \subseteq Seq([width : Nat, height : Nat, bpp : Nat,
                              linear : BOOLEAN, answers : BOOLEAN])
  /\ Wanted \in [width : Nat, height : Nat, bpp : Nat]
  /\ Built \in Seq([class : module_class, name : STRING])

VARIABLES
  a20,               \* whether addresses from 1 MB on are usable
  protected,         \* 32-bit protected mode
  interrupts_on,     \* the processor's interrupt flag
  idt, idt_code,     \* the interrupt table: where its entries lead, and what is there
  vectors,           \* where the interrupt controllers' lines start, <<first, second>>
  unmasked,          \* their lines that are let through
  memorymap_count,
  settings,          \* quiet, graphics, load_modules, no_args
  modules,           \* the drivers of each class, the first first
  opened,            \* the serial ports that were initialized
  modes, fbMode      \* the screen modes of the firmware, and the one found

start_vars == <<a20, protected, interrupts_on, idt, idt_code, vectors, unmasked, memorymap_count,
                settings, modules, opened, modes, fbMode>>
kernel_vars == <<sector_vars, start_vars>>

Irqs == 0 .. 15
Settings == [quiet |-> 0, graphics |-> 1, load_modules |-> 1, no_args |-> 0]

KernelInit ==
  /\ SectorsInit
  /\ a20 \in BOOLEAN
  /\ protected = FALSE
  /\ interrupts_on = FALSE
  /\ idt = <<>> /\ idt_code = <<>>
  /\ vectors = <<8, 112>>
  /\ unmasked = {0, 1}
  /\ memorymap_count = 0
  /\ settings = Settings
  /\ modules = <<>>
  /\ opened = <<>>
  /\ modes \in ModeLists
  /\ fbMode = 0

\* The kernel goes from one part of its start to the next.
Goes(from, to) ==
  /\ at = from
  /\ at' = to
  /\ UNCHANGED <<si, disk_vars, menu_vars>>

(***************************************************************************)
(* call_real_mode asks the firmware: it leaves interrupts off, and, though *)
(* it says it masks them, every line let through.                          *)
(***************************************************************************)
AskFirmware ==
  /\ interrupts_on' = FALSE
  /\ unmasked' = Irqs

-----------------------------------------------------------------------------
\* enable_32 and the entry in protected mode.
EnterProtectedMode ==
  /\ Goes("enter_16", "start_32")
  /\ protected' = TRUE
  /\ UNCHANGED <<a20, interrupts_on, idt, idt_code, vectors, unmasked, memorymap_count,
                 settings, modules, opened, modes, fbMode>>

\* initialize_memorymap: with the answer that says it is the last, the loop
\* ends before it is counted.
InitializeMemoryMap ==
  /\ Goes("start_32", "a20_check")
  /\ \E ranges \in Ranges :
       memorymap_count' = IF ranges > MaxMap THEN MaxMap ELSE ranges - 1
  /\ AskFirmware
  /\ UNCHANGED <<a20, protected, idt, idt_code, vectors, settings, modules, opened, modes, fbMode>>

\* a20_check waits for ever where the upper addresses are not usable.
A20Check ==
  /\ a20
  /\ Goes("a20_check", "setup_interrupts")
  /\ UNCHANGED start_vars

-----------------------------------------------------------------------------
(***************************************************************************)
(* load_idt: for each vector it writes a stub of five bytes that pushes    *)
(* the vector's number and jumps, with a displacement of one byte, to the  *)
(* end of its group: that of the first is a jump to generic_isr, that of   *)
(* the second is generic_isr.                                              *)
(***************************************************************************)
idt_count_1 == 23
idt_count_2 == 25
StubBytes == 5
JumpBytes == 2
double_jump == StubBytes*idt_count_1
generic_isr == double_jump + JumpBytes + StubBytes*idt_count_2

SignedByte(n) == ((n + 128) % 256) - 128

\* A faulty displacement, counted from the start of the stub.
StubTarget_start(eax, ecx) == eax + SignedByte(StubBytes*ecx - StubBytes)

StubTarget(eax, ecx) == eax + StubBytes + SignedByte(StubBytes*ecx - StubBytes)

\* interrupt_descriptor_table_entry_load_loop, from address eax on.
LoadLoop(table, eax, count) ==
  LET number == Len(table.entries)
      address == [i \in 1 .. count |-> eax + StubBytes*(i - 1)]
      Stub(a) == LET i == (a - eax) \div StubBytes
                 IN  [push |-> SignedByte(number + i), jump |-> StubTarget(a, count - i)]
  IN  [entries |-> table.entries \o address,
       code |-> [a \in DOMAIN table.code \cup {address[i] : i \in 1 .. count} |->
                   IF a \in DOMAIN table.code THEN table.code[a] ELSE Stub(a)]]

load_idt ==
  LET empty == [entries |-> <<>>, code |-> [a \in {double_jump} |-> [push |-> -1, jump |-> generic_isr]]]
  IN  LoadLoop(LoadLoop(empty, 0, idt_count_1), double_jump + JumpBytes, idt_count_2)

SetupInterrupts ==
  /\ Goes("setup_interrupts", "initialize_parameters")
  /\ idt' = load_idt.entries
  /\ idt_code' = load_idt.code
  /\ vectors' = <<32, 40>>
  /\ unmasked' = 0 .. 7 \cup {12}
  /\ UNCHANGED <<a20, protected, interrupts_on, memorymap_count, settings, modules, opened, modes,
                 fbMode>>

-----------------------------------------------------------------------------
(***************************************************************************)
(* __main: the arguments of the boot entry, each of which sets what the    *)
(* first description it is the start of names.                             *)
(***************************************************************************)
EntryArgs == << <<" ">>, <<"no_vga">>, <<"quiet", "no_vga">>, <<"no_modules">> >>

arg_descs == <<
  [param |-> "modules",    sets |-> "load_modules", val |-> 1],
  [param |-> "no_modules", sets |-> "load_modules", val |-> 0],
  [param |-> "vga",        sets |-> "graphics",     val |-> 1],
  [param |-> "no_vga",     sets |-> "graphics",     val |-> 0],
  [param |-> "quiet",      sets |-> "quiet",        val |-> 1],
  [param |-> " ",          sets |-> "no_args",      val |-> 1] >>

parse_arg_span(set, arg) ==
  LET desc == CHOOSE d \in ToSet(arg_descs) : d.param = arg
  IN  [set EXCEPT ![desc.sets] = desc.val]

InitializeParameters ==
  /\ Goes("initialize_parameters", "initialize_modules")
  /\ settings' = FoldLeft(parse_arg_span, settings, EntryArgs[si + 1])
  /\ UNCHANGED <<a20, protected, interrupts_on, idt, idt_code, vectors, unmasked, memorymap_count,
                 modules, opened, modes, fbMode>>

\* module_register puts a driver before those of its class.  The modules are
\* initialized whatever load_modules says.
module_register(registered, driver) ==
  [registered EXCEPT ![driver.class] = <<driver.name>> \o @]

Registered ==
  LET registered[n \in 0 .. Len(Built)] ==
        IF n = 0 THEN [c \in module_class |-> <<>>] ELSE module_register(registered[n - 1], Built[n])
  IN  registered[Len(Built)]

InitializeModules ==
  /\ Goes("initialize_modules", "initialize_serial_ports")
  /\ modules' = Registered
  /\ UNCHANGED <<a20, protected, interrupts_on, idt, idt_code, vectors, unmasked, memorymap_count,
                 settings, opened, modes, fbMode>>

InitializeSerialPorts ==
  /\ Goes("initialize_serial_ports", "initialize_vesa")
  /\ opened' = modules["SERIAL_DRIVER"]
  /\ UNCHANGED <<a20, protected, interrupts_on, idt, idt_code, vectors, unmasked, memorymap_count,
                 settings, modules, modes, fbMode>>

-----------------------------------------------------------------------------
\* The screen mode.
supportedDepth(bpp) == bpp \in {8, 15, 16, 24, 32}

Square(n) == n*n
Delta(mode) ==
  Square(mode.width - Wanted.width) + Square(mode.height - Wanted.height)
    + Square(mode.bpp - Wanted.bpp)

Usable(mode) ==
  /\ mode.answers /\ mode.linear /\ supportedDepth(mode.bpp)
  /\ mode.width > 320 /\ mode.height > 240

\* The deltas fit an int, whose greatest value findMode starts from.
MaxInt == 2147483647
ASSUME DeltaAssumption ==
  \A list \in ModeLists : \A i \in DOMAIN list : Delta(list[i]) < MaxInt

\* Whether a mode is to be taken in place of the best one before it.
IsBetter_last(list, i, best) == Usable(list[i])

IsBetter(list, i, best) ==
  Usable(list[i]) /\ (best = 0 \/ Delta(list[i]) < Delta(list[best]))

\* How many of the modes there is room for in modeTab.
ModesRead(list) == IF Len(list) > MaxModes THEN MaxModes ELSE Len(list)

(***************************************************************************)
(* findMode: of the first modes, those with a frame buffer, at a depth     *)
(* that is known and larger than 320 x 240, one with the least delta; 0 if *)
(* there is none.                                                          *)
(***************************************************************************)
findMode(list) ==
  LET best[i \in 0 .. ModesRead(list)] ==
        IF i = 0 THEN 0 ELSE IF IsBetter(list, i, best[i - 1]) THEN i ELSE best[i - 1]
  IN  best[ModesRead(list)]

InitializeVesa ==
  /\ Goes("initialize_vesa", "start_timer")
  /\ fbMode' = findMode(modes)
  /\ AskFirmware
  /\ UNCHANGED <<a20, protected, idt, idt_code, vectors, memorymap_count, settings, modules, opened,
                 modes>>

\* The first start_timer lets the interrupts in, for the key that show_info
\* waits for.
StartTimer ==
  /\ Goes("start_timer", "initialize_screen")
  /\ interrupts_on' = TRUE
  /\ UNCHANGED <<a20, protected, idt, idt_code, vectors, unmasked, memorymap_count, settings,
                 modules, opened, modes, fbMode>>

\* initialize_screen asks the firmware again, which turns the interrupts off.
InitializeScreen ==
  /\ Goes("initialize_screen", "initialize_tasks")
  /\ IF settings.graphics = 1 /\ fbMode # 0 THEN AskFirmware
     ELSE UNCHANGED <<interrupts_on, unmasked>>
  /\ UNCHANGED <<a20, protected, idt, idt_code, vectors, memorymap_count, settings, modules, opened,
                 modes, fbMode>>

\* The tasks are added, and the second start_timer lets the interrupts in.
RunScheduler ==
  /\ Goes("initialize_tasks", "run_on_line_scheduler")
  /\ interrupts_on' = TRUE
  /\ UNCHANGED <<a20, protected, idt, idt_code, vectors, unmasked, memorymap_count, settings,
                 modules, opened, modes, fbMode>>

KernelNext ==
  \/ SectorsNext /\ UNCHANGED start_vars
  \/ EnterProtectedMode \/ InitializeMemoryMap \/ A20Check \/ SetupInterrupts
  \/ InitializeParameters \/ InitializeModules \/ InitializeSerialPorts
  \/ InitializeVesa \/ StartTimer \/ InitializeScreen \/ RunScheduler

KernelSpec == KernelInit /\ [][KernelNext]_kernel_vars

-----------------------------------------------------------------------------
\* What interrupt_handler is called with where the processor follows the jumps
\* from an address.
Handled(address) ==
  LET stub == idt_code[address]
  IN  IF \/ stub.jump = generic_isr
         \/ stub.jump = double_jump /\ idt_code[double_jump].jump = generic_isr
      THEN stub.push ELSE -1

Vector(irq) == IF irq < 8 THEN vectors[1] + irq ELSE vectors[2] + irq - 8

InterruptsReachHandler ==
  interrupts_on =>
    /\ protected
    /\ \A v \in 0 .. 31 \cup {Vector(irq) : irq \in unmasked} :
         v + 1 \in DOMAIN idt /\ Handled(idt[v + 1]) = v

\* The serial ports among the drivers registered from one to another.
SerialDrivers(from, to) == {i \in from .. to : Built[i].class = "SERIAL_DRIVER"}

\* Whenever interrupts are let in, every line that is let through, and every
\* exception, reaches the handler under its own number, though the stubs were
\* put together byte by byte and the firmware was asked in between
\* (interrupts.S:53, :109, driver.cpp:302).  And the kernel that runs the
\* scheduler has interrupts, every serial port open, the last registered
\* first, and, of those of the first modes listed that it can draw in, one as
\* close to the wanted as any (main.cpp:336, entry.cpp:330).
ReadyToSchedule ==
  /\ InterruptsReachHandler
  /\ at = "run_on_line_scheduler" =>
       /\ interrupts_on /\ 0 \in unmasked
       /\ Len(opened) = Cardinality(SerialDrivers(1, Len(Built)))
       /\ \A i \in SerialDrivers(1, Len(Built)) :
            opened[Cardinality(SerialDrivers(i, Len(Built)))] = Built[i].name
       /\ \A i \in DOMAIN modes : i <= MaxModes /\ Usable(modes[i]) =>
            fbMode # 0 /\ Delta(modes[fbMode]) <= Delta(modes[i])
       /\ fbMode # 0 => Usable(modes[fbMode])
=============================================================================
