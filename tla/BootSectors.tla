----------------------------- MODULE BootSectors ------------------------------
(***************************************************************************)
(* The two boot sectors of src/bootloader/i386/boot_sectors: the one of    *)
(* the disk, master_boot_record.S, which starts that of the active         *)
(* partition, volume_boot_record.S, which starts the kernel behind it.     *)
(***************************************************************************)
EXTENDS Integers, Sequences, FiniteSets

CONSTANTS
  Tables,         \* partition tables: four records [active, start]
  WordRange,      \* a word holds 0 .. WordRange - 1
  ChunkSectors,   \* how many sectors one read asks for, 64
  kernel_size,    \* sectors of the kernel in the parameters of entry 0, 1024
  bootload_delay_ms,   \* how many times the menu is waited for, 800
  MaxPresses      \* bound: the keys typed in the menu

ASSUME BootAssumption ==
  /\ Tables \subseteq [1 .. 4 -> [active : BOOLEAN, start : Nat]]
  /\ WordRange \in Nat \ {0}
  /\ ChunkSectors \in Nat \ {0} /\ kernel_size \in Nat
  /\ bootload_delay_ms \in Nat /\ MaxPresses \in Nat

VARIABLES
  at,           \* what the processor executes
  firmware,     \* the partition table, whether the firmware reads by sector numbers,
                \* and where on the disk signatures are
  si,           \* what one stage passes to the next: a partition, then a boot entry
  low, high,    \* the halves of the sector number to read from
  remaining,    \* the sectors of the kernel left to read
  memory,       \* the sectors in memory from 0x7E00 on
  cx,           \* counts the delay
  dl,           \* what up and down change
  boot_entry,
  typed_keys, downs   \* history: how many keys, how far down of the first entry

disk_vars == <<firmware, low, high, remaining, memory>>
menu_vars == <<cx, dl, boot_entry, typed_keys, downs>>
sector_vars == <<at, si, disk_vars, menu_vars>>

\* One partition table, the sectors that are volume boot records, those that
\* kernels start with.
SectorsInit ==
  /\ at = "mbr"
  /\ \E table \in Tables, extensions \in BOOLEAN :
       LET starts == {table[i].start : i \in 1 .. 4}
       IN  \E vbrs \in SUBSET starts, kernels \in SUBSET {s + 1 : s \in starts} :
             firmware = [table |-> table, extensions |-> extensions, vbrs |-> vbrs,
                         kernels |-> kernels]
  /\ si = 0
  /\ low = 2 /\ high = 0
  /\ remaining = kernel_size
  /\ memory = <<>>
  /\ cx = 0 /\ dl = 0 /\ boot_entry = 0
  /\ typed_keys = 0 /\ downs = 0

Fails == at' = "halted"

-----------------------------------------------------------------------------
(***************************************************************************)
(* The boot sector of the disk.  A read may fail.                          *)
(***************************************************************************)
ActivePartitions == {i \in 1 .. 4 : firmware.table[i].active}
FirstActive == CHOOSE i \in ActivePartitions : \A j \in ActivePartitions : i <= j

LoadVolumeBootRecord ==
  /\ at = "mbr"
  /\ UNCHANGED <<disk_vars, menu_vars>>
  /\ \/ /\ ActivePartitions # {} /\ firmware.extensions
        /\ firmware.table[FirstActive].start \in firmware.vbrs
        /\ at' = "vbr"
        /\ si' = FirstActive
     \/ Fails /\ UNCHANGED si

-----------------------------------------------------------------------------
(***************************************************************************)
(* The boot sector of the partition: the number of the sector behind it is *)
(* put together of the words of the partition table, the second of them in *)
(* the upper half.                                                         *)
(***************************************************************************)
FirstSector(start) ==
  [low |-> ((start % WordRange) + 1) % WordRange, high |-> start \div WordRange]

EnterVolumeBootRecord ==
  /\ at = "vbr"
  /\ at' = "delay"
  /\ LET first == FirstSector(firmware.table[si].start)
     IN  low' = first.low /\ high' = first.high
  /\ cx' = bootload_delay_ms
  /\ UNCHANGED <<firmware, si, remaining, memory, dl, boot_entry, typed_keys, downs>>

\* A delay of 0 is one of WordRange milliseconds.
Wait ==
  /\ at = "delay"
  /\ cx' = (cx - 1) % WordRange
  /\ at' = IF cx' = 0 THEN "read" ELSE "delay"
  /\ UNCHANGED <<si, disk_vars, dl, boot_entry, typed_keys, downs>>

\* A key was pressed, which the menu is the first to read.
EnterMenu ==
  /\ at = "delay" /\ typed_keys < MaxPresses
  /\ at' = "menu"
  /\ dl' = boot_entry
  /\ UNCHANGED <<si, disk_vars, cx, boot_entry, typed_keys, downs>>

MenuKey(step) ==
  /\ at = "menu" /\ typed_keys < MaxPresses
  /\ typed_keys' = typed_keys + 1
  /\ downs' = downs + step
  /\ dl' = (dl + step) % 256
  /\ boot_entry' = dl' % 4
  /\ UNCHANGED <<at, si, disk_vars, cx>>

Enter ==
  /\ at = "menu"
  /\ at' = "read"
  /\ UNCHANGED <<si, disk_vars, menu_vars>>

\* A faulty loop that reads the same sectors over again.
ReadChunk_again ==
  /\ at = "read"
  /\ UNCHANGED <<firmware, si, low, high, menu_vars>>
  /\ \/ /\ memory' = memory \o [i \in 1 .. ChunkSectors |-> low + i - 1]
        /\ remaining' = remaining - ChunkSectors
        /\ at' = IF remaining' > ChunkSectors THEN "read" ELSE "verify"
     \/ Fails /\ UNCHANGED <<memory, remaining>>

(***************************************************************************)
(* read_again: the comparison leaves the loop with the last sectors, up to *)
(* ChunkSectors of them, unread.                                           *)
(***************************************************************************)
ReadChunk ==
  /\ at = "read"
  /\ UNCHANGED <<firmware, si, high, menu_vars>>
  /\ \/ /\ memory' = memory \o [i \in 1 .. ChunkSectors |->
                                  low + i - 1 + high*WordRange*WordRange]
        /\ low' = (low + ChunkSectors) % (WordRange*WordRange)
        /\ remaining' = remaining - ChunkSectors
        /\ at' = IF remaining' > ChunkSectors THEN "read" ELSE "verify"
     \/ Fails /\ UNCHANGED <<memory, low, remaining>>

\* The signature at the end of the first sector, and the jump to the kernel
\* with the parameters of the boot entry.
StartKernel ==
  /\ at = "verify"
  /\ IF memory[1] \in firmware.kernels THEN at' = "enter_16" /\ si' = boot_entry
     ELSE Fails /\ UNCHANGED si
  /\ UNCHANGED <<disk_vars, menu_vars>>

SectorsNext ==
  \/ LoadVolumeBootRecord \/ EnterVolumeBootRecord
  \/ Wait \/ EnterMenu \/ Enter
  \/ \E step \in {-1, 0, 1} : MenuKey(step)
  \/ ReadChunk \/ StartKernel

Booting == at \in {"mbr", "vbr", "delay", "menu", "read", "verify"}

-----------------------------------------------------------------------------
\* The kernel is entered only with the sectors behind the active partition's
\* first in memory, in their order and all but the last chunk of them, where
\* the number after the first one's fits a word; and with the parameters of the entry
\* that the keys led to, which stay those of the first entry when no key was
\* pressed (volume_boot_record.S:213, :256).
KernelAsChosen ==
  ~Booting /\ at # "halted" =>
    LET start == firmware.table[FirstActive].start
    IN  /\ start + 1 < WordRange =>
             \A k \in DOMAIN memory : memory[k] = start + k
        /\ Len(memory) >= kernel_size - ChunkSectors
        /\ memory[1] \in firmware.kernels
        /\ si = downs % 4
=============================================================================
