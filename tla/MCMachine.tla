----------------------------- MODULE MCMachine ------------------------------
(***************************************************************************)
(* The bare metal machine and the locks of resources.h, for TLC: each      *)
(* behaviour is one of one part, with the others at rest.                  *)
(***************************************************************************)
EXTENDS Interrupts, MouseStart, TicketLock, CriticalSection

VARIABLE part

Parts == {"machine", "mouse start", "ticket lock", "critical section"}

lock_vars == <<ticket_vars, section_vars>>
all_vars == <<part, machine_vars, mouse_start_vars, lock_vars>>

PartsInit ==
  /\ part \in Parts
  /\ MachineInit /\ MouseStartInit /\ TicketInit /\ SectionInit
  /\ part # "machine" => program = CHOOSE p \in Programs : TRUE
  /\ part # "mouse start" => config = CHOOSE c \in FirstConfigs : TRUE

Rest(p) ==
  /\ UNCHANGED part
  /\ p # "machine" => UNCHANGED machine_vars
  /\ p # "mouse start" => UNCHANGED mouse_start_vars
  /\ p # "ticket lock" => UNCHANGED ticket_vars
  /\ p # "critical section" => UNCHANGED section_vars

PartsNext ==
  /\ Rest(part)
  /\ \/ part = "machine" /\ MachineNext
     \/ part = "mouse start" /\ MouseStartNext
     \/ part = "ticket lock" /\ TicketNext
     \/ part = "critical section" /\ SectionNext

PartsFairness == MachineFairness /\ TicketFairness /\ SectionFairness

PartsSpec == PartsInit /\ [][PartsNext]_all_vars /\ PartsFairness

-----------------------------------------------------------------------------
\* The check of delay stops the system only when the tick to wait for did not
\* fit: the message it then prints is "error: overflow condition in delay"
\* (driver.cpp:477).
OverflowOnly ==
  [][stage = "check" /\ stage' = "stopped" => finish_at < wanted]_machine_vars

-----------------------------------------------------------------------------
\* Two of the keyboard's codes, one that would switch the keyboard off; the firmware's settings,
\* with the mouse off and on.
FirstConfigsDef == {{0, 2, 6}, {0, 2, 5, 6}}
ScanCodesDef == {{0, 7}, {1, 2, 3, 4}}

PacketsDef == {<<8, 8, 0>>, <<24, 248, 0>>, <<72, 0, 0>>}
TextsDef == {<<5, 2>>, <<7, 2>>}
Asks(asked) == [l \in IrqLines |-> IF l \in DOMAIN asked THEN asked[l] ELSE 0]
BudgetDef == [
  reads  |-> Asks(1 :> 1 @@ 3 :> 1 @@ 4 :> 1 @@ 12 :> 1),
  draws  |-> Asks(12 :> 2),
  delays |-> Asks(7 :> 1 @@ 15 :> 1)]
=============================================================================
