----------------------------- MODULE MouseStart -----------------------------
(***************************************************************************)
(* The start of the mouse, initialize_mouse of src/src/arch/x86/driver.cpp.*)
(*                                                                         *)
(* The program, the controller, the mouse and the keyboard take turns at   *)
(* one buffer in each direction.  The driver polls both with loops that    *)
(* give up in silence, and never asks whose byte it has read.              *)
(***************************************************************************)
EXTENDS Integers, Sequences

CONSTANTS
  FirstConfigs,  \* what the firmware may have left in the controller's command byte
  ScanCodes,     \* what the keyboard may send
  MaxScanCodes   \* how many keys are pressed or released meanwhile, at most

\* A byte is the set of its bits.
Byte == SUBSET (0 .. 7)

ASSUME MouseStartAssumption ==
  FirstConfigs \subseteq Byte /\ ScanCodes \subseteq Byte /\ MaxScanCodes \in Nat

VARIABLES
  upto,          \* how many steps of initialize_mouse are done
  mouse_status,  \* status
  to_controller, \* what was written and not taken yet
  data_port,     \* the last byte for the program; from nobody once it was read
  awaits,        \* what the controller will take the next data for
  config,        \* its command byte
  first_config,  \* history: the one at the start
  streaming,     \* whether the mouse sends its movements
  owed,          \* answers of the mouse that did not fit into the buffer yet
  scan_codes,    \* how many bytes the keyboard has sent
  strays,        \* history: how many of them the driver took for something else
  gave_up        \* history: a loop of the driver gave up

mouse_start_vars ==
  <<upto, mouse_status, to_controller, data_port, awaits, config, first_config, streaming, owed,
    scan_codes, strays, gave_up>>

Taken == [port |-> "none", what |-> "none", byte |-> {}]

MouseStartInit ==
  /\ upto = 0
  /\ mouse_status = {}
  /\ to_controller = Taken
  /\ data_port = [from |-> "nobody", byte |-> {}]
  /\ awaits = "none"
  /\ config \in FirstConfigs
  /\ first_config = config
  /\ streaming = FALSE
  /\ owed = 0
  /\ scan_codes = 0
  /\ strays = 0
  /\ gave_up = FALSE

-----------------------------------------------------------------------------
(***************************************************************************)
(* The driver.                                                             *)
(***************************************************************************)
AUX_INTERRUPT == 1  \* status | 0x02
AUX_DISABLED == 5   \* status & 0xDF
KEYBOARD_DISABLED == 4
ACK == {1, 3, 4, 5, 6, 7}  \* 0xFA

PortStep(does, what) == [does |-> does, what |-> what]

\* send_command: the controller is told for whom the next byte is, and the
\* mouse answers to it.
to_the_mouse == PortStep("command", "to the mouse")
read_answer == PortStep("read", "answer")

\* Mutant: leaves the answers in the buffer.
initialize_mouse_unread ==
  <<PortStep("command", "get status"), PortStep("read", "status"),
    PortStep("command", "set status"), PortStep("data", "status"),
    to_the_mouse, PortStep("data", "defaults"), to_the_mouse, PortStep("data", "stream")>>

initialize_mouse ==
  <<PortStep("command", "get status"), PortStep("read", "status"),
    PortStep("command", "set status"), PortStep("data", "status"),
    to_the_mouse, PortStep("data", "defaults"), read_answer,
    to_the_mouse, PortStep("data", "stream"), read_answer>>

Now == initialize_mouse[upto + 1]

\* write_command_port and write_data_port: wait_for_write gives up in the end,
\* and what the controller has not taken is overwritten.
WritePort ==
  /\ upto < Len(initialize_mouse)
  /\ Now.does \in {"command", "data"}
  /\ to_controller' = [port |-> Now.does, what |-> Now.what,
                       byte |-> IF Now.what = "status" THEN mouse_status ELSE {}]
  /\ gave_up' = (gave_up \/ to_controller # Taken)
  /\ upto' = upto + 1
  /\ UNCHANGED <<mouse_status, data_port, awaits, config, first_config, streaming, owed,
                 scan_codes, strays>>

\* read_data_port: wait_for_read gives up in the end, and the port shows the
\* byte before.  The answer to a command is compared and nothing done about it.
read_data_port ==
  /\ upto < Len(initialize_mouse)
  /\ Now.does = "read"
  /\ data_port' = [data_port EXCEPT !.from = "nobody"]
  /\ mouse_status' = IF Now.what = "status"
                       THEN (data_port.byte \cup {AUX_INTERRUPT}) \ {AUX_DISABLED}
                       ELSE mouse_status
  /\ strays' = IF data_port.from = "keyboard" THEN strays + 1 ELSE strays
  /\ gave_up' = (gave_up \/ data_port.from = "nobody")
  /\ upto' = upto + 1
  /\ UNCHANGED <<to_controller, awaits, config, first_config, streaming, owed, scan_codes>>

-----------------------------------------------------------------------------
(***************************************************************************)
(* The controller, the mouse and the keyboard.                             *)
(***************************************************************************)
Send(source, byte) ==
  /\ data_port.from = "nobody"
  /\ data_port' = [from |-> source, byte |-> byte]

TakeCommand ==
  /\ to_controller.port = "command"
  /\ IF to_controller.what = "get status"
       THEN Send("controller", config) /\ UNCHANGED awaits
       ELSE awaits' = to_controller.what /\ UNCHANGED data_port
  /\ to_controller' = Taken
  /\ UNCHANGED <<upto, mouse_status, config, first_config, streaming, owed, scan_codes, strays,
                 gave_up>>

\* Data that no command has announced is for the keyboard.
TakeData ==
  /\ to_controller.port = "data"
  /\ config' = IF awaits = "set status" THEN to_controller.byte ELSE config
  /\ streaming' = IF awaits = "to the mouse" THEN to_controller.what = "stream" ELSE streaming
  /\ owed' = IF awaits = "to the mouse" THEN owed + 1 ELSE owed
  /\ awaits' = "none"
  /\ to_controller' = Taken
  /\ UNCHANGED <<upto, mouse_status, data_port, first_config, scan_codes, strays, gave_up>>

MouseAnswers ==
  /\ owed > 0
  /\ AUX_DISABLED \notin config
  /\ Send("mouse", ACK)
  /\ owed' = owed - 1
  /\ UNCHANGED <<upto, mouse_status, to_controller, awaits, config, first_config, streaming,
                 scan_codes, strays, gave_up>>

KeyboardSends ==
  /\ scan_codes < MaxScanCodes
  /\ KEYBOARD_DISABLED \notin config
  /\ \E code \in ScanCodes : Send("keyboard", code)
  /\ scan_codes' = scan_codes + 1
  /\ UNCHANGED <<upto, mouse_status, to_controller, awaits, config, first_config, streaming, owed,
                 strays, gave_up>>

MouseStartNext ==
  WritePort \/ read_data_port \/ TakeCommand \/ TakeData \/ MouseAnswers \/ KeyboardSends

MouseStartSpec == MouseStartInit /\ [][MouseStartNext]_mouse_start_vars

-----------------------------------------------------------------------------
\* After initialize_mouse (driver.cpp:179) the mouse streams and may interrupt,
\* whatever keys were pressed meanwhile; but each byte of the keyboard that was
\* taken for another leaves one of that kind behind, for the first handler that
\* reads the port, and only without any is the rest of the command byte as before.
MouseStarted ==
  (upto = Len(initialize_mouse) /\ to_controller = Taken /\ ~gave_up) =>
    LET left == IF data_port.from \in {"controller", "mouse"} THEN 1 ELSE 0
    IN  /\ streaming
        /\ AUX_INTERRUPT \in config
        /\ AUX_DISABLED \notin config
        /\ owed + left = strays
        /\ strays = 0 => config = (first_config \cup {AUX_INTERRUPT}) \ {AUX_DISABLED}
=============================================================================
