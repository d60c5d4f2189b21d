----------------------------- MODULE Interrupts -----------------------------
(***************************************************************************)
(* The bare metal machine: one processor, the interrupt controllers, the   *)
(* handler src/src/arch/x86/driver.cpp gives them, the devices behind it   *)
(* and the program it interrupts.                                          *)
(*                                                                         *)
(* The gates of the handler keep interrupts off (interrupts.S), so a       *)
(* handler runs from Accept to its iret, the action Handle, with only the  *)
(* devices going on beside it.  Faults (driver.cpp:304) are left out.      *)
(***************************************************************************)
EXTENDS Pointer, Sequences, SequencesExt

CONSTANTS
  TickRange,  \* tick_t holds 0 .. TickRange - 1
  Delays,     \* the delays the program asks for
  Packets,    \* the packets the mouse sends: three bytes each
  Texts,      \* the texts the program draws: column and length
  Budget      \* how often each line asks, by program; 7 and 15 are the spurious ones

Programs == {"reads", "draws", "delays"}
IrqLines == {0, 1, 3, 4, 7, 12, 15}

ASSUME MachineAssumption ==
  /\ TickRange \in Nat \ {0}
  /\ Delays \subseteq 0 .. TickRange - 1
  /\ Packets \subseteq (0 .. 255) \X (0 .. 255) \X (0 .. 255)
  /\ Texts \subseteq Nat \X Nat
  /\ Budget \in [Programs -> [IrqLines -> Nat]]
  /\ \A bytes \in Packets : Bit(bytes[1], ALWAYS_ONE)  \* as mice send them

VARIABLES
  requested, in_service,  \* the lines of the two controllers, 0 .. 15
  running,                \* the vector of the handler running, 0 for the program
  enabled,                \* the processor's interrupt flag
  current_tick_, timer_not_installed_blocking,
  received,               \* the bytes in each serial port
  serial_data_waiting, serial_data_ch,
  buffer,                 \* the byte keyboard and mouse share
  packet,                 \* the rest of the packet the mouse is sending
  program, stage,            \* what the program does, and where it is in it
  finish_at, next_tick,   \* locals of delay, 0 where they are not in use
  wanted, elapsed,        \* history: the delay asked for, the ticks it has seen
  newest, returned,       \* history: last byte taken from a port, given to the program
  left                    \* how often each device still asks

pic_vars    == <<requested, in_service, running, enabled>>
timer_vars  == <<current_tick_, timer_not_installed_blocking>>
serial_vars == <<received, serial_data_waiting, serial_data_ch, newest>>
ps2_vars    == <<buffer, packet>>
delay_vars  == <<finish_at, next_tick, wanted>>
machine_vars == <<pic_vars, timer_vars, serial_vars, ps2_vars, delay_vars, elapsed,
                  program, stage, returned, left, pointer_vars>>

Vector(line) == 32 + line
Slave == 8 .. 15
Cascade == 2

(***************************************************************************)
(* The serial ports, as their modules are registered; the newest comes     *)
(* first.                                                                  *)
(***************************************************************************)
module_register(modules, driver) == <<driver>> \o modules
SerialModules == FoldLeft(module_register, <<>>, <<4, 3, 2, 1>>)
Line(port) == IF port \in {1, 3} THEN 4 ELSE 3

MachineInit ==
  /\ PointerInit
  /\ requested = {} /\ in_service = {} /\ running = 0 /\ enabled = TRUE
  /\ current_tick_ = 0 /\ timer_not_installed_blocking = TRUE
  /\ received = [p \in 1 .. 4 |-> <<>>]
  /\ serial_data_waiting = FALSE /\ serial_data_ch = 0 /\ newest = 0 /\ returned = 0
  /\ buffer = [full |-> FALSE, mouse |-> FALSE, byte |-> 0]
  /\ packet = <<>>
  /\ program \in Programs
  /\ stage = "idle"
  /\ finish_at = 0 /\ next_tick = 0 /\ wanted = 0 /\ elapsed = 0
  /\ left = Budget[program]

-----------------------------------------------------------------------------
(***************************************************************************)
(* The devices and the controllers.  The ticks of a program that delays    *)
(* never end; everything else comes as often as its budget says.           *)
(***************************************************************************)
Ask(line) ==
  /\ left[line] > 0
  /\ left' = [left EXCEPT ![line] = @ - 1]

Device == UNCHANGED <<in_service, running, enabled, timer_vars, delay_vars, elapsed,
                      program, stage, returned, pointer_vars>>

PitTick ==
  /\ requested' = requested \cup {0}
  /\ IF program = "delays" THEN UNCHANGED left ELSE Ask(0)
  /\ Device /\ UNCHANGED <<serial_vars, ps2_vars>>

\* A key is pressed or let go.
Key ==
  /\ ~buffer.full
  /\ Ask(1)
  /\ buffer' = [full |-> TRUE, mouse |-> FALSE, byte |-> 16]
  /\ requested' = requested \cup {1}
  /\ Device /\ UNCHANGED <<serial_vars, packet>>

MouseByte ==
  /\ ~buffer.full
  /\ \E bytes \in IF packet # <<>> THEN {packet} ELSE Packets :
       /\ IF packet # <<>> THEN UNCHANGED left ELSE Ask(12)
       /\ buffer' = [full |-> TRUE, mouse |-> TRUE, byte |-> Head(bytes)]
       /\ packet' = Tail(bytes)
  /\ requested' = requested \cup {12}
  /\ Device /\ UNCHANGED serial_vars

\* A byte comes in at a port, numbered by how many came before it.
SerialByte(port) ==
  /\ Ask(Line(port))
  /\ received' = [received EXCEPT ![port] =
       Append(@, Budget[program][3] + Budget[program][4] - left'[3] - left'[4])]
  /\ Device
  /\ UNCHANGED <<requested, serial_data_waiting, serial_data_ch, newest, ps2_vars>>

\* A port that holds bytes asks, and asks again (its time-out).
UartAsk(port) ==
  /\ received[port] # <<>>
  /\ Line(port) \notin requested
  /\ requested' = requested \cup {Line(port)}
  /\ Device /\ UNCHANGED <<serial_vars, ps2_vars, left>>

\* Priorities: the lines of the slave stand between 2 and 3.
Rank(line) == IF line <= Cascade THEN line ELSE IF line \in Slave THEN line - 5 ELSE line + 8
First(lines) == CHOOSE l \in lines : \A k \in lines : Rank(l) <= Rank(k)

\* The processor runs handlers only where the flag lets it.
TakeRequest(vector, lines) ==
  /\ enabled /\ running = 0
  /\ \A l \in in_service, k \in lines : Rank(l) > Rank(k)
  /\ in_service' = in_service \cup lines
  /\ running' = vector
  /\ enabled' = FALSE
  /\ UNCHANGED <<timer_vars, serial_vars, ps2_vars, delay_vars, elapsed, program, stage,
                 returned, pointer_vars>>

Accept ==
  LET line == First(requested)
  IN  /\ requested # {}
      /\ TakeRequest(Vector(line), IF line \in Slave THEN {Cascade, line} ELSE {line})
      /\ requested' = requested \ {line}
      /\ UNCHANGED left

\* A request that went away: the controller answers with its line 7.
Spurious ==
  /\ (TakeRequest(Vector(7), {}) /\ Ask(7)) \/ (TakeRequest(Vector(15), {Cascade}) /\ Ask(15))
  /\ UNCHANGED requested

\* The lines a controller has in service.
Controllers == {"master", "slave"}
InService(controller) == IF controller = "slave" THEN in_service \cap Slave ELSE in_service \ Slave

\* End of interrupt: the controller clears the first of its lines in service.
Eoi(lines) == IF lines = {} THEN {} ELSE lines \ {First(lines)}

-----------------------------------------------------------------------------
(***************************************************************************)
(* The handlers.                                                           *)
(***************************************************************************)
TimerHandler ==
  /\ current_tick_' = (current_tick_ + 1) % TickRange
  /\ elapsed' = Least(elapsed + 1, wanted)
  /\ UNCHANGED <<timer_not_installed_blocking, serial_vars, ps2_vars, pointer_vars>>

\* irq_service_handler of each port: what the last one has received remains.
SerialPortHandler ==
  LET asking == SelectSeq(SerialModules, LAMBDA p : received[p] # <<>>)
  IN  /\ received' = [p \in 1 .. 4 |-> IF received[p] = <<>> THEN <<>> ELSE Tail(received[p])]
      /\ IF asking = <<>> THEN UNCHANGED <<serial_data_ch, serial_data_waiting, newest>>
         ELSE /\ serial_data_ch' = Head(received[Last(asking)])
              /\ serial_data_waiting' = TRUE
              /\ newest' = serial_data_ch'
      /\ UNCHANGED <<timer_vars, elapsed, ps2_vars, pointer_vars>>

MouseHandler ==
  /\ ProcessPacket(buffer.byte)
  /\ buffer' = [buffer EXCEPT !.full = FALSE]
  /\ UNCHANGED <<timer_vars, elapsed, serial_vars, packet>>

\* interrupt_handler for a vector that is in service.
Dispatch(line) ==
  CASE line = 0 -> TimerHandler
    [] line \in {3, 4} -> SerialPortHandler
    [] line = 12 -> MouseHandler
    [] OTHER -> UNCHANGED <<timer_vars, elapsed, serial_vars, ps2_vars, pointer_vars>>

Genuine(line) == line \in {7, 15} => line \in in_service

\* A faulty interrupt_handler that takes every line for a genuine one.
Ends_always(line) == IF line \in Slave THEN {"master", "slave"} ELSE {"master"}

\* The controllers the handler sends an end of interrupt.
Ends(line) ==
  IF ~Genuine(line) THEN IF line = 7 THEN {} ELSE {"master"}
  ELSE IF line \in Slave THEN {"master", "slave"} ELSE {"master"}

\* The lines in service after them.
Ended(line) ==
  UNION {IF c \in Ends(line) THEN Eoi(InService(c)) ELSE InService(c) : c \in Controllers}

Handle ==
  /\ running # 0
  /\ running' = 0
  /\ enabled' = TRUE
  /\ IF Genuine(running - 32) THEN Dispatch(running - 32)
     ELSE UNCHANGED <<timer_vars, elapsed, serial_vars, ps2_vars, pointer_vars>>
  /\ in_service' = Ended(running - 32)
  /\ UNCHANGED <<requested, delay_vars, program, stage, returned, left>>

-----------------------------------------------------------------------------
(***************************************************************************)
(* The program.  A step of it needs the processor.                         *)
(***************************************************************************)
Step(task, from, to) ==
  /\ program = task
  /\ running = 0
  /\ stage = from
  /\ stage' = to
  /\ UNCHANGED <<requested, in_service, running, program, left, received, newest, packet>>

(***************************************************************************)
(* get_char.                                                               *)
(***************************************************************************)
\* A faulty key_waiting that takes any byte for a key.
KeyWaiting_any == buffer.full
KeyWaiting == buffer.full /\ ~buffer.mouse

Reading == UNCHANGED <<enabled, timer_vars, serial_data_ch, delay_vars, elapsed, pointer_vars>>

WaitForKey ==
  /\ serial_data_waiting \/ KeyWaiting
  /\ Step("reads", "idle", "choose")
  /\ Reading /\ UNCHANGED <<serial_data_waiting, buffer, returned>>

Choose ==
  /\ Step("reads", "choose", IF serial_data_waiting THEN "clear" ELSE "key")
  /\ Reading /\ UNCHANGED <<serial_data_waiting, buffer, returned>>

\* serial_char in two steps; and a faulty one that reads first and clears then.
SerialChar_late ==
  /\ Reading /\ UNCHANGED buffer
  /\ \/ /\ Step("reads", "clear", "read")
        /\ returned' = serial_data_ch
        /\ UNCHANGED serial_data_waiting
     \/ /\ Step("reads", "read", "idle")
        /\ serial_data_waiting' = FALSE
        /\ UNCHANGED returned

SerialChar ==
  /\ Reading /\ UNCHANGED buffer
  /\ \/ /\ Step("reads", "clear", "read")
        /\ serial_data_waiting' = FALSE
        /\ UNCHANGED returned
     \/ /\ Step("reads", "read", "idle")
        /\ returned' = serial_data_ch
        /\ UNCHANGED serial_data_waiting

ReadKey ==
  /\ Step("reads", "key", "idle")
  /\ buffer' = [buffer EXCEPT !.full = FALSE]
  /\ Reading /\ UNCHANGED <<serial_data_waiting, returned>>

(***************************************************************************)
(* delay.                                                                  *)
(***************************************************************************)
Waiting == UNCHANGED <<enabled, timer_vars, serial_data_waiting, serial_data_ch, buffer,
                       returned, pointer_vars>>

Delay(n) ==
  /\ IF timer_not_installed_blocking
     THEN Step("delays", "idle", "stopped") /\ UNCHANGED <<finish_at, wanted, elapsed>>
     ELSE /\ Step("delays", "idle", "check")
          /\ finish_at' = (current_tick_ + n) % TickRange
          /\ wanted' = n
          /\ elapsed' = 0
  /\ Waiting /\ UNCHANGED next_tick

\* A faulty delay that does not look for an overflow.
CheckOverflow_not ==
  /\ Step("delays", "check", "loop")
  /\ Waiting /\ UNCHANGED <<delay_vars, elapsed>>

CheckOverflow ==
  /\ Step("delays", "check", IF current_tick_ > finish_at THEN "stopped" ELSE "loop")
  /\ Waiting /\ UNCHANGED <<delay_vars, elapsed>>

DelayLoop ==
  /\ \/ /\ current_tick_ >= finish_at
        /\ Step("delays", "loop", "idle")
        /\ finish_at' = 0
        /\ UNCHANGED next_tick
     \/ /\ current_tick_ < finish_at
        /\ Step("delays", "loop", "next")
        /\ UNCHANGED <<finish_at, next_tick>>
     \/ /\ Step("delays", "next", "tick")
        /\ next_tick' = (current_tick_ + 1) % TickRange
        /\ UNCHANGED finish_at
     \/ /\ current_tick_ >= next_tick
        /\ Step("delays", "tick", "loop")
        /\ next_tick' = 0
        /\ UNCHANGED finish_at
  /\ Waiting /\ UNCHANGED <<wanted, elapsed>>

(***************************************************************************)
(* The functions of the timer: each switches interrupts off, sets the      *)
(* timer and switches them on.                                             *)
(***************************************************************************)
TimerFunctions == {"enable_timer", "disable_timer", "resume_timer", "speed_up_timer", "slow_down_timer"}
Still == UNCHANGED <<serial_data_waiting, serial_data_ch, buffer, returned, delay_vars, elapsed, pointer_vars>>

Disable(function) ==
  /\ Step("delays", "idle", function)
  /\ enabled' = FALSE
  /\ UNCHANGED timer_vars /\ Still

\* A faulty resume_timer that leaves interrupts off.
Enable_not(function) ==
  /\ Step("delays", function, "idle")
  /\ enabled' = (function # "resume_timer")
  /\ current_tick_' = IF function = "enable_timer" THEN 0 ELSE current_tick_
  /\ timer_not_installed_blocking' =
       CASE function = "disable_timer" -> TRUE
         [] function \in {"enable_timer", "resume_timer"} -> FALSE
         [] OTHER -> timer_not_installed_blocking
  /\ Still

Enable(function) ==
  /\ Step("delays", function, "idle")
  /\ enabled' = TRUE
  /\ current_tick_' = IF function = "enable_timer" THEN 0 ELSE current_tick_
  /\ timer_not_installed_blocking' =
       CASE function = "disable_timer" -> TRUE
         [] function \in {"enable_timer", "resume_timer"} -> FALSE
         [] OTHER -> timer_not_installed_blocking
  /\ Still

-----------------------------------------------------------------------------
DrawTexts ==
  /\ program = "draws" /\ running = 0
  /\ DrawStep \/ \E t \in Texts, g \in Glyphs : BeginText(t[1], t[2], g)
  /\ UNCHANGED <<pic_vars, timer_vars, serial_vars, ps2_vars, delay_vars, elapsed,
                 program, stage, returned, left>>

Devices == PitTick \/ Key \/ MouseByte \/ (\E p \in 1 .. 4 : SerialByte(p) \/ UartAsk(p))

GetChar == WaitForKey \/ Choose \/ SerialChar \/ ReadKey

TimerCalls ==
  \/ (\E n \in Delays : Delay(n)) \/ CheckOverflow \/ DelayLoop
  \/ \E f \in TimerFunctions : Disable(f) \/ Enable(f)

MachineNext == Devices \/ Accept \/ Spurious \/ Handle \/ GetChar \/ TimerCalls \/ DrawTexts

(***************************************************************************)
(* The processor takes a request as soon as its flag lets it (sti, iret),  *)
(* a handler returns, a function of the timer ends, and ports that hold    *)
(* bytes ask.                                                              *)
(***************************************************************************)
MachineFairness ==
  /\ SF_machine_vars(Accept)
  /\ WF_machine_vars(Handle)
  /\ WF_machine_vars(\E f \in TimerFunctions : Enable(f))
  /\ WF_machine_vars(\E p \in 1 .. 4 : UartAsk(p))

MachineSpec == MachineInit /\ [][MachineNext]_machine_vars /\ MachineFairness

-----------------------------------------------------------------------------
\* Whatever came, spurious or not, the program never runs with a line of a
\* controller still in service, and no handler sends a controller an end of
\* interrupt that has nothing in service: none is missing and none is too many
\* (driver.cpp:301-356).
EndsAreDue ==
  /\ running = 0 => in_service = {}
  /\ running # 0 => \A c \in Ends(running - 32) : InService(c) # {}

\* Every request of a device is served, whatever interrupts and timer functions
\* come in between (driver.cpp:301, 394-458).
EveryRequestServed ==
  \A l \in IrqLines \ {7, 15} : l \in requested ~> l \notin requested

\* The byte last taken from a port is waiting for the program, or was the last
\* one it got, or is the one it is about to get (serial_16650.cpp:280).
NewestByteKept ==
  newest # 0 => /\ serial_data_ch = newest
                /\ serial_data_waiting \/ returned = newest \/ stage = "read"

\* The mouse and the driver agree where in a packet they are, whatever the
\* program reads from the controller they share (keyboard_intel_8048.cpp:26).
PacketInStep ==
  (current_packet + Len(packet) + (IF buffer.full /\ buffer.mouse THEN 1 ELSE 0)) % 3 = 0

\* A delay that returned has seen at least the ticks it was asked for, also
\* where the tick wraps (driver.cpp:468).
DelayNotShort == program = "delays" /\ stage = "idle" => elapsed = wanted
=============================================================================
