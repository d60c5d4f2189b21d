-------------------------------- MODULE Uart --------------------------------
(***************************************************************************)
(* The set-up of a serial port, src/src/modules/serial_16650.cpp: what the *)
(* driver writes, in its order, and the registers of the chip.  The two    *)
(* lowest ones stand for the divisor of the speed as long as the top bit   *)
(* of the line control register, DLAB, is set.                             *)
(***************************************************************************)
EXTENDS Integers, Sequences

CONSTANTS
  Bauds,       \* the speeds asked for, as baud_rate_t or past its end
  LineFormats  \* what set_line_control puts together: 0 .. 127

ASSUME UartAssumption == Bauds \subseteq Nat /\ LineFormats \subseteq 0 .. 127

VARIABLES
  divisor,       \* the bytes of the divisor, high and low
  interrupts,    \* interrupt enable register
  dlab, format,  \* line control register: its top bit, the other ones
  modem,         \* modem control register
  echo,          \* the byte that comes back, in loopback mode
  works,         \* whether the chip does what it should
  baud, control,    \* arguments of initialize
  done           \* how many writes were made

uart_vars == <<divisor, interrupts, dlab, format, modem, echo, works, baud, control, done>>

\* The firmware leaves DLAB clear; it may have asked for interrupts.
UartInit ==
  /\ divisor = [high |-> 255, low |-> 255]
  /\ interrupts \in {0, 15}
  /\ dlab = FALSE
  /\ format = 0
  /\ modem = 0
  /\ echo = 0
  /\ works \in BOOLEAN
  /\ baud \in Bauds
  /\ control \in LineFormats
  /\ done = 0

Divisors == <<384, 192, 96, 48, 24, 12, 6, 3, 2, 1>>
divisor_for_baud(rate) == IF rate \in 0 .. 9 THEN Divisors[rate + 1] ELSE Divisors[10]

-----------------------------------------------------------------------------
(***************************************************************************)
(* The chip: a write to the register at an offset of the port.             *)
(***************************************************************************)
LOOPBACK == 16

Write(offset, value) ==
  /\ divisor' = IF ~dlab \/ offset > 1 THEN divisor
                ELSE IF offset = 0 THEN [divisor EXCEPT !.low = value]
                ELSE [divisor EXCEPT !.high = value]
  /\ interrupts' = IF offset = 1 /\ ~dlab THEN value ELSE interrupts
  /\ dlab' = IF offset = 3 THEN value >= 128 ELSE dlab
  /\ format' = IF offset = 3 THEN value % 128 ELSE format
  /\ modem' = IF offset = 4 THEN value ELSE modem
  /\ echo' = IF offset = 0 /\ ~dlab /\ works /\ (modem \div LOOPBACK) % 2 = 1
             THEN value ELSE echo
  /\ UNCHANGED <<works, baud, control>>

(***************************************************************************)
(* The writes of the driver; those of set_baud_rate_divisor around the     *)
(* divisor keep the other bits of the line control register.               *)
(***************************************************************************)
DLL == 0
THR == 0
DLH == 1
IER == 1
FCR == 2
LCR == 3
MCR == 4

\* A faulty set_baud_rate_divisor that forgets DLAB.
set_baud_rate_divisor_no_dlab(value) ==
  << <<DLH, value \div 256>>, <<DLL, value % 256>> >>

set_baud_rate_divisor(value) ==
  << <<LCR, 128 + format>>, <<DLH, value \div 256>>, <<DLL, value % 256>>, <<LCR, format>> >>

set_line_control(value) == << <<LCR, value>> >>

query_capabilities == << <<MCR, 30>>, <<THR, 174>> >>
is_faulty == echo # 174

initialize ==
  << <<IER, 0>> >>
    \o set_baud_rate_divisor(divisor_for_baud(baud))
    \o set_line_control(control)
    \o << <<FCR, 199>>, <<MCR, 11>> >>
    \o query_capabilities
    \o (IF is_faulty THEN <<>> ELSE << <<MCR, 15>> >>)
    \o << <<IER, 15>> >>

Initialize ==
  /\ done < Len(initialize)
  /\ LET write == initialize[done + 1] IN Write(write[1], write[2])
  /\ done' = done + 1

Ready == done >= Len(initialize)

\* serial_waiting, which asks for the interrupts over again.
SerialWaiting ==
  /\ Ready
  /\ Write(IER, 15)
  /\ UNCHANGED done

UartNext == Initialize \/ SerialWaiting

UartSpec == UartInit /\ [][UartNext]_uart_vars

-----------------------------------------------------------------------------
\* While the port is being set up it interrupts nobody, and afterwards it has
\* the speed and format asked for, leaves the test mode if the chip passed the
\* test, and interrupts (serial_16650.cpp:224).
SetUp ==
  /\ done > 0 /\ ~Ready => interrupts = 0
  /\ Ready =>
       /\ 256*divisor.high + divisor.low = divisor_for_baud(baud)
       /\ format = control /\ ~dlab
       /\ modem = IF works THEN 15 ELSE 30
       /\ interrupts = 15
=============================================================================
