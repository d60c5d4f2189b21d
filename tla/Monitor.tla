------------------------------- MODULE Monitor ------------------------------
(***************************************************************************)
(* The log, which goes to the screen of module Console and over a serial   *)
(* line to a monitor, src/src/kernel/debug_logger.cpp, and the console     *)
(* functions in front of it, src/src/runtime/conio.cpp.                    *)
(*                                                                         *)
(* A call is the list of the orders it gives, and a fault may come after   *)
(* any of them; its own orders take their place.  A byte is a string, that *)
(* of a plain character the character itself.                              *)
(***************************************************************************)
EXTENDS Console

CONSTANTS
  Logged,        \* the characters the log is given, "\n" among them
  BoxBytes,      \* the three bytes of each character of charLUT
  LoggedNumbers, \* the numbers it is given
  HexWidth,      \* the digits of %x, 8
  MaxLogs        \* bound: the calls

FullBlock == "block"

DigitNames == <<"0", "1", "2", "3", "4", "5", "6", "7", "8", "9", "A", "B", "C", "D", "E", "F">>

\* The characters of the formats and of the control sequences.
PlainCharacters ==
  {"c", "[", ";", "H", "%", "F", "a"} \cup {DigitNames[i] : i \in DOMAIN DigitNames}

\* A box has three bytes of its own, and only the first of them is that of other boxes.
ASSUME MonitorAssumption ==
  /\ DOMAIN BoxBytes \cup {"\n"} \subseteq Logged
  /\ {"E2", "ESC"} \cap Logged = {}
  /\ DOMAIN BoxBytes \cap ({FullBlock} \cup PlainCharacters) = {}
  /\ \A ch \in DOMAIN BoxBytes :
       /\ BoxBytes[ch] \in Seq(STRING) /\ Len(BoxBytes[ch]) = 3 /\ BoxBytes[ch][1] = "E2"
       /\ \A i \in 2 .. 3 : BoxBytes[ch][i] \notin {"E2", "ESC"} \cup PlainCharacters \cup Logged
       /\ \A other \in DOMAIN BoxBytes : BoxBytes[other] = BoxBytes[ch] => other = ch
  /\ LoggedNumbers \subseteq Nat
  /\ HexWidth \in Nat /\ MaxLogs \in Nat

VARIABLES
  modules_ready,  \* modules_initialized
  has_serial,     \* whether one of the modules is a serial port
  conio_ready,    \* init of conio
  both,           \* whether log_char writes to the screen, too
  doing,          \* the orders of the call that are left
  faulted,        \* whether there was a fault
  monitor,        \* the bytes sent
  logged          \* history: what was logged since the screen was cleared

monitor_vars == <<modules_ready, has_serial, conio_ready, both, doing, faulted, monitor, logged>>

MonitorInit ==
  /\ modules_ready = FALSE
  /\ has_serial \in BOOLEAN
  /\ conio_ready = FALSE
  /\ both = TRUE
  /\ doing = <<>>
  /\ faulted = FALSE
  /\ monitor = <<>>
  /\ logged = <<>>

-----------------------------------------------------------------------------
(***************************************************************************)
(* What a call orders.  "means" is what has been logged once the order is  *)
(* done: a character, or with its last byte a control sequence.            *)
(***************************************************************************)
Means(is, ch, x, y) == <<[is |-> is, ch |-> ch, x |-> x, y |-> y]>>
Order(op, ch, x, y, means) == [op |-> op, ch |-> ch, x |-> x, y |-> y, means |-> means]

Say(ch) == Order("log_char", ch, 0, 0, Means("text", ch, 0, 0))
Both(flag) == Order(IF flag THEN "both" ELSE "monitor", "", 0, 0, <<>>)

log_number(val, base, pad) ==
  LET digits[n \in 0 .. val] == IF n < base THEN <<DigitNames[n + 1]>>
                                ELSE Append(digits[n \div base], DigitNames[(n % base) + 1])
  IN  [i \in 1 .. pad - Len(digits[val]) |-> "0"] \o digits[val]

\* A conversion, with the arguments that are left.
Converted(ch, args) ==
  CASE ch \in {"d", "i"} -> log_number(Head(args), 10, 0)
    [] ch = "x"          -> log_number(Head(args), 16, HexWidth)
    [] ch = "X"          -> log_number(Head(args), 16, 2*HexWidth)
    [] ch = "%"          -> <<"%">>
    [] ch = "c"          -> <<Head(args)>>
    [] ch = "s"          -> Head(args)
    [] OTHER             -> <<>>

\* One character of a format; other conversions, and a % at the end, give nothing.
Read(percent, out, args) == [percent |-> percent, out |-> out, args |-> args]
Reads(s, ch) ==
  IF s.percent
  THEN Read(FALSE, s.out \o Converted(ch, s.args),
            IF ch \in {"d", "i", "x", "X", "f", "c", "s"} THEN Tail(s.args) ELSE s.args)
  ELSE IF ch = "%" THEN Read(TRUE, s.out, s.args)
  ELSE Read(FALSE, Append(s.out, ch), s.args)

k_log_vfmt(fmt, arguments) ==
  LET read[n \in 0 .. Len(fmt)] == IF n = 0 THEN Read(FALSE, <<>>, arguments) ELSE Reads(read[n - 1], fmt[n])
  IN  read[Len(fmt)].out

Says(text) == [i \in DOMAIN text |-> Say(text[i])]
k_log_fmt(fmt, arguments) == Says(k_log_vfmt(fmt, arguments))

\* Control sequences are sent to the monitor alone.
Controls(bytes, means) ==
  <<Both(FALSE)>>
  \o [i \in DOMAIN bytes |-> Order("log_char", bytes[i], 0, 0, IF i = Len(bytes) THEN means ELSE <<>>)]
  \o <<Both(TRUE)>>

clear_screen == <<Order("clear", "", 0, 0, <<>>)>> \o Controls(<<"ESC", "c">>, Means("clear", "", 0, 0))

PositionFormat == <<"ESC", "[", "%", "i", ";", "%", "i", "H">>

\* A faulty goto_xy that sends the column in front of the row.
goto_xy_swapped(x, y) ==
  <<Order("goto", "", x, y, <<>>)>>
  \o Controls(k_log_vfmt(PositionFormat, <<x + 1, y + 1>>), Means("goto", "", x, y))

goto_xy(x, y) ==
  <<Order("goto", "", x, y, <<>>)>>
  \o Controls(k_log_vfmt(PositionFormat, <<y + 1, x + 1>>), Means("goto", "", x, y))

-----------------------------------------------------------------------------
(***************************************************************************)
(* The order that is next.                                                 *)
(***************************************************************************)
BytesOf(ch) ==
  IF ch \in DOMAIN BoxBytes THEN BoxBytes[ch]
  ELSE IF ch = FullBlock THEN <<"E2">>
  ELSE <<ch>>

log_char(order) ==
  /\ order.op = "log_char"
  /\ IF modules_ready
     THEN /\ IF both THEN Written(put_char(Screen, order.ch)) ELSE UNCHANGED <<cells, cur_x, cur_y>>
          /\ monitor' = IF has_serial THEN monitor \o BytesOf(order.ch) ELSE monitor
          /\ paper' = IF order.means = Means("text", order.ch, 0, 0)
                      THEN OnPaper(paper, order.ch) ELSE paper
          /\ logged' = IF order.means = Means("clear", "", 0, 0) THEN <<>>
                       ELSE IF order.ch = FullBlock THEN logged
                       ELSE logged \o order.means
     ELSE UNCHANGED <<cells, cur_x, cur_y, monitor, paper, logged>>
  /\ UNCHANGED both

SetBoth(order) ==
  /\ order.op \in {"both", "monitor"}
  /\ both' = (order.op = "both")
  /\ UNCHANGED <<cells, cur_x, cur_y, monitor, paper, logged>>

ScreenGoto(order) ==
  /\ order.op = "goto"
  /\ cur_x' = IF order.x > 0 THEN order.x - 1 ELSE 0
  /\ cur_y' = IF order.y > 0 THEN order.y - 1 ELSE 0
  /\ paper' = PaperAt(paper, cur_x', cur_y')
  /\ UNCHANGED <<cells, both, monitor, logged>>

ScreenClear(order) ==
  /\ order.op = "clear"
  /\ cells' = mem_set(cells, 0, Blank, Width*Height)
  /\ cur_x' = 0 /\ cur_y' = 0
  /\ paper' = BlankPaper
  /\ UNCHANGED <<both, monitor, logged>>

Obey ==
  /\ doing # <<>>
  /\ doing' = Tail(doing)
  /\ LET order == Head(doing)
     IN  log_char(order) \/ SetBoth(order) \/ ScreenGoto(order) \/ ScreenClear(order)
  /\ UNCHANGED <<col, row, panicking, writes, modules_ready, has_serial, conio_ready, faulted>>

-----------------------------------------------------------------------------
(***************************************************************************)
(* The calls.                                                              *)
(***************************************************************************)
initialize_modules ==
  /\ ~modules_ready /\ doing = <<>>
  /\ modules_ready' = TRUE
  /\ UNCHANGED <<console_vars, has_serial, conio_ready, both, doing, faulted, monitor, logged>>

initialize_conio ==
  /\ modules_ready /\ ~conio_ready /\ doing = <<>>
  /\ conio_ready' = TRUE
  /\ UNCHANGED <<console_vars, modules_ready, has_serial, both, doing, faulted, monitor, logged>>

Begin(orders) ==
  /\ doing = <<>> /\ ~faulted
  /\ writes < MaxLogs
  /\ writes' = writes + 1
  /\ doing' = orders
  /\ UNCHANGED <<cells, cur_x, cur_y, col, row, panicking, paper>>
  /\ UNCHANGED <<modules_ready, has_serial, conio_ready, both, faulted, monitor, logged>>

Log(fmt, arguments) == Begin(k_log_fmt(fmt, arguments))

clrscr == conio_ready /\ Begin(clear_screen)
gotoxy(x, y) == conio_ready /\ Begin(goto_xy(x, y))
putch(ch) == conio_ready /\ Begin(<<Say(ch)>>)

\* puts2 and textmode are for the screen alone.
puts2(string) ==
  /\ conio_ready /\ doing = <<>> /\ ~faulted
  /\ writes < MaxLogs
  /\ writes' = writes + 1
  /\ Written(put_string(Screen, string))
  /\ paper' = LineOnPaper(paper, string)
  /\ UNCHANGED <<col, row, panicking, monitor_vars>>

textmode ==
  /\ conio_ready /\ doing = <<>> /\ ~faulted
  /\ writes < MaxLogs
  /\ writes' = writes + 1
  /\ cells' = [a \in Places |-> Blank]
  /\ cur_x' = 0 /\ cur_y' = 0
  /\ paper' = BlankPaper
  /\ UNCHANGED <<col, row, panicking, monitor_vars>>

FaultFormat == <<"\n", "F", "%", "i", "%">>

\* k_fault_handler and k_critical_error clear and write; what they interrupted
\* is not resumed.
FaultLogged(fault) ==
  /\ conio_ready /\ ~faulted
  /\ faulted' = TRUE
  /\ doing' = clear_screen \o goto_xy(0, 1) \o k_log_fmt(FaultFormat, <<fault>>)
  /\ UNCHANGED <<console_vars, modules_ready, has_serial, conio_ready, both, monitor, logged>>

MonitorNext ==
  \/ Obey \/ initialize_modules \/ initialize_conio \/ clrscr \/ textmode
  \/ \E ch \in Logged : putch(ch) \/ Log(<<"%", "c">>, <<ch>>) \/ puts2(<<ch>>)
                        \/ Log(<<"%", "s", "a">>, << <<ch, ch>> >>)
  \/ \E n \in LoggedNumbers : Log(<<"%", "x", "%", "%">>, <<n>>) \/ Log(<<"%", "f", "%", "d">>, <<n, n>>)
                              \/ FaultLogged(n)
  \/ \E x \in 0 .. Width, y \in 0 .. Height : gotoxy(x, y)

MonitorSpec == ConsoleInit /\ MonitorInit /\ [][MonitorNext]_<<console_vars, monitor_vars>>

-----------------------------------------------------------------------------
(***************************************************************************)
(* The terminal at the other end: what it makes of the bytes since it was  *)
(* cleared.  It forgets an unfinished control sequence when one begins.    *)
(***************************************************************************)
DigitValue(ch) == (CHOOSE i \in DOMAIN DigitNames : DigitNames[i] = ch) - 1
Value(digits) ==
  LET value[n \in 0 .. Len(digits)] == IF n = 0 THEN 0 ELSE 10*value[n - 1] + DigitValue(digits[n])
  IN  value[Len(digits)]
Index(s, ch) == CHOOSE i \in DOMAIN s : s[i] = ch

\* Rows and columns are counted from 1.
Position(s) ==
  Means("goto", "", Value(SubSeq(s, Index(s, ";") + 1, Len(s))) - 1,
                    Value(SubSeq(s, 3, Index(s, ";") - 1)) - 1)

Plainly(t, byte) ==
  IF byte \in {"E2", "ESC"} THEN [shows |-> t.shows, pending |-> <<byte>>]
  ELSE [shows |-> t.shows \o Means("text", byte, 0, 0), pending |-> <<>>]

Receives(t, byte) ==
  LET bytes == Append(t.pending, byte)
      boxes == {ch \in DOMAIN BoxBytes : BoxBytes[ch] = bytes}
      begun == {ch \in DOMAIN BoxBytes : \E n \in 1 .. 2 : bytes = SubSeq(BoxBytes[ch], 1, n)}
  IN  IF t.pending = <<>> \/ byte = "ESC" THEN Plainly(t, byte)
      ELSE IF bytes = <<"ESC", "c">> THEN [shows |-> <<>>, pending |-> <<>>]
      ELSE IF Head(bytes) = "ESC" /\ byte = "H"
      THEN [shows |-> t.shows \o Position(t.pending), pending |-> <<>>]
      ELSE IF Head(bytes) = "ESC" \/ begun # {} THEN [shows |-> t.shows, pending |-> bytes]
      ELSE Plainly(t, IF boxes # {} THEN CHOOSE ch \in boxes : TRUE ELSE byte)

Receive(t, bytes) ==
  LET received[n \in 0 .. Len(bytes)] == IF n = 0 THEN t ELSE Receives(received[n - 1], bytes[n])
  IN  received[Len(bytes)]

Terminal == Receive([shows |-> <<>>, pending |-> <<>>], monitor)

\* Between calls the monitor has been sent exactly what was logged, the same
\* characters and positions in the same order, each in one piece, even when a fault
\* broke into a control sequence (debug_logger.cpp:71, exception_handler.cpp:310).
\* The full block, of which one byte is sent, is lost, and takes no character with it.
MonitorFollows == doing = <<>> /\ has_serial => Terminal.shows = logged
=============================================================================
