------------------------------ MODULE Console -------------------------------
(***************************************************************************)
(* The text screen and its two writers: the text driver,                   *)
(* src/src/modules/text_vga.cpp, and the printing of a panic, which trusts *)
(* no driver, src/src/kernel/exception_handler.cpp.                        *)
(***************************************************************************)
EXTENDS Memory

CONSTANTS
  Width, Height,  \* 80 and 50
  PanicRow,       \* where a panic starts to print, 5
  Characters,     \* what is written, "\n" among it
  Strings,        \* the strings of them that are written
  MaxWrites       \* bound: the calls of the writers

ASSUME ConsoleAssumption ==
  /\ Width \in Nat \ {0} /\ Height \in Nat \ {0}
  /\ PanicRow \in 0 .. Height - 1
  /\ Strings \subseteq Seq(Characters)
  /\ MaxWrites \in Nat

VARIABLES
  cells,         \* the memory of the screen: an address for each place
  cur_x, cur_y,  \* the cursor of the driver
  col, row,      \* that of the panic
  panicking,     \* whether the panic has begun
  writes,        \* how many calls there were
  paper          \* history: what was written, on a paper that does not scroll

console_vars == <<cells, cur_x, cur_y, col, row, panicking, writes, paper>>

Blank == "blank"
Places == 0 .. Width*Height - 1
BlankLine == [c \in 0 .. Width - 1 |-> Blank]
BlankPaper == [lines |-> [i \in 1 .. Height |-> BlankLine], x |-> 0, y |-> 1]

\* initialize; pre_initialize_text and post_initialize_text do the same.
ConsoleInit ==
  /\ cells = [a \in Places |-> Blank]
  /\ cur_x = 0 /\ cur_y = 0
  /\ col = 0 /\ row = 0
  /\ panicking = FALSE
  /\ writes = 0
  /\ paper = BlankPaper

-----------------------------------------------------------------------------
(***************************************************************************)
(* The paper: a line that is full or ended is followed by the next, and    *)
(* there is always one.                                                    *)
(***************************************************************************)
NextLine(p) ==
  [lines |-> IF p.y = Len(p.lines) THEN Append(p.lines, BlankLine) ELSE p.lines,
   x |-> 0, y |-> p.y + 1]

OnPaper(p, ch) ==
  IF ch = "\n" THEN NextLine(p)
  ELSE LET q == [p EXCEPT !.lines[p.y][p.x] = ch, !.x = @ + 1]
       IN  IF q.x = Width THEN NextLine(q) ELSE q

LineOnPaper(p, string) ==
  LET print[n \in 0 .. Len(string)] == IF n = 0 THEN p ELSE OnPaper(print[n - 1], string[n])
  IN  NextLine(print[Len(string)])

\* The place (x, y) of the screen, on the paper.
PaperAt(p, x, y) == [p EXCEPT !.x = x, !.y = Len(p.lines) - Height + y + 1]

-----------------------------------------------------------------------------
(***************************************************************************)
(* The driver.                                                             *)
(***************************************************************************)
Screen == [cells |-> cells, x |-> cur_x, y |-> cur_y]

\* A faulty scroll_up that leaves the last row as it was.
scroll_up_dirty(memory) == mem_move(memory, 0, Width, Width*(Height - 1))

scroll_up(memory) ==
  mem_set(mem_move(memory, 0, Width, Width*(Height - 1)), Width*(Height - 1), Blank, Width)

advance_xy(s, x, y) ==
  LET wraps == y \/ s.x + x >= Width
      below == IF wraps THEN s.y + 1 ELSE s.y
  IN  [cells |-> IF below >= Height THEN scroll_up(s.cells) ELSE s.cells,
       x |-> IF wraps THEN 0 ELSE s.x + x,
       y |-> IF below >= Height THEN Height - 1 ELSE below]

put_char(s, ch) ==
  advance_xy(IF ch = "\n" THEN s ELSE [s EXCEPT !.cells[s.y*Width + s.x] = ch], 1, ch = "\n")

put_string(s, string) ==
  LET put[n \in 0 .. Len(string)] == IF n = 0 THEN s ELSE put_char(put[n - 1], string[n])
  IN  put_char(put[Len(string)], "\n")

Written(s) ==
  /\ cells' = s.cells
  /\ cur_x' = s.x
  /\ cur_y' = s.y

Call ==
  /\ writes < MaxWrites
  /\ writes' = writes + 1

Driver == Call /\ ~panicking /\ UNCHANGED <<col, row, panicking>>

PutChar(ch) ==
  /\ Driver
  /\ Written(put_char(Screen, ch))
  /\ paper' = OnPaper(paper, ch)

PutString(string) ==
  /\ Driver
  /\ Written(put_string(Screen, string))
  /\ paper' = LineOnPaper(paper, string)

\* goto_xy counts from 1; the callers stay on the screen.
GotoXY(x, y) ==
  /\ Driver
  /\ cur_x' = IF x > 0 THEN x - 1 ELSE 0
  /\ cur_y' = IF y > 0 THEN y - 1 ELSE 0
  /\ paper' = PaperAt(paper, cur_x', cur_y')
  /\ UNCHANGED cells

Clear ==
  /\ Driver
  /\ cells' = mem_set(cells, 0, Blank, Width*Height)
  /\ cur_x' = 0
  /\ cur_y' = 0
  /\ paper' = BlankPaper

-----------------------------------------------------------------------------
(***************************************************************************)
(* The panic: panic_helper prints from the top, panic_helper_impl from     *)
(* PanicRow on, over what is there.                                        *)
(***************************************************************************)
Panel == [cells |-> cells, col |-> col, row |-> row]

new_line(p) ==
  IF p.row + 1 > Height - 1
  THEN [cells |-> scroll_up(p.cells), col |-> 0, row |-> p.row]
  ELSE [p EXCEPT !.col = 0, !.row = @ + 1]

add_char(p, ch) ==
  LET q == [p EXCEPT !.cells[p.row*Width + p.col] = ch, !.col = @ + 1]
  IN  IF q.col >= Width THEN new_line(q) ELSE q

print_char(p, ch) == IF ch = "\n" THEN new_line(p) ELSE add_char(p, ch)

failsafe_print(p, string) ==
  LET print[n \in 0 .. Len(string)] == IF n = 0 THEN p ELSE print_char(print[n - 1], string[n])
  IN  new_line(print[Len(string)])

Panic ==
  /\ Call /\ ~panicking
  /\ panicking' = TRUE
  /\ \E start \in {0, PanicRow} :
       /\ row' = start
       /\ paper' = PaperAt(paper, 0, start)
  /\ col' = 0
  /\ UNCHANGED <<cells, cur_x, cur_y>>

FailsafePrint(string) ==
  /\ Call /\ panicking
  /\ LET p == failsafe_print(Panel, string)
     IN  cells' = p.cells /\ col' = p.col /\ row' = p.row
  /\ paper' = LineOnPaper(paper, string)
  /\ UNCHANGED <<cur_x, cur_y, panicking>>

ConsoleNext ==
  \/ \E ch \in Characters : PutChar(ch)
  \/ \E s \in Strings : PutString(s) \/ FailsafePrint(s)
  \/ \E x \in 0 .. Width, y \in 0 .. Height : GotoXY(x, y)
  \/ Clear \/ Panic

ConsoleSpec == ConsoleInit /\ [][ConsoleNext]_console_vars

-----------------------------------------------------------------------------
\* The screen shows the last lines of everything written, and the cursor of
\* whoever writes stands where the writing goes on, however the lines wrapped
\* and scrolled (text_vga.cpp:61, exception_handler.cpp:19).
ShowsLastLines ==
  LET above == Len(paper.lines) - Height
  IN  /\ \A x \in 0 .. Width - 1, y \in 0 .. Height - 1 :
           cells[y*Width + x] = paper.lines[above + y + 1][x]
      /\ paper.y = above + 1 + (IF panicking THEN row ELSE cur_y)
      /\ paper.x = (IF panicking THEN col ELSE cur_x)
=============================================================================
