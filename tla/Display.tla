------------------------------ MODULE Display -------------------------------
(***************************************************************************)
(* The view of the schedule, draw_tasks of src/src/demo/helpers.cpp: a row *)
(* for each task, a column for so many ticks from now on, a bar where the  *)
(* task is expected to run, and marks where its item may start and has to  *)
(* be complete.  Ticks are unsigned words, and so are their differences.   *)
(* The tick is read three times for each row, and may advance in between.  *)
(***************************************************************************)
EXTENDS Integers, Sequences

CONSTANTS
  Schedules,    \* what may be in the scheduled items from item_upto on
  DrawTicks,    \* when drawing begins; it takes a tick at most
  MaxDraws,     \* how often
  TickWords,    \* how many ticks there are, 2^32
  Scale,        \* how many ticks a column stands for, 20
  Edge, Border, \* the columns that belong to the bars lie between these, 20 and 79
  DisplayRows   \* the tasks named below this have a row, 5

ASSUME DisplayAssumption ==
  /\ Scale \in Nat \ {0} /\ MaxDraws \in Nat /\ DisplayRows \in Nat
  /\ Edge \in Nat \ {0, 1} /\ Border \in Nat /\ Border > Edge /\ TickWords \in Nat
  /\ \A schedule \in Schedules : schedule \in Seq([row : Nat, start : Nat, complete : Nat, bound : Nat])

VARIABLES
  board,  \* what stands on the screen, by row and column
  plan,   \* the schedule that was drawn last
  now,    \* and when
  before, \* how often the tick was read then, before it advanced
  draws   \* how often it was drawn

display_vars == <<board, plan, now, before, draws>>

Cells == (0 .. DisplayRows - 1) \X (Edge - 1 .. Border + 1)

DisplayInit ==
  /\ board = [cell \in Cells |-> "blank"]
  /\ plan = <<>>
  /\ now = 0
  /\ before = 0
  /\ draws = 0

-----------------------------------------------------------------------------
Later(a, b) == IF a < b THEN b ELSE a
Displayed(scheduled) == scheduled.row < DisplayRows

\* Mutant: goes on from the start of the task before.
CompletionAfter_starts(schedule) ==
  LET completion[n \in 0 .. Len(schedule)] ==
        IF n = 0 THEN 0
        ELSE IF Displayed(schedule[n]) THEN Later(schedule[n].start, completion[n - 1])
        ELSE completion[n - 1]
  IN  completion

\* anticipated_completion_of_last_task after each item; those without a row do not move it.
CompletionAfter(schedule) ==
  LET completion[n \in 0 .. Len(schedule)] ==
        IF n = 0 THEN 0
        ELSE IF Displayed(schedule[n]) THEN Later(schedule[n].start, completion[n - 1]) + schedule[n].bound
        ELSE completion[n - 1]
  IN  completion

AnticipatedStart(schedule, k) == Later(schedule[k].start, CompletionAfter(schedule)[k - 1])

\* The expected and the allowed times are words as well, and the screen does not
\* reach beyond the last tick.
ASSUME TicksFit ==
  /\ \A tick_now \in DrawTicks : tick_now \in Nat /\ tick_now + 1 + Border * Scale < TickWords
  /\ \A schedule \in Schedules : \A k \in DOMAIN schedule :
       AnticipatedStart(schedule, k) < TickWords /\ schedule[k].complete < TickWords

\* How many columns away from Edge a tick is; one that has passed is far away.
ColumnsAway(tick_at, tick_now) == ((tick_at - tick_now) % TickWords) \div Scale

\* The columns of the bar of the kth item.
Bar(schedule, k, tick_now) ==
  LET bar_start == ColumnsAway(AnticipatedStart(schedule, k), tick_now) + Edge
      bar_end   == bar_start + schedule[k].bound \div Scale
  IN  {c \in Edge + 1 .. Border - 1 : bar_start <= c /\ c < bar_end}

StartMark(i, tick_now) ==
  {c \in {ColumnsAway(i.start, tick_now) + Edge - 1} : Edge - 1 < c /\ c < Border}
CompleteMark(i, tick_now) ==
  {c \in {ColumnsAway(i.complete, tick_now) + Edge - 2} : Edge - 1 < c /\ c < Border}

\* Mutant: a blank too few.
Cleared_short(cells) ==
  [cell \in Cells |-> IF cell[2] = Edge THEN "line"
                      ELSE IF cell[2] < Border - 1 THEN "blank" ELSE cells[cell]]

\* The blanks and the line that clear the rows of their bars.
Cleared(cells) ==
  [cell \in Cells |-> IF cell[2] = Edge THEN "line"
                      ELSE IF cell[2] < Border THEN "blank" ELSE cells[cell]]

\* The answers of current_tick() to the kth row: for its bar and its two marks.
TickAt(read, first, advance) == IF read <= advance THEN first ELSE first + 1
ForBar(k) == 3 * k - 2
ForStart(k) == 3 * k - 1
ForComplete(k) == 3 * k

WithItem(cells, schedule, k, first, advance) ==
  LET i == schedule[k]
      Tick(read) == TickAt(read, first, advance)
  IN  [cell \in Cells |->
         IF cell[1] # i.row THEN cells[cell]
         ELSE IF cell[2] \in CompleteMark(i, Tick(ForComplete(k))) THEN "complete"
         ELSE IF cell[2] \in StartMark(i, Tick(ForStart(k))) THEN "start"
         ELSE IF cell[2] \in Bar(schedule, k, Tick(ForBar(k))) THEN "bar"
         ELSE cells[cell]]

Drawn(cells, schedule, first, advance) ==
  LET drawn[n \in 0 .. Len(schedule)] ==
        IF n = 0 THEN Cleared(cells) ELSE WithItem(drawn[n - 1], schedule, n, first, advance)
  IN  drawn[Len(schedule)]

draw_tasks ==
  /\ draws < MaxDraws
  /\ \E schedule \in Schedules, first \in DrawTicks : \E advance \in 0 .. 3 * Len(schedule) :
       /\ first > now
       /\ board' = Drawn(board, schedule, first, advance)
       /\ plan' = schedule
       /\ now' = first
       /\ before' = advance
  /\ draws' = draws + 1

DisplayNext == draw_tasks

DisplaySpec == DisplayInit /\ [][DisplayNext]_display_vars

-----------------------------------------------------------------------------
\* When the kth item is expected to be complete: the latest of the times at
\* which it is when one of those up to it starts in time and none waits then.
Finish(k) ==
  LET bounds[n \in 0 .. Len(plan)] ==
        IF n = 0 THEN 0
        ELSE IF Displayed(plan[n]) THEN bounds[n - 1] + plan[n].bound ELSE bounds[n - 1]
      finishes == {plan[j].start + bounds[k] - bounds[j - 1] : j \in {i \in 1 .. k : Displayed(plan[i])}}
  IN  CHOOSE f \in finishes : \A g \in finishes : g <= f

\* The ticks a column stands for, in what was drawn after so many reads of the tick.
TicksOf(c, read) == {TickAt(read, now, before) + Scale * (c - Edge) + t : t \in 0 .. Scale - 1}

\* What is on the board is of the schedule as it is, and nothing is left of what
\* was drawn before: a bar is where its task is expected to run, and no two tasks
\* at once unless the tick advances meanwhile; a mark is where an item of its row
\* starts or has to be complete (helpers.cpp:172 to 215).  And what is expected to
\* run from now on has a column for each Scale ticks.
BoardShowsPlan ==
  LET items_shown(r) == {k \in DOMAIN plan : plan[k].row = r}
      Runs(k) == Finish(k) - plan[k].bound .. Finish(k) - 1
  IN  draws > 0 => \A cell \in Cells :
        LET r == cell[1]
            c == cell[2]
        IN  /\ c >= Border => board[cell] = "blank"
            /\ board[cell] = "bar" =>
                 /\ \E k \in items_shown(r) : Runs(k) \cap TicksOf(c, ForBar(k)) # {}
                 /\ before = 3 * Len(plan) =>
                      \A other \in Cells : other[2] = c /\ board[other] = "bar" => other = cell
            /\ board[cell] = "start" =>
                 \E k \in items_shown(r) : plan[k].start \in TicksOf(c + 1, ForStart(k))
            /\ board[cell] = "complete" =>
                 \E k \in items_shown(r) : plan[k].complete \in TicksOf(c + 2, ForComplete(k))
            /\ (\E k \in items_shown(r) :
                  /\ Edge < c /\ c < Border
                  /\ Finish(k) - plan[k].bound >= TickAt(ForBar(k), now, before)
                  /\ \E n \in 1 .. plan[k].bound \div Scale :
                       Finish(k) - plan[k].bound + Scale * (n - 1) \in TicksOf(c, ForBar(k)))
                 => board[cell] # "blank"
=============================================================================
