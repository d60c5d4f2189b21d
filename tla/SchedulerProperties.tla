------------------------ MODULE SchedulerProperties ------------------------
(***************************************************************************)
(* What the scheduler of module Scheduler guarantees, and what the         *)
(* repository says of it that it does not.                                 *)
(***************************************************************************)
EXTENDS Scheduler

Tasks == 1 .. Len(task_list)

Task == [name: Nat, kind: Kinds, wait_for: Nat, start: Nat, bound: Nat,
         complete: Nat, period: Nat, time_evaluated_upto: Nat,
         last_exec_start: Nat, last_exec_end: Nat,
         times_called: Nat, deadline_failures: Nat]

Item == [task: 0 .. Len(task_list), start: Nat, complete: Nat, done: BOOLEAN]

\* The places of the run loop at which a task body, or what run_task does
\* around it, is being executed; and all the places.
InTask == {"purge", "next_task", "convert", "occurrences", "add", "end"}
Places == InTask \cup {"boot", "loop", "wait", "key", "arm", "start", "disarm"} \cup Terminal

TasksOK == task_list \in Seq(Task) /\ Len(task_list) <= MAX_TASKS
Counters ==
  /\ items \in 0 .. MAX_SCHEDULED_ITEMS
  /\ item_upto \in 0 .. items
  /\ index_sorted_upto \in 0 .. items
Named(l, n) == \A i \in 0 .. n - 1 : l[i].task # 0
ListOK ==
  /\ list \in [Slots -> Item] /\ Named(list, items)
  /\ item \in Slots /\ current \in Item
ClockOK == tick \in Nat /\ preempt_at_tick \in Nat
ControlOK ==
  /\ pc \in Places /\ caller \in {"boot", "adds", "online"}
  /\ request \in 0 .. Len(BootRequests) /\ status \in Statuses
  /\ converting \in 0 .. Len(task_list) + 1
  /\ schedule_time \in Nat /\ finish_time \in Nat
  /\ executed \subseteq Nat \X Nat /\ rejected \subseteq Nat

(***************************************************************************)
(* The counters stay within the list and the list holds items of tasks     *)
(* that exist: every place below the count, and the item the run loop      *)
(* points at, names a task.                                                *)
(***************************************************************************)
TypeOK == TasksOK /\ Counters /\ ListOK /\ ClockOK /\ ControlOK

-----------------------------------------------------------------------------
(***************************************************************************)
(* Properties that hold.                                                   *)
(***************************************************************************)

\* The periodic tasks, the items of a task, and how far a task has been
\* turned into items.
Periodic   == {t \in Tasks : task_list[t].period # 0}
ItemsOf(t) == {i \in 0 .. items - 1 : list[i].task = t}
EvaluatedUpto(t) ==
  IF pc = "occurrences" /\ converting = t THEN schedule_time
                                          ELSE task_list[t].time_evaluated_upto

NoOccurrenceTwice ==
  \A i, j \in 0 .. items - 1 :
    list[i].task = list[j].task /\ list[i].start = list[j].start => i = j

NoGap ==
  \A t \in Periodic : \A i \in ItemsOf(t) :
    LET next == list[i].start + task_list[t].period IN
    next = EvaluatedUpto(t) \/ \E j \in ItemsOf(t) : list[j].start = next

\* No occurrence of a task is in the list twice, whatever the order in which
\* requests, conversions, sorts and purges come (schedule.cpp:162, "evaluate
\* from where it was evaluated upto last time it was converted"), and the items
\* of a periodic task follow one another without a gap up to where the task has
\* been evaluated: neither sorting nor purging loses one.
EveryOccurrenceOnce == NoOccurrenceTwice /\ NoGap

\* The next occurrence of the online scheduler, while no task runs.
PendingUpdates ==
  {list[i].start : i \in {k \in item_upto .. items - 1 :
                            task_list[list[k].task].kind = "online_scheduler"}}
BetweenTasks == pc \in {"loop", "wait", "key", "arm"}

\* Every periodic task without an end has been evaluated up to the next run of
\* the online scheduler (schedule.cpp:165, README.md:19).  As it is one of them
\* itself, it always has a next run, and main() never returns.
EvaluatedToNextUpdate ==
  BetweenTasks =>
    \A t \in Periodic :
      task_list[t].complete = 0 =>
        \E update \in PendingUpdates : update <= task_list[t].time_evaluated_upto

\* A task that has run returned before its execution bound and the margin were
\* used up, else the preemptor would have ended the system.
RunsAreBounded ==
  \A t \in Tasks :
    task_list[t].last_exec_end >= task_list[t].last_exec_start =>
      \/ task_list[t].last_exec_end = 0
      \/ task_list[t].last_exec_end - task_list[t].last_exec_start
           < task_list[t].bound + FudgeMargin

\* Whenever items are about to be added, the part of the list that an addition
\* would sort again (schedule.cpp:133) ends behind its start: k_qsort is given
\* an unsigned length, and ends the system when that is above 5000.
SortRange ==
  (/\ pc \in {"boot", "add", "convert", "occurrences"}
   /\ items < MAX_SCHEDULED_ITEMS /\ index_sorted_upto # 0) =>
    \A start \in 0 .. list[index_sorted_upto - 1].complete - 1 :
      FirstOverlap(list, start) <= items

\* No occurrence is run twice (helpers.cpp:227: the loop passes each item once).
RunOnce ==
  [][current = NoItem /\ current' # NoItem
       => <<current'.task, current'.start>> \notin executed]_vars

\* The items the run loop has passed have been run.
NoneSkipped ==
  \A i \in 0 .. item_upto - 1 : <<list[i].task, list[i].start>> \in executed

-----------------------------------------------------------------------------
(***************************************************************************)
(* The inductive invariant behind TypeOK, SortRange and RunsAreBounded.    *)
(***************************************************************************)

\* The run loop has not started / is at an item it holds, not yet running /
\* is executing the body of the task of that item.
Booting   == caller = "boot"
HasItem   == pc \in {"wait", "key", "arm", "start"}
IsRunning == ~Booting /\ pc \in InTask

\* Before timer.enable() no task has run and no preemptor is installed.
BootInv ==
  /\ Booting => pc \in {"boot", "convert", "occurrences"} \cup Terminal
  /\ pc = "boot" => Booting
  /\ Booting => /\ item_upto = 0 /\ preempt_at_tick = 0
                /\ \A t \in Tasks : task_list[t].last_exec_end = 0

\* The place the run loop points at, and the task being converted.
PointerInv ==
  /\ HasItem => item = item_upto
  /\ HasItem \/ IsRunning \/ pc = "disarm" => item_upto < items
  /\ IsRunning => list[item].task # 0 /\ current.task # 0
  /\ pc \in {"next_task", "convert", "occurrences"} => converting # 0
  /\ pc \in {"convert", "occurrences"} => converting <= Len(task_list)

\* The preemptor is due after the present tick, and no later than the bound of
\* the task and the margin after the tick at which the task started.
PreemptorInv ==
  /\ \A t \in Tasks : task_list[t].last_exec_end <= tick
  /\ pc = "start" =>
       /\ tick < preempt_at_tick
       /\ preempt_at_tick <= tick + task_list[list[item].task].bound + FudgeMargin
  /\ IsRunning =>
       LET t == task_list[current.task] IN
       /\ t.last_exec_start <= tick
       /\ tick < preempt_at_tick
       /\ preempt_at_tick <= t.last_exec_start + t.bound + FudgeMargin

\* What the theorems on TypeOK, SortRange and RunsAreBounded are proved from:
\* in every step each part is needed to keep another.
IInv == TypeOK /\ BootInv /\ PointerInv /\ PreemptorInv /\ RunsAreBounded

-----------------------------------------------------------------------------
(***************************************************************************)
(* The inductive invariant behind EveryOccurrenceOnce, as long as the list *)
(* has room left and no task waits for another.                            *)
(***************************************************************************)
RoomLeft  == items < MAX_SCHEDULED_ITEMS
NoneWaits == \A t \in Tasks : task_list[t].wait_for = 0

\* Of a list l with n items of tasks with the periods P, converted up to the
\* times U: no occurrence is there twice; those of a periodic task end one period
\* after they start, before what is yet to be converted; they are in order; and
\* none is missing between them.
Once(l, n) ==
  \A i, j \in 0 .. n - 1 : l[i].task = l[j].task /\ l[i].start = l[j].start => i = j
Converted(l, n, P, U) ==
  \A i \in 0 .. n - 1 : P[l[i].task] # 0 =>
    /\ l[i].start < U[l[i].task]
    /\ l[i].complete = l[i].start + P[l[i].task]
Ordered(l, n, P) ==
  \A i, j \in 0 .. n - 1 :
    i < j /\ l[i].task = l[j].task /\ P[l[i].task] # 0 => l[i].start < l[j].start
Gapless(l, n, P, U) ==
  \A i \in 0 .. n - 1 : P[l[i].task] # 0 =>
    LET next == l[i].start + P[l[i].task] IN
    \/ next = U[l[i].task]
    \/ \E j \in 0 .. n - 1 : l[j].task = l[i].task /\ l[j].start = next

Periods == [t \in Tasks |-> task_list[t].period]
Uptos   == [t \in Tasks |-> EvaluatedUpto(t)]

\* Only periodic tasks are converted.
ConvertsPeriodic ==
  pc \in {"convert", "occurrences"} => task_list[converting].period # 0

\* What the theorems on NoOccurrenceTwice and on EveryOccurrenceOnce are proved
\* from.  Without the order, dropping the first items could leave a gap.
TwiceInv == Once(list, items) /\ Converted(list, items, Periods, Uptos) /\ ConvertsPeriodic
GapInv   == NoneWaits /\ Ordered(list, items, Periods) /\ Gapless(list, items, Periods, Uptos)
OnceInv  == TwiceInv /\ GapInv

-----------------------------------------------------------------------------
(***************************************************************************)
(* The invariants behind RunOnce, NoneSkipped and EvaluatedToNextUpdate.   *)
(* The first needs that the items the run loop has passed, and the one it  *)
(* stands at, stay where they are until a purge moves the list; the second *)
(* ensures it when all tasks are slower than the online scheduler.  The    *)
(* third is about tasks of any pace, such as those of main().              *)
(***************************************************************************)
StayAt(k) == list'[k].task = list[k].task /\ list'[k].start = list[k].start
PassedStay ==
  ~Booting /\ item_upto' = item_upto => \A k \in 0 .. item_upto : k < items => StayAt(k)

Occurrence(i) == <<list[i].task, list[i].start>>

\* The item the run loop points at is yet to be started; it has been started.
Standing == Booting \/ pc \in {"loop", "wait", "key", "arm", "start"}
Started  == IsRunning \/ pc = "disarm"

\* What has been started was converted before, and is not to come again.
RanInv ==
  /\ Booting => executed = {}
  /\ \A e \in executed : /\ e[1] \in Tasks
                         /\ Periods[e[1]] # 0 => e[2] < Uptos[e[1]]
  /\ \A i \in 0 .. items - 1 :
       i > item_upto \/ (i = item_upto /\ Standing) => Occurrence(i) \notin executed
  /\ Started => Occurrence(item_upto) \in executed
  /\ NoneSkipped

\* The first request is for the online scheduler, the others are for tasks that
\* are called less often, from the start and without an end.
SlowerThanOnline ==
  /\ BootRequests # <<>>
  /\ BootRequests[1].kind = "online_scheduler"
  /\ BootRequests[1].period \in 1 .. UPDATE_SCHEDULE_RATE - 1
  /\ BootRequests[1].bound <= BootRequests[1].period
  /\ \A i \in 2 .. Len(BootRequests) :
       /\ BootRequests[i].kind = "work"
       /\ BootRequests[i].period > BootRequests[1].period
  /\ \A i \in 1 .. Len(BootRequests) :
       BootRequests[i].start = 0 /\ BootRequests[i].complete = 0

UpdatePeriod == BootRequests[1].period
OnlineBody   == {"purge", "next_task", "convert", "occurrences"}

\* Task t, or every task, has been evaluated beyond a time.
Beyond(t, time)  == Uptos[t] > time
AllBeyond(time)  == \A t \in Tasks : Beyond(t, time)

\* Task 1 is the online scheduler, and no other body changes the list.
TasksPaced ==
  /\ caller # "adds" /\ pc # "add"
  /\ request > 0 <=> Tasks # {}
  /\ \A t \in Tasks :
       /\ task_list[t].complete = 0
       /\ t = 1 => task_list[t].kind = "online_scheduler" /\ task_list[t].period = UpdatePeriod
       /\ t # 1 => task_list[t].kind = "work" /\ task_list[t].period > UpdatePeriod

\* Until the first sort, the first item is the online scheduler's, and the earliest.
FirstUpdate ==
  index_sorted_upto = 0 =>
    /\ item_upto = 0
    /\ items > 0 => /\ list[0].task = 1
                    /\ \A i \in 0 .. items - 1 : list[0].start <= list[i].start
                    /\ \A t \in Tasks : list[0].start <= Uptos[t]

\* What the run loop passes is sorted, but the online scheduler's first item.
SortPaced ==
  /\ FirstUpdate
  /\ Booting => index_sorted_upto = 0
  /\ ~Booting =>
       /\ Standing => index_sorted_upto \in {0, items}
       /\ pc \in {"end", "disarm"} => index_sorted_upto = items
       /\ pc \in OnlineBody => index_sorted_upto = 0 \/ index_sorted_upto > item_upto

\* Until the run loop starts, each task is evaluated beyond the first update,
\* except for the one that is being converted.
BootPaced ==
  Booting /\ pc \notin Terminal =>
    /\ items > 0 => list[0].start <= tick
    /\ items = 0 => Tasks = {} \/ (pc # "boot" /\ Tasks = {1})
    /\ \A t \in Tasks : \/ items > 0 /\ Beyond(t, list[0].start + UpdatePeriod)
                        \/ pc # "boot" /\ t = converting
    /\ pc = "convert" => Uptos[converting] <= tick
    /\ pc = "occurrences" =>
         /\ finish_time > (IF items > 0 THEN list[0].start ELSE schedule_time) + UpdatePeriod
         /\ items = 0 => schedule_time <= tick

\* An update has reached the tasks before the one being converted; then there is
\* a next one, which all tasks have been evaluated beyond.
NextUpdateFrom(place) ==
  \E i \in place .. items - 1 : list[i].task = 1 /\ AllBeyond(list[i].start + UpdatePeriod)
Updating ==
  /\ list[item_upto].task = 1
  /\ AllBeyond(list[item_upto].start + UpdatePeriod)
  /\ pc # "purge" => \A t \in Tasks :
       t < converting => Beyond(t, list[item_upto].start + 2*UpdatePeriod)
  /\ pc = "occurrences" => finish_time > list[item_upto].start + 2*UpdatePeriod
Updated ==
  \/ list[item_upto].task = 1 /\ AllBeyond(list[item_upto].start + 2*UpdatePeriod)
  \/ NextUpdateFrom(item_upto + 1)
UpdatePaced ==
  ~Booting =>
    /\ Standing => NextUpdateFrom(item_upto)
    /\ pc \in {"arm", "start"} \cup OnlineBody => list[item_upto].start <= tick
    /\ pc \in OnlineBody => Updating
    /\ pc \in {"end", "disarm"} => Updated

PaceInv == TasksPaced /\ SortPaced /\ BootPaced /\ UpdatePaced

\* The first request is for the online scheduler, as in main(); the others are for
\* tasks of any pace.  Those without an end may run from the start, and a task that
\* adds another runs once, before the start of the other, which has an end.
OnlineFirst ==
  /\ BootRequests # <<>>
  /\ BootRequests[1].kind = "online_scheduler"
  /\ BootRequests[1].period \in 1 .. UPDATE_SCHEDULE_RATE - 1
  /\ BootRequests[1].bound <= BootRequests[1].period
  /\ BootRequests[1].start = 0 /\ BootRequests[1].complete = 0
  /\ \A i \in 2 .. Len(BootRequests) :
       LET r == BootRequests[i] IN
       /\ r.kind # "online_scheduler"
       /\ r.period # 0 /\ r.complete = 0 => r.start = 0
       /\ r.kind = "adds" =>
            /\ r.period = 0 /\ r.complete < OnTheFly.start
            /\ OnTheFly.kind = "work"
            /\ OnTheFly.period = 0 \/ OnTheFly.complete # 0

\* The tasks that are called again and again; all of them are evaluated beyond a time.
Endless       == {t \in Tasks : task_list[t].period # 0 /\ task_list[t].complete = 0}
Reached(time) == \A t \in Endless : Uptos[t] > time

\* Task 1 alone is the online scheduler; a task that adds another runs once.
TasksKnown ==
  /\ request > 0 <=> Tasks # {}
  /\ \A t \in Tasks :
       /\ t = 1 <=> task_list[t].kind = "online_scheduler"
       /\ t = 1 => task_list[t].period = UpdatePeriod /\ task_list[t].complete = 0
       /\ task_list[t].kind = "adds" =>
            /\ task_list[t].period = 0
            /\ OnTheFly.kind = "work"
            /\ OnTheFly.period = 0 \/ OnTheFly.complete # 0

\* The items of a task that adds another end before the other starts.
AddersEnd ==
  \A i \in 0 .. items - 1 :
    task_list[list[i].task].kind = "adds" => list[i].complete < OnTheFly.start

\* What has been sorted; before the first sort the run loop stands at the first item.
Sorted == IF index_sorted_upto = 0 THEN items ELSE index_sorted_upto
SortAhead ==
  /\ Booting => index_sorted_upto = 0
  /\ index_sorted_upto = 0 => item_upto = 0 /\ (items > 0 => list[0].task = 1)
  /\ pc = "next_task" => caller = "online"

\* Until the run loop starts, each endless task is evaluated beyond the first update,
\* except for the one that is being converted.
BootAhead ==
  Booting /\ pc \notin Terminal =>
    /\ items > 0 => list[0].start <= tick
    /\ items = 0 => Tasks = {} \/ (pc # "boot" /\ Tasks = {1})
    /\ \A t \in Endless : \/ items > 0 /\ Uptos[t] > list[0].start
                          \/ pc # "boot" /\ t = converting
    /\ pc = "convert" /\ converting \in Endless =>
         /\ Uptos[converting] <= tick
         /\ items > 0 => list[0].start <= Uptos[converting]
    /\ pc = "occurrences" /\ converting \in Endless =>
         /\ finish_time > (IF items > 0 THEN list[0].start ELSE schedule_time)
         /\ items = 0 => schedule_time <= tick

\* From a place on there is an update, among what is sorted, that the endless tasks
\* are evaluated beyond.
UpdateFrom(place) == \E i \in place .. Sorted - 1 : list[i].task = 1 /\ Reached(list[i].start)

\* The body of the online scheduler runs, or that of a task that adds another.
UpdateRuns == \/ pc \in {"purge", "next_task"}
              \/ pc \in {"convert", "occurrences"} /\ caller = "online"
AdderRuns  == pc = "add" \/ (pc \in {"convert", "occurrences"} /\ caller = "adds")

\* The item that runs may have been moved back, but not to before item_upto.
UpdateAhead ==
  LET s == current.start IN
  /\ current.task = 1 /\ s <= tick /\ Reached(s)
  /\ item_upto < Sorted
  /\ \E i \in item_upto .. items - 1 : list[i].task = 1 /\ list[i].start = s
  /\ pc # "purge" => \A t \in Endless : t < converting => Uptos[t] > s + UpdatePeriod
  /\ pc = "occurrences" /\ converting \in Endless => finish_time > s + UpdatePeriod
AdderAhead ==
  /\ task_list[list[item_upto].task].kind = "adds"
  /\ list[item_upto].complete < OnTheFly.start
  /\ pc # "add" => converting \notin Endless /\ list[item_upto].complete < Uptos[converting]

RunAhead ==
  ~Booting =>
    /\ Standing => UpdateFrom(item_upto)
    /\ pc \in {"arm", "start"} => list[item_upto].start <= tick
    /\ UpdateRuns => UpdateAhead
    /\ AdderRuns => AdderAhead
    /\ AdderRuns \/ pc \in {"end", "disarm"} =>
         index_sorted_upto # 0 /\ UpdateFrom(item_upto + 1)

\* What the theorem on EvaluatedToNextUpdate is proved from.
AheadInv == TasksKnown /\ AddersEnd /\ SortAhead /\ BootAhead /\ RunAhead

\* The invariants of the list, and what they need: that the list has room left.
OccurrencesInv == RoomLeft /\ OnceInv /\ RanInv /\ PaceInv /\ AheadInv

-----------------------------------------------------------------------------
(***************************************************************************)
(* The preemptor.  The run loop watches one task at a time, with the bound *)
(* of the task as it is while it is watched, and is ended as module        *)
(* Preemptor says; the ticks of the boot, before timer.enable() sets the   *)
(* clock back, do not count.                                               *)
(***************************************************************************)
Watched ==
  IF preempt_at_tick = 0 THEN <<0, 0>> ELSE <<preempt_data, task_list[preempt_data].bound>>

Watching == INSTANCE Preemptor WITH
  Tasks   <- (1 .. MAX_TASKS) \X Nat,
  NoTask  <- <<0, 0>>,
  Allowed <- [t \in (1 .. MAX_TASKS) \X Nat |-> t[2] + FudgeMargin],
  now     <- IF Booting THEN 0 ELSE tick,
  watched <- Watched,
  due     <- preempt_at_tick,
  blamed  <- IF pc = "killed" THEN Watched ELSE <<0, 0>>

\* No preemptor is installed between two tasks, and one that is was installed for
\* a task.
WatchInv ==
  /\ pc \in {"boot", "loop", "wait", "key", "arm"} => preempt_at_tick = 0
  /\ preempt_at_tick # 0 => preempt_data \in Tasks

-----------------------------------------------------------------------------
(***************************************************************************)
(* Fairness: the processor keeps executing the run loop and the bodies it  *)
(* calls, and the timer keeps interrupting it.  A body that never returned *)
(* would be ended by the preemptor, so that fairness of its return asks no *)
(* more of it than that it does not stop the clock.  CanStep is when       *)
(* RunLoop \/ TaskBodies has a step, and its steps are those that do not    *)
(* advance the tick by one.                                                *)
(***************************************************************************)
CanStep == pc \notin Terminal \cup {"wait"}
Progress == []<>~CanStep \/ []<><<tick' # tick + 1>>_vars
FairSpec == Spec /\ Progress /\ WF_vars(Tick)

Listed(t, s) == \E i \in item_upto .. items - 1 : list[i].task = t /\ list[i].start = s

\* Every item in the list is run, unless the system ends, or the modelled time
\* does while the run loop waits for the start of this item or an earlier one.
EveryItemRuns ==
  \A t \in 1 .. MAX_TASKS : \A s \in 0 .. MaxTick :
    Listed(t, s) ~> \/ <<t, s>> \in executed
                    \/ pc \in Terminal
                    \/ pc = "wait" /\ tick = MaxTick /\ Listed(t, s)

-----------------------------------------------------------------------------
(***************************************************************************)
(* What the repository says and the code does not do.                      *)
(***************************************************************************)

\* A deadline that is missed is counted as one of the task that missed it (the
\* "deadline failures" task.cpp:107 displays).
MissesAreCounted ==
  [][pc = "end" /\ pc' = "disarm" /\ tick > current.complete =>
       task_list'[current.task].deadline_failures
         = task_list[current.task].deadline_failures + 1]_vars

\* "couldn't add" a task (helpers.cpp:91): a task whose request was rejected
\* does not run.
RejectedNeverRun == \A o \in executed : o[1] \notin rejected

\* wait_for_not_present (schedule.h:52) is the answer when the task to wait for
\* is not present: "must topologically sort requests in advance" (helpers.cpp:79).
WaitForAnswer ==
  request > 0 /\ status = "wait_for_not_present" /\ pc = "boot" =>
    \A t \in Tasks : task_list[t].name # BootRequests[request].wait_for
=============================================================================
