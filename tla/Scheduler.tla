----------------------------- MODULE Scheduler -----------------------------
(***************************************************************************)
(* The scheduler of src/src/kernel/schedule.cpp and task.cpp, driven by    *)
(* the boot sequence of src/src/demo/main.cpp, by the run loop of          *)
(* src/src/demo/helpers.cpp, and by the timer interrupt of                 *)
(* src/src/arch/x86/driver.cpp.                                            *)
(*                                                                         *)
(* There are two actors.  The run loop goes from boot through the          *)
(* scheduled items, one at a time; the online scheduler is itself one of   *)
(* the tasks it runs, and a task may add tasks.  The timer interrupt       *)
(* advances the tick and stops the system when the armed preemptor is due. *)
(* pc is the place of the run loop.  An action reads the tick at most      *)
(* once, so that the interrupt falls between any two reads of the tick.    *)
(*                                                                         *)
(* A task_t* is the place of the task in task_list (0 for nullptr), a      *)
(* scheduled_item_t* the place of the item in list.                        *)
(***************************************************************************)
EXTENDS Integers, Sequences, FiniteSets, Heapsort

CONSTANTS
  UPDATE_SCHEDULE_RATE,  \* how far one conversion reaches (schedule.h:12)
  MAX_SCHEDULED_ITEMS,   \* the limit add_to_scheduled_item_list tests
  MAX_TASKS,             \* the limit add_task_to_schedule tests
  FudgeMargin,           \* ticks a task may run past its bound (helpers.cpp:280)
  BootRequests,          \* the requests of main(), in order
  OnTheFly,              \* the request a task of kind "adds" makes
  BootTicks,             \* bound: ticks that may pass before the run loop
  MaxTick,               \* bound: the last tick modelled
  Lag                    \* bound: ticks by which a due item is noticed late

\* A faulty horizon (for mutation): the present.
EVENT_HORIZON_none == 0

EVENT_HORIZON == 2 * UPDATE_SCHEDULE_RATE

\* What func_ptr stands for: the three kinds of task bodies of the repository.
Kinds == {"online_scheduler", "work", "adds"}

Request == [name: Nat, kind: Kinds, wait_for: Nat, start: Nat, bound: Nat,
            complete: Nat, period: Nat]

ASSUME ConstantsAssumption ==
  /\ UPDATE_SCHEDULE_RATE \in Nat \ {0}
  /\ MAX_SCHEDULED_ITEMS \in Nat \ {0, 1}
  /\ MAX_TASKS \in Nat \ {0}
  /\ FudgeMargin \in Nat \ {0}
  /\ BootRequests \in Seq(Request)
  /\ OnTheFly \in Request
  /\ {BootTicks, MaxTick, Lag} \subseteq Nat

VARIABLES
  tick,             \* current_tick_
  preempt_at_tick,  \* when the installed preemptor is due, 0 if none is
  task_list,        \* the tasks, a sequence
  list,             \* _scheduled_item_list and the place behind it
  items,            \* _items_in_scheduled_item_list
  item_upto,        \* _item_upto
  index_sorted_upto,\* _index_sorted_upto
  pc,               \* where the run loop is
  item,             \* the scheduled_item_t* the run loop holds
  current,          \* the item as it was when run_task was called with its task
  preempt_data,     \* the task it is told to end, what user_preempt_data points at
  request,          \* how many requests of BootRequests have been made
  status,           \* the answer to the last request
  caller,           \* who converts a task: "boot", "adds" or "online"
  converting,       \* the task being converted
  schedule_time,    \* the local variables of the conversion
  finish_time,
  executed,         \* history: the occurrences that have been started
  rejected          \* history: the tasks stored although the answer was not "accepted"

schedule_vars == <<list, items, item_upto, index_sorted_upto>>
run_vars      == <<item, current, executed, preempt_data>>
convert_vars  == <<caller, converting, schedule_time, finish_time>>
request_vars  == <<request, status, rejected>>
vars == <<tick, preempt_at_tick, task_list, schedule_vars, pc,
          run_vars, request_vars, convert_vars>>

-----------------------------------------------------------------------------
Slots == 0 .. MAX_SCHEDULED_ITEMS - 1

\* _scheduled_item_list has MAX_SCHEDULED_ITEMS - 1 elements: the last of the
\* Slots is the memory behind it.  Likewise for the task list.
InArray(i) == i < MAX_SCHEDULED_ITEMS - 1

NoItem == [task |-> 0, start |-> 0, complete |-> 0, done |-> FALSE]

Statuses == {"accepted", "bound_gt_period", "bound_gt_start_to_complete",
             "wait_for_not_present", "schedule_full",
             "scheduled_item_buffer_too_small"}

Terminal == {"killed", "exited", "finished", "corrupt"}

\* scheduled_item_cmp(a, b) < 0: having to wait for a task comes before deadlines.
Before(a, b) ==
  LET ta == task_list[a.task]
      tb == task_list[b.task]
  IN  IF ta.wait_for # 0 /\ ta.wait_for = tb.name THEN FALSE
      ELSE \/ tb.wait_for # 0 /\ tb.wait_for = ta.name
           \/ a.complete < b.complete

\* The list once sort_schedule has reordered its places lo .. hi - 1.
Reordered(l, lo, hi, order) ==
  [i \in Slots |-> IF i \in lo .. hi - 1 THEN l[order[i]] ELSE l[i]]

SortedOrder(l, lo) ==
  k_qsort(lo, items, {p \in Slots \X Slots : Before(l[p[1]], l[p[2]])})

\* A faulty sort: it starts at the first item, even one that was run.
SortSchedule_whole(l, lo) ==
  LET order == SortedOrder(l, 0) IN
  /\ list' = Reordered(l, 0, items, order)
  /\ index_sorted_upto' = items

\* sort_schedule, which starts at index_sorted_upto = lo.
SortSchedule(l, lo) ==
  /\ list' = Reordered(l, lo, items, SortedOrder(l, lo))
  /\ index_sorted_upto' = items

\* A faulty search: it looks at where the items start.
FirstOverlap_start(l, start) ==
  CHOOSE i \in item_upto .. MAX_SCHEDULED_ITEMS :
    /\ i > index_sorted_upto \/ l[i].start >= start
    /\ \A j \in item_upto .. i - 1 : j <= index_sorted_upto /\ l[j].start < start

\* The first place from item_upto on whose item does not complete before start;
\* the search ends behind the sorted part.
FirstOverlap(l, start) ==
  CHOOSE i \in item_upto .. MAX_SCHEDULED_ITEMS :
    /\ i > index_sorted_upto \/ l[i].complete >= start
    /\ \A j \in item_upto .. i - 1 : j <= index_sorted_upto /\ l[j].complete < start

(***************************************************************************)
(* add_to_scheduled_item_list where it does not return false.  The new     *)
(* item is stored behind the others; if it starts before the sorted part   *)
(* ends, that part is sorted again from the first item it overlaps, before *)
(* the new item is counted.                                                *)
(***************************************************************************)
AddToScheduledItemList(task, start, complete) ==
  LET l == [list EXCEPT ![items] = [task |-> task, start |-> start,
                                    complete |-> complete, done |-> FALSE]]
      overlaps == /\ items # 0 /\ index_sorted_upto # 0
                  /\ l[index_sorted_upto - 1].complete > start
  IN  /\ items < MAX_SCHEDULED_ITEMS
      /\ items' = items + 1
      /\ IF overlaps
         THEN SortSchedule(l, FirstOverlap(l, start))
         ELSE list' = l /\ UNCHANGED index_sorted_upto
      /\ UNCHANGED item_upto

\* Storing behind an array is undefined: the memory there is unused, or holds
\* the counters of the list, after which nothing can be said of the system.
Stored(inArray, next) ==
  \/ pc' = next
  \/ ~inArray /\ pc' = "corrupt"

-----------------------------------------------------------------------------
(***************************************************************************)
(* request_to_add_task, add_task_to_schedule and off_line_scheduler.       *)
(***************************************************************************)

\* The tests a request must pass before the task is stored.  The search for
\* the task to wait for looks for the name of the new task itself.
Verdict(r) ==
  IF r.wait_for # 0 /\ \A i \in 1 .. Len(task_list) : task_list[i].name # r.name
  THEN "wait_for_not_present"
  ELSE IF r.start # 0 /\ r.complete # 0 /\ r.start + r.bound > r.complete
  THEN "bound_gt_start_to_complete"
  ELSE IF r.period # 0 /\ r.bound > r.period THEN "bound_gt_period"
  ELSE IF Len(task_list) = MAX_TASKS THEN "schedule_full"
  ELSE "accepted"

\* The task_t add_task_to_schedule fills in.
NewTask(r) ==
  [name |-> r.name, kind |-> r.kind, wait_for |-> r.wait_for, start |-> r.start,
   bound |-> r.bound, complete |-> r.complete, period |-> r.period,
   time_evaluated_upto |-> IF r.start = 0 THEN tick ELSE r.start,
   last_exec_start |-> 0, last_exec_end |-> 0,
   times_called |-> 0, deadline_failures |-> 0]

\* The answer to the request that stored a task, as status_to_adding_a_task
\* sees it.
Answer(code, task) ==
  /\ status' = code
  /\ rejected' = IF code = "accepted" THEN rejected ELSE rejected \cup {task}

Refuse(r, next) ==
  /\ Verdict(r) # "accepted"
  /\ status' = Verdict(r)
  /\ pc' = next
  /\ UNCHANGED <<task_list, schedule_vars, convert_vars, rejected>>

\* A task without a period is one item if it has a start and a deadline.
AddAperiodic(r, next) ==
  LET scheduled == r.start # 0 /\ r.complete # 0
      place     == Len(task_list) + 1
  IN  /\ Verdict(r) = "accepted"
      /\ r.period = 0
      /\ task_list' = Append(task_list, NewTask(r))
      /\ \/ /\ scheduled
            /\ AddToScheduledItemList(place, r.start, r.complete)
            /\ Answer("accepted", place)
            /\ Stored(place < MAX_TASKS /\ InArray(items), next)
         \/ /\ scheduled
            /\ items = MAX_SCHEDULED_ITEMS
            /\ Answer("scheduled_item_buffer_too_small", place)
            /\ Stored(place < MAX_TASKS, next)
            /\ UNCHANGED schedule_vars
         \/ /\ ~scheduled
            /\ Answer("accepted", place)
            /\ Stored(place < MAX_TASKS, next)
            /\ UNCHANGED schedule_vars
      /\ UNCHANGED convert_vars

\* A task with a period is converted before the request is answered.
AddPeriodic(r, from) ==
  /\ Verdict(r) = "accepted"
  /\ r.period # 0
  /\ task_list' = Append(task_list, NewTask(r))
  /\ caller' = from
  /\ converting' = Len(task_list) + 1
  /\ Stored(Len(task_list) + 1 < MAX_TASKS, "convert")
  /\ UNCHANGED <<schedule_vars, schedule_time, finish_time, status, rejected>>

RequestToAddTask(r, from, next) ==
  \/ Refuse(r, next)
  \/ AddAperiodic(r, next)
  \/ AddPeriodic(r, from)

\* main() makes its requests one after the other.
BootRequest ==
  /\ pc = "boot"
  /\ request < Len(BootRequests)
  /\ request' = request + 1
  /\ RequestToAddTask(BootRequests[request + 1], "boot", "boot")
  /\ UNCHANGED <<tick, preempt_at_tick, run_vars>>

\* The body of a task such as test_adding_task_on_the_fly.
AddOnTheFly ==
  /\ pc = "add"
  /\ RequestToAddTask(OnTheFly, "adds", "end")
  /\ UNCHANGED <<tick, preempt_at_tick, run_vars, request>>

-----------------------------------------------------------------------------
(***************************************************************************)
(* convert_periodic_tasks_to_scheduled_items_upto_event_horizon.           *)
(***************************************************************************)

\* Where the conversion of a task goes on once it has returned.
AfterConversion(ok) ==
  /\ IF caller = "online"
     THEN /\ converting' = converting + 1
          /\ pc' = "next_task"
          /\ UNCHANGED <<status, rejected>>
     ELSE /\ converting' = 0
          /\ pc' = IF caller = "boot" THEN "boot" ELSE "end"
          /\ Answer(IF ok THEN "accepted" ELSE "scheduled_item_buffer_too_small",
                    converting)
  /\ schedule_time' = 0
  /\ finish_time' = 0
  /\ UNCHANGED caller

\* It starts from where the task was evaluated up to, one update further, and
\* not past the time after which the task must not run.
BeginConversion ==
  LET t       == task_list[converting]
      reach   == t.time_evaluated_upto + UPDATE_SCHEDULE_RATE
      limited == t.complete # 0 /\ t.complete < reach
      nothing == \/ t.time_evaluated_upto > tick + EVENT_HORIZON
                 \/ limited /\ t.time_evaluated_upto > t.complete
  IN  /\ pc = "convert"
      /\ IF nothing
         THEN AfterConversion(TRUE)
         ELSE /\ schedule_time' = t.time_evaluated_upto
              /\ finish_time' = IF limited THEN t.complete ELSE reach
              /\ pc' = "occurrences"
              /\ UNCHANGED <<caller, converting, status, rejected>>
      /\ UNCHANGED <<tick, preempt_at_tick, task_list, schedule_vars, run_vars, request>>

\* One turn of the loop: an occurrence may run any time within its period.
AddOccurrence ==
  LET next == schedule_time + task_list[converting].period IN
  /\ pc = "occurrences"
  /\ schedule_time < finish_time
  /\ AddToScheduledItemList(converting, schedule_time, next)
  /\ schedule_time' = next
  /\ Stored(InArray(items), "occurrences")
  /\ UNCHANGED <<tick, preempt_at_tick, task_list, run_vars, request_vars,
                 caller, converting, finish_time>>

\* The list is full: the occurrences added so far stay, and the task is not
\* marked as evaluated.
BufferTooSmall ==
  /\ pc = "occurrences"
  /\ schedule_time < finish_time
  /\ items = MAX_SCHEDULED_ITEMS
  /\ AfterConversion(FALSE)
  /\ UNCHANGED <<tick, preempt_at_tick, task_list, schedule_vars, run_vars, request>>

\* A faulty end: the task is not marked as evaluated.
EndConversion_unmarked ==
  /\ pc = "occurrences"
  /\ schedule_time >= finish_time
  /\ AfterConversion(TRUE)
  /\ UNCHANGED <<tick, preempt_at_tick, task_list, schedule_vars, run_vars, request>>

EndConversion ==
  /\ pc = "occurrences"
  /\ schedule_time >= finish_time
  /\ task_list' = [task_list EXCEPT ![converting].time_evaluated_upto = schedule_time]
  /\ AfterConversion(TRUE)
  /\ UNCHANGED <<tick, preempt_at_tick, schedule_vars, run_vars, request>>

-----------------------------------------------------------------------------
(***************************************************************************)
(* online_scheduler, run as the body of the first task.                    *)
(***************************************************************************)

\* Faulty purges: the sorted part is not adjusted; the move is one item short;
\* the item that is running is dropped too.
SortedAfterPurge_same == index_sorted_upto
MovedToFront_short(kept) ==
  [i \in Slots |-> IF i < kept - 1 THEN list[i + item_upto] ELSE list[i]]
MovedToFront_far(kept) ==
  [i \in Slots |-> IF i < kept - 1 THEN list[i + item_upto + 1] ELSE list[i]]

\* What is left of the sorted part, and the list with the kept items moved.
SortedAfterPurge ==
  IF index_sorted_upto >= item_upto THEN index_sorted_upto - item_upto ELSE 0
MovedToFront(kept) ==
  [i \in Slots |-> IF i < kept THEN list[i + item_upto] ELSE list[i]]

\* purge_completed_scheduled_items: once the list is half full, the items
\* before item_upto are dropped and the others move to the front.
Purge ==
  LET kept == items - item_upto IN
  /\ pc = "purge"
  /\ IF items >= MAX_SCHEDULED_ITEMS \div 2 /\ item_upto > 1
     THEN /\ items' = kept
          /\ item_upto' = 0
          /\ index_sorted_upto' = SortedAfterPurge
          /\ list' = MovedToFront(kept)
     ELSE UNCHANGED schedule_vars
  /\ caller' = "online"
  /\ converting' = 1
  /\ pc' = "next_task"
  /\ UNCHANGED <<tick, preempt_at_tick, task_list, run_vars, request_vars,
                 schedule_time, finish_time>>

\* The loop over the tasks: those with a period are converted.
NextTask ==
  /\ pc = "next_task"
  /\ converting <= Len(task_list)
  /\ IF task_list[converting].period # 0
     THEN pc' = "convert" /\ UNCHANGED converting
     ELSE converting' = converting + 1 /\ UNCHANGED pc
  /\ UNCHANGED <<tick, preempt_at_tick, task_list, schedule_vars, run_vars,
                 request_vars, caller, schedule_time, finish_time>>

\* The sort_schedule() after the loop, and the return.
EndOnlineScheduler ==
  /\ pc = "next_task"
  /\ converting > Len(task_list)
  /\ SortSchedule(list, index_sorted_upto)
  /\ converting' = 0
  /\ pc' = "end"
  /\ UNCHANGED <<tick, preempt_at_tick, task_list, items, item_upto, run_vars,
                 request_vars, caller, schedule_time, finish_time>>

-----------------------------------------------------------------------------
(***************************************************************************)
(* run_on_line_scheduler and run_scheduled_item.                           *)
(***************************************************************************)

\* timer.enable(), which sets the tick back to 0, and the head of the loop.
StartRunLoop ==
  /\ pc = "boot"
  /\ request = Len(BootRequests)
  /\ tick' = 0
  /\ item_upto' = 0
  /\ caller' = "online"
  /\ pc' = "loop"
  /\ UNCHANGED <<preempt_at_tick, task_list, list, items, index_sorted_upto, run_vars,
                 request_vars, converting, schedule_time, finish_time>>

\* The inner loop is entered while the item must not start yet.
WaitOrArm(i) == IF tick < list[i].start THEN "wait" ELSE "arm"

\* Without an item left the timer is disabled and main() returns.
NextItem ==
  /\ pc = "loop"
  /\ IF item_upto < items
     THEN item' = item_upto /\ pc' = WaitOrArm(item_upto)
     ELSE pc' = "finished" /\ UNCHANGED item
  /\ UNCHANGED <<tick, preempt_at_tick, task_list, schedule_vars, current, executed,
                 preempt_data, request_vars, convert_vars>>

\* After each tick waited for, the keyboard is read: some keys end the system.
KeyPoll ==
  /\ pc = "key"
  /\ pc' \in {WaitOrArm(item), "exited"}
  /\ UNCHANGED <<tick, preempt_at_tick, task_list, schedule_vars, run_vars,
                 request_vars, convert_vars>>

\* uninstall_preemptor() and install_preemptor(.., kill_task, item->task).
InstallPreemptor ==
  /\ pc = "arm"
  /\ preempt_at_tick' = tick + task_list[list[item].task].bound + FudgeMargin
  /\ preempt_data' = list[item].task
  /\ pc' = "start"
  /\ UNCHANGED <<tick, task_list, schedule_vars, item, current, executed, request_vars,
                 convert_vars>>

\* run_scheduled_item up to the call of func_ptr.
StartTask ==
  LET t == list[item].task IN
  /\ pc = "start"
  /\ current' = list[item]
  /\ task_list' = [task_list EXCEPT ![t].last_exec_start = tick]
  /\ executed' = executed \cup {<<t, list[item].start>>}
  /\ pc' = CASE task_list[t].kind = "online_scheduler" -> "purge"
             [] task_list[t].kind = "adds"             -> "add"
             [] OTHER                                  -> "end"
  /\ UNCHANGED <<tick, preempt_at_tick, schedule_vars, item, preempt_data, request_vars,
                 convert_vars>>

\* The rest of run_task, then run_scheduled_item looks at its item again: the
\* deadline it compares with, the task it blames and the item it marks are
\* those now at that place of the list.
EndTask ==
  LET ran    == [task_list EXCEPT ![current.task].last_exec_end = tick,
                                  ![current.task].times_called = @ + 1]
      blamed == list[item].task
  IN  /\ pc = "end"
      /\ task_list' = IF ran[blamed].last_exec_end > list[item].complete
                      THEN [ran EXCEPT ![blamed].deadline_failures = @ + 1]
                      ELSE ran
      /\ list' = [list EXCEPT ![item].done = TRUE]
      /\ current' = NoItem
      /\ pc' = "disarm"
      /\ UNCHANGED <<tick, preempt_at_tick, items, item_upto, index_sorted_upto, item,
                     executed, preempt_data, request_vars, convert_vars>>

\* uninstall_preemptor() and the increment of the loop.
UninstallPreemptor ==
  /\ pc = "disarm"
  /\ preempt_at_tick' = 0
  /\ item_upto' = item_upto + 1
  /\ pc' = "loop"
  /\ UNCHANGED <<tick, task_list, list, items, index_sorted_upto, run_vars,
                 request_vars, convert_vars>>

-----------------------------------------------------------------------------
(***************************************************************************)
(* timer_handler: the interrupt advances the tick and runs the preemptor,  *)
(* which for kill_task prints and ends the system.  A tick ends the inner  *)
(* wait of the run loop.  Ticks are left out where the run loop reads no   *)
(* tick before its next step.                                              *)
(***************************************************************************)
TickAllowed ==
  \/ /\ caller = "boot"
     /\ pc \in {"boot", "convert"}
     /\ tick < BootTicks
  \/ /\ caller # "boot"
     /\ pc \in {"wait", "start", "convert", "add", "end", "disarm"}
     /\ tick < MaxTick
  \/ /\ pc \in {"key", "arm"}
     /\ tick < MaxTick
     /\ tick < list[item].start + Lag

\* A faulty comparison: the preemptor comes one tick late.
PreemptorDue_late(now) == preempt_at_tick # 0 /\ now > preempt_at_tick

PreemptorDue(now) == preempt_at_tick # 0 /\ now >= preempt_at_tick

Tick ==
  /\ TickAllowed
  /\ tick' = tick + 1
  /\ pc' = IF PreemptorDue(tick + 1) THEN "killed"
           ELSE IF pc = "wait" THEN "key" ELSE pc
  /\ UNCHANGED <<preempt_at_tick, task_list, schedule_vars, run_vars, request_vars,
                 convert_vars>>

-----------------------------------------------------------------------------
Init ==
  /\ tick = 0
  /\ preempt_at_tick = 0
  /\ task_list = <<>>
  /\ list = [i \in Slots |-> NoItem]
  /\ items = 0 /\ item_upto = 0 /\ index_sorted_upto = 0
  /\ pc = "boot"
  /\ item = 0 /\ current = NoItem /\ preempt_data = 0
  /\ request = 0 /\ status = "accepted"
  /\ caller = "boot" /\ converting = 0 /\ schedule_time = 0 /\ finish_time = 0
  /\ executed = {} /\ rejected = {}

RunLoop ==
  \/ BootRequest \/ StartRunLoop \/ NextItem \/ KeyPoll \/ InstallPreemptor
  \/ StartTask \/ EndTask \/ UninstallPreemptor

TaskBodies ==
  \/ AddOnTheFly \/ BeginConversion \/ AddOccurrence \/ BufferTooSmall \/ EndConversion
  \/ Purge \/ NextTask \/ EndOnlineScheduler

Next == RunLoop \/ TaskBodies \/ Tick

Spec == Init /\ [][Next]_vars
=============================================================================
