-------------------------- MODULE Scheduler_proofs --------------------------
(***************************************************************************)
(* Proofs, for every value of the constants, that the counters and the     *)
(* list of the scheduler stay well formed (TypeOK), that what an addition  *)
(* sorts again is a range of the list (SortRange), and that the preemptor  *)
(* bounds the time for which a task that returns has run (RunsAreBounded). *)
(***************************************************************************)
EXTENDS SchedulerProperties, Heapsort_proofs

-----------------------------------------------------------------------------
(***************************************************************************)
(* The search and the sort.                                                *)
(***************************************************************************)

\* The search of add_to_scheduled_item_list finds a place, and if it is made
\* for an item that starts before the sorted part ends, not behind the list.
LEMMA FirstOverlapFound ==
  ASSUME Counters, items < MAX_SCHEDULED_ITEMS,
         NEW l, \A i \in Slots : l[i].complete \in Nat,
         NEW start \in Nat
  PROVE  /\ FirstOverlap(l, start) \in Nat /\ FirstOverlap(l, start) >= item_upto
         /\ index_sorted_upto # 0 /\ l[index_sorted_upto - 1].complete > start
              /\ (item_upto < items \/ item_upto = 0)
              => FirstOverlap(l, start) <= items
         /\ item_upto < index_sorted_upto /\ l[item_upto].complete < start
              => FirstOverlap(l, start) > item_upto
<1> DEFINE Stops(i) == i > index_sorted_upto \/ l[i].complete >= start
           Range == item_upto .. MAX_SCHEDULED_ITEMS
           First(i) == /\ Stops(i)
                       /\ \A j \in item_upto .. i - 1 :
                            j <= index_sorted_upto /\ l[j].complete < start
           S == {i \in Range : Stops(i)}
<1>1. index_sorted_upto \in Nat /\ item_upto \in Nat /\ index_sorted_upto < MAX_SCHEDULED_ITEMS
      /\ MAX_SCHEDULED_ITEMS \in Nat
  BY ConstantsAssumption DEF Counters
<1>2. S # {}
  <2>1. CASE item_upto > index_sorted_upto
    BY <1>1, <2>1 DEF Counters
  <2>2. CASE item_upto <= index_sorted_upto
    <3>1. index_sorted_upto + 1 \in S
      BY <1>1, <2>2
    <3>. QED  BY <3>1
  <2>. QED  BY <1>1, <2>1, <2>2
<1>3. S \subseteq Nat
  BY <1>1
<1>4. PICK i \in S : \A j \in S : i <= j
  BY <1>2, <1>3, Smallest
<1>5. First(i)
  <2>1. ASSUME NEW j \in item_upto .. i - 1
        PROVE  j <= index_sorted_upto /\ l[j].complete < start
    <3>1. j \in Range /\ j \notin S
      BY <1>1, <1>3, <1>4, <2>1
    <3>2. j <= index_sorted_upto /\ j \in Slots
      BY <1>1, <3>1 DEF Slots
    <3>. QED  BY <1>1, <3>1, <3>2
  <2>. QED  BY <2>1
<1>6. FirstOverlap(l, start) = CHOOSE k \in Range : First(k)
  BY Zenon DEF FirstOverlap
<1>7. FirstOverlap(l, start) \in Range /\ First(FirstOverlap(l, start))
  BY <1>4, <1>5, <1>6, Zenon
<1>8. ASSUME index_sorted_upto # 0, l[index_sorted_upto - 1].complete > start,
             item_upto < items \/ item_upto = 0
      PROVE  FirstOverlap(l, start) <= items
  <2> DEFINE f == FirstOverlap(l, start)
  <2>1. SUFFICES ASSUME f \in Range, f > items PROVE FALSE
    BY <1>1, <1>7 DEF Counters
  <2>2. CASE item_upto <= index_sorted_upto - 1
    <3>1. index_sorted_upto - 1 \in item_upto .. f - 1
      BY <1>1, <1>8, <2>1, <2>2 DEF Counters
    <3>2. l[index_sorted_upto - 1].complete < start
      BY <1>7, <3>1
    <3>3. index_sorted_upto - 1 \in Slots
      BY <1>1, <1>8 DEF Slots
    <3>. QED  BY <1>8, <3>2, <3>3
  <2>3. CASE item_upto > index_sorted_upto - 1
    <3>1. f - 1 \in item_upto .. f - 1 /\ f - 1 >= items
      BY <1>1, <1>8, <2>1, <2>3 DEF Counters
    <3>2. f - 1 <= index_sorted_upto
      BY <1>7, <3>1
    <3>. QED  BY <1>1, <1>8, <2>1, <2>3, <3>1, <3>2 DEF Counters
  <2>. QED  BY <1>1, <2>2, <2>3
<1>9. ASSUME item_upto < index_sorted_upto, l[item_upto].complete < start
      PROVE  FirstOverlap(l, start) # item_upto
  <2>1. SUFFICES ASSUME Stops(item_upto) PROVE FALSE
    BY <1>7
  <2>2. item_upto \in Slots
    BY <1>1, <1>9 DEF Slots
  <2>. QED  BY <1>1, <1>9, <2>1, <2>2
<1>. QED
  BY <1>1, <1>7, <1>8, <1>9

\* A sort only moves the items below the count.
LEMMA SortMoves ==
  ASSUME Counters, NEW l, NEW I, l \in [Slots -> I], NEW lo \in Nat, SortSchedule(l, lo)
  PROVE  /\ index_sorted_upto' = items
         /\ list' \in [Slots -> I]
         /\ \A k \in Slots : \/ list'[k] = l[k]
                             \/ k < items /\ \E m \in 0 .. items - 1 : list'[k] = l[m]
<1> DEFINE order == SortedOrder(l, lo)
<1>1. /\ IsRearrangement(order, lo, items)
      /\ list' = Reordered(l, lo, items, order)
      /\ index_sorted_upto' = items
  <2>1. items \in Nat
    BY ConstantsAssumption DEF Counters
  <2>. QED  BY <2>1, SortRearranges, Zenon DEF SortSchedule, SortedOrder
<1>. HIDE DEF order
<1>2. MAX_SCHEDULED_ITEMS \in Nat /\ items \in Nat /\ items <= MAX_SCHEDULED_ITEMS
  BY ConstantsAssumption DEF Counters
<1>3. ASSUME NEW k \in lo .. items - 1
      PROVE  order[k] \in lo .. items - 1
  BY <1>1 DEF IsRearrangement
<1>4. lo .. items - 1 \subseteq Slots /\ lo .. items - 1 \subseteq 0 .. items - 1
  BY <1>2 DEF Slots
<1>5. list' = [k \in Slots |-> IF k \in lo .. items - 1 THEN l[order[k]] ELSE l[k]]
  BY <1>1 DEF Reordered
<1>6. list' \in [Slots -> I]
  BY <1>3, <1>4, <1>5
<1>7. ASSUME NEW k \in Slots
      PROVE  \/ list'[k] = l[k]
             \/ k < items /\ \E m \in 0 .. items - 1 : list'[k] = l[m]
  <2>1. CASE k \in lo .. items - 1
    BY <1>2, <1>3, <1>4, <1>5, <2>1
  <2>2. CASE k \notin lo .. items - 1
    BY <1>5, <2>2
  <2>. QED  BY <2>1, <2>2
<1>. QED  BY <1>1, <1>6, <1>7

\* An addition keeps the counters in order and every item named, and takes the
\* name from no other place.
LEMMA AddKeepsNames ==
  ASSUME Counters, NEW I, \A x \in I : x.complete \in Nat,
         list \in [Slots -> I], Named(list, items),
         NEW task, task # 0, NEW start \in Nat, NEW complete,
         [task |-> task, start |-> start, complete |-> complete, done |-> FALSE] \in I,
         AddToScheduledItemList(task, start, complete)
  PROVE  /\ Counters'
         /\ items' = items + 1 /\ item_upto' = item_upto
         /\ list' \in [Slots -> I]
         /\ Named(list', items')
         /\ \A k \in Slots : list[k].task # 0 => list'[k].task # 0
<1> DEFINE new == [task |-> task, start |-> start, complete |-> complete, done |-> FALSE]
           l == [list EXCEPT ![items] = new]
           lo == FirstOverlap(l, start)
<1>1. /\ items < MAX_SCHEDULED_ITEMS /\ items' = items + 1 /\ item_upto' = item_upto
      /\ \/ SortSchedule(l, lo)
         \/ list' = l /\ index_sorted_upto' = index_sorted_upto
  BY Zenon DEF AddToScheduledItemList
<1>2. MAX_SCHEDULED_ITEMS \in Nat /\ items \in Slots
  BY <1>1, ConstantsAssumption DEF Counters, Slots
<1>3. /\ l \in [Slots -> I]
      /\ \A k \in Slots : l[k] = IF k = items THEN new ELSE list[k]
  BY <1>2
<1>4. Named(l, items + 1)
  <2>. SUFFICES ASSUME NEW i \in 0 .. items PROVE l[i].task # 0
    BY <1>2 DEF Named, Slots
  <2>. i \in Slots
    BY <1>1, <1>2 DEF Slots
  <2>. QED  BY <1>2, <1>3 DEF Named, Slots
<1>5. \A k \in Slots : list[k].task # 0 => l[k].task # 0
  BY <1>3
<1>6. CASE list' = l /\ index_sorted_upto' = index_sorted_upto
  BY <1>1, <1>2, <1>3, <1>4, <1>5, <1>6 DEF Counters, Named, Slots
<1>7. CASE SortSchedule(l, lo)
  <2>1. lo \in Nat
    <3>. HIDE DEF l
    <3>. QED BY <1>1, <1>3, FirstOverlapFound
  <2>2. /\ index_sorted_upto' = items
        /\ list' \in [Slots -> I]
        /\ \A k \in Slots : \/ list'[k] = l[k]
                            \/ k < items /\ \E m \in 0 .. items - 1 : list'[k] = l[m]
    <3>. HIDE DEF l, lo
    <3>. QED BY <1>3, <1>7, <2>1, SortMoves
  <2>3. \A k \in Slots : l[k].task # 0 => list'[k].task # 0
    <3>. HIDE DEF l, lo
    <3>. QED BY <1>2, <1>4, <2>2, SMTT(30) DEF Named, Slots
  <2>4. Named(list', items + 1)
    <3>. HIDE DEF l, lo
    <3>. QED BY <1>1, <1>2, <1>4, <2>3 DEF Named, Slots
  <2>. QED  BY <1>1, <1>2, <1>5, <2>2, <2>3, <2>4 DEF Counters, Slots
<1>. QED
  BY <1>1, <1>6, <1>7

-----------------------------------------------------------------------------
(***************************************************************************)
(* Every action preserves the inductive invariant: first those of the run  *)
(* loop and of the interrupt.                                              *)
(***************************************************************************)

\* What TypeOK says of the tasks, and of the places that name one.
LEMMA Typed ==
  ASSUME TypeOK
  PROVE  /\ Len(task_list) \in Nat
         /\ \A t \in Tasks : /\ task_list[t] \in Task
                            /\ task_list[t].bound \in Nat
                            /\ task_list[t].last_exec_start \in Nat
                            /\ task_list[t].last_exec_end \in Nat
         /\ \A k \in Slots : list[k] \in Item /\ list[k].task \in 0 .. Len(task_list)
         /\ current \in Item /\ current.task \in 0 .. Len(task_list)
         /\ FudgeMargin \in Nat \ {0} /\ MAX_SCHEDULED_ITEMS \in Nat
<1>1. task_list \in Seq(Task)
  BY DEF TypeOK, TasksOK
<1>2. Len(task_list) \in Nat /\ \A t \in Tasks : task_list[t] \in Task
  BY <1>1 DEF Tasks
<1>3. \A t \in Tasks : /\ task_list[t].bound \in Nat
                      /\ task_list[t].last_exec_start \in Nat
                      /\ task_list[t].last_exec_end \in Nat
  BY <1>2 DEF Task
<1>4. \A k \in Slots : list[k] \in Item
  BY DEF TypeOK, ListOK
<1>5. current \in Item
  BY DEF TypeOK, ListOK
<1>. QED
  BY <1>2, <1>3, <1>4, <1>5, ConstantsAssumption DEF Item

\* While the run loop is at an item or runs one, the item names a task.
LEMMA HeldTask ==
  ASSUME IInv
  PROVE  /\ item \in Slots
         /\ HasItem \/ IsRunning => list[item].task \in Tasks
         /\ IsRunning => current.task \in Tasks
<1>1. item \in Slots /\ list[item].task \in 0 .. Len(task_list)
  BY Typed DEF IInv, TypeOK, ListOK
<1>2. ASSUME HasItem
      PROVE  list[item].task # 0
  <2>1. item \in 0 .. items - 1
    BY <1>2 DEF IInv, TypeOK, Counters, PointerInv
  <2>. QED  BY <2>1 DEF IInv, TypeOK, ListOK, Named
<1>. QED
  BY <1>1, <1>2, Typed DEF IInv, PointerInv, Tasks

LEMMA InitInv == Init => IInv
<1>. SUFFICES ASSUME Init PROVE IInv
  OBVIOUS
<1>1. TypeOK
  BY ConstantsAssumption
  DEF Init, TypeOK, TasksOK, Counters, ListOK, Named, ClockOK, ControlOK,
      Item, NoItem, Statuses, Places, InTask, Slots
<1>2. BootInv /\ PointerInv /\ PreemptorInv /\ RunsAreBounded
  BY DEF Init, BootInv, Booting, PointerInv, HasItem, IsRunning, InTask,
         PreemptorInv, RunsAreBounded, Tasks
<1>. QED  BY <1>1, <1>2 DEF IInv

LEMMA TickInv == IInv /\ Tick => IInv'
<1>. SUFFICES ASSUME IInv, Tick PROVE IInv'
  OBVIOUS
<1>1. TypeOK /\ BootInv /\ PointerInv /\ PreemptorInv /\ RunsAreBounded
  BY DEF IInv
<1>2. /\ tick \in Nat /\ preempt_at_tick \in Nat /\ tick' = tick + 1
      /\ pc' \in {pc, "killed"} \/ (pc = "wait" /\ pc' = "key")
      /\ pc' # "killed" => preempt_at_tick = 0 \/ tick' < preempt_at_tick
  BY <1>1 DEF Tick, TypeOK, ClockOK, PreemptorDue
<1>3. /\ preempt_at_tick' = preempt_at_tick
      /\ UNCHANGED <<task_list, list, items, item_upto, index_sorted_upto, item, current, executed>>
      /\ UNCHANGED <<request, status, rejected, caller, converting, schedule_time, finish_time>>
  BY DEF Tick, schedule_vars, run_vars, request_vars, convert_vars
<1>4. TypeOK'
  BY <1>1, <1>2, <1>3
  DEF TypeOK, TasksOK, Counters, ListOK, Named, Item, ClockOK, ControlOK, Places, Terminal
<1>5. BootInv'
  BY <1>1, <1>2, <1>3 DEF BootInv, Booting, Tasks, Terminal
<1>6. PointerInv'
  BY <1>1, <1>2, <1>3 DEF PointerInv, HasItem, IsRunning, Booting, InTask
<1>7. PreemptorInv'
  <2>1. \A t \in Tasks : task_list[t].last_exec_end <= tick'
    BY <1>1, <1>2, Typed DEF PreemptorInv
  <2>2. ASSUME pc' = "start"
        PROVE  /\ tick' < preempt_at_tick
               /\ preempt_at_tick <= tick' + task_list[list[item].task].bound + FudgeMargin
    <3>1. pc = "start" /\ list[item].task \in Tasks
      BY <1>2, <2>2, HeldTask DEF HasItem
    <3>2. task_list[list[item].task].bound \in Nat /\ FudgeMargin \in Nat
      BY <1>1, <3>1, Typed
    <3>3. /\ tick < preempt_at_tick
          /\ preempt_at_tick <= tick + task_list[list[item].task].bound + FudgeMargin
      BY <1>1, <3>1 DEF PreemptorInv
    <3>. QED  BY <1>2, <2>2, <3>2, <3>3
  <2>3. ASSUME IsRunning'
        PROVE  LET t == task_list[current.task] IN
               /\ t.last_exec_start <= tick'
               /\ tick' < preempt_at_tick
               /\ preempt_at_tick <= t.last_exec_start + t.bound + FudgeMargin
    <3>1. IsRunning /\ pc' # "killed" /\ current.task \in Tasks
      BY <1>2, <1>3, <2>3, HeldTask DEF IsRunning, Booting, InTask
    <3>2. /\ task_list[current.task].last_exec_start <= tick
          /\ tick < preempt_at_tick
          /\ preempt_at_tick <= task_list[current.task].last_exec_start
                                 + task_list[current.task].bound + FudgeMargin
          /\ task_list[current.task].last_exec_start \in Nat
      BY <1>1, <3>1, Typed DEF PreemptorInv
    <3>. QED  BY <1>2, <3>1, <3>2
  <2>. QED
    BY <1>3, <2>1, <2>2, <2>3 DEF PreemptorInv, Tasks
<1>8. RunsAreBounded'
  BY <1>1, <1>3 DEF RunsAreBounded, Tasks
<1>. QED
  BY <1>4, <1>5, <1>6, <1>7, <1>8 DEF IInv

LEMMA StartRunLoopInv == IInv /\ StartRunLoop => IInv'
<1>. SUFFICES ASSUME IInv, StartRunLoop PROVE IInv'
  OBVIOUS
<1>1. TypeOK /\ BootInv /\ PointerInv /\ PreemptorInv /\ RunsAreBounded
  BY DEF IInv
<1>2. /\ pc = "boot" /\ pc' = "loop" /\ tick' = 0 /\ item_upto' = 0 /\ caller' = "online"
      /\ UNCHANGED <<preempt_at_tick, task_list, list, items, index_sorted_upto>>
      /\ UNCHANGED <<item, current, executed, request, status, rejected>>
      /\ UNCHANGED <<converting, schedule_time, finish_time>>
  BY DEF StartRunLoop, run_vars, request_vars
<1>3. TypeOK'
  BY <1>1, <1>2
  DEF TypeOK, TasksOK, Counters, ListOK, Named, Item, ClockOK, ControlOK, Places
<1>4. BootInv' /\ PointerInv'
  BY <1>2 DEF BootInv, PointerInv, Booting, HasItem, IsRunning, InTask
<1>5. \A t \in Tasks : task_list[t].last_exec_end = 0
  BY <1>1, <1>2 DEF BootInv
<1>6. PreemptorInv'
  BY <1>2, <1>5 DEF PreemptorInv, Booting, IsRunning, InTask, Tasks
<1>7. RunsAreBounded'
  BY <1>1, <1>2 DEF RunsAreBounded, Tasks
<1>. QED
  BY <1>3, <1>4, <1>6, <1>7 DEF IInv

\* The steps of the run loop between two items.
LEMMA NextItemInv == IInv /\ NextItem => IInv'
<1>. SUFFICES ASSUME IInv, NextItem PROVE IInv'
  OBVIOUS
<1>1. TypeOK /\ BootInv /\ PointerInv /\ PreemptorInv /\ RunsAreBounded
  BY DEF IInv
<1>2. /\ pc = "loop" /\ UNCHANGED <<tick, preempt_at_tick, task_list, list, items, item_upto>>
      /\ UNCHANGED <<index_sorted_upto, current, executed, request, status, rejected>>
      /\ UNCHANGED <<caller, converting, schedule_time, finish_time>>
      /\ \/ item_upto < items /\ item' = item_upto /\ pc' \in {"wait", "arm"}
         \/ pc' = "finished" /\ item' = item
  BY DEF NextItem, WaitOrArm, schedule_vars, request_vars, convert_vars
<1>3. item' \in Slots
  BY <1>1, <1>2, ConstantsAssumption DEF TypeOK, Counters, ListOK, Slots
<1>4. TypeOK'
  BY <1>1, <1>2, <1>3
  DEF TypeOK, TasksOK, Counters, ListOK, Named, Item, ClockOK, ControlOK, Places, Terminal
<1>5. BootInv' /\ PointerInv'
  BY <1>1, <1>2 DEF BootInv, PointerInv, Booting, HasItem, IsRunning, InTask, Tasks, Terminal
<1>6. PreemptorInv' /\ RunsAreBounded'
  BY <1>1, <1>2 DEF PreemptorInv, RunsAreBounded, Booting, IsRunning, InTask, Tasks
<1>. QED
  BY <1>4, <1>5, <1>6 DEF IInv

LEMMA KeyPollInv == IInv /\ KeyPoll => IInv'
<1>. SUFFICES ASSUME IInv, KeyPoll PROVE IInv'
  OBVIOUS
<1>1. TypeOK /\ BootInv /\ PointerInv /\ PreemptorInv /\ RunsAreBounded
  BY DEF IInv
<1>2. /\ pc = "key" /\ pc' \in {"wait", "arm", "exited"}
      /\ UNCHANGED <<tick, preempt_at_tick, task_list, list, items, item_upto>>
      /\ UNCHANGED <<index_sorted_upto, item, current, executed, request, status, rejected>>
      /\ UNCHANGED <<caller, converting, schedule_time, finish_time>>
  BY DEF KeyPoll, WaitOrArm, schedule_vars, run_vars, request_vars, convert_vars
<1>3. TypeOK'
  BY <1>1, <1>2
  DEF TypeOK, TasksOK, Counters, ListOK, Named, Item, ClockOK, ControlOK, Places, Terminal
<1>4. BootInv' /\ PointerInv'
  BY <1>1, <1>2 DEF BootInv, PointerInv, Booting, HasItem, IsRunning, InTask, Tasks, Terminal
<1>5. PreemptorInv' /\ RunsAreBounded'
  BY <1>1, <1>2 DEF PreemptorInv, RunsAreBounded, Booting, IsRunning, InTask, Tasks
<1>. QED
  BY <1>3, <1>4, <1>5 DEF IInv

LEMMA InstallPreemptorInv == IInv /\ InstallPreemptor => IInv'
<1>. SUFFICES ASSUME IInv, InstallPreemptor PROVE IInv'
  OBVIOUS
<1>1. TypeOK /\ BootInv /\ PointerInv /\ PreemptorInv /\ RunsAreBounded
  BY DEF IInv
<1>2. /\ pc = "arm" /\ pc' = "start"
      /\ preempt_at_tick' = tick + task_list[list[item].task].bound + FudgeMargin
      /\ UNCHANGED <<tick, task_list, list, items, item_upto, index_sorted_upto>>
      /\ UNCHANGED <<item, current, executed, request, status, rejected>>
      /\ UNCHANGED <<caller, converting, schedule_time, finish_time>>
  BY DEF InstallPreemptor, schedule_vars, run_vars, request_vars, convert_vars
<1>3. list[item].task \in Tasks
  BY <1>2, HeldTask DEF HasItem
<1>4. /\ preempt_at_tick' \in Nat /\ tick \in Nat
      /\ tick < preempt_at_tick'
  <2>1. tick \in Nat /\ task_list[list[item].task].bound \in Nat /\ FudgeMargin \in Nat \ {0}
    BY <1>1, <1>3, Typed DEF TypeOK, ClockOK
  <2>. QED  BY <1>2, <2>1
<1>5. TypeOK'
  BY <1>1, <1>2, <1>4
  DEF TypeOK, TasksOK, Counters, ListOK, Named, Item, ClockOK, ControlOK, Places
<1>6. BootInv' /\ PointerInv'
  BY <1>1, <1>2 DEF BootInv, PointerInv, Booting, HasItem, IsRunning, InTask, Tasks, Terminal
<1>7. PreemptorInv'
  BY <1>1, <1>2, <1>4 DEF PreemptorInv, Booting, IsRunning, InTask, Tasks
<1>8. RunsAreBounded'
  BY <1>1, <1>2 DEF RunsAreBounded, Tasks
<1>. QED
  BY <1>5, <1>6, <1>7, <1>8 DEF IInv

LEMMA UninstallPreemptorInv == IInv /\ UninstallPreemptor => IInv'
<1>. SUFFICES ASSUME IInv, UninstallPreemptor PROVE IInv'
  OBVIOUS
<1>1. TypeOK /\ BootInv /\ PointerInv /\ PreemptorInv /\ RunsAreBounded
  BY DEF IInv
<1>2. /\ pc = "disarm" /\ pc' = "loop" /\ preempt_at_tick' = 0 /\ item_upto' = item_upto + 1
      /\ UNCHANGED <<tick, task_list, list, items, index_sorted_upto>>
      /\ UNCHANGED <<item, current, executed, request, status, rejected>>
      /\ UNCHANGED <<caller, converting, schedule_time, finish_time>>
  BY DEF UninstallPreemptor, run_vars, request_vars, convert_vars
<1>3. item_upto < items
  BY <1>1, <1>2 DEF PointerInv
<1>4. TypeOK'
  BY <1>1, <1>2, <1>3
  DEF TypeOK, TasksOK, Counters, ListOK, Named, Item, ClockOK, ControlOK, Places
<1>5. BootInv' /\ PointerInv'
  BY <1>1, <1>2 DEF BootInv, PointerInv, Booting, HasItem, IsRunning, InTask, Tasks, Terminal
<1>6. PreemptorInv' /\ RunsAreBounded'
  BY <1>1, <1>2 DEF PreemptorInv, RunsAreBounded, Booting, IsRunning, InTask, Tasks
<1>. QED
  BY <1>4, <1>5, <1>6 DEF IInv

\* A task of the list is replaced.
LEMMA TaskReplaced ==
  ASSUME NEW s \in Seq(Task), NEW t \in 1 .. Len(s), NEW v \in Task
  PROVE  /\ [s EXCEPT ![t] = v] \in Seq(Task)
         /\ Len([s EXCEPT ![t] = v]) = Len(s)
         /\ \A u \in 1 .. Len(s) : [s EXCEPT ![t] = v][u] = IF u = t THEN v ELSE s[u]
OBVIOUS

\* run_task notes when the task starts; the preemptor it runs under was
\* installed no later.
LEMMA StartTaskInv == IInv /\ StartTask => IInv'
<1>. SUFFICES ASSUME IInv, StartTask PROVE IInv'
  OBVIOUS
<1> DEFINE t == list[item].task
           v == [task_list[t] EXCEPT !.last_exec_start = tick]
<1>1. TypeOK /\ BootInv /\ PointerInv /\ PreemptorInv /\ RunsAreBounded
  BY DEF IInv
<1>2. /\ pc = "start" /\ pc' \in {"purge", "add", "end"} /\ current' = list[item]
      /\ task_list' = [task_list EXCEPT ![t] = v]
      /\ executed' = executed \cup {<<t, list[item].start>>}
      /\ UNCHANGED <<tick, preempt_at_tick, list, items, item_upto, index_sorted_upto>>
      /\ UNCHANGED <<item, request, status, rejected>>
      /\ UNCHANGED <<caller, converting, schedule_time, finish_time>>
  BY DEF StartTask, schedule_vars, request_vars, convert_vars
<1>3. /\ item \in Slots /\ t \in Tasks /\ list[item] \in Item /\ task_list[t] \in Task
      /\ tick \in Nat /\ task_list \in Seq(Task)
  BY <1>1, <1>2, HeldTask, Typed DEF HasItem, TypeOK, ClockOK, TasksOK
<1>4. v \in Task /\ v.last_exec_start = tick /\ v.last_exec_end = task_list[t].last_exec_end
      /\ v.bound = task_list[t].bound
  BY <1>3 DEF Task
<1>5. /\ task_list' \in Seq(Task) /\ Len(task_list') = Len(task_list) /\ Tasks' = Tasks
      /\ \A u \in Tasks : task_list'[u] = IF u = t THEN v ELSE task_list[u]
  <2>. HIDE DEF v, t
  <2>. QED  BY <1>2, <1>3, <1>4, TaskReplaced DEF Tasks
<1>. HIDE DEF v
<1>6. TypeOK'
  <2>1. TasksOK' /\ Counters' /\ ClockOK'
    BY <1>1, <1>2, <1>5 DEF TypeOK, TasksOK, Counters, ClockOK
  <2>2. ListOK'
    BY <1>1, <1>2, <1>3, <1>5 DEF TypeOK, ListOK, Named, Item
  <2>3. executed' \subseteq Nat \X Nat
    BY <1>1, <1>2, <1>3 DEF TypeOK, ControlOK, Item, Tasks
  <2>4. ControlOK'
    BY <1>1, <1>2, <1>5, <2>3 DEF TypeOK, ControlOK, Places, InTask
  <2>. QED  BY <2>1, <2>2, <2>4 DEF TypeOK
<1>7. BootInv'
  BY <1>1, <1>2 DEF BootInv, Booting, Terminal
<1>8. PointerInv'
  BY <1>1, <1>2, <1>3 DEF PointerInv, HasItem, IsRunning, InTask, Tasks
<1>9. PreemptorInv'
  <2>1. \A u \in Tasks : task_list'[u].last_exec_end <= tick
    BY <1>1, <1>4, <1>5 DEF PreemptorInv
  <2>2. /\ tick < preempt_at_tick
        /\ preempt_at_tick <= v.last_exec_start + v.bound + FudgeMargin
    BY <1>1, <1>2, <1>4 DEF PreemptorInv
  <2>. QED
    BY <1>2, <1>3, <1>4, <1>5, <2>1, <2>2 DEF PreemptorInv
<1>10. RunsAreBounded'
  <2>. SUFFICES ASSUME NEW u \in Tasks,
                       task_list'[u].last_exec_end >= task_list'[u].last_exec_start
                PROVE  \/ task_list'[u].last_exec_end = 0
                       \/ task_list'[u].last_exec_end - task_list'[u].last_exec_start
                            < task_list'[u].bound + FudgeMargin
    BY <1>5 DEF RunsAreBounded
  <2>1. CASE u = t
    <3>1. task_list[u].last_exec_end <= tick
      BY <1>1 DEF PreemptorInv
    <3>2. /\ v.last_exec_end \in Nat /\ v.last_exec_end <= tick
          /\ v.bound \in Nat /\ FudgeMargin \in Nat \ {0}
      BY <1>1, <1>3, <1>4, <2>1, <3>1, Typed
    <3>3. tick \in Nat /\ task_list'[u] = v
      BY <1>3, <1>5, <2>1
    <3>4. v.last_exec_end - tick < v.bound + FudgeMargin
      BY <3>2, <3>3
    <3>. QED  BY <1>4, <3>3, <3>4
  <2>2. CASE u # t
    BY <1>1, <1>5, <2>2 DEF RunsAreBounded
  <2>. QED  BY <2>1, <2>2
<1>. QED
  BY <1>6, <1>7, <1>8, <1>9, <1>10 DEF IInv

\* A task that returns does so before the preemptor is due; the item that
\* run_scheduled_item looks at then still names a task.
LEMMA EndTaskInv == IInv /\ EndTask => IInv'
<1>. SUFFICES ASSUME IInv, EndTask PROVE IInv'
  OBVIOUS
<1> DEFINE c == current.task
           b == list[item].task
           v == [task_list[c] EXCEPT !.last_exec_end = tick, !.times_called = @ + 1]
           ran == [task_list EXCEPT ![c] = v]
           w == [ran[b] EXCEPT !.deadline_failures = @ + 1]
<1>1. TypeOK /\ BootInv /\ PointerInv /\ PreemptorInv /\ RunsAreBounded
  BY DEF IInv
<1>2. /\ pc = "end" /\ pc' = "disarm" /\ current' = NoItem
      /\ task_list' = ran \/ task_list' = [ran EXCEPT ![b] = w]
      /\ list' = [list EXCEPT ![item].done = TRUE]
      /\ UNCHANGED <<tick, preempt_at_tick, items, item_upto, index_sorted_upto>>
      /\ UNCHANGED <<item, executed, request, status, rejected>>
      /\ UNCHANGED <<caller, converting, schedule_time, finish_time>>
  BY DEF EndTask, request_vars, convert_vars
<1>3. IsRunning
  BY <1>1, <1>2 DEF BootInv, Booting, IsRunning, InTask, Terminal
<1>4. /\ item \in Slots /\ b \in Tasks /\ c \in Tasks /\ list[item] \in Item
      /\ task_list[c] \in Task /\ tick \in Nat /\ task_list \in Seq(Task)
  BY <1>1, <1>3, HeldTask, Typed DEF TypeOK, ClockOK, TasksOK
<1>5. /\ v \in Task /\ v.last_exec_end = tick
      /\ v.last_exec_start = task_list[c].last_exec_start /\ v.bound = task_list[c].bound
  <2>. HIDE DEF c
  <2>1. task_list[c] \in Task /\ tick \in Nat
    BY <1>4
  <2>2. task_list[c].times_called \in Nat
    BY <2>1 DEF Task
  <2>3. task_list[c].times_called + 1 \in Nat
    BY <2>2
  <2> DEFINE z == [task_list[c] EXCEPT !.last_exec_end = tick]
  <2>4. /\ z \in Task /\ z.last_exec_end = tick
        /\ z.last_exec_start = task_list[c].last_exec_start /\ z.bound = task_list[c].bound
    BY <2>1 DEF Task
  <2>5. v = [z EXCEPT !.times_called = task_list[c].times_called + 1]
    OBVIOUS
  <2>. HIDE DEF z, v
  <2>6. /\ v \in Task /\ v.last_exec_end = z.last_exec_end
        /\ v.last_exec_start = z.last_exec_start /\ v.bound = z.bound
    BY <2>3, <2>4, <2>5 DEF Task
  <2>. QED  BY <2>4, <2>6
<1>6. /\ ran \in Seq(Task) /\ Len(ran) = Len(task_list)
      /\ \A u \in Tasks : ran[u] = IF u = c THEN v ELSE task_list[u]
  <2>. HIDE DEF v, c
  <2>. QED  BY <1>4, <1>5, TaskReplaced DEF Tasks
<1>. HIDE DEF v, ran
<1>7. /\ w \in Task /\ w.last_exec_end = ran[b].last_exec_end
      /\ w.last_exec_start = ran[b].last_exec_start /\ w.bound = ran[b].bound
  <2>1. ran[b] \in Task
    BY <1>4, <1>6 DEF Tasks
  <2>. QED  BY <2>1 DEF Task
<1>8. /\ task_list' \in Seq(Task) /\ Len(task_list') = Len(task_list) /\ Tasks' = Tasks
      /\ \A u \in Tasks : /\ task_list'[u].last_exec_end = ran[u].last_exec_end
                         /\ task_list'[u].last_exec_start = ran[u].last_exec_start
                         /\ task_list'[u].bound = ran[u].bound
  <2>1. CASE task_list' = ran
    BY <1>6, <2>1 DEF Tasks
  <2>2. CASE task_list' = [ran EXCEPT ![b] = w]
    <3>1. /\ task_list' \in Seq(Task) /\ Len(task_list') = Len(task_list)
          /\ \A u \in Tasks : task_list'[u] = IF u = b THEN w ELSE ran[u]
      <4>. HIDE DEF w, b
      <4>. QED  BY <1>4, <1>6, <1>7, <2>2, TaskReplaced DEF Tasks
    <3>. HIDE DEF w
    <3>. QED  BY <1>7, <3>1 DEF Tasks
  <2>. QED  BY <1>2, <2>1, <2>2
<1>9. /\ list' \in [Slots -> Item]
      /\ \A k \in Slots : list'[k].task = list[k].task
  <2>1. [list[item] EXCEPT !.done = TRUE] \in Item
    BY <1>4 DEF Item
  <2>. QED  BY <1>1, <1>2, <1>4, <2>1 DEF TypeOK, ListOK
<1>10. TypeOK'
  <2>1. TasksOK' /\ Counters' /\ ClockOK'
    BY <1>1, <1>2, <1>8 DEF TypeOK, TasksOK, Counters, ClockOK
  <2>2. Item' = Item
    BY <1>8 DEF Item
  <2>3. NoItem \in Item
    BY <1>1, Typed DEF NoItem, Item
  <2>4. 0 .. items - 1 \subseteq Slots
    BY <1>1, ConstantsAssumption DEF TypeOK, Counters, Slots
  <2>5. ListOK'
    BY <1>1, <1>2, <1>9, <2>2, <2>3, <2>4 DEF TypeOK, ListOK, Named
  <2>6. ControlOK'
    BY <1>1, <1>2, <1>8 DEF TypeOK, ControlOK, Places
  <2>. QED  BY <2>1, <2>5, <2>6 DEF TypeOK
<1>11. BootInv' /\ PointerInv'
  BY <1>1, <1>2, <1>3 DEF BootInv, PointerInv, Booting, HasItem, IsRunning, InTask, Terminal
<1>12. PreemptorInv'
  BY <1>1, <1>2, <1>4, <1>5, <1>6, <1>8 DEF PreemptorInv, IsRunning, InTask
<1>13. RunsAreBounded'
  <2>. SUFFICES ASSUME NEW u \in Tasks,
                       ran[u].last_exec_end >= ran[u].last_exec_start
                PROVE  \/ ran[u].last_exec_end = 0
                       \/ ran[u].last_exec_end - ran[u].last_exec_start
                            < ran[u].bound + FudgeMargin
    BY <1>8 DEF RunsAreBounded
  <2>1. CASE u = c
    <3>1. /\ tick < preempt_at_tick
          /\ preempt_at_tick <= v.last_exec_start + v.bound + FudgeMargin
      BY <1>1, <1>3, <1>5 DEF PreemptorInv
    <3>2. /\ v.last_exec_start \in Nat /\ v.bound \in Nat /\ FudgeMargin \in Nat
          /\ preempt_at_tick \in Nat
      BY <1>1, <1>4, <1>5, Typed DEF TypeOK, ClockOK
    <3>. QED  BY <1>4, <1>5, <1>6, <2>1, <3>1, <3>2, SMTT(30)
  <2>2. CASE u # c
    BY <1>1, <1>6, <2>2 DEF RunsAreBounded
  <2>. QED  BY <2>1, <2>2
<1>. QED
  BY <1>10, <1>11, <1>12, <1>13 DEF IInv

-----------------------------------------------------------------------------
(***************************************************************************)
(* The actions of the bodies of tasks and of main() before the run loop.   *)
(***************************************************************************)

\* What they do to the tasks: none is removed, none of them runs, and one that
\* is new has not run.
TasksKept ==
  /\ TasksOK' /\ Len(task_list') >= Len(task_list)
  /\ \A t \in Tasks : /\ task_list'[t].bound = task_list[t].bound
                     /\ task_list'[t].last_exec_start = task_list[t].last_exec_start
                     /\ task_list'[t].last_exec_end = task_list[t].last_exec_end
  /\ \A t \in Tasks' \ Tasks : task_list'[t].last_exec_end = 0

\* What they do to the list: it stays well formed, the item that runs stays
\* below the count, and no place loses its name.
ListKept ==
  /\ Counters' /\ list' \in [Slots -> Item'] /\ Named(list', items')
  /\ item_upto' \in {0, item_upto}
  /\ item_upto < items => item_upto' < items'
  /\ \A k \in Slots : list[k].task # 0 => list'[k].task # 0

\* Where they go on.
Proceeds ==
  /\ ControlOK' /\ (Booting' <=> Booting)
  /\ pc' \in {"corrupt"} \cup (IF Booting THEN {"boot", "convert", "occurrences"} ELSE InTask)
  /\ pc' \in {"next_task", "convert", "occurrences"} => converting' # 0
  /\ pc' \in {"convert", "occurrences"} => converting' <= Len(task_list')

LEMMA BodyStep ==
  ASSUME IInv, Booting \/ IsRunning, TasksKept, ListKept, Proceeds,
         UNCHANGED <<tick, preempt_at_tick, item, current, executed>>
  PROVE  IInv'
<1>1. TypeOK /\ BootInv /\ PointerInv /\ PreemptorInv /\ RunsAreBounded
  BY DEF IInv
<1>2. /\ tick' = tick /\ preempt_at_tick' = preempt_at_tick /\ item' = item
      /\ current' = current /\ executed' = executed
  OBVIOUS
<1>3. Len(task_list) \in Nat /\ Len(task_list') \in Nat /\ Tasks \subseteq Tasks'
  <2>1. Len(task_list') \in Nat
    BY DEF TasksKept, TasksOK
  <2>. QED  BY <1>1, <2>1, Typed DEF TasksKept, Tasks
<1>4. TypeOK'
  <2>1. Item \subseteq Item'
    BY <1>3 DEF Item, TasksKept
  <2>2. ListOK'
    BY <1>1, <1>2, <2>1 DEF ListKept, TypeOK, ListOK
  <2>. QED
    BY <1>1, <1>2, <2>2 DEF TypeOK, ClockOK, TasksKept, ListKept, Proceeds
<1>5. BootInv'
  <2>1. ASSUME Booting
        PROVE  \A t \in Tasks' : task_list'[t].last_exec_end = 0
    BY <1>1, <2>1 DEF BootInv, TasksKept
  <2>2. (Booting' => Booting) /\ (pc' = "boot" => Booting')
    BY DEF Proceeds, InTask
  <2>3. Booting => item_upto' = 0 /\ preempt_at_tick' = 0
    BY <1>1, <1>2 DEF BootInv, ListKept
  <2>. QED
    BY <2>1, <2>2, <2>3 DEF BootInv, Proceeds, Terminal
<1>6. IsRunning' => IsRunning
  BY DEF IsRunning, Proceeds
<1>7. PointerInv'
  <2>1. ~HasItem' /\ pc' # "disarm"
    BY DEF HasItem, Proceeds, InTask
  <2>2. IsRunning => item_upto' < items' /\ list'[item].task # 0
    BY <1>1 DEF ListKept, PointerInv, TypeOK, ListOK
  <2>. QED
    BY <1>1, <1>2, <1>6, <2>1, <2>2 DEF PointerInv, Proceeds
<1>8. PreemptorInv'
  <2>1. \A t \in Tasks' : task_list'[t].last_exec_end <= tick
    BY <1>1 DEF PreemptorInv, TasksKept, TypeOK, ClockOK
  <2>2. IsRunning => /\ current.task \in Tasks
                     /\ task_list'[current.task].last_exec_start <= tick
                     /\ tick < preempt_at_tick
                     /\ preempt_at_tick <= task_list'[current.task].last_exec_start
                                             + task_list'[current.task].bound + FudgeMargin
    BY <1>1, HeldTask DEF PreemptorInv, TasksKept
  <2>3. pc' # "start"
    BY DEF Proceeds, InTask
  <2>. QED
    BY <1>2, <1>6, <2>1, <2>2, <2>3 DEF PreemptorInv
<1>9. RunsAreBounded'
  BY <1>1 DEF RunsAreBounded, TasksKept
<1>. QED
  BY <1>4, <1>5, <1>7, <1>8, <1>9 DEF IInv

\* The task list is left alone, or so is the list of items.
LEMMA TasksUnchanged ==
  ASSUME IInv, task_list' = task_list
  PROVE  TasksKept
BY Typed DEF TasksKept, IInv, TypeOK, TasksOK, Tasks

LEMMA ListUnchanged ==
  ASSUME IInv, TasksKept,
         list' = list, items' = items, item_upto' = item_upto,
         index_sorted_upto' = index_sorted_upto
  PROVE  ListKept
<1>1. Item \subseteq Item'
  <2>1. Len(task_list') \in Nat
    BY DEF TasksKept, TasksOK
  <2>. QED  BY <2>1, Typed DEF IInv, TasksKept, Item
<1>. QED  BY <1>1 DEF ListKept, IInv, TypeOK, Counters, ListOK

\* A purge keeps the items from item_upto on, that of the running task first.
LEMMA PurgeInv == IInv /\ Purge => IInv'
<1>. SUFFICES ASSUME IInv, Purge PROVE IInv'
  OBVIOUS
<1>1. TypeOK /\ BootInv /\ PointerInv
  BY DEF IInv
<1>2. /\ pc = "purge" /\ pc' = "next_task" /\ caller' = "online" /\ converting' = 1
      /\ UNCHANGED <<tick, preempt_at_tick, task_list, item, current, executed>>
      /\ UNCHANGED <<request, status, rejected, schedule_time, finish_time>>
  BY DEF Purge, run_vars, request_vars
<1>3. IsRunning /\ item_upto < items
  BY <1>1, <1>2 DEF BootInv, PointerInv, Booting, IsRunning, InTask, Terminal
<1>4. TasksKept
  BY <1>2, TasksUnchanged
<1>5. ListKept
  <2>1. CASE UNCHANGED schedule_vars
    BY <1>4, <2>1, ListUnchanged DEF schedule_vars
  <2>2. CASE /\ items' = items - item_upto /\ item_upto' = 0
             /\ index_sorted_upto' = SortedAfterPurge
             /\ list' = MovedToFront(items - item_upto)
    <3>1. /\ items \in Nat /\ item_upto \in Nat /\ index_sorted_upto \in Nat
          /\ items <= MAX_SCHEDULED_ITEMS /\ MAX_SCHEDULED_ITEMS \in Nat
      BY <1>1, ConstantsAssumption DEF TypeOK, Counters
    <3>2. Counters' /\ item_upto' < items'
      BY <1>1, <1>3, <2>2, <3>1 DEF TypeOK, Counters, SortedAfterPurge
    <3>3. \A k \in Slots : list'[k] = IF k < items - item_upto
                                        THEN list[k + item_upto] ELSE list[k]
      BY <2>2 DEF MovedToFront
    <3>4. ASSUME NEW k \in Slots, k < items - item_upto
          PROVE  k + item_upto \in Slots /\ list[k + item_upto].task # 0
      BY <1>1, <3>1, <3>4 DEF TypeOK, ListOK, Named, Slots
    <3>5. list' \in [Slots -> Item]
      BY <1>1, <2>2, <3>4 DEF MovedToFront, TypeOK, ListOK
    <3>6. \A k \in Slots : list[k].task # 0 => list'[k].task # 0
      BY <3>3, <3>4
    <3>7. Named(list', items')
      BY <2>2, <3>1, <3>3, <3>4 DEF Named, Slots
    <3>8. Item' = Item
      BY <1>2 DEF Item
    <3>. QED  BY <2>2, <3>2, <3>5, <3>6, <3>7, <3>8 DEF ListKept
  <2>. QED  BY <2>1, <2>2 DEF Purge
<1>6. Proceeds
  BY <1>1, <1>2, <1>3, Typed
  DEF Proceeds, TypeOK, ControlOK, Places, InTask, Booting, IsRunning
<1>. QED
  BY <1>2, <1>3, <1>4, <1>5, <1>6, BodyStep

LEMMA NextTaskInv == IInv /\ NextTask => IInv'
<1>. SUFFICES ASSUME IInv, NextTask PROVE IInv'
  OBVIOUS
<1>1. TypeOK /\ BootInv /\ PointerInv
  BY DEF IInv
<1>2. /\ pc = "next_task" /\ converting <= Len(task_list)
      /\ \/ pc' = "convert" /\ converting' = converting
         \/ pc' = "next_task" /\ converting' = converting + 1
      /\ UNCHANGED <<tick, preempt_at_tick, task_list, item, current, executed>>
      /\ UNCHANGED <<list, items, item_upto, index_sorted_upto>>
      /\ UNCHANGED <<request, status, rejected, caller, schedule_time, finish_time>>
  BY DEF NextTask, schedule_vars, run_vars, request_vars
<1>3. IsRunning
  BY <1>1, <1>2 DEF BootInv, Booting, IsRunning, InTask, Terminal
<1>4. TasksKept /\ ListKept
  BY <1>2, TasksUnchanged, ListUnchanged
<1>5. Proceeds
  BY <1>1, <1>2, <1>3, Typed
  DEF Proceeds, PointerInv, TypeOK, ControlOK, Places, InTask, Booting, IsRunning
<1>. QED
  BY <1>2, <1>3, <1>4, <1>5, BodyStep

LEMMA EndOnlineSchedulerInv == IInv /\ EndOnlineScheduler => IInv'
<1>. SUFFICES ASSUME IInv, EndOnlineScheduler PROVE IInv'
  OBVIOUS
<1>1. TypeOK /\ BootInv /\ PointerInv
  BY DEF IInv
<1>2. /\ pc = "next_task" /\ pc' = "end" /\ converting' = 0
      /\ SortSchedule(list, index_sorted_upto)
      /\ UNCHANGED <<tick, preempt_at_tick, task_list, item, current, executed>>
      /\ UNCHANGED <<items, item_upto>>
      /\ UNCHANGED <<request, status, rejected, caller, schedule_time, finish_time>>
  BY DEF EndOnlineScheduler, run_vars, request_vars
<1>3. IsRunning
  BY <1>1, <1>2 DEF BootInv, Booting, IsRunning, InTask, Terminal
<1>4. TasksKept
  BY <1>2, TasksUnchanged
<1>5. ListKept
  <2>1. Counters /\ list \in [Slots -> Item] /\ index_sorted_upto \in Nat
        /\ items \in Nat /\ items <= MAX_SCHEDULED_ITEMS /\ MAX_SCHEDULED_ITEMS \in Nat
    BY <1>1, Typed DEF TypeOK, ListOK, Counters
  <2>2. /\ index_sorted_upto' = items
        /\ list' \in [Slots -> Item]
        /\ \A k \in Slots : \/ list'[k] = list[k]
                            \/ k < items /\ \E m \in 0 .. items - 1 : list'[k] = list[m]
    BY <1>2, <2>1, SortMoves
  <2>3. \A k \in Slots : list[k].task # 0 => list'[k].task # 0
    BY <1>1, <2>2 DEF TypeOK, ListOK, Named
  <2>4. Named(list', items)
    BY <1>1, <2>1, <2>3 DEF TypeOK, ListOK, Named, Slots
  <2>5. Item' = Item
    BY <1>2 DEF Item
  <2>. QED  BY <1>2, <2>1, <2>2, <2>3, <2>4, <2>5 DEF ListKept, Counters
<1>6. Proceeds
  BY <1>1, <1>2, <1>3, Typed
  DEF Proceeds, TypeOK, ControlOK, Places, InTask, Booting, IsRunning
<1>. QED
  BY <1>2, <1>3, <1>4, <1>5, <1>6, BodyStep

\* Where a conversion goes on once it has returned.
LEMMA ConversionReturns ==
  ASSUME IInv, pc \in {"convert", "occurrences"}, NEW ok \in BOOLEAN, AfterConversion(ok),
         Len(task_list') = Len(task_list), request' = request, executed' = executed
  PROVE  Proceeds
<1>1. /\ TypeOK /\ converting # 0 /\ converting <= Len(task_list)
      /\ Len(task_list) \in Nat /\ caller' = caller
  BY Typed DEF IInv, PointerInv, AfterConversion
<1>2. status' \in Statuses /\ rejected' \subseteq Nat
  <2>1. status \in Statuses /\ rejected \subseteq Nat /\ converting \in Nat
    BY <1>1 DEF TypeOK, ControlOK
  <2>2. /\ status' \in {status, "accepted", "scheduled_item_buffer_too_small"}
        /\ rejected' \in {rejected, rejected \cup {converting}}
    BY DEF AfterConversion, Answer
  <2>. QED  BY <2>1, <2>2 DEF Statuses
<1>3. schedule_time' \in Nat /\ finish_time' \in Nat
  BY DEF AfterConversion
<1>4. CASE caller = "online"
  BY <1>1, <1>2, <1>3, <1>4
  DEF AfterConversion, Proceeds, TypeOK, ControlOK, Places, InTask, Booting
<1>5. CASE caller # "online"
  BY <1>1, <1>2, <1>3, <1>5
  DEF AfterConversion, Proceeds, TypeOK, ControlOK, Places, InTask, Booting
<1>. QED
  BY <1>4, <1>5

LEMMA BeginConversionInv == IInv /\ BeginConversion => IInv'
<1>. SUFFICES ASSUME IInv, BeginConversion PROVE IInv'
  OBVIOUS
<1>1. TypeOK /\ BootInv /\ PointerInv
  BY DEF IInv
<1>2. /\ pc = "convert"
      /\ UNCHANGED <<tick, preempt_at_tick, task_list, item, current, executed, request>>
      /\ UNCHANGED <<list, items, item_upto, index_sorted_upto>>
  BY DEF BeginConversion, schedule_vars, run_vars
<1>3. Booting \/ IsRunning
  BY <1>2 DEF IsRunning, InTask
<1>4. TasksKept /\ ListKept
  BY <1>2, TasksUnchanged, ListUnchanged
<1>5. Proceeds
  <2>1. CASE AfterConversion(TRUE)
    BY <1>2, <2>1, ConversionReturns
  <2>2. CASE ~AfterConversion(TRUE)
    <3> DEFINE t == task_list[converting]
    <3>1. converting \in Tasks
      BY <1>1, <1>2, Typed DEF PointerInv, TypeOK, ControlOK, Tasks
    <3>2. t.time_evaluated_upto \in Nat /\ t.complete \in Nat
      BY <1>1, <3>1, Typed DEF Task
    <3>3. /\ schedule_time' = t.time_evaluated_upto
          /\ finish_time' \in {t.complete, t.time_evaluated_upto + UPDATE_SCHEDULE_RATE}
          /\ pc' = "occurrences"
          /\ UNCHANGED <<caller, converting, status, rejected>>
      BY <2>2 DEF BeginConversion
    <3>4. schedule_time' \in Nat /\ finish_time' \in Nat
      BY <3>2, <3>3, ConstantsAssumption
    <3>. QED
      BY <1>1, <1>2, <3>3, <3>4
      DEF Proceeds, PointerInv, TypeOK, ControlOK, Places, InTask, Booting
  <2>. QED  BY <2>1, <2>2
<1>. QED
  BY <1>2, <1>3, <1>4, <1>5, BodyStep

LEMMA AddOccurrenceInv == IInv /\ AddOccurrence => IInv'
<1>. SUFFICES ASSUME IInv, AddOccurrence PROVE IInv'
  OBVIOUS
<1> DEFINE next == schedule_time + task_list[converting].period
<1>1. TypeOK /\ BootInv /\ PointerInv
  BY DEF IInv
<1>2. /\ pc = "occurrences" /\ pc' \in {"occurrences", "corrupt"}
      /\ AddToScheduledItemList(converting, schedule_time, next)
      /\ schedule_time' = next
      /\ UNCHANGED <<tick, preempt_at_tick, task_list, item, current, executed>>
      /\ UNCHANGED <<request, status, rejected, caller, converting, finish_time>>
  BY DEF AddOccurrence, Stored, run_vars, request_vars
<1>3. Booting \/ IsRunning
  BY <1>2 DEF IsRunning, InTask
<1>4. TasksKept
  BY <1>2, TasksUnchanged
<1>5. /\ converting \in Tasks /\ converting # 0 /\ schedule_time \in Nat /\ next \in Nat
      /\ converting \in 0 .. Len(task_list)
  <2>1. converting \in Tasks /\ converting # 0 /\ converting \in 0 .. Len(task_list)
    BY <1>1, <1>2, Typed DEF PointerInv, TypeOK, ControlOK, Tasks
  <2>2. task_list[converting].period \in Nat
    BY <1>1, <2>1, Typed DEF Task
  <2>. QED  BY <1>1, <2>1, <2>2 DEF TypeOK, ControlOK
<1>6. ListKept
  <2>. HIDE DEF next
  <2>1. /\ Counters /\ list \in [Slots -> Item] /\ Named(list, items)
        /\ \A x \in Item : x.complete \in Nat
        /\ [task |-> converting, start |-> schedule_time, complete |-> next, done |-> FALSE] \in Item
    BY <1>1, <1>5 DEF TypeOK, ListOK, Item
  <2>2. /\ Counters' /\ items' = items + 1 /\ item_upto' = item_upto
        /\ list' \in [Slots -> Item] /\ Named(list', items')
        /\ \A k \in Slots : list[k].task # 0 => list'[k].task # 0
    BY <1>2, <1>5, <2>1, AddKeepsNames
  <2>3. Item' = Item
    BY <1>2 DEF Item
  <2>. QED  BY <2>1, <2>2, <2>3 DEF ListKept, Counters
<1>7. Proceeds
  BY <1>1, <1>2, <1>5
  DEF Proceeds, PointerInv, TypeOK, ControlOK, Places, InTask, Booting, Terminal
<1>. QED
  BY <1>2, <1>3, <1>4, <1>6, <1>7, BodyStep

LEMMA BufferTooSmallInv == IInv /\ BufferTooSmall => IInv'
<1>. SUFFICES ASSUME IInv, BufferTooSmall PROVE IInv'
  OBVIOUS
<1>1. /\ pc = "occurrences" /\ AfterConversion(FALSE)
      /\ UNCHANGED <<tick, preempt_at_tick, task_list, item, current, executed, request>>
      /\ UNCHANGED <<list, items, item_upto, index_sorted_upto>>
  BY DEF BufferTooSmall, schedule_vars, run_vars
<1>2. TasksKept /\ ListKept
  BY <1>1, TasksUnchanged, ListUnchanged
<1>3. Proceeds /\ (Booting \/ IsRunning)
  BY <1>1, ConversionReturns DEF IsRunning, InTask
<1>. QED
  BY <1>1, <1>2, <1>3, BodyStep

LEMMA EndConversionInv == IInv /\ EndConversion => IInv'
<1>. SUFFICES ASSUME IInv, EndConversion PROVE IInv'
  OBVIOUS
<1> DEFINE v == [task_list[converting] EXCEPT !.time_evaluated_upto = schedule_time]
<1>1. /\ pc = "occurrences" /\ AfterConversion(TRUE)
      /\ task_list' = [task_list EXCEPT ![converting] = v]
      /\ UNCHANGED <<tick, preempt_at_tick, item, current, executed, request>>
      /\ UNCHANGED <<list, items, item_upto, index_sorted_upto>>
  BY DEF EndConversion, schedule_vars, run_vars
<1>2. /\ converting \in Tasks /\ task_list[converting] \in Task /\ schedule_time \in Nat
      /\ task_list \in Seq(Task) /\ Len(task_list) <= MAX_TASKS
  BY <1>1, Typed DEF IInv, PointerInv, TypeOK, TasksOK, ControlOK, Tasks
<1>3. /\ v \in Task /\ v.bound = task_list[converting].bound
      /\ v.last_exec_start = task_list[converting].last_exec_start
      /\ v.last_exec_end = task_list[converting].last_exec_end
  BY <1>2 DEF Task
<1>4. /\ task_list' \in Seq(Task) /\ Len(task_list') = Len(task_list) /\ Tasks' = Tasks
      /\ \A t \in Tasks : task_list'[t] = IF t = converting THEN v ELSE task_list[t]
  <2>. HIDE DEF v
  <2>. QED  BY <1>1, <1>2, <1>3, TaskReplaced DEF Tasks
<1>. HIDE DEF v
<1>5. TasksKept
  BY <1>2, <1>3, <1>4 DEF TasksKept, TasksOK
<1>6. ListKept
  BY <1>1, <1>5, ListUnchanged
<1>7. Proceeds /\ (Booting \/ IsRunning)
  BY <1>1, <1>4, ConversionReturns DEF IsRunning, InTask
<1>. QED
  BY <1>1, <1>5, <1>6, <1>7, BodyStep

\* A task is stored behind the others, if there are fewer than MAX_TASKS.
LEMMA TaskAppended ==
  ASSUME IInv, NEW r \in Request, Verdict(r) = "accepted",
         task_list' = Append(task_list, NewTask(r))
  PROVE  TasksKept /\ Len(task_list') = Len(task_list) + 1
<1>1. /\ TypeOK /\ task_list \in Seq(Task) /\ Len(task_list) <= MAX_TASKS
      /\ tick \in Nat /\ MAX_TASKS \in Nat /\ Len(task_list) \in Nat
  BY ConstantsAssumption DEF IInv, TypeOK, TasksOK, ClockOK
<1>2. Len(task_list) # MAX_TASKS
  BY DEF Verdict
<1>3. NewTask(r) \in Task /\ NewTask(r).last_exec_end = 0
  BY <1>1 DEF NewTask, Task, Request
<1>. QED
  BY <1>1, <1>2, <1>3 DEF TasksKept, TasksOK, Tasks

\* A request, made by main() or by a task, and where its handling goes on.
LEMMA RequestInv ==
  ASSUME IInv, NEW r \in Request, NEW from, NEW next,
         \/ pc = "boot" /\ from = "boot" /\ next = "boot"
         \/ pc = "add" /\ from = "adds" /\ next = "end",
         RequestToAddTask(r, from, next),
         UNCHANGED <<tick, preempt_at_tick, item, current, executed>>,
         request' \in 0 .. Len(BootRequests)
  PROVE  IInv'
<1>1. TypeOK /\ BootInv /\ PointerInv
  BY DEF IInv
<1>2. Booting \/ IsRunning
  BY <1>1 DEF BootInv, Booting, IsRunning, InTask
<1>3. /\ Booting <=> from = "boot"
      /\ next \in Places /\ next \in IF Booting THEN {"boot"} ELSE {"end"}
      /\ "corrupt" \in Places /\ "convert" \in Places
  BY <1>1 DEF BootInv, Booting, Places, InTask, Terminal
<1>4. Len(task_list) \in Nat
  BY <1>1, Typed
<1>5. /\ status \in Statuses /\ rejected \subseteq Nat /\ converting \in 0 .. Len(task_list) + 1
      /\ schedule_time \in Nat /\ finish_time \in Nat /\ executed \subseteq Nat \X Nat
      /\ caller \in {"boot", "adds", "online"} /\ executed' = executed
  BY <1>1 DEF TypeOK, ControlOK
<1>6. CASE Refuse(r, next)
  <2>1. /\ status' \in Statuses /\ pc' = next
        /\ UNCHANGED <<task_list, list, items, item_upto, index_sorted_upto, rejected>>
        /\ UNCHANGED <<caller, converting, schedule_time, finish_time>>
    BY <1>6 DEF Refuse, Verdict, Statuses, schedule_vars, convert_vars
  <2>2. TasksKept /\ ListKept
    BY <2>1, TasksUnchanged, ListUnchanged
  <2>3. Proceeds
    BY <1>3, <1>5, <2>1 DEF Proceeds, ControlOK, Booting, InTask
  <2>. QED  BY <1>2, <2>2, <2>3, BodyStep
<1>7. CASE AddAperiodic(r, next)
  <2> DEFINE place == Len(task_list) + 1
             new == [task |-> place, start |-> r.start, complete |-> r.complete, done |-> FALSE]
  <2>1. /\ Verdict(r) = "accepted" /\ task_list' = Append(task_list, NewTask(r))
        /\ pc' \in {next, "corrupt"}
        /\ status' \in {"accepted", "scheduled_item_buffer_too_small"}
        /\ rejected' \in {rejected, rejected \cup {place}}
        /\ UNCHANGED <<caller, converting, schedule_time, finish_time>>
        /\ \/ AddToScheduledItemList(place, r.start, r.complete)
           \/ UNCHANGED schedule_vars
    BY <1>7 DEF AddAperiodic, Answer, Stored, convert_vars
  <2>2. TasksKept /\ Len(task_list') = place
    BY <2>1, TaskAppended
  <2>3. Item \subseteq Item' /\ \A x \in Item' : x.complete \in Nat
    BY <1>4, <2>2 DEF Item
  <2>4. ListKept
    <3>1. CASE AddToScheduledItemList(place, r.start, r.complete)
      <4>1. r.start \in Nat /\ r.complete \in Nat
        BY DEF Request
      <4>2. place # 0 /\ place \in 0 .. Len(task_list')
        BY <1>4, <2>2
      <4>3. new \in Item'
        BY <4>1, <4>2 DEF Item
      <4>4. Counters /\ list \in [Slots -> Item'] /\ Named(list, items)
        BY <1>1, <2>3 DEF TypeOK, ListOK
      <4>. HIDE DEF place
      <4>5. /\ Counters' /\ items' = items + 1 /\ item_upto' = item_upto
            /\ list' \in [Slots -> Item'] /\ Named(list', items')
            /\ \A k \in Slots : list[k].task # 0 => list'[k].task # 0
        BY <2>3, <3>1, <4>1, <4>2, <4>3, <4>4, AddKeepsNames
      <4>. QED  BY <4>4, <4>5 DEF ListKept, Counters
    <3>2. CASE UNCHANGED schedule_vars
      BY <2>2, <3>2, ListUnchanged DEF schedule_vars
    <3>. QED  BY <2>1, <3>1, <3>2
  <2>5. status' \in Statuses /\ rejected' \subseteq Nat
    BY <1>4, <1>5, <2>1 DEF Statuses
  <2>6. converting' \in 0 .. Len(task_list') + 1
    BY <1>4, <1>5, <2>1, <2>2
  <2>7. Proceeds
    BY <1>3, <1>5, <2>1, <2>5, <2>6 DEF Proceeds, ControlOK, Booting, InTask
  <2>. QED  BY <1>2, <2>2, <2>4, <2>7, BodyStep
<1>8. CASE AddPeriodic(r, from)
  <2>1. /\ Verdict(r) = "accepted" /\ task_list' = Append(task_list, NewTask(r))
        /\ pc' \in {"convert", "corrupt"} /\ caller' = from
        /\ converting' = Len(task_list) + 1
        /\ UNCHANGED <<list, items, item_upto, index_sorted_upto>>
        /\ UNCHANGED <<schedule_time, finish_time, status, rejected>>
    BY <1>8 DEF AddPeriodic, Stored, schedule_vars
  <2>2. TasksKept /\ Len(task_list') = Len(task_list) + 1
    BY <2>1, TaskAppended
  <2>3. ListKept
    BY <2>1, <2>2, ListUnchanged
  <2>4. /\ converting' \in 0 .. Len(task_list') + 1 /\ converting' # 0
        /\ converting' <= Len(task_list')
    BY <1>4, <2>1, <2>2
  <2>5. Proceeds
    BY <1>3, <1>5, <2>1, <2>4 DEF Proceeds, ControlOK, Booting, InTask
  <2>. QED  BY <1>2, <2>2, <2>3, <2>5, BodyStep
<1>. QED
  BY <1>6, <1>7, <1>8 DEF RequestToAddTask

LEMMA BootRequestInv == IInv /\ BootRequest => IInv'
<1>. SUFFICES ASSUME IInv, BootRequest PROVE IInv'
  OBVIOUS
<1>1. request \in Nat /\ Len(BootRequests) \in Nat /\ BootRequests \in Seq(Request)
  BY ConstantsAssumption DEF IInv, TypeOK, ControlOK
<1>2. BootRequests[request + 1] \in Request /\ request' \in 0 .. Len(BootRequests)
  BY <1>1 DEF BootRequest
<1>. QED
  BY <1>2, RequestInv DEF BootRequest, run_vars

LEMMA AddOnTheFlyInv == IInv /\ AddOnTheFly => IInv'
<1>. SUFFICES ASSUME IInv, AddOnTheFly PROVE IInv'
  OBVIOUS
<1>1. OnTheFly \in Request /\ request' \in 0 .. Len(BootRequests)
  BY ConstantsAssumption DEF AddOnTheFly, IInv, TypeOK, ControlOK
<1>. QED
  BY <1>1, RequestInv DEF AddOnTheFly, run_vars

-----------------------------------------------------------------------------
(***************************************************************************)
(* The theorems.                                                           *)
(***************************************************************************)

\* What every step of the scheduler preserves, for every value of the
\* constants: the inductive invariant.
THEOREM StepInv == IInv /\ [Next]_vars => IInv'
<1>. SUFFICES ASSUME IInv, [Next]_vars PROVE IInv'
  OBVIOUS
<1>1. CASE RunLoop
  BY <1>1, BootRequestInv, StartRunLoopInv, NextItemInv, KeyPollInv, InstallPreemptorInv,
     StartTaskInv, EndTaskInv, UninstallPreemptorInv DEF RunLoop
<1>2. CASE TaskBodies
  BY <1>2, AddOnTheFlyInv, BeginConversionInv, AddOccurrenceInv, BufferTooSmallInv,
     EndConversionInv, PurgeInv, NextTaskInv, EndOnlineSchedulerInv DEF TaskBodies
<1>3. CASE Tick
  BY <1>3, TickInv
<1>4. CASE UNCHANGED vars
  BY <1>4
  DEF vars, schedule_vars, run_vars, request_vars, convert_vars, IInv, TypeOK, TasksOK,
      Counters, ListOK, Item, Named, ClockOK, ControlOK, BootInv, Booting, Tasks, PointerInv,
      HasItem, IsRunning, PreemptorInv, RunsAreBounded
<1>. QED
  BY <1>1, <1>2, <1>3, <1>4 DEF Next

THEOREM Invariance == Spec => []IInv
BY InitInv, StepInv, PTL DEF Spec

\* The counters of the list stay within the list, and every item below the
\* count names a task, whatever is requested, converted, sorted and purged.
THEOREM TypeCorrect == Spec => []TypeOK
<1>1. IInv => TypeOK
  BY DEF IInv
<1>. QED  BY <1>1, Invariance, PTL

\* A task that returned did so within its bound and the margin: the interrupt
\* ends the system before, at whatever ticks it comes.
THEOREM Bounded == Spec => []RunsAreBounded
<1>1. IInv => RunsAreBounded
  BY DEF IInv
<1>. QED  BY <1>1, Invariance, PTL

\* The sort that follows an addition is never given a range that ends before
\* it starts, which k_qsort would take for one that is too long.
THEOREM SortRangeHolds == Spec => []SortRange
<1>1. IInv => SortRange
  <2>. SUFFICES ASSUME IInv,
                       pc \in {"boot", "add", "convert", "occurrences"},
                       items < MAX_SCHEDULED_ITEMS, index_sorted_upto # 0,
                       NEW start \in 0 .. list[index_sorted_upto - 1].complete - 1
                PROVE  FirstOverlap(list, start) <= items
    BY DEF SortRange
  <2>1. TypeOK /\ BootInv /\ PointerInv /\ Counters
    BY DEF IInv, TypeOK
  <2>2. \A i \in Slots : list[i].complete \in Nat
    BY <2>1, Typed DEF Item
  <2>3. index_sorted_upto - 1 \in Slots
    BY <2>1, ConstantsAssumption DEF Counters, Slots
  <2>4. start \in Nat /\ list[index_sorted_upto - 1].complete > start
    BY <2>2, <2>3
  <2>5. item_upto < items \/ item_upto = 0
    BY <2>1 DEF BootInv, PointerInv, Booting, IsRunning, InTask
  <2>. QED  BY <2>1, <2>2, <2>4, <2>5, FirstOverlapFound
<1>. QED  BY <1>1, Invariance, PTL
=============================================================================
