---------------------------- MODULE PreemptTimer ----------------------------
(***************************************************************************)
(* The preemptor of the timer drivers, step by step: that of               *)
(* src/src/arch/x86/driver.cpp, where the handler is an interrupt that     *)
(* runs to its end between two instructions of the run loop, and that of   *)
(* src/src/modules/timer_macos.cpp (and timer_linux.cpp, with the same     *)
(* text), where Threaded handlers run beside it.                           *)
(*                                                                         *)
(* The run loop is that of run_on_line_scheduler, of which only what it    *)
(* does with the preemptor is kept.  kill_task, the only function ever     *)
(* installed, does not return.                                             *)
(***************************************************************************)
EXTENDS Integers

CONSTANTS
  Handlers,     \* the interrupt, or the dispatch sources of macOS
  Threaded,     \* whether the handlers are threads of their own
  Tasks,        \* the tasks
  NoTask,       \* nullptr
  Bound,        \* exec_bound of each task
  FudgeMargin,  \* helpers.cpp:280
  MaxTick       \* bound: the last tick modelled

ASSUME TimerAssumption ==
  /\ Threaded \in BOOLEAN
  /\ Threaded \/ \A g, h \in Handlers : g = h
  /\ NoTask \notin Tasks
  /\ Bound \in [Tasks -> Nat]
  /\ FudgeMargin \in Nat \ {0}
  /\ MaxTick \in Nat

VARIABLES
  tick,             \* current_tick_
  preempt_at_tick,  \* when the user function is due, 0 for never
  user_func,        \* whether user_preempt_routine is not nullptr
  user_data,        \* user_preemptor_data
  active,           \* block_preemptor / preemptor_active
  in_service,       \* installed_timer_interrupt_in_service
  pc,               \* where the run loop is
  task,             \* the task about to be run, NoTask once it has returned
  event_time,       \* the argument of install
  stores,           \* the assignments that install or uninstall has still to make
  at,               \* where each handler is
  seen,             \* the tick each handler has read to increment
  blamed            \* history: whom kill_task was called with

timer_vars == <<tick, preempt_at_tick, user_func, user_data, active, in_service>>
loop_vars  == <<pc, task, event_time, stores>>
vars == <<timer_vars, loop_vars, at, seen, blamed>>

\* The system ends in "killed", and in "crashed" when a null function is called.
Running == pc \notin {"killed", "crashed"}

\* An interrupt handler runs to its end before the run loop goes on.
LoopRuns == Running /\ (Threaded \/ \A h \in Handlers : at[h] = "idle")

-----------------------------------------------------------------------------
(***************************************************************************)
(* The run loop: for each task, uninstall and install a preemptor, run the *)
(* task and uninstall its preemptor.                                       *)
(***************************************************************************)
LoopStep(from) == LoopRuns /\ pc = from /\ UNCHANGED <<tick, in_service, at, seen, blamed>>

NextTask ==
  /\ LoopStep("loop")
  /\ task' \in Tasks
  /\ tick + Bound[task'] + FudgeMargin <= MaxTick
  /\ pc' = "uninstall"
  /\ UNCHANGED <<preempt_at_tick, user_func, user_data, active, event_time, stores>>

\* The flag while the assignments are made.  The driver of the interrupt
\* declares it without volatile: the compiler may leave the first store out.
Claimed == {TRUE, Threaded}

\* The assignments between the two stores to the flag.  No other thread may
\* rely on their order, and that of the interrupt is the compiler's to choose.
Uninstall ==
  /\ LoopStep("uninstall")
  /\ ~active
  /\ active' \in Claimed
  /\ stores' = IF Threaded THEN {"at", "func", "data"} ELSE {"at", "func"}
  /\ pc' = "uninstalling"
  /\ UNCHANGED <<preempt_at_tick, user_func, user_data, task, event_time>>

\* The arguments of install are evaluated, anew at each try.
CallInstall ==
  /\ LoopStep("arm")
  /\ event_time' = tick + Bound[task] + FudgeMargin
  /\ pc' = "install"
  /\ UNCHANGED <<preempt_at_tick, user_func, user_data, active, task, stores>>

Install ==
  /\ LoopStep("install")
  /\ IF user_func \/ active
     THEN pc' = "arm" /\ UNCHANGED <<active, stores>>
     ELSE /\ active' \in Claimed
          /\ stores' = {"at", "func", "data"}
          /\ pc' = "installing"
  /\ UNCHANGED <<preempt_at_tick, user_func, user_data, task, event_time>>

Store(s) ==
  LET install == pc = "installing" IN
  /\ LoopStep(pc) /\ s \in stores
  /\ stores' = stores \ {s}
  /\ preempt_at_tick' = IF s # "at" THEN preempt_at_tick
                        ELSE IF install THEN event_time ELSE 0
  /\ user_func' = IF s # "func" THEN user_func ELSE install
  /\ user_data' = IF s # "data" THEN user_data ELSE IF install THEN task ELSE NoTask
  /\ UNCHANGED <<active, pc, task, event_time>>

\* Where the run loop goes on once install or uninstall has returned.
AfterReturn == IF pc = "installing" THEN "run" ELSE IF task = NoTask THEN "loop" ELSE "arm"

\* A faulty return (for mutation): the flag is left as it is.
Return_claimed ==
  /\ LoopStep(pc)
  /\ pc \in {"uninstalling", "installing"} /\ stores = {}
  /\ pc' = AfterReturn
  /\ UNCHANGED <<preempt_at_tick, user_func, user_data, active, task, event_time, stores>>

\* The last store to the flag, and the return.
Return ==
  /\ LoopStep(pc)
  /\ pc \in {"uninstalling", "installing"} /\ stores = {}
  /\ active' = FALSE
  /\ pc' = AfterReturn
  /\ UNCHANGED <<preempt_at_tick, user_func, user_data, task, event_time, stores>>

\* The task returns, if it does.
TaskReturns ==
  /\ LoopStep("run")
  /\ task' = NoTask
  /\ pc' = "uninstall"
  /\ UNCHANGED <<preempt_at_tick, user_func, user_data, active, event_time, stores>>

-----------------------------------------------------------------------------
(***************************************************************************)
(* timer_handler / vector, and the preemptor() it calls.  "idle" is its    *)
(* entry; the steps that follow are named after what they read or write.   *)
(***************************************************************************)
HandlerStep(h, from, to) ==
  /\ Running
  /\ at[h] = from
  /\ at' = [at EXCEPT ![h] = to]

\* Ticks are counted up to MaxTick, and an install takes less time than the
\* task may run: the due tick is not reached before it is installed.
TickAllowed ==
  /\ tick < MaxTick
  /\ pc \in {"uninstall", "uninstalling", "arm"} /\ task # NoTask =>
       tick + Bound[task] + FudgeMargin < MaxTick
  /\ pc \in {"install", "installing"} => tick + 1 < event_time

\* Another handler in service: this one returns at once.
Interrupt(h) ==
  /\ ~in_service /\ TickAllowed
  /\ HandlerStep(h, "idle", "serve")
  /\ UNCHANGED <<timer_vars, loop_vars, seen, blamed>>

Serve(h) ==
  /\ HandlerStep(h, "serve", "read tick")
  /\ in_service' = TRUE
  /\ UNCHANGED <<tick, preempt_at_tick, user_func, user_data, active, loop_vars, seen, blamed>>

ReadTick(h) ==
  /\ HandlerStep(h, "read tick", "write tick")
  /\ seen' = [seen EXCEPT ![h] = tick]
  /\ UNCHANGED <<timer_vars, loop_vars, blamed>>

WriteTick(h) ==
  /\ HandlerStep(h, "write tick", "preempt_at_tick")
  /\ tick' = seen[h] + 1
  /\ UNCHANGED <<preempt_at_tick, user_func, user_data, active, in_service, loop_vars, seen, blamed>>

\* A faulty preemptor (for mutation): its due tick comes too late.
Due_late == tick > preempt_at_tick

Due == tick >= preempt_at_tick

\* The three tests of preemptor() and the comparison, in their order.
Test(h) ==
  /\ \/ HandlerStep(h, "preempt_at_tick", IF preempt_at_tick # 0 THEN "user_func" ELSE "leave")
     \/ HandlerStep(h, "user_func", IF user_func THEN "active" ELSE "leave")
     \/ HandlerStep(h, "active", IF ~active THEN "due" ELSE "leave")
     \/ HandlerStep(h, "due", IF Due THEN "claim" ELSE "leave")
  /\ UNCHANGED <<timer_vars, loop_vars, seen, blamed>>

Claim(h) ==
  /\ HandlerStep(h, "claim", "call")
  /\ active' = TRUE
  /\ UNCHANGED <<tick, preempt_at_tick, user_func, user_data, in_service, loop_vars, seen, blamed>>

\* kill_task looks into the task it is given.
Call(h) ==
  /\ HandlerStep(h, "call", "call")
  /\ blamed' = user_data
  /\ pc' = IF user_func /\ user_data # NoTask THEN "killed" ELSE "crashed"
  /\ UNCHANGED <<timer_vars, task, event_time, stores, seen>>

\* A faulty end (for mutation): the handler stays in service.
Leave_serving(h) ==
  /\ HandlerStep(h, "leave", "idle")
  /\ UNCHANGED <<timer_vars, loop_vars, seen, blamed>>

Leave(h) ==
  /\ HandlerStep(h, "leave", "idle")
  /\ in_service' = FALSE
  /\ UNCHANGED <<tick, preempt_at_tick, user_func, user_data, active, loop_vars, seen, blamed>>

-----------------------------------------------------------------------------
\* initialize_timer_driver.
Init ==
  /\ tick = 0 /\ preempt_at_tick = 0
  /\ user_func = FALSE /\ user_data = NoTask
  /\ active = FALSE /\ in_service = FALSE
  /\ pc = "loop" /\ task = NoTask /\ event_time = 0 /\ stores = {}
  /\ at = [h \in Handlers |-> "idle"]
  /\ seen = [h \in Handlers |-> 0]
  /\ blamed = NoTask

Steps ==
  \/ Uninstall \/ CallInstall \/ Install \/ Return
  \/ \E s \in {"at", "func", "data"} : Store(s)

RunLoop == NextTask \/ TaskReturns \/ Steps

Handler(h) ==
  \/ Serve(h) \/ ReadTick(h) \/ WriteTick(h) \/ Test(h)
  \/ Claim(h) \/ Call(h) \/ Leave(h)

Next == RunLoop \/ \E h \in Handlers : Interrupt(h) \/ Handler(h)

Spec == Init /\ [][Next]_vars

\* The processor keeps executing install and uninstall and the handlers, and
\* the hardware keeps interrupting; a task need not return.
FairSpec ==
  /\ Spec
  /\ WF_vars(Steps)
  /\ \A h \in Handlers : WF_vars(Interrupt(h)) /\ WF_vars(Handler(h))

-----------------------------------------------------------------------------
TypeOK ==
  /\ tick \in Nat /\ preempt_at_tick \in Nat /\ event_time \in Nat
  /\ user_func \in BOOLEAN /\ active \in BOOLEAN /\ in_service \in BOOLEAN
  /\ {user_data, task, blamed} \subseteq Tasks \cup {NoTask}
  /\ pc \in {"loop", "uninstall", "uninstalling", "arm", "install", "installing",
             "run", "killed", "crashed"}
  /\ stores \subseteq {"at", "func", "data"}
  /\ at \in [Handlers -> {"idle", "serve", "read tick", "write tick", "preempt_at_tick",
                         "user_func", "active", "due", "claim", "call", "leave"}]
  /\ seen \in [Handlers -> Nat]

(***************************************************************************)
(* The refinement of module Preemptor.  A tick has passed once its handler *)
(* has come to its end; a task is watched while it runs, and afterwards    *)
(* until the first store of uninstall that the handler would notice.       *)
(***************************************************************************)
Ticking(h) ==
  at[h] \in {"preempt_at_tick", "user_func", "active", "due", "claim", "call", "leave"}
Calling(h) == at[h] = "call"

now == IF Running /\ \E h \in Handlers : Ticking(h) THEN tick - 1 ELSE tick

Armed ==
  preempt_at_tick # 0 /\ user_func /\ (~active \/ \E h \in Handlers : Calling(h))

watched ==
  IF pc = "run" THEN task
  ELSE IF \/ pc = "killed"
          \/ pc \in {"uninstall", "uninstalling"} /\ task = NoTask /\ Armed
  THEN user_data ELSE NoTask

due == IF watched = NoTask THEN 0 ELSE preempt_at_tick

P == INSTANCE Preemptor WITH Allowed <- [t \in Tasks |-> Bound[t] + FudgeMargin]

\* The driver of the interrupt watches every task that runs and ends the system
\* at its due tick, wherever interrupts come within install and uninstall and
\* in whatever order the compiler stores what these assign.
WatchesTasks == P!Spec

-----------------------------------------------------------------------------
(***************************************************************************)
(* The inductive invariant behind WatchesTasks, for the driver of the      *)
(* interrupt.                                                              *)
(***************************************************************************)

\* What a handler has found stays so until it ends: the run loop stands still.
HandlerInv(h) ==
  /\ in_service <=> at[h] \notin {"idle", "serve"}
  /\ at[h] = "write tick" => seen[h] = tick
  /\ at[h] \in {"serve", "read tick", "write tick"} /\ pc \in {"install", "installing"} =>
       tick + 1 < event_time
  /\ Ticking(h) => tick # 0
  /\ at[h] \in {"user_func", "active", "due", "claim", "call"} => preempt_at_tick # 0
  /\ at[h] \in {"active", "due", "claim", "call"} => user_func
  /\ at[h] \in {"due", "claim"} => ~active
  /\ at[h] \in {"claim", "call"} => Due
  /\ at[h] = "call" => active
  /\ at[h] = "leave" /\ watched # NoTask => tick < due

\* Nothing is installed; the preemptor of the last task is installed; it is
\* being uninstalled; that of the next task is being installed.
Nothing == preempt_at_tick = 0 /\ ~user_func
Installed ==
  /\ preempt_at_tick = event_time /\ event_time # 0 /\ user_func
  /\ user_data \in Tasks /\ now < event_time
Uninstalling ==
  /\ preempt_at_tick = IF "at" \in stores THEN event_time ELSE 0
  /\ user_func <=> "func" \in stores
  /\ user_data \in Tasks /\ "data" \notin stores
  /\ Armed => now < event_time
Installing ==
  /\ preempt_at_tick = IF "at" \in stores THEN 0 ELSE event_time
  /\ user_func <=> "func" \notin stores
  /\ "data" \in stores \/ user_data = task

LoopInv ==
  /\ Running /\ stores # {} => pc \in {"uninstalling", "installing"}
  /\ active => (\E h \in Handlers : Calling(h)) \/ pc \in {"uninstalling", "installing"}
  /\ pc = "loop" => task = NoTask
  /\ pc \in {"arm", "install", "installing", "run"} => task \in Tasks
  /\ pc \in {"loop", "arm", "install"} => Nothing
  /\ pc \in {"uninstall", "uninstalling"} /\ task # NoTask => Nothing
  /\ pc = "uninstall" /\ task = NoTask => Installed
  /\ pc = "uninstalling" /\ task = NoTask => Uninstalling
  /\ pc = "installing" => Installing
  /\ pc \in {"install", "installing"} =>
       tick < event_time /\ event_time <= tick + Bound[task] + FudgeMargin
  /\ pc = "run" => Installed /\ user_data = task
  /\ pc # "crashed" /\ (Running => blamed = NoTask)

TimerInv == TypeOK /\ (\A h \in Handlers : HandlerInv(h)) /\ LoopInv

-----------------------------------------------------------------------------
\* The retries of install and uninstall (timer.h:36) end.
TaskIsStarted == pc = "arm" ~> pc = "run" \/ ~Running

\* A task that does not return ends the system.
OverrunEnds == pc = "run" ~> pc # "run"

\* "if it's unsafe to uninstall a user_func then return false"
\* (timer_macos.cpp:391): a handler does not call what has been uninstalled.
UninstalledNotCalled == pc # "crashed"
=============================================================================
