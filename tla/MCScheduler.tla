---------------------------- MODULE MCScheduler ----------------------------
(***************************************************************************)
(* Instances of the scheduler for TLC.  The repository's rate of 1000      *)
(* ticks and its periods of 50 to 1000 become a rate of 3 and periods of 1 *)
(* to 4; the online scheduler has the period UPDATE_SCHEDULE_RATE - 1 and  *)
(* is the first request, as in main().                                     *)
(***************************************************************************)
EXTENDS SchedulerProperties

Of(name, kind, bound, period) ==
  [name |-> name, kind |-> kind, wait_for |-> 0, start |-> 0, bound |-> bound,
   complete |-> 0, period |-> period]

OnlineScheduler == Of(10, "online_scheduler", 1, UPDATE_SCHEDULE_RATE - 1)

\* Every period is longer than the online scheduler's.
SlowTasks == <<OnlineScheduler, Of(1, "work", 1, 3), Of(2, "work", 0, 4)>>

\* As in main(): a request that is refused because its bound is above its
\* period, a task more frequent than the online scheduler, and one that runs
\* once and adds another, as test_adding_task_on_the_fly does.  Beside them a
\* task with an end, one without a time to run at, one that is refused because
\* its bound does not fit, and one that waits for a task and bears its name.
FastTasks == <<OnlineScheduler, Of(11, "work", 2, 1), Of(1, "work", 1, 1),
               [Of(5, "adds", 0, 0) EXCEPT !.start = 2, !.complete = 4],
               [Of(2, "work", 1, 3) EXCEPT !.complete = 5],
               Of(3, "work", 1, 0),
               [Of(4, "work", 3, 0) EXCEPT !.start = 2, !.complete = 4],
               [Of(1, "work", 0, 4) EXCEPT !.wait_for = 1]>>
LateTask == [Of(6, "work", 0, 2) EXCEPT !.start = 3, !.complete = 8]

\* A task that adds a task whenever it runs: the lists fill up.
FillingTasks == <<OnlineScheduler, Of(5, "adds", 0, 2)>>
\* A second periodic task for the lists that fill up.
OftenTask == Of(8, "work", 0, 1)

\* A task that waits for one that was accepted before it.
WaitingTasks == <<OnlineScheduler, Of(1, "work", 1, 3),
                  [Of(2, "work", 0, 3) EXCEPT !.wait_for = 1]>>
OnceTask == [Of(7, "work", 0, 0) EXCEPT !.start = 4, !.complete = 6]
=============================================================================
