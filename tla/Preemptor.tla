------------------------------ MODULE Preemptor ------------------------------
(***************************************************************************)
(* What the scheduler is promised of the preemptor: a task is watched from *)
(* the time it is started until it returns, and the first tick at which it *)
(* is due ends the system and blames this task (documentation/README.md:40 *)
(* and 56).  Module Scheduler is built on these steps, its                 *)
(* InstallPreemptor, UninstallPreemptor and Tick; module PreemptTimer is   *)
(* the driver that has to provide them.                                    *)
(***************************************************************************)
EXTENDS Integers

CONSTANTS
  Tasks,    \* the tasks
  NoTask,   \* nullptr
  Allowed   \* the ticks a task may run: its bound and the margin

VARIABLES
  now,      \* the present tick
  watched,  \* the task that is watched, or NoTask
  due,      \* the tick at which it is due
  blamed    \* the task the system was ended for, or NoTask

vars == <<now, watched, due, blamed>>

Init == now = 0 /\ watched = NoTask /\ due = 0 /\ blamed = NoTask

\* The due tick was computed before the task was watched.
Watch(t) ==
  /\ blamed = NoTask /\ watched = NoTask
  /\ watched' = t
  /\ due' \in now + 1 .. now + Allowed[t]
  /\ UNCHANGED <<now, blamed>>

Release ==
  /\ blamed = NoTask /\ watched # NoTask
  /\ watched' = NoTask
  /\ due' = 0
  /\ UNCHANGED <<now, blamed>>

Tick ==
  /\ blamed = NoTask
  /\ now' = now + 1
  /\ blamed' = IF watched # NoTask /\ now' >= due THEN watched ELSE NoTask
  /\ UNCHANGED <<watched, due>>

Next == Tick \/ Release \/ \E t \in Tasks : Watch(t)

Spec == Init /\ [][Next]_vars
=============================================================================
