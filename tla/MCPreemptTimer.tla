--------------------------- MODULE MCPreemptTimer ---------------------------
(***************************************************************************)
(* The timer drivers for TLC, with two tasks.                              *)
(***************************************************************************)
EXTENDS PreemptTimer, TLC

CONSTANTS short, long, isr, queue

OneInterrupt == {isr}
OneQueue == {queue}
TwoTasks == {short, long}
Bounds == short :> 0 @@ long :> 2
=============================================================================
