------------------------------ MODULE FairLock ------------------------------
(***************************************************************************)
(* What a fair lock promises: one thread at a time, in the order in which  *)
(* the threads asked for it.                                               *)
(***************************************************************************)
EXTENDS Sequences

CONSTANT Threads

VARIABLES
  line,      \* the threads that asked for the lock and did not release it yet
  inside     \* those that have it

vars == <<line, inside>>

Init == line = <<>> /\ inside = {}

Ask(t) ==
  /\ \A i \in DOMAIN line : line[i] # t
  /\ line' = Append(line, t)
  /\ UNCHANGED inside

Grant ==
  /\ inside = {}
  /\ line # <<>>
  /\ inside' = {Head(line)}
  /\ UNCHANGED line

Release ==
  /\ line # <<>>
  /\ inside = {Head(line)}
  /\ inside' = {}
  /\ line' = Tail(line)

Next == Grant \/ Release \/ \E t \in Threads : Ask(t)

Spec == Init /\ [][Next]_vars
=============================================================================
