----------------------------- MODULE TicketLock -----------------------------
(***************************************************************************)
(* class TicketLock of src/include/types/resources.h: each thread that     *)
(* locks draws a ticket and spins until it is served.                      *)
(*                                                                         *)
(* Each action is one locked instruction: the atomics of the file are      *)
(* inline assembly that no compiler or processor reorders.                 *)
(***************************************************************************)
EXTENDS Integers, Sequences, FiniteSets

CONSTANTS
  Threads,
  Tickets    \* how many tickets there are: 2^32, the values of a uint32_t

ASSUME TicketAssumption ==
  /\ IsFiniteSet(Threads)
  /\ Tickets \in Nat \ {0}
  /\ Cardinality(Threads) <= Tickets

VARIABLES
  next_ticket,
  now_serving,
  my_ticket,   \* each thread's ticket
  at,          \* where each thread is: "out", "spin", "in"
  line         \* the threads with a ticket, in the order they drew it

ticket_vars == <<next_ticket, now_serving, my_ticket, at, line>>

TicketInit ==
  /\ next_ticket = 0
  /\ now_serving = 0
  /\ my_ticket = [t \in Threads |-> 0]
  /\ at = [t \in Threads |-> "out"]
  /\ line = <<>>

\* Lock: the thread draws a ticket.
Draw(t) ==
  /\ at[t] = "out"
  /\ my_ticket' = [my_ticket EXCEPT ![t] = next_ticket]
  /\ next_ticket' = (next_ticket + 1) % Tickets
  /\ at' = [at EXCEPT ![t] = "spin"]
  /\ line' = Append(line, t)
  /\ UNCHANGED now_serving

\* A faulty Lock that lets in any ticket drawn before the one it serves next.
Served_late(t) ==
  /\ at[t] = "spin"
  /\ now_serving <= my_ticket[t]
  /\ at' = [at EXCEPT ![t] = "in"]
  /\ UNCHANGED <<next_ticket, now_serving, my_ticket, line>>

\* Lock: the thread sees its ticket served; until then its loads change nothing.
Served(t) ==
  /\ at[t] = "spin"
  /\ now_serving = my_ticket[t]
  /\ at' = [at EXCEPT ![t] = "in"]
  /\ UNCHANGED <<next_ticket, now_serving, my_ticket, line>>

\* A faulty UnLock that serves the ticket after the next.
UnLock_twice(t) ==
  /\ at[t] = "in"
  /\ now_serving' = (now_serving + 2) % Tickets
  /\ at' = [at EXCEPT ![t] = "out"]
  /\ line' = Tail(line)
  /\ UNCHANGED <<next_ticket, my_ticket>>

\* UnLock: the next ticket is served.
UnLock(t) ==
  /\ at[t] = "in"
  /\ now_serving' = (now_serving + 1) % Tickets
  /\ at' = [at EXCEPT ![t] = "out"]
  /\ line' = Tail(line)
  /\ UNCHANGED <<next_ticket, my_ticket>>

TicketStep(t) == Draw(t) \/ Served(t) \/ UnLock(t)

TicketNext == \E t \in Threads : TicketStep(t)

\* A thread that waits or holds the lock keeps running; none need ask for it.
TicketFairness == \A t \in Threads : WF_ticket_vars(Served(t) \/ UnLock(t))

TicketSpec == TicketInit /\ [][TicketNext]_ticket_vars /\ TicketFairness

-----------------------------------------------------------------------------
TicketTypeOK ==
  /\ next_ticket \in 0 .. Tickets - 1
  /\ now_serving \in 0 .. Tickets - 1
  /\ my_ticket \in [Threads -> 0 .. Tickets - 1]
  /\ at \in [Threads -> {"out", "spin", "in"}]
  /\ line \in Seq(Threads)

\* The threads with a ticket stand in line once each, their tickets follow one
\* another from the one being served, and only the first of them is inside
\* (resources.h:578).
LineInOrder ==
  /\ \A t \in Threads : at[t] # "out" <=> \E i \in 1 .. Len(line) : line[i] = t
  /\ \A i, j \in 1 .. Len(line) : line[i] = line[j] => i = j
  /\ \A i \in 1 .. Len(line) : my_ticket[line[i]] = (now_serving + i - 1) % Tickets
  /\ next_ticket = (now_serving + Len(line)) % Tickets
  /\ \A i \in 1 .. Len(line) : at[line[i]] = "in" => i = 1

Inside == {t \in Threads : at[t] = "in"}

\* A ticket lock is a fair lock: one thread at a time, in the order of the
\* tickets, also when their 32 bits wrap (resources.h:581).
Fair == INSTANCE FairLock WITH inside <- Inside
IsFairLock == Fair!Spec

\* Every thread that draws a ticket gets the lock (resources.h:568).
EveryTicketServed == \A t \in Threads : at[t] = "spin" ~> at[t] = "in"
=============================================================================
