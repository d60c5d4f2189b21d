-------------------------- MODULE CriticalSection ---------------------------
(***************************************************************************)
(* Enter and Leave of class CriticalSection of src/include/types/          *)
(* resources.h, the algorithm of Eisenberg and McGuire.                    *)
(*                                                                         *)
(* Each load and each store of flags and of activeIndex is a step.  The    *)
(* members are plain memory: the threads run on one processor, which may   *)
(* switch between any two of them but sees its own stores in order.        *)
(***************************************************************************)
EXTENDS Integers

CONSTANT MAX_CONCURRENT

ASSUME SectionAssumption == MAX_CONCURRENT \in Nat \ {0}

VARIABLES
  flags,
  activeIndex,
  index,    \* each thread's variable index
  pc        \* the access each thread does next, "out" or "in"

section_vars == <<flags, activeIndex, index, pc>>

Indices == 0 .. MAX_CONCURRENT - 1
next(i) == (i + 1) % MAX_CONCURRENT

\* The constructor leaves every thread waiting, also those that never enter.
SectionInit ==
  /\ flags = [i \in Indices |-> "WAITING"]
  /\ activeIndex = 0
  /\ index = [i \in Indices |-> 0]
  /\ pc = [i \in Indices |-> "out"]

Go(i, from, to) == pc[i] = from /\ pc' = [pc EXCEPT ![i] = to]
Index(i, n) == index' = [index EXCEPT ![i] = n]
Flag(i, f) == flags' = [flags EXCEPT ![i] = f]

-----------------------------------------------------------------------------
\* Enter, first lines of the loop.
Announce(i) ==
  /\ Go(i, "out", "first") \/ Go(i, "again", "first")
  /\ Flag(i, "WAITING")
  /\ UNCHANGED <<activeIndex, index>>

\* The load of activeIndex before the scan, and in it.
LoadActive(i) ==
  /\ pc[i] = "first"
  /\ Index(i, activeIndex)
  /\ pc' = [pc EXCEPT ![i] = IF activeIndex = i THEN "claim" ELSE "scan"]
  /\ UNCHANGED <<flags, activeIndex>>

\* The scan goes back to the active thread until it finds the threads from
\* there to itself idle.
Scan(i) ==
  /\ pc[i] = "scan"
  /\ IF flags[index[i]] # "IDLE"
     THEN pc' = [pc EXCEPT ![i] = "first"] /\ UNCHANGED index
     ELSE /\ Index(i, next(index[i]))
          /\ pc' = [pc EXCEPT ![i] = IF next(index[i]) = i THEN "claim" ELSE "scan"]
  /\ UNCHANGED <<flags, activeIndex>>

Claim(i) ==
  /\ Go(i, "claim", "others")
  /\ Flag(i, "ACTIVE")
  /\ Index(i, 0)
  /\ UNCHANGED activeIndex

\* A faulty loop that stops one short.
FindActive_short(i) ==
  /\ pc[i] = "others"
  /\ IF index[i] < MAX_CONCURRENT - 1 /\ (index[i] = i \/ flags[index[i]] # "ACTIVE")
     THEN Index(i, index[i] + 1) /\ UNCHANGED pc
     ELSE /\ pc' = [pc EXCEPT ![i] = IF index[i] < MAX_CONCURRENT - 1 THEN "again" ELSE "mine"]
          /\ UNCHANGED index
  /\ UNCHANGED <<flags, activeIndex>>

\* The search for another active thread, from 0 on.
FindActive(i) ==
  /\ pc[i] = "others"
  /\ IF index[i] < MAX_CONCURRENT /\ (index[i] = i \/ flags[index[i]] # "ACTIVE")
     THEN Index(i, index[i] + 1) /\ UNCHANGED pc
     ELSE /\ pc' = [pc EXCEPT ![i] = IF index[i] < MAX_CONCURRENT THEN "again" ELSE "mine"]
          /\ UNCHANGED index
  /\ UNCHANGED <<flags, activeIndex>>

\* The condition to get in: the first load of activeIndex.
IsMine(i) ==
  /\ pc[i] = "mine"
  /\ pc' = [pc EXCEPT ![i] = IF activeIndex = i THEN "enter" ELSE "whose"]
  /\ UNCHANGED <<flags, activeIndex, index>>

\* The second load of activeIndex.
Whose(i) ==
  /\ Go(i, "whose", "idle")
  /\ Index(i, activeIndex)
  /\ UNCHANGED <<flags, activeIndex>>

\* Whether that thread is idle.
IsIdle(i) ==
  /\ pc[i] = "idle"
  /\ pc' = [pc EXCEPT ![i] = IF flags[index[i]] = "IDLE" THEN "enter" ELSE "again"]
  /\ UNCHANGED <<flags, activeIndex, index>>

Entered(i) ==
  /\ Go(i, "enter", "in")
  /\ activeIndex' = i
  /\ UNCHANGED <<flags, index>>

-----------------------------------------------------------------------------
\* Leave: the load of activeIndex.
BeginLeave(i) ==
  /\ Go(i, "in", "search")
  /\ Index(i, next(activeIndex))
  /\ UNCHANGED <<flags, activeIndex>>

\* The search for the next thread that is not idle: at last the thread itself.
Search(i) ==
  /\ pc[i] = "search"
  /\ IF flags[index[i]] = "IDLE"
     THEN Index(i, next(index[i])) /\ UNCHANGED pc
     ELSE pc' = [pc EXCEPT ![i] = "pass"] /\ UNCHANGED index
  /\ UNCHANGED <<flags, activeIndex>>

\* A faulty Leave that keeps the active index.
Pass_none(i) ==
  /\ Go(i, "pass", "leave")
  /\ UNCHANGED <<flags, activeIndex, index>>

\* The active index is passed on.
Pass(i) ==
  /\ Go(i, "pass", "leave")
  /\ activeIndex' = index[i]
  /\ UNCHANGED <<flags, index>>

EndLeave(i) ==
  /\ Go(i, "leave", "out")
  /\ Flag(i, "IDLE")
  /\ UNCHANGED <<activeIndex, index>>

SectionStep(i) ==
  \/ Announce(i) \/ LoadActive(i) \/ Scan(i) \/ Claim(i) \/ FindActive(i)
  \/ IsMine(i) \/ Whose(i) \/ IsIdle(i) \/ Entered(i)
  \/ BeginLeave(i) \/ Search(i) \/ Pass(i) \/ EndLeave(i)

SectionNext == \E i \in Indices : SectionStep(i)

\* A thread in Enter or Leave keeps running, and one inside leaves in the end.
SectionProgress(i) == pc[i] # "out" /\ SectionStep(i)

SectionFairness == \A i \in Indices : WF_section_vars(SectionProgress(i))

SectionSpec == SectionInit /\ [][SectionNext]_section_vars /\ SectionFairness

-----------------------------------------------------------------------------
SectionTypeOK ==
  /\ flags \in [Indices -> {"IDLE", "ACTIVE", "WAITING"}]
  /\ activeIndex \in Indices
  /\ index \in [Indices -> 0 .. MAX_CONCURRENT]
  /\ pc \in [Indices -> {"out", "first", "scan", "claim", "others", "mine", "whose",
                         "idle", "again", "enter", "in", "search", "pass", "leave"}]

\* From the last load of Enter to the last store of Leave.
InSection(i) == pc[i] \in {"enter", "in", "search", "pass", "leave"}

\* Never are two threads inside, although Enter looks at the flags of the others
\* one at a time (resources.h:649).
MutualExclusion == \A i, j \in Indices : InSection(i) /\ InSection(j) => i = j

\* A thread that calls Enter gets in (resources.h:637).  This is not so in general:
\* the constructor leaves all flags at WAITING (resources.h:612), and a thread waits
\* for ever for one that has never been in.
EveryEntrantGetsIn == \A i \in Indices : pc[i] = "first" ~> pc[i] = "in"

\* It does where every thread there is room for calls Enter at some time, however
\* the calls interleave; none has to call it again (resources.h:641).
EntrantsGetIn == (\A i \in Indices : <>(pc[i] # "out")) => EveryEntrantGetsIn
=============================================================================
