------------------------- MODULE Occurrences_proofs -------------------------
(***************************************************************************)
(* Proofs, for every value of the constants, about what is listed and what *)
(* is run.                                                                 *)
(*                                                                         *)
(* No occurrence of a task is in the list twice (NoOccurrenceTwice) and    *)
(* none is missing (EveryOccurrenceOnce), as long as the list has room     *)
(* left.  The second needs that the comparison the list is sorted with is  *)
(* an order, which it is when no task waits for another.  Then, from the   *)
(* same facts about the tasks: that the scheduler uses the preemptor as    *)
(* module Preemptor says.                                                  *)
(*                                                                         *)
(* As long as the list has room left, and no sort moves what the run loop  *)
(* has passed, each item is run once and none is skipped; when all tasks   *)
(* are called less often than the online scheduler, no sort does.          *)
(*                                                                         *)
(* Last, for tasks of any pace, such as those of main(): there is always a *)
(* next update, beyond which no task without an end has to wait for items. *)
(***************************************************************************)
EXTENDS Scheduler_proofs, FiniteSetTheorems

-----------------------------------------------------------------------------
(***************************************************************************)
(* Rearranging, extending and shortening a list of items.                  *)
(***************************************************************************)
Same(a, b) == a.task = b.task /\ a.start = b.start /\ a.complete = b.complete

\* The first n items of m are those of l in another order.
Rearranges(order, l, m, n) ==
  /\ IsRearrangement(order, 0, n)
  /\ \A k \in 0 .. n - 1 : Same(m[k], l[order[k]])

\* They are never moved before an item with an earlier deadline.
ByDeadline(order, m, n) ==
  \A i, j \in 0 .. n - 1 : i < j => order[i] < order[j] \/ m[i].complete <= m[j].complete

\* Every place of the items is the place of some item after a rearrangement.
LEMMA RearrangementOnto ==
  ASSUME NEW n \in Nat, NEW order, IsRearrangement(order, 0, n)
  PROVE  \A k \in 0 .. n - 1 : \E j \in 0 .. n - 1 : order[j] = k
<1> DEFINE N == 0 .. n - 1
<1>1. order \in Injection(N, N)
  <2>1. order \in [N -> N] /\ \A i, j \in N : order[i] = order[j] => i = j
    BY DEF IsRearrangement
  <2>. QED  BY <2>1 DEF Injection, IsInjective
<1>2. IsFiniteSet(N)
  BY FS_Interval
<1>3. order \in Surjection(N, N)
  BY <1>1, <1>2, FS_Injection
<1>. QED
  BY <1>3 DEF Surjection

\* Rearranging the items neither repeats nor loses an occurrence.
LEMMA RearrangedOnce ==
  ASSUME NEW n \in Nat, NEW l, NEW m, NEW order, Rearranges(order, l, m, n),
         NEW P, NEW U, Once(l, n), Converted(l, n, P, U)
  PROVE  Once(m, n) /\ Converted(m, n, P, U)
<1>1. ASSUME NEW i \in 0 .. n - 1
      PROVE  order[i] \in 0 .. n - 1 /\ Same(m[i], l[order[i]])
  BY DEF Rearranges, IsRearrangement
<1>2. Once(m, n)
  <2>. SUFFICES ASSUME NEW i \in 0 .. n - 1, NEW j \in 0 .. n - 1,
                       m[i].task = m[j].task, m[i].start = m[j].start
                PROVE  i = j
    BY DEF Once
  <2>1. order[i] = order[j]
    BY <1>1 DEF Once, Same
  <2>. QED  BY <2>1 DEF Rearranges, IsRearrangement
<1>3. Converted(m, n, P, U)
  BY <1>1 DEF Converted, Same
<1>. QED
  BY <1>2, <1>3

LEMMA RearrangedGapless ==
  ASSUME NEW n \in Nat, NEW l, NEW m, NEW order, Rearranges(order, l, m, n),
         NEW P, NEW U, Gapless(l, n, P, U)
  PROVE  Gapless(m, n, P, U)
<1>. SUFFICES ASSUME NEW i \in 0 .. n - 1, P[m[i].task] # 0,
                     m[i].start + P[m[i].task] # U[m[i].task]
              PROVE  \E j \in 0 .. n - 1 : /\ m[j].task = m[i].task
                                           /\ m[j].start = m[i].start + P[m[i].task]
  BY DEF Gapless
<1>1. order[i] \in 0 .. n - 1 /\ Same(m[i], l[order[i]])
  BY DEF Rearranges, IsRearrangement
<1>2. PICK k \in 0 .. n - 1 : /\ l[k].task = m[i].task
                              /\ l[k].start = m[i].start + P[m[i].task]
  BY <1>1 DEF Gapless, Same
<1>3. PICK j \in 0 .. n - 1 : order[j] = k
  BY RearrangementOnto DEF Rearranges
<1>4. Same(m[j], l[k])
  BY <1>3 DEF Rearranges
<1>. QED
  BY <1>2, <1>4 DEF Same

LEMMA RearrangedOrdered ==
  ASSUME NEW n \in Nat, NEW l, NEW m, NEW order, Rearranges(order, l, m, n),
         ByDeadline(order, m, n), NEW P, NEW U, \A i \in 0 .. n - 1 : l[i].start \in Nat,
         \A i \in 0 .. n - 1 : P[l[i].task] \in Nat,
         Once(l, n), Converted(l, n, P, U), Ordered(l, n, P)
  PROVE  Ordered(m, n, P)
<1>. SUFFICES ASSUME NEW i \in 0 .. n - 1, NEW j \in 0 .. n - 1, i < j,
                     m[i].task = m[j].task, P[m[i].task] # 0
              PROVE  m[i].start < m[j].start
  BY DEF Ordered
<1>1. /\ order[i] \in 0 .. n - 1 /\ Same(m[i], l[order[i]])
      /\ order[j] \in 0 .. n - 1 /\ Same(m[j], l[order[j]])
      /\ order[i] # order[j]
  BY DEF Rearranges, IsRearrangement
<1>2. CASE order[i] < order[j]
  BY <1>1, <1>2 DEF Ordered, Same
<1>3. CASE m[i].complete <= m[j].complete
  <2>1. m[i].start # m[j].start
    BY <1>1 DEF Once, Same
  <2>2. m[i].complete = m[i].start + P[m[i].task] /\ m[j].complete = m[j].start + P[m[i].task]
    BY <1>1 DEF Converted, Same
  <2>3. m[i].start \in Nat /\ m[j].start \in Nat /\ P[m[i].task] \in Nat
    BY <1>1 DEF Same
  <2>. QED  BY <1>3, <2>1, <2>2, <2>3
<1>. QED
  BY <1>2, <1>3 DEF ByDeadline

\* The next occurrence of the task that is being converted is stored behind the
\* others: the task c is then converted up to its end.
LEMMA Extended ==
  ASSUME NEW n \in Nat, NEW l, \A i \in 0 .. n : l[i].start \in Nat,
         NEW P, NEW c, c = l[n].task, P[c] \in Nat \ {0},
         NEW U, NEW V, l[n].start = U[c], l[n].complete = U[c] + P[c],
         V[c] = U[c] + P[c], \A i \in 0 .. n - 1 : l[i].task # c => V[l[i].task] = U[l[i].task],
         Once(l, n), Converted(l, n, P, U)
  PROVE  /\ Once(l, n + 1) /\ Converted(l, n + 1, P, V)
         /\ Ordered(l, n, P) => Ordered(l, n + 1, P)
         /\ Gapless(l, n, P, U) => Gapless(l, n + 1, P, V)
<1>1. U[c] \in Nat /\ U[c] = l[n].start
  OBVIOUS
<1>2. ASSUME NEW i \in 0 .. n - 1, l[i].task = c
      PROVE  l[i].start < U[c] /\ l[i].complete = l[i].start + P[c]
  BY <1>2 DEF Converted
<1>3. \A i \in 0 .. n : i \in 0 .. n - 1 \/ i = n
  OBVIOUS
<1>4. 0 .. n + 1 - 1 = 0 .. n
  OBVIOUS
<1>5. Once(l, n + 1)
  BY <1>1, <1>2, <1>3, <1>4 DEF Once
<1>6. Converted(l, n + 1, P, V)
  <2>. SUFFICES ASSUME NEW i \in 0 .. n, P[l[i].task] # 0
                PROVE  /\ l[i].start < V[l[i].task]
                       /\ l[i].complete = l[i].start + P[l[i].task]
    BY <1>4 DEF Converted
  <2>1. CASE i \in 0 .. n - 1 /\ l[i].task # c
    BY <2>1 DEF Converted
  <2>2. CASE i \in 0 .. n - 1 /\ l[i].task = c
    BY <1>1, <1>2, <2>2
  <2>3. CASE i = n
    BY <1>1, <2>3
  <2>. QED  BY <1>3, <2>1, <2>2, <2>3
<1>7. ASSUME Ordered(l, n, P)
      PROVE  Ordered(l, n + 1, P)
  <2>. SUFFICES ASSUME NEW i \in 0 .. n, NEW j \in 0 .. n, i < j,
                       l[i].task = l[j].task, P[l[i].task] # 0
                PROVE  l[i].start < l[j].start
    BY <1>4 DEF Ordered
  <2>1. i \in 0 .. n - 1
    OBVIOUS
  <2>. QED  BY <1>1, <1>2, <1>3, <1>7, <2>1 DEF Ordered
<1>8. ASSUME Gapless(l, n, P, U)
      PROVE  Gapless(l, n + 1, P, V)
  <2>. SUFFICES ASSUME NEW i \in 0 .. n, P[l[i].task] # 0,
                       l[i].start + P[l[i].task] # V[l[i].task]
                PROVE  \E j \in 0 .. n : /\ l[j].task = l[i].task
                                         /\ l[j].start = l[i].start + P[l[i].task]
    BY <1>4 DEF Gapless
  <2>1. i \in 0 .. n - 1
    BY <1>3
  <2>2. CASE l[i].start + P[l[i].task] = U[l[i].task]
    <3>1. l[i].task = c
      BY <2>1, <2>2
    <3>. QED  BY <2>2, <3>1
  <2>3. CASE l[i].start + P[l[i].task] # U[l[i].task]
    BY <1>8, <2>1, <2>3 DEF Gapless
  <2>. QED  BY <2>2, <2>3
<1>. QED
  BY <1>5, <1>6, <1>7, <1>8

\* An item of a task that has no other and no period is stored behind the others.
LEMMA ExtendedOnce ==
  ASSUME NEW n \in Nat, NEW l, NEW P, P[l[n].task] = 0,
         \A i \in 0 .. n - 1 : l[i].task # l[n].task, NEW U, Once(l, n), Converted(l, n, P, U)
  PROVE  /\ Once(l, n + 1) /\ Converted(l, n + 1, P, U)
         /\ Ordered(l, n, P) => Ordered(l, n + 1, P)
         /\ Gapless(l, n, P, U) => Gapless(l, n + 1, P, U)
<1>1. 0 .. n + 1 - 1 = 0 .. n /\ \A i \in 0 .. n : i \in 0 .. n - 1 \/ i = n
  OBVIOUS
<1>2. Once(l, n + 1)
  BY <1>1 DEF Once
<1>3. Converted(l, n + 1, P, U)
  BY <1>1 DEF Converted
<1>4. Ordered(l, n, P) => Ordered(l, n + 1, P)
  BY <1>1 DEF Ordered
<1>5. Gapless(l, n, P, U) => Gapless(l, n + 1, P, U)
  BY <1>1 DEF Gapless
<1>. QED
  BY <1>2, <1>3, <1>4, <1>5

\* The first u items are dropped: what is left is as it was, and since the
\* occurrences of a task are in order, none is missing between those left.
LEMMA DroppedFirst ==
  ASSUME NEW n \in Nat, NEW u \in 0 .. n, NEW l, NEW m,
         \A k \in 0 .. n - u - 1 : m[k] = l[k + u],
         \A i \in 0 .. n - 1 : l[i].start \in Nat,
         NEW P, \A i \in 0 .. n - 1 : P[l[i].task] \in Nat,
         NEW U, Once(l, n), Converted(l, n, P, U)
  PROVE  /\ Once(m, n - u) /\ Converted(m, n - u, P, U)
         /\ Ordered(l, n, P) => Ordered(m, n - u, P)
         /\ Ordered(l, n, P) /\ Gapless(l, n, P, U) => Gapless(m, n - u, P, U)
<1>1. ASSUME NEW k \in 0 .. n - u - 1
      PROVE  k + u \in 0 .. n - 1 /\ m[k] = l[k + u]
  OBVIOUS
<1>2. Once(m, n - u)
  <2>. SUFFICES ASSUME NEW i \in 0 .. n - u - 1, NEW j \in 0 .. n - u - 1,
                       m[i].task = m[j].task, m[i].start = m[j].start
                PROVE  i = j
    BY DEF Once
  <2>1. i + u = j + u
    BY <1>1 DEF Once
  <2>. QED  BY <2>1
<1>3. Converted(m, n - u, P, U)
  BY <1>1 DEF Converted
<1>4. ASSUME Ordered(l, n, P)
      PROVE  Ordered(m, n - u, P)
  <2>. SUFFICES ASSUME NEW i \in 0 .. n - u - 1, NEW j \in 0 .. n - u - 1, i < j,
                       m[i].task = m[j].task, P[m[i].task] # 0
                PROVE  m[i].start < m[j].start
    BY DEF Ordered
  <2>1. i + u < j + u
    OBVIOUS
  <2>. QED  BY <1>1, <1>4, <2>1 DEF Ordered
<1>5. ASSUME Ordered(l, n, P), Gapless(l, n, P, U)
      PROVE  Gapless(m, n - u, P, U)
  <2>. SUFFICES ASSUME NEW i \in 0 .. n - u - 1, P[m[i].task] # 0,
                       m[i].start + P[m[i].task] # U[m[i].task]
                PROVE  \E j \in 0 .. n - u - 1 : /\ m[j].task = m[i].task
                                                 /\ m[j].start = m[i].start + P[m[i].task]
    BY DEF Gapless
  <2>1. PICK k \in 0 .. n - 1 : /\ l[k].task = m[i].task
                                /\ l[k].start = m[i].start + P[m[i].task]
    BY <1>1, <1>5 DEF Gapless
  <2>2. l[i + u].start < l[k].start
    BY <1>1, <2>1
  <2>3. ~(k < i + u) /\ k # i + u
    BY <1>1, <1>5, <2>1, <2>2 DEF Ordered
  <2>4. k - u \in 0 .. n - u - 1 /\ m[k - u] = l[k]
    BY <1>1, <2>1, <2>3
  <2>. QED  BY <2>1, <2>4
<1>. QED
  BY <1>2, <1>3, <1>4, <1>5

\* The list is the same for tasks that are the same.
LEMMA SameTasks ==
  ASSUME NEW n \in Nat, NEW l, NEW P, NEW Q, NEW U, NEW V,
         \A i \in 0 .. n - 1 : Q[l[i].task] = P[l[i].task] /\ V[l[i].task] = U[l[i].task]
  PROVE  /\ Converted(l, n, P, U) => Converted(l, n, Q, V)
         /\ Ordered(l, n, P) => Ordered(l, n, Q)
         /\ Gapless(l, n, P, U) => Gapless(l, n, Q, V)
<1>1. Converted(l, n, P, U) => Converted(l, n, Q, V)
  BY DEF Converted
<1>2. Ordered(l, n, P) => Ordered(l, n, Q)
  BY DEF Ordered
<1>3. Gapless(l, n, P, U) => Gapless(l, n, Q, V)
  BY DEF Gapless
<1>. QED
  BY <1>1, <1>2, <1>3

-----------------------------------------------------------------------------
(***************************************************************************)
(* What sort_schedule and add_to_scheduled_item_list do to the list.       *)
(***************************************************************************)

\* Unless a task waits, the items are compared by deadline, which orders them.
LEMMA DeadlinesOrder ==
  ASSUME NoneWaits, NEW l, NEW lo \in Nat, items \in Nat, items <= MAX_SCHEDULED_ITEMS,
         \A k \in 0 .. items - 1 : l[k].task \in Tasks /\ l[k].complete \in Nat,
         NEW before, before = {p \in Slots \X Slots : Before(l[p[1]], l[p[2]])}
  PROVE  /\ Orders(lo .. items - 1, before)
         /\ \A i, j \in lo .. items - 1 :
              <<i, j>> \in before <=> l[i].complete < l[j].complete
<1>1. lo .. items - 1 \subseteq Slots /\ lo .. items - 1 \subseteq 0 .. items - 1
  BY ConstantsAssumption DEF Slots
<1>2. ASSUME NEW i \in lo .. items - 1, NEW j \in lo .. items - 1
      PROVE  <<i, j>> \in before <=> l[i].complete < l[j].complete
  <2>1. task_list[l[i].task].wait_for = 0 /\ task_list[l[j].task].wait_for = 0
    BY <1>1 DEF NoneWaits
  <2>2. Before(l[i], l[j]) <=> l[i].complete < l[j].complete
    BY <2>1 DEF Before
  <2>3. <<i, j>> \in before <=> Before(l[i], l[j])
    BY <1>1
  <2>. QED  BY <2>2, <2>3
<1>3. \A i \in lo .. items - 1 : l[i].complete \in Nat
  BY <1>1
<1>. QED
  BY <1>2, <1>3 DEF Orders

LEMMA SortRearrangesList ==
  ASSUME Counters, NEW l, NEW I, l \in [Slots -> I], NEW lo \in Nat, SortSchedule(l, lo)
  PROVE  \E order :
           /\ Rearranges(order, l, list', items)
           /\ \A k \in Slots : k >= items => list'[k] = l[k]
           /\ NoneWaits /\ (\A k \in 0 .. items - 1 : l[k].task \in Tasks /\ l[k].complete \in Nat)
                => ByDeadline(order, list', items)
<1> DEFINE before == {p \in Slots \X Slots : Before(l[p[1]], l[p[2]])}
           sorted == k_qsort(lo, items, before)
           order  == [k \in 0 .. items - 1 |-> IF k >= lo THEN sorted[k] ELSE k]
<1>1. items \in Nat /\ MAX_SCHEDULED_ITEMS \in Nat /\ items <= MAX_SCHEDULED_ITEMS
  BY ConstantsAssumption DEF Counters
<1>2. IsRearrangement(sorted, lo, items)
  BY <1>1, SortRearranges
<1>3. ASSUME NEW k \in Slots
      PROVE  list'[k] = IF k \in lo .. items - 1 THEN l[sorted[k]] ELSE l[k]
  <2>1. list' = Reordered(l, lo, items, sorted)
    BY Zenon DEF SortSchedule, SortedOrder
  <2>. QED  BY <2>1 DEF Reordered
<1>4. ASSUME NoneWaits,
             \A k \in 0 .. items - 1 : l[k].task \in Tasks /\ l[k].complete \in Nat
      PROVE  \A i, j \in lo .. items - 1 :
               i < j => ~(l[sorted[j]].complete < l[sorted[i]].complete)
  <2>1. /\ Orders(lo .. items - 1, before)
        /\ \A i, j \in lo .. items - 1 : <<i, j>> \in before <=> l[i].complete < l[j].complete
    BY <1>1, <1>4, DeadlinesOrder
  <2>2. \A i, j \in lo .. items - 1 : i < j => <<sorted[j], sorted[i]>> \notin before
    BY <1>1, <2>1, SortOrders
  <2>3. \A i \in lo .. items - 1 : sorted[i] \in lo .. items - 1
    BY <1>2 DEF IsRearrangement
  <2>. QED  BY <2>1, <2>2, <2>3, ZenonT(60)
<1>. HIDE DEF sorted, before
<1>5. \A k \in 0 .. items - 1 : /\ order[k] = IF k >= lo THEN sorted[k] ELSE k
                                /\ k >= lo => sorted[k] \in lo .. items - 1
  BY <1>2 DEF IsRearrangement
<1>6. IsRearrangement(order, 0, items)
  <2>1. order \in [0 .. items - 1 -> 0 .. items - 1]
    BY <1>1, <1>5
  <2>2. ASSUME NEW i \in 0 .. items - 1, NEW j \in 0 .. items - 1, order[i] = order[j]
        PROVE  i = j
    BY <1>1, <1>2, <1>5, <2>2 DEF IsRearrangement
  <2>. QED  BY <2>1, <2>2 DEF IsRearrangement
<1>7. \A k \in 0 .. items - 1 : list'[k] = l[order[k]]
  BY <1>1, <1>3, <1>5 DEF Slots
<1>8. ASSUME NoneWaits,
             \A k \in 0 .. items - 1 : l[k].task \in Tasks /\ l[k].complete \in Nat
      PROVE  ByDeadline(order, list', items)
  <2>. SUFFICES ASSUME NEW i \in 0 .. items - 1, NEW j \in 0 .. items - 1, i < j
                PROVE  order[i] < order[j] \/ list'[i].complete <= list'[j].complete
    BY DEF ByDeadline
  <2>1. CASE i < lo
    BY <1>1, <1>5, <2>1
  <2>2. CASE i >= lo
    <3>1. ~(l[sorted[j]].complete < l[sorted[i]].complete)
      BY <1>1, <1>4, <1>8, <2>2
    <3>2. l[sorted[i]].complete \in Nat /\ l[sorted[j]].complete \in Nat
      BY <1>1, <1>5, <1>8, <2>2
    <3>3. list'[i] = l[sorted[i]] /\ list'[j] = l[sorted[j]]
      BY <1>1, <1>5, <1>7, <2>2
    <3>. QED  BY <3>1, <3>2, <3>3
  <2>. QED  BY <1>1, <2>1, <2>2
<1>9. \A k \in Slots : k >= items => list'[k] = l[k]
  BY <1>1, <1>3 DEF Slots
<1>10. Rearranges(order, l, list', items)
  BY <1>6, <1>7 DEF Rearranges, Same
<1>. HIDE DEF order
<1>. QED
  BY <1>8, <1>9, <1>10, Zenon

\* An addition rearranges the items there are, as the sort does, and puts the new
\* one behind them.
LEMMA AddRearranges ==
  ASSUME IInv, NEW task, NEW start \in Nat, NEW complete \in Nat,
         AddToScheduledItemList(task, start, complete)
  PROVE  /\ items' = items + 1 /\ items \in Slots
         /\ \E order :
              /\ Rearranges(order, list, list', items)
              /\ NoneWaits => ByDeadline(order, list', items)
         /\ Same(list'[items], [task |-> task, start |-> start, complete |-> complete])
<1> DEFINE new == [task |-> task, start |-> start, complete |-> complete, done |-> FALSE]
           l == [list EXCEPT ![items] = new]
           lo == FirstOverlap(l, start)
           I == [task: Nat \cup {task}, start: Nat, complete: Nat, done: BOOLEAN]
<1>1. /\ items < MAX_SCHEDULED_ITEMS /\ items' = items + 1
      /\ SortSchedule(l, lo) \/ list' = l
  BY Zenon DEF AddToScheduledItemList
<1>2. TypeOK /\ Counters /\ items \in Nat /\ MAX_SCHEDULED_ITEMS \in Nat /\ items \in Slots
  BY <1>1, ConstantsAssumption DEF IInv, TypeOK, Counters, Slots
<1>3. /\ \A k \in 0 .. items - 1 : list[k].task \in Tasks /\ list[k].complete \in Nat
      /\ list \in [Slots -> I]
  <2>1. list \in [Slots -> Item] /\ Named(list, items) /\ Len(task_list) \in Nat
    BY <1>2, Typed DEF TypeOK, ListOK
  <2>2. Item \subseteq I
    BY <2>1 DEF Item
  <2>3. ASSUME NEW k \in 0 .. items - 1
        PROVE  list[k].task \in Tasks /\ list[k].complete \in Nat
    <3>1. k \in Slots
      BY <1>1, <1>2 DEF Slots
    <3>. QED  BY <2>1, <3>1 DEF Item, Named, Tasks
  <2>. QED  BY <2>1, <2>2, <2>3
<1>4. /\ l \in [Slots -> I] /\ l[items] = new
      /\ \A k \in 0 .. items - 1 : l[k] = list[k]
  BY <1>2, <1>3 DEF Slots
<1>5. Same(new, [task |-> task, start |-> start, complete |-> complete])
  BY DEF Same
<1>. HIDE DEF new, l
<1>6. CASE SortSchedule(l, lo)
  <2>1. lo \in Nat
    BY <1>1, <1>2, <1>4, FirstOverlapFound
  <2>. HIDE DEF lo
  <2>2. PICK order :
          /\ Rearranges(order, l, list', items)
          /\ \A k \in Slots : k >= items => list'[k] = l[k]
          /\ NoneWaits /\ (\A k \in 0 .. items - 1 : l[k].task \in Tasks /\ l[k].complete \in Nat)
               => ByDeadline(order, list', items)
    BY <1>2, <1>4, <1>6, <2>1, SortRearrangesList
  <2>3. Rearranges(order, list, list', items)
    BY <1>4, <2>2 DEF Rearranges, IsRearrangement
  <2>4. NoneWaits => ByDeadline(order, list', items)
    BY <1>3, <1>4, <2>2
  <2>5. list'[items] = new
    BY <1>2, <1>4, <2>2
  <2>. QED  BY <1>1, <1>2, <1>5, <2>3, <2>4, <2>5
<1>7. CASE list' = l
  <2> DEFINE order == [k \in 0 .. items - 1 |-> k]
  <2>1. Rearranges(order, list, list', items)
    BY <1>4, <1>7 DEF Rearranges, IsRearrangement, Same
  <2>2. ByDeadline(order, list', items)
    BY DEF ByDeadline
  <2>3. list'[items] = new
    BY <1>4, <1>7
  <2>. HIDE DEF order
  <2>. QED  BY <1>1, <1>2, <1>5, <2>1, <2>2, <2>3
<1>. QED
  BY <1>1, <1>6, <1>7

-----------------------------------------------------------------------------
(***************************************************************************)
(* Every step keeps the invariants, as long as the list has room left.     *)
(***************************************************************************)

\* No request asks to wait for a task, as none in the repository does: the calls
\* in main.cpp and helpers.cpp pass 0 for wait_for.
NoRequestWaits ==
  /\ OnTheFly.wait_for = 0
  /\ \A i \in 1 .. Len(BootRequests) : BootRequests[i].wait_for = 0

\* What the steps leave as it is of the tasks there are; what they add.
TasksSame ==
  /\ \A t \in Tasks : /\ t \in Tasks'
                      /\ task_list'[t].period = task_list[t].period
                      /\ task_list'[t].wait_for = task_list[t].wait_for
  /\ NoRequestWaits => \A t \in Tasks' \ Tasks : task_list'[t].wait_for = 0

ItemsTyped == \A i \in 0 .. items - 1 :
  list[i].task \in Tasks /\ list[i].start \in Nat /\ Periods[list[i].task] \in Nat

LEMMA ItemsAreTyped == TypeOK => ItemsTyped
<1>. SUFFICES ASSUME TypeOK, NEW i \in 0 .. items - 1
              PROVE  /\ list[i].task \in Tasks /\ list[i].start \in Nat
                     /\ Periods[list[i].task] \in Nat
  BY DEF ItemsTyped
<1>1. i \in Slots /\ list[i] \in Item /\ list[i].task # 0
  BY ConstantsAssumption DEF TypeOK, Counters, ListOK, Named, Slots
<1>2. list[i].task \in Tasks /\ list[i].start \in Nat
  BY <1>1, Typed DEF Item, Tasks
<1>3. task_list[list[i].task].period \in Nat
  BY <1>2, Typed DEF Task
<1>. QED
  BY <1>2, <1>3 DEF Periods

\* Both invariants, of the list and the tasks as they are after the step.
LEMMA AfterStep ==
  ASSUME Once(list', items'), NEW P, NEW U, P = Periods', U = Uptos',
         Converted(list', items', P, U), ConvertsPeriodic'
  PROVE  /\ TwiceInv'
         /\ NoneWaits' /\ Ordered(list', items', P) /\ Gapless(list', items', P, U) => GapInv'
BY DEF TwiceInv, GapInv, Once, Converted, Ordered, Gapless

\* Where the items are rearranged or left, and no task is converted further.
LEMMA RearrangedStep ==
  ASSUME TypeOK, TwiceInv, TasksSame, items' = items,
         \A t \in Tasks : EvaluatedUpto(t)' = EvaluatedUpto(t),
         ConvertsPeriodic', NEW order, Rearranges(order, list, list', items)
  PROVE  /\ TwiceInv'
         /\ NoRequestWaits /\ GapInv /\ ByDeadline(order, list', items) => GapInv'
<1> DEFINE P == Periods'
           U == Uptos'
           n == items
<1>1. n \in Nat /\ ItemsTyped
  BY ItemsAreTyped DEF TypeOK, Counters
<1>2. \A i \in 0 .. n - 1 : /\ P[list[i].task] = Periods[list[i].task]
                            /\ U[list[i].task] = Uptos[list[i].task]
  <2>. SUFFICES ASSUME NEW t \in Tasks PROVE P[t] = Periods[t] /\ U[t] = Uptos[t]
    BY <1>1 DEF ItemsTyped
  <2>. QED  BY DEF TasksSame, Periods, Uptos
<1>3. /\ Once(list, n) /\ Converted(list, n, Periods, Uptos)
      /\ GapInv => Ordered(list, n, Periods) /\ Gapless(list, n, Periods, Uptos)
  BY DEF TwiceInv, GapInv
<1>4. \A i \in 0 .. n - 1 : list[i].start \in Nat /\ P[list[i].task] \in Nat
  BY <1>1, <1>2 DEF ItemsTyped
<1>. HIDE DEF P, U
<1>5. /\ Converted(list, n, P, U)
      /\ GapInv => Ordered(list, n, P) /\ Gapless(list, n, P, U)
  BY <1>1, <1>2, <1>3, SameTasks
<1>6. Once(list', n) /\ Converted(list', n, P, U)
  BY <1>1, <1>3, <1>5, RearrangedOnce
<1>7. ASSUME GapInv, ByDeadline(order, list', n)
      PROVE  Ordered(list', n, P) /\ Gapless(list', n, P, U)
  BY <1>1, <1>3, <1>4, <1>5, <1>7, RearrangedOrdered, RearrangedGapless
<1>8. P = Periods' /\ U = Uptos'
  BY DEF P, U
<1>9. NoRequestWaits /\ GapInv => NoneWaits'
  BY DEF GapInv, NoneWaits, TasksSame
<1>. QED
  BY <1>6, <1>7, <1>8, <1>9, AfterStep

Keeps == TwiceInv' /\ (NoRequestWaits /\ GapInv => GapInv')

\* Where no item is moved.
LEMMA QuietStep ==
  ASSUME TypeOK, TwiceInv, TasksSame, items' = items,
         \A i \in 0 .. items - 1 : Same(list'[i], list[i]),
         \A t \in Tasks : EvaluatedUpto(t)' = EvaluatedUpto(t), ConvertsPeriodic'
  PROVE  Keeps
<1> DEFINE order == [k \in 0 .. items - 1 |-> k]
<1>1. Rearranges(order, list, list', items) /\ ByDeadline(order, list', items)
  BY DEF Rearranges, IsRearrangement, ByDeadline
<1>. HIDE DEF order
<1>. QED
  BY <1>1, RearrangedStep DEF Keeps

\* Between the conversions, a task is evaluated up to what it is marked with.
LEMMA OutsideConversion ==
  ASSUME pc # "occurrences", pc' # "occurrences",
         \A t \in Tasks : task_list'[t].time_evaluated_upto = task_list[t].time_evaluated_upto
  PROVE  \A t \in Tasks : EvaluatedUpto(t)' = EvaluatedUpto(t)
BY DEF EvaluatedUpto

\* The steps of the run loop and of the interrupt, and those of a body that
\* leave the list and the tasks as they are.
LEMMA ControlStep ==
  ASSUME IInv, TwiceInv, UNCHANGED <<task_list, list, items>>, pc # "occurrences",
         pc' # "occurrences", pc' = "convert" => ConvertsPeriodic'
  PROVE  Keeps
<1>1. TypeOK
  BY DEF IInv
<1>2. TasksSame /\ \A t \in Tasks : EvaluatedUpto(t)' = EvaluatedUpto(t)
  BY OutsideConversion DEF TasksSame, Tasks
<1>3. ConvertsPeriodic'
  BY DEF ConvertsPeriodic
<1>. QED
  BY <1>1, <1>2, <1>3, QuietStep DEF Same

LEMMA RunLoopControl ==
  ASSUME IInv, TwiceInv,
         StartRunLoop \/ NextItem \/ KeyPoll \/ InstallPreemptor \/ UninstallPreemptor
  PROVE  Keeps
<1>1. /\ UNCHANGED <<task_list, list, items>>
      /\ pc # "occurrences" /\ pc' \notin {"occurrences", "convert"}
  <2>1. CASE StartRunLoop
    BY <2>1 DEF StartRunLoop
  <2>2. CASE NextItem
    BY <2>2 DEF NextItem, WaitOrArm, schedule_vars
  <2>3. CASE KeyPoll
    BY <2>3 DEF KeyPoll, WaitOrArm, schedule_vars
  <2>4. CASE InstallPreemptor
    BY <2>4 DEF InstallPreemptor, schedule_vars
  <2>5. CASE UninstallPreemptor
    BY <2>5 DEF UninstallPreemptor
  <2>. QED  BY <2>1, <2>2, <2>3, <2>4, <2>5
<1>. QED
  BY <1>1, ControlStep

LEMMA TickKeeps ==
  ASSUME IInv, TwiceInv, Tick
  PROVE  Keeps
<1>1. /\ UNCHANGED <<task_list, list, items, converting>>
      /\ pc # "occurrences" /\ pc' \in {pc, "killed", "key"}
  BY DEF Tick, TickAllowed, schedule_vars, convert_vars
<1>2. pc' = "convert" => ConvertsPeriodic'
  BY <1>1 DEF TwiceInv, ConvertsPeriodic
<1>. QED
  BY <1>1, <1>2, ControlStep

\* Of two task lists: the second has the same tasks but for their accounts.
SameButAccounts(s, r) ==
  /\ r \in Seq(Task) /\ Len(r) = Len(s)
  /\ \A t \in 1 .. Len(s) : /\ r[t].period = s[t].period /\ r[t].wait_for = s[t].wait_for
                           /\ r[t].time_evaluated_upto = s[t].time_evaluated_upto
                           /\ r[t].bound = s[t].bound /\ r[t].complete = s[t].complete
                           /\ r[t].kind = s[t].kind

LEMMA AccountChanged ==
  ASSUME NEW s \in Seq(Task), NEW t \in 1 .. Len(s), NEW v \in Task,
         v.period = s[t].period, v.wait_for = s[t].wait_for,
         v.time_evaluated_upto = s[t].time_evaluated_upto, v.bound = s[t].bound,
         v.complete = s[t].complete, v.kind = s[t].kind
  PROVE  SameButAccounts(s, [s EXCEPT ![t] = v])
BY TaskReplaced DEF SameButAccounts

\* A task is run: only its account changes, and the mark of its item.
LEMMA TaskStep ==
  ASSUME IInv, TwiceInv, SameButAccounts(task_list, task_list'), items' = items,
         \A i \in 0 .. items - 1 : Same(list'[i], list[i]),
         pc # "occurrences", pc' \notin {"occurrences", "convert"}
  PROVE  Keeps
<1>1. TypeOK /\ Tasks' = Tasks
  BY DEF IInv, SameButAccounts, Tasks
<1>2. TasksSame /\ \A t \in Tasks : EvaluatedUpto(t)' = EvaluatedUpto(t)
  BY <1>1, OutsideConversion DEF TasksSame, SameButAccounts, Tasks
<1>. QED
  BY <1>1, <1>2, QuietStep DEF ConvertsPeriodic

LEMMA StartTaskAccounts ==
  ASSUME IInv, StartTask
  PROVE  SameButAccounts(task_list, task_list')
<1> DEFINE t == list[item].task
           v == [task_list[t] EXCEPT !.last_exec_start = tick]
<1>1. pc = "start" /\ task_list' = [task_list EXCEPT ![t] = v]
  BY DEF StartTask
<1>2. /\ task_list \in Seq(Task) /\ t \in 1 .. Len(task_list)
      /\ task_list[t] \in Task /\ tick \in Nat
  BY <1>1, HeldTask, Typed DEF HasItem, IInv, TypeOK, TasksOK, ClockOK, Tasks
<1>3. /\ v \in Task /\ v.period = task_list[t].period /\ v.wait_for = task_list[t].wait_for
      /\ v.time_evaluated_upto = task_list[t].time_evaluated_upto
      /\ v.bound = task_list[t].bound /\ v.complete = task_list[t].complete
      /\ v.kind = task_list[t].kind
  BY <1>2 DEF Task
<1>. HIDE DEF t, v
<1>. QED
  BY <1>1, <1>2, <1>3, AccountChanged

LEMMA EndTaskAccounts ==
  ASSUME IInv, EndTask
  PROVE  SameButAccounts(task_list, task_list')
<1> DEFINE c == current.task
           b == list[item].task
           v == [task_list[c] EXCEPT !.last_exec_end = tick, !.times_called = @ + 1]
           ran == [task_list EXCEPT ![c] = v]
           w == [ran[b] EXCEPT !.deadline_failures = @ + 1]
<1>1. /\ pc = "end"
      /\ task_list' = ran \/ task_list' = [ran EXCEPT ![b] = w]
  BY DEF EndTask
<1>2. IsRunning /\ TypeOK
  BY <1>1 DEF IInv, BootInv, Booting, IsRunning, InTask, Terminal
<1>3. /\ task_list \in Seq(Task) /\ c \in 1 .. Len(task_list) /\ b \in 1 .. Len(task_list)
      /\ task_list[c] \in Task /\ tick \in Nat
  BY <1>2, HeldTask, Typed DEF TypeOK, TasksOK, ClockOK, Tasks
<1>4. /\ v \in Task /\ v.period = task_list[c].period /\ v.wait_for = task_list[c].wait_for
      /\ v.time_evaluated_upto = task_list[c].time_evaluated_upto
      /\ v.bound = task_list[c].bound /\ v.complete = task_list[c].complete
      /\ v.kind = task_list[c].kind
  <2>. HIDE DEF c
  <2>1. task_list[c].times_called \in Nat
    BY <1>3 DEF Task
  <2>2. task_list[c].times_called + 1 \in Nat
    BY <2>1
  <2>. QED  BY <1>3, <2>2 DEF Task
<1>5. SameButAccounts(task_list, ran)
  <2>. HIDE DEF c, v
  <2>. QED  BY <1>3, <1>4, AccountChanged
<1>. HIDE DEF ran
<1>6. /\ w \in Task /\ w.period = ran[b].period /\ w.wait_for = ran[b].wait_for
      /\ w.time_evaluated_upto = ran[b].time_evaluated_upto
      /\ w.bound = ran[b].bound /\ w.complete = ran[b].complete /\ w.kind = ran[b].kind
      /\ ran \in Seq(Task) /\ b \in 1 .. Len(ran)
  <2>. HIDE DEF b
  <2>1. ran[b] \in Task /\ ran \in Seq(Task) /\ b \in 1 .. Len(ran)
    BY <1>3, <1>5 DEF SameButAccounts
  <2>2. ran[b].deadline_failures \in Nat
    BY <2>1 DEF Task
  <2>3. ran[b].deadline_failures + 1 \in Nat
    BY <2>2
  <2>. QED  BY <2>1, <2>3 DEF Task
<1>. HIDE DEF w, b, c
<1>7. SameButAccounts(ran, [ran EXCEPT ![b] = w])
  BY <1>6, AccountChanged
<1>. QED
  BY <1>1, <1>5, <1>7 DEF SameButAccounts

LEMMA RunKeeps ==
  ASSUME IInv, TwiceInv, StartTask \/ EndTask
  PROVE  Keeps
<1>1. CASE StartTask
  <2>1. /\ items' = items /\ list' = list
        /\ pc = "start" /\ pc' \in {"purge", "add", "end"}
    BY <1>1 DEF StartTask, schedule_vars
  <2>. QED  BY <1>1, <2>1, StartTaskAccounts, TaskStep DEF Same
<1>2. CASE EndTask
  <2>1. /\ items' = items /\ list' = [list EXCEPT ![item].done = TRUE]
        /\ pc = "end" /\ pc' = "disarm"
    BY <1>2 DEF EndTask
  <2>2. \A i \in 0 .. items - 1 : Same(list'[i], list[i])
    <3>1. list \in [Slots -> Item] /\ 0 .. items - 1 \subseteq Slots
      BY ConstantsAssumption DEF IInv, TypeOK, ListOK, Counters, Slots
    <3>. QED  BY <2>1, <3>1 DEF Same, Item
  <2>. QED  BY <1>2, <2>1, <2>2, EndTaskAccounts, TaskStep
<1>. QED
  BY <1>1, <1>2

\* The steps of the task bodies that move no item.
LEMMA NextTaskKeeps ==
  ASSUME IInv, TwiceInv, NextTask
  PROVE  Keeps
<1>1. /\ UNCHANGED <<task_list, list, items>> /\ pc = "next_task"
      /\ \/ pc' = "convert" /\ task_list[converting].period # 0 /\ converting' = converting
         \/ pc' = "next_task"
  BY DEF NextTask, schedule_vars
<1>2. pc' = "convert" => ConvertsPeriodic'
  BY <1>1 DEF ConvertsPeriodic
<1>. QED
  BY <1>1, <1>2, ControlStep

\* A conversion starts where the task was evaluated up to.
LEMMA BeginConversionKeeps ==
  ASSUME IInv, TwiceInv, BeginConversion
  PROVE  Keeps
<1>1. pc = "convert" /\ UNCHANGED <<task_list, list, items>> /\ task_list[converting].period # 0
  BY DEF BeginConversion, schedule_vars, TwiceInv, ConvertsPeriodic
<1>2. CASE AfterConversion(TRUE)
  <2>1. pc' \in {"next_task", "boot", "end"}
    BY <1>2 DEF AfterConversion
  <2>. QED  BY <1>1, <2>1, ControlStep
<1>3. CASE ~AfterConversion(TRUE)
  <2>1. /\ schedule_time' = task_list[converting].time_evaluated_upto
        /\ pc' = "occurrences" /\ converting' = converting
    BY <1>3 DEF BeginConversion
  <2>2. TasksSame /\ \A t \in Tasks : EvaluatedUpto(t)' = EvaluatedUpto(t)
    BY <1>1, <2>1 DEF TasksSame, Tasks, EvaluatedUpto
  <2>3. ConvertsPeriodic'
    BY <1>1, <2>1 DEF ConvertsPeriodic
  <2>. QED  BY <1>1, <2>2, <2>3, QuietStep DEF Same, IInv
<1>. QED
  BY <1>2, <1>3

\* It ends with the task marked as evaluated up to where it got.
LEMMA EndConversionKeeps ==
  ASSUME IInv, TwiceInv, EndConversion
  PROVE  Keeps
<1> DEFINE v == [task_list[converting] EXCEPT !.time_evaluated_upto = schedule_time]
<1>1. /\ pc = "occurrences" /\ AfterConversion(TRUE) /\ UNCHANGED <<list, items>>
      /\ task_list' = [task_list EXCEPT ![converting] = v]
  BY DEF EndConversion, schedule_vars
<1>2. pc' \in {"next_task", "boot", "end"}
  BY <1>1 DEF AfterConversion
<1>3. /\ TypeOK /\ task_list \in Seq(Task) /\ converting \in 1 .. Len(task_list)
      /\ task_list[converting] \in Task /\ schedule_time \in Nat
  BY <1>1, Typed DEF IInv, TypeOK, TasksOK, ControlOK, PointerInv, Tasks
<1>4. /\ v \in Task /\ v.period = task_list[converting].period
      /\ v.wait_for = task_list[converting].wait_for /\ v.time_evaluated_upto = schedule_time
  BY <1>3 DEF Task
<1>5. /\ Len(task_list') = Len(task_list)
      /\ \A t \in Tasks : task_list'[t] = IF t = converting THEN v ELSE task_list[t]
  <2>. HIDE DEF v
  <2>. QED  BY <1>1, <1>3, <1>4, TaskReplaced DEF Tasks
<1>. HIDE DEF v
<1>6. TasksSame /\ \A t \in Tasks : EvaluatedUpto(t)' = EvaluatedUpto(t)
  BY <1>1, <1>2, <1>4, <1>5 DEF TasksSame, Tasks, EvaluatedUpto
<1>. QED
  BY <1>1, <1>2, <1>3, <1>6, QuietStep DEF Same, ConvertsPeriodic

\* The sort of the online scheduler.
LEMMA EndOnlineSchedulerKeeps ==
  ASSUME IInv, TwiceInv, EndOnlineScheduler
  PROVE  Keeps
<1>1. /\ SortSchedule(list, index_sorted_upto) /\ pc = "next_task" /\ pc' = "end"
      /\ UNCHANGED <<task_list, items>>
  BY DEF EndOnlineScheduler
<1>2. /\ TypeOK /\ Counters /\ list \in [Slots -> Item] /\ index_sorted_upto \in Nat
      /\ \A k \in 0 .. items - 1 : list[k].task \in Tasks /\ list[k].complete \in Nat
  <2>1. TypeOK /\ Counters /\ list \in [Slots -> Item] /\ ItemsTyped
    BY ItemsAreTyped DEF IInv, TypeOK, ListOK
  <2>2. 0 .. items - 1 \subseteq Slots
    BY <2>1, ConstantsAssumption DEF Counters, Slots
  <2>. QED  BY <2>1, <2>2 DEF Counters, ItemsTyped, Item
<1>3. PICK order : /\ Rearranges(order, list, list', items)
                   /\ NoneWaits => ByDeadline(order, list', items)
  BY <1>1, <1>2, SortRearrangesList
<1>4. TasksSame /\ ConvertsPeriodic' /\ \A t \in Tasks : EvaluatedUpto(t)' = EvaluatedUpto(t)
  BY <1>1, OutsideConversion DEF TasksSame, Tasks, ConvertsPeriodic
<1>. QED
  BY <1>1, <1>2, <1>3, <1>4, RearrangedStep DEF Keeps, GapInv

\* The purge drops the items before the one that is running.
LEMMA PurgeKeeps ==
  ASSUME IInv, TwiceInv, Purge
  PROVE  Keeps
<1>1. pc = "purge" /\ pc' = "next_task" /\ task_list' = task_list
  BY DEF Purge
<1>2. CASE UNCHANGED schedule_vars
  BY <1>1, <1>2, ControlStep DEF schedule_vars
<1>3. CASE ~UNCHANGED schedule_vars
  <2> DEFINE n == items
             u == item_upto
             P == Periods
             U == Uptos
  <2>1. items' = n - u /\ list' = MovedToFront(n - u)
    BY <1>3 DEF Purge
  <2>2. /\ TypeOK /\ ItemsTyped /\ n \in Nat /\ u \in 0 .. n
        /\ MAX_SCHEDULED_ITEMS \in Nat /\ n <= MAX_SCHEDULED_ITEMS
    BY ConstantsAssumption, ItemsAreTyped DEF IInv, TypeOK, Counters
  <2>3. \A k \in 0 .. n - u - 1 : list'[k] = list[k + u]
    BY <2>1, <2>2 DEF MovedToFront, Slots
  <2>4. Once(list, n) /\ Converted(list, n, P, U)
    BY DEF TwiceInv
  <2>5. /\ \A i \in 0 .. n - 1 : list[i].start \in Nat
        /\ \A i \in 0 .. n - 1 : P[list[i].task] \in Nat
    BY <2>2 DEF ItemsTyped
  <2>6. /\ P = Periods' /\ U = Uptos' /\ ConvertsPeriodic'
        /\ GapInv => NoneWaits'
    BY <1>1 DEF GapInv, Periods, Uptos, EvaluatedUpto, Tasks, ConvertsPeriodic, NoneWaits
  <2>. HIDE DEF P, U
  <2>7. /\ Once(list', n - u) /\ Converted(list', n - u, P, U)
        /\ Ordered(list, n, P) => Ordered(list', n - u, P)
        /\ Ordered(list, n, P) /\ Gapless(list, n, P, U) => Gapless(list', n - u, P, U)
    BY <2>2, <2>3, <2>4, <2>5, DroppedFirst
  <2>8. GapInv => Ordered(list, n, P) /\ Gapless(list, n, P, U)
    BY DEF GapInv, P, U
  <2>. QED  BY <2>1, <2>6, <2>7, <2>8, AfterStep DEF Keeps
<1>. QED
  BY <1>2, <1>3

\* One turn of the conversion.
LEMMA AddOccurrenceKeeps ==
  ASSUME IInv, IInv', TwiceInv, RoomLeft', AddOccurrence
  PROVE  Keeps
<1> DEFINE c == converting
           n == items
           P == Periods
           U == Uptos
           V == Uptos'
           next == schedule_time + task_list[c].period
<1>1. /\ pc = "occurrences" /\ AddToScheduledItemList(c, schedule_time, next)
      /\ schedule_time' = next /\ task_list' = task_list /\ converting' = c
      /\ InArray(items) => pc' = "occurrences"
  BY DEF AddOccurrence, Stored
<1>2. /\ TypeOK /\ ItemsTyped /\ n \in Nat /\ c \in Tasks /\ schedule_time \in Nat
      /\ task_list[c].period \in Nat \ {0} /\ next \in Nat
  <2>. TypeOK
    BY DEF IInv
  <2>1. ItemsTyped /\ n \in Nat /\ schedule_time \in Nat
    BY ItemsAreTyped DEF TypeOK, Counters, ControlOK
  <2>2. c \in Tasks
    BY <1>1, <2>1, Typed DEF IInv, TypeOK, ControlOK, PointerInv, Tasks
  <2>3. task_list[c].period \in Nat /\ task_list[c].period # 0
    BY <1>1, <2>1, <2>2, Typed DEF Task, TwiceInv, ConvertsPeriodic
  <2>. QED  BY <2>1, <2>2, <2>3
<1>. HIDE DEF c, next
<1>3. PICK order : /\ items' = n + 1 /\ n \in Slots
                   /\ Rearranges(order, list, list', n)
                   /\ NoneWaits => ByDeadline(order, list', n)
                   /\ Same(list'[n], [task |-> c, start |-> schedule_time, complete |-> next])
  BY <1>1, <1>2, AddRearranges
<1>4. pc' = "occurrences"
  <2>1. n + 1 < MAX_SCHEDULED_ITEMS /\ MAX_SCHEDULED_ITEMS \in Nat
    BY <1>3, ConstantsAssumption DEF RoomLeft
  <2>. QED  BY <1>1, <1>2, <2>1 DEF InArray
<1>5. /\ P = Periods' /\ ConvertsPeriodic'
      /\ GapInv => NoneWaits'
      /\ U[c] = schedule_time /\ V[c] = next
      /\ \A t \in Tasks : t # c => V[t] = U[t]
  BY <1>1, <1>2, <1>4
  DEF Periods, Uptos, EvaluatedUpto, Tasks, ConvertsPeriodic, TwiceInv, GapInv, NoneWaits, c
<1>6. \A i \in 0 .. n - 1 : list'[i].task \in Tasks
  BY <1>2, <1>3 DEF Rearranges, IsRearrangement, Same, ItemsTyped
<1>7. \A i \in 0 .. n : list'[i].start \in Nat
  <2>1. list' \in [Slots -> Item']
    BY DEF IInv, TypeOK, ListOK, Slots
  <2>2. \A i \in 0 .. n : i \in Slots
    BY <1>2, <1>3, ConstantsAssumption DEF Slots
  <2>. QED  BY <2>1, <2>2 DEF Item
<1>8. /\ Once(list, n) /\ Converted(list, n, P, U)
      /\ GapInv => Ordered(list, n, P) /\ Gapless(list, n, P, U) /\ NoneWaits
      /\ \A i \in 0 .. n - 1 : list[i].start \in Nat
      /\ \A i \in 0 .. n - 1 : P[list[i].task] \in Nat
      /\ P[c] = task_list[c].period
  BY <1>2 DEF TwiceInv, GapInv, ItemsTyped, Periods
<1>9. next = U[c] + P[c]
  BY <1>5, <1>8 DEF next, c
<1>. HIDE DEF P, U, V
<1>10. Once(list', n) /\ Converted(list', n, P, U)
  BY <1>2, <1>3, <1>8, RearrangedOnce
<1>11. GapInv => Ordered(list', n, P) /\ Gapless(list', n, P, U)
  BY <1>2, <1>3, <1>8, RearrangedOrdered, RearrangedGapless
<1>12. /\ list'[n].task = c /\ list'[n].start = U[c] /\ list'[n].complete = U[c] + P[c]
       /\ P[c] \in Nat \ {0} /\ V[c] = U[c] + P[c]
       /\ \A i \in 0 .. n - 1 : list'[i].task # c => V[list'[i].task] = U[list'[i].task]
  BY <1>2, <1>3, <1>5, <1>6, <1>8, <1>9 DEF Same
<1>13. /\ Once(list', n + 1) /\ Converted(list', n + 1, P, V)
       /\ Ordered(list', n, P) => Ordered(list', n + 1, P)
       /\ Gapless(list', n, P, U) => Gapless(list', n + 1, P, V)
  BY <1>2, <1>7, <1>10, <1>12, Extended
<1>14. V = Uptos'
  BY DEF V
<1>. HIDE DEF n
<1>15. /\ Once(list', items') /\ Converted(list', items', P, V)
       /\ GapInv => Ordered(list', items', P) /\ Gapless(list', items', P, V)
  BY <1>3, <1>11, <1>13
<1>. QED
  BY <1>5, <1>14, <1>15, AfterStep DEF Keeps

\* What a request fixes of a task.
FixedSame(t) ==
  /\ task_list'[t].bound = task_list[t].bound /\ task_list'[t].period = task_list[t].period
  /\ task_list'[t].complete = task_list[t].complete /\ task_list'[t].kind = task_list[t].kind

\* What storing a task leaves of the others.
LEMMA TaskStored ==
  ASSUME IInv, NEW r \in Request, NoRequestWaits => r.wait_for = 0,
         task_list' = Append(task_list, NewTask(r))
  PROVE  /\ TasksSame
         /\ \A t \in Tasks : task_list'[t].time_evaluated_upto = task_list[t].time_evaluated_upto
         /\ Len(task_list') = Len(task_list) + 1 /\ Len(task_list) \in Nat
         /\ task_list'[Len(task_list) + 1].period = r.period
         /\ \A t \in Tasks : FixedSame(t)
<1> DEFINE new == NewTask(r)
<1>1. task_list \in Seq(Task) /\ Len(task_list) \in Nat
  BY DEF IInv, TypeOK, TasksOK
<1>2. new.period = r.period /\ new.wait_for = r.wait_for
  BY DEF NewTask
<1>. HIDE DEF new
<1>3. /\ Len(task_list') = Len(task_list) + 1
      /\ \A t \in 1 .. Len(task_list) : task_list'[t] = task_list[t]
      /\ task_list'[Len(task_list) + 1] = new
  BY <1>1 DEF new
<1>4. Tasks' \ Tasks \subseteq {Len(task_list) + 1} /\ Tasks \subseteq Tasks'
  BY <1>1, <1>3 DEF Tasks
<1>. QED
  BY <1>1, <1>2, <1>3, <1>4 DEF TasksSame, Tasks, FixedSame

\* A request of main() or of a task.
LEMMA RequestKeeps ==
  ASSUME IInv, IInv', TwiceInv, NEW r \in Request, NoRequestWaits => r.wait_for = 0,
         NEW from, NEW next \in {"boot", "end"}, pc \in {"boot", "add"},
         RequestToAddTask(r, from, next)
  PROVE  Keeps
<1>1. CASE Refuse(r, next)
  BY <1>1, ControlStep DEF Refuse, schedule_vars
<1>2. CASE AddPeriodic(r, from)
  <2>1. /\ task_list' = Append(task_list, NewTask(r)) /\ r.period # 0
        /\ converting' = Len(task_list) + 1 /\ UNCHANGED <<list, items>>
        /\ pc' \in {"convert", "corrupt"}
    BY <1>2 DEF AddPeriodic, Stored, schedule_vars
  <2>2. /\ TasksSame /\ ConvertsPeriodic' /\ TypeOK
        /\ \A t \in Tasks : EvaluatedUpto(t)' = EvaluatedUpto(t)
    BY <2>1, TaskStored, OutsideConversion DEF ConvertsPeriodic, IInv
  <2>. QED  BY <2>1, <2>2, QuietStep DEF Same
<1>3. CASE AddAperiodic(r, next)
  <2> DEFINE place == Len(task_list) + 1
             n == items
  <2>1. /\ task_list' = Append(task_list, NewTask(r)) /\ r.period = 0
        /\ pc' \in {next, "corrupt"}
        /\ \/ AddToScheduledItemList(place, r.start, r.complete)
           \/ UNCHANGED <<list, items>>
    BY <1>3 DEF AddAperiodic, Stored, schedule_vars
  <2>2. /\ TasksSame /\ ConvertsPeriodic' /\ TypeOK /\ ItemsTyped
        /\ \A t \in Tasks : EvaluatedUpto(t)' = EvaluatedUpto(t)
        /\ Len(task_list') = place /\ Len(task_list) \in Nat
        /\ task_list'[place].period = 0
    BY <2>1, TaskStored, OutsideConversion, ItemsAreTyped DEF ConvertsPeriodic, IInv
  <2>3. CASE UNCHANGED <<list, items>>
    BY <2>2, <2>3, QuietStep DEF Same
  <2>4. CASE AddToScheduledItemList(place, r.start, r.complete)
    <3> DEFINE P == Periods'
               U == Uptos'
    <3>1. r.start \in Nat /\ r.complete \in Nat /\ n \in Nat
      BY <2>2 DEF Request, TypeOK, Counters
    <3>2. place \notin Tasks /\ P[place] = 0
      BY <2>2 DEF Tasks, Periods
    <3>. HIDE DEF place
    <3>3. PICK order : /\ items' = n + 1
                       /\ Rearranges(order, list, list', n)
                       /\ NoneWaits => ByDeadline(order, list', n)
                       /\ Same(list'[n], [task |-> place, start |-> r.start, complete |-> r.complete])
      BY <2>4, <3>1, AddRearranges
    <3>4. \A i \in 0 .. n - 1 : /\ P[list[i].task] = Periods[list[i].task]
                                /\ U[list[i].task] = Uptos[list[i].task]
      <4>. SUFFICES ASSUME NEW t \in Tasks PROVE P[t] = Periods[t] /\ U[t] = Uptos[t]
        BY <2>2 DEF ItemsTyped
      <4>. QED  BY <2>2 DEF TasksSame, Periods, Uptos
    <3>5. /\ Once(list, n) /\ Converted(list, n, Periods, Uptos)
          /\ GapInv => /\ NoneWaits /\ Ordered(list, n, Periods)
                       /\ Gapless(list, n, Periods, Uptos)
      BY DEF TwiceInv, GapInv
    <3>6. \A i \in 0 .. n - 1 : list[i].start \in Nat /\ P[list[i].task] \in Nat
      BY <2>2, <3>4 DEF ItemsTyped
    <3>7. NoRequestWaits /\ GapInv => NoneWaits'
      BY <2>2 DEF GapInv, NoneWaits, TasksSame
    <3>8. P = Periods' /\ U = Uptos'
      OBVIOUS
    <3>. HIDE DEF P, U
    <3>9. /\ Converted(list, n, P, U)
          /\ GapInv => Ordered(list, n, P) /\ Gapless(list, n, P, U)
      BY <3>1, <3>4, <3>5, SameTasks
    <3>10. Once(list', n) /\ Converted(list', n, P, U)
      BY <3>1, <3>3, <3>5, <3>9, RearrangedOnce
    <3>11. GapInv => Ordered(list', n, P) /\ Gapless(list', n, P, U)
      BY <3>1, <3>3, <3>5, <3>6, <3>9, RearrangedOrdered, RearrangedGapless
    <3>12. /\ P[list'[n].task] = 0
           /\ \A i \in 0 .. n - 1 : list'[i].task # list'[n].task
      BY <2>2, <3>2, <3>3 DEF Rearranges, IsRearrangement, Same, ItemsTyped
    <3>13. /\ Once(list', n + 1) /\ Converted(list', n + 1, P, U)
           /\ Ordered(list', n, P) => Ordered(list', n + 1, P)
           /\ Gapless(list', n, P, U) => Gapless(list', n + 1, P, U)
      BY <3>1, <3>10, <3>12, ExtendedOnce
    <3>. QED  BY <2>2, <3>3, <3>7, <3>8, <3>11, <3>13, AfterStep DEF Keeps
  <2>. QED  BY <2>1, <2>3, <2>4
<1>. QED
  BY <1>1, <1>2, <1>3 DEF RequestToAddTask

-----------------------------------------------------------------------------
(***************************************************************************)
(* The theorems.                                                           *)
(***************************************************************************)

LEMMA StepKeeps ==
  ASSUME IInv, IInv', TwiceInv, RoomLeft, RoomLeft', [Next]_vars
  PROVE  Keeps
<1>1. CASE BootRequest
  <2>1. request \in Nat /\ Len(BootRequests) \in Nat /\ BootRequests \in Seq(Request)
    BY ConstantsAssumption DEF IInv, TypeOK, ControlOK
  <2>2. /\ request + 1 \in 1 .. Len(BootRequests)
        /\ RequestToAddTask(BootRequests[request + 1], "boot", "boot") /\ pc = "boot"
    BY <1>1, <2>1 DEF BootRequest
  <2>3. /\ BootRequests[request + 1] \in Request
        /\ NoRequestWaits => BootRequests[request + 1].wait_for = 0
    BY <2>1, <2>2 DEF NoRequestWaits
  <2>. QED  BY <2>2, <2>3, RequestKeeps
<1>2. CASE AddOnTheFly
  <2>1. OnTheFly \in Request /\ (NoRequestWaits => OnTheFly.wait_for = 0)
    BY ConstantsAssumption DEF NoRequestWaits
  <2>. QED  BY <1>2, <2>1, RequestKeeps DEF AddOnTheFly
<1>3. CASE BufferTooSmall
  BY <1>3 DEF BufferTooSmall, RoomLeft, IInv, TypeOK, Counters
<1>4. CASE UNCHANGED vars
  <2>1. UNCHANGED <<task_list, list, items, pc, converting, schedule_time>>
    BY <1>4 DEF vars, schedule_vars, convert_vars
  <2>2. /\ TwiceInv' <=> TwiceInv
        /\ GapInv' <=> GapInv
    BY <2>1
    DEF TwiceInv, GapInv, Once, Converted, Ordered, Gapless, NoneWaits, ConvertsPeriodic,
        Periods, Uptos, EvaluatedUpto, Tasks
  <2>. QED  BY <2>2 DEF Keeps
<1>5. CASE RunLoop
  BY <1>1, <1>5, RunLoopControl, RunKeeps DEF RunLoop
<1>6. CASE TaskBodies
  BY <1>2, <1>3, <1>6, BeginConversionKeeps, AddOccurrenceKeeps, EndConversionKeeps,
     PurgeKeeps, NextTaskKeeps, EndOnlineSchedulerKeeps DEF TaskBodies
<1>7. CASE Tick
  BY <1>7, TickKeeps
<1>. QED
  BY <1>4, <1>5, <1>6, <1>7 DEF Next

LEMMA InitOnce == Init => OnceInv
<1>. SUFFICES ASSUME Init PROVE OnceInv
  OBVIOUS
<1>1. items = 0 /\ task_list = <<>> /\ pc = "boot"
  BY DEF Init
<1>2. Tasks = {}
  BY <1>1 DEF Tasks
<1>. QED
  BY <1>1, <1>2 DEF OnceInv, TwiceInv, GapInv, Once, Converted, Ordered, Gapless,
     NoneWaits, ConvertsPeriodic

\* In whatever order requests, conversions, sorts and purges come, and whatever
\* waits for what: as long as the list has room left, no occurrence of a task is
\* in it twice.
THEOREM NeverTwice == Spec /\ []RoomLeft => []NoOccurrenceTwice
<1>1. Init => TwiceInv
  BY InitOnce DEF OnceInv
<1>2. IInv /\ IInv' /\ TwiceInv /\ RoomLeft /\ RoomLeft' /\ [Next]_vars => TwiceInv'
  BY StepKeeps DEF Keeps
<1>3. TwiceInv => NoOccurrenceTwice
  BY DEF TwiceInv, Once, NoOccurrenceTwice
<1>. QED
  BY <1>1, <1>2, <1>3, Invariance, PTL DEF Spec

\* And if no request asks to wait, no occurrence is missing either: those in the
\* list follow one another up to where the task has been evaluated.
THEOREM EveryOnce ==
  ASSUME NoRequestWaits
  PROVE  Spec /\ []RoomLeft => []EveryOccurrenceOnce
<1>1. Init => OnceInv
  BY InitOnce
<1>2. IInv /\ IInv' /\ OnceInv /\ RoomLeft /\ RoomLeft' /\ [Next]_vars => OnceInv'
  BY StepKeeps DEF Keeps, OnceInv
<1>3. IInv /\ OnceInv => EveryOccurrenceOnce
  <2>. SUFFICES ASSUME IInv, OnceInv PROVE EveryOccurrenceOnce
    OBVIOUS
  <2>1. NoOccurrenceTwice
    BY DEF OnceInv, TwiceInv, Once, NoOccurrenceTwice
  <2>2. NoGap
    <3>. SUFFICES ASSUME NEW t \in Periodic, NEW i \in ItemsOf(t),
                         list[i].start + task_list[t].period # EvaluatedUpto(t)
                  PROVE  \E j \in ItemsOf(t) : list[j].start = list[i].start + task_list[t].period
      BY DEF NoGap
    <3>1. /\ t \in Tasks /\ i \in 0 .. items - 1 /\ list[i].task = t
          /\ Periods[t] = task_list[t].period /\ Periods[t] # 0 /\ Uptos[t] = EvaluatedUpto(t)
      BY DEF Periodic, ItemsOf, Periods, Uptos
    <3>2. \E j \in 0 .. items - 1 : list[j].task = t /\ list[j].start = list[i].start + Periods[t]
      BY <3>1 DEF OnceInv, GapInv, Gapless
    <3>. QED  BY <3>1, <3>2 DEF ItemsOf
  <2>. QED  BY <2>1, <2>2 DEF EveryOccurrenceOnce
<1>. QED
  BY <1>1, <1>2, <1>3, Invariance, PTL DEF Spec

-----------------------------------------------------------------------------
(***************************************************************************)
(* The preemptor.                                                          *)
(***************************************************************************)

\* The tasks there are stay, and what a request fixes of a task never changes.
LEMMA FixedKept ==
  ASSUME IInv, [Next]_vars
  PROVE  \A t \in Tasks : t \in Tasks' /\ FixedSame(t)
<1>1. CASE UNCHANGED task_list
  BY <1>1 DEF Tasks, FixedSame
<1>2. CASE StartTask \/ EndTask
  BY <1>2, StartTaskAccounts, EndTaskAccounts DEF SameButAccounts, Tasks, FixedSame
<1>3. CASE EndConversion
  <2> DEFINE v == [task_list[converting] EXCEPT !.time_evaluated_upto = schedule_time]
  <2>1. pc = "occurrences" /\ task_list' = [task_list EXCEPT ![converting] = v]
    BY <1>3 DEF EndConversion
  <2>2. TypeOK
    BY DEF IInv
  <2>3. /\ task_list \in Seq(Task) /\ converting \in 1 .. Len(task_list)
        /\ task_list[converting] \in Task /\ schedule_time \in Nat
    BY <2>1, <2>2, Typed DEF IInv, TypeOK, TasksOK, ControlOK, PointerInv, Tasks
  <2>4. /\ v \in Task /\ v.bound = task_list[converting].bound
        /\ v.period = task_list[converting].period
        /\ v.complete = task_list[converting].complete /\ v.kind = task_list[converting].kind
    BY <2>3 DEF Task
  <2>. HIDE DEF v
  <2>. QED  BY <2>1, <2>3, <2>4, TaskReplaced DEF Tasks, FixedSame
<1>4. ASSUME NEW r \in Request, NEW from, NEW next, RequestToAddTask(r, from, next),
             NoRequestWaits => r.wait_for = 0
      PROVE  \A t \in Tasks : t \in Tasks' /\ FixedSame(t)
  <2>1. task_list' = task_list \/ task_list' = Append(task_list, NewTask(r))
    BY <1>4 DEF RequestToAddTask, Refuse, AddAperiodic, AddPeriodic
  <2>2. CASE task_list' = Append(task_list, NewTask(r))
    BY <1>4, <2>2, TaskStored DEF TasksSame
  <2>3. CASE task_list' = task_list
    BY <2>3 DEF Tasks, FixedSame
  <2>. QED  BY <2>1, <2>2, <2>3
<1>5. CASE BootRequest \/ AddOnTheFly
  <2>1. CASE AddOnTheFly
    BY <1>4, <2>1, ConstantsAssumption DEF AddOnTheFly, NoRequestWaits
  <2>2. CASE BootRequest
    <3>1. request \in Nat /\ Len(BootRequests) \in Nat /\ BootRequests \in Seq(Request)
      BY ConstantsAssumption DEF IInv, TypeOK, ControlOK
    <3>2. request + 1 \in 1 .. Len(BootRequests) /\ BootRequests[request + 1] \in Request
      BY <2>2, <3>1 DEF BootRequest
    <3>3. /\ RequestToAddTask(BootRequests[request + 1], "boot", "boot")
          /\ NoRequestWaits => BootRequests[request + 1].wait_for = 0
      BY <2>2, <3>2 DEF BootRequest, NoRequestWaits
    <3>. QED  BY <1>4, <3>2, <3>3
  <2>. QED  BY <1>5, <2>1, <2>2
<1>6. /\ RunLoop => UNCHANGED task_list \/ BootRequest \/ StartTask \/ EndTask
      /\ TaskBodies => UNCHANGED task_list \/ AddOnTheFly \/ EndConversion
      /\ Tick => UNCHANGED task_list
  BY DEF RunLoop, TaskBodies, Tick, StartRunLoop, NextItem, KeyPoll, InstallPreemptor,
     UninstallPreemptor, BeginConversion, AddOccurrence, BufferTooSmall, Purge, NextTask,
     EndOnlineScheduler
<1>. QED
  BY <1>1, <1>2, <1>3, <1>5, <1>6 DEF Next, vars

\* The steps that do not touch the preemptor leave it, and the clock, as they are;
\* but StartRunLoop sets the clock to 0.
Untouched ==
  /\ preempt_at_tick' = preempt_at_tick /\ preempt_data' = preempt_data
  /\ pc' # "killed" /\ pc # "killed"
  /\ pc' \in {"loop", "wait", "key", "arm"} => pc \in {"boot", "loop", "key"}
  /\ \/ tick' = tick /\ (Booting' <=> Booting)
     \/ Booting /\ tick' = 0 /\ ~Booting'

LEMMA OthersLeaveThePreemptor ==
  ASSUME IInv, Next, ~InstallPreemptor, ~UninstallPreemptor, ~Tick
  PROVE  Untouched
<1>1. BootInv
  BY DEF IInv
<1>2. CASE BootRequest \/ AddOnTheFly
  <2>1. /\ UNCHANGED <<tick, run_vars, preempt_at_tick>> /\ pc \in {"boot", "add"}
        /\ \E r : \/ pc = "boot" /\ RequestToAddTask(r, "boot", "boot")
                  \/ pc = "add" /\ RequestToAddTask(r, "adds", "end")
    BY <1>2 DEF BootRequest, AddOnTheFly
  <2>2. /\ pc' \in {"boot", "end", "convert", "corrupt"}
        /\ caller' = caller \/ (pc = "boot" /\ caller' = "boot") \/ (pc = "add" /\ caller' = "adds")
    BY <2>1
    DEF RequestToAddTask, Refuse, AddAperiodic, AddPeriodic, Stored, convert_vars
  <2>3. Booting' <=> Booting
    BY <1>1, <2>1, <2>2 DEF BootInv, Booting, Terminal
  <2>. QED  BY <2>1, <2>2, <2>3 DEF Untouched, run_vars
<1>3. CASE StartRunLoop
  BY <1>1, <1>3 DEF StartRunLoop, BootInv, Booting, Untouched, run_vars
<1>4. CASE NextItem \/ KeyPoll
  BY <1>4 DEF NextItem, KeyPoll, WaitOrArm, Untouched, Booting, run_vars, convert_vars
<1>5. CASE StartTask \/ EndTask
  BY <1>5 DEF StartTask, EndTask, Untouched, Booting, convert_vars
<1>6. CASE BeginConversion \/ BufferTooSmall \/ EndConversion
  BY <1>6
  DEF BeginConversion, BufferTooSmall, EndConversion, AfterConversion, Untouched, Booting, run_vars
<1>7. CASE AddOccurrence
  BY <1>7 DEF AddOccurrence, Stored, Untouched, Booting, run_vars
<1>8. CASE NextTask \/ EndOnlineScheduler
  BY <1>8 DEF NextTask, EndOnlineScheduler, Untouched, Booting, run_vars
<1>9. CASE Purge
  BY <1>1, <1>9 DEF Purge, BootInv, Booting, Terminal, Untouched, run_vars
<1>. QED
  BY <1>2, <1>3, <1>4, <1>5, <1>6, <1>7, <1>8, <1>9 DEF Next, RunLoop, TaskBodies

LEMMA WatchStep == IInv /\ IInv' /\ WatchInv /\ [Next]_vars => WatchInv'
<1>. SUFFICES ASSUME IInv, IInv', WatchInv, [Next]_vars PROVE WatchInv'
  OBVIOUS
<1>1. Tasks \subseteq Tasks'
  BY FixedKept
<1>2. pc' = "boot" => preempt_at_tick' = 0
  BY DEF IInv, BootInv
<1>3. Booting => preempt_at_tick = 0
  BY DEF IInv, BootInv
<1>4. CASE UNCHANGED vars
  BY <1>4 DEF vars, run_vars, WatchInv, Tasks
<1>5. CASE InstallPreemptor
  <2>1. list[item].task \in Tasks
    BY <1>5, HeldTask DEF InstallPreemptor, HasItem
  <2>. QED  BY <1>1, <1>5, <2>1 DEF InstallPreemptor, WatchInv
<1>6. CASE UninstallPreemptor
  BY <1>6 DEF UninstallPreemptor, WatchInv
<1>7. CASE Tick
  <2>1. /\ pc' \in {pc, "killed"} \/ (pc = "wait" /\ pc' = "key")
        /\ preempt_at_tick' = preempt_at_tick /\ preempt_data' = preempt_data
    BY <1>7 DEF Tick, run_vars
  <2>. QED  BY <1>1, <2>1 DEF WatchInv
<1>8. CASE Untouched
  BY <1>1, <1>2, <1>3, <1>8 DEF Untouched, WatchInv
<1>. QED
  BY <1>4, <1>5, <1>6, <1>7, <1>8, OthersLeaveThePreemptor

\* What is watched changes with the preemptor only.
LEMMA WatchedKept ==
  ASSUME IInv, WatchInv, [Next]_vars, preempt_at_tick' = preempt_at_tick,
         preempt_data' = preempt_data
  PROVE  Watched' = Watched
<1>1. preempt_at_tick # 0 => task_list'[preempt_data].bound = task_list[preempt_data].bound
  BY FixedKept DEF WatchInv, FixedSame
<1>. QED
  BY <1>1 DEF Watched

LEMMA StepWatches ==
  ASSUME IInv, IInv', WatchInv, [Next]_vars
  PROVE  [Watching!Next]_(Watching!vars)
<1> DEFINE now    == IF Booting THEN 0 ELSE tick
           blamed == IF pc = "killed" THEN Watched ELSE <<0, 0>>
           T      == (1 .. MAX_TASKS) \X Nat
<1>1. TypeOK /\ BootInv /\ tick \in Nat /\ preempt_at_tick \in Nat
  BY DEF IInv, TypeOK, ClockOK
<1>2. CASE UNCHANGED vars
  BY <1>2 DEF vars, run_vars, convert_vars, Watching!vars, Watched, Booting
<1>3. CASE InstallPreemptor
  <2> DEFINE t == <<list[item].task, task_list[list[item].task].bound>>
  <2>1. /\ pc = "arm" /\ pc' = "start" /\ preempt_at_tick = 0 /\ ~Booting /\ ~Booting'
        /\ tick' = tick /\ task_list' = task_list /\ preempt_data' = list[item].task
        /\ preempt_at_tick' = tick + t[2] + FudgeMargin
    BY <1>1, <1>3
    DEF InstallPreemptor, WatchInv, BootInv, Booting, Terminal, convert_vars
  <2>2. list[item].task \in Tasks /\ task_list \in Seq(Task) /\ Len(task_list) <= MAX_TASKS
    BY <1>1, <2>1, HeldTask DEF HasItem, TypeOK, TasksOK
  <2>3. t[2] \in Nat /\ FudgeMargin \in Nat \ {0} /\ MAX_TASKS \in Nat /\ t[1] \in 1 .. MAX_TASKS
    BY <1>1, <2>2, Typed, ConstantsAssumption DEF Tasks
  <2>4. t \in T
    BY <2>3
  <2>5. Watched = <<0, 0>> /\ Watched' = t
    BY <1>1, <2>1, <2>3 DEF Watched
  <2>. HIDE DEF t
  <2>6. preempt_at_tick' \in tick + 1 .. tick + (t[2] + FudgeMargin)
    BY <1>1, <2>1, <2>3
  <2>7. Watching!Watch(t)
    BY <2>1, <2>4, <2>5, <2>6 DEF Watching!Watch
  <2>. QED  BY <2>4, <2>7 DEF Watching!Next
<1>4. CASE UninstallPreemptor
  <2>1. /\ pc = "disarm" /\ pc' = "loop" /\ ~Booting /\ ~Booting' /\ tick' = tick
        /\ preempt_at_tick' = 0
    BY <1>1, <1>4 DEF UninstallPreemptor, BootInv, Booting, Terminal, convert_vars
  <2>2. Watched' = <<0, 0>>
    BY <2>1 DEF Watched
  <2>3. CASE Watched = <<0, 0>> /\ preempt_at_tick = 0
    BY <2>1, <2>2, <2>3 DEF Watching!vars
  <2>4. CASE Watched = <<0, 0>> /\ preempt_at_tick # 0
    <3>1. preempt_data # 0
      BY <2>4 DEF WatchInv, Tasks
    <3>. QED  BY <2>4, <3>1 DEF Watched
  <2>5. CASE Watched # <<0, 0>>
    BY <2>1, <2>2, <2>5 DEF Watching!Release, Watching!Next
  <2>. QED  BY <2>3, <2>4, <2>5
<1>5. CASE Tick
  <2>1. /\ tick' = tick + 1 /\ preempt_at_tick' = preempt_at_tick
        /\ preempt_data' = preempt_data /\ (Booting' <=> Booting) /\ pc # "killed"
        /\ pc' = "killed" <=> PreemptorDue(tick + 1)
    BY <1>5 DEF Tick, TickAllowed, Booting, run_vars, convert_vars
  <2>2. Watched' = Watched
    BY <2>1, WatchedKept
  <2>3. PreemptorDue(tick + 1) <=> Watched # <<0, 0>> /\ tick + 1 >= preempt_at_tick
    <3>1. preempt_at_tick # 0 => preempt_data # 0
      BY DEF WatchInv, Tasks
    <3>. QED  BY <3>1 DEF PreemptorDue, Watched
  <2>4. CASE Booting
    <3>1. preempt_at_tick = 0 /\ Watched = <<0, 0>>
      BY <1>1, <2>4 DEF BootInv, Watched
    <3>. QED  BY <2>1, <2>2, <2>3, <2>4, <3>1 DEF Watching!vars
  <2>5. CASE ~Booting
    <3>1. Watching!Tick
      BY <2>1, <2>2, <2>3, <2>5 DEF Watching!Tick
    <3>. QED  BY <3>1 DEF Watching!Next
  <2>. QED  BY <2>4, <2>5
<1>6. CASE Untouched
  <2>1. Watched' = Watched
    BY <1>6, WatchedKept DEF Untouched
  <2>2. now' = now /\ blamed' = blamed /\ preempt_at_tick' = preempt_at_tick
    BY <1>6, <2>1 DEF Untouched
  <2>. QED  BY <2>1, <2>2 DEF Watching!vars
<1>. QED
  BY <1>2, <1>3, <1>4, <1>5, <1>6, OthersLeaveThePreemptor

\* The scheduler uses the preemptor as it is specified, whatever the tasks, their
\* bounds and the ticks: it watches one task at a time, from before it starts
\* until it has returned, and is ended at the first tick at which it is due.  The
\* driver of module PreemptTimer implements the same specification (Implements in
\* PreemptTimer_proofs), so that the two fit together.
THEOREM SchedulerWatches == Spec => Watching!Spec
<1>1. Init => Watching!Init /\ WatchInv
  BY DEF Init, Watching!Init, Watched, Booting, WatchInv
<1>2. IInv /\ IInv' /\ WatchInv /\ [Next]_vars => [Watching!Next]_(Watching!vars)
  BY StepWatches
<1>. QED
  BY <1>1, <1>2, WatchStep, Invariance, PTL DEF Spec, Watching!Spec

-----------------------------------------------------------------------------
(***************************************************************************)
(* Rearranged lists, and how far the tasks are evaluated.                  *)
(***************************************************************************)

\* What is to come stays to come when the items up to u stay at their places.
LEMMA RearrangedAhead ==
  ASSUME NEW n \in Nat, NEW l, NEW m, NEW order, Rearranges(order, l, m, n), Once(l, n),
         NEW u \in Nat,
         \A k \in 0 .. u : k < n => m[k].task = l[k].task /\ m[k].start = l[k].start,
         NEW X, \A i \in 0 .. n - 1 : i > u => <<l[i].task, l[i].start>> \notin X
  PROVE  \A i \in 0 .. n - 1 : i > u => <<m[i].task, m[i].start>> \notin X
<1>. SUFFICES ASSUME NEW i \in 0 .. n - 1, i > u
              PROVE  <<m[i].task, m[i].start>> \notin X
  OBVIOUS
<1>1. order[i] \in 0 .. n - 1 /\ m[i].task = l[order[i]].task /\ m[i].start = l[order[i]].start
  BY DEF Rearranges, IsRearrangement, Same
<1>2. CASE order[i] > u
  BY <1>1, <1>2
<1>3. CASE order[i] <= u
  <2> DEFINE j == order[i]
  <2>1. j \in 0 .. n - 1 /\ j \in 0 .. u /\ j # i
    BY <1>1, <1>3
  <2>2. order[j] \in 0 .. n - 1 /\ m[j].task = l[order[j]].task /\ m[j].start = l[order[j]].start
    BY <2>1 DEF Rearranges, IsRearrangement, Same
  <2>3. m[j].task = l[j].task /\ m[j].start = l[j].start
    BY <2>1
  <2>4. order[j] = j
    BY <2>1, <2>2, <2>3 DEF Once
  <2>. QED  BY <2>1, <2>4 DEF Rearranges, IsRearrangement
<1>. QED
  BY <1>1, <1>2, <1>3

\* A sort that starts at lo leaves what is before it.
LEMMA SortKeepsBefore ==
  ASSUME NEW l, NEW lo, SortSchedule(l, lo)
  PROVE  \A k \in Slots : (k \in Int /\ lo \in Int /\ k < lo) => list'[k] = l[k]
<1>1. list' = Reordered(l, lo, items, SortedOrder(l, lo))
  BY Zenon DEF SortSchedule
<1>. QED
  BY <1>1 DEF Reordered

\* Tasks stay, and are evaluated ever further.
TasksGrow ==
  \A t \in Tasks : t \in Tasks' /\ Periods'[t] = Periods[t] /\ Uptos'[t] \in Nat
                   /\ Uptos[t] \in Nat /\ Uptos[t] <= Uptos'[t]

\* The times the tasks are evaluated up to, and their periods, are numbers.
LEMMA UptosTyped == IInv => \A t \in Tasks : Uptos[t] \in Nat /\ Periods[t] \in Nat
<1>. SUFFICES ASSUME IInv, NEW t \in Tasks
              PROVE  Uptos[t] \in Nat /\ Periods[t] \in Nat
  OBVIOUS
<1>1. schedule_time \in Nat /\ task_list[t] \in Task
  BY Typed DEF IInv, TypeOK, ControlOK
<1>. QED
  BY <1>1 DEF Task, Uptos, Periods, EvaluatedUpto

\* What a step does to the times up to which the tasks are evaluated.
TimesSame == \A t \in Tasks : EvaluatedUpto(t)' = EvaluatedUpto(t)
Advances == \A t \in Tasks :
  EvaluatedUpto(t)' = EvaluatedUpto(t) + (IF t = converting THEN task_list[t].period ELSE 0)

\* A step changes neither, or it adds the occurrence that is due.
LEMMA TimesStep ==
  ASSUME IInv, IInv', TwiceInv, RoomLeft, RoomLeft', [Next]_vars
  PROVE  TimesSame \/ (AddOccurrence /\ pc' = "occurrences" /\ Advances)
<1>1. CASE /\ pc # "occurrences" /\ pc' # "occurrences"
           /\ UNCHANGED task_list \/ StartTask \/ EndTask
  <2>1. CASE UNCHANGED task_list
    BY <1>1, <2>1, OutsideConversion DEF TimesSame
  <2>2. CASE StartTask \/ EndTask
    BY <1>1, <2>2, StartTaskAccounts, EndTaskAccounts, OutsideConversion
    DEF SameButAccounts, Tasks, TimesSame
  <2>. QED  BY <1>1, <2>1, <2>2
<1>2. CASE BeginConversion
  <2>1. pc = "convert" /\ UNCHANGED task_list
    BY <1>2 DEF BeginConversion
  <2>2. CASE AfterConversion(TRUE)
    BY <1>1, <2>1, <2>2 DEF AfterConversion
  <2>3. CASE ~AfterConversion(TRUE)
    <3>1. /\ schedule_time' = task_list[converting].time_evaluated_upto
          /\ pc' = "occurrences" /\ converting' = converting
      BY <1>2, <2>3 DEF BeginConversion
    <3>. QED  BY <2>1, <3>1 DEF TimesSame, EvaluatedUpto
  <2>. QED  BY <2>2, <2>3
<1>3. CASE EndConversion
  <2> DEFINE v == [task_list[converting] EXCEPT !.time_evaluated_upto = schedule_time]
  <2>1. /\ pc = "occurrences" /\ AfterConversion(TRUE)
        /\ task_list' = [task_list EXCEPT ![converting] = v]
    BY <1>3 DEF EndConversion
  <2>2. pc' \in {"next_task", "boot", "end"}
    BY <2>1 DEF AfterConversion
  <2>3. /\ task_list \in Seq(Task) /\ converting \in 1 .. Len(task_list)
        /\ task_list[converting] \in Task /\ schedule_time \in Nat
    BY <2>1, Typed DEF IInv, TypeOK, TasksOK, ControlOK, PointerInv, Tasks
  <2>4. v \in Task /\ v.time_evaluated_upto = schedule_time
    BY <2>3 DEF Task
  <2>5. \A t \in Tasks : task_list'[t] = IF t = converting THEN v ELSE task_list[t]
    <3>. HIDE DEF v
    <3>. QED  BY <2>1, <2>3, <2>4, TaskReplaced DEF Tasks
  <2>. HIDE DEF v
  <2>6. ASSUME NEW t \in Tasks
        PROVE  EvaluatedUpto(t)' = EvaluatedUpto(t)
    <3>1. EvaluatedUpto(t)' = task_list'[t].time_evaluated_upto
      BY <2>2 DEF EvaluatedUpto
    <3>2. CASE t = converting
      BY <2>1, <2>4, <2>5, <3>1, <3>2 DEF EvaluatedUpto
    <3>3. CASE t # converting
      BY <2>1, <2>5, <3>1, <3>3 DEF EvaluatedUpto
    <3>. QED  BY <3>2, <3>3
  <2>. QED  BY <2>6, Zenon DEF TimesSame
<1>4. CASE AddOccurrence
  <2>1. /\ pc = "occurrences" /\ task_list' = task_list /\ converting' = converting
        /\ schedule_time' = schedule_time + task_list[converting].period
        /\ InArray(items) => pc' = "occurrences"
        /\ items' = items + 1
    BY <1>4 DEF AddOccurrence, Stored, AddToScheduledItemList
  <2>2. pc' = "occurrences"
    BY <2>1, ConstantsAssumption DEF RoomLeft, InArray, IInv, TypeOK, Counters
  <2>3. ASSUME NEW t \in Tasks
        PROVE  EvaluatedUpto(t)' = EvaluatedUpto(t)
                                     + (IF t = converting THEN task_list[t].period ELSE 0)
    <3>1. EvaluatedUpto(t) \in Nat
      BY UptosTyped DEF Uptos
    <3>. QED  BY <2>1, <2>2, <3>1 DEF EvaluatedUpto
  <2>. QED  BY <1>4, <2>2, <2>3 DEF Advances
<1>5. CASE BufferTooSmall
  BY <1>5 DEF BufferTooSmall, RoomLeft, IInv, TypeOK, Counters
<1>6. ASSUME NEW r \in Request, NEW from, NEW next \in {"boot", "end"},
             pc \in {"boot", "add"}, RequestToAddTask(r, from, next)
      PROVE  TimesSame
  <2>1. pc' # "occurrences" /\ pc # "occurrences"
    BY <1>6 DEF RequestToAddTask, Refuse, AddAperiodic, AddPeriodic, Stored
  <2>2. UNCHANGED task_list \/ task_list' = Append(task_list, NewTask(r))
    BY <1>6 DEF RequestToAddTask, Refuse, AddAperiodic, AddPeriodic
  <2>3. task_list' = Append(task_list, NewTask(r)) =>
          \A t \in Tasks : task_list'[t].time_evaluated_upto = task_list[t].time_evaluated_upto
    <3>. DEFINE new == NewTask(r)
    <3>1. task_list \in Seq(Task) /\ Len(task_list) \in Nat
      BY DEF IInv, TypeOK, TasksOK
    <3>. HIDE DEF new
    <3>. SUFFICES ASSUME task_list' = Append(task_list, new), NEW t \in Tasks
                  PROVE  task_list'[t] = task_list[t]
      BY DEF new
    <3>. QED  BY <3>1 DEF Tasks
  <2>. QED  BY <2>1, <2>2, <2>3, OutsideConversion DEF TimesSame
<1>7. CASE BootRequest
  <2>1. request \in Nat /\ Len(BootRequests) \in Nat /\ BootRequests \in Seq(Request)
    BY ConstantsAssumption DEF IInv, TypeOK, ControlOK
  <2>2. /\ BootRequests[request + 1] \in Request /\ pc = "boot"
        /\ RequestToAddTask(BootRequests[request + 1], "boot", "boot")
    BY <1>7, <2>1 DEF BootRequest
  <2>. QED  BY <1>6, <2>2
<1>8. CASE AddOnTheFly
  BY <1>6, <1>8, ConstantsAssumption DEF AddOnTheFly
<1>9. CASE UNCHANGED vars
  BY <1>9 DEF vars, convert_vars, TimesSame, EvaluatedUpto
<1>10. CASE StartRunLoop \/ NextItem \/ KeyPoll \/ InstallPreemptor \/ UninstallPreemptor
  <2>1. UNCHANGED task_list /\ pc # "occurrences" /\ pc' # "occurrences"
    BY <1>10 DEF StartRunLoop, NextItem, KeyPoll, InstallPreemptor, UninstallPreemptor, WaitOrArm
  <2>. QED  BY <1>1, <2>1
<1>11. CASE StartTask \/ EndTask
  <2>1. pc # "occurrences" /\ pc' # "occurrences"
    BY <1>11 DEF StartTask, EndTask
  <2>. QED  BY <1>1, <1>11, <2>1
<1>12. CASE Purge \/ NextTask \/ EndOnlineScheduler
  <2>1. UNCHANGED task_list /\ pc # "occurrences" /\ pc' # "occurrences"
    BY <1>12 DEF Purge, NextTask, EndOnlineScheduler
  <2>. QED  BY <1>1, <2>1
<1>13. CASE Tick
  <2>1. UNCHANGED task_list /\ pc # "occurrences" /\ pc' # "occurrences"
    BY <1>13 DEF Tick, TickAllowed
  <2>. QED  BY <1>1, <2>1
<1>. QED
  BY <1>2, <1>3, <1>4, <1>5, <1>7, <1>8, <1>9, <1>10, <1>11, <1>12, <1>13
  DEF Next, RunLoop, TaskBodies

\* A step keeps the tasks there are, and evaluates none of them less far.
LEMMA TasksGrowStep ==
  ASSUME IInv, IInv', TwiceInv, RoomLeft, RoomLeft', [Next]_vars
  PROVE  TasksGrow
<1>. SUFFICES ASSUME NEW t \in Tasks
              PROVE  /\ t \in Tasks' /\ Periods'[t] = Periods[t] /\ Uptos'[t] \in Nat
                     /\ Uptos[t] \in Nat /\ Uptos[t] <= Uptos'[t]
  BY DEF TasksGrow
<1>1. t \in Tasks' /\ task_list'[t].period = task_list[t].period
  BY FixedKept DEF FixedSame
<1>2. /\ Uptos[t] \in Nat /\ Uptos[t] = EvaluatedUpto(t) /\ Periods[t] \in Nat
      /\ Periods[t] = task_list[t].period
  BY UptosTyped DEF Uptos, Periods
<1>3. Periods'[t] = task_list'[t].period /\ Uptos'[t] = EvaluatedUpto(t)'
  BY <1>1 DEF Periods, Uptos
<1>4. CASE TimesSame
  BY <1>1, <1>2, <1>3, <1>4 DEF TimesSame
<1>5. CASE Advances
  BY <1>1, <1>2, <1>3, <1>5 DEF Advances
<1>. QED
  BY <1>4, <1>5, TimesStep

-----------------------------------------------------------------------------
(***************************************************************************)
(* Each item is run once, and none is skipped, while PassedStay holds.     *)
(***************************************************************************)

\* Before the run loop nothing has been run.
LEMMA RanAtBoot ==
  ASSUME IInv', RanInv, Booting, executed' = executed, item_upto' = 0,
         Booting' \/ pc' = "loop"
  PROVE  RanInv'
<1>1. executed' = {}
  BY DEF RanInv
<1>2. ~Started'
  BY DEF IInv, BootInv, Terminal, Started, IsRunning, InTask
<1>3. NoneSkipped'
  BY DEF NoneSkipped
<1>. QED
  BY <1>1, <1>2, <1>3 DEF RanInv

\* What has been started was converted before.
StartsKept ==
  \A e \in executed : e[1] \in Tasks' /\ (Periods'[e[1]] # 0 => e[2] < Uptos'[e[1]])

\* What has been run stays in the past of its task.
LEMMA StartsAreKept ==
  ASSUME IInv, RanInv, TasksGrow
  PROVE  StartsKept
<1>. SUFFICES ASSUME NEW e \in executed
              PROVE  e[1] \in Tasks' /\ (Periods'[e[1]] # 0 => e[2] < Uptos'[e[1]])
  BY DEF StartsKept
<1>1. e[1] \in Tasks /\ (Periods[e[1]] # 0 => e[2] < Uptos[e[1]])
  BY DEF RanInv
<1>2. e[2] \in Nat
  BY DEF IInv, TypeOK, ControlOK
<1>. QED
  BY <1>1, <1>2 DEF TasksGrow

\* A step that leaves the items and what has been run.
LEMMA RanQuiet ==
  ASSUME IInv, RanInv, TasksGrow, UNCHANGED <<items, item_upto, executed>>,
         \A i \in 0 .. items - 1 : StayAt(i), Standing' => Standing, Started' => Started,
         Booting' => Booting
  PROVE  RanInv'
<1>1. \A i \in 0 .. items - 1 : Occurrence(i)' = Occurrence(i)
  BY DEF Occurrence, StayAt
<1>2. /\ items \in Nat /\ item_upto \in 0 .. items
      /\ Started => item_upto < items
  BY DEF IInv, TypeOK, Counters, PointerInv, Started
<1>3. StartsKept
  BY StartsAreKept
<1>4. \A i \in 0 .. items - 1 :
        i > item_upto \/ (i = item_upto /\ Standing') => Occurrence(i)' \notin executed
  BY <1>1 DEF RanInv
<1>5. Started' => Occurrence(item_upto)' \in executed
  BY <1>1, <1>2 DEF RanInv
<1>6. NoneSkipped'
  BY <1>1, <1>2 DEF RanInv, NoneSkipped, Occurrence
<1>7. Booting' => executed = {}
  BY DEF RanInv
<1>. QED
  BY <1>3, <1>4, <1>5, <1>6, <1>7 DEF RanInv, Occurrence, StartsKept

\* A body moves the items behind the one it belongs to, and may add one.
LEMMA RanMoved ==
  ASSUME IInv, TwiceInv, RanInv, TasksGrow, PassedStay, ~Booting,
         pc \in InTask, ~Standing', UNCHANGED <<item_upto, executed>>, ~Booting',
         NEW order, Rearranges(order, list, list', items),
         \/ items' = items
         \/ items' = items + 1 /\ <<list'[items].task, list'[items].start>> \notin executed
  PROVE  RanInv'
<1>1. /\ items \in Nat /\ item_upto \in Nat /\ item_upto < items
      /\ Started
  BY DEF IInv, TypeOK, Counters, PointerInv, Started, IsRunning
<1>2. \A k \in 0 .. item_upto : Occurrence(k)' = Occurrence(k)
  BY <1>1 DEF PassedStay, StayAt, Occurrence
<1>3. StartsKept
  BY StartsAreKept
<1>4. \A i \in 0 .. items - 1 : i > item_upto => <<list'[i].task, list'[i].start>> \notin executed
  <2>1. \A i \in 0 .. items - 1 : i > item_upto => <<list[i].task, list[i].start>> \notin executed
    BY DEF RanInv, Occurrence
  <2>2. \A k \in 0 .. item_upto : k < items =>
          list'[k].task = list[k].task /\ list'[k].start = list[k].start
    BY DEF PassedStay, StayAt
  <2>3. Once(list, items)
    BY DEF TwiceInv
  <2>. QED  BY <1>1, <2>1, <2>2, <2>3, RearrangedAhead
<1>5. \A i \in 0 .. items' - 1 : i > item_upto => Occurrence(i)' \notin executed
  <2>. SUFFICES ASSUME NEW i \in 0 .. items' - 1, i > item_upto
                PROVE  Occurrence(i)' \notin executed
    OBVIOUS
  <2>1. CASE i \in 0 .. items - 1
    BY <1>4, <2>1 DEF Occurrence
  <2>2. CASE i \notin 0 .. items - 1
    <3>1. i = items /\ items' = items + 1
      BY <1>1, <2>2
    <3>. QED  BY <1>1, <3>1 DEF Occurrence
  <2>. QED  BY <2>1, <2>2
<1>6. Occurrence(item_upto)' \in executed
  BY <1>1, <1>2 DEF RanInv, Occurrence
<1>7. NoneSkipped'
  BY <1>1, <1>2 DEF RanInv, NoneSkipped, Occurrence
<1>. QED
  BY <1>3, <1>5, <1>6, <1>7 DEF RanInv, StartsKept

\* The next three: the steps that start a task, end it, and drop what was run.
LEMMA StartTaskRan ==
  ASSUME IInv, TwiceInv, RanInv, TasksGrow, StartTask
  PROVE  /\ RanInv'
         /\ current'.task = list[item_upto].task /\ current'.start = list[item_upto].start
         /\ Occurrence(item_upto) \notin executed
<1>1. /\ pc = "start" /\ item = item_upto /\ item_upto < items /\ ~Booting
      /\ items \in Nat /\ item_upto \in Nat
  BY DEF StartTask, IInv, TypeOK, Counters, PointerInv, HasItem, BootInv, Terminal
<1>2. /\ current' = list[item_upto] /\ UNCHANGED <<list, items, item_upto>>
      /\ executed' = executed \cup {Occurrence(item_upto)}
      /\ ~Standing' /\ ~Booting'
  BY <1>1 DEF StartTask, schedule_vars, convert_vars, Occurrence, Standing, Booting
<1>3. Occurrence(item_upto) \notin executed
  BY <1>1 DEF RanInv, Standing
<1>4. \A e \in executed' : /\ e[1] \in Tasks'
                           /\ Periods'[e[1]] # 0 => e[2] < Uptos'[e[1]]
  <2>. SUFFICES ASSUME NEW e \in executed'
                PROVE  e[1] \in Tasks' /\ (Periods'[e[1]] # 0 => e[2] < Uptos'[e[1]])
    OBVIOUS
  <2>1. e[1] \in Tasks /\ e[2] \in Nat /\ (Periods[e[1]] # 0 => e[2] < Uptos[e[1]])
    <3>1. CASE e \in executed
      BY <3>1 DEF RanInv, IInv, TypeOK, ControlOK
    <3>2. CASE e = Occurrence(item_upto)
      <4>1. e[1] = list[item_upto].task /\ e[2] = list[item_upto].start
        BY <3>2 DEF Occurrence
      <4>2. item_upto \in 0 .. items - 1 /\ ItemsTyped
        BY <1>1, ItemsAreTyped DEF IInv
      <4>. QED  BY <4>1, <4>2 DEF TwiceInv, Converted, ItemsTyped
    <3>. QED  BY <1>2, <3>1, <3>2
  <2>. QED  BY <2>1 DEF TasksGrow
<1>5. \A i \in 0 .. items - 1 : i > item_upto => Occurrence(i) \notin executed'
  <2>. SUFFICES ASSUME NEW i \in 0 .. items - 1, i > item_upto
                PROVE  Occurrence(i) \notin executed'
    OBVIOUS
  <2>1. Occurrence(i) # Occurrence(item_upto)
    <3>1. item_upto \in 0 .. items - 1 /\ i # item_upto
      BY <1>1
    <3>2. list[i].task # list[item_upto].task \/ list[i].start # list[item_upto].start
      BY <3>1 DEF TwiceInv, Once
    <3>. QED  BY <3>2 DEF Occurrence
  <2>. QED  BY <1>2, <2>1 DEF RanInv
<1>6. NoneSkipped' /\ Occurrence(item_upto) \in executed'
  BY <1>2 DEF RanInv, NoneSkipped, Occurrence
<1>7. RanInv'
  BY <1>2, <1>4, <1>5, <1>6 DEF RanInv, Occurrence
<1>. QED
  BY <1>2, <1>3, <1>7

LEMMA UninstallRan ==
  ASSUME IInv, RanInv, TasksGrow, UninstallPreemptor
  PROVE  RanInv'
<1>1. /\ UNCHANGED <<list, items, executed>> /\ item_upto' = item_upto + 1
      /\ pc = "disarm" /\ pc' = "loop" /\ Started /\ ~Started' /\ ~Booting' /\ ~Booting
      /\ items \in Nat /\ item_upto \in Nat /\ item_upto < items
  BY DEF UninstallPreemptor, run_vars, convert_vars, Started, IsRunning, InTask, Booting,
         IInv, TypeOK, Counters, PointerInv, BootInv, Terminal
<1>2. StartsKept
  BY StartsAreKept
<1>3. \A i \in 0 .. items - 1 : i >= item_upto + 1 => Occurrence(i) \notin executed
  BY <1>1 DEF RanInv
<1>4. \A i \in 0 .. item_upto : Occurrence(i) \in executed
  BY <1>1 DEF RanInv, NoneSkipped, Occurrence
<1>5. NoneSkipped'
  BY <1>1, <1>4 DEF NoneSkipped, Occurrence
<1>. QED
  BY <1>1, <1>2, <1>3, <1>5 DEF RanInv, Occurrence, StartsKept

LEMMA PurgeRan ==
  ASSUME IInv, RanInv, TasksGrow, Purge
  PROVE  RanInv'
<1>1. /\ pc = "purge" /\ pc' = "next_task" /\ ~Booting /\ ~Booting' /\ ~Standing /\ ~Standing'
      /\ Started /\ Started' /\ executed' = executed
      /\ items \in Nat /\ item_upto \in Nat /\ item_upto < items
      /\ MAX_SCHEDULED_ITEMS \in Nat /\ items <= MAX_SCHEDULED_ITEMS
  BY ConstantsAssumption DEF Purge, run_vars, Started, IsRunning, InTask, Booting, Standing,
         IInv, TypeOK, Counters, PointerInv, BootInv, Terminal
<1>2. CASE UNCHANGED schedule_vars
  BY <1>1, <1>2, RanQuiet DEF schedule_vars, StayAt
<1>3. CASE ~UNCHANGED schedule_vars
  <2>1. /\ items' = items - item_upto /\ item_upto' = 0
        /\ \A k \in 0 .. items - item_upto - 1 : list'[k] = list[k + item_upto]
    BY <1>1, <1>3 DEF Purge, MovedToFront, Slots
  <2>2. StartsKept
    BY StartsAreKept
  <2>3. \A k \in 0 .. items - item_upto - 1 : Occurrence(k)' = Occurrence(k + item_upto)
    BY <2>1 DEF Occurrence
  <2>4. ASSUME NEW k \in 0 .. items' - 1, k > 0
        PROVE  Occurrence(k)' \notin executed
    <3>1. k + item_upto \in 0 .. items - 1 /\ k + item_upto > item_upto
      BY <1>1, <2>1, <2>4
    <3>. QED  BY <2>1, <2>3, <2>4, <3>1 DEF RanInv
  <2>5. <<list'[0].task, list'[0].start>> \in executed
    <3>1. list'[0] = list[item_upto]
      BY <1>1, <2>1
    <3>. QED  BY <1>1, <3>1 DEF RanInv, Occurrence
  <2>6. NoneSkipped'
    BY <2>1 DEF NoneSkipped
  <2>. QED  BY <1>1, <2>1, <2>2, <2>4, <2>5, <2>6 DEF RanInv, Occurrence, StartsKept
<1>. QED
  BY <1>2, <1>3

\* The steps of the run loop and of the bodies that leave the list as it is.
LEMMA ControlRan ==
  ASSUME IInv, RanInv, TasksGrow,
         \/ NextItem \/ KeyPoll \/ InstallPreemptor \/ EndTask \/ NextTask \/ Tick
         \/ BeginConversion \/ EndConversion \/ UNCHANGED vars
  PROVE  RanInv'
<1>1. /\ UNCHANGED <<items, item_upto, executed, caller>>
      /\ \A i \in 0 .. items - 1 : StayAt(i)
  <2>1. CASE EndTask
    <3>1. /\ UNCHANGED <<items, item_upto, executed, caller>>
          /\ list' = [list EXCEPT ![item].done = TRUE]
      BY <2>1 DEF EndTask, convert_vars
    <3>2. list \in [Slots -> Item] /\ 0 .. items - 1 \subseteq Slots
      BY ConstantsAssumption DEF IInv, TypeOK, ListOK, Counters, Slots
    <3>. QED  BY <3>1, <3>2 DEF StayAt, Item
  <2>2. CASE BeginConversion \/ EndConversion
    BY <2>2 DEF BeginConversion, EndConversion, AfterConversion, schedule_vars, run_vars, StayAt
  <2>3. CASE NextItem \/ KeyPoll \/ InstallPreemptor \/ NextTask
    BY <2>3 DEF NextItem, KeyPoll, InstallPreemptor, NextTask, schedule_vars, run_vars,
                convert_vars, StayAt
  <2>4. CASE Tick \/ UNCHANGED vars
    BY <2>4 DEF Tick, vars, schedule_vars, run_vars, convert_vars, StayAt
  <2>. QED  BY <2>1, <2>2, <2>3, <2>4
<1>2. (Booting' => Booting) /\ (Standing' => Standing) /\ (Started' => Started)
  <2>. Booting' <=> Booting
    BY <1>1 DEF Booting
  <2>1. CASE NextItem \/ KeyPoll \/ InstallPreemptor
    BY <2>1 DEF NextItem, KeyPoll, InstallPreemptor, WaitOrArm, Standing, Started,
                IsRunning, InTask
  <2>5. CASE EndTask
    <3>1. pc = "end" /\ pc' = "disarm" /\ ~Booting
      BY <2>5 DEF EndTask, IInv, BootInv, Terminal
    <3>. QED  BY <3>1 DEF Standing, Started, IsRunning, InTask
  <2>2. CASE NextTask \/ BeginConversion \/ EndConversion
    <3>1. /\ pc \in {"next_task", "convert", "occurrences"}
          /\ pc' \in InTask \cup {"boot"}
          /\ pc' = "boot" => Booting
      BY <2>2 DEF NextTask, BeginConversion, EndConversion, AfterConversion, InTask, Booting
    <3>. QED  BY <3>1 DEF Standing, Started, IsRunning, InTask
  <2>3. CASE Tick
    BY <2>3 DEF Tick, Standing, Started, IsRunning, InTask
  <2>4. CASE UNCHANGED vars
    BY <2>4 DEF vars, Standing, Started, IsRunning
  <2>. QED  BY <2>1, <2>2, <2>3, <2>4, <2>5
<1>. QED
  BY <1>1, <1>2, RanQuiet

\* The steps of a body that store items or sort.
LEMMA SortRan ==
  ASSUME IInv, TwiceInv, RanInv, TasksGrow, PassedStay, ~Booting,
         AddOccurrence \/ EndOnlineScheduler
  PROVE  RanInv'
<1>1. CASE AddOccurrence
  <2> DEFINE c == converting
             next == schedule_time + task_list[c].period
  <2>1. /\ pc = "occurrences" /\ AddToScheduledItemList(c, schedule_time, next)
        /\ UNCHANGED <<executed, caller>> /\ pc' \in {"occurrences", "corrupt"}
    BY <1>1 DEF AddOccurrence, Stored, run_vars
  <2>2. /\ c \in Tasks /\ schedule_time \in Nat /\ next \in Nat
        /\ Periods[c] # 0 /\ Uptos[c] = schedule_time
    <3>1. schedule_time \in Nat
      BY DEF IInv, TypeOK, ControlOK
    <3>2. c \in Tasks
      BY <2>1, Typed DEF IInv, TypeOK, ControlOK, PointerInv, Tasks
    <3>3. task_list[c].period \in Nat /\ task_list[c].period # 0
      BY <2>1, <3>2, Typed DEF Task, TwiceInv, ConvertsPeriodic, IInv
    <3>. QED  BY <2>1, <3>1, <3>2, <3>3 DEF Periods, Uptos, EvaluatedUpto
  <2>. HIDE DEF c, next
  <2>3. PICK order : /\ items' = items + 1 /\ Rearranges(order, list, list', items)
                     /\ Same(list'[items], [task |-> c, start |-> schedule_time, complete |-> next])
    BY <2>1, <2>2, AddRearranges
  <2>4. <<list'[items].task, list'[items].start>> \notin executed
    <3>1. list'[items].task = c /\ list'[items].start = schedule_time
      BY <2>3 DEF Same
    <3>2. SUFFICES ASSUME <<c, schedule_time>> \in executed PROVE FALSE
      BY <3>1
    <3>3. <<c, schedule_time>>[1] = c /\ <<c, schedule_time>>[2] = schedule_time
      OBVIOUS
    <3>. QED  BY <2>2, <3>2, <3>3 DEF RanInv
  <2>5. item_upto' = item_upto
    BY <2>1 DEF AddToScheduledItemList
  <2>6. pc \in InTask /\ ~Standing' /\ ~Booting'
    BY <2>1 DEF InTask, Standing, Booting
  <2>. QED  BY <2>1, <2>3, <2>4, <2>5, <2>6, RanMoved
<1>2. CASE EndOnlineScheduler
  <2>1. /\ SortSchedule(list, index_sorted_upto) /\ pc = "next_task" /\ pc' = "end"
        /\ UNCHANGED <<items, item_upto, executed, caller>>
    BY <1>2 DEF EndOnlineScheduler, run_vars
  <2>2. Counters /\ list \in [Slots -> Item] /\ index_sorted_upto \in Nat
    BY DEF IInv, TypeOK, ListOK, Counters
  <2>3. PICK order : Rearranges(order, list, list', items)
    BY <2>1, <2>2, SortRearrangesList
  <2>4. pc \in InTask /\ ~Standing' /\ ~Booting'
    BY <2>1 DEF InTask, Standing, Booting
  <2>. QED  BY <2>1, <2>3, <2>4, RanMoved
<1>. QED
  BY <1>1, <1>2

\* A request of a task that is running.
LEMMA AddOnTheFlyRan ==
  ASSUME IInv, IInv', TwiceInv, RanInv, TasksGrow, PassedStay, AddOnTheFly
  PROVE  RanInv'
<1> DEFINE r == OnTheFly
           place == Len(task_list) + 1
<1>1. /\ pc = "add" /\ RequestToAddTask(r, "adds", "end") /\ executed' = executed
      /\ r \in Request
  BY ConstantsAssumption DEF AddOnTheFly, run_vars
<1>2. /\ ~Booting /\ ~Booting' /\ Started /\ ~Standing /\ ~Standing'
      /\ pc \in InTask
  <2>1. ~Booting /\ Started /\ ~Standing /\ pc \in InTask
    BY <1>1 DEF IInv, BootInv, Terminal, Started, IsRunning, InTask, Booting, Standing
  <2>2. caller' \in {caller, "adds"} /\ pc' \in {"end", "convert", "corrupt"}
    BY <1>1 DEF RequestToAddTask, Refuse, AddAperiodic, AddPeriodic, Stored, convert_vars
  <2>. QED  BY <2>1, <2>2 DEF Booting, Standing
<1>3. CASE UNCHANGED schedule_vars
  BY <1>1, <1>2, <1>3, RanQuiet DEF schedule_vars, StayAt
<1>4. CASE AddToScheduledItemList(place, r.start, r.complete)
  <2>1. r.start \in Nat /\ r.complete \in Nat
    BY <1>1 DEF Request
  <2>2. place \notin Tasks
    BY DEF Tasks, IInv, TypeOK, TasksOK
  <2>. HIDE DEF place
  <2>3. PICK order : /\ items' = items + 1 /\ Rearranges(order, list, list', items)
                     /\ Same(list'[items], [task |-> place, start |-> r.start, complete |-> r.complete])
    BY <1>4, <2>1, AddRearranges
  <2>4. <<list'[items].task, list'[items].start>> \notin executed
    <3>1. list'[items].task = place
      BY <2>3 DEF Same
    <3>2. \A x : <<place, x>> \notin executed
      <4>. SUFFICES ASSUME NEW x, <<place, x>> \in executed PROVE FALSE
        OBVIOUS
      <4>1. <<place, x>>[1] = place
        OBVIOUS
      <4>. QED  BY <2>2, <4>1 DEF RanInv
    <3>. QED  BY <3>1, <3>2
  <2>5. item_upto' = item_upto
    BY <1>4 DEF AddToScheduledItemList
  <2>. QED  BY <1>1, <1>2, <2>3, <2>4, <2>5, RanMoved
<1>. QED
  BY <1>1, <1>3, <1>4, Zenon DEF RequestToAddTask, Refuse, AddAperiodic, AddPeriodic

\* Every step keeps RanInv, when the list has room and no sort moves what was passed.
LEMMA RanStep ==
  ASSUME IInv, IInv', TwiceInv, RanInv, RoomLeft, RoomLeft', [Next]_vars, PassedStay
  PROVE  RanInv'
<1>. TasksGrow
  BY TasksGrowStep
<1>1. CASE Booting /\ BootRequest
  <2>1. executed' = executed
    BY <1>1 DEF BootRequest, run_vars
  <2>2. item_upto' = item_upto /\ item_upto = 0 /\ Booting'
    <3>1. request \in Nat /\ RequestToAddTask(BootRequests[request + 1], "boot", "boot")
      BY <1>1 DEF BootRequest, IInv, TypeOK, ControlOK
    <3>. QED  BY <1>1, <3>1 DEF RequestToAddTask, Refuse, AddAperiodic, AddPeriodic, schedule_vars,
                  convert_vars, AddToScheduledItemList, Booting, IInv, BootInv
  <2>. QED  BY <1>1, <2>1, <2>2, RanAtBoot
<1>2. CASE Booting /\ AddOccurrence
  <2>1. executed' = executed /\ item_upto' = item_upto /\ item_upto = 0 /\ Booting'
    BY <1>2 DEF AddOccurrence, run_vars, AddToScheduledItemList, Booting, IInv, BootInv
  <2>. QED  BY <1>2, <2>1, RanAtBoot
<1>3. CASE StartRunLoop
  <2>1. executed' = executed /\ item_upto' = 0 /\ pc' = "loop" /\ Booting
    BY <1>3 DEF StartRunLoop, run_vars, IInv, BootInv
  <2>. QED  BY <2>1, RanAtBoot
<1>4. CASE BufferTooSmall
  BY <1>4 DEF BufferTooSmall, RoomLeft, IInv, TypeOK, Counters
<1>5. /\ BootRequest => Booting
      /\ EndOnlineScheduler => ~Booting
  BY DEF BootRequest, EndOnlineScheduler, IInv, BootInv, Terminal
<1>6. CASE RunLoop
  BY <1>1, <1>3, <1>5, <1>6, ControlRan, StartTaskRan, UninstallRan DEF RunLoop
<1>7. CASE TaskBodies
  BY <1>2, <1>4, <1>5, <1>7, ControlRan, AddOnTheFlyRan, SortRan, PurgeRan DEF TaskBodies
<1>. QED
  BY <1>6, <1>7, ControlRan DEF Next

\* Only StartTask starts an item.
LEMMA StartsOnce ==
  ASSUME IInv, IInv', TwiceInv, RanInv, RoomLeft, RoomLeft', [Next]_vars,
         current = NoItem, current' # NoItem
  PROVE  <<current'.task, current'.start>> \notin executed
<1>1. StartTask
  BY DEF Next, RunLoop, TaskBodies, BootRequest, StartRunLoop, NextItem, KeyPoll,
         InstallPreemptor, EndTask, UninstallPreemptor, AddOnTheFly, BeginConversion,
         AddOccurrence, BufferTooSmall, EndConversion, Purge, NextTask, EndOnlineScheduler,
         Tick, vars, run_vars
<1>2. TasksGrow
  BY TasksGrowStep
<1>. QED
  BY <1>1, <1>2, StartTaskRan DEF Occurrence

\* Nothing has been run when the program starts.
LEMMA InitRan == Init => RanInv
<1>. SUFFICES ASSUME Init PROVE RanInv
  OBVIOUS
<1>1. executed = {} /\ item_upto = 0 /\ items = 0 /\ pc = "boot" /\ caller = "boot"
  BY DEF Init
<1>. QED
  BY <1>1 DEF RanInv, NoneSkipped, Started, IsRunning, Booting, InTask

\* Every step, while no sort moves what the run loop has passed.
LEMMA StepRuns ==
  ASSUME IInv, IInv', TwiceInv, RanInv, RoomLeft, RoomLeft', [Next]_vars,
         [PassedStay]_vars
  PROVE  TwiceInv' /\ RanInv'
<1>1. TwiceInv'
  BY StepKeeps DEF Keeps
<1>2. CASE UNCHANGED vars
  BY <1>1, <1>2, TasksGrowStep, ControlRan
<1>. QED
  BY <1>1, <1>2, RanStep

\* While no sort moves the items the run loop has passed or stands at, each item
\* is started once, and none has been passed without having been started.
THEOREM PassedOnce ==
  Spec /\ []RoomLeft /\ [][PassedStay]_vars => RunOnce /\ []NoneSkipped
<1>1. Init => TwiceInv /\ RanInv
  BY InitOnce, InitRan DEF OnceInv
<1>2. IInv /\ IInv' /\ TwiceInv /\ RanInv /\ RoomLeft /\ RoomLeft' /\ [Next]_vars
        /\ [PassedStay]_vars => TwiceInv' /\ RanInv'
  BY StepRuns
<1>3. IInv /\ IInv' /\ TwiceInv /\ RanInv /\ RoomLeft /\ RoomLeft' /\ [Next]_vars
      => [current = NoItem /\ current' # NoItem
            => <<current'.task, current'.start>> \notin executed]_vars
  BY StartsOnce
<1>4. RanInv => NoneSkipped
  BY DEF RanInv
<1>. QED
  BY <1>1, <1>2, <1>3, <1>4, Invariance, PTL DEF Spec, RunOnce

-----------------------------------------------------------------------------
(***************************************************************************)
(* The next update.  The tasks of a step and the times they are evaluated  *)
(* up to.                                                                  *)
(***************************************************************************)

\* The requests, and the numbers the invariants compare.
RequestPaced(i) ==
  /\ BootRequests[i] \in Request /\ BootRequests[i].start = 0 /\ BootRequests[i].complete = 0
  /\ BootRequests[i].period \in Nat \ {0}
  /\ i = 1 => /\ BootRequests[i].kind = "online_scheduler"
              /\ BootRequests[i].period = UpdatePeriod
              /\ BootRequests[i].bound <= BootRequests[i].period
  /\ i # 1 => BootRequests[i].kind = "work" /\ BootRequests[i].period > UpdatePeriod

\* The requests of SlowerThanOnline, one by one.
LEMMA Requested ==
  ASSUME SlowerThanOnline
  PROVE  /\ UpdatePeriod \in Nat \ {0} /\ UPDATE_SCHEDULE_RATE \in Nat
         /\ UpdatePeriod < UPDATE_SCHEDULE_RATE
         /\ Len(BootRequests) \in Nat \ {0}
         /\ \A i \in 1 .. Len(BootRequests) : RequestPaced(i)
<1>1. BootRequests \in Seq(Request) /\ BootRequests # <<>> /\ UPDATE_SCHEDULE_RATE \in Nat \ {0}
  BY ConstantsAssumption DEF SlowerThanOnline
<1>2. Len(BootRequests) \in Nat \ {0} /\ \A i \in 1 .. Len(BootRequests) : BootRequests[i] \in Request
  BY <1>1
<1>3. UpdatePeriod \in Nat \ {0} /\ UpdatePeriod < UPDATE_SCHEDULE_RATE
  BY <1>1 DEF SlowerThanOnline, UpdatePeriod
<1>4. ASSUME NEW i \in 1 .. Len(BootRequests)
      PROVE  RequestPaced(i)
  <2>1. BootRequests[i] \in Request /\ BootRequests[i].start = 0 /\ BootRequests[i].complete = 0
    BY <1>2 DEF SlowerThanOnline
  <2>2. CASE i = 1
    BY <1>3, <2>1, <2>2 DEF SlowerThanOnline, UpdatePeriod, RequestPaced
  <2>3. CASE i # 1
    <3>1. i \in 2 .. Len(BootRequests) /\ BootRequests[i].period \in Nat
      BY <1>2, <2>1, <2>3 DEF Request
    <3>. QED  BY <1>3, <2>1, <2>3, <3>1 DEF SlowerThanOnline, UpdatePeriod, RequestPaced
  <2>. QED  BY <2>2, <2>3
<1>. QED
  BY <1>1, <1>2, <1>3, <1>4

\* What the arithmetic below needs of the type invariant.
LEMMA PaceTypes ==
  ASSUME IInv
  PROVE  /\ items \in Nat /\ item_upto \in 0 .. items /\ index_sorted_upto \in 0 .. items
         /\ tick \in Nat /\ schedule_time \in Nat /\ finish_time \in Nat
         /\ Len(task_list) \in Nat /\ converting \in 0 .. Len(task_list) + 1
         /\ MAX_SCHEDULED_ITEMS \in Nat
         /\ pc \in {"convert", "occurrences"} => converting \in Tasks
BY ConstantsAssumption
DEF IInv, TypeOK, TasksOK, Counters, ClockOK, ControlOK, PointerInv, Tasks

\* Only a request adds a task.
LEMMA TasksStay ==
  ASSUME IInv, [Next]_vars, ~BootRequest, ~AddOnTheFly
  PROVE  Tasks' = Tasks
<1>1. CASE UNCHANGED task_list
  BY <1>1 DEF Tasks
<1>2. CASE StartTask \/ EndTask
  BY <1>2, StartTaskAccounts, EndTaskAccounts DEF SameButAccounts, Tasks
<1>3. CASE EndConversion
  <2>1. task_list \in Seq(Task)
        /\ task_list' = [task_list EXCEPT ![converting].time_evaluated_upto = schedule_time]
    BY <1>3 DEF EndConversion, IInv, TypeOK, TasksOK
  <2>2. Len(task_list') = Len(task_list)
    BY <2>1
  <2>. QED  BY <2>2 DEF Tasks
<1>4. /\ RunLoop => UNCHANGED task_list \/ BootRequest \/ StartTask \/ EndTask
      /\ TaskBodies => UNCHANGED task_list \/ AddOnTheFly \/ EndConversion
      /\ Tick \/ UNCHANGED vars => UNCHANGED task_list
  BY DEF RunLoop, TaskBodies, Tick, StartRunLoop, NextItem, KeyPoll, InstallPreemptor,
     UninstallPreemptor, BeginConversion, AddOccurrence, BufferTooSmall, Purge, NextTask,
     EndOnlineScheduler, vars
<1>. QED
  BY <1>1, <1>2, <1>3, <1>4 DEF Next

\* The first request stores the online scheduler; each one that stores a task
\* stores one that is to be converted at once, from the present on.
LEMMA BootRequestStores ==
  ASSUME SlowerThanOnline, NoRequestWaits, IInv, TasksPaced, BootRequest
  PROVE  LET r == BootRequests[request + 1] new == Len(task_list) + 1 IN
         /\ request' = request + 1 /\ request \in Nat /\ request + 1 \in 1 .. Len(BootRequests)
         /\ pc = "boot" /\ UNCHANGED <<schedule_vars, tick>>
         /\ \/ UNCHANGED <<task_list, caller, converting>> /\ pc' = "boot" /\ request # 0
            \/ /\ task_list' = Append(task_list, NewTask(r)) /\ AddPeriodic(r, "boot")
               /\ caller' = "boot" /\ converting' = new /\ pc' \in {"convert", "corrupt"}
               /\ Tasks' = Tasks \cup {new} /\ new \notin Tasks /\ new \in Nat \ {0}
               /\ (new = 1 <=> request = 0)
               /\ task_list'[new].complete = 0 /\ task_list'[new].kind = r.kind
               /\ task_list'[new].period = r.period
               /\ task_list'[new].time_evaluated_upto = tick
<1> DEFINE r == BootRequests[request + 1]
           new == Len(task_list) + 1
<1>1. /\ request' = request + 1 /\ request \in Nat /\ request + 1 \in 1 .. Len(BootRequests)
      /\ pc = "boot" /\ tick' = tick /\ RequestToAddTask(r, "boot", "boot")
      /\ task_list \in Seq(Task) /\ Len(task_list) \in Nat
  BY Requested DEF BootRequest, IInv, TypeOK, ControlOK, TasksOK
<1>2. /\ r \in Request /\ r.start = 0 /\ r.complete = 0 /\ r.period \in Nat \ {0}
      /\ request = 0 => r.bound <= r.period
  BY <1>1, Requested DEF RequestPaced
<1>3. r.wait_for = 0
  BY <1>1 DEF NoRequestWaits
<1>4. request > 0 <=> Len(task_list) # 0
  BY <1>1 DEF TasksPaced, UpdatePeriod, Tasks
<1>. HIDE DEF r
<1>5. CASE Refuse(r, "boot")
  <2>1. request # 0
    <3>1. Verdict(r) # "accepted"
      BY <1>5 DEF Refuse
    <3>2. request = 0 => Len(task_list) # MAX_TASKS
      BY <1>1, <1>4, ConstantsAssumption
    <3>3. r.bound \in Nat
      BY <1>2 DEF Request
    <3>. QED  BY <1>1, <1>2, <1>3, <3>1, <3>2, <3>3 DEF Verdict
  <2>. QED  BY <1>1, <1>5, <2>1 DEF Refuse, convert_vars
<1>6. CASE AddAperiodic(r, "boot")
  BY <1>2, <1>6 DEF AddAperiodic
<1>7. CASE AddPeriodic(r, "boot")
  <2> DEFINE v == NewTask(r)
  <2>1. /\ task_list' = Append(task_list, v) /\ caller' = "boot" /\ converting' = new
        /\ UNCHANGED schedule_vars /\ pc' \in {"convert", "corrupt"}
    BY <1>7 DEF AddPeriodic, Stored
  <2>2. v.complete = 0 /\ v.kind = r.kind /\ v.period = r.period /\ v.time_evaluated_upto = tick
    BY <1>2 DEF NewTask
  <2>. HIDE DEF v
  <2>3. Len(task_list') = Len(task_list) + 1 /\ task_list'[new] = v
    BY <1>1, <2>1
  <2>4. Tasks' = Tasks \cup {new} /\ new \notin Tasks /\ new \in Nat \ {0}
    BY <1>1, <2>3 DEF Tasks
  <2>. QED  BY <1>1, <1>4, <1>7, <2>1, <2>2, <2>3, <2>4 DEF v, r
<1>. QED
  BY <1>1, <1>5, <1>6, <1>7 DEF RequestToAddTask

\* Every step keeps TasksPaced: only a boot request adds a task.
LEMMA TasksPacedStep ==
  ASSUME SlowerThanOnline, NoRequestWaits, IInv, TasksPaced, [Next]_vars
  PROVE  TasksPaced' /\ ~AddOnTheFly
<1>1. ~AddOnTheFly
  BY DEF AddOnTheFly, TasksPaced
<1>2. caller' # "adds" /\ pc' # "add"
  <2>1. CASE BootRequest
    BY <2>1, BootRequestStores DEF TasksPaced
  <2>2. CASE StartTask
    <3>1. list[item].task \in Tasks /\ caller' = caller
      BY <2>2, HeldTask DEF StartTask, HasItem, convert_vars
    <3>2. task_list[list[item].task].kind # "adds"
      BY <3>1 DEF TasksPaced
    <3>. QED  BY <2>2, <3>1, <3>2 DEF StartTask, TasksPaced
  <2>3. CASE Tick \/ UNCHANGED vars
    BY <2>3 DEF Tick, vars, convert_vars, TasksPaced
  <2>4. CASE StartRunLoop \/ NextItem \/ KeyPoll \/ InstallPreemptor \/ EndTask \/ UninstallPreemptor
    BY <2>4 DEF StartRunLoop, NextItem, KeyPoll, WaitOrArm, InstallPreemptor, EndTask,
                UninstallPreemptor, convert_vars, TasksPaced
  <2>5. CASE TaskBodies
    BY <1>1, <2>5 DEF TaskBodies, BeginConversion, AfterConversion, AddOccurrence, Stored,
       BufferTooSmall, EndConversion, Purge, NextTask, EndOnlineScheduler, TasksPaced
  <2>. QED  BY <2>1, <2>2, <2>3, <2>4, <2>5 DEF Next, RunLoop
<1>3. CASE BootRequest
  <2> DEFINE r == BootRequests[request + 1]
             new == Len(task_list) + 1
  <2>1. /\ request' = request + 1 /\ request \in Nat /\ request + 1 \in 1 .. Len(BootRequests)
        /\ \/ task_list' = task_list /\ request # 0
           \/ /\ Tasks' = Tasks \cup {new} /\ new \notin Tasks
              /\ (new = 1 <=> request = 0)
              /\ task_list'[new].complete = 0 /\ task_list'[new].kind = r.kind
              /\ task_list'[new].period = r.period
    BY <1>3, BootRequestStores
  <2>2. /\ request = 0 => r.kind = "online_scheduler" /\ r.period = UpdatePeriod
        /\ request # 0 => r.kind = "work" /\ r.period > UpdatePeriod
    BY <2>1, Requested DEF RequestPaced
  <2>3. \A t \in Tasks : FixedSame(t)
    BY FixedKept
  <2>. HIDE DEF r, new
  <2>4. CASE task_list' = task_list /\ request # 0
    BY <1>1, <1>2, <2>1, <2>4 DEF TasksPaced, UpdatePeriod, Tasks
  <2>5. CASE Tasks' = Tasks \cup {new} /\ new \notin Tasks /\ (new = 1 <=> request = 0)
              /\ task_list'[new].complete = 0 /\ task_list'[new].kind = r.kind
              /\ task_list'[new].period = r.period
    <3>1. ASSUME NEW t \in Tasks'
          PROVE  /\ task_list'[t].complete = 0
                 /\ t = 1 => task_list'[t].kind = "online_scheduler" /\ task_list'[t].period = UpdatePeriod
                 /\ t # 1 => task_list'[t].kind = "work" /\ task_list'[t].period > UpdatePeriod
      <4>1. CASE t = new
        BY <2>2, <2>5, <4>1
      <4>2. CASE t \in Tasks
        BY <2>3, <4>2 DEF TasksPaced, FixedSame
      <4>. QED  BY <2>5, <4>1, <4>2
    <3>2. request' > 0 /\ Tasks' # {}
      BY <2>1, <2>5
    <3>. QED  BY <1>1, <1>2, <3>1, <3>2 DEF TasksPaced, UpdatePeriod
  <2>. QED  BY <2>1, <2>4, <2>5
<1>4. CASE ~BootRequest
  <2>1. Tasks' = Tasks /\ \A t \in Tasks : FixedSame(t)
    BY <1>1, <1>4, TasksStay, FixedKept
  <2>2. request' = request
    <3>1. Tick \/ UNCHANGED vars => request' = request
      BY DEF Tick, vars, request_vars
    <3>2. RunLoop => request' = request
      BY <1>4 DEF RunLoop, StartRunLoop, NextItem, KeyPoll, WaitOrArm, InstallPreemptor, StartTask,
         EndTask, UninstallPreemptor, request_vars
    <3>3. TaskBodies => request' = request
      BY <1>1 DEF TaskBodies, BeginConversion, AddOccurrence,
       BufferTooSmall, EndConversion, Purge, NextTask, EndOnlineScheduler, request_vars
    <3>. QED  BY <3>1, <3>2, <3>3 DEF Next
  <2>. QED  BY <1>1, <1>2, <2>1, <2>2 DEF TasksPaced, UpdatePeriod, FixedSame
<1>. QED
  BY <1>1, <1>3, <1>4

-----------------------------------------------------------------------------
(***************************************************************************)
(* The steps that leave the list as it is.                                 *)
(***************************************************************************)
ListStays == /\ UNCHANGED <<items, item_upto, index_sorted_upto>>
             /\ \A i \in 0 .. items - 1 : StayAt(i)

PacedItem(i) ==
  /\ list[i].task \in Tasks /\ list[i].start \in Nat
  /\ Periods[list[i].task] \in Nat \ {0} /\ Uptos[list[i].task] \in Nat
  /\ list[i].complete = list[i].start + Periods[list[i].task]
  /\ list[i].start < Uptos[list[i].task]
  /\ list[i].task = 1 => Periods[list[i].task] = UpdatePeriod
  /\ list[i].task # 1 => Periods[list[i].task] > UpdatePeriod

\* An item is of a task without an end, and lies before what its task is evaluated up to.
LEMMA ItemsPaced ==
  ASSUME SlowerThanOnline, IInv, TwiceInv, TasksPaced
  PROVE  \A i \in 0 .. items - 1 : PacedItem(i)
<1>. SUFFICES ASSUME NEW i \in 0 .. items - 1 PROVE PacedItem(i)
  OBVIOUS
<1>1. list[i].task \in Tasks /\ list[i].start \in Nat /\ Periods[list[i].task] \in Nat
  BY ItemsAreTyped DEF ItemsTyped, IInv
<1>2. /\ list[i].task = 1 => Periods[list[i].task] = UpdatePeriod
      /\ list[i].task # 1 => Periods[list[i].task] > UpdatePeriod
      /\ Periods[list[i].task] # 0
  BY <1>1, Requested DEF TasksPaced, Periods
<1>3. /\ list[i].complete = list[i].start + Periods[list[i].task]
      /\ list[i].start < Uptos[list[i].task] /\ Uptos[list[i].task] \in Nat
  BY <1>1, <1>2, UptosTyped DEF TwiceInv, Converted
<1>. QED
  BY <1>1, <1>2, <1>3 DEF PacedItem

\* The next four: a step that neither moves nor loses what a part of PaceInv is
\* about keeps that part.
LEMMA FirstUpdateStays ==
  ASSUME IInv, FirstUpdate, TasksGrow, ListStays,
         \A t \in Tasks' : t \in Tasks \/ (items > 0 => list[0].start <= Uptos'[t])
  PROVE  FirstUpdate'
<1>. SUFFICES ASSUME index_sorted_upto' = 0, items' > 0
              PROVE  /\ list'[0].task = 1
                     /\ \A i \in 0 .. items' - 1 : list'[0].start <= list'[i].start
                     /\ \A t \in Tasks' : list'[0].start <= Uptos'[t]
  BY DEF FirstUpdate, ListStays
<1>1. items' = items /\ item_upto = 0 /\ items \in Nat /\ index_sorted_upto = 0 /\ items > 0
  BY PaceTypes DEF ListStays, FirstUpdate
<1>2. /\ \A i \in 0 .. items - 1 : /\ list'[i].task = list[i].task
                                  /\ list'[i].start = list[i].start
      /\ 0 \in 0 .. items - 1
  BY <1>1 DEF ListStays, StayAt
<1>3. list[0].start \in Nat
  BY <1>2, ItemsAreTyped DEF ItemsTyped, IInv
<1>4. /\ list[0].task = 1
      /\ \A i \in 0 .. items - 1 : list[0].start <= list[i].start
      /\ \A t \in Tasks : list[0].start <= Uptos[t]
  BY <1>1 DEF FirstUpdate
<1>5. ASSUME NEW t \in Tasks'
      PROVE  list[0].start <= Uptos'[t]
  <2>1. CASE t \in Tasks
    BY <1>3, <1>4, <2>1 DEF TasksGrow
  <2>. QED  BY <1>1, <2>1
<1>. QED
  BY <1>1, <1>2, <1>4, <1>5

LEMMA NextUpdateStays ==
  ASSUME SlowerThanOnline, IInv, TasksGrow, Tasks' = Tasks, ListStays, NEW place \in Nat,
         NextUpdateFrom(place)
  PROVE  NextUpdateFrom(place)'
<1>1. PICK i \in place .. items - 1 :
        list[i].task = 1 /\ AllBeyond(list[i].start + UpdatePeriod)
  BY DEF NextUpdateFrom
<1>2. i \in 0 .. items - 1 /\ items' = items
  BY PaceTypes DEF ListStays
<1>3. list'[i].task = 1 /\ list'[i].start = list[i].start /\ list[i].start \in Nat
  BY <1>1, <1>2, ItemsAreTyped DEF ListStays, StayAt, ItemsTyped, IInv
<1>4. \A t \in Tasks' : Uptos'[t] > list'[i].start + UpdatePeriod
  BY <1>1, <1>3, Requested DEF AllBeyond, Beyond, TasksGrow
<1>. QED
  BY <1>1, <1>2, <1>3, <1>4 DEF NextUpdateFrom, AllBeyond, Beyond, UpdatePeriod

\* What is known of the item at which the run loop stands, or that it is running.
LEMMA AtItem ==
  ASSUME IInv, ~Booting, HasItem \/ pc \in InTask \/ pc = "disarm"
  PROVE  /\ item_upto < items /\ item_upto \in 0 .. items - 1 /\ list[item_upto].start \in Nat
         /\ list[item_upto].task \in Tasks /\ (HasItem => item = item_upto)
<1>1. item_upto < items /\ (HasItem => item = item_upto)
  BY DEF IInv, PointerInv, IsRunning
<1>2. item_upto \in 0 .. items - 1
  BY <1>1, PaceTypes
<1>. QED
  BY <1>1, <1>2, ItemsAreTyped DEF ItemsTyped, IInv

\* How far a task has been evaluated stays true.
LEMMA BeyondGrows ==
  ASSUME TasksGrow, NEW time \in Nat
  PROVE  /\ \A t \in Tasks : Beyond(t, time) => Uptos'[t] > time
         /\ AllBeyond(time) => \A t \in Tasks : Uptos'[t] > time
BY DEF TasksGrow, AllBeyond, Beyond

LEMMA UpdatingStays ==
  ASSUME SlowerThanOnline, IInv, TasksGrow, Tasks' = Tasks, item_upto' = item_upto,
         item_upto \in 0 .. items - 1, StayAt(item_upto), Updating,
         pc' # "purge" => \A t \in Tasks :
           t < converting' => Uptos'[t] > list[item_upto].start + 2*UpdatePeriod,
         pc' = "occurrences" => finish_time' > list[item_upto].start + 2*UpdatePeriod
  PROVE  Updating'
<1>1. list'[item_upto].task = list[item_upto].task /\ list'[item_upto].start = list[item_upto].start
  BY DEF StayAt
<1>2. list[item_upto].start + UpdatePeriod \in Nat
  BY Requested, ItemsAreTyped DEF ItemsTyped, IInv
<1>3. \A t \in Tasks : Uptos'[t] > list[item_upto].start + UpdatePeriod
  BY <1>2, BeyondGrows DEF Updating
<1>. QED
  BY <1>1, <1>3 DEF Updating, AllBeyond, Beyond, UpdatePeriod

LEMMA UpdatedStays ==
  ASSUME SlowerThanOnline, IInv, TasksGrow, Tasks' = Tasks, ListStays,
         item_upto \in 0 .. items - 1, Updated
  PROVE  Updated'
<1>1. /\ list'[item_upto].task = list[item_upto].task /\ item_upto' = item_upto
      /\ list'[item_upto].start = list[item_upto].start
  BY DEF StayAt, ListStays
<1>2. CASE list[item_upto].task = 1 /\ AllBeyond(list[item_upto].start + 2*UpdatePeriod)
  <2>1. list[item_upto].start + 2*UpdatePeriod \in Nat
    BY Requested, ItemsAreTyped DEF ItemsTyped, IInv
  <2>2. \A t \in Tasks : Uptos'[t] > list[item_upto].start + 2*UpdatePeriod
    BY <1>2, <2>1, BeyondGrows
  <2>. QED  BY <1>1, <1>2, <2>2 DEF Updated, AllBeyond, Beyond, UpdatePeriod
<1>3. CASE NextUpdateFrom(item_upto + 1)
  <2> DEFINE place == item_upto + 1
  <2>1. place \in Nat /\ item_upto' + 1 = place
    BY <1>1
  <2>. HIDE DEF place
  <2>2. NextUpdateFrom(place)
    BY <1>3 DEF place
  <2>3. \E i \in place .. items' - 1 :
          list'[i].task = 1 /\ \A t \in Tasks' : Uptos'[t] > list'[i].start + UpdatePeriod
    BY <2>1, <2>2, NextUpdateStays DEF NextUpdateFrom, AllBeyond, Beyond, UpdatePeriod
  <2>. QED  BY <2>1, <2>3 DEF Updated, NextUpdateFrom, AllBeyond, Beyond, UpdatePeriod
<1>. QED
  BY <1>2, <1>3 DEF Updated

\* The steps that wait, arm the preemptor or let time pass.
LEMMA WaitPaced ==
  ASSUME SlowerThanOnline, IInv, TasksGrow, Tasks' = Tasks, PaceInv, TasksPaced', ~Booting,
         NextItem \/ KeyPoll \/ InstallPreemptor \/ Tick \/ UNCHANGED vars
  PROVE  PaceInv' /\ ListStays
<1>1. ListStays /\ caller' = caller /\ converting' = converting /\ finish_time' = finish_time
      /\ tick' \in {tick, tick + 1} /\ ~Booting'
  BY DEF NextItem, KeyPoll, InstallPreemptor, Tick, vars, schedule_vars, convert_vars, StayAt,
         Booting, ListStays
<1>2. \/ pc' = pc
      \/ pc' \in Terminal
      \/ pc \in {"loop", "wait", "key"} /\ pc' \in {"wait", "key"}
      \/ /\ pc \in {"loop", "key"} /\ pc' = "arm" /\ tick' = tick
         /\ item_upto < items /\ list[item_upto].start <= tick
      \/ pc = "arm" /\ pc' = "start"
  <2>1. CASE NextItem
    <3>1. item_upto < items => item_upto \in 0 .. items - 1 /\ list[item_upto].start \in Nat
      BY PaceTypes, ItemsAreTyped DEF ItemsTyped, IInv
    <3>. QED  BY <2>1, <3>1, PaceTypes DEF NextItem, WaitOrArm, Terminal
  <2>2. CASE KeyPoll
    <3>1. pc = "key" /\ pc' \in {WaitOrArm(item), "exited"} /\ tick' = tick
      BY <2>2 DEF KeyPoll
    <3>2. item_upto < items /\ list[item_upto].start \in Nat /\ item = item_upto
      BY <3>1, AtItem DEF HasItem
    <3>. QED  BY <3>1, <3>2, PaceTypes DEF WaitOrArm, Terminal
  <2>3. CASE InstallPreemptor \/ Tick \/ UNCHANGED vars
    BY <2>3 DEF InstallPreemptor, Tick, vars, Terminal
  <2>. QED  BY <2>1, <2>2, <2>3
<1>3. FirstUpdate'
  BY <1>1, FirstUpdateStays DEF PaceInv, SortPaced
<1>4. SortPaced'
  BY <1>1, <1>2, <1>3 DEF PaceInv, SortPaced, Standing, OnlineBody, Terminal, ListStays, Booting
<1>5. Standing' => NextUpdateFrom(item_upto)'
  <2>1. Standing' => Standing
    BY <1>1, <1>2 DEF Standing, Terminal
  <2>. QED  BY <1>1, <2>1, PaceTypes, NextUpdateStays DEF PaceInv, UpdatePaced, ListStays
<1>6. UpdatePaced'
  <2>1. ASSUME pc' \in {"arm", "start"} \cup OnlineBody
        PROVE  list'[item_upto'].start <= tick'
    <3>1. \/ pc \in {"arm", "start"} \cup OnlineBody
          \/ tick' = tick /\ item_upto < items /\ list[item_upto].start <= tick
      BY <1>2, <2>1 DEF Terminal, OnlineBody
    <3>2. item_upto \in 0 .. items - 1
      BY <3>1, AtItem, PaceTypes DEF HasItem, InTask, OnlineBody
    <3>3. list'[item_upto'].start = list[item_upto].start /\ list[item_upto].start \in Nat
      BY <1>1, <3>2, ItemsAreTyped DEF ListStays, StayAt, ItemsTyped, IInv
    <3>4. list[item_upto].start <= tick
      BY <3>1 DEF PaceInv, UpdatePaced
    <3>. QED  BY <1>1, <3>3, <3>4, PaceTypes
  <2>2. ASSUME pc' \in OnlineBody
        PROVE  Updating'
    <3>1. pc' = pc
      BY <1>2, <2>2 DEF Terminal, OnlineBody
    <3>2. item_upto \in 0 .. items - 1 /\ list[item_upto].start + 2*UpdatePeriod \in Nat
      BY <2>2, <3>1, AtItem, Requested DEF InTask, OnlineBody
    <3>3. Updating /\ StayAt(item_upto) /\ item_upto' = item_upto
      BY <1>1, <2>2, <3>1, <3>2 DEF PaceInv, UpdatePaced, ListStays
    <3>4. pc' # "purge" => \A t \in Tasks :
            t < converting' => Uptos'[t] > list[item_upto].start + 2*UpdatePeriod
      BY <1>1, <3>1, <3>2, <3>3, BeyondGrows DEF Updating
    <3>5. pc' = "occurrences" => finish_time' > list[item_upto].start + 2*UpdatePeriod
      BY <1>1, <3>1, <3>3 DEF Updating
    <3>. QED  BY <3>2, <3>3, <3>4, <3>5, UpdatingStays
  <2>3. ASSUME pc' \in {"end", "disarm"}
        PROVE  Updated'
    <3>1. pc' = pc
      BY <1>2, <2>3 DEF Terminal
    <3>2. item_upto \in 0 .. items - 1 /\ Updated
      BY <2>3, <3>1, AtItem DEF InTask, PaceInv, UpdatePaced
    <3>. QED  BY <1>1, <3>2, UpdatedStays
  <2>. QED  BY <1>5, <2>1, <2>2, <2>3 DEF UpdatePaced, OnlineBody
<1>7. BootPaced'
  BY <1>1 DEF BootPaced
<1>. QED
  BY <1>1, <1>4, <1>6, <1>7 DEF PaceInv

\* What is left to show of a step after which the list stands as it did.
LEMMA PacedAfter ==
  ASSUME TasksPaced', FirstUpdate', ~Booting',
         Standing' => index_sorted_upto' \in {0, items'},
         pc' \in {"end", "disarm"} => index_sorted_upto' = items',
         pc' \in OnlineBody => index_sorted_upto' = 0 \/ index_sorted_upto' > item_upto',
         UpdatePaced'
  PROVE  PaceInv'
BY DEF PaceInv, SortPaced, BootPaced, OnlineBody

\* The body of the online scheduler starts at one of its items, other bodies at
\* an item behind which there is one.
LEMMA StartTaskPaced ==
  ASSUME SlowerThanOnline, IInv, OnceInv, TasksGrow, Tasks' = Tasks, PaceInv, TasksPaced',
         StartTask
  PROVE  PaceInv' /\ ListStays
<1> DEFINE t == list[item_upto].task
           s == list[item_upto].start
<1>1. /\ pc = "start" /\ ~Booting /\ caller' = caller /\ ListStays /\ tick' = tick
      /\ converting' = converting
  BY DEF StartTask, ListStays, StayAt, schedule_vars, convert_vars, IInv, BootInv, Terminal
<1>2. /\ item_upto \in 0 .. items - 1 /\ s \in Nat /\ t \in Tasks
      /\ item = item_upto /\ Standing /\ ~Booting' /\ items \in Nat
      /\ index_sorted_upto \in {0, items}
  BY <1>1, AtItem, PaceTypes DEF HasItem, Standing, Booting, PaceInv, SortPaced
<1>3. /\ t = 1 => pc' = "purge"
      /\ t # 1 => pc' = "end"
  BY <1>2 DEF StartTask, PaceInv, TasksPaced
<1>4. FirstUpdate' /\ StayAt(item_upto) /\ item_upto' = item_upto
  BY <1>1, <1>2, FirstUpdateStays DEF PaceInv, SortPaced, ListStays
<1>5. PICK i \in item_upto .. items - 1 :
        list[i].task = 1 /\ AllBeyond(list[i].start + UpdatePeriod)
  BY <1>1, <1>2 DEF PaceInv, UpdatePaced, NextUpdateFrom
<1>6. i \in 0 .. items - 1 /\ PacedItem(i)
  BY <1>2, ItemsPaced DEF OnceInv, PaceInv
<1>7. CASE t = 1
  <2>1. s <= list[i].start
    <3>1. CASE i = item_upto
      BY <1>2, <3>1
    <3>2. CASE i # item_upto
      <4>1. item_upto < i
        BY <1>2, <1>6, <3>2
      <4>2. Periods[t] # 0
        BY <1>2, <1>7, ItemsPaced DEF OnceInv, PaceInv, PacedItem
      <4>. QED  BY <1>2, <1>5, <1>6, <1>7, <4>1, <4>2 DEF OnceInv, GapInv, Ordered, PacedItem
    <3>. QED  BY <3>1, <3>2
  <2>2. AllBeyond(s + UpdatePeriod)
    <3>. SUFFICES ASSUME NEW u \in Tasks PROVE Uptos[u] > s + UpdatePeriod
      BY DEF AllBeyond, Beyond
    <3>1. Uptos[u] \in Nat /\ Uptos[u] > list[i].start + UpdatePeriod /\ list[i].start \in Nat
      BY <1>5, <1>6, UptosTyped DEF AllBeyond, Beyond, PacedItem
    <3>. QED  BY <1>2, <2>1, <3>1, Requested, SMTT(30)
  <2>3. pc' = "purge"
    BY <1>3, <1>7
  <2>4. \A u \in Tasks : Uptos'[u] > s + UpdatePeriod
    BY <1>2, <2>2, BeyondGrows, Requested
  <2>5. Updating'
    BY <1>4, <1>7, <2>3, <2>4 DEF Updating, AllBeyond, Beyond, StayAt, UpdatePeriod
  <2>6. list'[item_upto'].start <= tick'
    BY <1>1, <1>4 DEF StayAt, PaceInv, UpdatePaced
  <2>7. UpdatePaced'
    BY <1>2, <2>3, <2>5, <2>6 DEF UpdatePaced, Standing
  <2>8. index_sorted_upto' = 0 \/ index_sorted_upto' > item_upto'
    BY <1>1, <1>2 DEF ListStays
  <2>. QED  BY <1>1, <1>2, <1>4, <2>3, <2>7, <2>8, PacedAfter DEF Standing
<1>8. CASE t # 1
  <2>1. pc' = "end" /\ i # item_upto
    BY <1>3, <1>5, <1>8
  <2>2. NextUpdateFrom(item_upto + 1)
    BY <1>2, <1>5, <2>1 DEF NextUpdateFrom
  <2>3. Updated'
    BY <1>1, <1>2, <2>2, UpdatedStays DEF Updated
  <2>4. UpdatePaced'
    BY <1>2, <2>1, <2>3 DEF UpdatePaced, Standing, OnlineBody
  <2>5. index_sorted_upto # 0
    <3>1. index_sorted_upto = 0 => list[0].task = 1 /\ item_upto = 0
      BY <1>2 DEF PaceInv, SortPaced, FirstUpdate
    <3>. QED  BY <1>8, <3>1
  <2>6. index_sorted_upto' = items'
    BY <1>1, <1>2, <2>5 DEF ListStays
  <2>. QED  BY <1>1, <1>2, <1>4, <2>1, <2>4, <2>6, PacedAfter DEF Standing, OnlineBody
<1>. QED
  BY <1>1, <1>7, <1>8

\* The next lemmas take the run loop's steps and those of the online scheduler one
\* by one: each keeps PaceInv, and leaves what the run loop has passed in place.
LEMMA EndTaskPaced ==
  ASSUME SlowerThanOnline, IInv, TasksGrow, Tasks' = Tasks, PaceInv, TasksPaced', EndTask
  PROVE  PaceInv' /\ ListStays
<1>1. /\ pc = "end" /\ pc' = "disarm" /\ ~Booting /\ ~Booting'
      /\ UNCHANGED <<items, item_upto, index_sorted_upto>>
      /\ list' = [list EXCEPT ![item].done = TRUE]
  BY DEF EndTask, IInv, BootInv, Terminal, Booting, convert_vars
<1>2. list \in [Slots -> Item] /\ 0 .. items - 1 \subseteq Slots
  BY ConstantsAssumption DEF IInv, TypeOK, ListOK, Counters, Slots
<1>3. ListStays
  BY <1>1, <1>2 DEF StayAt, Item, ListStays
<1>4. FirstUpdate'
  BY <1>3, FirstUpdateStays DEF PaceInv, SortPaced
<1>5. Updated'
  BY <1>1, <1>3, AtItem, UpdatedStays DEF InTask, PaceInv, UpdatePaced
<1>6. UpdatePaced'
  BY <1>1, <1>5 DEF UpdatePaced, Standing, OnlineBody
<1>7. index_sorted_upto' = items'
  BY <1>1 DEF PaceInv, SortPaced
<1>. QED
  BY <1>1, <1>3, <1>4, <1>6, <1>7, PacedAfter DEF Standing, OnlineBody

\* When the online scheduler has run, its next occurrence is in the list, behind
\* the one it ran at.
LEMMA UninstallPaced ==
  ASSUME SlowerThanOnline, IInv, OnceInv, TasksGrow, Tasks' = Tasks, PaceInv, TasksPaced',
         UninstallPreemptor
  PROVE  PaceInv'
<1> DEFINE s == list[item_upto].start
           place == item_upto + 1
<1>1. /\ pc = "disarm" /\ pc' = "loop" /\ ~Booting /\ ~Booting'
      /\ UNCHANGED <<list, items, index_sorted_upto>> /\ item_upto' = place
  BY DEF UninstallPreemptor, convert_vars, IInv, BootInv, Terminal, Booting
<1>2. /\ item_upto \in 0 .. items - 1 /\ s \in Nat /\ items \in Nat /\ place \in Nat
      /\ index_sorted_upto = items /\ Updated
  BY <1>1, AtItem, PaceTypes DEF PaceInv, SortPaced, UpdatePaced
<1>3. NextUpdateFrom(place)
  <2>1. CASE NextUpdateFrom(item_upto + 1)
    BY <2>1
  <2>2. CASE list[item_upto].task = 1 /\ AllBeyond(s + 2*UpdatePeriod)
    <3>1. PacedItem(item_upto)
      BY <1>2, ItemsPaced DEF OnceInv, PaceInv
    <3>2. Periods[1] = UpdatePeriod /\ 1 \in Tasks /\ UpdatePeriod \in Nat \ {0}
      BY <2>2, <3>1, Requested DEF PacedItem
    <3>3. s + UpdatePeriod # Uptos[1]
      BY <1>2, <2>2, <3>2, UptosTyped DEF AllBeyond, Beyond
    <3>4. PICK j \in 0 .. items - 1 : list[j].task = 1 /\ list[j].start = s + UpdatePeriod
      BY <1>2, <2>2, <3>2, <3>3 DEF OnceInv, GapInv, Gapless
    <3>5. j > item_upto
      <4>1. SUFFICES ASSUME j < item_upto \/ j = item_upto PROVE FALSE
        BY <1>2
      <4>2. j = item_upto => s = s + UpdatePeriod
        BY <3>4
      <4>3. j < item_upto => s + UpdatePeriod < s
        BY <1>2, <2>2, <3>2, <3>4 DEF OnceInv, GapInv, Ordered
      <4>. QED  BY <1>2, <3>2, <4>1, <4>2, <4>3
    <3>6. AllBeyond(list[j].start + UpdatePeriod)
      BY <1>2, <2>2, <3>2, <3>4 DEF AllBeyond, Beyond
    <3>. QED  BY <1>2, <3>4, <3>5, <3>6 DEF NextUpdateFrom
  <2>. QED  BY <1>2, <2>1, <2>2 DEF Updated
<1>. HIDE DEF place
<1>4. NextUpdateFrom(item_upto)'
  <2>1. PICK i \in place .. items - 1 :
          list[i].task = 1 /\ AllBeyond(list[i].start + UpdatePeriod)
    BY <1>3 DEF NextUpdateFrom
  <2>2. i \in 0 .. items - 1
    BY <1>2
  <2>3. list[i].start + UpdatePeriod \in Nat
    BY <2>2, Requested, ItemsAreTyped DEF ItemsTyped, IInv
  <2>4. \A t \in Tasks : Uptos'[t] > list[i].start + UpdatePeriod
    BY <2>1, <2>3, BeyondGrows
  <2>. QED  BY <1>1, <2>1, <2>4 DEF NextUpdateFrom, AllBeyond, Beyond, UpdatePeriod
<1>5. FirstUpdate' /\ index_sorted_upto' = items'
  BY <1>1, <1>2 DEF FirstUpdate
<1>6. UpdatePaced'
  BY <1>1, <1>4 DEF UpdatePaced, OnlineBody
<1>. QED
  BY <1>1, <1>5, <1>6, PacedAfter DEF OnlineBody

\* When the boot ends, all tasks have been evaluated beyond the first update.
LEMMA StartRunLoopPaced ==
  ASSUME SlowerThanOnline, IInv, TasksGrow, Tasks' = Tasks, PaceInv, TasksPaced',
         StartRunLoop
  PROVE  PaceInv'
<1>1. /\ pc = "boot" /\ pc' = "loop" /\ Booting /\ ~Booting' /\ item_upto' = 0
      /\ UNCHANGED <<list, items, index_sorted_upto>> /\ request = Len(BootRequests)
  BY DEF StartRunLoop, Booting, IInv, BootInv
<1>2. Tasks # {}
  BY <1>1, Requested DEF PaceInv, TasksPaced
<1>3. /\ items \in Nat /\ index_sorted_upto = 0
      /\ items > 0 /\ list[0].task = 1
  BY <1>1, <1>2, PaceTypes DEF PaceInv, BootPaced, SortPaced, FirstUpdate, Terminal
<1>4. AllBeyond(list[0].start + UpdatePeriod)
  BY <1>1 DEF PaceInv, BootPaced, Terminal, AllBeyond
<1>5. list[0].start + UpdatePeriod \in Nat
  BY <1>3, Requested, ItemsAreTyped DEF ItemsTyped, IInv
<1>6. \A t \in Tasks : Uptos'[t] > list[0].start + UpdatePeriod
  BY <1>4, <1>5, BeyondGrows
<1>7. NextUpdateFrom(item_upto)'
  BY <1>1, <1>3, <1>6 DEF NextUpdateFrom, AllBeyond, Beyond, UpdatePeriod
<1>8. UpdatePaced'
  BY <1>1, <1>7 DEF UpdatePaced, OnlineBody
<1>9. FirstUpdate'
  <2>1. ListStays
    BY <1>1, <1>3 DEF ListStays, StayAt, PaceInv, SortPaced, FirstUpdate
  <2>. QED  BY <2>1, FirstUpdateStays DEF PaceInv, SortPaced
<1>. QED
  BY <1>1, <1>3, <1>8, <1>9, PacedAfter DEF OnlineBody

\* What a step in the body of the online scheduler has yet to show, when it leaves
\* the item it runs at and the list as they are.
LEMMA BodyPaced ==
  ASSUME SlowerThanOnline, IInv, TasksGrow, Tasks' = Tasks, PaceInv, TasksPaced', ListStays,
         ~Booting, ~Booting', pc \in OnlineBody, pc' \in OnlineBody, tick' = tick,
         pc' # "purge" => \A t \in Tasks :
           t < converting' => Uptos'[t] > list[item_upto].start + 2*UpdatePeriod,
         pc' = "occurrences" => finish_time' > list[item_upto].start + 2*UpdatePeriod
  PROVE  PaceInv'
<1>1. item_upto \in 0 .. items - 1
  BY AtItem DEF OnlineBody, InTask
<1>2. FirstUpdate' /\ StayAt(item_upto) /\ item_upto' = item_upto
  BY <1>1, FirstUpdateStays DEF PaceInv, SortPaced, ListStays
<1>3. Updating'
  BY <1>1, <1>2, UpdatingStays DEF PaceInv, UpdatePaced
<1>4. list'[item_upto'].start <= tick'
  BY <1>2 DEF StayAt, PaceInv, UpdatePaced
<1>5. UpdatePaced'
  BY <1>3, <1>4 DEF UpdatePaced, OnlineBody, Standing
<1>6. index_sorted_upto' = 0 \/ index_sorted_upto' > item_upto'
  BY DEF ListStays, PaceInv, SortPaced
<1>. QED
  BY <1>2, <1>5, <1>6, PacedAfter DEF OnlineBody, Standing

\* The body of the online scheduler, as it goes from task to task.
LEMMA InBody ==
  ASSUME SlowerThanOnline, IInv, PaceInv, ~Booting, pc \in OnlineBody
  PROVE  /\ caller = "online"
         /\ item_upto \in 0 .. items - 1 /\ list[item_upto].start \in Nat
         /\ list[item_upto].start <= tick /\ list[item_upto].task = 1
         /\ AllBeyond(list[item_upto].start + UpdatePeriod)
         /\ pc # "purge" => \A t \in Tasks :
              t < converting => Beyond(t, list[item_upto].start + 2*UpdatePeriod)
         /\ pc = "occurrences" => finish_time > list[item_upto].start + 2*UpdatePeriod
<1>1. caller = "online"
  BY DEF Booting, IInv, TypeOK, ControlOK, PaceInv, TasksPaced
<1>2. item_upto \in 0 .. items - 1 /\ list[item_upto].start \in Nat
  BY AtItem DEF OnlineBody, InTask
<1>. QED
  BY <1>1, <1>2 DEF PaceInv, UpdatePaced, Updating

LEMMA NextTaskPaced ==
  ASSUME SlowerThanOnline, IInv, TasksGrow, Tasks' = Tasks, PaceInv, TasksPaced', NextTask
  PROVE  PaceInv' /\ ListStays
<1> DEFINE s == list[item_upto].start
<1>1. /\ pc = "next_task" /\ ~Booting /\ caller' = caller /\ ~Booting' /\ tick' = tick
      /\ ListStays /\ converting <= Len(task_list)
  BY DEF NextTask, IInv, BootInv, Booting, Terminal, ListStays, schedule_vars, StayAt
<1>2. /\ item_upto \in 0 .. items - 1 /\ s + 2*UpdatePeriod \in Nat
      /\ \A t \in Tasks : t < converting => Beyond(t, s + 2*UpdatePeriod)
  BY <1>1, InBody, Requested DEF OnlineBody
<1>3. converting \in Tasks
  BY <1>1, PaceTypes DEF IInv, PointerInv, Tasks
<1>4. task_list[converting].period # 0
  BY <1>3, Requested DEF PaceInv, TasksPaced
<1>5. pc' = "convert" /\ converting' = converting
  BY <1>4 DEF NextTask
<1>6. \A t \in Tasks : t < converting' => Uptos'[t] > s + 2*UpdatePeriod
  BY <1>2, <1>5, BeyondGrows
<1>. QED
  BY <1>1, <1>5, <1>6, BodyPaced DEF OnlineBody

\* A conversion that has begun reaches beyond the update after the next.
LEMMA BeginConversionPaced ==
  ASSUME SlowerThanOnline, IInv, TasksGrow, Tasks' = Tasks, PaceInv, TasksPaced', ~Booting,
         BeginConversion
  PROVE  PaceInv' /\ ListStays
<1> DEFINE s == list[item_upto].start
           u == task_list[converting].time_evaluated_upto
           n == converting
<1>1. pc = "convert" /\ ListStays /\ tick' = tick /\ caller' = caller /\ ~Booting'
  BY DEF BeginConversion, AfterConversion, ListStays, schedule_vars, StayAt, Booting
<1>2. /\ item_upto \in 0 .. items - 1 /\ s \in Nat /\ s <= tick /\ caller = "online"
      /\ AllBeyond(s + UpdatePeriod)
      /\ \A t \in Tasks : t < n => Beyond(t, s + 2*UpdatePeriod)
  BY <1>1, InBody DEF OnlineBody
<1>3. n \in Tasks /\ tick \in Nat /\ n \in Nat /\ \A t \in Tasks : t \in Nat
  BY <1>1, PaceTypes DEF Tasks
<1>4. u = Uptos[n] /\ u \in Nat /\ task_list[n].complete = 0 /\ u > s + UpdatePeriod
  BY <1>1, <1>2, <1>3, UptosTyped DEF Uptos, EvaluatedUpto, PaceInv, TasksPaced, AllBeyond, Beyond
<1>5. \/ /\ u > tick + EVENT_HORIZON
         /\ n' = n + 1 /\ pc' = "next_task"
      \/ n' = n /\ pc' = "occurrences" /\ finish_time' = u + UPDATE_SCHEDULE_RATE
  BY <1>2, <1>4 DEF BeginConversion, AfterConversion
<1>. HIDE DEF u, n
<1>6. CASE u > tick + EVENT_HORIZON /\ n' = n + 1 /\ pc' = "next_task"
  <2>1. Beyond(n, s + 2*UpdatePeriod)
    <3>1. UpdatePeriod \in Nat /\ UPDATE_SCHEDULE_RATE \in Nat /\ UpdatePeriod < UPDATE_SCHEDULE_RATE
      BY Requested
    <3>2. u > s + 2*UpdatePeriod
      <4>1. s <= tick /\ s \in Nat /\ tick \in Nat /\ u \in Nat /\ u > tick + 2*UPDATE_SCHEDULE_RATE
        BY <1>2, <1>3, <1>4, <1>6 DEF EVENT_HORIZON
      <4>. HIDE DEF s
      <4>. QED  BY <3>1, <4>1
    <3>. QED  BY <1>4, <3>2 DEF Beyond
  <2>2. s + 2*UpdatePeriod \in Nat
    BY <1>2, Requested
  <2>3. ASSUME NEW t \in Tasks, t < n'
        PROVE  Uptos'[t] > s + 2*UpdatePeriod
    <3>1. t < n \/ t = n
      BY <1>3, <1>6, <2>3
    <3>. QED  BY <1>2, <2>1, <2>2, <3>1, BeyondGrows
  <2>. QED  BY <1>1, <1>6, <2>3, BodyPaced DEF OnlineBody, n
<1>7. CASE n' = n /\ pc' = "occurrences" /\ finish_time' = u + UPDATE_SCHEDULE_RATE
  <2>1. finish_time' > s + 2*UpdatePeriod
    BY <1>2, <1>4, <1>7, Requested, SMTT(30)
  <2>2. s + 2*UpdatePeriod \in Nat
    BY <1>2, Requested
  <2>3. \A t \in Tasks : t < n' => Uptos'[t] > s + 2*UpdatePeriod
    BY <1>2, <1>7, <2>2, BeyondGrows
  <2>. QED  BY <1>1, <1>7, <2>1, <2>3, BodyPaced DEF OnlineBody, n
<1>. QED
  BY <1>5, <1>6, <1>7

LEMMA EndConversionPaced ==
  ASSUME SlowerThanOnline, IInv, TasksGrow, Tasks' = Tasks, PaceInv, TasksPaced', ~Booting,
         EndConversion
  PROVE  PaceInv' /\ ListStays
<1> DEFINE s == list[item_upto].start
           n == converting
<1>1. /\ pc = "occurrences" /\ ListStays /\ tick' = tick /\ caller' = caller /\ ~Booting'
      /\ schedule_time >= finish_time
  BY DEF EndConversion, AfterConversion, ListStays, schedule_vars, StayAt, Booting
<1>2. /\ item_upto \in 0 .. items - 1 /\ s \in Nat /\ caller = "online"
      /\ \A t \in Tasks : t < n => Beyond(t, s + 2*UpdatePeriod)
      /\ finish_time > s + 2*UpdatePeriod
  BY <1>1, InBody DEF OnlineBody
<1>3. n \in Tasks /\ n \in Nat /\ \A t \in Tasks : t \in Nat
  BY <1>1, PaceTypes DEF Tasks
<1>4. n' = n + 1 /\ pc' = "next_task"
  BY <1>2 DEF EndConversion, AfterConversion
<1>5. s + 2*UpdatePeriod \in Nat
  BY <1>2, Requested
<1>6. Beyond(n, s + 2*UpdatePeriod)
  BY <1>1, <1>2, <1>3, <1>5, PaceTypes DEF Beyond, Uptos, EvaluatedUpto
<1>. HIDE DEF n
<1>7. ASSUME NEW t \in Tasks, t < n'
      PROVE  Uptos'[t] > s + 2*UpdatePeriod
  <2>1. t < n \/ t = n
    BY <1>3, <1>4, <1>7
  <2>. QED  BY <1>2, <1>5, <1>6, <2>1, BeyondGrows
<1>. QED
  BY <1>1, <1>4, <1>7, BodyPaced DEF OnlineBody, n

LEMMA PurgePaced ==
  ASSUME SlowerThanOnline, IInv, TasksGrow, Tasks' = Tasks, PaceInv, TasksPaced', Purge
  PROVE  PaceInv' /\ (item_upto' = item_upto => ListStays)
<1> DEFINE s == list[item_upto].start
<1>1. /\ pc = "purge" /\ pc' = "next_task" /\ ~Booting /\ ~Booting' /\ tick' = tick
      /\ converting' = 1
  BY DEF Purge, IInv, BootInv, Booting, Terminal
<1>2. \A t \in Tasks : ~(t < converting')
  BY <1>1 DEF Tasks
<1>3. CASE UNCHANGED schedule_vars
  <2>1. ListStays
    BY <1>3 DEF ListStays, StayAt, schedule_vars
  <2>. QED  BY <1>1, <1>2, <2>1, BodyPaced DEF OnlineBody
<1>4. CASE ~UNCHANGED schedule_vars
  <2>1. /\ item_upto > 1 /\ items' = items - item_upto /\ item_upto' = 0
        /\ index_sorted_upto' = SortedAfterPurge
        /\ \A k \in 0 .. items - item_upto - 1 : k \in Slots => list'[k] = list[k + item_upto]
    BY <1>4, PaceTypes DEF Purge, MovedToFront
  <2>2. /\ item_upto \in 0 .. items - 1 /\ s \in Nat /\ s <= tick /\ list[item_upto].task = 1
        /\ AllBeyond(s + UpdatePeriod)
    BY <1>1, InBody DEF OnlineBody
  <2>3. items \in Nat /\ index_sorted_upto \in Nat /\ 0 \in Slots
    BY PaceTypes, ConstantsAssumption DEF Slots
  <2>4. list'[0] = list[item_upto]
    BY <2>1, <2>2, <2>3
  <2>5. index_sorted_upto > item_upto
    BY <1>1, <2>1, <2>2 DEF PaceInv, SortPaced, FirstUpdate, OnlineBody
  <2>6. index_sorted_upto' > item_upto' /\ FirstUpdate'
    BY <2>1, <2>2, <2>3, <2>5 DEF SortedAfterPurge, FirstUpdate
  <2>7. \A t \in Tasks : Uptos'[t] > s + UpdatePeriod
    BY <2>2, BeyondGrows, Requested
  <2>8. Updating'
    BY <1>1, <1>2, <2>1, <2>2, <2>4, <2>7 DEF Updating, AllBeyond, Beyond, UpdatePeriod
  <2>9. UpdatePaced'
    BY <1>1, <2>1, <2>2, <2>4, <2>8 DEF UpdatePaced, Standing, OnlineBody
  <2>. QED  BY <1>1, <2>1, <2>2, <2>6, <2>9, PacedAfter DEF Standing, OnlineBody
<1>. QED
  BY <1>3, <1>4

-----------------------------------------------------------------------------
(***************************************************************************)
(* The steps that store an item or sort.  A conversion stores items that   *)
(* start after the one the online scheduler runs at has ended, and the     *)
(* first sort leaves the first item at its place.                          *)
(***************************************************************************)

LEMMA AddOccurrencePaced ==
  ASSUME SlowerThanOnline, IInv, IInv', OnceInv, TasksGrow, Tasks' = Tasks, PaceInv,
         TasksPaced', RoomLeft, RoomLeft', ~Booting, AddOccurrence
  PROVE  PaceInv' /\ \A k \in 0 .. item_upto : StayAt(k)
<1> DEFINE s == list[item_upto].start
           n == converting
           next == schedule_time + task_list[n].period
           l == [list EXCEPT ![items] = [task |-> n, start |-> schedule_time,
                                         complete |-> next, done |-> FALSE]]
           lo == FirstOverlap(l, schedule_time)
           Front == /\ \A k \in 0 .. item_upto : StayAt(k)
                    /\ FirstUpdate'
                    /\ index_sorted_upto' = 0 \/ index_sorted_upto' > item_upto
<1>1. /\ pc = "occurrences" /\ tick' = tick /\ caller' = caller /\ ~Booting'
      /\ converting' = n /\ finish_time' = finish_time
      /\ AddToScheduledItemList(n, schedule_time, next)
      /\ pc' = "occurrences" \/ ~InArray(items)
  BY DEF AddOccurrence, Stored, Booting
<1>2. /\ item_upto \in 0 .. items - 1 /\ s \in Nat /\ s <= tick /\ list[item_upto].task = 1
      /\ AllBeyond(s + UpdatePeriod)
      /\ \A t \in Tasks : t < n => Beyond(t, s + 2*UpdatePeriod)
      /\ finish_time > s + 2*UpdatePeriod
  BY <1>1, InBody DEF OnlineBody
<1>3. n \in Tasks /\ items \in Nat /\ schedule_time \in Nat /\ index_sorted_upto \in Nat
  BY <1>1, PaceTypes
<1>4. schedule_time = Uptos[n] /\ schedule_time > s + UpdatePeriod
  BY <1>1, <1>2, <1>3 DEF Uptos, EvaluatedUpto, AllBeyond, Beyond
<1>5. /\ items' = items + 1 /\ item_upto' = item_upto
      /\ \/ list' = l /\ index_sorted_upto' = index_sorted_upto
         \/ /\ items # 0 /\ index_sorted_upto # 0
            /\ l[index_sorted_upto - 1].complete > schedule_time
            /\ SortSchedule(l, lo) /\ index_sorted_upto' = items
  BY <1>1, Zenon DEF AddToScheduledItemList, SortSchedule
<1>6. /\ pc' = "occurrences"
  BY <1>1, <1>3, <1>5, ConstantsAssumption DEF RoomLeft, InArray
<1>7. /\ \A k \in 0 .. items - 1 : k \in Slots /\ l[k] = list[k]
      /\ \A k \in Slots : l[k].complete \in Nat
      /\ items \in Slots /\ l[items].task = n /\ l[items].start = schedule_time
  <2>1. list \in [Slots -> Item] /\ \A x \in Item : x.complete \in Nat
    BY DEF IInv, TypeOK, ListOK, Item
  <2>2. items \in Slots /\ items < MAX_SCHEDULED_ITEMS /\ MAX_SCHEDULED_ITEMS \in Nat
    BY <1>3, PaceTypes DEF RoomLeft, Slots
  <2>3. next \in Nat
    <3>1. task_list[n] \in Task
      BY <1>3, Typed DEF IInv
    <3>. QED  BY <1>3, <3>1 DEF Task
  <2>. HIDE DEF next
  <2>. QED  BY <1>3, <2>1, <2>2, <2>3 DEF Slots
<1>8. index_sorted_upto = 0 \/ index_sorted_upto > item_upto
  BY <1>1 DEF PaceInv, SortPaced, OnlineBody
<1>. HIDE DEF l, next, n
<1>9. ASSUME list' = l, index_sorted_upto' = index_sorted_upto
      PROVE  Front
  <2>1. \A k \in 0 .. item_upto : StayAt(k)
    BY <1>2, <1>3, <1>7, <1>9 DEF StayAt
  <2>2. FirstUpdate'
    <3>. SUFFICES ASSUME index_sorted_upto = 0
                  PROVE  /\ list'[0].task = 1
                         /\ \A i \in 0 .. items : list'[0].start <= list'[i].start
                         /\ \A t \in Tasks : list'[0].start <= Uptos'[t]
      BY <1>2, <1>3, <1>5, <1>8, <1>9 DEF FirstUpdate, PaceInv, SortPaced
    <3>1. /\ item_upto = 0 /\ list[0].task = 1
          /\ \A i \in 0 .. items - 1 : list[0].start <= list[i].start
          /\ \A t \in Tasks : list[0].start <= Uptos[t]
      BY <1>2, <1>3 DEF FirstUpdate, PaceInv, SortPaced
    <3>2. list'[0] = list[0] /\ list[0].start = s
      BY <1>2, <1>3, <1>7, <1>9, <3>1
    <3>3. \A i \in 0 .. items : i \in 0 .. items - 1 \/ i = items
      BY <1>3
    <3>4. \A i \in 0 .. items : s <= list'[i].start
      BY <1>2, <1>3, <1>4, <1>7, <1>9, <3>1, <3>2, <3>3, Requested
    <3>5. \A t \in Tasks : s <= Uptos'[t]
      BY <1>2, <3>1, <3>2 DEF TasksGrow
    <3>. QED  BY <3>1, <3>2, <3>4, <3>5
  <2>. QED  BY <1>8, <1>9, <2>1, <2>2
<1>10. ASSUME items # 0, index_sorted_upto # 0,
              l[index_sorted_upto - 1].complete > schedule_time,
              SortSchedule(l, lo), index_sorted_upto' = items
       PROVE  Front
  <2>1. l[item_upto].complete < schedule_time
    <3>1. PacedItem(item_upto)
      BY <1>2, ItemsPaced DEF OnceInv, PaceInv
    <3>. QED  BY <1>2, <1>4, <1>7, <3>1 DEF PacedItem
  <2>2. lo > item_upto /\ lo \in Nat
    <3>1. Counters /\ items < MAX_SCHEDULED_ITEMS
      BY DEF RoomLeft, IInv, TypeOK
    <3>2. \A i \in Slots : l[i].complete \in Nat
      BY <1>7
    <3>3. item_upto < index_sorted_upto
      BY <1>8, <1>10
    <3>. QED  BY <1>3, <2>1, <3>1, <3>2, <3>3, FirstOverlapFound
  <2>. HIDE DEF lo
  <2>3. \A k \in 0 .. item_upto : k \in Slots /\ list'[k] = l[k]
    <3>1. \A k \in Slots : (k \in Int /\ lo \in Int /\ k < lo) => list'[k] = l[k]
      BY <1>10, SortKeepsBefore
    <3>. QED  BY <1>2, <1>3, <1>7, <2>2, <3>1
  <2>4. \A k \in 0 .. item_upto : StayAt(k)
    BY <1>2, <1>3, <1>7, <2>3 DEF StayAt
  <2>5. FirstUpdate'
    BY <1>3, <1>10 DEF FirstUpdate
  <2>. QED  BY <1>2, <1>3, <1>10, <2>4, <2>5
<1>11. Front
  BY <1>5, <1>9, <1>10
<1>12. Updating'
  <2>1. s + 2*UpdatePeriod \in Nat /\ StayAt(item_upto)
    BY <1>2, <1>11, Requested
  <2>2. \A t \in Tasks : t < converting' => Uptos'[t] > s + 2*UpdatePeriod
    BY <1>1, <1>2, <2>1, BeyondGrows DEF n
  <2>3. Updating
    BY <1>1 DEF PaceInv, UpdatePaced, OnlineBody
  <2>. QED  BY <1>1, <1>2, <1>5, <2>1, <2>2, <2>3, UpdatingStays
<1>13. list'[item_upto'].start <= tick'
  BY <1>1, <1>2, <1>5, <1>11 DEF StayAt
<1>14. UpdatePaced'
  BY <1>6, <1>12, <1>13 DEF UpdatePaced, Standing, OnlineBody, Booting
<1>. QED
  BY <1>1, <1>5, <1>6, <1>11, <1>14, PacedAfter DEF Standing, OnlineBody

\* The first item is the earliest to end, so that the first sort leaves it.
LEMMA FirstSortKeepsFirst ==
  ASSUME SlowerThanOnline, IInv, OnceInv, PaceInv, index_sorted_upto = 0, items > 0,
         SortSchedule(list, 0)
  PROVE  Same(list'[0], list[0])
<1>1. /\ items \in Nat /\ Counters /\ list \in [Slots -> Item] /\ NoneWaits
      /\ \A i \in 0 .. items - 1 : PacedItem(i)
  BY PaceTypes, ItemsPaced DEF IInv, TypeOK, ListOK, OnceInv, GapInv, PaceInv
<1>2. \A i \in 0 .. items - 1 : /\ list[i].task \in Tasks /\ list[i].complete \in Nat
                                /\ i # 0 => list[0].complete < list[i].complete
  <2>1. /\ list[0].task = 1 /\ 0 \in 0 .. items - 1
        /\ \A i \in 0 .. items - 1 : list[0].start <= list[i].start
    BY <1>1 DEF PaceInv, SortPaced, FirstUpdate
  <2>2. ASSUME NEW i \in 0 .. items - 1
        PROVE  list[i].task \in Tasks /\ list[i].complete \in Nat
    BY <1>1 DEF PacedItem
  <2>3. ASSUME NEW i \in 0 .. items - 1, i # 0
        PROVE  list[0].complete < list[i].complete
    <3>1. PacedItem(0) /\ PacedItem(i)
      BY <1>1, <2>1
    <3>2. list[i].task = 1 => list[0].start # list[i].start
      BY <2>1, <2>3 DEF OnceInv, TwiceInv, Once
    <3>. QED  BY <2>1, <3>1, <3>2, Requested, SMTT(30) DEF PacedItem
  <2>. QED  BY <2>2, <2>3
<1>3. PICK order : Rearranges(order, list, list', items) /\ ByDeadline(order, list', items)
  <2>1. \E order :
           /\ Rearranges(order, list, list', items)
           /\ \A k \in Slots : k >= items => list'[k] = list[k]
           /\ NoneWaits /\ (\A k \in 0 .. items - 1 : list[k].task \in Tasks /\ list[k].complete \in Nat)
                => ByDeadline(order, list', items)
    BY <1>1, SortRearrangesList
  <2>. QED  BY <1>1, <1>2, <2>1
<1>4. PICK k \in 0 .. items - 1 : order[k] = 0
  <2>1. \A i \in 0 .. items - 1 : \E j \in 0 .. items - 1 : order[j] = i
    BY <1>1, <1>3, RearrangementOnto DEF Rearranges
  <2>. QED  BY <1>1, <2>1
<1>5. k = 0
  <2>1. SUFFICES ASSUME k > 0 PROVE FALSE
    BY <1>1
  <2>2. /\ 0 \in 0 .. items - 1 /\ order[0] \in 0 .. items - 1 /\ order[0] # 0
        /\ list'[0].complete = list[order[0]].complete
        /\ list'[k].complete = list[0].complete
    BY <1>1, <1>3, <1>4, <2>1 DEF Rearranges, IsRearrangement, Same
  <2>3. order[0] < order[k] \/ list'[0].complete <= list'[k].complete
    BY <1>3, <2>1, <2>2 DEF ByDeadline
  <2>4. list[0].complete < list[order[0]].complete /\ list[0].complete \in Nat
        /\ list[order[0]].complete \in Nat
    BY <1>2, <2>2
  <2>. QED  BY <1>4, <2>2, <2>3, <2>4
<1>. QED
  BY <1>3, <1>4, <1>5 DEF Rearranges

\* The first sort keeps the first item where it is; the later ones sort behind the
\* item the run loop stands at.
LEMMA EndOnlineSchedulerPaced ==
  ASSUME SlowerThanOnline, IInv, OnceInv, TasksGrow, Tasks' = Tasks, PaceInv, TasksPaced',
         EndOnlineScheduler
  PROVE  PaceInv' /\ \A k \in 0 .. item_upto : StayAt(k)
<1> DEFINE s == list[item_upto].start
<1>1. /\ pc = "next_task" /\ pc' = "end" /\ ~Booting /\ ~Booting' /\ converting > Len(task_list)
      /\ UNCHANGED <<items, item_upto>> /\ SortSchedule(list, index_sorted_upto)
      /\ index_sorted_upto' = items
  BY DEF EndOnlineScheduler, IInv, BootInv, Booting, Terminal, SortSchedule
<1>2. /\ item_upto \in 0 .. items - 1 /\ s \in Nat /\ list[item_upto].task = 1
      /\ \A t \in Tasks : t < converting => Beyond(t, s + 2*UpdatePeriod)
      /\ items \in Nat /\ index_sorted_upto \in Nat /\ 0 .. items - 1 \subseteq Slots
      /\ Len(task_list) \in Nat /\ converting \in Nat
      /\ s + 2*UpdatePeriod \in Nat
  <2>1. /\ items \in Nat /\ index_sorted_upto \in Nat /\ 0 .. items - 1 \subseteq Slots
        /\ Len(task_list) \in Nat /\ converting \in Nat
    BY PaceTypes DEF Slots, IInv, TypeOK, Counters
  <2>2. /\ item_upto \in 0 .. items - 1 /\ s \in Nat /\ list[item_upto].task = 1
        /\ \A t \in Tasks : t < converting => Beyond(t, s + 2*UpdatePeriod)
    BY <1>1, InBody DEF OnlineBody
  <2>. QED  BY <2>1, <2>2, Requested
<1>3. \A t \in Tasks : Uptos'[t] > s + 2*UpdatePeriod
  <2>1. \A t \in Tasks : t < converting
    BY <1>1, <1>2 DEF Tasks
  <2>. QED  BY <1>2, <2>1, BeyondGrows
<1>4. \A k \in 0 .. item_upto : StayAt(k)
  <2>1. CASE index_sorted_upto > item_upto
    <3>1. \A k \in Slots :
            (k \in Int /\ index_sorted_upto \in Int /\ k < index_sorted_upto) => list'[k] = list[k]
      BY <1>1, SortKeepsBefore
    <3>. QED  BY <1>2, <2>1, <3>1 DEF StayAt
  <2>2. CASE index_sorted_upto = 0
    <3>1. item_upto = 0
      BY <2>2 DEF PaceInv, SortPaced, FirstUpdate
    <3>2. Same(list'[0], list[0])
      BY <1>1, <1>2, <2>2, FirstSortKeepsFirst
    <3>. QED  BY <3>1, <3>2 DEF Same, StayAt
  <2>. QED  BY <1>1, <2>1, <2>2 DEF PaceInv, SortPaced, OnlineBody
<1>5. list'[item_upto].task = 1 /\ list'[item_upto].start = s
  BY <1>2, <1>4 DEF StayAt
<1>6. Updated'
  BY <1>1, <1>3, <1>5 DEF Updated, AllBeyond, Beyond, UpdatePeriod
<1>7. UpdatePaced'
  BY <1>1, <1>6 DEF UpdatePaced, Standing, OnlineBody
<1>8. FirstUpdate'
  BY <1>1, <1>2 DEF FirstUpdate
<1>. QED
  BY <1>1, <1>4, <1>7, <1>8, PacedAfter DEF Standing, OnlineBody

-----------------------------------------------------------------------------
(***************************************************************************)
(* The boot: one task after the other is evaluated beyond the first update *)
(***************************************************************************)
LEMMA BootRequestPaced ==
  ASSUME SlowerThanOnline, NoRequestWaits, IInv, TasksGrow, PaceInv, TasksPaced', BootRequest
  PROVE  PaceInv' /\ Booting
<1> DEFINE new == Len(task_list) + 1
           r == BootRequests[request + 1]
<1>1. /\ pc = "boot" /\ Booting /\ UNCHANGED <<list, items, item_upto, index_sorted_upto, tick>>
      /\ index_sorted_upto = 0
  BY BootRequestStores DEF schedule_vars, IInv, BootInv, PaceInv, SortPaced
<1>2. ListStays
  BY <1>1 DEF ListStays, StayAt
<1>3. items \in Nat /\ tick \in Nat
  BY PaceTypes
<1>4. /\ items > 0 => list[0].start <= tick /\ list[0].start \in Nat
      /\ items = 0 => Tasks = {}
      /\ \A t \in Tasks : items > 0 /\ Beyond(t, list[0].start + UpdatePeriod)
  <2>1. items > 0 => list[0].start \in Nat
    BY <1>3, ItemsAreTyped DEF ItemsTyped, IInv
  <2>. QED  BY <1>1, <2>1 DEF PaceInv, BootPaced, Terminal
<1>5. \A t \in Tasks : Uptos'[t] > list[0].start + UpdatePeriod
  BY <1>4, BeyondGrows, Requested
<1>6. CASE UNCHANGED <<task_list, caller, converting>> /\ pc' = "boot"
  <2>1. Booting' /\ Tasks' = Tasks
    BY <1>1, <1>6 DEF Booting, Tasks
  <2>2. FirstUpdate'
    BY <1>2, <2>1, FirstUpdateStays DEF PaceInv, SortPaced
  <2>3. BootPaced'
    BY <1>1, <1>4, <1>5, <1>6, <2>1 DEF BootPaced, Beyond, UpdatePeriod
  <2>. QED  BY <1>1, <2>1, <2>2, <2>3 DEF PaceInv, SortPaced, UpdatePaced
<1>7. CASE /\ caller' = "boot" /\ converting' = new /\ pc' \in {"convert", "corrupt"}
           /\ Tasks' = Tasks \cup {new} /\ new \notin Tasks /\ (new = 1 <=> request = 0)
           /\ task_list'[new].time_evaluated_upto = tick
  <2>1. Booting'
    BY <1>7 DEF Booting
  <2>2. Uptos'[new] = tick
    BY <1>7 DEF Uptos, EvaluatedUpto
  <2>3. FirstUpdate'
    BY <1>2, <1>4, <1>7, <2>2, FirstUpdateStays DEF PaceInv, SortPaced
  <2>4. ASSUME pc' = "convert"
        PROVE  BootPaced'
    <3>1. items' = 0 => Tasks' = {1}
      <4>1. Tasks = {} => new = 1
        BY PaceTypes DEF Tasks
      <4>. QED  BY <1>1, <1>4, <1>7, <4>1
    <3>. HIDE DEF new
    <3>2. Uptos'[converting'] = tick
      BY <1>7, <2>2
    <3>3. \A t \in Tasks' : t = converting' \/ (items > 0 /\ Uptos'[t] > list[0].start + UpdatePeriod)
      BY <1>4, <1>5, <1>7
    <3>. QED  BY <1>1, <1>3, <1>4, <2>4, <3>1, <3>2, <3>3 DEF BootPaced, Beyond, UpdatePeriod
  <2>5. pc' = "corrupt" => BootPaced'
    BY DEF BootPaced, Terminal
  <2>. QED  BY <1>1, <1>7, <2>1, <2>3, <2>4, <2>5 DEF PaceInv, SortPaced, UpdatePaced
<1>8. \/ UNCHANGED <<task_list, caller, converting>> /\ pc' = "boot"
      \/ /\ caller' = "boot" /\ converting' = new /\ pc' \in {"convert", "corrupt"}
         /\ Tasks' = Tasks \cup {new} /\ new \notin Tasks /\ (new = 1 <=> request = 0)
         /\ task_list'[new].time_evaluated_upto = tick
  BY BootRequestStores DEF PaceInv
<1>. QED
  BY <1>1, <1>6, <1>7, <1>8

\* The boot: requests are converted beyond the first update.
LEMMA BootConversionPaced ==
  ASSUME SlowerThanOnline, IInv, IInv', OnceInv, RoomLeft, RoomLeft', TasksGrow, Tasks' = Tasks,
         PaceInv, TasksPaced', Booting, BeginConversion \/ AddOccurrence \/ EndConversion
  PROVE  PaceInv'
<1> DEFINE n == converting
           first == IF items > 0 THEN list[0].start ELSE schedule_time
<1>1. /\ pc \in {"convert", "occurrences"} /\ caller = "boot" /\ caller' = "boot" /\ tick' = tick
      /\ item_upto = 0 /\ index_sorted_upto = 0
  BY DEF BeginConversion, AddOccurrence, EndConversion, AfterConversion, Booting, PaceInv,
         SortPaced, IInv, BootInv
<1>2. /\ Booting' /\ n \in Tasks /\ items \in Nat /\ tick \in Nat /\ schedule_time \in Nat
      /\ finish_time \in Nat
      /\ \A t \in Tasks : t # n => items > 0 /\ Beyond(t, list[0].start + UpdatePeriod)
      /\ items > 0 => /\ list[0].start <= tick /\ list[0].start \in Nat
                      /\ list[0].task = 1
                      /\ \A i \in 0 .. items - 1 : list[0].start <= list[i].start
                      /\ \A t \in Tasks : list[0].start <= Uptos[t]
      /\ items = 0 => Tasks = {1}
      /\ Uptos[n] \in Nat
  <2>1. Booting' /\ n \in Tasks /\ items \in Nat /\ tick \in Nat /\ schedule_time \in Nat
        /\ finish_time \in Nat
    BY <1>1, PaceTypes DEF Booting
  <2>2. items > 0 => list[0].start \in Nat
    BY <2>1, ItemsAreTyped DEF ItemsTyped, IInv
  <2>3. /\ \A t \in Tasks : t # n => items > 0 /\ Beyond(t, list[0].start + UpdatePeriod)
        /\ items > 0 => list[0].start <= tick
        /\ items = 0 => Tasks = {1}
    BY <1>1, <2>1 DEF PaceInv, BootPaced, Terminal
  <2>4. items > 0 => /\ list[0].task = 1
                     /\ \A i \in 0 .. items - 1 : list[0].start <= list[i].start
                     /\ \A t \in Tasks : list[0].start <= Uptos[t]
    BY <1>1 DEF PaceInv, SortPaced, FirstUpdate
  <2>5. Uptos[n] \in Nat
    BY <2>1, UptosTyped
  <2>. QED  BY <2>1, <2>2, <2>3, <2>4, <2>5
<1>3. \A t \in Tasks : t # n => Uptos'[t] > list[0].start + UpdatePeriod
  <2>. SUFFICES ASSUME NEW t \in Tasks, t # n
                PROVE  Uptos'[t] > list[0].start + UpdatePeriod
    OBVIOUS
  <2>1. list[0].start + UpdatePeriod \in Nat
    BY <1>2, Requested
  <2>. QED  BY <1>2, <2>1, BeyondGrows
<1>4. CASE BeginConversion
  <2>1. /\ pc = "convert" /\ ListStays
    BY <1>4 DEF BeginConversion, ListStays, StayAt, schedule_vars
  <2>2. Uptos[n] = task_list[n].time_evaluated_upto /\ Uptos[n] <= tick /\ task_list[n].complete = 0
    BY <1>1, <1>2, <2>1 DEF Uptos, EvaluatedUpto, PaceInv, BootPaced, TasksPaced, Terminal, Booting
  <2>3. /\ schedule_time' = Uptos[n] /\ finish_time' = Uptos[n] + UPDATE_SCHEDULE_RATE
        /\ pc' = "occurrences" /\ n' = n
    <3>1. ~(Uptos[n] > tick + EVENT_HORIZON)
      BY <1>2, <2>2, Requested DEF EVENT_HORIZON
    <3>. QED  BY <1>4, <2>2, <3>1 DEF BeginConversion
  <2>4. FirstUpdate'
    BY <2>1, FirstUpdateStays DEF PaceInv, SortPaced
  <2>5. BootPaced'
    <3>1. /\ items' = items /\ (items > 0 => list'[0].start = list[0].start)
      BY <1>2, <2>1 DEF ListStays, StayAt
    <3>2. finish_time' > (IF items > 0 THEN list[0].start ELSE schedule_time') + UpdatePeriod
      BY <1>2, <2>3, Requested
    <3>. QED
      BY <1>1, <1>2, <1>3, <2>2, <2>3, <3>1, <3>2 DEF BootPaced, Beyond, UpdatePeriod
  <2>. QED  BY <1>1, <1>2, <2>1, <2>4, <2>5 DEF PaceInv, SortPaced, UpdatePaced, ListStays
<1>5. CASE EndConversion
  <2>1. /\ pc = "occurrences" /\ ListStays /\ pc' = "boot" /\ schedule_time >= finish_time
    BY <1>1, <1>5 DEF EndConversion, AfterConversion, ListStays, StayAt, schedule_vars
  <2>2. finish_time > first + UpdatePeriod
    BY <1>2, <2>1 DEF PaceInv, BootPaced, Terminal
  <2>3. items > 0 /\ Uptos[n] = schedule_time
    BY <1>2, <2>1, <2>2, Requested DEF Uptos, EvaluatedUpto
  <2>4. Beyond(n, list[0].start + UpdatePeriod) /\ list[0].start + UpdatePeriod \in Nat
    BY <1>2, <2>1, <2>2, <2>3, Requested DEF Beyond
  <2>5. \A t \in Tasks : Uptos'[t] > list[0].start + UpdatePeriod
    BY <1>2, <1>3, <2>4, BeyondGrows
  <2>6. FirstUpdate'
    BY <2>1, FirstUpdateStays DEF PaceInv, SortPaced
  <2>7. BootPaced'
    <3>1. /\ items' = items /\ (items > 0 => list'[0].start = list[0].start)
      BY <1>2, <2>1 DEF ListStays, StayAt
    <3>. QED  BY <1>1, <1>2, <2>1, <2>3, <2>5, <3>1 DEF BootPaced, Beyond, UpdatePeriod
  <2>. QED  BY <1>1, <1>2, <2>1, <2>6, <2>7 DEF PaceInv, SortPaced, UpdatePaced, ListStays
<1>6. CASE AddOccurrence
  <2>1. /\ pc = "occurrences" /\ items' = items + 1 /\ item_upto' = 0 /\ index_sorted_upto' = 0
        /\ n' = n /\ finish_time' = finish_time
        /\ list' = [list EXCEPT ![items] = [task |-> n, start |-> schedule_time,
                      complete |-> schedule_time + task_list[n].period, done |-> FALSE]]
    BY <1>1, <1>6 DEF AddOccurrence, AddToScheduledItemList
  <2>2. pc' = "occurrences"
    BY <1>2, <1>6, <2>1, ConstantsAssumption DEF AddOccurrence, Stored, RoomLeft, InArray
  <2>3. /\ \A i \in 0 .. items - 1 : list'[i] = list[i]
        /\ list'[items].task = n /\ list'[items].start = schedule_time
    <3>1. list \in [Slots -> Item] /\ items \in Slots /\ 0 .. items - 1 \subseteq Slots
      BY <1>2, PaceTypes DEF IInv, TypeOK, ListOK, RoomLeft, Slots
    <3>. QED  BY <1>2, <2>1, <3>1
  <2>4. Uptos[n] = schedule_time /\ schedule_time <= Uptos'[n]
    BY <1>2, <2>1 DEF Uptos, EvaluatedUpto, TasksGrow
  <2>5. finish_time > first + UpdatePeriod /\ (items = 0 => schedule_time <= tick)
    BY <1>2, <2>1 DEF PaceInv, BootPaced, Terminal
  <2>6. /\ list'[0].start = first /\ list'[0].task = 1
        /\ first <= tick /\ first \in Nat
    BY <1>2, <2>3, <2>5
  <2>7. \A i \in 0 .. items : first <= list'[i].start
    <3>1. \A i \in 0 .. items : i \in 0 .. items - 1 \/ i = items
      BY <1>2
    <3>2. first <= schedule_time
      BY <1>2, <2>4
    <3>. QED  BY <1>2, <2>3, <3>1, <3>2
  <2>8. \A t \in Tasks : first <= Uptos'[t]
    BY <1>2, <2>4 DEF TasksGrow
  <2>9. \A t \in Tasks : t # n => items > 0 /\ Uptos'[t] > first + UpdatePeriod
    BY <1>2, <1>3
  <2>. HIDE DEF first
  <2>10. FirstUpdate'
    BY <1>2, <2>1, <2>6, <2>7, <2>8 DEF FirstUpdate
  <2>11. BootPaced'
    BY <1>1, <1>2, <2>1, <2>2, <2>5, <2>6, <2>9 DEF BootPaced, Beyond, UpdatePeriod
  <2>. QED  BY <1>1, <1>2, <2>1, <2>10, <2>11 DEF PaceInv, SortPaced, UpdatePaced
<1>. QED
  BY <1>4, <1>5, <1>6

LEMMA BootTickPaced ==
  ASSUME IInv, TasksGrow, Tasks' = Tasks, PaceInv, TasksPaced', Booting, Tick \/ UNCHANGED vars
  PROVE  PaceInv'
<1>1. /\ ListStays /\ caller' = caller /\ Booting' /\ tick' \in {tick, tick + 1}
      /\ UNCHANGED <<task_list, converting, schedule_time, finish_time>>
      /\ UNCHANGED <<list, items, item_upto, index_sorted_upto>>
  BY DEF Tick, vars, schedule_vars, convert_vars, StayAt, Booting, ListStays
<1>2. pc' = pc
  BY DEF Tick, TickAllowed, PreemptorDue, vars, IInv, BootInv, Terminal, Booting
<1>3. FirstUpdate'
  BY <1>1, FirstUpdateStays DEF PaceInv, SortPaced
<1>4. Uptos' = Uptos
  BY <1>1, <1>2 DEF Uptos, EvaluatedUpto, Tasks
<1>5. items > 0 => list[0].start \in Nat
  BY PaceTypes, ItemsAreTyped DEF ItemsTyped, IInv
<1>6. \A t \in Tasks : Uptos[t] \in Nat
  BY UptosTyped
<1>7. BootPaced'
  BY <1>1, <1>2, <1>4, <1>5, <1>6, PaceTypes, SMTT(30) DEF PaceInv, BootPaced, Beyond, UpdatePeriod
<1>. QED
  BY <1>1, <1>2, <1>3, <1>7 DEF PaceInv, SortPaced, UpdatePaced

-----------------------------------------------------------------------------
(***************************************************************************)
(* Every step.                                                             *)
(***************************************************************************)
LEMMA PaceStep ==
  ASSUME SlowerThanOnline, NoRequestWaits, IInv, IInv', OnceInv, RoomLeft, RoomLeft', PaceInv,
         [Next]_vars
  PROVE  PaceInv' /\ (PassedStay \/ UNCHANGED vars)
<1>1. TasksPaced' /\ ~AddOnTheFly
  BY TasksPacedStep DEF PaceInv
<1>2. TasksGrow
  BY TasksGrowStep DEF OnceInv
<1>3. CASE BootRequest
  BY <1>1, <1>2, <1>3, BootRequestPaced DEF PassedStay
<1>4. ~BootRequest => Tasks' = Tasks
  BY <1>1, TasksStay
<1>5. ListStays => PassedStay
  BY PaceTypes DEF ListStays, PassedStay
<1>6. CASE BufferTooSmall
  BY <1>6 DEF BufferTooSmall, RoomLeft, IInv, TypeOK, Counters
<1>7. CASE StartRunLoop
  <2>1. Booting /\ ~BootRequest
    BY <1>7, Requested DEF StartRunLoop, BootRequest, IInv, BootInv
  <2>. QED  BY <1>1, <1>2, <1>4, <1>7, <2>1, StartRunLoopPaced DEF PassedStay
<1>8. CASE Booting /\ ~BootRequest /\ (Tick \/ UNCHANGED vars)
  BY <1>1, <1>2, <1>4, <1>8, BootTickPaced DEF PassedStay
<1>9. CASE ~Booting /\ ~BootRequest
           /\ (NextItem \/ KeyPoll \/ InstallPreemptor \/ Tick \/ UNCHANGED vars)
  BY <1>1, <1>2, <1>4, <1>5, <1>9, WaitPaced
<1>10. CASE Booting /\ ~BootRequest /\ (BeginConversion \/ AddOccurrence \/ EndConversion)
  BY <1>1, <1>2, <1>4, <1>10, BootConversionPaced DEF PassedStay
<1>11. CASE ~Booting /\ ~BootRequest /\ (BeginConversion \/ AddOccurrence \/ EndConversion)
  <2>1. CASE AddOccurrence
    BY <1>1, <1>2, <1>4, <1>11, <2>1, AddOccurrencePaced DEF PassedStay
  <2>2. CASE BeginConversion \/ EndConversion
    BY <1>1, <1>2, <1>4, <1>5, <1>11, <2>2, BeginConversionPaced, EndConversionPaced
  <2>. QED  BY <1>11, <2>1, <2>2
<1>12. CASE ~BootRequest /\ (StartTask \/ EndTask \/ NextTask)
  BY <1>1, <1>2, <1>4, <1>5, <1>12, StartTaskPaced, EndTaskPaced, NextTaskPaced
<1>13. CASE ~BootRequest /\ (UninstallPreemptor \/ Purge \/ EndOnlineScheduler)
  <2>1. CASE UninstallPreemptor
    <3>1. item_upto' # item_upto
      BY <2>1, PaceTypes DEF UninstallPreemptor
    <3>. QED  BY <1>1, <1>2, <1>4, <1>13, <2>1, <3>1, UninstallPaced DEF PassedStay
  <2>2. CASE Purge
    BY <1>1, <1>2, <1>4, <1>5, <1>13, <2>2, PurgePaced DEF PassedStay
  <2>3. CASE EndOnlineScheduler
    BY <1>1, <1>2, <1>4, <1>13, <2>3, EndOnlineSchedulerPaced DEF PassedStay
  <2>. QED  BY <1>13, <2>1, <2>2, <2>3
<1>14. NextItem \/ KeyPoll \/ InstallPreemptor => ~Booting
  BY DEF NextItem, KeyPoll, InstallPreemptor, IInv, BootInv, Terminal
<1>. QED
  BY <1>1, <1>3, <1>6, <1>7, <1>8, <1>9, <1>10, <1>11, <1>12, <1>13, <1>14
  DEF Next, RunLoop, TaskBodies

\* There are no tasks when the program starts.
LEMMA InitPaced == SlowerThanOnline /\ Init => PaceInv
<1>. SUFFICES ASSUME SlowerThanOnline, Init PROVE PaceInv
  OBVIOUS
<1>1. /\ Tasks = {} /\ pc = "boot" /\ caller = "boot" /\ items = 0 /\ item_upto = 0
      /\ index_sorted_upto = 0 /\ request = 0 /\ Booting
  BY DEF Init, Tasks, Booting
<1>. QED
  BY <1>1 DEF PaceInv, TasksPaced, SortPaced, FirstUpdate, BootPaced, UpdatePaced

-----------------------------------------------------------------------------
(***************************************************************************)
(* The next update, with tasks of any pace.  What the requests and the     *)
(* tasks they store are.                                                   *)
(***************************************************************************)
RequestKnown(i) ==
  LET r == BootRequests[i] IN
  /\ r \in Request
  /\ i = 1 => /\ r.kind = "online_scheduler" /\ r.period = UpdatePeriod
              /\ r.bound <= r.period /\ r.start = 0 /\ r.complete = 0
  /\ i # 1 => r.kind # "online_scheduler"
  /\ r.period # 0 /\ r.complete = 0 => r.start = 0
  /\ r.kind = "adds" =>
       /\ r.period = 0 /\ r.complete < OnTheFly.start
       /\ OnTheFly.kind = "work"
       /\ OnTheFly.period = 0 \/ OnTheFly.complete # 0

\* The requests of OnlineFirst, one by one.
LEMMA FirstRequested ==
  ASSUME OnlineFirst
  PROVE  /\ UpdatePeriod \in Nat \ {0} /\ UPDATE_SCHEDULE_RATE \in Nat
         /\ UpdatePeriod < UPDATE_SCHEDULE_RATE
         /\ Len(BootRequests) \in Nat \ {0}
         /\ \A i \in 1 .. Len(BootRequests) : RequestKnown(i)
<1>1. BootRequests \in Seq(Request) /\ BootRequests # <<>> /\ UPDATE_SCHEDULE_RATE \in Nat \ {0}
  BY ConstantsAssumption DEF OnlineFirst
<1>2. Len(BootRequests) \in Nat \ {0} /\ \A i \in 1 .. Len(BootRequests) : BootRequests[i] \in Request
  BY <1>1
<1>3. UpdatePeriod \in Nat \ {0} /\ UpdatePeriod < UPDATE_SCHEDULE_RATE
  BY <1>1 DEF OnlineFirst, UpdatePeriod
<1>4. ASSUME NEW i \in 1 .. Len(BootRequests)
      PROVE  RequestKnown(i)
  <2>1. CASE i = 1
    BY <1>2, <1>3, <2>1 DEF OnlineFirst, UpdatePeriod, RequestKnown
  <2>2. CASE i # 1
    <3>1. i \in 2 .. Len(BootRequests)
      BY <1>2, <2>2
    <3>. QED  BY <1>2, <2>2, <3>1 DEF OnlineFirst, RequestKnown
  <2>. QED  BY <2>1, <2>2
<1>. QED
  BY <1>1, <1>2, <1>3, <1>4

\* The task that a request stores, behind the others.
Place == Len(task_list) + 1
Stores(r) ==
  /\ Tasks' = Tasks \cup {Place} /\ Place \notin Tasks /\ Place \in Nat \ {0}
  /\ Place = 1 <=> Tasks = {}
  /\ task_list'[Place].complete = r.complete /\ task_list'[Place].kind = r.kind
  /\ task_list'[Place].period = r.period
  /\ task_list'[Place].time_evaluated_upto = IF r.start = 0 THEN tick ELSE r.start

LEMMA RequestStores ==
  ASSUME IInv, NEW r, task_list' = Append(task_list, NewTask(r))
  PROVE  Stores(r)
<1> DEFINE v == NewTask(r)
<1>1. task_list \in Seq(Task) /\ Len(task_list) \in Nat
  BY DEF IInv, TypeOK, TasksOK
<1>2. /\ v.complete = r.complete /\ v.kind = r.kind /\ v.period = r.period
      /\ v.time_evaluated_upto = IF r.start = 0 THEN tick ELSE r.start
  BY DEF NewTask
<1>. HIDE DEF v
<1>3. Len(task_list') = Place /\ task_list'[Place] = v
  BY <1>1 DEF v, Place
<1>4. Tasks' = Tasks \cup {Place} /\ Place \notin Tasks /\ Place \in Nat \ {0}
  BY <1>1, <1>3 DEF Tasks, Place
<1>5. Place = 1 <=> Tasks = {}
  BY <1>1 DEF Tasks, Place
<1>. QED
  BY <1>2, <1>3, <1>4, <1>5 DEF Stores

\* The first request of main() is accepted; each is refused, or stores its task and,
\* if it has no period, at most one item behind the others.
Storing(r, next) ==
  /\ Stores(r)
  /\ \/ r.period # 0 /\ converting' = Place /\ pc' \in {"convert", "corrupt"}
        /\ UNCHANGED schedule_vars
     \/ r.period = 0 /\ pc' \in {next, "corrupt"} /\ UNCHANGED <<caller, converting>>
        /\ (UNCHANGED schedule_vars \/ AddToScheduledItemList(Place, r.start, r.complete))

LEMMA RequestMade ==
  ASSUME IInv, NEW r, NEW from, NEW next, RequestToAddTask(r, from, next)
  PROVE  \/ /\ UNCHANGED <<task_list, schedule_vars, caller, converting>> /\ pc' = next
            /\ Verdict(r) # "accepted"
         \/ Storing(r, next) /\ caller' = (IF r.period # 0 THEN from ELSE caller)
<1>1. CASE Refuse(r, next)
  BY <1>1 DEF Refuse, convert_vars
<1>2. CASE AddAperiodic(r, next)
  <2>1. /\ r.period = 0 /\ task_list' = Append(task_list, NewTask(r))
        /\ pc' \in {next, "corrupt"} /\ UNCHANGED <<caller, converting>>
        /\ UNCHANGED schedule_vars \/ AddToScheduledItemList(Place, r.start, r.complete)
    BY <1>2 DEF AddAperiodic, Stored, convert_vars, Place
  <2>. QED  BY <2>1, RequestStores, Zenon DEF Storing
<1>3. CASE AddPeriodic(r, from)
  <2>1. /\ r.period # 0 /\ task_list' = Append(task_list, NewTask(r))
        /\ pc' \in {"convert", "corrupt"} /\ caller' = from /\ converting' = Place
        /\ UNCHANGED schedule_vars
    BY <1>3 DEF AddPeriodic, Stored, Place
  <2>. QED  BY <2>1, RequestStores, Zenon DEF Storing
<1>. QED
  BY <1>1, <1>2, <1>3 DEF RequestToAddTask

LEMMA BootRequestMade ==
  ASSUME OnlineFirst, NoRequestWaits, IInv, TasksKnown, BootRequest
  PROVE  LET r == BootRequests[request + 1] IN
         /\ request' = request + 1 /\ request \in Nat /\ request + 1 \in 1 .. Len(BootRequests)
         /\ RequestKnown(request + 1) /\ pc = "boot" /\ tick' = tick
         /\ request = 0 <=> Tasks = {}
         /\ \/ /\ UNCHANGED <<task_list, schedule_vars, caller, converting>> /\ pc' = "boot"
               /\ request # 0
            \/ Storing(r, "boot") /\ caller' = (IF r.period # 0 THEN "boot" ELSE caller)
<1> DEFINE r == BootRequests[request + 1]
<1>1. /\ request' = request + 1 /\ request \in Nat /\ request + 1 \in 1 .. Len(BootRequests)
      /\ pc = "boot" /\ tick' = tick /\ RequestToAddTask(r, "boot", "boot")
      /\ task_list \in Seq(Task) /\ Len(task_list) \in Nat
  BY FirstRequested DEF BootRequest, IInv, TypeOK, ControlOK, TasksOK
<1>2. RequestKnown(request + 1) /\ (request = 0 <=> Tasks = {})
  BY <1>1, FirstRequested DEF TasksKnown
<1>3. request = 0 => Verdict(r) = "accepted"
  <2>. SUFFICES ASSUME request = 0 PROVE Verdict(r) = "accepted"
    OBVIOUS
  <2>1. /\ r.start = 0 /\ r.complete = 0 /\ r.bound <= r.period /\ r.bound \in Nat
        /\ r.period \in Nat /\ r.wait_for = 0
    BY <1>1, <1>2 DEF RequestKnown, Request, NoRequestWaits
  <2>2. Len(task_list) # MAX_TASKS
    <3>1. Len(task_list) > 0 => 1 \in Tasks
      BY <1>1 DEF Tasks
    <3>. QED  BY <1>1, <1>2, <3>1, ConstantsAssumption
  <2>. HIDE DEF r
  <2>. QED  BY <2>1, <2>2 DEF Verdict
<1>. HIDE DEF r
<1>4. \/ /\ UNCHANGED <<task_list, schedule_vars, caller, converting>> /\ pc' = "boot"
         /\ Verdict(r) # "accepted"
      \/ Storing(r, "boot") /\ caller' = (IF r.period # 0 THEN "boot" ELSE caller)
  BY <1>1, RequestMade
<1>5. \/ /\ UNCHANGED <<task_list, schedule_vars, caller, converting>> /\ pc' = "boot"
         /\ request # 0
      \/ Storing(r, "boot") /\ caller' = (IF r.period # 0 THEN "boot" ELSE caller)
  BY <1>3, <1>4
<1>. QED
  BY <1>1, <1>2, <1>5 DEF r

\* A task adds another while it runs: one with an end, or one that runs once.
LEMMA AddOnTheFlyMade ==
  ASSUME IInv, TasksKnown, RunAhead, AddOnTheFly
  PROVE  /\ OnTheFly \in Request /\ OnTheFly.kind = "work"
         /\ OnTheFly.period = 0 \/ OnTheFly.complete # 0
         /\ pc = "add" /\ UNCHANGED <<tick, current, request>> /\ ~Booting /\ ~Booting'
         /\ item_upto \in 0 .. items - 1 /\ list[item_upto].complete < OnTheFly.start
         /\ list[item_upto].complete \in Nat /\ list[item_upto].task \in Tasks
         /\ \/ UNCHANGED <<task_list, schedule_vars, caller, converting>> /\ pc' = "end"
            \/ Storing(OnTheFly, "end")
               /\ caller' = (IF OnTheFly.period # 0 THEN "adds" ELSE caller)
<1> DEFINE r == OnTheFly
<1>1. /\ pc = "add" /\ RequestToAddTask(r, "adds", "end") /\ UNCHANGED <<tick, current, request>>
      /\ r \in Request
  BY ConstantsAssumption DEF AddOnTheFly, run_vars
<1>2. ~Booting
  BY <1>1 DEF IInv, BootInv, Terminal
<1>3. /\ item_upto \in 0 .. items - 1 /\ list[item_upto].task \in Tasks
  BY <1>1, <1>2, AtItem DEF InTask
<1>4. list[item_upto].complete \in Nat
  BY <1>3, Typed, ConstantsAssumption DEF IInv, TypeOK, Item, Counters, Slots
<1>5. /\ list[item_upto].complete < OnTheFly.start
      /\ r.kind = "work" /\ (r.period = 0 \/ r.complete # 0)
  BY <1>1, <1>2, <1>3 DEF RunAhead, AdderRuns, AdderAhead, TasksKnown
<1>. HIDE DEF r
<1>6. \/ UNCHANGED <<task_list, schedule_vars, caller, converting>> /\ pc' = "end"
      \/ Storing(r, "end") /\ caller' = (IF r.period # 0 THEN "adds" ELSE caller)
  BY <1>1, RequestMade
<1>7. ~Booting'
  BY <1>2, <1>6 DEF Booting
<1>. QED
  BY <1>1, <1>2, <1>3, <1>4, <1>5, <1>6, <1>7 DEF r

\* Every step keeps TasksKnown, and only a boot request adds an endless task.
EndlessSame == Endless' = Endless

LEMMA StoredKnown ==
  ASSUME IInv, TasksKnown, [Next]_vars, NEW r \in Request, Stores(r), request' > 0,
         Place = 1 <=> r.kind = "online_scheduler",
         r.kind = "online_scheduler" => r.period = UpdatePeriod /\ r.complete = 0,
         r.kind = "adds" => /\ r.period = 0 /\ OnTheFly.kind = "work"
                            /\ OnTheFly.period = 0 \/ OnTheFly.complete # 0
  PROVE  /\ TasksKnown'
         /\ r.period = 0 \/ r.complete # 0 => EndlessSame
         /\ \A t \in Endless' : t \in Endless \/ t = Place
<1>1. \A t \in Tasks : FixedSame(t)
  BY FixedKept
<1>2. ASSUME NEW t \in Tasks'
      PROVE  /\ t = 1 <=> task_list'[t].kind = "online_scheduler"
             /\ t = 1 => task_list'[t].period = UpdatePeriod /\ task_list'[t].complete = 0
             /\ task_list'[t].kind = "adds" =>
                  /\ task_list'[t].period = 0
                  /\ OnTheFly.kind = "work"
                  /\ OnTheFly.period = 0 \/ OnTheFly.complete # 0
  <2>1. CASE t = Place
    BY <2>1 DEF Stores
  <2>2. CASE t \in Tasks
    BY <1>1, <2>2 DEF TasksKnown, FixedSame
  <2>. QED  BY <2>1, <2>2 DEF Stores
<1>3. TasksKnown'
  <2>1. Tasks' # {}
    BY DEF Stores
  <2>. QED  BY <1>2, <2>1 DEF TasksKnown, UpdatePeriod
<1>4. \A t \in Tasks : t \in Endless' <=> t \in Endless
  BY <1>1 DEF Endless, FixedSame, Stores
<1>5. Endless \subseteq Tasks /\ Endless' \subseteq Tasks \cup {Place} /\ Place \notin Tasks
  BY DEF Endless, Stores
<1>6. r.period = 0 \/ r.complete # 0 => Place \notin Endless'
  BY DEF Endless, Stores
<1>. QED
  BY <1>3, <1>4, <1>5, <1>6 DEF EndlessSame

LEMMA TasksKnownStep ==
  ASSUME OnlineFirst, NoRequestWaits, IInv, TasksKnown, RunAhead, [Next]_vars
  PROVE  TasksKnown' /\ (~BootRequest => EndlessSame)
<1>1. CASE BootRequest
  <2> DEFINE r == BootRequests[request + 1]
  <2>1. /\ request' = request + 1 /\ request \in Nat /\ RequestKnown(request + 1)
        /\ request = 0 <=> Tasks = {}
        /\ (UNCHANGED task_list /\ request # 0) \/ Stores(r)
    BY <1>1, BootRequestMade DEF Storing
  <2>2. /\ r \in Request /\ (request = 0 <=> r.kind = "online_scheduler")
        /\ r.kind = "online_scheduler" => r.period = UpdatePeriod /\ r.complete = 0
        /\ r.kind = "adds" => /\ r.period = 0 /\ OnTheFly.kind = "work"
                              /\ OnTheFly.period = 0 \/ OnTheFly.complete # 0
    BY <2>1 DEF RequestKnown
  <2>3. request' > 0
    BY <2>1
  <2>. HIDE DEF r
  <2>4. CASE UNCHANGED task_list /\ request # 0
    BY <1>1, <2>1, <2>3, <2>4 DEF TasksKnown, UpdatePeriod, Tasks
  <2>5. CASE Stores(r)
    <3>1. Place = 1 <=> r.kind = "online_scheduler"
      BY <2>1, <2>2, <2>5 DEF Stores
    <3>. QED  BY <1>1, <2>2, <2>3, <2>5, <3>1, StoredKnown
  <2>. QED  BY <1>1, <2>1, <2>4, <2>5
<1>2. CASE AddOnTheFly
  <2>1. /\ OnTheFly \in Request /\ OnTheFly.kind = "work" /\ request' = request
        /\ OnTheFly.period = 0 \/ OnTheFly.complete # 0
        /\ UNCHANGED task_list \/ Stores(OnTheFly)
        /\ Tasks # {}
    BY <1>2, AddOnTheFlyMade DEF Storing
  <2>2. request > 0
    BY <2>1 DEF TasksKnown
  <2>3. CASE UNCHANGED task_list
    BY <2>1, <2>3 DEF TasksKnown, UpdatePeriod, Tasks, Endless, EndlessSame
  <2>4. CASE Stores(OnTheFly)
    <3>1. Place # 1
      BY <2>1, <2>4 DEF Stores
    <3>. QED  BY <2>1, <2>2, <2>4, <3>1, StoredKnown
  <2>. QED  BY <2>1, <2>3, <2>4
<1>3. CASE ~BootRequest /\ ~AddOnTheFly
  <2>1. Tasks' = Tasks /\ \A t \in Tasks : FixedSame(t)
    BY <1>3, TasksStay, FixedKept
  <2>2. request' = request
    <3>1. Tick \/ UNCHANGED vars => request' = request
      BY DEF Tick, vars, request_vars
    <3>2. RunLoop => request' = request
      BY <1>3 DEF RunLoop, StartRunLoop, NextItem, KeyPoll, WaitOrArm, InstallPreemptor, StartTask,
         EndTask, UninstallPreemptor, request_vars
    <3>3. TaskBodies => request' = request
      BY <1>3 DEF TaskBodies, BeginConversion, AddOccurrence,
       BufferTooSmall, EndConversion, Purge, NextTask, EndOnlineScheduler, request_vars
    <3>. QED  BY <3>1, <3>2, <3>3 DEF Next
  <2>3. TasksKnown'
    BY <2>1, <2>2 DEF TasksKnown, UpdatePeriod, FixedSame
  <2>4. EndlessSame
    BY <2>1 DEF Endless, FixedSame, EndlessSame
  <2>. QED  BY <2>3, <2>4
<1>. QED
  BY <1>1, <1>2, <1>3

\* The items after a step: those there were, and one that a conversion or a request adds.
Old(x) == \E i \in 0 .. items - 1 : Same(x, list[i])
New(x) ==
  \/ pc = "occurrences" /\ x.task = converting
  \/ /\ BootRequest /\ x.task = Place /\ Stores(BootRequests[request + 1])
     /\ x.complete = BootRequests[request + 1].complete
  \/ /\ AddOnTheFly /\ x.task = Place /\ Stores(OnTheFly)

LEMMA RearrangedOld ==
  ASSUME items \in Nat, NEW order, Rearranges(order, list, list', items)
  PROVE  \A j \in 0 .. items - 1 : Old(list'[j])
BY DEF Rearranges, IsRearrangement, Old

LEMMA AddedItems ==
  ASSUME IInv, NEW task, NEW start \in Nat, NEW complete \in Nat,
         AddToScheduledItemList(task, start, complete)
  PROVE  \A j \in 0 .. items' - 1 :
           Old(list'[j]) \/ (list'[j].task = task /\ list'[j].complete = complete)
<1>1. PICK order : /\ items' = items + 1 /\ Rearranges(order, list, list', items)
                   /\ Same(list'[items], [task |-> task, start |-> start, complete |-> complete])
  BY AddRearranges
<1>2. items \in Nat
  BY PaceTypes
<1>3. \A j \in 0 .. items - 1 : Old(list'[j])
  BY <1>1, <1>2, RearrangedOld
<1>4. \A j \in 0 .. items' - 1 : j \in 0 .. items - 1 \/ j = items
  BY <1>1, <1>2
<1>. QED
  BY <1>1, <1>3, <1>4 DEF Same

LEMMA ItemsCome ==
  ASSUME OnlineFirst, NoRequestWaits, IInv, TasksKnown, RunAhead, RoomLeft, [Next]_vars
  PROVE  \A j \in 0 .. items' - 1 : Old(list'[j]) \/ New(list'[j])
<1>1. items \in Nat /\ item_upto \in 0 .. items /\ items <= MAX_SCHEDULED_ITEMS
      /\ MAX_SCHEDULED_ITEMS \in Nat /\ list \in [Slots -> Item] /\ 0 .. items - 1 \subseteq Slots
  BY ConstantsAssumption DEF IInv, TypeOK, ListOK, Counters, Slots
<1>2. ASSUME items' = items, \A i \in 0 .. items - 1 : Same(list'[i], list[i])
      PROVE  \A j \in 0 .. items' - 1 : Old(list'[j]) \/ New(list'[j])
  BY <1>2 DEF Old
<1>3. CASE UNCHANGED <<list, items>>
  BY <1>2, <1>3 DEF Same
<1>4. CASE EndTask
  <2>1. items' = items /\ list' = [list EXCEPT ![item].done = TRUE]
    BY <1>4 DEF EndTask
  <2>2. \A i \in 0 .. items - 1 : Same(list'[i], list[i])
    BY <1>1, <2>1 DEF Same, Item
  <2>. QED  BY <1>2, <2>1, <2>2
<1>5. CASE AddOccurrence
  <2> DEFINE next == schedule_time + task_list[converting].period
  <2>1. /\ pc = "occurrences" /\ AddToScheduledItemList(converting, schedule_time, next)
    BY <1>5 DEF AddOccurrence
  <2>2. schedule_time \in Nat /\ next \in Nat
    <3>1. schedule_time \in Nat /\ task_list[converting] \in Task
      BY <2>1, PaceTypes, Typed DEF IInv
    <3>. QED  BY <3>1 DEF Task
  <2>. HIDE DEF next
  <2>. QED  BY <2>1, <2>2, AddedItems DEF New
<1>6. CASE Purge
  <2>1. CASE UNCHANGED schedule_vars
    BY <1>3, <2>1 DEF schedule_vars
  <2>2. CASE ~UNCHANGED schedule_vars
    <3>1. /\ items' = items - item_upto
          /\ \A k \in 0 .. items - item_upto - 1 : list'[k] = list[k + item_upto]
      BY <1>1, <1>6, <2>2 DEF Purge, MovedToFront, Slots
    <3>2. \A k \in 0 .. items' - 1 : k + item_upto \in 0 .. items - 1
      BY <1>1, <3>1
    <3>. QED  BY <3>1, <3>2 DEF Old, Same
  <2>. QED  BY <2>1, <2>2
<1>7. CASE EndOnlineScheduler
  <2>1. /\ SortSchedule(list, index_sorted_upto) /\ items' = items
    BY <1>7 DEF EndOnlineScheduler
  <2>2. Counters /\ index_sorted_upto \in Nat
    BY DEF IInv, TypeOK, Counters
  <2>3. PICK order : Rearranges(order, list, list', items)
    BY <1>1, <2>1, <2>2, SortRearrangesList
  <2>. QED  BY <1>1, <2>1, <2>3, RearrangedOld
<1>8. CASE BootRequest
  <2> DEFINE r == BootRequests[request + 1]
  <2>1. /\ r.start \in Nat /\ r.complete \in Nat
        /\ \/ UNCHANGED schedule_vars
           \/ Stores(r) /\ AddToScheduledItemList(Place, r.start, r.complete)
    BY <1>8, BootRequestMade DEF Storing, RequestKnown, Request
  <2>. QED  BY <1>3, <1>8, <2>1, AddedItems DEF New, schedule_vars
<1>9. CASE AddOnTheFly
  <2> DEFINE r == OnTheFly
  <2>1. /\ r.start \in Nat /\ r.complete \in Nat
        /\ \/ UNCHANGED schedule_vars
           \/ Stores(r) /\ AddToScheduledItemList(Place, r.start, r.complete)
    BY <1>9, AddOnTheFlyMade DEF Storing, Request
  <2>. QED  BY <1>3, <1>9, <2>1, AddedItems DEF New, schedule_vars
<1>10. UNCHANGED <<list, items>> \/ BootRequest \/ EndTask \/ AddOnTheFly \/ AddOccurrence
       \/ Purge \/ EndOnlineScheduler
  BY DEF Next, RunLoop, TaskBodies, Tick, vars, schedule_vars, StartRunLoop, NextItem, KeyPoll,
     InstallPreemptor, StartTask, UninstallPreemptor, BeginConversion, BufferTooSmall,
     EndConversion, NextTask
<1>. QED
  BY <1>3, <1>4, <1>5, <1>6, <1>7, <1>8, <1>9, <1>10

\* A task that adds another is not periodic: no conversion stores an item of it.
LEMMA AddersEndStep ==
  ASSUME OnlineFirst, NoRequestWaits, IInv, TwiceInv, TasksKnown, AddersEnd, RunAhead, RoomLeft,
         [Next]_vars
  PROVE  AddersEnd'
<1>. SUFFICES ASSUME NEW j \in 0 .. items' - 1, task_list'[list'[j].task].kind = "adds"
              PROVE  list'[j].complete < OnTheFly.start
  BY DEF AddersEnd
<1>1. \A t \in Tasks : FixedSame(t)
  BY FixedKept
<1>2. CASE Old(list'[j])
  <2>1. PICK i \in 0 .. items - 1 : Same(list'[j], list[i])
    BY <1>2 DEF Old
  <2>2. list[i].task \in Tasks
    BY ItemsAreTyped DEF ItemsTyped, IInv
  <2>. QED  BY <1>1, <2>1, <2>2 DEF AddersEnd, Same, FixedSame
<1>3. CASE pc = "occurrences" /\ list'[j].task = converting
  <2>1. converting \in Tasks /\ task_list[converting].period # 0
    BY <1>3, PaceTypes DEF TwiceInv, ConvertsPeriodic
  <2>. QED  BY <1>1, <1>3, <2>1 DEF TasksKnown, FixedSame
<1>4. CASE /\ BootRequest /\ list'[j].task = Place /\ Stores(BootRequests[request + 1])
           /\ list'[j].complete = BootRequests[request + 1].complete
  BY <1>4, BootRequestMade DEF Stores, RequestKnown
<1>5. CASE AddOnTheFly /\ list'[j].task = Place /\ Stores(OnTheFly)
  BY <1>5, AddOnTheFlyMade DEF Stores
<1>. QED
  BY <1>2, <1>3, <1>4, <1>5, ItemsCome DEF New

-----------------------------------------------------------------------------
(***************************************************************************)
(* Updates stay ahead.                                                     *)
(***************************************************************************)

\* Where the items from a place on, or those that are sorted, are after a step.
FindIn(x, from, to) == \E k \in from .. to - 1 : list'[k].task = x.task /\ list'[k].start = x.start
SortedStay(place, after) == \A i \in place .. Sorted - 1 : FindIn(list[i], after, Sorted')
UpdateAfter(place) ==
  \E k \in place .. Sorted' - 1 : list'[k].task = 1 /\ \A t \in Endless' : Uptos'[t] > list'[k].start

\* How far the endless tasks have been evaluated stays true.
LEMMA ReachedGrows ==
  ASSUME TasksGrow, EndlessSame, NEW time \in Nat
  PROVE  /\ \A t \in Endless : Uptos[t] > time => Uptos'[t] > time
         /\ Reached(time) => \A t \in Endless' : Uptos'[t] > time
<1>1. \A t \in Endless : Uptos[t] \in Nat /\ Uptos'[t] \in Nat /\ Uptos[t] <= Uptos'[t]
  BY DEF TasksGrow, Endless
<1>2. \A t \in Endless : Uptos[t] > time => Uptos'[t] > time
  BY <1>1
<1>. QED
  BY <1>2 DEF EndlessSame, Reached

LEMMA SortedTypes ==
  ASSUME IInv
  PROVE  /\ Sorted \in 0 .. items /\ items \in Nat /\ item_upto \in 0 .. items
         /\ index_sorted_upto \in 0 .. items
         /\ \A i \in 0 .. items - 1 : /\ i \in Slots /\ list[i] \in Item /\ list[i].start \in Nat
                                      /\ list[i].complete \in Nat /\ list[i].task \in Tasks
<1>1. items \in Nat /\ item_upto \in 0 .. items /\ index_sorted_upto \in 0 .. items
  BY PaceTypes
<1>2. \A i \in 0 .. items - 1 : i \in Slots /\ list[i] \in Item /\ list[i].task \in Tasks
  BY <1>1, ItemsAreTyped, Typed, ConstantsAssumption
  DEF ItemsTyped, Slots, IInv, TypeOK, Counters
<1>. QED
  BY <1>1, <1>2 DEF Sorted, Item

LEMMA UpdateStays ==
  ASSUME IInv, TasksGrow, EndlessSame, NEW place \in Nat, NEW after,
         UpdateFrom(place), SortedStay(place, after)
  PROVE  UpdateAfter(after)
<1>1. PICK i \in place .. Sorted - 1 : list[i].task = 1 /\ Reached(list[i].start)
  BY DEF UpdateFrom
<1>2. list[i].start \in Nat
  BY SortedTypes
<1>3. PICK k \in after .. Sorted' - 1 : list'[k].task = 1 /\ list'[k].start = list[i].start
  BY <1>1 DEF SortedStay, FindIn
<1>. QED
  BY <1>1, <1>2, <1>3, ReachedGrows DEF UpdateAfter

\* The steps that leave the list as it is, but for a mark.
ListSame == /\ UNCHANGED <<items, item_upto, index_sorted_upto>>
            /\ \A i \in 0 .. items - 1 : Same(list'[i], list[i])

LEMMA SameStays ==
  ASSUME IInv, ListSame
  PROVE  /\ Sorted' = Sorted
         /\ \A place \in Nat : SortedStay(place, place)
         /\ \A i \in 0 .. items - 1 : /\ list'[i].task = list[i].task
                                      /\ list'[i].start = list[i].start
                                      /\ list'[i].complete = list[i].complete
<1>1. Sorted' = Sorted
  BY DEF Sorted, ListSame
<1>2. \A i \in 0 .. items - 1 : /\ list'[i].task = list[i].task
                                /\ list'[i].start = list[i].start
                                /\ list'[i].complete = list[i].complete
  BY DEF ListSame, Same
<1>3. ASSUME NEW place \in Nat, NEW i \in place .. Sorted - 1
      PROVE  FindIn(list[i], place, Sorted')
  <2>1. i \in 0 .. items - 1
    BY SortedTypes
  <2>. QED  BY <1>1, <1>2, <2>1 DEF FindIn
<1>. QED
  BY <1>1, <1>2, <1>3 DEF SortedStay

\* A sort that starts at or behind a place leaves the items from there on at or
\* behind it, as none of them is there twice.
LEMMA SortStays ==
  ASSUME IInv, TwiceInv, NEW l, NEW I, l \in [Slots -> I], NEW lo \in Nat, SortSchedule(l, lo),
         \A k \in 0 .. items - 1 : l[k] = list[k], NEW place \in 0 .. lo,
         NEW i \in place .. items - 1
  PROVE  FindIn(list[i], place, items)
<1>1. items \in Nat /\ Counters /\ place \in Nat /\ i \in 0 .. items - 1 /\ 0 .. items - 1 \subseteq Slots
      /\ lo \in Int
  BY SortedTypes DEF IInv, TypeOK
<1>2. PICK order : Rearranges(order, l, list', items)
  BY <1>1, SortRearrangesList
<1>3. PICK k \in 0 .. items - 1 : order[k] = i
  BY <1>1, <1>2, RearrangementOnto DEF Rearranges
<1>4. list'[k].task = list[i].task /\ list'[k].start = list[i].start
  BY <1>1, <1>2, <1>3 DEF Rearranges, Same
<1>5. k >= place
  <2>1. SUFFICES ASSUME k < place PROVE FALSE
    BY <1>1
  <2>2. list'[k] = l[k]
    <3>1. k < lo /\ k \in Int
      BY <1>1, <2>1
    <3>. QED  BY <1>1, <3>1, SortKeepsBefore
  <2>3. k = i
    BY <1>1, <1>4, <2>2 DEF TwiceInv, Once
  <2>. QED  BY <1>1, <2>1, <2>3
<1>. QED
  BY <1>1, <1>4, <1>5 DEF FindIn

\* What an addition does to the items that are yet to come: it sorts from item_upto
\* on at the earliest, and behind it if the item there ends before the new one starts.
LEMMA AddStays ==
  ASSUME IInv, TwiceInv, RoomLeft, NEW task, NEW start \in Nat, NEW complete \in Nat,
         AddToScheduledItemList(task, start, complete)
  PROVE  /\ items' = items + 1 /\ item_upto' = item_upto
         /\ index_sorted_upto = 0 <=> index_sorted_upto' = 0
         /\ index_sorted_upto' \in {index_sorted_upto, items}
         /\ SortedStay(item_upto, item_upto)
         /\ \A i \in item_upto .. items - 1 : FindIn(list[i], item_upto, items')
         /\ index_sorted_upto = 0 =>
              /\ \A i \in 0 .. items - 1 : Same(list'[i], list[i])
              /\ list'[items].task = task /\ list'[items].start = start
         /\ item_upto < index_sorted_upto /\ list[item_upto].complete < start =>
              SortedStay(item_upto + 1, item_upto + 1) /\ Same(list'[item_upto], list[item_upto])
<1> DEFINE new == [task |-> task, start |-> start, complete |-> complete, done |-> FALSE]
           l == [list EXCEPT ![items] = new]
           lo == FirstOverlap(l, start)
           I == Item \cup {new}
<1>1. /\ items' = items + 1 /\ item_upto' = item_upto
      /\ \/ list' = l /\ index_sorted_upto' = index_sorted_upto
         \/ /\ items # 0 /\ index_sorted_upto # 0
            /\ SortSchedule(l, lo) /\ index_sorted_upto' = items
  BY Zenon DEF AddToScheduledItemList, SortSchedule
<1>2. /\ items \in Nat /\ item_upto \in 0 .. items /\ index_sorted_upto \in 0 .. items
      /\ Sorted \in 0 .. items /\ Counters /\ items < MAX_SCHEDULED_ITEMS
      /\ MAX_SCHEDULED_ITEMS \in Nat /\ 0 .. items - 1 \subseteq Slots /\ items \in Slots
  BY SortedTypes, ConstantsAssumption DEF RoomLeft, IInv, TypeOK, Slots
<1>3. list \in [Slots -> Item] /\ \A x \in Item : x.complete \in Nat
  BY DEF IInv, TypeOK, ListOK, Item
<1>4. /\ l \in [Slots -> I] /\ l[items] = new /\ \A i \in 0 .. items - 1 : l[i] = list[i]
      /\ new.task = task /\ new.start = start
  BY <1>2, <1>3
<1>5. \A i \in Slots : l[i].complete \in Nat
  BY <1>2, <1>3
<1>. HIDE DEF l, new, I
<1>6. ASSUME list' = l, index_sorted_upto' = index_sorted_upto
      PROVE  /\ SortedStay(item_upto, item_upto)
             /\ \A i \in item_upto .. items - 1 : FindIn(list[i], item_upto, items')
             /\ SortedStay(item_upto + 1, item_upto + 1)
             /\ \A i \in 0 .. items - 1 : Same(list'[i], list[i])
             /\ list'[items].task = task /\ list'[items].start = start
  <2>1. Sorted' \in Nat /\ Sorted <= Sorted'
    BY <1>1, <1>2, <1>6 DEF Sorted
  <2>2. \A i \in 0 .. items - 1 : list'[i] = list[i]
    BY <1>4, <1>6
  <2>3. ASSUME NEW place \in Nat PROVE SortedStay(place, place)
    <3>. SUFFICES ASSUME NEW i \in place .. Sorted - 1 PROVE FindIn(list[i], place, Sorted')
      BY DEF SortedStay
    <3>1. i \in Int /\ i >= place /\ i < Sorted /\ place \in Nat
      BY <1>2
    <3>2. Sorted \in Int /\ Sorted <= items /\ items \in Int
      BY <1>2
    <3>3. i < items /\ i >= 0
      BY <3>1, <3>2
    <3>4. \A n \in Nat : Sorted <= n => i \in place .. n - 1
      BY <3>1, <3>2
    <3>5. i \in place .. Sorted' - 1
      BY <2>1, <3>4, Zenon
    <3>. QED  BY <2>2, <3>1, <3>2, <3>3, <3>5 DEF FindIn
  <2>4. \A i \in item_upto .. items - 1 : FindIn(list[i], item_upto, items')
    <3>. SUFFICES ASSUME NEW i \in item_upto .. items - 1 PROVE FindIn(list[i], item_upto, items')
      OBVIOUS
    <3>1. i \in 0 .. items - 1 /\ i \in item_upto .. items' - 1
      BY <1>1, <1>2
    <3>. QED  BY <2>2, <3>1 DEF FindIn
  <2>. QED  BY <1>2, <1>4, <1>6, <2>2, <2>3, <2>4 DEF Same
<1>7. ASSUME items # 0, SortSchedule(l, lo), index_sorted_upto' = items, index_sorted_upto # 0
      PROVE  /\ SortedStay(item_upto, item_upto)
             /\ \A i \in item_upto .. items - 1 : FindIn(list[i], item_upto, items')
             /\ item_upto < index_sorted_upto /\ list[item_upto].complete < start =>
                  SortedStay(item_upto + 1, item_upto + 1)
                  /\ Same(list'[item_upto], list[item_upto])
  <2>1. /\ lo \in Nat /\ lo >= item_upto
        /\ item_upto < index_sorted_upto /\ l[item_upto].complete < start => lo > item_upto
    BY <1>2, <1>5, FirstOverlapFound
  <2>. HIDE DEF lo
  <2>2. Sorted' = items
    BY <1>7 DEF Sorted
  <2>3. ASSUME NEW place \in 0 .. lo
        PROVE  \A i \in place .. items - 1 : FindIn(list[i], place, items)
    BY <1>4, <1>7, <2>1, <2>3, SortStays
  <2>4. ASSUME NEW place \in 0 .. lo
        PROVE  SortedStay(place, place)
    <3>. SUFFICES ASSUME NEW i \in place .. Sorted - 1 PROVE FindIn(list[i], place, items)
      BY <2>2 DEF SortedStay
    <3>1. i \in place .. items - 1
      BY <1>2
    <3>. QED  BY <2>3, <3>1
  <2>5. \A i \in item_upto .. items - 1 : FindIn(list[i], item_upto, items')
    <3>. SUFFICES ASSUME NEW i \in item_upto .. items - 1 PROVE FindIn(list[i], item_upto, items')
      OBVIOUS
    <3>1. FindIn(list[i], item_upto, items)
      BY <1>2, <2>1, <2>3
    <3>. QED  BY <1>1, <1>2, <3>1 DEF FindIn
  <2>6. ASSUME item_upto < index_sorted_upto, list[item_upto].complete < start
        PROVE  SortedStay(item_upto + 1, item_upto + 1) /\ Same(list'[item_upto], list[item_upto])
    <3>1. item_upto \in 0 .. items - 1 /\ l[item_upto] = list[item_upto]
      BY <1>2, <1>4, <2>6
    <3>2. lo > item_upto
      BY <2>1, <2>6, <3>1
    <3>3. SortedStay(item_upto + 1, item_upto + 1)
      BY <1>2, <2>1, <2>4, <3>2
    <3>4. list'[item_upto] = l[item_upto]
      <4>1. item_upto \in Slots /\ item_upto \in Int /\ lo \in Int
        BY <1>2, <2>1, <3>1
      <4>. QED  BY <1>7, <3>2, <4>1, SortKeepsBefore
    <3>. QED  BY <3>1, <3>3, <3>4 DEF Same
  <2>7. SortedStay(item_upto, item_upto)
    BY <1>2, <2>1, <2>4
  <2>. QED  BY <2>5, <2>6, <2>7
<1>8. index_sorted_upto' \in {index_sorted_upto, items} /\ (index_sorted_upto = 0 <=> index_sorted_upto' = 0)
  BY <1>1
<1>9. CASE list' = l /\ index_sorted_upto' = index_sorted_upto
  <2>1. item_upto < index_sorted_upto => item_upto \in 0 .. items - 1
    BY <1>2
  <2>. QED  BY <1>1, <1>6, <1>8, <1>9, <2>1
<1>10. CASE /\ items # 0 /\ index_sorted_upto # 0
            /\ SortSchedule(l, lo) /\ index_sorted_upto' = items
  BY <1>1, <1>7, <1>8, <1>10
<1>. QED
  BY <1>1, <1>9, <1>10

\* What is left to show of a step after the boot.
LEMMA AheadAfter ==
  ASSUME TasksKnown', AddersEnd', ~Booting',
         index_sorted_upto' = 0 => item_upto' = 0 /\ (items' > 0 => list'[0].task = 1),
         pc' = "next_task" => caller' = "online",
         Standing' => UpdateAfter(item_upto'),
         pc' \in {"arm", "start"} => list'[item_upto'].start <= tick',
         UpdateRuns' => UpdateAhead', AdderRuns' => AdderAhead',
         AdderRuns' \/ pc' \in {"end", "disarm"} =>
           index_sorted_upto' # 0 /\ UpdateAfter(item_upto' + 1)
  PROVE  AheadInv'
<1>1. /\ Standing' => UpdateFrom(item_upto)'
      /\ AdderRuns' \/ pc' \in {"end", "disarm"} => UpdateFrom(item_upto + 1)'
  BY DEF UpdateFrom, UpdateAfter, Reached
<1>2. SortAhead' /\ BootAhead'
  BY DEF SortAhead, BootAhead
<1>3. RunAhead'
  BY <1>1 DEF RunAhead
<1>. QED
  BY <1>2, <1>3 DEF AheadInv

\* What is known of a step that adds no endless task.
Stepping ==
  /\ OnlineFirst /\ IInv /\ IInv' /\ OnceInv /\ AheadInv /\ RoomLeft /\ RoomLeft' /\ [Next]_vars
  /\ TasksGrow /\ EndlessSame /\ TasksKnown' /\ AddersEnd'

\* The item that runs as it was when it was started.
LEMMA CurrentTyped ==
  ASSUME Stepping
  PROVE  /\ current \in Item /\ current.start \in Nat /\ UpdatePeriod \in Nat \ {0}
         /\ current.start + UpdatePeriod \in Nat /\ tick \in Nat /\ tick' \in Nat
<1>1. current \in Item /\ tick \in Nat /\ tick' \in Nat
  BY DEF Stepping, IInv, TypeOK, ListOK, ClockOK
<1>2. current.start \in Nat
  BY <1>1 DEF Item
<1>3. UpdatePeriod \in Nat \ {0}
  BY FirstRequested DEF Stepping
<1>. QED
  BY <1>1, <1>2, <1>3

LEMMA UpdateAheadStays ==
  ASSUME Stepping, UpdateAhead, current' = current, tick' >= tick,
         item_upto' < Sorted',
         \E k \in item_upto' .. items' - 1 : list'[k].task = 1 /\ list'[k].start = current.start,
         pc' # "purge" => \A t \in Endless :
           t < converting' => Uptos'[t] > current.start + UpdatePeriod,
         pc' = "occurrences" /\ converting' \in Endless =>
           finish_time' > current.start + UpdatePeriod
  PROVE  UpdateAhead'
<1>1. current.start \in Nat /\ tick \in Nat /\ tick' \in Nat
  BY CurrentTyped
<1>2. \A t \in Endless' : Uptos'[t] > current.start
  BY <1>1, ReachedGrows DEF Stepping, UpdateAhead
<1>3. Endless' = Endless /\ current.start <= tick'
  BY <1>1 DEF Stepping, EndlessSame, UpdateAhead
<1>. QED
  BY <1>2, <1>3 DEF UpdateAhead, Reached, UpdatePeriod

LEMMA AdderAheadStays ==
  ASSUME Stepping, AdderAhead, item_upto' = item_upto, item_upto \in 0 .. items - 1,
         Same(list'[item_upto], list[item_upto]),
         pc' # "add" => /\ converting' \notin Endless
                        /\ list[item_upto].complete < Uptos'[converting']
  PROVE  AdderAhead'
<1>1. list[item_upto].task \in Tasks
  BY SortedTypes DEF Stepping
<1>2. task_list'[list[item_upto].task].kind = task_list[list[item_upto].task].kind
  BY <1>1, FixedKept DEF Stepping, FixedSame
<1>. QED
  BY <1>2 DEF AdderAhead, Same, Stepping, EndlessSame

\* The steps that wait, arm the preemptor or let time pass.
LEMMA WaitAhead ==
  ASSUME Stepping, ~Booting,
         NextItem \/ KeyPoll \/ InstallPreemptor \/ Tick \/ UNCHANGED vars
  PROVE  AheadInv'
<1>1. /\ UNCHANGED <<list, items, item_upto, index_sorted_upto, caller, converting, current,
                     finish_time>>
      /\ tick' \in {tick, tick + 1} /\ ~Booting' /\ tick \in Nat
  BY PaceTypes DEF NextItem, KeyPoll, InstallPreemptor, Tick, vars, schedule_vars, convert_vars, run_vars,
     Booting, Stepping
<1>2. \/ pc' = pc
      \/ pc' \in Terminal
      \/ pc \in {"loop", "wait", "key"} /\ pc' \in {"wait", "key"}
      \/ /\ pc \in {"loop", "key"} /\ pc' = "arm" /\ tick' = tick
         /\ item_upto < items /\ list[item_upto].start <= tick
      \/ pc = "arm" /\ pc' = "start"
  <2>1. CASE NextItem
    <3>1. item_upto < items => item_upto \in 0 .. items - 1 /\ list[item_upto].start \in Nat
      BY SortedTypes DEF Stepping
    <3>. QED  BY <2>1, <3>1, <1>1 DEF NextItem, WaitOrArm, Terminal
  <2>2. CASE KeyPoll
    <3>1. pc = "key" /\ pc' \in {WaitOrArm(item), "exited"} /\ tick' = tick
      BY <2>2 DEF KeyPoll
    <3>2. item_upto < items /\ list[item_upto].start \in Nat /\ item = item_upto
      BY <3>1, AtItem DEF HasItem, Stepping
    <3>. QED  BY <3>1, <3>2, <1>1 DEF WaitOrArm, Terminal
  <2>3. CASE InstallPreemptor \/ Tick \/ UNCHANGED vars
    BY <2>3 DEF InstallPreemptor, Tick, vars, Terminal
  <2>. QED  BY <2>1, <2>2, <2>3
<1>3. SortAhead /\ RunAhead /\ item_upto \in Nat /\ item_upto \in 0 .. items
  BY SortedTypes DEF Stepping, AheadInv
<1>4. \A place \in Nat : UpdateFrom(place) => UpdateAfter(place)
  <2>1. ListSame
    BY <1>1 DEF ListSame, Same
  <2>. QED  BY <2>1, SameStays, UpdateStays DEF Stepping
<1>5. Standing' => UpdateAfter(item_upto')
  <2>1. Standing' => Standing
    BY <1>1, <1>2 DEF Standing, Terminal
  <2>. QED  BY <1>1, <1>3, <1>4, <2>1 DEF RunAhead
<1>6. ASSUME pc' \in {"arm", "start"}
      PROVE  list'[item_upto'].start <= tick'
  <2>1. list[item_upto].start <= tick
    BY <1>2, <1>3, <1>6 DEF Terminal, RunAhead
  <2>2. item_upto \in 0 .. items - 1
    BY <1>2, <1>3, <1>6, AtItem, PaceTypes DEF Terminal, HasItem, Stepping
  <2>3. list[item_upto].start \in Nat
    BY <2>2, SortedTypes DEF Stepping
  <2>. QED  BY <1>1, <2>1, <2>3
<1>7. ASSUME UpdateRuns'
      PROVE  UpdateAhead'
  <2>1. UpdateRuns /\ pc' = pc
    BY <1>1, <1>2, <1>7 DEF UpdateRuns, Terminal
  <2>2. UpdateAhead
    BY <1>3, <2>1 DEF RunAhead
  <2>3. current.start + UpdatePeriod \in Nat
    BY CurrentTyped
  <2>4. \A t \in Endless : Uptos[t] > current.start + UpdatePeriod =>
                             Uptos'[t] > current.start + UpdatePeriod
    BY <2>3, ReachedGrows DEF Stepping
  <2>5. Endless' = Endless /\ Sorted' = Sorted
    BY <1>1 DEF Stepping, EndlessSame, Sorted
  <2>6. tick' >= tick
    BY <1>1
  <2>. QED  BY <1>1, <2>1, <2>2, <2>4, <2>5, <2>6, UpdateAheadStays DEF UpdateAhead
<1>8. ASSUME AdderRuns'
      PROVE  AdderAhead'
  <2>1. AdderRuns /\ pc' = pc
    BY <1>1, <1>2, <1>8 DEF AdderRuns, Terminal
  <2>2. AdderAhead /\ item_upto \in 0 .. items - 1
    BY <1>3, <2>1, AtItem DEF RunAhead, AdderRuns, InTask, Stepping
  <2>3. list[item_upto].complete \in Nat
    BY <2>2, SortedTypes DEF Stepping
  <2>4. pc # "add" => converting \in Tasks
    BY <2>1, PaceTypes DEF AdderRuns, Stepping
  <2>5. pc # "add" => list[item_upto].complete < Uptos'[converting]
    BY <2>2, <2>3, <2>4 DEF AdderAhead, Stepping, TasksGrow
  <2>. QED  BY <1>1, <2>1, <2>2, <2>5, AdderAheadStays DEF AdderAhead, Same
<1>9. ASSUME AdderRuns' \/ pc' \in {"end", "disarm"}
      PROVE  index_sorted_upto' # 0 /\ UpdateAfter(item_upto' + 1)
  <2>1. AdderRuns \/ pc \in {"end", "disarm"}
    BY <1>1, <1>2, <1>9 DEF AdderRuns, Terminal
  <2>. QED  BY <1>1, <1>3, <1>4, <2>1 DEF RunAhead
<1>10. /\ index_sorted_upto' = 0 => item_upto' = 0 /\ (items' > 0 => list'[0].task = 1)
       /\ pc' = "next_task" => caller' = "online"
  BY <1>1, <1>2, <1>3 DEF SortAhead, Terminal
<1>. QED
  BY <1>1, <1>5, <1>6, <1>7, <1>8, <1>9, <1>10, AheadAfter DEF Stepping

\* The body of a task starts: that of the online scheduler at an item of it, that of
\* another at an item behind which there is an update.
LEMMA StartTaskAhead ==
  ASSUME Stepping, StartTask
  PROVE  AheadInv'
<1> DEFINE t == list[item_upto].task
           s == list[item_upto].start
<1>1. /\ pc = "start" /\ ~Booting /\ caller' = caller /\ tick' = tick
      /\ UNCHANGED <<list, items, item_upto, index_sorted_upto, converting>>
  BY DEF StartTask, schedule_vars, convert_vars, Stepping, IInv, BootInv, Terminal
<1>2. /\ item_upto \in 0 .. items - 1 /\ s \in Nat /\ t \in Tasks
      /\ item = item_upto /\ Standing /\ ~Booting' /\ item_upto \in Nat
  BY <1>1, AtItem DEF HasItem, Standing, Booting, Stepping
<1>3. /\ t = 1 => pc' = "purge"
      /\ t # 1 => pc' = "end" \/ (pc' = "add" /\ task_list[t].kind = "adds")
      /\ current' = list[item_upto]
  BY <1>2 DEF StartTask, Stepping, AheadInv, TasksKnown
<1>4. PICK i \in item_upto .. Sorted - 1 : list[i].task = 1 /\ Reached(list[i].start)
  BY <1>1, <1>2 DEF Stepping, AheadInv, RunAhead, UpdateFrom
<1>5. /\ i \in 0 .. items - 1 /\ i \in Int /\ item_upto <= i /\ list[i].start \in Nat
      /\ Sorted \in Nat /\ item_upto < Sorted /\ i < Sorted
  BY <1>2, SortedTypes DEF Stepping
<1>6. SortAhead /\ s <= tick /\ AddersEnd /\ TasksKnown
  BY <1>1 DEF Stepping, AheadInv, RunAhead
<1>7. /\ index_sorted_upto' = 0 => item_upto' = 0 /\ (items' > 0 => list'[0].task = 1)
      /\ Sorted' = Sorted
  BY <1>1, <1>6 DEF SortAhead, Sorted
<1>8. CASE t = 1
  <2>1. s <= list[i].start
    <3>1. CASE i = item_upto
      BY <1>2, <3>1
    <3>2. CASE i # item_upto
      <4>1. item_upto < i
        BY <1>2, <1>5, <3>2
      <4>2. Periods[t] # 0
        BY <1>2, <1>6, <1>8, CurrentTyped DEF TasksKnown, Periods
      <4>3. s < list[i].start
        BY <1>2, <1>4, <1>5, <1>8, <4>1, <4>2 DEF Stepping, OnceInv, GapInv, Ordered
      <4>. QED  BY <1>2, <1>5, <4>3
    <3>. QED  BY <3>1, <3>2
  <2>2. \A u \in Endless' : Uptos'[u] > s
    <3>. SUFFICES ASSUME NEW u \in Endless PROVE Uptos'[u] > s
      BY DEF Stepping, EndlessSame
    <3>1. Uptos[u] \in Nat /\ Uptos'[u] \in Nat /\ Uptos[u] <= Uptos'[u]
      BY DEF Stepping, TasksGrow, Endless
    <3>2. Uptos[u] > list[i].start
      BY <1>4 DEF Reached
    <3>. QED  BY <1>2, <1>5, <2>1, <3>1, <3>2
  <2>3. pc' = "purge"
    BY <1>3, <1>8
  <2>4. UpdateAhead'
    BY <1>1, <1>2, <1>3, <1>5, <1>6, <1>7, <1>8, <2>2, <2>3 DEF UpdateAhead, Reached
  <2>. QED  BY <1>2, <1>7, <2>3, <2>4, AheadAfter DEF Stepping, Standing, AdderRuns
<1>9. CASE t # 1
  <2>1. i \in item_upto + 1 .. Sorted - 1
    BY <1>2, <1>4, <1>5, <1>9
  <2>2. UpdateAfter(item_upto' + 1)
    <3>1. UpdateFrom(item_upto + 1)
      BY <1>4, <2>1 DEF UpdateFrom
    <3>2. ListSame
      BY <1>1 DEF ListSame, Same
    <3>. QED  BY <1>1, <1>2, <3>1, <3>2, SameStays, UpdateStays DEF Stepping
  <2>3. index_sorted_upto # 0
    <3>1. items > 0
      BY <1>2, PaceTypes DEF Stepping
    <3>2. index_sorted_upto = 0 => item_upto = 0 /\ list[0].task = 1
      BY <1>6, <3>1 DEF SortAhead
    <3>. QED  BY <1>9, <3>2
  <2>4. pc' = "add" => AdderAhead'
    <3>. SUFFICES ASSUME pc' = "add" PROVE AdderAhead'
      OBVIOUS
    <3>1. task_list'[t].kind = "adds" /\ list[item_upto].complete < OnTheFly.start
      BY <1>2, <1>3, <1>6, <1>9, FixedKept DEF AddersEnd, FixedSame, Stepping
    <3>. QED  BY <1>1, <3>1 DEF AdderAhead
  <2>. QED  BY <1>1, <1>2, <1>3, <1>7, <1>9, <2>2, <2>3, <2>4, AheadAfter
            DEF Stepping, Standing, AdderRuns, UpdateRuns
<1>. QED
  BY <1>8, <1>9

\* The body has returned, and the run loop goes on to the next item.
LEMMA EndTaskAhead ==
  ASSUME Stepping, EndTask
  PROVE  AheadInv'
<1>1. /\ pc = "end" /\ pc' = "disarm" /\ ~Booting /\ ~Booting'
      /\ UNCHANGED <<items, item_upto, index_sorted_upto>>
      /\ list' = [list EXCEPT ![item].done = TRUE]
  BY DEF EndTask, Stepping, IInv, BootInv, Terminal, Booting, convert_vars
<1>2. list \in [Slots -> Item] /\ 0 .. items - 1 \subseteq Slots /\ items \in Nat /\ item_upto \in Nat
  BY ConstantsAssumption DEF Stepping, IInv, TypeOK, ListOK, Counters, Slots
<1>3. \A i \in 0 .. items - 1 : Same(list'[i], list[i])
  BY <1>1, <1>2 DEF Same, Item
<1>4. index_sorted_upto # 0 /\ UpdateFrom(item_upto + 1)
  BY <1>1 DEF Stepping, AheadInv, RunAhead
<1>5. UpdateAfter(item_upto' + 1)
  <2>1. ListSame
    BY <1>1, <1>3 DEF ListSame
  <2>. QED  BY <1>1, <1>2, <1>4, <2>1, SameStays, UpdateStays DEF Stepping
<1>. QED
  BY <1>1, <1>4, <1>5, AheadAfter DEF Stepping, Standing, AdderRuns, UpdateRuns

LEMMA UninstallAhead ==
  ASSUME Stepping, UninstallPreemptor
  PROVE  AheadInv'
<1>1. /\ pc = "disarm" /\ pc' = "loop" /\ ~Booting /\ ~Booting'
      /\ UNCHANGED <<list, items, index_sorted_upto>> /\ item_upto' = item_upto + 1
  BY DEF UninstallPreemptor, convert_vars, Stepping, IInv, BootInv, Terminal, Booting
<1>2. item_upto + 1 \in Nat
  BY PaceTypes DEF Stepping
<1>3. index_sorted_upto # 0 /\ UpdateFrom(item_upto + 1)
  BY <1>1 DEF Stepping, AheadInv, RunAhead
<1>4. SortedStay(item_upto + 1, item_upto + 1)
  BY <1>1 DEF SortedStay, FindIn, Sorted
<1>5. UpdateAfter(item_upto')
  BY <1>1, <1>2, <1>3, <1>4, UpdateStays DEF Stepping
<1>. QED
  BY <1>1, <1>3, <1>5, AheadAfter DEF Stepping, AdderRuns, UpdateRuns

\* What is left to show of a step in the body of the online scheduler.
LEMMA BodyAhead ==
  ASSUME Stepping, UpdateAhead, current' = current, tick' = tick, ~Booting',
         caller' = "online", pc' \in {"next_task", "convert", "occurrences"},
         item_upto' < Sorted',
         index_sorted_upto' = 0 => item_upto' = 0 /\ (items' > 0 => list'[0].task = 1),
         \E k \in item_upto' .. items' - 1 : list'[k].task = 1 /\ list'[k].start = current.start,
         \A t \in Endless : t < converting' => Uptos'[t] > current.start + UpdatePeriod,
         pc' = "occurrences" /\ converting' \in Endless =>
           finish_time' > current.start + UpdatePeriod
  PROVE  AheadInv'
<1>1. tick' >= tick
  BY CurrentTyped
<1>2. UpdateAhead'
  BY <1>1, UpdateAheadStays
<1>. QED
  BY <1>2, AheadAfter DEF Stepping, Standing, AdderRuns

\* The same, when the list stays as it is.
LEMMA BodyQuiet ==
  ASSUME Stepping, UpdateAhead, UNCHANGED <<schedule_vars, current, tick>>, ~Booting',
         caller' = "online", pc' \in {"next_task", "convert", "occurrences"},
         \A t \in Endless : t < converting' => Uptos'[t] > current.start + UpdatePeriod,
         pc' = "occurrences" /\ converting' \in Endless =>
           finish_time' > current.start + UpdatePeriod
  PROVE  AheadInv'
<1>1. UNCHANGED <<list, items, item_upto, index_sorted_upto>>
  BY DEF schedule_vars
<1>2. Sorted' = Sorted
  BY <1>1 DEF Sorted
<1>3. index_sorted_upto = 0 => item_upto = 0 /\ (items > 0 => list[0].task = 1)
  BY DEF Stepping, AheadInv, SortAhead
<1>. QED
  BY <1>1, <1>2, <1>3, BodyAhead DEF UpdateAhead

\* The purge keeps the item that runs.
LEMMA PurgeAhead ==
  ASSUME Stepping, Purge
  PROVE  AheadInv'
<1>1. /\ pc = "purge" /\ pc' = "next_task" /\ ~Booting /\ ~Booting' /\ tick' = tick
      /\ converting' = 1 /\ caller' = "online" /\ current' = current
  BY DEF Purge, Stepping, IInv, BootInv, Booting, Terminal, run_vars
<1>2. \A t \in Endless : ~(t < converting')
  BY <1>1 DEF Endless, Tasks
<1>3. UpdateAhead
  BY <1>1 DEF Stepping, AheadInv, RunAhead, UpdateRuns
<1>4. CASE UNCHANGED schedule_vars
  BY <1>1, <1>2, <1>3, <1>4, BodyQuiet
<1>5. CASE ~UNCHANGED schedule_vars
  <2>1. /\ item_upto > 1 /\ items' = items - item_upto /\ item_upto' = 0
        /\ index_sorted_upto' = SortedAfterPurge
        /\ \A k \in 0 .. items - item_upto - 1 : k \in Slots => list'[k] = list[k + item_upto]
    BY <1>5, PaceTypes DEF Purge, MovedToFront, Stepping
  <2>2. /\ items \in Nat /\ index_sorted_upto \in Nat /\ item_upto \in Nat
        /\ 0 .. items - 1 \subseteq Slots
    BY PaceTypes, ConstantsAssumption DEF Slots, Stepping, IInv, TypeOK, Counters
  <2>3. index_sorted_upto # 0 /\ index_sorted_upto > item_upto
    BY <1>3, <2>1, <2>2 DEF Stepping, AheadInv, SortAhead, UpdateAhead, Sorted
  <2>4. index_sorted_upto' > 0 /\ item_upto' < Sorted' /\ index_sorted_upto' # 0
    BY <2>1, <2>2, <2>3 DEF SortedAfterPurge, Sorted
  <2>5. PICK i \in item_upto .. items - 1 : list[i].task = 1 /\ list[i].start = current.start
    BY <1>3 DEF UpdateAhead
  <2>6. /\ i - item_upto \in 0 .. items - item_upto - 1 /\ i - item_upto \in 0 .. items - 1
        /\ i = (i - item_upto) + item_upto
    BY <2>2, <2>5
  <2>7. list'[i - item_upto] = list[i]
    BY <2>1, <2>2, <2>6
  <2>8. \E k \in item_upto' .. items' - 1 : list'[k].task = 1 /\ list'[k].start = current.start
    BY <2>1, <2>5, <2>6, <2>7
  <2>. QED  BY <1>1, <1>2, <1>3, <2>4, <2>8, BodyAhead
<1>. QED
  BY <1>4, <1>5

LEMMA NextTaskAhead ==
  ASSUME Stepping, NextTask
  PROVE  AheadInv'
<1> DEFINE time == current.start + UpdatePeriod
<1>1. /\ pc = "next_task" /\ caller' = caller /\ tick' = tick /\ current' = current
      /\ UNCHANGED schedule_vars /\ converting <= Len(task_list)
      /\ \/ pc' = "convert" /\ converting' = converting
         \/ /\ pc' = "next_task" /\ converting' = converting + 1
            /\ task_list[converting].period = 0
  BY DEF NextTask, run_vars
<1>2. caller = "online" /\ UpdateAhead /\ ~Booting /\ ~Booting'
  BY <1>1 DEF Stepping, AheadInv, RunAhead, UpdateRuns, SortAhead, Booting
<1>3. converting \in Tasks /\ converting \in Nat /\ \A t \in Endless : t \in Nat
  BY <1>1, PaceTypes DEF Stepping, IInv, PointerInv, Tasks, Endless
<1>4. ASSUME NEW t \in Endless, t < converting'
      PROVE  Uptos'[t] > time
  <2>1. t < converting
    <3>1. t # converting \/ converting' = converting
      BY <1>1 DEF Endless
    <3>. QED  BY <1>1, <1>3, <1>4, <3>1
  <2>2. Uptos[t] > time
    BY <1>1, <1>2, <2>1 DEF UpdateAhead
  <2>3. time \in Nat
    BY CurrentTyped
  <2>. HIDE DEF time
  <2>. QED  BY <2>2, <2>3, ReachedGrows DEF Stepping
<1>. QED
  BY <1>1, <1>2, <1>4, BodyQuiet

\* The steps of a conversion that change no item.
LEMMA ConversionAhead ==
  ASSUME Stepping, ~Booting, BeginConversion \/ EndConversion
  PROVE  AheadInv'
<1> DEFINE n == converting
           s == current.start
           u == task_list[n].time_evaluated_upto
           time == s + UpdatePeriod
<1>1. /\ pc \in {"convert", "occurrences"} /\ tick' = tick /\ current' = current /\ caller' = caller
      /\ UNCHANGED schedule_vars /\ ~Booting' /\ caller \in {"adds", "online"}
  BY DEF BeginConversion, EndConversion, AfterConversion, run_vars, Booting, Stepping, IInv, TypeOK,
     ControlOK
<1>2. n \in Tasks /\ n \in Nat /\ (\A t \in Tasks : t \in Nat) /\ Endless \subseteq Tasks
  BY <1>1, PaceTypes DEF Tasks, Stepping, Endless
<1>3. s \in Nat /\ tick \in Nat /\ UpdatePeriod \in Nat /\ time \in Nat
      /\ UPDATE_SCHEDULE_RATE \in Nat /\ UpdatePeriod < UPDATE_SCHEDULE_RATE
      /\ schedule_time \in Nat /\ finish_time \in Nat
  BY CurrentTyped, FirstRequested, PaceTypes DEF Stepping
<1>4. \A t \in Endless : Uptos[t] > time => Uptos'[t] > time
  <2>. HIDE DEF time
  <2>. QED  BY <1>3, ReachedGrows DEF Stepping
<1>5. CASE caller = "online"
  <2>1. UpdateAhead /\ pc # "purge"
    BY <1>1, <1>5 DEF Stepping, AheadInv, RunAhead, UpdateRuns
  <2>2. /\ Reached(s) /\ s <= tick /\ \A t \in Endless : t < n => Uptos[t] > time
        /\ pc = "occurrences" /\ n \in Endless => finish_time > time
    BY <2>1 DEF UpdateAhead
  <2>3. \/ /\ pc' = "next_task" /\ n' = n + 1
           /\ n \in Endless => Uptos[n] > time
        \/ /\ pc' = "occurrences" /\ n' = n
           /\ n \in Endless => finish_time' > time
    <3>1. CASE BeginConversion
      <4>1. n \in Endless => u = Uptos[n] /\ u \in Nat /\ task_list[n].complete = 0 /\ u > s
        BY <1>2, <2>2, <3>1, UptosTyped
        DEF BeginConversion, Uptos, EvaluatedUpto, Endless, Reached, Stepping
      <4>2. \/ /\ pc' = "next_task" /\ n' = n + 1
               /\ task_list[n].complete = 0 => u > tick + EVENT_HORIZON
            \/ /\ pc' = "occurrences" /\ n' = n
               /\ task_list[n].complete = 0 => finish_time' = u + UPDATE_SCHEDULE_RATE
        BY <1>5, <3>1 DEF BeginConversion, AfterConversion
      <4>. HIDE DEF n, s, u
      <4>3. n \in Endless /\ u > tick + EVENT_HORIZON => Uptos[n] > time
        BY <1>3, <2>2, <4>1, SMTT(30) DEF EVENT_HORIZON
      <4>4. n \in Endless /\ finish_time' = u + UPDATE_SCHEDULE_RATE => finish_time' > time
        BY <1>3, <2>2, <4>1, SMTT(30)
      <4>. QED  BY <4>1, <4>2, <4>3, <4>4
    <3>2. CASE EndConversion
      <4>1. /\ pc = "occurrences" /\ schedule_time >= finish_time
            /\ pc' = "next_task" /\ n' = n + 1 /\ Uptos[n] = schedule_time
        BY <1>2, <1>5, <3>2 DEF EndConversion, AfterConversion, Uptos, EvaluatedUpto
      <4>. HIDE DEF time, n
      <4>2. n \in Endless => Uptos[n] > time
        BY <1>3, <2>2, <4>1
      <4>. QED  BY <4>1, <4>2
    <3>. QED  BY <3>1, <3>2
  <2>4. ASSUME NEW t \in Endless, t < n'
        PROVE  Uptos'[t] > time
    <3>. HIDE DEF n, time
    <3>1. t < n \/ (t = n /\ pc' = "next_task")
      BY <1>2, <2>3, <2>4
    <3>2. Uptos[t] > time
      BY <2>2, <2>3, <3>1
    <3>. QED  BY <1>4, <3>2
  <2>. QED  BY <1>1, <1>5, <2>1, <2>3, <2>4, BodyQuiet
<1>6. CASE caller = "adds"
  <2>1. AdderRuns /\ AdderAhead /\ pc # "add" /\ item_upto \in 0 .. items - 1
    BY <1>1, <1>6, AtItem DEF Stepping, AheadInv, RunAhead, AdderRuns, InTask
  <2>2. UNCHANGED <<list, items, item_upto, index_sorted_upto>>
    BY <1>1 DEF schedule_vars
  <2>3. index_sorted_upto # 0 /\ UpdateAfter(item_upto' + 1)
    <3>1. index_sorted_upto # 0 /\ UpdateFrom(item_upto + 1)
      BY <2>1 DEF Stepping, AheadInv, RunAhead
    <3>2. ListSame /\ item_upto + 1 \in Nat
      BY <2>1, <2>2 DEF ListSame, Same
    <3>. QED  BY <2>2, <3>1, <3>2, SameStays, UpdateStays DEF Stepping
  <2>4. pc' = "end" \/ (pc' = "occurrences" /\ converting' = n)
    BY <1>6 DEF BeginConversion, EndConversion, AfterConversion
  <2>5. pc' = "occurrences" => AdderAhead'
    <3>. SUFFICES ASSUME pc' = "occurrences" PROVE AdderAhead'
      OBVIOUS
    <3>1. n \notin Endless /\ list[item_upto].complete < Uptos[n]
      BY <2>1 DEF AdderAhead
    <3>2. list[item_upto].complete \in Nat /\ Uptos[n] \in Nat /\ Uptos'[n] \in Nat
          /\ Uptos[n] <= Uptos'[n]
      BY <1>2, <2>1, SortedTypes DEF Stepping, TasksGrow
    <3>3. list[item_upto].complete < Uptos'[n]
      BY <3>1, <3>2
    <3>. QED  BY <2>1, <2>2, <2>4, <3>1, <3>3, AdderAheadStays DEF Same
  <2>. QED  BY <1>1, <1>6, <2>2, <2>3, <2>4, <2>5, AheadAfter
            DEF Stepping, Standing, AdderRuns, UpdateRuns
<1>. QED
  BY <1>1, <1>5, <1>6

\* An occurrence is stored behind the item that runs: it starts where its task has
\* been evaluated up to.
LEMMA AddOccurrenceAhead ==
  ASSUME Stepping, ~Booting, AddOccurrence
  PROVE  AheadInv'
<1> DEFINE n == converting
           next == schedule_time + task_list[n].period
<1>1. /\ pc = "occurrences" /\ tick' = tick /\ current' = current /\ caller' = caller
      /\ converting' = n /\ finish_time' = finish_time /\ ~Booting'
      /\ AddToScheduledItemList(n, schedule_time, next)
      /\ pc' = "occurrences" \/ ~InArray(items)
  BY DEF AddOccurrence, Stored, run_vars, Booting, Stepping, IInv, TypeOK, ControlOK
<1>2. /\ n \in Tasks /\ items \in Nat /\ schedule_time \in Nat /\ index_sorted_upto \in 0 .. items
      /\ item_upto \in 0 .. items - 1 /\ item_upto \in Nat /\ items > 0 /\ Sorted \in 0 .. items
  BY <1>1, PaceTypes, AtItem, SortedTypes DEF Stepping, InTask
<1>3. next \in Nat
  <2>1. task_list[n] \in Task
    BY <1>2, Typed DEF Stepping, IInv
  <2>. QED  BY <1>2, <2>1 DEF Task
<1>. HIDE DEF next
<1>4. /\ items' = items + 1 /\ item_upto' = item_upto
      /\ index_sorted_upto = 0 <=> index_sorted_upto' = 0
      /\ index_sorted_upto' \in {index_sorted_upto, items}
      /\ \A i \in item_upto .. items - 1 : FindIn(list[i], item_upto, items')
      /\ index_sorted_upto = 0 => \A i \in 0 .. items - 1 : Same(list'[i], list[i])
      /\ item_upto < index_sorted_upto /\ list[item_upto].complete < schedule_time =>
           SortedStay(item_upto + 1, item_upto + 1) /\ Same(list'[item_upto], list[item_upto])
  BY <1>1, <1>2, <1>3, AddStays DEF Stepping, OnceInv
<1>5. pc' = "occurrences"
  BY <1>1, <1>2, <1>4, ConstantsAssumption DEF RoomLeft, InArray, Stepping
<1>6. index_sorted_upto' = 0 => item_upto' = 0 /\ (items' > 0 => list'[0].task = 1)
  <2>1. SortAhead
    BY DEF Stepping, AheadInv
  <2>. QED  BY <1>2, <1>4, <2>1 DEF SortAhead, Same
<1>7. CASE caller = "online"
  <2>1. UpdateAhead
    BY <1>1, <1>7 DEF Stepping, AheadInv, RunAhead, UpdateRuns
  <2>2. item_upto' < Sorted'
    BY <1>2, <1>4, <2>1 DEF UpdateAhead, Sorted
  <2>3. \E k \in item_upto' .. items' - 1 : list'[k].task = 1 /\ list'[k].start = current.start
    <3>1. PICK i \in item_upto .. items - 1 : list[i].task = 1 /\ list[i].start = current.start
      BY <2>1 DEF UpdateAhead
    <3>. QED  BY <1>4, <3>1 DEF FindIn
  <2>4. \A t \in Endless : t < n => Uptos'[t] > current.start + UpdatePeriod
    <3>1. \A t \in Endless : t < n => Uptos[t] > current.start + UpdatePeriod
      BY <1>1, <2>1 DEF UpdateAhead
    <3>2. \A t \in Endless : Uptos[t] > current.start + UpdatePeriod =>
                               Uptos'[t] > current.start + UpdatePeriod
      <4>1. current.start + UpdatePeriod \in Nat
        BY CurrentTyped
      <4>. QED  BY <4>1, ReachedGrows DEF Stepping
    <3>. QED  BY <3>1, <3>2
  <2>5. n \in Endless => finish_time > current.start + UpdatePeriod
    BY <1>1, <2>1 DEF UpdateAhead
  <2>. QED  BY <1>1, <1>5, <1>6, <1>7, <2>1, <2>2, <2>3, <2>4, <2>5, BodyAhead
<1>8. CASE caller = "adds"
  <2>1. AdderRuns /\ AdderAhead /\ index_sorted_upto # 0 /\ UpdateFrom(item_upto + 1)
    BY <1>1, <1>8 DEF Stepping, AheadInv, RunAhead, AdderRuns
  <2>2. n \notin Endless /\ list[item_upto].complete < schedule_time /\ Uptos[n] = schedule_time
    BY <1>1, <1>2, <2>1 DEF AdderAhead, Uptos, EvaluatedUpto
  <2>3. item_upto < index_sorted_upto
    <3>1. PICK i \in item_upto + 1 .. Sorted - 1 : TRUE
      BY <2>1 DEF UpdateFrom
    <3>. QED  BY <1>2, <2>1, <3>1 DEF Sorted
  <2>4. SortedStay(item_upto + 1, item_upto + 1) /\ Same(list'[item_upto], list[item_upto])
    BY <1>4, <2>2, <2>3
  <2>5. UpdateAfter(item_upto' + 1) /\ index_sorted_upto' # 0
    BY <1>2, <1>4, <2>1, <2>4, UpdateStays DEF Stepping
  <2>6. list[item_upto].complete < Uptos'[n]
    <3>1. list[item_upto].complete \in Nat /\ Uptos'[n] \in Nat /\ Uptos[n] <= Uptos'[n]
      BY <1>2, SortedTypes DEF Stepping, TasksGrow
    <3>. QED  BY <1>2, <2>2, <3>1
  <2>7. AdderAhead'
    BY <1>1, <1>2, <1>4, <2>1, <2>2, <2>4, <2>6, AdderAheadStays
  <2>. QED  BY <1>1, <1>5, <1>8, <2>5, <2>7, AheadAfter
            DEF Stepping, Standing, AdderRuns, UpdateRuns
<1>9. caller \in {"adds", "online"}
  BY DEF Booting, Stepping, IInv, TypeOK, ControlOK
<1>. QED
  BY <1>7, <1>8, <1>9

\* All tasks have been evaluated beyond the next occurrence of the online scheduler:
\* it is in the list, and the sort leaves it behind the item that runs.
LEMMA EndOnlineSchedulerAhead ==
  ASSUME Stepping, OnceInv', EndOnlineScheduler
  PROVE  AheadInv'
<1> DEFINE s == current.start
           time == s + UpdatePeriod
<1>1. /\ pc = "next_task" /\ pc' = "end" /\ ~Booting /\ ~Booting' /\ converting > Len(task_list)
      /\ UNCHANGED <<items, item_upto>> /\ SortSchedule(list, index_sorted_upto)
      /\ index_sorted_upto' = items
  BY DEF EndOnlineScheduler, Stepping, IInv, BootInv, Booting, Terminal, SortSchedule
<1>2. /\ items \in Nat /\ index_sorted_upto \in 0 .. items /\ item_upto \in Nat
      /\ item_upto \in 0 .. items - 1 /\ Len(task_list) \in Nat /\ converting \in Nat
      /\ s \in Nat /\ UpdatePeriod \in Nat \ {0} /\ time \in Nat
  BY <1>1, PaceTypes, CurrentTyped, AtItem DEF Stepping, InTask
<1>3. UpdateAhead /\ SortAhead
  BY <1>1 DEF Stepping, AheadInv, RunAhead, UpdateRuns
<1>4. PICK i \in item_upto .. items - 1 : list[i].task = 1 /\ list[i].start = s
  BY <1>3 DEF UpdateAhead
<1>5. \A t \in Endless : Uptos'[t] > time
  <2>1. \A t \in Endless : t < converting
    BY <1>1, <1>2 DEF Tasks, Endless
  <2>2. \A t \in Endless : Uptos[t] > time
    BY <1>1, <1>3, <2>1 DEF UpdateAhead
  <2>. HIDE DEF time
  <2>. QED  BY <1>2, <2>2, ReachedGrows DEF Stepping
<1>6. 1 \in Tasks' /\ 1 \in Endless' /\ 1 \in Endless /\ Periods'[1] = UpdatePeriod
  <2>1. 1 \in Tasks
    BY <1>2, <1>4, SortedTypes DEF Stepping
  <2>2. 1 \in Tasks'
    BY <2>1 DEF Stepping, TasksGrow
  <2>3. task_list'[1].period = UpdatePeriod /\ task_list'[1].complete = 0
    BY <2>2 DEF Stepping, TasksKnown, UpdatePeriod
  <2>. QED  BY <1>2, <2>2, <2>3 DEF Stepping, EndlessSame, Endless, Periods
<1>7. PICK k \in item_upto .. items - 1 : list'[k].task = 1 /\ list'[k].start = s
  <2>1. item_upto \in 0 .. index_sorted_upto
    BY <1>2, <1>3 DEF SortAhead, UpdateAhead, Sorted
  <2>2. list \in [Slots -> Item] /\ index_sorted_upto \in Nat
    BY <1>2 DEF Stepping, IInv, TypeOK, ListOK
  <2>3. FindIn(list[i], item_upto, items)
    BY <1>1, <2>1, <2>2, SortStays DEF Stepping, OnceInv
  <2>. QED  BY <1>4, <2>3 DEF FindIn
<1>8. k \in 0 .. items - 1 /\ k \in Int /\ k >= item_upto
  BY <1>2
<1>9. PICK j \in 0 .. items - 1 : list'[j].task = 1 /\ list'[j].start = time
  <2>1. Uptos'[1] # time
    <3>1. Uptos'[1] \in Nat /\ Uptos'[1] > time
      BY <1>5, <1>6 DEF Stepping, TasksGrow, Endless
    <3>. HIDE DEF time
    <3>. QED  BY <1>2, <3>1
  <2>2. Periods'[list'[k].task] # 0
    BY <1>2, <1>6, <1>7
  <2>3. \/ list'[k].start + Periods'[list'[k].task] = Uptos'[list'[k].task]
        \/ \E j \in 0 .. items - 1 :
             list'[j].task = list'[k].task /\ list'[j].start = list'[k].start + Periods'[list'[k].task]
    BY <1>1, <1>8, <2>2 DEF OnceInv, GapInv, Gapless
  <2>. QED  BY <1>6, <1>7, <2>1, <2>3
<1>10. j > k
  <2>1. SUFFICES ASSUME j < k \/ j = k PROVE FALSE
    BY <1>8
  <2>2. j = k => s = time
    BY <1>7, <1>9
  <2>3. j < k => time < s
    <3>1. \A a, b \in 0 .. items - 1 :
            a < b /\ list'[a].task = list'[b].task /\ Periods'[list'[a].task] # 0
              => list'[a].start < list'[b].start
      BY <1>1 DEF OnceInv, GapInv, Ordered
    <3>2. Periods'[list'[j].task] # 0
      BY <1>2, <1>6, <1>9
    <3>. QED  BY <1>7, <1>8, <1>9, <3>1, <3>2
  <2>. QED  BY <1>2, <2>1, <2>2, <2>3
<1>11. UpdateAfter(item_upto' + 1) /\ index_sorted_upto' # 0
  <2>1. Sorted' = items /\ items # 0
    BY <1>1, <1>2 DEF Sorted
  <2>2. j \in item_upto + 1 .. items - 1
    BY <1>2, <1>8, <1>10
  <2>3. \A t \in Endless' : Uptos'[t] > list'[j].start
    BY <1>5, <1>9 DEF Stepping, EndlessSame
  <2>. QED  BY <1>1, <1>9, <2>1, <2>2, <2>3 DEF UpdateAfter
<1>. QED
  BY <1>1, <1>11, AheadAfter DEF Stepping, Standing, AdderRuns, UpdateRuns

\* A task is added while the item that adds it runs: its own items start later.
LEMMA AddOnTheFlyAhead ==
  ASSUME Stepping, AddOnTheFly
  PROVE  AheadInv'
<1> DEFINE r == OnTheFly
<1>1. /\ r \in Request /\ pc = "add" /\ UNCHANGED <<tick, current>> /\ ~Booting /\ ~Booting'
      /\ item_upto \in 0 .. items - 1 /\ list[item_upto].complete < r.start
      /\ list[item_upto].complete \in Nat
      /\ r.period = 0 \/ r.complete # 0
      /\ \/ UNCHANGED <<task_list, schedule_vars, caller, converting>> /\ pc' = "end"
         \/ Storing(r, "end") /\ caller' = (IF r.period # 0 THEN "adds" ELSE caller)
  BY AddOnTheFlyMade DEF Stepping, AheadInv
<1>2. /\ AdderAhead /\ index_sorted_upto # 0 /\ UpdateFrom(item_upto + 1) /\ SortAhead
  BY <1>1 DEF Stepping, AheadInv, RunAhead, AdderRuns
<1>3. r.start \in Nat /\ r.complete \in Nat /\ r.start # 0 /\ item_upto + 1 \in Nat
      /\ item_upto \in Nat
  BY <1>1 DEF Request
<1>. HIDE DEF r
<1>4. CASE UNCHANGED schedule_vars
  <2>1. UNCHANGED <<list, items, item_upto, index_sorted_upto>>
    BY <1>4 DEF schedule_vars
  <2>2. UpdateAfter(item_upto' + 1)
    <3>1. ListSame
      BY <2>1 DEF ListSame, Same
    <3>. QED  BY <1>2, <1>3, <2>1, <3>1, SameStays, UpdateStays DEF Stepping
  <2>3. \/ pc' \in {"end", "corrupt"}
        \/ pc' = "convert" /\ caller' = "adds" /\ converting' = Place /\ Stores(r)
    BY <1>1 DEF Storing
  <2>4. pc' = "convert" => AdderAhead'
    <3>. SUFFICES ASSUME pc' = "convert" PROVE AdderAhead'
      OBVIOUS
    <3>1. converting' = Place /\ Stores(r)
      BY <2>3
    <3>2. Place \notin Endless /\ Place \in Tasks'
      BY <3>1 DEF Stores, Endless
    <3>3. Uptos'[Place] = r.start
      BY <1>3, <3>1, <3>2 DEF Stores, Uptos, EvaluatedUpto
    <3>. QED  BY <1>1, <1>2, <2>1, <3>1, <3>2, <3>3, AdderAheadStays DEF Same
  <2>. QED  BY <1>1, <1>2, <2>1, <2>2, <2>3, <2>4, AheadAfter
            DEF Stepping, Standing, AdderRuns, UpdateRuns
<1>5. CASE ~UNCHANGED schedule_vars
  <2>1. pc' \in {"end", "corrupt"} /\ AddToScheduledItemList(Place, r.start, r.complete)
    BY <1>1, <1>5, Zenon DEF Storing
  <2>2. /\ item_upto' = item_upto /\ (index_sorted_upto = 0 <=> index_sorted_upto' = 0)
        /\ item_upto < index_sorted_upto /\ list[item_upto].complete < r.start =>
             SortedStay(item_upto + 1, item_upto + 1) /\ Same(list'[item_upto], list[item_upto])
    BY <1>3, <2>1, AddStays DEF Stepping, OnceInv
  <2>3. item_upto < index_sorted_upto
    <3>1. PICK i \in item_upto + 1 .. Sorted - 1 : TRUE
      BY <1>2 DEF UpdateFrom
    <3>. QED  BY <1>2, <1>3, <3>1, PaceTypes DEF Sorted, Stepping
  <2>4. UpdateAfter(item_upto' + 1) /\ index_sorted_upto' # 0
    BY <1>1, <1>2, <1>3, <2>2, <2>3, UpdateStays DEF Stepping
  <2>. QED  BY <1>1, <2>1, <2>4, AheadAfter DEF Stepping, Standing, AdderRuns, UpdateRuns
<1>. QED
  BY <1>4, <1>5

-----------------------------------------------------------------------------
(***************************************************************************)
(* The boot.                                                               *)
(***************************************************************************)

\* What is left to show of a step of the boot.
LEMMA AheadAtBoot ==
  ASSUME TasksKnown', AddersEnd', Booting', index_sorted_upto' = 0, item_upto' = 0,
         items' > 0 => list'[0].task = 1, pc' # "next_task", BootAhead'
  PROVE  AheadInv'
BY DEF AheadInv, SortAhead, RunAhead

\* The boot as it is before a step.
LEMMA AtBoot ==
  ASSUME OnlineFirst, IInv, AheadInv, Booting, pc \notin Terminal
  PROVE  /\ index_sorted_upto = 0 /\ item_upto = 0 /\ items \in Nat /\ tick \in Nat
         /\ items > 0 => /\ list[0].task = 1 /\ list[0].start \in Nat /\ list[0].start <= tick
                         /\ 0 \in 0 .. items - 1
         /\ items = 0 => Tasks = {} \/ (pc # "boot" /\ Tasks = {1})
         /\ \A t \in Endless : \/ items > 0 /\ Uptos[t] > list[0].start
                               \/ pc # "boot" /\ t = converting
         /\ Endless \subseteq Tasks /\ (1 \in Tasks => 1 \in Endless)
<1>1. items \in Nat /\ tick \in Nat
  BY PaceTypes
<1>2. index_sorted_upto = 0 /\ item_upto = 0 /\ (items > 0 => list[0].task = 1)
  BY DEF AheadInv, SortAhead
<1>3. items > 0 => 0 \in 0 .. items - 1 /\ list[0].start \in Nat
  BY <1>1, SortedTypes
<1>4. Endless \subseteq Tasks
  BY DEF Endless
<1>5. 1 \in Tasks => 1 \in Endless
  BY FirstRequested DEF AheadInv, TasksKnown, Endless
<1>. QED
  BY <1>1, <1>2, <1>3, <1>4, <1>5 DEF AheadInv, BootAhead

LEMMA BootRequestAhead ==
  ASSUME OnlineFirst, NoRequestWaits, IInv, OnceInv, RoomLeft, AheadInv, TasksGrow, TasksKnown',
         AddersEnd', \A t \in Endless' : t \in Endless \/ t = Place,
         BootRequest
  PROVE  AheadInv'
<1> DEFINE r == BootRequests[request + 1]
<1>1. /\ RequestKnown(request + 1) /\ pc = "boot" /\ tick' = tick
      /\ request = 0 <=> Tasks = {}
      /\ \/ /\ UNCHANGED <<task_list, schedule_vars, caller, converting>> /\ pc' = "boot"
            /\ request # 0
         \/ Storing(r, "boot") /\ caller' = (IF r.period # 0 THEN "boot" ELSE caller)
  BY BootRequestMade DEF AheadInv
<1>2. /\ r \in Request /\ (r.period # 0 /\ r.complete = 0 => r.start = 0)
      /\ request = 0 => r.period = UpdatePeriod /\ UpdatePeriod # 0
      /\ r.start \in Nat /\ r.complete \in Nat
  BY <1>1, FirstRequested DEF RequestKnown, Request
<1>. HIDE DEF r
<1>3. Booting /\ Booting' /\ pc \notin Terminal
  BY <1>1 DEF IInv, BootInv, Booting, Terminal
<1>4. /\ index_sorted_upto = 0 /\ item_upto = 0 /\ items \in Nat /\ tick \in Nat
      /\ items > 0 => /\ list[0].task = 1 /\ list[0].start \in Nat /\ list[0].start <= tick
                      /\ 0 \in 0 .. items - 1
      /\ items = 0 => Tasks = {}
      /\ \A t \in Endless : items > 0 /\ Uptos[t] > list[0].start
      /\ Endless \subseteq Tasks
  BY <1>1, <1>3, AtBoot
<1>5. \A t \in Endless : Uptos'[t] > list[0].start
  <2>. SUFFICES ASSUME NEW t \in Endless PROVE Uptos'[t] > list[0].start
    OBVIOUS
  <2>1. Uptos[t] \in Nat /\ Uptos'[t] \in Nat /\ Uptos[t] <= Uptos'[t]
    BY <1>4 DEF TasksGrow
  <2>. QED  BY <1>4, <2>1
<1>6. CASE UNCHANGED <<task_list, schedule_vars, caller, converting>> /\ pc' = "boot"
  <2>1. UNCHANGED <<list, items, item_upto, index_sorted_upto>> /\ Tasks' = Tasks /\ Endless' = Endless
    BY <1>6 DEF schedule_vars, Tasks, Endless
  <2>2. BootAhead'
    BY <1>1, <1>4, <1>5, <1>6, <2>1 DEF BootAhead
  <2>. QED  BY <1>3, <1>4, <1>6, <2>1, <2>2, AheadAtBoot
<1>7. CASE Stores(r) /\ r.period # 0 /\ converting' = Place /\ pc' \in {"convert", "corrupt"}
           /\ UNCHANGED schedule_vars
  <2>1. /\ UNCHANGED <<list, items, item_upto, index_sorted_upto>>
        /\ Tasks' = Tasks \cup {Place} /\ (Place = 1 <=> Tasks = {})
    BY <1>7 DEF schedule_vars, Stores
  <2>2. Place \in Endless' /\ pc' = "convert" => Uptos'[Place] = tick
    BY <1>2, <1>7 DEF Stores, Endless, Uptos, EvaluatedUpto
  <2>3. pc' = "convert" => BootAhead'
    BY <1>1, <1>4, <1>5, <1>7, <2>1, <2>2 DEF BootAhead
  <2>4. pc' = "corrupt" => BootAhead'
    BY DEF BootAhead, Terminal
  <2>. QED  BY <1>3, <1>4, <1>7, <2>1, <2>3, <2>4, AheadAtBoot
<1>8. CASE Stores(r) /\ r.period = 0 /\ pc' \in {"boot", "corrupt"}
           /\ (UNCHANGED schedule_vars \/ AddToScheduledItemList(Place, r.start, r.complete))
  <2>1. items > 0 /\ list[0].task = 1
    BY <1>1, <1>2, <1>4, <1>8
  <2>2. /\ items' \in Nat /\ items' > 0 /\ item_upto' = 0 /\ index_sorted_upto' = 0
        /\ list'[0].task = 1 /\ list'[0].start = list[0].start
    <3>1. CASE UNCHANGED schedule_vars
      BY <1>4, <2>1, <3>1 DEF schedule_vars
    <3>2. CASE AddToScheduledItemList(Place, r.start, r.complete)
      <4>1. /\ items' = items + 1 /\ item_upto' = item_upto /\ index_sorted_upto' = 0
            /\ \A i \in 0 .. items - 1 : Same(list'[i], list[i])
        BY <1>2, <1>4, <3>2, AddStays DEF OnceInv
      <4>. QED  BY <1>4, <2>1, <4>1 DEF Same
    <3>. QED  BY <1>8, <3>1, <3>2
  <2>3. Place \notin Endless' \/ Place \in Endless
    BY <1>8 DEF Endless, Stores
  <2>4. pc' = "boot" => BootAhead'
    BY <1>1, <1>4, <1>5, <1>8, <2>1, <2>2, <2>3 DEF BootAhead
  <2>5. pc' = "corrupt" => BootAhead'
    BY DEF BootAhead, Terminal
  <2>. QED  BY <1>3, <1>8, <2>2, <2>4, <2>5, AheadAtBoot
<1>. QED
  BY <1>1, <1>6, <1>7, <1>8 DEF Storing

\* The tasks of the requests are converted beyond the first update.
LEMMA BootConversionAhead ==
  ASSUME Stepping, Booting, BeginConversion \/ AddOccurrence \/ EndConversion
  PROVE  AheadInv'
<1> DEFINE n == converting
           u == task_list[n].time_evaluated_upto
           first == IF items > 0 THEN list[0].start ELSE schedule_time
<1>1. /\ pc \in {"convert", "occurrences"} /\ pc \notin Terminal /\ tick' = tick /\ Booting'
      /\ caller = "boot"
  BY DEF BeginConversion, AddOccurrence, EndConversion, AfterConversion, Booting, Terminal
<1>2. /\ index_sorted_upto = 0 /\ item_upto = 0 /\ items \in Nat /\ tick \in Nat
      /\ items > 0 => /\ list[0].task = 1 /\ list[0].start \in Nat /\ list[0].start <= tick
                      /\ 0 \in 0 .. items - 1
      /\ items = 0 => Tasks = {1} /\ n = 1 /\ n \in Endless
      /\ \A t \in Endless : t # n => items > 0 /\ Uptos[t] > list[0].start
      /\ n \in Tasks /\ schedule_time \in Nat /\ finish_time \in Nat /\ Tasks' = Tasks
      /\ Endless' = Endless
  <2>1. n \in Tasks /\ schedule_time \in Nat /\ finish_time \in Nat
    BY <1>1, PaceTypes DEF Stepping
  <2>2. Tasks' = Tasks
    <3>1. ~BootRequest /\ ~AddOnTheFly
      BY <1>1 DEF BootRequest, AddOnTheFly
    <3>. QED  BY <3>1, TasksStay DEF Stepping
  <2>3. Endless' = Endless
    BY DEF Stepping, EndlessSame
  <2>4. /\ index_sorted_upto = 0 /\ item_upto = 0 /\ items \in Nat /\ tick \in Nat
        /\ items > 0 => /\ list[0].task = 1 /\ list[0].start \in Nat /\ list[0].start <= tick
                        /\ 0 \in 0 .. items - 1
        /\ items = 0 => Tasks = {} \/ Tasks = {1}
        /\ \A t \in Endless : t # n => items > 0 /\ Uptos[t] > list[0].start
        /\ 1 \in Tasks => 1 \in Endless
    BY <1>1, AtBoot DEF Stepping
  <2>. QED  BY <2>1, <2>2, <2>3, <2>4
<1>3. \A t \in Endless : t # n => Uptos'[t] > list[0].start
  <2>. SUFFICES ASSUME NEW t \in Endless, t # n PROVE Uptos'[t] > list[0].start
    OBVIOUS
  <2>1. list[0].start \in Nat /\ Uptos[t] > list[0].start
    BY <1>2
  <2>. QED  BY <2>1, ReachedGrows DEF Stepping
<1>4. BootAhead
  BY DEF Stepping, AheadInv
<1>5. CASE BeginConversion
  <2>1. /\ pc = "convert" /\ UNCHANGED <<list, items, item_upto, index_sorted_upto>>
        /\ \/ pc' = "boot" /\ (task_list[n].complete = 0 => u > tick + EVENT_HORIZON)
           \/ /\ pc' = "occurrences" /\ n' = n /\ schedule_time' = u
              /\ task_list[n].complete = 0 => finish_time' = u + UPDATE_SCHEDULE_RATE
    BY <1>1, <1>5 DEF BeginConversion, AfterConversion, schedule_vars
  <2>2. n \in Endless => /\ u = Uptos[n] /\ u \in Nat /\ task_list[n].complete = 0 /\ u <= tick
                         /\ items > 0 => list[0].start <= u
    BY <1>1, <1>2, <1>4, <2>1, UptosTyped
    DEF Uptos, EvaluatedUpto, Endless, BootAhead, Stepping
  <2>3. UPDATE_SCHEDULE_RATE \in Nat \ {0}
    BY ConstantsAssumption
  <2>. HIDE DEF u, n
  <2>4. n \in Endless =>
          /\ pc' = "occurrences" /\ schedule_time' = u
          /\ finish_time' > (IF items > 0 THEN list[0].start ELSE schedule_time')
    BY <1>2, <2>1, <2>2, <2>3, SMTT(30) DEF EVENT_HORIZON
  <2>5. CASE n \in Endless
    <3>1. n' = n /\ n \in Tasks /\ pc' = "occurrences"
      BY <1>2, <2>1, <2>4, <2>5
    <3>2. BootAhead'
      BY <1>1, <1>2, <1>3, <2>1, <2>2, <2>4, <2>5, <3>1 DEF BootAhead, n
    <3>. QED  BY <1>1, <1>2, <2>1, <3>1, <3>2, AheadAtBoot DEF Stepping
  <2>6. CASE n \notin Endless
    <3>1. items > 0
      BY <1>2, <2>6
    <3>2. \A t \in Endless : Uptos'[t] > list[0].start
      BY <1>3, <2>6
    <3>3. pc' = "occurrences" => converting' \notin Endless
      BY <2>1, <2>6 DEF n
    <3>4. BootAhead'
      BY <1>1, <1>2, <2>1, <3>1, <3>2, <3>3 DEF BootAhead
    <3>. QED  BY <1>1, <1>2, <2>1, <3>4, AheadAtBoot DEF Stepping
  <2>. QED  BY <2>5, <2>6
<1>6. CASE EndConversion
  <2>1. /\ pc = "occurrences" /\ UNCHANGED <<list, items, item_upto, index_sorted_upto>>
        /\ pc' = "boot" /\ schedule_time >= finish_time
    BY <1>1, <1>6 DEF EndConversion, AfterConversion, schedule_vars
  <2>2. n \in Endless => finish_time > first /\ Uptos[n] = schedule_time
    BY <1>1, <1>2, <1>4, <2>1 DEF BootAhead, Uptos, EvaluatedUpto
  <2>3. items > 0
    BY <1>2, <2>1, <2>2
  <2>4. n \in Endless => Uptos'[n] > list[0].start
    <3>. SUFFICES ASSUME n \in Endless PROVE Uptos'[n] > list[0].start
      OBVIOUS
    <3>1. Uptos[n] > list[0].start /\ list[0].start \in Nat
      BY <1>2, <2>1, <2>2, <2>3
    <3>. QED  BY <3>1, ReachedGrows DEF Stepping
  <2>5. \A t \in Endless : Uptos'[t] > list[0].start
    BY <1>3, <2>4
  <2>6. BootAhead'
    BY <1>1, <1>2, <2>1, <2>3, <2>5 DEF BootAhead
  <2>. QED  BY <1>1, <1>2, <2>1, <2>6, AheadAtBoot DEF Stepping
<1>7. CASE AddOccurrence
  <2> DEFINE next == schedule_time + task_list[n].period
  <2>1. /\ pc = "occurrences" /\ AddToScheduledItemList(n, schedule_time, next)
        /\ pc' = "occurrences" \/ ~InArray(items)
        /\ converting' = n /\ finish_time' = finish_time
    BY <1>7 DEF AddOccurrence, Stored
  <2>2. next \in Nat
    <3>1. task_list[n] \in Task
      BY <1>2, Typed DEF Stepping, IInv
    <3>. QED  BY <1>2, <3>1 DEF Task
  <2>. HIDE DEF next
  <2>3. /\ items' = items + 1 /\ item_upto' = 0 /\ index_sorted_upto' = 0
        /\ \A i \in 0 .. items - 1 : Same(list'[i], list[i])
        /\ list'[items].task = n /\ list'[items].start = schedule_time
    BY <1>2, <2>1, <2>2, AddStays DEF Stepping, OnceInv
  <2>4. pc' = "occurrences"
    BY <1>2, <2>1, <2>3, ConstantsAssumption DEF RoomLeft, InArray, Stepping
  <2>5. /\ n \in Endless => finish_time > first
        /\ items = 0 => schedule_time <= tick
    BY <1>1, <1>2, <1>4, <2>1 DEF BootAhead
  <2>6. /\ list'[0].start = first /\ list'[0].task = 1 /\ items' > 0
        /\ first <= tick
    BY <1>2, <2>3, <2>5 DEF Same
  <2>7. \A t \in Endless : t # n => Uptos'[t] > first
    BY <1>2, <1>3
  <2>. HIDE DEF first, n
  <2>8. BootAhead'
    BY <1>1, <1>2, <2>1, <2>3, <2>4, <2>5, <2>6, <2>7 DEF BootAhead
  <2>. QED  BY <1>1, <2>3, <2>4, <2>6, <2>8, AheadAtBoot DEF Stepping
<1>. QED
  BY <1>5, <1>6, <1>7

\* Time passes while the requests are converted.
LEMMA BootTickAhead ==
  ASSUME Stepping, Booting, Tick \/ UNCHANGED vars
  PROVE  AheadInv'
<1>1. /\ caller' = caller /\ Booting' /\ tick' \in {tick, tick + 1}
      /\ UNCHANGED <<task_list, converting, schedule_time, finish_time>>
      /\ UNCHANGED <<list, items, item_upto, index_sorted_upto>>
  BY DEF Tick, vars, schedule_vars, convert_vars, Booting
<1>2. pc' = pc
  BY DEF Tick, TickAllowed, PreemptorDue, vars, Stepping, IInv, BootInv, Terminal, Booting
<1>3. Uptos' = Uptos /\ Endless' = Endless /\ Tasks' = Tasks
  BY <1>1, <1>2 DEF Uptos, EvaluatedUpto, Tasks, Endless
<1>4. items > 0 => list[0].start \in Nat
  BY SortedTypes DEF Stepping
<1>5. \A t \in Endless : Uptos[t] \in Nat
  BY UptosTyped DEF Endless, Stepping
<1>6. BootAhead'
  BY <1>1, <1>2, <1>3, <1>4, <1>5, PaceTypes, SMTT(30) DEF Stepping, AheadInv, BootAhead
<1>. QED
  BY <1>1, <1>2, <1>6, AheadAtBoot DEF Stepping, AheadInv, SortAhead, IInv, BootInv, Terminal

\* The run loop starts at the first update.
LEMMA StartRunLoopAhead ==
  ASSUME Stepping, StartRunLoop
  PROVE  AheadInv'
<1>1. /\ pc = "boot" /\ pc' = "loop" /\ Booting /\ ~Booting' /\ item_upto' = 0
      /\ UNCHANGED <<list, items, index_sorted_upto>> /\ request = Len(BootRequests)
      /\ pc \notin Terminal
  BY DEF StartRunLoop, Booting, Stepping, IInv, BootInv, Terminal
<1>2. Tasks # {}
  BY <1>1, FirstRequested DEF Stepping, AheadInv, TasksKnown
<1>3. /\ index_sorted_upto = 0 /\ items \in Nat /\ items > 0
      /\ list[0].task = 1 /\ list[0].start \in Nat
      /\ \A t \in Endless : Uptos[t] > list[0].start
  BY <1>1, <1>2, AtBoot DEF Stepping
<1>4. \A t \in Endless : Uptos'[t] > list[0].start
  BY <1>3, ReachedGrows DEF Stepping
<1>5. UpdateAfter(item_upto')
  BY <1>1, <1>3, <1>4 DEF UpdateAfter, Sorted, Stepping, EndlessSame
<1>. QED
  BY <1>1, <1>3, <1>5, AheadAfter DEF Stepping, AdderRuns, UpdateRuns

-----------------------------------------------------------------------------
(***************************************************************************)
(* Every step.                                                             *)
(***************************************************************************)
LEMMA AheadStep ==
  ASSUME OnlineFirst, NoRequestWaits, IInv, IInv', OnceInv, OnceInv', RoomLeft, RoomLeft',
         AheadInv, [Next]_vars
  PROVE  AheadInv'
<1>1. /\ TasksKnown' /\ AddersEnd' /\ TasksGrow
      /\ ~BootRequest => EndlessSame
  BY TasksKnownStep, AddersEndStep, TasksGrowStep DEF AheadInv, OnceInv
<1>2. CASE BootRequest
  <2>1. Tasks' \subseteq Tasks \cup {Place}
    BY <1>2, BootRequestMade DEF AheadInv, Storing, Stores, Tasks
  <2>2. \A t \in Tasks : FixedSame(t)
    BY FixedKept
  <2>3. \A t \in Endless' : t \in Endless \/ t = Place
    BY <2>1, <2>2 DEF Endless, FixedSame
  <2>. QED  BY <1>1, <1>2, <2>3, BootRequestAhead
<1>3. ASSUME ~BootRequest
      PROVE  AheadInv'
  <2>1. Stepping
    BY <1>1, <1>3 DEF Stepping
  <2>2. CASE BufferTooSmall
    BY <2>2 DEF BufferTooSmall, RoomLeft, IInv, TypeOK, Counters
  <2>3. CASE StartTask \/ EndTask \/ UninstallPreemptor \/ StartRunLoop
    BY <2>1, <2>3, StartTaskAhead, EndTaskAhead, UninstallAhead, StartRunLoopAhead
  <2>4. CASE Purge \/ NextTask \/ EndOnlineScheduler \/ AddOnTheFly
    BY <2>1, <2>4, PurgeAhead, NextTaskAhead, EndOnlineSchedulerAhead, AddOnTheFlyAhead
  <2>5. CASE BeginConversion \/ AddOccurrence \/ EndConversion
    BY <2>1, <2>5, BootConversionAhead, ConversionAhead, AddOccurrenceAhead
  <2>6. CASE Tick \/ UNCHANGED vars
    BY <2>1, <2>6, BootTickAhead, WaitAhead
  <2>7. CASE NextItem \/ KeyPoll \/ InstallPreemptor
    <3>1. ~Booting
      BY <2>7 DEF NextItem, KeyPoll, InstallPreemptor, IInv, BootInv, Terminal
    <3>. QED  BY <2>1, <2>7, <3>1, WaitAhead
  <2>. QED
    BY <1>3, <2>2, <2>3, <2>4, <2>5, <2>6, <2>7 DEF Next, RunLoop, TaskBodies
<1>. QED
  BY <1>2, <1>3

LEMMA InitAhead == OnlineFirst /\ Init => AheadInv
<1>. SUFFICES ASSUME OnlineFirst, Init PROVE AheadInv
  OBVIOUS
<1>1. /\ Tasks = {} /\ pc = "boot" /\ caller = "boot" /\ items = 0 /\ item_upto = 0
      /\ index_sorted_upto = 0 /\ request = 0 /\ Booting /\ Endless = {}
  BY DEF Init, Tasks, Booting, Endless
<1>. QED
  BY <1>1 DEF AheadInv, TasksKnown, AddersEnd, SortAhead, BootAhead, RunAhead

\* Tasks that are slower than the online scheduler are a case of those of any pace.
LEMMA SlowerComeFirst == SlowerThanOnline => OnlineFirst
<1>. SUFFICES ASSUME SlowerThanOnline PROVE OnlineFirst
  OBVIOUS
<1>1. BootRequests # <<>> /\ 1 \in 1 .. Len(BootRequests)
  BY ConstantsAssumption DEF SlowerThanOnline
<1>2. BootRequests[1].start = 0 /\ BootRequests[1].complete = 0
  BY <1>1 DEF SlowerThanOnline
<1>3. \A i \in 2 .. Len(BootRequests) :
        BootRequests[i].start = 0 /\ BootRequests[i].kind = "work"
  BY DEF SlowerThanOnline
<1>. QED
  BY <1>1, <1>2, <1>3 DEF OnlineFirst, SlowerThanOnline

\* Between the tasks, each endless task has been evaluated up to the next update.
LEMMA NextUpdateAhead ==
  ASSUME IInv, AheadInv
  PROVE  EvaluatedToNextUpdate
<1>. SUFFICES ASSUME BetweenTasks, NEW t \in Periodic, task_list[t].complete = 0
              PROVE  \E update \in PendingUpdates : update <= task_list[t].time_evaluated_upto
  BY DEF EvaluatedToNextUpdate
<1>1. Standing /\ ~Booting /\ pc # "occurrences"
  BY DEF BetweenTasks, Standing, IInv, BootInv, Terminal
<1>2. PICK i \in item_upto .. Sorted - 1 : list[i].task = 1 /\ Reached(list[i].start)
  BY <1>1 DEF AheadInv, RunAhead, UpdateFrom
<1>3. i \in item_upto .. items - 1 /\ i \in 0 .. items - 1 /\ t \in Tasks
  BY SortedTypes DEF Periodic
<1>4. 1 \in Tasks /\ list[i].start \in Nat
  BY <1>2, <1>3, SortedTypes
<1>5. list[i].start \in PendingUpdates
  BY <1>2, <1>3, <1>4 DEF PendingUpdates, AheadInv, TasksKnown
<1>6. Uptos[t] \in Nat /\ Uptos[t] = task_list[t].time_evaluated_upto /\ Uptos[t] > list[i].start
  BY <1>1, <1>2, <1>3, UptosTyped DEF Uptos, EvaluatedUpto, Reached, Endless, Periodic
<1>. QED
  BY <1>4, <1>5, <1>6

-----------------------------------------------------------------------------
(***************************************************************************)
(* The theorems on the list.                                               *)
(***************************************************************************)

\* When the tasks of the boot are called less often than the online scheduler, and
\* the list has room left, the invariants of the list hold in every state: each
\* occurrence is there once, in order and without a gap, none is ahead that has
\* run, and the next update is ahead of what the tasks have been evaluated up to.
THEOREM ListInOrder ==
  ASSUME SlowerThanOnline, NoRequestWaits
  PROVE  Spec /\ []RoomLeft => []OccurrencesInv
<1>1. Init => OnceInv /\ RanInv /\ PaceInv /\ AheadInv
  BY InitOnce, InitRan, InitPaced, InitAhead, SlowerComeFirst
<1>2. IInv /\ IInv' /\ OnceInv /\ RanInv /\ RoomLeft /\ RoomLeft' /\ PaceInv /\ AheadInv
      /\ [Next]_vars
        => OnceInv' /\ RanInv' /\ PaceInv' /\ AheadInv' /\ [PassedStay]_vars
  <2>. SUFFICES ASSUME IInv, IInv', OnceInv, RanInv, RoomLeft, RoomLeft', PaceInv, AheadInv,
                       [Next]_vars
                PROVE  OnceInv' /\ RanInv' /\ PaceInv' /\ AheadInv' /\ [PassedStay]_vars
    OBVIOUS
  <2>1. OnceInv' /\ PaceInv' /\ [PassedStay]_vars
    BY StepKeeps, PaceStep DEF Keeps, OnceInv
  <2>2. RanInv'
    BY <2>1, StepRuns DEF OnceInv
  <2>3. AheadInv'
    BY <2>1, AheadStep, SlowerComeFirst
  <2>. QED  BY <2>1, <2>2, <2>3
<1>3. RoomLeft /\ OnceInv /\ RanInv /\ PaceInv /\ AheadInv => OccurrencesInv
  BY DEF OccurrencesInv
<1>. QED
  BY <1>1, <1>2, <1>3, Invariance, PTL DEF Spec

\* So, whatever the bounds, the ticks and the purges, each item is run once and none
\* is passed without running.
THEOREM SlowTasksRun ==
  ASSUME SlowerThanOnline, NoRequestWaits
  PROVE  Spec /\ []RoomLeft => RunOnce /\ []NoneSkipped
<1>1. Spec /\ []RoomLeft => []OccurrencesInv
  BY ListInOrder
<1>2. IInv /\ IInv' /\ OccurrencesInv /\ OccurrencesInv' /\ [Next]_vars
        => [current = NoItem /\ current' # NoItem
              => <<current'.task, current'.start>> \notin executed]_vars
  BY StartsOnce DEF OccurrencesInv, OnceInv
<1>3. OccurrencesInv => NoneSkipped
  BY DEF OccurrencesInv, RanInv
<1>. QED
  BY <1>1, <1>2, <1>3, Invariance, PTL DEF Spec, RunOnce

\* With the requests of main(), and others like them, there is always a next run of
\* the online scheduler between the tasks, up to which every task without an end has
\* been evaluated (schedule.cpp:165): also with tasks that are called more often than
\* it, with some that run once and with one that adds another.
THEOREM AlwaysNextUpdate ==
  ASSUME OnlineFirst, NoRequestWaits
  PROVE  Spec /\ []RoomLeft => []EvaluatedToNextUpdate
<1>1. Init => OnceInv /\ AheadInv
  BY InitOnce, InitAhead
<1>2. IInv /\ IInv' /\ OnceInv /\ RoomLeft /\ RoomLeft' /\ AheadInv /\ [Next]_vars
        => OnceInv' /\ AheadInv'
  <2>. SUFFICES ASSUME IInv, IInv', OnceInv, RoomLeft, RoomLeft', AheadInv, [Next]_vars
                PROVE  OnceInv' /\ AheadInv'
    OBVIOUS
  <2>1. OnceInv'
    BY StepKeeps DEF Keeps, OnceInv
  <2>. QED  BY <2>1, AheadStep
<1>3. IInv /\ AheadInv => EvaluatedToNextUpdate
  BY NextUpdateAhead
<1>. QED
  BY <1>1, <1>2, <1>3, Invariance, PTL DEF Spec

=============================================================================
