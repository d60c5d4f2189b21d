------------------------------ MODULE Heapsort ------------------------------
(***************************************************************************)
(* k_qsort of src/src/runtime/utilities.cpp, which sorts the schedule.     *)
(*                                                                         *)
(* k_qsort is called with a comparison function and, since use_heapsort is *)
(* true, runs heapsort.  The comparison functions of this repository       *)
(* answer -1 or 1, so the parameter before is the set of the pairs <<x, y>> *)
(* with compare_func(x, y) < 0, the only question sift_down asks.          *)
(* check_sorted at the end of k_qsort ends the system when the answer is 0 *)
(* for two neighbours: no comparison function here ever answers that.      *)
(*                                                                         *)
(* An array of n elements is a function on 0 .. n - 1.  The recursion of   *)
(* the code is written with recursive functions over the array itself.     *)
(***************************************************************************)
EXTENDS Integers

\* A faulty memswap: the second element is not restored from the copy.
Swap_lost(a, i, j) == [a EXCEPT ![i] = a[j]]

\* The elements of the sub-array [0, n) that trade places in one swap().
Swap(a, i, j) == [a EXCEPT ![i] = a[j], ![j] = a[i]]

\* The larger child of the parent p, which has one: 2*p + 2 may be behind the end.
LargerChild(b, p, n, before) ==
  IF 2*p + 2 < n /\ <<b[2*p + 1], b[2*p + 2]>> \in before THEN 2*p + 2 ELSE 2*p + 1

(***************************************************************************)
(* sift_down: while the parent goes before its larger child, the two trade *)
(* places and the parent's place moves down.                               *)
(***************************************************************************)
MovesDown(b, p, n, before) == 2*p + 1 < n /\ <<b[p], b[LargerChild(b, p, n, before)]>> \in before

Sifting(Arrays, n, before) ==
  LET down[x \in Arrays \X Nat] ==
        IF MovesDown(x[1], x[2], n, before)
        THEN down[<<Swap(x[1], x[2], LargerChild(x[1], x[2], n, before)),
                    LargerChild(x[1], x[2], n, before)>>]
        ELSE x[1]
  IN  down

SiftDown(a, parent, n, before) ==
  Sifting([DOMAIN a -> {a[i] : i \in DOMAIN a}], n, before)[<<a, parent>>]

\* The number of elements with a child.
Parents(n) == n \div 2

\* heapsort builds the heap: heap[k] is the array once the parents from k on
\* have been sifted.
Heaping(a, n, before) ==
  LET heap[k \in 0 .. Parents(n)] ==
        IF k = Parents(n) THEN a ELSE SiftDown(heap[k + 1], k, n, before)
  IN  heap

\* Then it takes the largest element from it again and again: rest[k] is the
\* array once the places k .. n - 1 hold their final elements.
Extracting(a, n, before) ==
  LET rest[k \in 1 .. n] ==
        IF k = n THEN Heaping(a, n, before)[0] ELSE SiftDown(Swap(rest[k + 1], 0, k), 0, k, before)
  IN  rest

HeapSort(a, n, before) == IF n <= 1 THEN a ELSE Extracting(a, n, before)[1]

-----------------------------------------------------------------------------
\* The rearrangements of the places lo .. hi - 1.
IsRearrangement(order, lo, hi) ==
  /\ order \in [lo .. hi - 1 -> lo .. hi - 1]
  /\ \A i, j \in lo .. hi - 1 : order[i] = order[j] => i = j

(***************************************************************************)
(* The order in which k_qsort(&list[lo], hi - lo, ..) leaves the places lo *)
(* .. hi - 1 of a list, of which the pairs in before are such that the     *)
(* first goes before the second: place i then holds what was at order[i].  *)
(* A range that ends before it starts, which the code would reject as too  *)
(* long, never occurs: see SortRange in SchedulerProperties.               *)
(***************************************************************************)
k_qsort(lo, hi, before) ==
  LET n      == IF hi > lo THEN hi - lo ELSE 0
      sorted == HeapSort([i \in 0 .. n - 1 |-> lo + i], n, before)
  IN  [i \in lo .. hi - 1 |-> sorted[i - lo]]
=============================================================================
