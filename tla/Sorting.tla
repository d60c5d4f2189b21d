------------------------------ MODULE Sorting -------------------------------
(***************************************************************************)
(* Calls of k_qsort of module Heapsort on every array of up to MaxLength   *)
(* elements over a few keys, with every comparison function on these keys  *)
(* that puts no key in front of itself: that of the scheduler need be      *)
(* neither transitive nor antisymmetric.                                   *)
(***************************************************************************)
EXTENDS Heapsort, FiniteSets

CONSTANTS
  Keys,       \* what the elements are compared by
  MaxLength   \* bound: the length of the arrays

ASSUME SortingAssumption == MaxLength \in Nat

VARIABLES
  unsorted,   \* the array to sort
  compare,    \* the pairs for which the comparison function answers -1
  order,      \* what k_qsort did to the array
  sorted      \* whether it did

sorting_vars == <<unsorted, compare, order, sorted>>

Arrays == UNION {[0 .. n - 1 -> Keys] : n \in 0 .. MaxLength}

Before(x, y) == <<x, y>> \in compare

SortingInit ==
  /\ unsorted \in Arrays
  /\ compare \in SUBSET {p \in Keys \X Keys : p[1] # p[2]}
  /\ order = <<>>
  /\ sorted = FALSE

Sort ==
  /\ ~sorted
  /\ sorted' = TRUE
  /\ order' = k_qsort(0, Cardinality(DOMAIN unsorted),
                      {p \in (DOMAIN unsorted) \X (DOMAIN unsorted) :
                         Before(unsorted[p[1]], unsorted[p[2]])})
  /\ UNCHANGED <<unsorted, compare>>

SortingNext == Sort

SortingSpec == SortingInit /\ [][SortingNext]_sorting_vars

-----------------------------------------------------------------------------
\* The comparison function orders the keys: of two keys at most one goes before
\* the other, and what goes before a key goes before or behind every third.
OrdersKeys ==
  /\ \A x, y \in Keys : Before(x, y) => ~Before(y, x)
  /\ \A x, y, z \in Keys : Before(x, z) => Before(x, y) \/ Before(y, z)

\* Sorting an array only moves its elements, even when the comparison function
\* contradicts itself, as that of the scheduler may (schedule.cpp:72); and when
\* it orders the keys, no element is left behind one that it goes before
\* (utilities.cpp:64).
SortsArray ==
  sorted =>
    /\ IsRearrangement(order, 0, Cardinality(DOMAIN unsorted))
    /\ OrdersKeys => \A i, j \in DOMAIN order : i < j => ~Before(unsorted[order[j]], unsorted[order[i]])
=============================================================================
