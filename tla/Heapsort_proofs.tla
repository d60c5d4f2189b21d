--------------------------- MODULE Heapsort_proofs ---------------------------
(***************************************************************************)
(* Proofs about k_qsort, for arrays of every length and every comparison   *)
(* function: it only moves the elements of the array (SortRearranges), and *)
(* when the comparison function orders them, leaves none behind one that   *)
(* it goes before (SortOrders).                                            *)
(*                                                                         *)
(* The library's induction theorems are not used, as they quantify over    *)
(* operators; an induction here shows that a set of numbers is the whole   *)
(* range, from a smallest number it lacks.                                 *)
(***************************************************************************)
EXTENDS Heapsort, TLAPS, WellFoundedInduction

\* Every non-empty set of natural numbers has a smallest element.
LEMMA Smallest ==
  ASSUME NEW S, S \subseteq Nat, S # {}
  PROVE  \E x \in S : \A y \in S : x <= y
<1>1. PICK x \in S : \A y \in S : <<y, x>> \notin OpToRel(<, Nat)
  BY NatLessThanWellFounded, WFMin
<1>2. ASSUME NEW y \in S
      PROVE  <<y, x>> \in Nat \X Nat /\ <<y, x>>[1] = y /\ <<y, x>>[2] = x
  BY SMT
<1>3. ASSUME NEW y \in S, y < x
      PROVE  <<y, x>> \in OpToRel(<, Nat)
  BY <1>2, <1>3, Zenon DEF OpToRel
<1>4. \A y \in S : ~(y < x)
  BY <1>1, <1>3, Zenon
<1>. QED
  BY <1>4

\* A set that holds 0 and, with a number below m, the next one, holds 0 .. m.
LEMMA Upward ==
  ASSUME NEW m \in Nat, NEW S, 0 \in S,
         \A k \in 0 .. m - 1 : k \in S => k + 1 \in S
  PROVE  \A k \in 0 .. m : k \in S
<1> DEFINE Missing == {k \in 0 .. m : k \notin S}
<1>. SUFFICES ASSUME Missing # {} PROVE FALSE
  OBVIOUS
<1>1. PICK x \in Missing : \A y \in Missing : x <= y
  <2>1. Missing \subseteq Nat
    OBVIOUS
  <2>. HIDE DEF Missing
  <2>. QED  BY <2>1, Smallest
<1>2. x # 0 /\ x \in 1 .. m /\ x - 1 \in 0 .. m - 1 /\ x - 1 \notin Missing
  BY <1>1
<1>3. x - 1 \in S
  BY <1>2
<1>. QED
  BY <1>1, <1>2, <1>3

\* Two functions that agree at 0, and each time at the next number, agree at all.
LEMMA AgreeUpTo ==
  ASSUME NEW n \in Nat, NEW f, NEW g, f[0] = g[0],
         \A i \in 1 .. n : f[i - 1] = g[i - 1] => f[i] = g[i]
  PROVE  f[n] = g[n]
<1> DEFINE Same == {i \in 0 .. n : f[i] = g[i]}
<1>1. ASSUME NEW k \in 0 .. n - 1, k \in Same
      PROVE  k + 1 \in Same
  <2>1. k + 1 \in 1 .. n /\ (k + 1) - 1 = k /\ f[k] = g[k]
    BY <1>1
  <2>2. f[(k + 1) - 1] = g[(k + 1) - 1]
    BY <2>1, Zenon
  <2>3. f[k + 1] = g[k + 1]
    BY <2>1, <2>2, Zenon
  <2>. QED  BY <2>1, <2>3
<1>2. 0 \in Same
  OBVIOUS
<1>3. n \in Same
  <2>. HIDE DEF Same
  <2>1. \A k \in 0 .. n : k \in Same
    BY <1>1, <1>2, Upward
  <2>. QED  BY <2>1
<1>. QED
  BY <1>3

\* The same downwards, from m to its lower bound l.
LEMMA Downward ==
  ASSUME NEW l \in Nat, NEW m \in Nat, NEW S, l <= m, m \in S,
         \A k \in l .. m - 1 : k + 1 \in S => k \in S
  PROVE  \A k \in l .. m : k \in S
<1> DEFINE Missing == {k \in 0 .. m - l : m - k \notin S}
<1>. SUFFICES ASSUME Missing # {} PROVE FALSE
  <2>1. ASSUME NEW k \in l .. m, Missing = {}
        PROVE  k \in S
    <3>1. m - k \in 0 .. m - l /\ m - (m - k) = k
      OBVIOUS
    <3>2. m - k \notin Missing
      BY <2>1, Zenon
    <3>. QED  BY <3>1, <3>2
  <2>. QED  BY <2>1
<1>1. PICK x \in Missing : \A y \in Missing : x <= y
  <2>1. Missing \subseteq Nat
    OBVIOUS
  <2>. HIDE DEF Missing
  <2>. QED  BY <2>1, Smallest
<1>2. x # 0 /\ x - 1 \in 0 .. m - l /\ x - 1 \notin Missing
  BY <1>1
<1>3. m - (x - 1) \in S /\ m - x \in l .. m - 1 /\ (m - x) + 1 = m - (x - 1)
  BY <1>1, <1>2
<1>. QED
  BY <1>1, <1>3

\* A recursion from a, each time by the function F of the number and the result before.
GoesOn(h, F, a, n, A) ==
  h \in [0 .. n -> A] /\ h[0] = a /\ \A i \in 1 .. n : h[i] = F[<<i, h[i - 1]>>]

\* There is such an h.
LEMMA RecursionRuns ==
  ASSUME NEW n \in Nat, NEW A, NEW a \in A, NEW F \in [(1 .. n) \X A -> A]
  PROVE  \E h : GoesOn(h, F, a, n, A)
<1> DEFINE Runs(h, k) == h \in [0 .. k -> A] /\ h[0] = a /\ \A i \in 1 .. k : h[i] = F[<<i, h[i - 1]>>]
           Reached == {k \in 0 .. n : \E h : Runs(h, k)}
<1>1. 0 \in Reached
  <2>1. Runs([i \in 0 .. 0 |-> a], 0)
    OBVIOUS
  <2>. HIDE DEF Runs
  <2>. QED  BY <2>1
<1>2. ASSUME NEW k \in 0 .. n - 1, k \in Reached
      PROVE  k + 1 \in Reached
  <2>1. PICK h : Runs(h, k)
    BY <1>2, Zenon
  <2> DEFINE next == F[<<k + 1, h[k]>>]
             g == [i \in 0 .. k + 1 |-> IF i = k + 1 THEN next ELSE h[i]]
  <2>2. k \in 0 .. k /\ k + 1 \in 1 .. n /\ k + 1 \in 0 .. n /\ (k + 1) - 1 = k
        /\ \A i \in 0 .. k + 1 : i # k + 1 => i \in 0 .. k
    OBVIOUS
  <2>3. next \in A
    <3>1. h[k] \in A
      BY <2>1, <2>2
    <3>2. <<k + 1, h[k]>> \in (1 .. n) \X A
      BY <2>2, <3>1
    <3>. QED  BY <3>2
  <2>. HIDE DEF next
  <2>4. g \in [0 .. k + 1 -> A] /\ g[0] = a
    BY <2>1, <2>2, <2>3
  <2>5. \A i \in 0 .. k + 1 : g[i] = IF i = k + 1 THEN next ELSE h[i]
    OBVIOUS
  <2>. HIDE DEF g
  <2>6. ASSUME NEW i \in 1 .. k + 1
        PROVE  g[i] = F[<<i, g[i - 1]>>]
    <3>1. i \in 0 .. k + 1 /\ i - 1 \in 0 .. k + 1 /\ i - 1 # k + 1
      OBVIOUS
    <3>2. g[i - 1] = h[i - 1]
      BY <2>5, <3>1
    <3>3. CASE i = k + 1
      BY <2>2, <2>5, <3>1, <3>2, <3>3 DEF next
    <3>4. CASE i # k + 1
      <4>1. i \in 1 .. k
        BY <3>4
      <4>. QED  BY <2>1, <2>5, <3>1, <3>2, <3>4, <4>1
    <3>. QED  BY <3>3, <3>4
  <2>7. Runs(g, k + 1)
    BY <2>4, <2>6
  <2>. HIDE DEF Runs
  <2>. QED  BY <2>2, <2>7
<1>3. n \in Reached
  <2>. HIDE DEF Reached
  <2>1. \A k \in 0 .. n : k \in Reached
    BY <1>1, <1>2, Upward
  <2>2. n \in 0 .. n
    OBVIOUS
  <2>. QED  BY <2>1, <2>2
<1>. QED
  BY <1>3, Zenon DEF GoesOn

-----------------------------------------------------------------------------
(***************************************************************************)
(* Arrays of distinct elements, such as the places k_qsort sorts, and      *)
(* heaps in them.                                                          *)
(***************************************************************************)
Distinct(b, N) == \A i, j \in 0 .. N - 1 : b[i] = b[j] => i = j

Children(i) == {2*i + 1, 2*i + 2}

\* No parent from r on goes before a child, in the first m elements.
InHeap(b, r, m, before) ==
  \A i \in r .. m - 1 : \A c \in Children(i) : c < m => <<b[i], b[c]>> \notin before

\* The same but for the parent p, whose children do not come behind p's parent.
InHeapBut(b, r, p, m, before) ==
  /\ p >= r
  /\ \A i \in r .. m - 1 : i # p =>
       \A c \in Children(i) : c < m => <<b[i], b[c]>> \notin before
  /\ \A q \in r .. m - 1 : p \in Children(q) =>
       \A c \in Children(p) : c < m => <<b[q], b[c]>> \notin before

\* before orders the elements of V: of two at most one goes before the other,
\* and what goes before one goes before or behind every third.
Orders(V, before) ==
  /\ \A x, y \in V : <<x, y>> \in before => <<y, x>> \notin before
  /\ \A x, y, z \in V : <<x, z>> \in before => <<x, y>> \in before \/ <<y, z>> \in before

\* What sifting may do to the first m elements of an array b of N elements of
\* V: d has the same elements, those from m on at the same places, and is in
\* heap from r on if b was but for p.
Sifted(b, p, m, N, V, before, d) ==
  /\ d \in [0 .. N - 1 -> V]
  /\ Distinct(b, N) => Distinct(d, N)
  /\ \A i \in 0 .. N - 1 : i >= m => d[i] = b[i]
  /\ \A i \in 0 .. N - 1 : i < m => \E j \in 0 .. m - 1 : d[i] = b[j]
  /\ Orders(V, before) =>
       \A r \in Nat : InHeapBut(b, r, p, m, before) => InHeap(d, r, m, before)

\* The larger child is a child, and no other child is larger.
LEMMA LargerChildIs ==
  ASSUME NEW N \in Nat, NEW V, NEW b \in [0 .. N - 1 -> V], NEW m \in 0 .. N,
         NEW p \in Nat, 2*p + 1 < m, NEW before
  PROVE  /\ LargerChild(b, p, m, before) \in Children(p)
         /\ LargerChild(b, p, m, before) \in p + 1 .. m - 1
         /\ Orders(V, before) =>
              \A c \in Children(p) :
                c < m => <<b[LargerChild(b, p, m, before)], b[c]>> \notin before
<1> DEFINE child == LargerChild(b, p, m, before)
<1>1. /\ child = 2*p + 1 \/ (child = 2*p + 2 /\ 2*p + 2 < m)
      /\ child \in Children(p) /\ child \in p + 1 .. m - 1
  BY DEF LargerChild, Children
<1>2. ASSUME Orders(V, before), NEW c \in Children(p), c < m
      PROVE  <<b[child], b[c]>> \notin before
  <2>1. /\ c \in {2*p + 1, 2*p + 2} /\ c \in 0 .. N - 1 /\ child \in 0 .. N - 1
        /\ b[c] \in V /\ b[child] \in V
    BY <1>1, <1>2 DEF Children
  <2>2. CASE c = child
    BY <1>2, <2>1, <2>2 DEF Orders
  <2>3. CASE c # child /\ child = 2*p + 1
    BY <1>2, <2>1, <2>3 DEF LargerChild
  <2>4. CASE c # child /\ child = 2*p + 2
    <3>1. <<b[c], b[child]>> \in before
      BY <2>1, <2>4 DEF LargerChild
    <3>. QED  BY <1>2, <2>1, <3>1 DEF Orders
  <2>. QED  BY <1>1, <2>2, <2>3, <2>4
<1>. QED  BY <1>1, <1>2

-----------------------------------------------------------------------------
(***************************************************************************)
(* sift_down.                                                              *)
(***************************************************************************)

\* Where the parent does not move down, the array is in heap there.
LEMMA SiftRests ==
  ASSUME NEW N \in Nat, NEW V, NEW b \in [0 .. N - 1 -> V], NEW m \in 0 .. N,
         NEW p \in Nat, NEW before, ~MovesDown(b, p, m, before)
  PROVE  Sifted(b, p, m, N, V, before, b)
<1>1. ASSUME Orders(V, before), NEW r \in Nat, InHeapBut(b, r, p, m, before)
      PROVE  InHeap(b, r, m, before)
  <2>. SUFFICES ASSUME NEW i \in r .. m - 1, NEW c \in Children(i), c < m
                PROVE  <<b[i], b[c]>> \notin before
    BY DEF InHeap
  <2>1. CASE i # p
    BY <1>1, <2>1 DEF InHeapBut
  <2>2. CASE i = p
    <3> DEFINE child == LargerChild(b, p, m, before)
    <3>1. 2*p + 1 < m
      BY <2>2 DEF Children
    <3>2. /\ child \in p + 1 .. m - 1
          /\ \A e \in Children(p) : e < m => <<b[child], b[e]>> \notin before
      BY <1>1, <3>1, LargerChildIs, Zenon
    <3>5. /\ child \in 0 .. N - 1 /\ p \in 0 .. N - 1 /\ c \in 0 .. N - 1
          /\ <<b[child], b[c]>> \notin before
      <4>1. c \in Children(p) /\ <<b[child], b[c]>> \notin before
        BY <2>2, <3>2
      <4>2. c \in {2*p + 1, 2*p + 2}
        BY <4>1 DEF Children
      <4>. HIDE DEF child
      <4>. QED  BY <3>2, <4>1, <4>2
    <3>3. <<b[p], b[child]>> \notin before
      BY <3>1 DEF MovesDown
    <3>4. b[child] \in V /\ b[p] \in V /\ b[c] \in V
      BY <3>5
    <3>. QED  BY <1>1, <2>2, <3>3, <3>4, <3>5 DEF Orders
  <2>. QED  BY <2>1, <2>2
<1>. QED
  BY <1>1 DEF Sifted

\* Where it trades places with its larger child, what is left is to sift that.
LEMMA SiftMoves ==
  ASSUME NEW N \in Nat, NEW V, NEW b \in [0 .. N - 1 -> V], NEW m \in 0 .. N,
         NEW p \in Nat, NEW before, MovesDown(b, p, m, before),
         NEW child, child = LargerChild(b, p, m, before),
         NEW d, Sifted(Swap(b, p, child), child, m, N, V, before, d)
  PROVE  Sifted(b, p, m, N, V, before, d)
<1> DEFINE s == Swap(b, p, child)
<1>1. 2*p + 1 < m /\ <<b[p], b[child]>> \in before
  BY DEF MovesDown
<1>2. /\ child \in Children(p) /\ child \in p + 1 .. m - 1
      /\ Orders(V, before) =>
           \A c \in Children(p) : c < m => <<b[child], b[c]>> \notin before
  BY <1>1, LargerChildIs
<1>3. p \in 0 .. N - 1 /\ child \in 0 .. N - 1 /\ p \in 0 .. m - 1 /\ child # p
  BY <1>1, <1>2
<1>4. /\ s \in [0 .. N - 1 -> V]
      /\ s[p] = b[child] /\ s[child] = b[p]
      /\ \A k \in 0 .. N - 1 : k # p /\ k # child => s[k] = b[k]
      /\ Distinct(b, N) => Distinct(s, N)
  <2>1. s \in [0 .. N - 1 -> V]
    BY <1>3 DEF Swap
  <2>2. s[p] = b[child] /\ s[child] = b[p]
    BY <1>3 DEF Swap
  <2>3. \A k \in 0 .. N - 1 : k # p /\ k # child => s[k] = b[k]
    BY <1>3 DEF Swap
  <2>4. ASSUME Distinct(b, N)
        PROVE  Distinct(s, N)
    <3>. HIDE DEF s
    <3>. QED  BY <1>3, <2>2, <2>3, <2>4 DEF Distinct
  <2>. QED  BY <2>1, <2>2, <2>3, <2>4
<1>. HIDE DEF s
<1>5. Sifted(s, child, m, N, V, before, d)
  BY DEF s
<1>6. \A i \in 0 .. N - 1 : i >= m => d[i] = b[i]
  BY <1>2, <1>3, <1>4, <1>5 DEF Sifted
<1>7. ASSUME NEW i \in 0 .. N - 1, i < m
      PROVE  \E j \in 0 .. m - 1 : d[i] = b[j]
  <2>1. PICK j \in 0 .. m - 1 : d[i] = s[j]
    BY <1>5, <1>7 DEF Sifted
  <2>2. j \in 0 .. N - 1 /\ child \in 0 .. m - 1
    BY <1>2, <1>3
  <2>. QED  BY <1>3, <1>4, <2>1, <2>2
<1>8. ASSUME Orders(V, before), NEW r \in Nat, InHeapBut(b, r, p, m, before)
      PROVE  InHeapBut(s, r, child, m, before)
  <2>1. ASSUME NEW i \in r .. m - 1, i # child, NEW c \in Children(i), c < m
        PROVE  <<s[i], s[c]>> \notin before
    <3>1. i \in 0 .. N - 1 /\ c \in 0 .. N - 1 /\ b[i] \in V /\ b[c] \in V /\ b[p] \in V /\ b[child] \in V
      BY <1>3, <2>1 DEF Children
    <3>2. CASE i = p
      <4>1. s[i] = b[child]
        BY <1>3, <1>4, <3>1, <3>2
      <4>2. CASE c = child
        <5>1. s[c] = b[p]
          BY <1>4, <3>1, <4>2
        <5>. QED  BY <1>1, <1>8, <3>1, <4>1, <5>1 DEF Orders
      <4>3. CASE c # child
        <5>1. s[c] = b[c]
          BY <1>4, <2>1, <3>1, <3>2, <4>3 DEF Children
        <5>. QED  BY <1>2, <1>8, <2>1, <3>2, <4>1, <5>1
      <4>. QED  BY <4>2, <4>3
    <3>3. CASE i # p
      <4>1. s[i] = b[i] /\ c # child
        BY <1>2, <1>4, <2>1, <3>1, <3>3 DEF Children
      <4>2. CASE c = p
        <5>1. s[c] = b[child]
          BY <1>3, <1>4, <4>2
        <5>2. <<b[i], b[child]>> \notin before
          BY <1>2, <1>8, <2>1, <4>2 DEF InHeapBut
        <5>. QED  BY <4>1, <5>1, <5>2
      <4>3. CASE c # p
        <5>1. s[c] = b[c]
          BY <1>4, <3>1, <4>1, <4>3
        <5>. QED  BY <1>8, <2>1, <3>3, <4>1, <5>1 DEF InHeapBut
      <4>. QED  BY <4>2, <4>3
    <3>. QED  BY <3>2, <3>3
  <2>2. ASSUME NEW q \in r .. m - 1, child \in Children(q), NEW c \in Children(child), c < m
        PROVE  <<s[q], s[c]>> \notin before
    <3>1. q = p /\ c \in 0 .. N - 1 /\ c # p /\ c # child
      <4>1. q \in Nat /\ child \in {2*q + 1, 2*q + 2} /\ child \in {2*p + 1, 2*p + 2}
        BY <1>2, <2>2 DEF Children
      <4>2. c \in {2*child + 1, 2*child + 2}
        BY <2>2 DEF Children
      <4>3. c < m /\ child > p
        BY <1>2, <2>2
      <4>4. q = p
        BY <4>1
      <4>. QED  BY <1>2, <4>2, <4>3, <4>4
    <3>2. s[q] = b[child] /\ s[c] = b[c]
      BY <1>3, <1>4, <3>1
    <3>3. child \in r .. m - 1
      BY <1>2, <2>2, <3>1
    <3>. QED  BY <1>3, <1>8, <2>2, <3>2, <3>3 DEF InHeapBut
  <2>3. child >= r
    BY <1>2, <1>8 DEF InHeapBut
  <2>. QED
    BY <2>1, <2>2, <2>3 DEF InHeapBut
<1>. QED
  BY <1>4, <1>5, <1>6, <1>7, <1>8 DEF Sifted

\* The recursion of sift_down, as an equation for what it makes of every array
\* in A and place.
SiftsDown(f, A, m, before) ==
  \A b \in A : \A p \in Nat :
    f[<<b, p>>] = IF MovesDown(b, p, m, before)
                  THEN f[<<Swap(b, p, LargerChild(b, p, m, before)),
                           LargerChild(b, p, m, before)>>]
                  ELSE b

\* It has a solution, as it goes down to larger places.
LEMMA SiftingDefined ==
  ASSUME NEW N \in Nat, NEW V, NEW m \in 0 .. N, NEW before,
         NEW A, A = [0 .. N - 1 -> V]
  PROVE  SiftsDown(Sifting(A, m, before), A, m, before)
<1> DEFINE Moves(x) == MovesDown(x[1], x[2], m, before)
           Then(x)  == <<Swap(x[1], x[2], LargerChild(x[1], x[2], m, before)),
                         LargerChild(x[1], x[2], m, before)>>
           X == A \X Nat
           Solved(f, k) == \A x \in X : x[2] >= m - k => f[x] = IF Moves(x) THEN f[Then(x)] ELSE x[1]
           S == {k \in 0 .. m : \E f : f = [x \in X |-> f[x]] /\ Solved(f, k)}
<1>1. ASSUME NEW x \in X, Moves(x)
      PROVE  Then(x) \in X /\ Then(x)[2] > x[2] /\ x[2] < m
  <2> DEFINE b == x[1]
             p == x[2]
             child == LargerChild(b, p, m, before)
  <2>1. b \in [0 .. N - 1 -> V] /\ p \in Nat /\ 2*p + 1 < m
    BY <1>1 DEF MovesDown
  <2>2. child \in p + 1 .. m - 1
    <3>. HIDE DEF b, p
    <3>. QED  BY <2>1, LargerChildIs
  <2>3. Swap(b, p, child) \in [0 .. N - 1 -> V]
    <3>1. p \in 0 .. N - 1 /\ child \in 0 .. N - 1
      <4>. HIDE DEF child, b, p
      <4>. QED  BY <2>1, <2>2
    <3>. HIDE DEF b, p, child
    <3>. QED  BY <2>1, <3>1 DEF Swap
  <2>4. Then(x) = <<Swap(b, p, child), child>>
    OBVIOUS
  <2>. HIDE DEF b, p, child, Then
  <2>. QED  BY <2>1, <2>2, <2>3, <2>4 DEF p
<1>2. \A x \in X : x[2] \in Nat
  OBVIOUS
<1>. HIDE DEF Moves, Then, X
<1>3. 0 \in S
  <2> DEFINE f == [x \in X |-> x[1]]
  <2>1. Solved(f, 0)
    BY <1>1, <1>2
  <2>2. f = [x \in X |-> f[x]]
    OBVIOUS
  <2>. HIDE DEF f, Solved
  <2>. QED  BY <2>1, <2>2
<1>4. ASSUME NEW k \in 0 .. m - 1, k \in S
      PROVE  k + 1 \in S
  <2>1. PICK f : f = [x \in X |-> f[x]] /\ Solved(f, k)
    BY <1>4
  <2> DEFINE g == [x \in X |-> IF x[2] >= m - k THEN f[x]
                               ELSE IF Moves(x) THEN f[Then(x)] ELSE x[1]]
  <2>2. ASSUME NEW x \in X, x[2] >= m - (k + 1)
        PROVE  g[x] = IF Moves(x) THEN g[Then(x)] ELSE x[1]
    <3>1. g[x] = IF Moves(x) THEN f[Then(x)] ELSE x[1]
      BY <2>1
    <3>2. ASSUME Moves(x)
          PROVE  g[Then(x)] = f[Then(x)]
      <4>1. Then(x) \in X /\ Then(x)[2] >= m - k
        BY <1>1, <1>2, <2>2, <3>2
      <4>. QED  BY <4>1
    <3>. HIDE DEF g
    <3>. QED  BY <3>1, <3>2
  <2>3. g = [x \in X |-> g[x]]
    OBVIOUS
  <2>4. k + 1 \in 0 .. m
    OBVIOUS
  <2>. HIDE DEF g
  <2>. QED  BY <2>2, <2>3, <2>4
<1>5. m \in S
  <2>1. m \in Nat /\ m \in 0 .. m
    OBVIOUS
  <2>. HIDE DEF S
  <2>2. \A k \in 0 .. m : k \in S
    BY <1>3, <1>4, <2>1, Upward
  <2>. QED  BY <2>1, <2>2
<1>6. PICK f : f = [x \in X |-> f[x]] /\ Solved(f, m)
  BY <1>5
<1>7. f = [x \in X |-> IF Moves(x) THEN f[Then(x)] ELSE x[1]]
  <2>1. \A x \in X : f[x] = IF Moves(x) THEN f[Then(x)] ELSE x[1]
    BY <1>2, <1>6
  <2>2. [x \in X |-> f[x]] = [x \in X |-> IF Moves(x) THEN f[Then(x)] ELSE x[1]]
    BY <2>1, Zenon
  <2>. QED  BY <1>6, <2>2, Zenon
<1>8. Sifting(A, m, before) =
        [x \in X |-> IF Moves(x) THEN Sifting(A, m, before)[Then(x)] ELSE x[1]]
  BY <1>7, Zenon DEF Sifting, Moves, Then, X
<1>9. ASSUME NEW b \in A, NEW p \in Nat
      PROVE  <<b, p>> \in X /\ <<b, p>>[1] = b /\ <<b, p>>[2] = p
  BY DEF X
<1>. QED
  BY <1>8, <1>9, ZenonT(60) DEF SiftsDown, Moves, Then

LEMMA SiftingSifts ==
  ASSUME NEW N \in Nat, NEW V, NEW m \in 0 .. N, NEW before,
         NEW A, A = [0 .. N - 1 -> V]
  PROVE  \A b \in A : \A p \in Nat :
           Sifted(b, p, m, N, V, before, Sifting(A, m, before)[<<b, p>>])
<1> DEFINE down == Sifting(A, m, before)
           S == {k \in 0 .. m : \A b \in A : \A p \in Nat :
                   p >= m - k => Sifted(b, p, m, N, V, before, down[<<b, p>>])}
<1>5. \A b \in A : \A p \in Nat :
        down[<<b, p>>] = IF MovesDown(b, p, m, before)
                         THEN down[<<Swap(b, p, LargerChild(b, p, m, before)),
                                     LargerChild(b, p, m, before)>>]
                         ELSE b
  <2>1. SiftsDown(down, A, m, before)
    BY SiftingDefined
  <2>. QED  BY <2>1, Zenon DEF SiftsDown
<1>1. ASSUME NEW b \in A, NEW p \in Nat, ~MovesDown(b, p, m, before)
      PROVE  Sifted(b, p, m, N, V, before, down[<<b, p>>])
  <2>. HIDE DEF down
  <2>1. down[<<b, p>>] = b /\ b \in [0 .. N - 1 -> V]
    BY <1>1, <1>5
  <2>. QED  BY <1>1, <2>1, SiftRests
<1>2. 0 \in S
  <2>1. ASSUME NEW b \in A, NEW p \in Nat, p >= m
        PROVE  ~MovesDown(b, p, m, before)
    BY <2>1 DEF MovesDown
  <2>. HIDE DEF down
  <2>. QED  BY <1>1, <2>1
<1>3. ASSUME NEW k \in 0 .. m - 1, k \in S
      PROVE  k + 1 \in S
  <2>. SUFFICES ASSUME NEW b \in A, NEW p \in Nat, p >= m - (k + 1),
                       MovesDown(b, p, m, before)
                PROVE  Sifted(b, p, m, N, V, before, down[<<b, p>>])
    <3>. HIDE DEF down
    <3>. QED  BY <1>1
  <2> DEFINE child == LargerChild(b, p, m, before)
  <2>1. b \in [0 .. N - 1 -> V] /\ 2*p + 1 < m
    BY DEF MovesDown
  <2>2. child \in p + 1 .. m - 1
    BY <2>1, LargerChildIs
  <2>3. Swap(b, p, child) \in A
    <3>. HIDE DEF child
    <3>1. p \in 0 .. N - 1 /\ child \in 0 .. N - 1
      BY <2>1, <2>2
    <3>. QED  BY <2>1, <3>1 DEF Swap
  <2>4. down[<<b, p>>] = down[<<Swap(b, p, child), child>>]
    BY <1>5, Zenon
  <2>5. Sifted(Swap(b, p, child), child, m, N, V, before, down[<<Swap(b, p, child), child>>])
    <3>1. child \in Nat /\ child >= m - k
      <4>. HIDE DEF child
      <4>. QED  BY <2>2
    <3>. HIDE DEF down, child
    <3>. QED  BY <1>3, <2>3, <3>1
  <2>. QED
    <3>. HIDE DEF down
    <3>. QED  BY <2>1, <2>4, <2>5, SiftMoves
<1>4. m \in S
  <2>1. m \in Nat /\ m \in 0 .. m
    OBVIOUS
  <2>. HIDE DEF S
  <2>2. \A k \in 0 .. m : k \in S
    BY <1>2, <1>3, <2>1, Upward
  <2>. QED  BY <2>1, <2>2
<1>. QED
  <2>. HIDE DEF down
  <2>1. \A b \in A : \A p \in Nat : Sifted(b, p, m, N, V, before, down[<<b, p>>])
    <3>1. \A b \in A : \A p \in Nat :
            p >= m - m => Sifted(b, p, m, N, V, before, down[<<b, p>>])
      BY <1>4, Zenon
    <3>2. \A p \in Nat : p >= m - m
      OBVIOUS
    <3>. QED  BY <3>1, <3>2, Zenon
  <2>. QED  BY <2>1 DEF down

LEMMA SiftDownSifts ==
  ASSUME NEW N \in Nat, NEW V, NEW b \in [0 .. N - 1 -> V], NEW m \in 0 .. N,
         NEW p \in Nat, NEW before
  PROVE  Sifted(b, p, m, N, V, before, SiftDown(b, p, m, before))
<1> DEFINE W == {b[i] : i \in DOMAIN b}
           d == SiftDown(b, p, m, before)
<1>1. W \subseteq V /\ b \in [0 .. N - 1 -> W] /\ DOMAIN b = 0 .. N - 1
  OBVIOUS
<1>2. d = Sifting([0 .. N - 1 -> W], m, before)[<<b, p>>]
  BY <1>1 DEF SiftDown
<1>. HIDE DEF W, d
<1>3. Sifted(b, p, m, N, W, before, d)
  BY <1>1, <1>2, SiftingSifts
<1>4. d \in [0 .. N - 1 -> V] /\ (Orders(V, before) => Orders(W, before))
  BY <1>1, <1>3 DEF Sifted, Orders
<1>5. Sifted(b, p, m, N, V, before, d)
  BY <1>3, <1>4 DEF Sifted
<1>. QED
  BY <1>5 DEF d

-----------------------------------------------------------------------------
(***************************************************************************)
(* heapsort.                                                               *)
(***************************************************************************)

\* h starts as a at m and goes on downwards by the function F.
Iterates(h, F, a, l, m, A) ==
  h \in [l .. m -> A] /\ h[m] = a /\ \A k \in l .. m - 1 : h[k] = F[<<k, h[k + 1]>>]

\* There is such an h for all numbers down to l.
LEMMA Iterated ==
  ASSUME NEW l \in Nat, NEW m \in Nat, l <= m, NEW A, NEW a \in A,
         NEW F \in [(l .. m - 1) \X A -> A]
  PROVE  \E h : Iterates(h, F, a, l, m, A)
<1> DEFINE Goes(h, j) == h[m] = a /\ \A k \in j .. m - 1 : h[k] = F[<<k, h[k + 1]>>]
           S == {j \in l .. m : \E h \in [j .. m -> A] : Goes(h, j)}
<1>1. m \in S
  <2> DEFINE h == [k \in m .. m |-> a]
  <2>1. h \in [m .. m -> A] /\ Goes(h, m)
    OBVIOUS
  <2>2. m \in l .. m
    OBVIOUS
  <2>. HIDE DEF h, Goes
  <2>. QED  BY <2>1, <2>2
<1>2. ASSUME NEW j \in l .. m - 1, j + 1 \in S
      PROVE  j \in S
  <2>1. PICK h \in [j + 1 .. m -> A] : Goes(h, j + 1)
    BY <1>2
  <2> DEFINE g == [k \in j .. m |-> IF k = j THEN F[<<j, h[j + 1]>>] ELSE h[k]]
  <2>2. h[j + 1] \in A /\ <<j, h[j + 1]>> \in (l .. m - 1) \X A
    <3>1. j + 1 \in j + 1 .. m
      OBVIOUS
    <3>. QED  BY <3>1
  <2>3. F[<<j, h[j + 1]>>] \in A
    BY <2>2
  <2>4. \A k \in j .. m : k # j => k \in j + 1 .. m
    OBVIOUS
  <2>5. g \in [j .. m -> A]
    BY <2>3, <2>4
  <2>6. g[m] = a
    BY <2>1
  <2>7. ASSUME NEW k \in j .. m - 1
        PROVE  g[k] = F[<<k, g[k + 1]>>]
    <3>1. k \in j .. m /\ k + 1 \in j .. m /\ k + 1 # j
      OBVIOUS
    <3>2. g[k + 1] = h[k + 1]
      BY <3>1
    <3>3. CASE k = j
      BY <3>1, <3>2, <3>3
    <3>4. CASE k # j
      <4>1. k \in j + 1 .. m - 1
        BY <3>4
      <4>2. h[k] = F[<<k, h[k + 1]>>]
        BY <2>1, <4>1
      <4>3. g[k] = h[k]
        BY <3>1, <3>4
      <4>. HIDE DEF g
      <4>. QED  BY <3>2, <4>2, <4>3
    <3>. QED  BY <3>3, <3>4
  <2>8. j \in l .. m
    OBVIOUS
  <2>. HIDE DEF g
  <2>. QED  BY <2>5, <2>6, <2>7, <2>8
<1>3. l \in S
  <2>1. l \in l .. m
    OBVIOUS
  <2>. HIDE DEF S
  <2>2. \A k \in l .. m : k \in S
    BY <1>1, <1>2, Downward
  <2>. QED  BY <2>1, <2>2
<1>. QED
  BY <1>3 DEF Iterates

\* The recursions of the two phases, as equations.
HeapsUp(heap, a, n, before) ==
  /\ heap[Parents(n)] = a
  /\ \A k \in 0 .. Parents(n) - 1 : heap[k] = SiftDown(heap[k + 1], k, n, before)

Extracts(rest, a, n, before) ==
  /\ rest[n] = a
  /\ \A k \in 1 .. n - 1 : rest[k] = SiftDown(Swap(rest[k + 1], 0, k), 0, k, before)

LEMMA HeapingDefined ==
  ASSUME NEW n \in Nat, NEW V, NEW a \in [0 .. n - 1 -> V], NEW before
  PROVE  /\ Parents(n) \in Nat /\ 2 * Parents(n) <= n /\ n <= 2 * Parents(n) + 1
         /\ HeapsUp(Heaping(a, n, before), a, n, before)
<1> DEFINE A == [0 .. n - 1 -> V]
           m == Parents(n)
           F == [x \in (0 .. m - 1) \X A |-> SiftDown(x[2], x[1], n, before)]
           Next(h, k) == IF k = m THEN a ELSE SiftDown(h[k + 1], k, n, before)
<1>1. m \in Nat /\ 2 * m <= n /\ n <= 2 * m + 1
  BY DEF Parents
<1>. HIDE DEF m
<1>2. ASSUME NEW k \in 0 .. m - 1, NEW b \in A
      PROVE  SiftDown(b, k, n, before) \in A /\ F[<<k, b>>] = SiftDown(b, k, n, before)
  <2>1. n \in 0 .. n /\ k \in Nat /\ <<k, b>> \in (0 .. m - 1) \X A
    OBVIOUS
  <2>2. SiftDown(b, k, n, before) \in A
    BY <2>1, SiftDownSifts DEF Sifted
  <2>. QED  BY <2>1, <2>2
<1>3. F \in [(0 .. m - 1) \X A -> A]
  <2>1. \A x \in (0 .. m - 1) \X A : SiftDown(x[2], x[1], n, before) \in A
    BY <1>2
  <2>. QED  BY <2>1
<1>. HIDE DEF F, A
<1>4. PICK h \in [0 .. m -> A] :
        h[m] = a /\ \A k \in 0 .. m - 1 : h[k] = F[<<k, h[k + 1]>>]
  <2>1. a \in A
    BY DEF A
  <2>2. 0 \in Nat /\ 0 <= m
    BY <1>1
  <2>3. \E h : Iterates(h, F, a, 0, m, A)
    BY <1>1, <1>3, <2>1, <2>2, Iterated
  <2>. QED  BY <2>3 DEF Iterates
<1>5. ASSUME NEW k \in 0 .. m
      PROVE  h[k] = Next(h, k)
  <2>1. CASE k = m
    BY <1>4, <2>1
  <2>2. CASE k # m
    <3>1. k \in 0 .. m - 1 /\ k + 1 \in 0 .. m
      BY <1>1, <2>2
    <3>2. h[k + 1] \in A
      BY <1>4, <3>1
    <3>. QED  BY <1>2, <1>4, <2>2, <3>1, <3>2
  <2>. QED  BY <2>1, <2>2
<1>6. h = [k \in 0 .. m |-> Next(h, k)]
  <2>1. h = [k \in 0 .. m |-> h[k]]
    BY <1>4
  <2>2. [k \in 0 .. m |-> h[k]] = [k \in 0 .. m |-> Next(h, k)]
    BY <1>5, Zenon
  <2>. QED  BY <2>1, <2>2, Zenon
<1>7. Heaping(a, n, before) = [k \in 0 .. m |-> Next(Heaping(a, n, before), k)]
  BY <1>6, Zenon DEF Heaping, m
<1>. HIDE DEF Next
<1>8. \A k \in 0 .. m : Heaping(a, n, before)[k] = Next(Heaping(a, n, before), k)
  BY <1>7, Zenon
<1>9. /\ Heaping(a, n, before)[m] = a
      /\ \A k \in 0 .. m - 1 :
           Heaping(a, n, before)[k] = SiftDown(Heaping(a, n, before)[k + 1], k, n, before)
  BY <1>1, <1>8 DEF Next
<1>. QED
  BY <1>1, <1>9 DEF m, HeapsUp

\* After the first phase the array is a heap of the same elements.
LEMMA Heaps ==
  ASSUME NEW n \in Nat, NEW V, NEW a \in [0 .. n - 1 -> V], Distinct(a, n), NEW before
  PROVE  LET b == Heaping(a, n, before)[0] IN
         /\ b \in [0 .. n - 1 -> V] /\ Distinct(b, n)
         /\ Orders(V, before) => InHeap(b, 0, n, before)
<1> DEFINE heap == Heaping(a, n, before)
           m == Parents(n)
           Good(k) == /\ heap[k] \in [0 .. n - 1 -> V] /\ Distinct(heap[k], n)
                      /\ Orders(V, before) => InHeap(heap[k], k, n, before)
           S == {k \in 0 .. m : Good(k)}
<1>1. /\ m \in Nat /\ n <= 2 * m + 1 /\ heap[m] = a
      /\ \A k \in 0 .. m - 1 : heap[k] = SiftDown(heap[k + 1], k, n, before)
  <2>1. HeapsUp(heap, a, n, before) /\ m \in Nat /\ n <= 2 * m + 1
    BY HeapingDefined
  <2>. QED  BY <2>1, Zenon DEF HeapsUp
<1>. HIDE DEF m, heap
<1>2. m \in S
  <2>1. InHeap(a, m, n, before)
    BY <1>1 DEF InHeap, Children
  <2>. QED  BY <1>1, <2>1
<1>3. ASSUME NEW k \in 0 .. m - 1, k + 1 \in S
      PROVE  k \in S
  <2> DEFINE b == heap[k + 1]
             d == heap[k]
  <2>1. /\ b \in [0 .. n - 1 -> V] /\ Distinct(b, n) /\ k \in 0 .. m /\ k \in Nat /\ n \in 0 .. n
        /\ Orders(V, before) => InHeap(b, k + 1, n, before)
    BY <1>1, <1>3
  <2>2. d = SiftDown(b, k, n, before)
    BY <1>1
  <2>. HIDE DEF b, d
  <2>3. Sifted(b, k, n, n, V, before, d)
    BY <2>1, <2>2, SiftDownSifts
  <2>4. InHeap(b, k + 1, n, before) => InHeapBut(b, k, k, n, before)
    BY <2>1 DEF InHeap, InHeapBut, Children
  <2>5. /\ d \in [0 .. n - 1 -> V] /\ Distinct(d, n)
        /\ Orders(V, before) => InHeap(d, k, n, before)
    BY <2>1, <2>3, <2>4 DEF Sifted
  <2>. QED  BY <2>1, <2>5 DEF d
<1>4. 0 \in S
  <2>1. 0 \in 0 .. m /\ 0 \in Nat /\ 0 <= m
    BY <1>1
  <2>. HIDE DEF S
  <2>2. \A k \in 0 .. m : k \in S
    BY <1>1, <1>2, <1>3, <2>1, Downward
  <2>. QED  BY <2>1, <2>2
<1>. QED
  BY <1>4 DEF heap

\* No element of a heap comes behind its root.
LEMMA RootLargest ==
  ASSUME NEW N \in Nat, NEW V, NEW b \in [0 .. N - 1 -> V], NEW m \in 0 .. N, NEW before,
         Orders(V, before), InHeap(b, 0, m, before)
  PROVE  \A i \in 0 .. m - 1 : <<b[0], b[i]>> \notin before
<1> DEFINE Larger == {i \in 0 .. m - 1 : <<b[0], b[i]>> \in before}
<1>. SUFFICES ASSUME Larger # {} PROVE FALSE
  OBVIOUS
<1>1. PICK i \in Larger : \A j \in Larger : i <= j
  <2>1. Larger \subseteq Nat
    OBVIOUS
  <2>. HIDE DEF Larger
  <2>. QED  BY <2>1, Smallest
<1>2. i \in 0 .. m - 1 /\ <<b[0], b[i]>> \in before
  BY <1>1
<1>3. b[0] \in V /\ b[i] \in V
  BY <1>2
<1>4. i # 0
  BY <1>2, <1>3 DEF Orders
<1>5. PICK q \in 0 .. m - 1 : q < i /\ (i = 2*q + 1 \/ i = 2*q + 2)
  <2>1. (i - 1) \div 2 \in 0 .. m - 1 /\ (i - 1) \div 2 < i
        /\ (i = 2*((i - 1) \div 2) + 1 \/ i = 2*((i - 1) \div 2) + 2)
    BY <1>2, <1>4
  <2>. QED  BY <2>1
<1>6. i \in Children(q)
  BY <1>5 DEF Children
<1>7. <<b[q], b[i]>> \notin before
  BY <1>2, <1>6 DEF InHeap
<1>8. <<b[0], b[q]>> \notin before
  BY <1>1, <1>5
<1>9. b[q] \in V
  BY <1>5
<1>. QED
  BY <1>2, <1>3, <1>7, <1>8, <1>9 DEF Orders

LEMMA ExtractingDefined ==
  ASSUME NEW n \in Nat \ {0}, NEW V, NEW a \in [0 .. n - 1 -> V], Distinct(a, n), NEW before
  PROVE  Extracts(Extracting(a, n, before), Heaping(a, n, before)[0], n, before)
<1> DEFINE A == [0 .. n - 1 -> V]
           top == Heaping(a, n, before)[0]
           F == [x \in (1 .. n - 1) \X A |-> SiftDown(Swap(x[2], 0, x[1]), 0, x[1], before)]
           Next(h, k) == IF k = n THEN top ELSE SiftDown(Swap(h[k + 1], 0, k), 0, k, before)
<1>1. top \in A
  BY Heaps
<1>2. ASSUME NEW k \in 1 .. n - 1, NEW b \in A
      PROVE  /\ SiftDown(Swap(b, 0, k), 0, k, before) \in A
             /\ F[<<k, b>>] = SiftDown(Swap(b, 0, k), 0, k, before)
  <2>1. k \in 0 .. n /\ 0 \in Nat /\ <<k, b>> \in (1 .. n - 1) \X A /\ n \in Nat
    OBVIOUS
  <2>2. Swap(b, 0, k) \in A
    BY DEF Swap
  <2>3. SiftDown(Swap(b, 0, k), 0, k, before) \in A
    BY <2>1, <2>2, SiftDownSifts DEF Sifted
  <2>. QED  BY <2>1, <2>3
<1>3. F \in [(1 .. n - 1) \X A -> A]
  <2>1. \A x \in (1 .. n - 1) \X A : SiftDown(Swap(x[2], 0, x[1]), 0, x[1], before) \in A
    BY <1>2
  <2>. QED  BY <2>1
<1>. HIDE DEF F, A, top
<1>4. PICK h \in [1 .. n -> A] :
        h[n] = top /\ \A k \in 1 .. n - 1 : h[k] = F[<<k, h[k + 1]>>]
  <2>1. 1 \in Nat /\ n \in Nat /\ 1 <= n
    OBVIOUS
  <2>2. \E h : Iterates(h, F, top, 1, n, A)
    BY <1>1, <1>3, <2>1, Iterated
  <2>. QED  BY <2>2 DEF Iterates
<1>5. ASSUME NEW k \in 1 .. n
      PROVE  h[k] = Next(h, k)
  <2>1. CASE k = n
    BY <1>4, <2>1
  <2>2. CASE k # n
    <3>1. k \in 1 .. n - 1 /\ k + 1 \in 1 .. n
      BY <2>2
    <3>2. h[k + 1] \in A
      BY <1>4, <3>1
    <3>. QED  BY <1>2, <1>4, <2>2, <3>1, <3>2
  <2>. QED  BY <2>1, <2>2
<1>6. h = [k \in 1 .. n |-> Next(h, k)]
  <2>1. h = [k \in 1 .. n |-> h[k]]
    BY <1>4
  <2>2. [k \in 1 .. n |-> h[k]] = [k \in 1 .. n |-> Next(h, k)]
    BY <1>5, Zenon
  <2>. QED  BY <2>1, <2>2, Zenon
<1>7. Extracting(a, n, before) = [k \in 1 .. n |-> Next(Extracting(a, n, before), k)]
  BY <1>6, Zenon DEF Extracting, top
<1>. HIDE DEF Next
<1>8. \A k \in 1 .. n : Extracting(a, n, before)[k] = Next(Extracting(a, n, before), k)
  BY <1>7, Zenon
<1>9. /\ Extracting(a, n, before)[n] = top
      /\ \A k \in 1 .. n - 1 :
           Extracting(a, n, before)[k]
             = SiftDown(Swap(Extracting(a, n, before)[k + 1], 0, k), 0, k, before)
  BY <1>8 DEF Next
<1>. QED
  BY <1>9 DEF top, Extracts

\* What heapsort does: it moves the elements of the array, and leaves none
\* behind one that it goes before.
LEMMA HeapSorts ==
  ASSUME NEW n \in Nat, NEW V, NEW a \in [0 .. n - 1 -> V], Distinct(a, n), NEW before
  PROVE  LET d == HeapSort(a, n, before) IN
         /\ d \in [0 .. n - 1 -> V] /\ Distinct(d, n)
         /\ Orders(V, before) =>
              \A j \in 0 .. n - 1 : \A i \in 0 .. j - 1 : <<d[j], d[i]>> \notin before
<1>1. CASE n <= 1
  BY <1>1 DEF HeapSort
<1>2. CASE n > 1
  <2> DEFINE rest == Extracting(a, n, before)
             InOrder(b, k) == \A j \in k .. n - 1 : \A i \in 0 .. j - 1 : <<b[j], b[i]>> \notin before
             Good(k) == /\ rest[k] \in [0 .. n - 1 -> V] /\ Distinct(rest[k], n)
                        /\ Orders(V, before) => InHeap(rest[k], 0, k, before) /\ InOrder(rest[k], k)
             S == {k \in 1 .. n : Good(k)}
  <2>1. /\ rest[n] = Heaping(a, n, before)[0]
        /\ \A k \in 1 .. n - 1 : rest[k] = SiftDown(Swap(rest[k + 1], 0, k), 0, k, before)
    <3>1. Extracts(rest, Heaping(a, n, before)[0], n, before)
      <4>1. n \in Nat \ {0}
        BY <1>2
      <4>. QED  BY <4>1, ExtractingDefined, Zenon
    <3>. QED  BY <3>1, Zenon DEF Extracts
  <2>. HIDE DEF rest
  <2>2. n \in S
    <3>1. Good(n)
      <4> DEFINE b == Heaping(a, n, before)[0]
      <4>1. /\ b \in [0 .. n - 1 -> V] /\ Distinct(b, n)
            /\ Orders(V, before) => InHeap(b, 0, n, before)
        BY Heaps
      <4>. HIDE DEF b
      <4>2. rest[n] = b
        BY <2>1 DEF b
      <4>. QED  BY <4>1, <4>2
    <3>. HIDE DEF Good
    <3>. QED  BY <1>2, <3>1
  <2>3. ASSUME NEW k \in 1 .. n - 1, k + 1 \in S
        PROVE  k \in S
    <3> DEFINE b == rest[k + 1]
               s == Swap(b, 0, k)
               d == rest[k]
    <3>1. /\ b \in [0 .. n - 1 -> V] /\ Distinct(b, n)
          /\ Orders(V, before) => InHeap(b, 0, k + 1, before) /\ InOrder(b, k + 1)
      BY <2>3
    <3>2. d = SiftDown(s, 0, k, before)
      BY <2>1
    <3>. HIDE DEF b, d
    <3>3. 0 \in 0 .. n - 1 /\ k \in 0 .. n - 1 /\ k \in 0 .. n /\ k \in 1 .. n /\ k \in Nat /\ 0 \in Nat
      OBVIOUS
    <3>4. /\ s \in [0 .. n - 1 -> V] /\ s[0] = b[k] /\ s[k] = b[0]
          /\ \A i \in 0 .. n - 1 : i # 0 /\ i # k => s[i] = b[i]
      BY <3>1, <3>3 DEF Swap
    <3>. HIDE DEF s
    <3>5. Distinct(s, n)
      BY <3>1, <3>3, <3>4 DEF Distinct
    <3>6. Sifted(s, 0, k, n, V, before, d)
      BY <3>2, <3>3, <3>4, SiftDownSifts
    <3>7. d \in [0 .. n - 1 -> V] /\ Distinct(d, n)
      BY <3>5, <3>6 DEF Sifted
    <3>8. ASSUME Orders(V, before)
          PROVE  InHeap(d, 0, k, before)
      <4>1. InHeap(b, 0, k + 1, before)
        BY <3>1, <3>8
      <4>2. InHeapBut(s, 0, 0, k, before)
        <5>1. ASSUME NEW i \in 0 .. k - 1, i # 0, NEW c \in Children(i), c < k
              PROVE  <<s[i], s[c]>> \notin before
          <6>1. /\ i \in 0 .. n - 1 /\ i # k /\ i \in 0 .. (k + 1) - 1
                /\ c \in 0 .. n - 1 /\ c # k /\ c # 0 /\ c < k + 1
            BY <5>1 DEF Children
          <6>2. s[i] = b[i] /\ s[c] = b[c]
            BY <3>4, <5>1, <6>1
          <6>. QED  BY <4>1, <6>1, <6>2 DEF InHeap
        <5>2. ASSUME NEW q \in 0 .. k - 1
              PROVE  0 \notin Children(q)
          BY DEF Children
        <5>3. \A i \in 0 .. k - 1 : i # 0 =>
                \A c \in Children(i) : c < k => <<s[i], s[c]>> \notin before
          BY <5>1, Zenon
        <5>4. \A q \in 0 .. k - 1 : 0 \in Children(q) =>
                \A c \in Children(0) : c < k => <<s[q], s[c]>> \notin before
          BY <5>2, Zenon
        <5>5. 0 >= 0
          OBVIOUS
        <5>. QED  BY <5>3, <5>4, <5>5, Zenon DEF InHeapBut
      <4>. QED  BY <3>3, <3>6, <3>8, <4>2 DEF Sifted
    <3>9. ASSUME Orders(V, before), NEW j \in k .. n - 1, NEW i \in 0 .. j - 1
          PROVE  <<d[j], d[i]>> \notin before
      <4>1. /\ InOrder(b, k + 1)
            /\ \A e \in 0 .. k : <<b[0], b[e]>> \notin before
        <5>1. k + 1 \in 0 .. n /\ (k + 1) - 1 = k
          OBVIOUS
        <5>2. InOrder(b, k + 1) /\ InHeap(b, 0, k + 1, before)
          BY <3>1, <3>9
        <5>3. \A e \in 0 .. (k + 1) - 1 : <<b[0], b[e]>> \notin before
          BY <3>1, <3>9, <5>1, <5>2, RootLargest
        <5>. QED  BY <5>1, <5>2, <5>3
      <4>2. d[j] = s[j] /\ j \in 0 .. n - 1 /\ i \in 0 .. n - 1
        BY <3>6, <3>9 DEF Sifted
      <4>3. PICK e \in 0 .. n - 1 : d[i] = b[e] /\ e <= j /\ (i < k \/ i = k => e <= k) /\ (i > k => e = i)
        <5>1. CASE i < k
          <6>1. PICK f \in 0 .. k - 1 : d[i] = s[f]
            BY <3>6, <4>2, <5>1 DEF Sifted
          <6>2. f \in 0 .. n - 1 /\ f # k
            OBVIOUS
          <6>3. s[f] = b[f] \/ s[f] = b[k]
            BY <3>4, <6>2
          <6>. QED  BY <5>1, <6>1, <6>2, <6>3
        <5>2. CASE i = k
          <6>1. d[i] = b[0]
            BY <3>4, <3>6, <4>2, <5>2 DEF Sifted
          <6>. QED  BY <5>2, <6>1
        <5>3. CASE i > k
          <6>1. d[i] = s[i] /\ s[i] = b[i]
            BY <3>4, <3>6, <4>2, <5>3 DEF Sifted
          <6>. QED  BY <4>2, <5>3, <6>1
        <5>. QED  BY <5>1, <5>2, <5>3
      <4>4. CASE j = k
        <5>1. d[j] = b[0] /\ e \in 0 .. k
          BY <3>4, <3>9, <4>2, <4>3, <4>4
        <5>. QED  BY <4>1, <4>3, <5>1
      <4>5. CASE j > k
        <5>1. d[j] = b[j] /\ j \in k + 1 .. n - 1 /\ e \in 0 .. j - 1
          BY <3>4, <3>9, <4>2, <4>3, <4>5
        <5>. QED  BY <4>1, <4>3, <5>1
      <4>. QED  BY <4>4, <4>5
    <3>10. Good(k)
      BY <3>7, <3>8, <3>9 DEF d
    <3>. HIDE DEF Good
    <3>. QED  BY <3>3, <3>10
  <2>4. 1 \in S
    <3>1. 1 \in 1 .. n /\ 1 \in Nat /\ 1 <= n
      BY <1>2
    <3>. HIDE DEF S
    <3>2. \A k \in 1 .. n : k \in S
      BY <2>2, <2>3, <3>1, Downward
    <3>. QED  BY <3>1, <3>2
  <2>5. Good(1)
    BY <2>4
  <2>6. HeapSort(a, n, before) = rest[1]
    BY <1>2 DEF HeapSort, rest
  <2>7. ASSUME NEW j \in 0 .. n - 1, NEW i \in 0 .. j - 1
        PROVE  j \in 1 .. n - 1
    OBVIOUS
  <2>. QED  BY <2>5, <2>6, <2>7
<1>. QED
  BY <1>1, <1>2

-----------------------------------------------------------------------------
(***************************************************************************)
(* k_qsort.                                                                *)
(***************************************************************************)

\* The places lo .. hi - 1 as k_qsort leaves them.
LEMMA QSorts ==
  ASSUME NEW lo \in Nat, NEW hi \in Nat, NEW before
  PROVE  LET order == k_qsort(lo, hi, before) IN
         /\ IsRearrangement(order, lo, hi)
         /\ Orders(lo .. hi - 1, before) =>
              \A i, j \in lo .. hi - 1 : i < j => <<order[j], order[i]>> \notin before
<1> DEFINE n == IF hi > lo THEN hi - lo ELSE 0
           V == lo .. hi - 1
           a == [i \in 0 .. n - 1 |-> lo + i]
           d == HeapSort(a, n, before)
           order == k_qsort(lo, hi, before)
<1>1. n \in Nat /\ (hi > lo => n = hi - lo) /\ (hi <= lo => n = 0)
  OBVIOUS
<1>. HIDE DEF n
<1>2. a \in [0 .. n - 1 -> V] /\ Distinct(a, n)
  BY <1>1 DEF Distinct
<1>. HIDE DEF a
<1>3. /\ d \in [0 .. n - 1 -> V] /\ Distinct(d, n)
      /\ Orders(V, before) =>
           \A j \in 0 .. n - 1 : \A i \in 0 .. j - 1 : <<d[j], d[i]>> \notin before
  BY <1>1, <1>2, HeapSorts
<1>4. order = [i \in lo .. hi - 1 |-> d[i - lo]]
  BY DEF k_qsort, n, a
<1>. HIDE DEF d, order
<1>5. \A i \in lo .. hi - 1 : order[i] = d[i - lo] /\ i - lo \in 0 .. n - 1
  BY <1>1, <1>4
<1>6. order \in [V -> V]
  BY <1>3, <1>4, <1>5
<1>7. \A i, j \in lo .. hi - 1 : order[i] = order[j] => i = j
  BY <1>1, <1>3, <1>5 DEF Distinct
<1>8. ASSUME Orders(V, before), NEW i \in lo .. hi - 1, NEW j \in lo .. hi - 1, i < j
      PROVE  <<order[j], order[i]>> \notin before
  <2>1. j - lo \in 0 .. n - 1 /\ i - lo \in 0 .. (j - lo) - 1
    BY <1>5, <1>8
  <2>. QED  BY <1>3, <1>5, <1>8, <2>1
<1>. QED
  BY <1>6, <1>7, <1>8 DEF IsRearrangement, order

\* Sorting the places lo .. hi - 1 of a list only moves what is there, whatever
\* the comparison function answers: nothing is lost and nothing doubled.
THEOREM SortRearranges ==
  ASSUME NEW lo \in Nat, NEW hi \in Nat, NEW before
  PROVE  IsRearrangement(k_qsort(lo, hi, before), lo, hi)
BY QSorts

\* If the comparison function orders what is at the places lo .. hi - 1, none
\* of it is left behind something that it goes before.
THEOREM SortOrders ==
  ASSUME NEW lo \in Nat, NEW hi \in Nat, NEW before, Orders(lo .. hi - 1, before)
  PROVE  \A i, j \in lo .. hi - 1 :
           i < j => <<k_qsort(lo, hi, before)[j], k_qsort(lo, hi, before)[i]>> \notin before
BY QSorts
=============================================================================
