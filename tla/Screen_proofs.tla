--------------------------- MODULE Screen_proofs ----------------------------
(***************************************************************************)
(* Proofs about the memory functions, about the text screen that is        *)
(* scrolled with them, about the command line on the terminal, and about   *)
(* the view of the schedule, for memories, screens, strings, texts,        *)
(* completions and schedules of every size.                                *)
(*                                                                         *)
(* A recursion is shown to compute what a function says directly: the two  *)
(* agree at 0, and each time at the next number (AgreeUpTo).               *)
(***************************************************************************)
EXTENDS Heapsort_proofs, Console, Blocks, LineEditor, Display, SequenceTheorems

-----------------------------------------------------------------------------
(***************************************************************************)
(* The memory functions: a set fills the block, a move leaves the block    *)
(* where it was to go, also where the block overlaps that place, a swap    *)
(* exchanges two blocks, and a comparison is exact.                        *)
(***************************************************************************)
Filled(memory, dst, val, len) ==
  [a \in DOMAIN memory |-> IF a \in dst .. dst + len - 1 THEN val ELSE memory[a]]

\* A set fills the block.
LEMMA SetFills ==
  ASSUME NEW N \in Nat, NEW V, NEW memory \in [0 .. N - 1 -> V],
         NEW val \in V, NEW len \in 0 .. N, NEW dst \in 0 .. N - len
  PROVE  mem_set(memory, dst, val, len) = Filled(memory, dst, val, len)
<1> DEFINE Next(m, n) == [m EXCEPT ![dst + n - 1] = val]
           IsMemory(h) == h = [n \in 0 .. len |-> IF n = 0 THEN memory ELSE Next(h[n - 1], n)]
           g == [n \in 0 .. len |-> Filled(memory, dst, val, n)]
           set == CHOOSE h : IsMemory(h)
<1>1. len \in Nat /\ \A n \in 1 .. len : n - 1 \in 0 .. len /\ n \in 0 .. len /\ n # 0
  OBVIOUS
<1>2. ASSUME NEW n \in 1 .. len
      PROVE  g[n] = Next(g[n - 1], n)
  <2>1. /\ dst + n - 1 \in 0 .. N - 1 /\ n - 1 \in 0 .. len
        /\ g[n] = Filled(memory, dst, val, n) /\ g[n - 1] = Filled(memory, dst, val, n - 1)
    OBVIOUS
  <2>2. ASSUME NEW a \in 0 .. N - 1
        PROVE  Filled(memory, dst, val, n)[a]
                 = IF a = dst + n - 1 THEN val ELSE Filled(memory, dst, val, n - 1)[a]
    BY DEF Filled
  <2>3. /\ Filled(memory, dst, val, n) = [a \in 0 .. N - 1 |-> Filled(memory, dst, val, n)[a]]
        /\ Filled(memory, dst, val, n - 1) = [a \in 0 .. N - 1 |-> Filled(memory, dst, val, n - 1)[a]]
    BY DEF Filled
  <2>. HIDE DEF g
  <2>. QED  BY <2>1, <2>2, <2>3
<1>3. g[0] = memory
  BY DEF Filled
<1>. HIDE DEF g, Next
<1>4. IsMemory(g)
  <2>1. \A n \in 0 .. len : g[n] = IF n = 0 THEN memory ELSE Next(g[n - 1], n)
    <3>1. \A n \in 0 .. len : n = 0 \/ n \in 1 .. len
      OBVIOUS
    <3>. QED  BY <1>1, <1>2, <1>3, <3>1, Zenon
  <2>2. g = [n \in 0 .. len |-> g[n]]
    BY Zenon DEF g
  <2>. QED  BY <2>1, <2>2, Zenon
<1>5. IsMemory(set)
  BY <1>4, Zenon
<1>. HIDE DEF set
<1>6. set[0] = memory /\ \A n \in 1 .. len : set[n] = Next(set[n - 1], n)
  <2>1. \A n \in 0 .. len : set[n] = IF n = 0 THEN memory ELSE Next(set[n - 1], n)
    BY <1>5, Zenon
  <2>2. 0 \in 0 .. len
    OBVIOUS
  <2>. QED  BY <1>1, <2>1, <2>2, Zenon
<1>7. set[len] = g[len]
  <2>1. \A n \in 1 .. len : set[n - 1] = g[n - 1] => set[n] = g[n]
    BY <1>2, <1>6, Zenon
  <2>. HIDE DEF IsMemory
  <2>. QED  BY <1>1, <1>3, <1>6, <2>1, AgreeUpTo
<1>. QED
  BY <1>7 DEF mem_set, set, g, Next

\* What is copied from the front onto a place before it is copied before it is
\* overwritten.
LEMMA CopiesUp ==
  ASSUME NEW N \in Nat, NEW V, NEW memory \in [0 .. N - 1 -> V],
         NEW len \in 0 .. N, NEW dst \in 0 .. N - len, NEW src \in 0 .. N - len,
         dst < src
  PROVE  CopyUp(memory, dst, src, len) = Moved(memory, dst, src, len)
<1> DEFINE Next(m, n) == CopyByte(m, dst + n - 1, src + n - 1)
           IsMemory(h) == h = [n \in 0 .. len |-> IF n = 0 THEN memory ELSE Next(h[n - 1], n)]
           g == [n \in 0 .. len |-> Moved(memory, dst, src, n)]
           up == CHOOSE h : IsMemory(h)
<1>1. len \in Nat /\ \A n \in 1 .. len : n - 1 \in 0 .. len /\ n \in 0 .. len /\ n # 0
  OBVIOUS
<1>2. ASSUME NEW n \in 1 .. len
      PROVE  g[n] = Next(g[n - 1], n)
  <2>1. /\ dst + n - 1 \in 0 .. N - 1 /\ src + n - 1 \in 0 .. N - 1 /\ n - 1 \in 0 .. len
        /\ g[n] = Moved(memory, dst, src, n) /\ g[n - 1] = Moved(memory, dst, src, n - 1)
    OBVIOUS
  <2>2. Moved(memory, dst, src, n - 1)[src + n - 1] = memory[src + n - 1]
    BY <2>1 DEF Moved
  <2>3. ASSUME NEW a \in 0 .. N - 1
        PROVE  Moved(memory, dst, src, n)[a]
                 = IF a = dst + n - 1 THEN memory[src + n - 1] ELSE Moved(memory, dst, src, n - 1)[a]
    <3>1. CASE a = dst + n - 1
      <4>1. a - dst + src = src + n - 1
        BY <3>1
      <4>. QED  BY <2>1, <3>1, <4>1 DEF Moved
    <3>2. CASE a # dst + n - 1
      BY <2>1, <3>2 DEF Moved
    <3>. QED  BY <3>1, <3>2
  <2>4. /\ Moved(memory, dst, src, n) = [a \in 0 .. N - 1 |-> Moved(memory, dst, src, n)[a]]
        /\ Moved(memory, dst, src, n - 1) = [a \in 0 .. N - 1 |-> Moved(memory, dst, src, n - 1)[a]]
    BY DEF Moved
  <2>. HIDE DEF g
  <2>. QED  BY <2>1, <2>2, <2>3, <2>4 DEF CopyByte
<1>3. g[0] = memory
  BY DEF Moved
<1>. HIDE DEF g, Next
<1>4. IsMemory(g)
  <2>1. \A n \in 0 .. len : g[n] = IF n = 0 THEN memory ELSE Next(g[n - 1], n)
    <3>1. \A n \in 0 .. len : n = 0 \/ n \in 1 .. len
      OBVIOUS
    <3>. QED  BY <1>1, <1>2, <1>3, <3>1, Zenon
  <2>2. g = [n \in 0 .. len |-> g[n]]
    BY Zenon DEF g
  <2>. QED  BY <2>1, <2>2, Zenon
<1>5. IsMemory(up)
  BY <1>4, Zenon
<1>. HIDE DEF up
<1>6. up[0] = memory /\ \A n \in 1 .. len : up[n] = Next(up[n - 1], n)
  <2>1. \A n \in 0 .. len : up[n] = IF n = 0 THEN memory ELSE Next(up[n - 1], n)
    BY <1>5, Zenon
  <2>2. 0 \in 0 .. len
    OBVIOUS
  <2>. QED  BY <1>1, <2>1, <2>2, Zenon
<1>7. up[len] = g[len]
  <2>1. \A n \in 1 .. len : up[n - 1] = g[n - 1] => up[n] = g[n]
    BY <1>2, <1>6, Zenon
  <2>. HIDE DEF IsMemory
  <2>. QED  BY <1>1, <1>3, <1>6, <2>1, AgreeUpTo
<1>. QED
  BY <1>7 DEF CopyUp, up, g, Next

\* And what is copied from the end onto a place behind it.
LEMMA CopiesDown ==
  ASSUME NEW N \in Nat, NEW V, NEW memory \in [0 .. N - 1 -> V],
         NEW len \in 0 .. N, NEW dst \in 0 .. N - len, NEW src \in 0 .. N - len,
         ~(dst < src)
  PROVE  CopyDown(memory, dst, src, len) = Moved(memory, dst, src, len)
<1> DEFINE Next(m, n) == CopyByte(m, dst + len - n, src + len - n)
           IsMemory(h) == h = [n \in 0 .. len |-> IF n = 0 THEN memory ELSE Next(h[n - 1], n)]
           Copied(n) == Moved(memory, dst + len - n, src + len - n, n)
           g == [n \in 0 .. len |-> Copied(n)]
           down == CHOOSE h : IsMemory(h)
<1>1. len \in Nat /\ \A n \in 1 .. len : n - 1 \in 0 .. len /\ n \in 0 .. len /\ n # 0
  OBVIOUS
<1>2. ASSUME NEW n \in 1 .. len
      PROVE  g[n] = Next(g[n - 1], n)
  <2>1. /\ dst + len - n \in 0 .. N - 1 /\ src + len - n \in 0 .. N - 1 /\ n - 1 \in 0 .. len
        /\ g[n] = Copied(n) /\ g[n - 1] = Copied(n - 1)
    OBVIOUS
  <2>2. Copied(n - 1)[src + len - n] = memory[src + len - n]
    BY <2>1 DEF Moved
  <2>3. ASSUME NEW a \in 0 .. N - 1
        PROVE  Copied(n)[a] = IF a = dst + len - n THEN memory[src + len - n] ELSE Copied(n - 1)[a]
    <3>1. CASE a = dst + len - n
      <4>1. a - dst + src = src + len - n
        BY <3>1
      <4>. QED  BY <2>1, <3>1, <4>1 DEF Moved
    <3>2. CASE a # dst + len - n
      BY <2>1, <3>2 DEF Moved
    <3>. QED  BY <3>1, <3>2
  <2>4. /\ Copied(n) = [a \in 0 .. N - 1 |-> Copied(n)[a]]
        /\ Copied(n - 1) = [a \in 0 .. N - 1 |-> Copied(n - 1)[a]]
    BY DEF Moved
  <2>. HIDE DEF g, Copied
  <2>. QED  BY <2>1, <2>2, <2>3, <2>4 DEF CopyByte
<1>3. g[0] = memory
  BY DEF Moved
<1>. HIDE DEF g, Next
<1>4. IsMemory(g)
  <2>1. \A n \in 0 .. len : g[n] = IF n = 0 THEN memory ELSE Next(g[n - 1], n)
    <3>1. \A n \in 0 .. len : n = 0 \/ n \in 1 .. len
      OBVIOUS
    <3>. QED  BY <1>1, <1>2, <1>3, <3>1, Zenon
  <2>2. g = [n \in 0 .. len |-> g[n]]
    BY Zenon DEF g
  <2>. QED  BY <2>1, <2>2, Zenon
<1>5. IsMemory(down)
  BY <1>4, Zenon
<1>. HIDE DEF down
<1>6. down[0] = memory /\ \A n \in 1 .. len : down[n] = Next(down[n - 1], n)
  <2>1. \A n \in 0 .. len : down[n] = IF n = 0 THEN memory ELSE Next(down[n - 1], n)
    BY <1>5, Zenon
  <2>2. 0 \in 0 .. len
    OBVIOUS
  <2>. QED  BY <1>1, <2>1, <2>2, Zenon
<1>7. down[len] = g[len]
  <2>1. \A n \in 1 .. len : down[n - 1] = g[n - 1] => down[n] = g[n]
    BY <1>2, <1>6, Zenon
  <2>. HIDE DEF IsMemory
  <2>. QED  BY <1>1, <1>3, <1>6, <2>1, AgreeUpTo
<1>. QED
  BY <1>7 DEF CopyDown, down, g, Next

\* mem_move moves the block, whichever way the two overlap.
LEMMA MoveMoves ==
  ASSUME NEW N \in Nat, NEW V, NEW memory \in [0 .. N - 1 -> V],
         NEW len \in 0 .. N, NEW dst \in 0 .. N - len, NEW src \in 0 .. N - len
  PROVE  mem_move(memory, dst, src, len) = Moved(memory, dst, src, len)
<1>1. CASE dst < src
  <2>1. CopyUp(memory, dst, src, len) = Moved(memory, dst, src, len)
    BY <1>1, CopiesUp
  <2>. QED  BY <1>1, <2>1 DEF mem_move
<1>2. CASE ~(dst < src)
  <2>1. CopyDown(memory, dst, src, len) = Moved(memory, dst, src, len)
    BY <1>2, CopiesDown
  <2>. QED  BY <1>2, <2>1 DEF mem_move
<1>. QED
  BY <1>1, <1>2

\* What a swap promises, of blocks that do not overlap or are the same one.
Swapped(memory, first, second, len) ==
  [a \in DOMAIN memory |->
     IF a \in first .. first + len - 1 THEN memory[a - first + second]
     ELSE IF a \in second .. second + len - 1 THEN memory[a - second + first] ELSE memory[a]]

LEMMA SwapSwaps ==
  ASSUME NEW N \in Nat, NEW V, NEW memory \in [0 .. N - 1 -> V],
         NEW len \in 0 .. N, NEW first \in 0 .. N - len, NEW second \in 0 .. N - len,
         first = second \/ first + len <= second \/ second + len <= first
  PROVE  mem_swap(memory, first, second, len) = Swapped(memory, first, second, len)
<1> DEFINE Next(m, n) == SwapBytes(m, first + n - 1, second + n - 1)
           IsMemory(h) == h = [n \in 0 .. len |-> IF n = 0 THEN memory ELSE Next(h[n - 1], n)]
           g == [n \in 0 .. len |-> Swapped(memory, first, second, n)]
           swapped == CHOOSE h : IsMemory(h)
<1>1. len \in Nat /\ \A n \in 1 .. len : n - 1 \in 0 .. len /\ n \in 0 .. len /\ n # 0
  OBVIOUS
<1>2. ASSUME NEW n \in 1 .. len
      PROVE  g[n] = Next(g[n - 1], n)
  <2> DEFINE earlier == Swapped(memory, first, second, n - 1)
             after == Swapped(memory, first, second, n)
             p == first + n - 1
             q == second + n - 1
  <2>1. /\ p \in 0 .. N - 1 /\ q \in 0 .. N - 1 /\ n - 1 \in 0 .. len
        /\ g[n] = after /\ g[n - 1] = earlier
    OBVIOUS
  <2>2. earlier[p] = memory[p] /\ earlier[q] = memory[q]
    BY <2>1 DEF Swapped
  <2>3. ASSUME NEW a \in 0 .. N - 1
        PROVE  after[a] = IF a = q THEN memory[p] ELSE IF a = p THEN memory[q] ELSE earlier[a]
    <3>1. CASE a = q
      <4>1. a - second + first = p /\ (a \in first .. first + n - 1 => a - first + second = p)
        BY <3>1
      <4>2. a \in second .. second + n - 1
        BY <3>1
      <4>. QED  BY <2>1, <3>1, <4>1, <4>2 DEF Swapped
    <3>2. CASE a = p /\ a # q
      <4>1. a - first + second = q /\ a \in first .. first + n - 1
        BY <3>2
      <4>. QED  BY <2>1, <3>2, <4>1 DEF Swapped
    <3>3. CASE a # p /\ a # q
      <4>1. /\ a \in first .. first + n - 1 <=> a \in first .. first + (n - 1) - 1
            /\ a \in second .. second + n - 1 <=> a \in second .. second + (n - 1) - 1
        BY <3>3
      <4>2. after[a] = earlier[a]
        BY <4>1 DEF Swapped
      <4>. QED  BY <3>3, <4>2
    <3>. QED  BY <3>1, <3>2, <3>3
  <2>4. earlier = [a \in 0 .. N - 1 |-> earlier[a]] /\ after = [a \in 0 .. N - 1 |-> after[a]]
    BY DEF Swapped
  <2>. HIDE DEF g, earlier, after
  <2>5. SwapBytes(earlier, p, q) = [[earlier EXCEPT ![p] = earlier[q]] EXCEPT ![q] = earlier[p]]
    BY DEF SwapBytes
  <2>. HIDE DEF p, q
  <2>6. SwapBytes(earlier, p, q) = after
    <3>1. DOMAIN earlier = 0 .. N - 1
      BY <2>4
    <3>2. SwapBytes(earlier, p, q)
            = [a \in 0 .. N - 1 |-> IF a = q THEN earlier[p] ELSE IF a = p THEN earlier[q] ELSE earlier[a]]
      BY <2>1, <2>5, <3>1
    <3>3. \A a \in 0 .. N - 1 :
            after[a] = IF a = q THEN earlier[p] ELSE IF a = p THEN earlier[q] ELSE earlier[a]
      BY <2>2, <2>3, Zenon
    <3>4. after = [a \in 0 .. N - 1 |-> IF a = q THEN earlier[p] ELSE IF a = p THEN earlier[q] ELSE earlier[a]]
      BY <2>4, <3>3
    <3>. QED  BY <3>2, <3>4
  <2>. QED  BY <2>1, <2>6 DEF p, q
<1>3. g[0] = memory
  BY DEF Swapped
<1>. HIDE DEF g, Next
<1>4. IsMemory(g)
  <2>1. \A n \in 0 .. len : g[n] = IF n = 0 THEN memory ELSE Next(g[n - 1], n)
    <3>1. \A n \in 0 .. len : n = 0 \/ n \in 1 .. len
      OBVIOUS
    <3>. QED  BY <1>1, <1>2, <1>3, <3>1, Zenon
  <2>2. g = [n \in 0 .. len |-> g[n]]
    BY Zenon DEF g
  <2>. QED  BY <2>1, <2>2, Zenon
<1>5. IsMemory(swapped)
  BY <1>4, Zenon
<1>. HIDE DEF swapped
<1>6. swapped[0] = memory /\ \A n \in 1 .. len : swapped[n] = Next(swapped[n - 1], n)
  <2>1. \A n \in 0 .. len : swapped[n] = IF n = 0 THEN memory ELSE Next(swapped[n - 1], n)
    BY <1>5, Zenon
  <2>2. 0 \in 0 .. len
    OBVIOUS
  <2>. QED  BY <1>1, <2>1, <2>2, Zenon
<1>7. swapped[len] = g[len]
  <2>1. \A n \in 1 .. len : swapped[n - 1] = g[n - 1] => swapped[n] = g[n]
    BY <1>2, <1>6, Zenon
  <2>. HIDE DEF IsMemory
  <2>. QED  BY <1>1, <1>3, <1>6, <2>1, AgreeUpTo
<1>. QED
  BY <1>7 DEF mem_swap, swapped, g, Next

\* Of blocks that agree as far as both go, the shorter one is less; of others,
\* the one that is less where they first differ.
IsLess(m, a, m_size, b, n_size) ==
  \E k \in 0 .. m_size :
    /\ \A i \in 0 .. k - 1 : i < n_size /\ m[a + i] = m[b + i]
    /\ k < n_size /\ (k = m_size \/ m[a + k] < m[b + k])

LEMMA LessByLength ==
  ASSUME NEW m, NEW a, NEW b, NEW m_size \in Nat, NEW n_size \in Nat,
         \A i \in Nat : i < m_size /\ i < n_size => m[a + i] = m[b + i] /\ ~(m[a + i] < m[b + i])
  PROVE  IsLess(m, a, m_size, b, n_size) <=> m_size < n_size
<1>1. CASE m_size < n_size
  <2>1. /\ m_size \in 0 .. m_size
        /\ \A i \in 0 .. m_size - 1 : i \in Nat /\ i < m_size /\ i < n_size
    BY <1>1
  <2>. QED  BY <1>1, <2>1 DEF IsLess
<1>2. CASE ~(m_size < n_size)
  <2>1. ASSUME NEW k \in 0 .. m_size, k < n_size, k = m_size \/ m[a + k] < m[b + k]
        PROVE  FALSE
    <3>1. k \in Nat /\ k < m_size
      BY <1>2, <2>1
    <3>. QED  BY <2>1, <3>1
  <2>. QED  BY <1>2, <2>1 DEF IsLess
<1>. QED
  BY <1>1, <1>2

LEMMA LessByDifference ==
  ASSUME NEW m, NEW a, NEW b, NEW m_size \in Nat, NEW n_size \in Nat,
         NEW d \in Nat, d < m_size, d < n_size, m[a + d] # m[b + d],
         \A i \in 0 .. d - 1 : m[a + i] = m[b + i] /\ ~(m[a + i] < m[b + i])
  PROVE  IsLess(m, a, m_size, b, n_size) <=> m[a + d] < m[b + d]
<1>1. ASSUME m[a + d] < m[b + d]
      PROVE  IsLess(m, a, m_size, b, n_size)
  <2>1. d \in 0 .. m_size /\ \A i \in 0 .. d - 1 : i < n_size
    OBVIOUS
  <2>. QED  BY <1>1, <2>1 DEF IsLess
<1>2. ASSUME NEW k \in 0 .. m_size, \A i \in 0 .. k - 1 : m[a + i] = m[b + i],
             k = m_size \/ m[a + k] < m[b + k]
      PROVE  m[a + d] < m[b + d]
  <2>1. ~(d \in 0 .. k - 1)
    BY <1>2
  <2>2. k \in 0 .. d
    BY <2>1
  <2>3. k # m_size
    BY <2>2
  <2>4. ~(k \in 0 .. d - 1)
    BY <1>2, <2>3
  <2>5. k = d
    BY <2>2, <2>4
  <2>. QED  BY <1>2, <2>3, <2>5
<1>. QED
  BY <1>1, <1>2 DEF IsLess

\* A comparison of the two blocks as far as both go, and what it promises: 0 where
\* they agree, or else which of them is less where they first differ.
Agree(m, dst, src, len) == \A i \in 0 .. len - 1 : m[dst + i] = m[src + i]
FirstDiffers(m, dst, src, len, d) ==
  d \in 0 .. len - 1 /\ m[dst + d] # m[src + d] /\ \A i \in 0 .. d - 1 : m[dst + i] = m[src + i]

LEMMA Compared ==
  ASSUME NEW m, NEW dst, NEW src, NEW len \in Nat
  PROVE  \/ Agree(m, dst, src, len) /\ mem_cmp(m, dst, src, len) = 0
         \/ \E d \in 0 .. len - 1 :
              /\ dst # src /\ FirstDiffers(m, dst, src, len, d)
              /\ mem_cmp(m, dst, src, len) = IF m[dst + d] < m[src + d] THEN -1 ELSE 1
<1> DEFINE differ == Differing(m, dst, src, len)
           First(k) == k \in differ /\ \A j \in differ : k <= j
           d == CHOOSE k \in differ : \A j \in differ : k <= j
<1>1. differ \subseteq Nat /\ \A i : i \in differ <=> i \in 0 .. len - 1 /\ m[dst + i] # m[src + i]
  BY DEF Differing
<1>. HIDE DEF differ
<1>2. CASE dst = src \/ differ = {}
  <2>1. mem_cmp(m, dst, src, len) = 0
    BY <1>2 DEF mem_cmp, differ
  <2>. QED  BY <1>1, <1>2, <2>1 DEF Agree
<1>3. CASE dst # src /\ differ # {}
  <2>1. \E k \in differ : \A j \in differ : k <= j
    BY <1>1, <1>3, Smallest
  <2>2. First(d)
    BY <2>1, Zenon
  <2>3. mem_cmp(m, dst, src, len) = IF m[dst + d] < m[src + d] THEN -1 ELSE 1
    BY <1>3, Zenon DEF mem_cmp, differ, d
  <2>. HIDE DEF d
  <2>4. d \in 0 .. len - 1 /\ m[dst + d] # m[src + d]
    BY <1>1, <2>2
  <2>5. ASSUME NEW i \in 0 .. d - 1
        PROVE  m[dst + i] = m[src + i]
    <3>1. i \in 0 .. len - 1 /\ ~(d <= i)
      BY <2>4
    <3>2. i \notin differ
      BY <2>2, <3>1
    <3>. QED  BY <1>1, <3>1, <3>2
  <2>. QED  BY <1>3, <2>3, <2>4, <2>5 DEF FirstDiffers
<1>. QED
  BY <1>2, <1>3

\* A call of mem_cmp, or of the comparison that knows the sizes, is exact.
LEMMA ComparesExactly ==
  ASSUME NEW N \in Nat, NEW m \in [0 .. N - 1 -> Nat],
         NEW dst_size \in 0 .. N, NEW src_size \in 0 .. N,
         NEW dst \in 0 .. N - dst_size, NEW src \in 0 .. N - src_size,
         dst # src \/ dst_size = src_size
  PROVE  (IF dst_size = src_size THEN mem_cmp(m, dst, src, src_size)
          ELSE bounded_cmp(m, dst, dst_size, src, src_size))
           = Lexicographic(m, dst, dst_size, src, src_size)
<1> DEFINE common == IF dst_size < src_size THEN dst_size ELSE src_size
           answer == IF dst_size = src_size THEN mem_cmp(m, dst, src, src_size)
                     ELSE bounded_cmp(m, dst, dst_size, src, src_size)
<1>1. /\ common \in Nat /\ dst_size \in Nat /\ src_size \in Nat
      /\ \A i \in Nat : i < dst_size /\ i < src_size => i \in 0 .. common - 1
      /\ \A i \in 0 .. common - 1 : /\ i \in Nat /\ i < dst_size /\ i < src_size
                                   /\ dst + i \in 0 .. N - 1 /\ src + i \in 0 .. N - 1
      /\ \A d \in 0 .. common - 1 : \A i \in 0 .. d - 1 : i \in 0 .. common - 1
  OBVIOUS
<1>2. \A i \in 0 .. common - 1 : m[dst + i] \in Nat /\ m[src + i] \in Nat
  BY <1>1
<1>3. answer = IF mem_cmp(m, dst, src, common) # 0 THEN mem_cmp(m, dst, src, common)
               ELSE IF dst_size < src_size THEN -1 ELSE IF dst_size > src_size THEN 1 ELSE 0
  <2>1. CASE dst_size = src_size
    <3>1. common = src_size /\ ~(dst_size < src_size) /\ ~(dst_size > src_size)
      BY <2>1
    <3>. HIDE DEF common
    <3>. QED  BY <2>1, <3>1
  <2>2. CASE dst_size # src_size
    BY <2>2 DEF bounded_cmp
  <2>. QED  BY <2>1, <2>2
<1>4. Lexicographic(m, dst, dst_size, src, src_size)
        = IF IsLess(m, dst, dst_size, src, src_size) THEN -1
          ELSE IF IsLess(m, src, src_size, dst, dst_size) THEN 1 ELSE 0
  BY DEF Lexicographic, IsLess
<1>. HIDE DEF common, answer
<1>5. CASE Agree(m, dst, src, common) /\ mem_cmp(m, dst, src, common) = 0
  <2>1. \A i \in Nat : i < dst_size /\ i < src_size =>
          m[dst + i] = m[src + i] /\ ~(m[dst + i] < m[src + i]) /\ ~(m[src + i] < m[dst + i])
    <3>1. ASSUME NEW i \in Nat, i < dst_size, i < src_size
          PROVE  m[dst + i] = m[src + i] /\ ~(m[dst + i] < m[src + i]) /\ ~(m[src + i] < m[dst + i])
      <4>1. i \in 0 .. common - 1
        BY <1>1, <3>1
      <4>2. m[dst + i] = m[src + i] /\ m[dst + i] \in Nat
        BY <1>2, <1>5, <4>1 DEF Agree
      <4>. HIDE DEF common
      <4>. QED  BY <4>2
    <3>. QED  BY <3>1
  <2>2. IsLess(m, dst, dst_size, src, src_size) <=> dst_size < src_size
    BY <1>1, <2>1, LessByLength
  <2>3. IsLess(m, src, src_size, dst, dst_size) <=> src_size < dst_size
    BY <1>1, <2>1, LessByLength
  <2>4. dst_size > src_size <=> src_size < dst_size
    BY <1>1
  <2>5. answer = Lexicographic(m, dst, dst_size, src, src_size)
    BY <1>3, <1>4, <1>5, <2>2, <2>3, <2>4
  <2>. QED  BY <2>5 DEF answer
<1>6. CASE \E d \in 0 .. common - 1 :
             /\ dst # src /\ FirstDiffers(m, dst, src, common, d)
             /\ mem_cmp(m, dst, src, common) = IF m[dst + d] < m[src + d] THEN -1 ELSE 1
  <2>1. PICK d \in 0 .. common - 1 :
          /\ FirstDiffers(m, dst, src, common, d)
          /\ mem_cmp(m, dst, src, common) = IF m[dst + d] < m[src + d] THEN -1 ELSE 1
    BY <1>6
  <2>2. d \in Nat /\ d < dst_size /\ d < src_size /\ m[dst + d] \in Nat /\ m[src + d] \in Nat
    BY <1>1, <1>2
  <2>3. /\ m[dst + d] # m[src + d]
        /\ \A i \in 0 .. d - 1 :
             m[dst + i] = m[src + i] /\ ~(m[dst + i] < m[src + i]) /\ ~(m[src + i] < m[dst + i])
    <3>1. ASSUME NEW i \in 0 .. d - 1
          PROVE  m[dst + i] = m[src + i] /\ ~(m[dst + i] < m[src + i]) /\ ~(m[src + i] < m[dst + i])
      <4>1. m[dst + i] = m[src + i] /\ m[dst + i] \in Nat
        BY <1>1, <1>2, <2>1 DEF FirstDiffers
      <4>. QED  BY <4>1
    <3>. QED  BY <2>1, <3>1 DEF FirstDiffers
  <2>4. IsLess(m, dst, dst_size, src, src_size) <=> m[dst + d] < m[src + d]
    BY <1>1, <2>2, <2>3, LessByDifference
  <2>5. IsLess(m, src, src_size, dst, dst_size) <=> m[src + d] < m[dst + d]
    BY <1>1, <2>2, <2>3, LessByDifference
  <2>6. m[src + d] < m[dst + d] <=> ~(m[dst + d] < m[src + d])
    BY <2>2, <2>3
  <2>7. answer = Lexicographic(m, dst, dst_size, src, src_size)
    <3>1. -1 # 0 /\ 1 # 0
      OBVIOUS
    <3>. QED  BY <1>3, <1>4, <2>1, <2>4, <2>5, <2>6, <3>1
  <2>. QED  BY <2>7 DEF answer
<1>7. \/ Agree(m, dst, src, common) /\ mem_cmp(m, dst, src, common) = 0
      \/ \E d \in 0 .. common - 1 :
           /\ dst # src /\ FirstDiffers(m, dst, src, common, d)
           /\ mem_cmp(m, dst, src, common) = IF m[dst + d] < m[src + d] THEN -1 ELSE 1
  BY <1>1, Compared
<1>. QED
  BY <1>5, <1>6, <1>7

\* What BlocksArrive is proved from: the memory is what was intended, of bytes.
BlocksInv ==
  /\ bytes \in [Addresses -> Addresses] /\ intended = bytes
  /\ order_found = true_order

LEMMA BlocksStep ==
  BlocksInv /\ [BlocksNext]_blocks_vars => BlocksInv'
<1> DEFINE N == MemorySize
<1>. SUFFICES ASSUME BlocksInv, [BlocksNext]_blocks_vars PROVE BlocksInv'
  OBVIOUS
<1>1. /\ N \in Nat /\ Addresses = 0 .. N - 1 /\ 0 \in Addresses
      /\ bytes \in [0 .. N - 1 -> Addresses] /\ intended = bytes /\ order_found = true_order
  BY BlocksAssumption DEF BlocksInv, Addresses
<1>2. ASSUME NEW a \in Addresses, NEW size \in 0 .. N, Inside(a, size)
      PROVE  a \in 0 .. N - size
  BY <1>1, <1>2 DEF Inside
<1>3. ASSUME NEW dst \in Addresses, NEW size \in 0 .. N, Sets(dst, size)
      PROVE  BlocksInv'
  <2>1. dst \in 0 .. N - size
    BY <1>2, <1>3 DEF Sets
  <2>2. mem_set(bytes, dst, 0, size) = Filled(bytes, dst, 0, size)
    BY <1>1, <2>1, SetFills
  <2>3. Filled(bytes, dst, 0, size)
          = [a \in Addresses |-> IF a \in dst .. dst + size - 1 THEN 0 ELSE intended[a]]
    BY <1>1 DEF Filled
  <2>4. Filled(bytes, dst, 0, size) \in [Addresses -> Addresses]
    BY <1>1, <2>3
  <2>. QED  BY <1>1, <1>3, <2>2, <2>3, <2>4 DEF Sets, BlocksInv
<1>4. ASSUME NEW dst \in Addresses, NEW dst_size \in 0 .. N,
             NEW src \in Addresses, NEW src_size \in 0 .. N, Moves(dst, dst_size, src, src_size)
      PROVE  BlocksInv'
  <2>1. dst \in 0 .. N - dst_size /\ src \in 0 .. N - src_size
    BY <1>2, <1>4 DEF Moves
  <2>2. CASE dst_size < src_size
    <3>1. dst_size # src_size
      BY <1>1, <2>2
    <3>2. bytes' = bytes /\ intended' = intended /\ order_found' = order_found /\ true_order' = true_order
      BY <1>4, <2>2, <3>1, Zenon DEF Moves, bounded_move
    <3>. QED  BY <1>1, <3>2 DEF BlocksInv
  <2>3. CASE ~(dst_size < src_size)
    <3>1. dst \in 0 .. N - src_size
      BY <1>1, <2>1, <2>3
    <3>2. mem_move(bytes, dst, src, src_size) = Moved(bytes, dst, src, src_size)
      BY <1>1, <2>1, <3>1, MoveMoves
    <3>3. bytes' = mem_move(bytes, dst, src, src_size) /\ intended' = Moved(bytes, dst, src, src_size)
      BY <1>1, <1>4, <2>3 DEF Moves, bounded_move
    <3>4. Moved(bytes, dst, src, src_size) \in [Addresses -> Addresses]
      <4>1. \A a \in dst .. dst + src_size - 1 : a - dst + src \in 0 .. N - 1
        BY <1>1, <2>1, <3>1
      <4>. QED  BY <1>1, <4>1 DEF Moved
    <3>. QED  BY <1>1, <1>4, <3>2, <3>3, <3>4 DEF Moves, BlocksInv
  <2>. QED  BY <2>2, <2>3
<1>5. ASSUME NEW first \in Addresses, NEW first_size \in 0 .. N,
             NEW second \in Addresses, NEW second_size \in 0 .. N,
             Swaps(first, first_size, second, second_size)
      PROVE  BlocksInv'
  <2>1. first \in 0 .. N - first_size /\ second \in 0 .. N - second_size
    BY <1>2, <1>5 DEF Swaps
  <2>2. CASE first_size # second_size
    BY <1>1, <1>5, <2>2 DEF Swaps, bounded_swap, BlocksInv
  <2>3. CASE first_size = second_size
    <3>1. first = second \/ first + first_size <= second \/ second + first_size <= first
      BY <1>5, <2>3 DEF Swaps
    <3>2. mem_swap(bytes, first, second, first_size) = Swapped(bytes, first, second, first_size)
      BY <1>1, <2>1, <2>3, <3>1, SwapSwaps
    <3>3. \A a \in Addresses :
            /\ a \in first .. first + first_size - 1 => a - first + second \in 0 .. N - 1
            /\ a \in second .. second + first_size - 1 => a - second + first \in 0 .. N - 1
            /\ a \in first .. first + first_size - 1 /\ a \in second .. second + first_size - 1
                 => a - first + second = a - second + first
      BY <1>1, <2>1, <2>3, <3>1
    <3>4. Swapped(bytes, first, second, first_size) \in [Addresses -> Addresses]
      BY <1>1, <3>3 DEF Swapped
    <3>5. bytes' = mem_swap(bytes, first, second, first_size)
          /\ intended' = [a \in Addresses |->
                            CASE a \in first .. first + first_size - 1 -> bytes[a - first + second]
                              [] a \in second .. second + first_size - 1 -> bytes[a - second + first]
                              [] OTHER -> bytes[a]]
      BY <1>1, <1>5, <2>3 DEF Swaps
    <3>6. ASSUME NEW a \in Addresses
          PROVE  (CASE a \in first .. first + first_size - 1 -> bytes[a - first + second]
                    [] a \in second .. second + first_size - 1 -> bytes[a - second + first]
                    [] OTHER -> bytes[a])
                   = IF a \in first .. first + first_size - 1 THEN bytes[a - first + second]
                     ELSE IF a \in second .. second + first_size - 1 THEN bytes[a - second + first]
                     ELSE bytes[a]
      <4>1. a \in first .. first + first_size - 1 /\ a \in second .. second + first_size - 1
              => bytes[a - first + second] = bytes[a - second + first]
        BY <3>3
      <4>. QED  BY <4>1
    <3>7. intended' = Swapped(bytes, first, second, first_size)
      BY <1>1, <3>5, <3>6 DEF Swapped
    <3>. QED  BY <1>1, <1>5, <3>2, <3>4, <3>5, <3>7 DEF Swaps, BlocksInv
  <2>. QED  BY <2>2, <2>3
<1>6. ASSUME NEW dst \in Addresses, NEW dst_size \in 0 .. N,
             NEW src \in Addresses, NEW src_size \in 0 .. N,
             Compares(dst, dst_size, src, src_size)
      PROVE  BlocksInv'
  <2>1. dst \in 0 .. N - dst_size /\ src \in 0 .. N - src_size /\ (dst # src \/ dst_size = src_size)
    BY <1>2, <1>6 DEF Compares
  <2>2. bytes \in [0 .. N - 1 -> Nat]
    BY <1>1
  <2>3. (IF dst_size = src_size THEN mem_cmp(bytes, dst, src, src_size)
         ELSE bounded_cmp(bytes, dst, dst_size, src, src_size))
          = Lexicographic(bytes, dst, dst_size, src, src_size)
    <3>. HIDE DEF N
    <3>. QED  BY <1>1, <2>1, <2>2, ComparesExactly
  <2>4. order_found' = true_order' /\ bytes' = bytes /\ intended' = intended
    BY <1>1, <1>6, <2>3 DEF Compares
  <2>. QED  BY <1>1, <2>4 DEF BlocksInv
<1>7. CASE UNCHANGED blocks_vars
  BY <1>7 DEF BlocksInv, blocks_vars
<1>. QED
  BY <1>3, <1>4, <1>5, <1>6, <1>7 DEF BlocksNext

\* In a memory of any size, whatever is set, moved, swapped and compared, the
\* functions of memory.cpp do what they promise, for blocks that overlap too.
THEOREM MemoryIsExact ==
  BlocksSpec => []BlocksArrive
<1>1. BlocksInit => BlocksInv
  BY BlocksAssumption DEF BlocksInit, BlocksInv, Addresses
<1>2. BlocksInv => BlocksArrive
  BY DEF BlocksInv, BlocksArrive
<1>. QED
  BY <1>1, <1>2, BlocksStep, PTL DEF BlocksSpec

-----------------------------------------------------------------------------
(***************************************************************************)
(* The screen.                                                             *)
(***************************************************************************)
\* What a place of the screen may show, a line of the paper, and the address of
\* a place.
Shown == Characters \cup {Blank}
Lines == [0 .. Width - 1 -> Shown]
Place(x, y) == y*Width + x

\* Two places have two addresses, and the address of the place below is a line
\* further.
LEMMA PlacesDiffer ==
  ASSUME NEW x \in 0 .. Width - 1, NEW y \in 0 .. Height - 1
  PROVE  /\ Place(x, y) \in Places
         /\ \A u \in 0 .. Width - 1, v \in 0 .. Height - 1 :
              Place(x, y) = Place(u, v) => x = u /\ y = v
         /\ Place(x, y) < Width*(Height - 1) <=> y < Height - 1
         /\ Place(x, y) + Width = Place(x, y + 1)
<1>1. Width \in Nat \ {0} /\ Height \in Nat \ {0}
  BY ConsoleAssumption
<1>2. ASSUME NEW v \in Int, NEW w \in Int, v < w
      PROVE  v*Width + Width <= w*Width
  <2>1. \E d \in Nat : w = v + 1 + d
    <3>1. w - v - 1 \in Nat /\ w = v + 1 + (w - v - 1)
      BY <1>2
    <3>. QED  BY <3>1
  <2>2. PICK d \in Nat : w = v + 1 + d
    BY <2>1
  <2>3. w*Width = v*Width + Width + d*Width /\ d*Width \in Nat
    BY <1>1, <2>2
  <2>. QED  BY <1>1, <2>3
<1>3. y*Width \in Nat /\ (y + 1)*Width = y*Width + Width /\ Width*(Height - 1) = (Height - 1)*Width
      /\ (Height - 1)*Width \in Nat /\ Width*Height = (Height - 1)*Width + Width
  BY <1>1
<1>4. y*Width <= (Height - 1)*Width
  BY <1>1, <1>2, <1>3
<1>5. Place(x, y) \in Places
  BY <1>1, <1>3, <1>4 DEF Place, Places
<1>6. ASSUME NEW u \in 0 .. Width - 1, NEW v \in 0 .. Height - 1, Place(x, y) = Place(u, v)
      PROVE  x = u /\ y = v
  <2>1. v*Width \in Nat
    BY <1>1
  <2>2. ~(y < v) /\ ~(v < y)
    BY <1>1, <1>2, <1>3, <1>6, <2>1 DEF Place
  <2>3. y = v
    BY <2>2
  <2>. QED  BY <1>3, <1>6, <2>3 DEF Place
<1>7. y < Height - 1 => Place(x, y) < Width*(Height - 1)
  BY <1>1, <1>2, <1>3 DEF Place
<1>8. y = Height - 1 => ~(Place(x, y) < Width*(Height - 1))
  BY <1>1, <1>3 DEF Place
<1>9. Place(x, y) + Width = Place(x, y + 1)
  BY <1>1, <1>3 DEF Place
<1>10. y < Height - 1 \/ y = Height - 1
  BY <1>1
<1>. QED
  BY <1>5, <1>6, <1>7, <1>8, <1>9, <1>10

\* scroll_up moves each line one up and blanks the last.
LEMMA Scrolled ==
  ASSUME NEW memory \in [Places -> Shown]
  PROVE  scroll_up(memory)
           = [a \in Places |-> IF a < Width*(Height - 1) THEN memory[a + Width] ELSE Blank]
<1> DEFINE N == Width*Height
           len == Width*(Height - 1)
<1>1. /\ Width \in Nat \ {0} /\ Height \in Nat \ {0}
      /\ N \in Nat /\ len \in 0 .. N /\ N - len = Width /\ Places = 0 .. N - 1
  <2>1. Width \in Nat \ {0} /\ Height \in Nat \ {0}
    BY ConsoleAssumption
  <2>2. Width*Height = Width*(Height - 1) + Width /\ Width*(Height - 1) \in Nat
    BY <2>1
  <2>. QED  BY <2>1, <2>2 DEF Places
<1>. HIDE DEF N, len
<1>2. mem_move(memory, 0, Width, len) = Moved(memory, 0, Width, len)
  <2>1. 0 \in 0 .. N - len /\ Width \in 0 .. N - len
    BY <1>1
  <2>. QED  BY <1>1, <2>1, MoveMoves
<1>3. Moved(memory, 0, Width, len) \in [0 .. N - 1 -> Shown]
  <2>1. ASSUME NEW a \in 0 .. N - 1
        PROVE  (IF a \in 0 .. 0 + len - 1 THEN memory[a - 0 + Width] ELSE memory[a]) \in Shown
    <3>1. a \in 0 .. 0 + len - 1 => a - 0 + Width \in 0 .. N - 1
      BY <1>1
    <3>. QED  BY <1>1, <3>1
  <2>. QED  BY <1>1, <2>1 DEF Moved
<1>4. mem_set(Moved(memory, 0, Width, len), len, Blank, Width)
        = Filled(Moved(memory, 0, Width, len), len, Blank, Width)
  <2>1. Width \in 0 .. N /\ len \in 0 .. N - Width /\ Blank \in Shown
    BY <1>1 DEF Shown
  <2>2. ASSUME NEW m \in [0 .. N - 1 -> Shown]
        PROVE  mem_set(m, len, Blank, Width) = Filled(m, len, Blank, Width)
    BY <1>1, <2>1, SetFills
  <2>. QED  BY <1>3, <2>2, Zenon
<1>5. scroll_up(memory) = Filled(Moved(memory, 0, Width, len), len, Blank, Width)
  BY <1>2, <1>4 DEF scroll_up, len
<1>6. ASSUME NEW a \in 0 .. N - 1
      PROVE  Filled(Moved(memory, 0, Width, len), len, Blank, Width)[a]
               = IF a < len THEN memory[a + Width] ELSE Blank
  <2>1. a - 0 + Width = a + Width /\ (a \in len .. len + Width - 1 <=> ~(a < len))
        /\ (a \in 0 .. 0 + len - 1 <=> a < len)
    BY <1>1
  <2>. QED  BY <1>1, <2>1 DEF Filled, Moved
<1>7. Filled(Moved(memory, 0, Width, len), len, Blank, Width)
        = [a \in 0 .. N - 1 |-> Filled(Moved(memory, 0, Width, len), len, Blank, Width)[a]]
  BY <1>1 DEF Filled, Moved
<1>. QED
  BY <1>1, <1>5, <1>6, <1>7 DEF len

\* A screen and a paper; the screen shows the last lines of the paper; and its
\* cursor stands where the paper goes on, within the line or at its end.
Screens == [cells : [Places -> Shown], x : 0 .. Width - 1, y : 0 .. Height - 1]
Papers == [lines : Seq(Lines), x : 0 .. Width - 1, y : Nat \ {0}]

Above(p) == Len(p.lines) - Height
ShowsText(s, p) ==
  /\ s.cells \in [Places -> Shown] /\ s.y \in 0 .. Height - 1
  /\ p.lines \in Seq(Lines) /\ Len(p.lines) >= Height
  /\ p.y = Above(p) + 1 + s.y
  /\ \A x \in 0 .. Width - 1, y \in 0 .. Height - 1 :
       s.cells[Place(x, y)] = p.lines[Above(p) + y + 1][x]
Shows(s, p) == s \in Screens /\ p \in Papers /\ ShowsText(s, p) /\ p.x = s.x

\* The next line of the screen, which scrolls at its end, and that of the paper.
BelowOf(s) ==
  [cells |-> IF s.y + 1 >= Height THEN scroll_up(s.cells) ELSE s.cells,
   x |-> 0, y |-> IF s.y + 1 >= Height THEN Height - 1 ELSE s.y + 1]

LEMMA NextLineShows ==
  ASSUME NEW s, NEW p, ShowsText(s, p)
  PROVE  Shows(BelowOf(s), NextLine(p))
<1> DEFINE n == Len(p.lines)
           q == NextLine(p)
<1>1. /\ Width \in Nat \ {0} /\ Height \in Nat \ {0} /\ n \in Nat /\ n >= Height
      /\ s.y \in 0 .. Height - 1 /\ p.y = n - Height + 1 + s.y
      /\ p.lines \in Seq(Lines) /\ s.cells \in [Places -> Shown]
  BY ConsoleAssumption DEF ShowsText, Above
<1>2. \A x \in 0 .. Width - 1, y \in 0 .. Height - 1 :
        s.cells[Place(x, y)] = p.lines[n - Height + y + 1][x]
  BY DEF ShowsText, Above
<1>. HIDE DEF n
<1>3. BlankLine \in Lines /\ \A x \in 0 .. Width - 1 : BlankLine[x] = Blank
  BY DEF BlankLine, Lines, Shown
<1>4. CASE s.y + 1 >= Height
  <2>1. p.y = n /\ s.y = Height - 1
    BY <1>1, <1>4
  <2>2. q = [lines |-> Append(p.lines, BlankLine), x |-> 0, y |-> n + 1]
    BY <2>1 DEF NextLine, n
  <2>3. /\ Append(p.lines, BlankLine) \in Seq(Lines)
        /\ Len(Append(p.lines, BlankLine)) = n + 1
        /\ Append(p.lines, BlankLine)[n + 1] = BlankLine
        /\ \A i \in 1 .. n : Append(p.lines, BlankLine)[i] = p.lines[i]
    BY <1>1, <1>3 DEF n
  <2>4. BelowOf(s) = [cells |-> scroll_up(s.cells), x |-> 0, y |-> Height - 1]
    BY <1>4 DEF BelowOf
  <2>5. scroll_up(s.cells)
          = [a \in Places |-> IF a < Width*(Height - 1) THEN s.cells[a + Width] ELSE Blank]
    BY <1>1, Scrolled
  <2>6. scroll_up(s.cells) \in [Places -> Shown]
    <3>1. ASSUME NEW a \in Places
          PROVE  (IF a < Width*(Height - 1) THEN s.cells[a + Width] ELSE Blank) \in Shown
      <4>1. a < Width*(Height - 1) => a + Width \in Places
        <5>1. Width*(Height - 1) \in Nat /\ Width*Height = Width*(Height - 1) + Width
          BY <1>1
        <5>. QED  BY <1>1, <5>1 DEF Places
      <4>. QED  BY <1>1, <4>1 DEF Shown
    <3>. QED  BY <2>5, <3>1
  <2>7. ASSUME NEW x \in 0 .. Width - 1, NEW y \in 0 .. Height - 1
        PROVE  scroll_up(s.cells)[Place(x, y)]
                 = Append(p.lines, BlankLine)[n + 1 - Height + y + 1][x]
    <3>1. /\ Place(x, y) \in Places /\ Place(x, y) + Width = Place(x, y + 1)
          /\ Place(x, y) < Width*(Height - 1) <=> y < Height - 1
      BY PlacesDiffer
    <3>2. CASE y < Height - 1
      <4>1. y + 1 \in 0 .. Height - 1 /\ n + 1 - Height + y + 1 \in 1 .. n
            /\ n - Height + (y + 1) + 1 = n + 1 - Height + y + 1
        <5>1. n \in Nat /\ Height \in Nat /\ n >= Height /\ y \in 0 .. Height - 1
          BY <1>1
        <5>. QED  BY <3>2, <5>1
      <4>2. scroll_up(s.cells)[Place(x, y)] = s.cells[Place(x, y + 1)]
        BY <2>5, <3>1, <3>2
      <4>3. s.cells[Place(x, y + 1)] = p.lines[n - Height + (y + 1) + 1][x]
        BY <1>2, <4>1
      <4>. QED  BY <2>3, <4>1, <4>2, <4>3
    <3>3. CASE y = Height - 1
      <4>1. n + 1 - Height + y + 1 = n + 1
        BY <1>1, <3>3
      <4>2. scroll_up(s.cells)[Place(x, y)] = Blank
        BY <1>1, <2>5, <3>1, <3>3
      <4>. QED  BY <1>3, <2>3, <4>1, <4>2
    <3>4. y < Height - 1 \/ y = Height - 1
      <4>1. Height \in Nat
        BY <1>1
      <4>. QED  BY <4>1
    <3>. QED  BY <3>2, <3>3, <3>4
  <2>8. BelowOf(s) \in Screens
    BY <1>1, <2>4, <2>6 DEF Screens
  <2>9. q \in Papers
    BY <1>1, <2>2, <2>3 DEF Papers
  <2>. HIDE DEF q
  <2>10. Len(q.lines) = n + 1 /\ q.y = n + 1 /\ q.x = 0
    BY <2>2, <2>3
  <2>11. ShowsText(BelowOf(s), q)
    <3>1. /\ BelowOf(s).cells = scroll_up(s.cells) /\ BelowOf(s).y = Height - 1
          /\ q.lines = Append(p.lines, BlankLine)
      BY <2>2, <2>4
    <3>2. n + 1 >= Height /\ n + 1 = n + 1 - Height + 1 + (Height - 1) /\ Height - 1 \in 0 .. Height - 1
      BY <1>1
    <3>3. Above(q) = n + 1 - Height
      BY <1>1, <2>10 DEF Above
    <3>4. \A x \in 0 .. Width - 1, y \in 0 .. Height - 1 :
            BelowOf(s).cells[Place(x, y)] = q.lines[Above(q) + y + 1][x]
      BY <2>7, <3>1, <3>3
    <3>5. q.lines \in Seq(Lines) /\ Len(q.lines) >= Height /\ q.y = Above(q) + 1 + BelowOf(s).y
      BY <2>3, <2>10, <3>1, <3>2, <3>3
    <3>. HIDE DEF BelowOf
    <3>. QED  BY <2>6, <3>1, <3>2, <3>4, <3>5 DEF ShowsText
  <2>. QED  BY <2>4, <2>8, <2>9, <2>10, <2>11 DEF Shows, q
<1>5. CASE ~(s.y + 1 >= Height)
  <2>1. p.y # n /\ p.y + 1 = n - Height + 1 + (s.y + 1) /\ s.y + 1 \in 0 .. Height - 1
        /\ p.y + 1 \in Nat \ {0}
    BY <1>1, <1>5, SMTT(30)
  <2>2. q = [lines |-> p.lines, x |-> 0, y |-> p.y + 1]
    BY <2>1 DEF NextLine, n
  <2>3. BelowOf(s) = [cells |-> s.cells, x |-> 0, y |-> s.y + 1]
    BY <1>5 DEF BelowOf
  <2>4. BelowOf(s) \in Screens
    BY <1>1, <2>1, <2>3 DEF Screens
  <2>5. q \in Papers
    BY <1>1, <2>1, <2>2 DEF Papers
  <2>. HIDE DEF q
  <2>6. ShowsText(BelowOf(s), q)
    BY <1>1, <1>2, <2>1, <2>2, <2>3 DEF ShowsText, Above, n
  <2>. QED  BY <2>2, <2>3, <2>4, <2>5, <2>6 DEF Shows, q
<1>. QED
  BY <1>4, <1>5

\* What is written at the cursor is there, and nothing else has changed.
LEMMA WriteShows ==
  ASSUME NEW s, NEW p, Shows(s, p), NEW ch \in Characters
  PROVE  ShowsText([s EXCEPT !.cells[s.y*Width + s.x] = ch],
                   [p EXCEPT !.lines[p.y][p.x] = ch, !.x = @ + 1])
<1> DEFINE n == Len(p.lines)
           a == s.y*Width + s.x
           t == [s EXCEPT !.cells[s.y*Width + s.x] = ch]
           q == [p EXCEPT !.lines[p.y][p.x] = ch, !.x = @ + 1]
<1>1. /\ Width \in Nat \ {0} /\ Height \in Nat \ {0} /\ n \in Nat /\ n >= Height
      /\ s \in Screens /\ p \in Papers /\ s.x \in 0 .. Width - 1 /\ s.y \in 0 .. Height - 1
      /\ p.x = s.x /\ p.y = n - Height + 1 + s.y
      /\ p.lines \in Seq(Lines) /\ s.cells \in [Places -> Shown]
  BY ConsoleAssumption DEF Shows, ShowsText, Above, Screens
<1>2. \A x \in 0 .. Width - 1, y \in 0 .. Height - 1 :
        s.cells[Place(x, y)] = p.lines[n - Height + y + 1][x]
  BY DEF Shows, ShowsText, Above
<1>3. a = Place(s.x, s.y) /\ a \in Places /\ ch \in Shown
  BY <1>1, PlacesDiffer DEF Place, Shown
<1>4. p.y \in 1 .. n /\ p.lines[p.y] \in Lines
  BY <1>1
<1> DEFINE line == [p.lines[p.y] EXCEPT ![p.x] = ch]
<1>5. line \in Lines
  BY <1>1, <1>3, <1>4 DEF Lines
<1>6. /\ t.cells = [s.cells EXCEPT ![a] = ch] /\ t.y = s.y
      /\ q.lines = [p.lines EXCEPT ![p.y] = line] /\ q.y = p.y
  BY <1>1 DEF Screens, Papers
<1>7. /\ q.lines \in Seq(Lines) /\ Len(q.lines) = n
      /\ \A i \in 1 .. n : q.lines[i] = IF i = p.y THEN line ELSE p.lines[i]
  <2>. HIDE DEF line, q
  <2>. QED  BY <1>1, <1>4, <1>5, <1>6
<1>8. t.cells \in [Places -> Shown] /\ \A b \in Places : t.cells[b] = IF b = a THEN ch ELSE s.cells[b]
  <2>. HIDE DEF a, t
  <2>. QED  BY <1>1, <1>3, <1>6
<1>9. ASSUME NEW x \in 0 .. Width - 1, NEW y \in 0 .. Height - 1
      PROVE  t.cells[Place(x, y)] = q.lines[n - Height + y + 1][x]
  <2>1. /\ Place(x, y) \in Places /\ n - Height + y + 1 \in 1 .. n
        /\ Place(x, y) = a <=> x = s.x /\ y = s.y
        /\ n - Height + y + 1 = p.y <=> y = s.y
    <3>1. /\ Place(x, y) \in Places
          /\ \A u \in 0 .. Width - 1, v \in 0 .. Height - 1 :
               Place(x, y) = Place(u, v) => x = u /\ y = v
      BY PlacesDiffer
    <3>2. Place(x, y) = Place(s.x, s.y) => x = s.x /\ y = s.y
      BY <1>1, <3>1, Zenon
    <3>3. n - Height + y + 1 \in 1 .. n /\ (n - Height + y + 1 = p.y <=> y = s.y)
      <4>1. n \in Nat /\ Height \in Nat /\ n >= Height /\ s.y \in Nat /\ p.y = n - Height + 1 + s.y
        BY <1>1
      <4>. HIDE DEF n
      <4>. QED  BY <4>1
    <3>. QED  BY <1>3, <3>1, <3>2, <3>3
  <2>2. p.lines[p.y] \in [0 .. Width - 1 -> Shown]
    BY <1>4 DEF Lines
  <2>3. line[x] = IF x = s.x THEN ch ELSE p.lines[p.y][x]
    BY <1>1, <2>2
  <2>4. s.cells[Place(x, y)] = p.lines[n - Height + y + 1][x]
    BY <1>2
  <2>. HIDE DEF a, t, q, line
  <2>. QED  BY <1>7, <1>8, <2>1, <2>3, <2>4
<1>. HIDE DEF t, q
<1>. QED
  BY <1>1, <1>6, <1>7, <1>8, <1>9 DEF ShowsText, Above

\* A character, or the end of a line, goes to the same place of both.
LEMMA PutCharShows ==
  ASSUME NEW s, NEW p, Shows(s, p), NEW ch, ch \in Characters \/ ch = "\n"
  PROVE  Shows(put_char(s, ch), OnPaper(p, ch))
<1>1. /\ Width \in Nat \ {0} /\ Height \in Nat \ {0}
      /\ s \in Screens /\ p \in Papers /\ ShowsText(s, p) /\ p.x = s.x
      /\ s.x \in 0 .. Width - 1 /\ s.y \in 0 .. Height - 1
  BY ConsoleAssumption DEF Shows, Screens
<1>2. CASE ch = "\n"
  <2>1. put_char(s, ch) = BelowOf(s)
    BY <1>2 DEF put_char, advance_xy, BelowOf
  <2>2. OnPaper(p, ch) = NextLine(p)
    BY <1>2 DEF OnPaper
  <2>. QED  BY <1>1, <2>1, <2>2, NextLineShows
<1>3. CASE ch # "\n"
  <2> DEFINE t == [s EXCEPT !.cells[s.y*Width + s.x] = ch]
             q == [p EXCEPT !.lines[p.y][p.x] = ch, !.x = @ + 1]
  <2>1. ShowsText(t, q)
    BY <1>3, WriteShows
  <2>2. t.x = s.x /\ t.y = s.y /\ t = [cells |-> t.cells, x |-> s.x, y |-> s.y]
    BY <1>1 DEF Screens
  <2>3. q.x = s.x + 1 /\ q.y = p.y /\ q = [lines |-> q.lines, x |-> s.x + 1, y |-> p.y]
    <3>1. DOMAIN q = {"lines", "x", "y"} /\ DOMAIN p = {"lines", "x", "y"} /\ p.x = s.x
      BY <1>1 DEF Papers
    <3>2. q.x = s.x + 1 /\ q.y = p.y
      BY <1>1, <3>1
    <3>3. q = [f \in {"lines", "x", "y"} |-> q[f]]
      BY <3>1
    <3>. HIDE DEF q
    <3>. QED  BY <3>2, <3>3
  <2>4. put_char(s, ch) = advance_xy(t, 1, FALSE)
    BY <1>3 DEF put_char
  <2>5. OnPaper(p, ch) = IF q.x = Width THEN NextLine(q) ELSE q
    BY <1>3 DEF OnPaper
  <2>. HIDE DEF t, q
  <2>6. CASE s.x + 1 >= Width
    <3>1. q.x = Width
      BY <1>1, <2>3, <2>6
    <3>2. put_char(s, ch) = BelowOf(t)
      BY <2>2, <2>4, <2>6 DEF advance_xy, BelowOf
    <3>. QED  BY <2>1, <2>5, <3>1, <3>2, NextLineShows
  <2>7. CASE ~(s.x + 1 >= Width)
    <3>1. q.x # Width /\ s.x + 1 \in 0 .. Width - 1
      BY <1>1, <2>3, <2>7
    <3>2. advance_xy(t, 1, FALSE)
            = [cells |-> IF t.y >= Height THEN scroll_up(t.cells) ELSE t.cells,
               x |-> t.x + 1, y |-> IF t.y >= Height THEN Height - 1 ELSE t.y]
      BY <2>2, <2>7 DEF advance_xy
    <3>3. ~(t.y >= Height)
      BY <1>1, <2>2
    <3>4. put_char(s, ch) = [cells |-> t.cells, x |-> s.x + 1, y |-> s.y]
      BY <2>2, <2>4, <3>2, <3>3
    <3>5. put_char(s, ch) \in Screens /\ q \in Papers
      BY <1>1, <2>1, <2>3, <3>1, <3>4 DEF Screens, Papers, ShowsText
    <3>6. ShowsText(put_char(s, ch), q)
      BY <2>1, <2>2, <3>4 DEF ShowsText
    <3>. QED  BY <2>3, <2>5, <3>1, <3>4, <3>5, <3>6 DEF Shows
  <2>. QED  BY <2>6, <2>7
<1>. QED
  BY <1>2, <1>3

\* The screen and the paper after each of the first k characters of a string.
Written2(x, ch) == <<put_char(x[1], ch), OnPaper(x[2], ch)>>
RunsTo(g, k, s, p, string) ==
  /\ g[0] = <<s, p>>
  /\ \A i \in 0 .. k : Shows(g[i][1], g[i][2])
  /\ \A i \in 1 .. k : g[i] = Written2(g[i - 1], string[i])

\* There are such, all of which show the same.
LEMMA StringRuns ==
  ASSUME NEW s, NEW p, Shows(s, p), NEW string \in Seq(Characters)
  PROVE  \E g : RunsTo(g, Len(string), s, p, string)
<1> DEFINE n == Len(string)
           Next(x, i) == Written2(x, string[i])
           Runs(g, k) == RunsTo(g, k, s, p, string)
           Reached == {k \in 0 .. n : \E g : Runs(g, k)}
<1>1. n \in Nat /\ \A i \in 1 .. n : string[i] \in Characters
  OBVIOUS
<1>. HIDE DEF n
<1>2. 0 \in Reached
  <2>1. Runs([i \in 0 .. 0 |-> <<s, p>>], 0)
    BY DEF RunsTo
  <2>. HIDE DEF Runs
  <2>. QED  BY <1>1, <2>1
<1>3. ASSUME NEW k \in 0 .. n - 1, k \in Reached
      PROVE  k + 1 \in Reached
  <2>1. PICK g : Runs(g, k)
    BY <1>3, Zenon
  <2> DEFINE h == [i \in 0 .. k + 1 |-> IF i = k + 1 THEN Next(g[k], k + 1) ELSE g[i]]
  <2>2. k \in 0 .. k /\ k + 1 \in 1 .. n /\ k + 1 \in 0 .. n
    BY <1>1
  <2>3. Shows(Next(g[k], k + 1)[1], Next(g[k], k + 1)[2])
    <3>1. Shows(g[k][1], g[k][2]) /\ string[k + 1] \in Characters
      BY <1>1, <2>1, <2>2 DEF RunsTo
    <3>. QED  BY <3>1, PutCharShows DEF Written2
  <2>. HIDE DEF Next
  <2>4. \A i \in 0 .. k + 1 : h[i] = IF i = k + 1 THEN Next(g[k], k + 1) ELSE g[i]
    OBVIOUS
  <2>. HIDE DEF h
  <2>5. h[0] = <<s, p>>
    BY <2>1, <2>4 DEF RunsTo
  <2>6. ASSUME NEW i \in 0 .. k + 1
        PROVE  Shows(h[i][1], h[i][2])
    <3>1. CASE i = k + 1
      BY <2>3, <2>4, <3>1, Zenon
    <3>2. CASE i # k + 1
      <4>1. i \in 0 .. k
        BY <3>2
      <4>. QED  BY <2>1, <2>4, <3>2, <4>1 DEF RunsTo
    <3>. QED  BY <3>1, <3>2
  <2>7. ASSUME NEW i \in 1 .. k + 1
        PROVE  h[i] = Next(h[i - 1], i)
    <3>1. i \in 0 .. k + 1 /\ i - 1 \in 0 .. k + 1 /\ i - 1 # k + 1
      OBVIOUS
    <3>2. h[i - 1] = g[i - 1]
      BY <2>4, <3>1
    <3>3. CASE i = k + 1
      <4>1. i - 1 = k
        BY <3>3
      <4>. QED  BY <2>4, <3>1, <3>2, <3>3, <4>1
    <3>4. CASE i # k + 1
      <4>1. i \in 1 .. k
        BY <3>4
      <4>2. g[i] = Next(g[i - 1], i)
        BY <2>1, <4>1 DEF RunsTo, Next
      <4>. QED  BY <2>4, <3>1, <3>2, <3>4, <4>2
    <3>. QED  BY <3>3, <3>4
  <2>8. Runs(h, k + 1)
    BY <2>5, <2>6, <2>7 DEF RunsTo, Next
  <2>. HIDE DEF Runs
  <2>. QED  BY <2>2, <2>8
<1>4. n \in Reached
  <2>. HIDE DEF Reached
  <2>1. \A k \in 0 .. n : k \in Reached
    BY <1>1, <1>2, <1>3, Upward
  <2>. QED  BY <1>1, <2>1
<1>5. PICK g : Runs(g, n)
  BY <1>4, Zenon
<1>. QED
  BY <1>5 DEF n

\* The recursions over a string, of the paper, of the driver and of the panic, compute
\* what the screen and the paper are after its last character.
LEMMA PaperRuns ==
  ASSUME NEW s, NEW p, NEW string \in Seq(Characters), NEW g,
         RunsTo(g, Len(string), s, p, string)
  PROVE  LineOnPaper(p, string) = NextLine(g[Len(string)][2])
<1> DEFINE n == Len(string)
           Next(x, i) == OnPaper(x, string[i])
           Is(h) == h = [i \in 0 .. n |-> IF i = 0 THEN p ELSE Next(h[i - 1], i)]
           run == CHOOSE h : Is(h)
           seen == [i \in 0 .. n |-> g[i][2]]
<1>1. n \in Nat
  OBVIOUS
<1>. HIDE DEF n
<1>2. 0 \in 0 .. n /\ \A i \in 1 .. n : i \in 0 .. n /\ i - 1 \in 0 .. n /\ i # 0
  BY <1>1
<1>3. seen[0] = p /\ \A i \in 1 .. n : seen[i] = Next(seen[i - 1], i)
  BY <1>2 DEF RunsTo, Written2, n
<1>. HIDE DEF seen, Next
<1>4. Is(seen)
  <2>1. \A i \in 0 .. n : i = 0 \/ i \in 1 .. n
    BY <1>1
  <2>2. \A i \in 0 .. n : seen[i] = IF i = 0 THEN p ELSE Next(seen[i - 1], i)
    BY <1>2, <1>3, <2>1, Zenon
  <2>3. seen = [i \in 0 .. n |-> seen[i]]
    BY Zenon DEF seen
  <2>. QED  BY <2>2, <2>3, Zenon
<1>5. Is(run)
  BY <1>4, Zenon
<1>. HIDE DEF run
<1>6. \A i \in 0 .. n : run[i] = IF i = 0 THEN p ELSE Next(run[i - 1], i)
  BY <1>5, Zenon
<1>7. run[n] = seen[n]
  <2>1. run[0] = seen[0] /\ \A i \in 1 .. n : run[i - 1] = seen[i - 1] => run[i] = seen[i]
    BY <1>2, <1>3, <1>6, Zenon
  <2>. HIDE DEF Is
  <2>. QED  BY <1>1, <2>1, AgreeUpTo
<1>8. n \in 0 .. n
  BY <1>1
<1>. QED
  BY <1>7, <1>8 DEF LineOnPaper, run, seen, Next, n

\* The driver.
LEMMA DriverRuns ==
  ASSUME NEW s, NEW p, NEW string \in Seq(Characters), NEW g,
         RunsTo(g, Len(string), s, p, string)
  PROVE  put_string(s, string) = put_char(g[Len(string)][1], "\n")
<1> DEFINE n == Len(string)
           Next(x, i) == put_char(x, string[i])
           Is(h) == h = [i \in 0 .. n |-> IF i = 0 THEN s ELSE Next(h[i - 1], i)]
           run == CHOOSE h : Is(h)
           seen == [i \in 0 .. n |-> g[i][1]]
<1>1. n \in Nat
  OBVIOUS
<1>. HIDE DEF n
<1>2. 0 \in 0 .. n /\ \A i \in 1 .. n : i \in 0 .. n /\ i - 1 \in 0 .. n /\ i # 0
  BY <1>1
<1>3. seen[0] = s /\ \A i \in 1 .. n : seen[i] = Next(seen[i - 1], i)
  BY <1>2 DEF RunsTo, Written2, n
<1>. HIDE DEF seen, Next
<1>4. Is(seen)
  <2>1. \A i \in 0 .. n : i = 0 \/ i \in 1 .. n
    BY <1>1
  <2>2. \A i \in 0 .. n : seen[i] = IF i = 0 THEN s ELSE Next(seen[i - 1], i)
    BY <1>2, <1>3, <2>1, Zenon
  <2>3. seen = [i \in 0 .. n |-> seen[i]]
    BY Zenon DEF seen
  <2>. QED  BY <2>2, <2>3, Zenon
<1>5. Is(run)
  BY <1>4, Zenon
<1>. HIDE DEF run
<1>6. \A i \in 0 .. n : run[i] = IF i = 0 THEN s ELSE Next(run[i - 1], i)
  BY <1>5, Zenon
<1>7. run[n] = seen[n]
  <2>1. run[0] = seen[0] /\ \A i \in 1 .. n : run[i - 1] = seen[i - 1] => run[i] = seen[i]
    BY <1>2, <1>3, <1>6, Zenon
  <2>. HIDE DEF Is
  <2>. QED  BY <1>1, <2>1, AgreeUpTo
<1>8. n \in 0 .. n
  BY <1>1
<1>. QED
  BY <1>7, <1>8 DEF put_string, run, seen, Next, n

\* The panel of the panic that has the cells and the cursor of a screen, on which
\* a character does the same.
PanelOf(s) == [cells |-> s.cells, col |-> s.x, row |-> s.y]

LEMMA PanelGoesOn ==
  ASSUME NEW s, s.y \in 0 .. Height - 1
  PROVE  new_line(PanelOf(s)) = PanelOf(BelowOf(s))
<1>1. Height \in Nat \ {0}
  BY ConsoleAssumption
<1>2. PanelOf(s).row = s.y /\ PanelOf(s).cells = s.cells
  BY DEF PanelOf
<1>3. CASE s.y + 1 >= Height
  <2>1. s.y = Height - 1 /\ s.y + 1 > Height - 1
    BY <1>1, <1>3
  <2>. QED  BY <1>2, <1>3, <2>1 DEF new_line, PanelOf, BelowOf
<1>4. CASE ~(s.y + 1 >= Height)
  <2>1. ~(s.y + 1 > Height - 1)
    BY <1>1, <1>4
  <2>2. new_line(PanelOf(s)) = [PanelOf(s) EXCEPT !.col = 0, !.row = @ + 1]
    BY <1>2, <2>1 DEF new_line
  <2>. QED  BY <1>4, <2>2 DEF PanelOf, BelowOf
<1>. QED
  BY <1>3, <1>4

LEMMA PanelPutsChar ==
  ASSUME NEW s \in Screens, NEW ch
  PROVE  print_char(PanelOf(s), ch) = PanelOf(put_char(s, ch))
<1>1. /\ Width \in Nat \ {0} /\ Height \in Nat \ {0}
      /\ s.x \in 0 .. Width - 1 /\ s.y \in 0 .. Height - 1
  BY ConsoleAssumption DEF Screens
<1>2. CASE ch = "\n"
  <2>1. put_char(s, ch) = BelowOf(s) /\ print_char(PanelOf(s), ch) = new_line(PanelOf(s))
    BY <1>2 DEF put_char, advance_xy, BelowOf, print_char
  <2>. QED  BY <1>1, <2>1, PanelGoesOn
<1>3. CASE ch # "\n"
  <2> DEFINE memory == [s.cells EXCEPT ![s.y*Width + s.x] = ch]
             t == [cells |-> memory, x |-> s.x, y |-> s.y]
             q == [cells |-> memory, x |-> s.x + 1, y |-> s.y]
  <2>1. put_char(s, ch) = advance_xy(t, 1, FALSE)
    <3>1. s = [cells |-> s.cells, x |-> s.x, y |-> s.y]
      BY DEF Screens
    <3>2. [s EXCEPT !.cells[s.y*Width + s.x] = ch] = t
      BY <3>1
    <3>. QED  BY <1>3, <3>2, Zenon DEF put_char
  <2>2. print_char(PanelOf(s), ch) = IF s.x + 1 >= Width THEN new_line(PanelOf(q)) ELSE PanelOf(q)
    <3>1. [PanelOf(s) EXCEPT !.cells[PanelOf(s).row*Width + PanelOf(s).col] = ch, !.col = @ + 1]
            = PanelOf(q)
      <4>1. PanelOf(s).row = s.y /\ PanelOf(s).col = s.x
        BY DEF PanelOf
      <4>2. PanelOf(q) = [cells |-> memory, col |-> s.x + 1, row |-> s.y]
        BY DEF PanelOf
      <4>3. [PanelOf(s) EXCEPT !.cells[s.y*Width + s.x] = ch, !.col = @ + 1]
              = [cells |-> memory, col |-> s.x + 1, row |-> s.y]
        <5> DEFINE r == PanelOf(s)
                   e == [r EXCEPT !.cells[s.y*Width + s.x] = ch, !.col = @ + 1]
        <5>1. /\ DOMAIN r = {"cells", "col", "row"}
              /\ r.cells = s.cells /\ r.col = s.x /\ r.row = s.y
          BY DEF PanelOf
        <5>. HIDE DEF r
        <5>2. DOMAIN e = {"cells", "col", "row"} /\ e = [f \in {"cells", "col", "row"} |-> e[f]]
          BY <5>1
        <5>3. e.cells = memory /\ e.col = s.x + 1 /\ e.row = s.y
          BY <5>1
        <5>. HIDE DEF e, memory
        <5>4. e = [cells |-> memory, col |-> s.x + 1, row |-> s.y]
          BY <5>2, <5>3
        <5>. QED  BY <5>4 DEF e, r
      <4>. QED  BY <4>1, <4>2, <4>3, Zenon
    <3>2. PanelOf(q).col = s.x + 1
      BY DEF PanelOf
    <3>. HIDE DEF q
    <3>. QED  BY <1>3, <3>1, <3>2 DEF print_char, add_char
  <2>3. t.cells = memory /\ t.x = s.x /\ t.y = s.y /\ q.cells = memory /\ q.y = s.y /\ q.x = s.x + 1
    OBVIOUS
  <2>. HIDE DEF memory, t, q
  <2>4. CASE s.x + 1 >= Width
    <3>1. advance_xy(t, 1, FALSE) = BelowOf(q)
      BY <2>3, <2>4 DEF advance_xy, BelowOf
    <3>. QED  BY <1>1, <2>1, <2>2, <2>3, <2>4, <3>1, PanelGoesOn
  <2>5. CASE ~(s.x + 1 >= Width)
    <3>1. advance_xy(t, 1, FALSE) = [cells |-> memory, x |-> s.x + 1, y |-> s.y]
      <4>1. ~(t.y >= Height)
        BY <1>1, <2>3
      <4>. QED  BY <2>3, <2>5, <4>1 DEF advance_xy
    <3>. QED  BY <2>1, <2>2, <2>5, <3>1 DEF q, PanelOf
  <2>. QED  BY <2>4, <2>5
<1>. QED
  BY <1>2, <1>3

\* The panic.
LEMMA PanicRuns ==
  ASSUME NEW s, NEW p, NEW string \in Seq(Characters), NEW g,
         RunsTo(g, Len(string), s, p, string)
  PROVE  failsafe_print(PanelOf(s), string) = new_line(PanelOf(g[Len(string)][1]))
<1> DEFINE n == Len(string)
           Next(x, i) == print_char(x, string[i])
           Is(h) == h = [i \in 0 .. n |-> IF i = 0 THEN PanelOf(s) ELSE Next(h[i - 1], i)]
           run == CHOOSE h : Is(h)
           seen == [i \in 0 .. n |-> PanelOf(g[i][1])]
<1>1. n \in Nat
  OBVIOUS
<1>. HIDE DEF n
<1>2. 0 \in 0 .. n /\ \A i \in 1 .. n : i \in 0 .. n /\ i - 1 \in 0 .. n /\ i # 0
  BY <1>1
<1>3. seen[0] = PanelOf(s) /\ \A i \in 1 .. n : seen[i] = Next(seen[i - 1], i)
  <2>1. g[0] = <<s, p>> /\ \A i \in 1 .. n : g[i][1] = put_char(g[i - 1][1], string[i])
    BY <1>2 DEF RunsTo, Written2, n
  <2>2. \A i \in 1 .. n : g[i - 1][1] \in Screens
    BY <1>2 DEF RunsTo, Shows, n
  <2>3. ASSUME NEW i \in 1 .. n
        PROVE  PanelOf(g[i][1]) = print_char(PanelOf(g[i - 1][1]), string[i])
    BY <2>1, <2>2, PanelPutsChar
  <2>4. seen[0] = PanelOf(g[0][1]) /\ \A i \in 0 .. n : seen[i] = PanelOf(g[i][1])
    BY <1>2
  <2>. HIDE DEF seen
  <2>. QED  BY <1>2, <2>1, <2>3, <2>4
<1>. HIDE DEF seen, Next
<1>4. Is(seen)
  <2>1. \A i \in 0 .. n : i = 0 \/ i \in 1 .. n
    BY <1>1
  <2>2. \A i \in 0 .. n : seen[i] = IF i = 0 THEN PanelOf(s) ELSE Next(seen[i - 1], i)
    BY <1>2, <1>3, <2>1, Zenon
  <2>3. seen = [i \in 0 .. n |-> seen[i]]
    BY Zenon DEF seen
  <2>. QED  BY <2>2, <2>3, Zenon
<1>5. Is(run)
  BY <1>4, Zenon
<1>. HIDE DEF run
<1>6. \A i \in 0 .. n : run[i] = IF i = 0 THEN PanelOf(s) ELSE Next(run[i - 1], i)
  BY <1>5, Zenon
<1>7. run[n] = seen[n]
  <2>1. run[0] = seen[0] /\ \A i \in 1 .. n : run[i - 1] = seen[i - 1] => run[i] = seen[i]
    BY <1>2, <1>3, <1>6, Zenon
  <2>. HIDE DEF Is
  <2>. QED  BY <1>1, <2>1, AgreeUpTo
<1>8. n \in 0 .. n
  BY <1>1
<1>. QED
  BY <1>7, <1>8 DEF failsafe_print, run, seen, Next, n

\* The writers' strings.
LEMMA PutStringShows ==
  ASSUME NEW s, NEW p, Shows(s, p), NEW string \in Seq(Characters)
  PROVE  Shows(put_string(s, string), LineOnPaper(p, string))
<1>1. PICK g : RunsTo(g, Len(string), s, p, string)
  BY StringRuns
<1>2. Shows(g[Len(string)][1], g[Len(string)][2])
  BY <1>1 DEF RunsTo
<1>3. OnPaper(g[Len(string)][2], "\n") = NextLine(g[Len(string)][2])
  BY DEF OnPaper
<1>4. Shows(put_char(g[Len(string)][1], "\n"), NextLine(g[Len(string)][2]))
  BY <1>2, <1>3, PutCharShows
<1>. QED
  BY <1>1, <1>4, PaperRuns, DriverRuns

LEMMA FailsafePrintShows ==
  ASSUME NEW s, NEW p, Shows(s, p), NEW string \in Seq(Characters)
  PROVE  \E t : failsafe_print(PanelOf(s), string) = PanelOf(t) /\ Shows(t, LineOnPaper(p, string))
<1>1. PICK g : RunsTo(g, Len(string), s, p, string)
  BY StringRuns
<1>2. Shows(g[Len(string)][1], g[Len(string)][2])
  BY <1>1 DEF RunsTo
<1>3. Shows(BelowOf(g[Len(string)][1]), NextLine(g[Len(string)][2]))
  BY <1>2, NextLineShows DEF Shows
<1>4. new_line(PanelOf(g[Len(string)][1])) = PanelOf(BelowOf(g[Len(string)][1]))
  BY <1>2, PanelGoesOn DEF Shows, ShowsText
<1>. QED
  BY <1>1, <1>3, <1>4, PaperRuns, PanicRuns

-----------------------------------------------------------------------------
\* Whoever writes, the driver or the panic, has a screen that shows the paper.
Writer == [cells |-> cells, x |-> IF panicking THEN col ELSE cur_x,
           y |-> IF panicking THEN row ELSE cur_y]
ScreenInv == panicking \in BOOLEAN /\ Shows(Writer, paper)

\* A goto: the cursor moves on the screen and on the paper, to the same place.
LEMMA GotoShows ==
  ASSUME NEW s, NEW p, Shows(s, p), NEW x \in 0 .. Width - 1, NEW y \in 0 .. Height - 1
  PROVE  Shows([cells |-> s.cells, x |-> x, y |-> y], PaperAt(p, x, y))
<1> DEFINE t == [cells |-> s.cells, x |-> x, y |-> y]
           n == Len(p.lines)
<1>1. /\ Height \in Nat \ {0} /\ n \in Nat /\ n >= Height
      /\ s \in Screens /\ p \in Papers /\ ShowsText(s, p)
  BY ConsoleAssumption DEF Shows, ShowsText
<1>2. PaperAt(p, x, y) = [lines |-> p.lines, x |-> x, y |-> n - Height + y + 1]
  <2> DEFINE q == PaperAt(p, x, y)
  <2>1. DOMAIN p = {"lines", "x", "y"}
    BY <1>1 DEF Papers
  <2>2. DOMAIN q = {"lines", "x", "y"} /\ q = [f \in {"lines", "x", "y"} |-> q[f]]
    BY <2>1 DEF PaperAt
  <2>3. q.lines = p.lines /\ q.x = x /\ q.y = n - Height + y + 1
    BY <2>1 DEF PaperAt
  <2>. HIDE DEF q, n
  <2>4. q = [lines |-> p.lines, x |-> x, y |-> n - Height + y + 1]
    BY <2>2, <2>3
  <2>. QED  BY <2>4 DEF q
<1>. HIDE DEF n
<1>3. n - Height + y + 1 \in Nat \ {0} /\ n - Height + y + 1 = n - Height + 1 + y
  BY <1>1
<1>4. t \in Screens /\ PaperAt(p, x, y) \in Papers
  BY <1>1, <1>2, <1>3 DEF Screens, Papers
<1>5. /\ t.cells = s.cells /\ t.x = x /\ t.y = y
      /\ PaperAt(p, x, y).lines = p.lines /\ PaperAt(p, x, y).x = x
      /\ PaperAt(p, x, y).y = n - Height + 1 + y
  BY <1>2, <1>3
<1>. HIDE DEF t
<1>6. ShowsText(t, PaperAt(p, x, y))
  BY <1>1, <1>5 DEF ShowsText, Above, n
<1>7. Shows(t, PaperAt(p, x, y))
  BY <1>4, <1>5, <1>6 DEF Shows
<1>. QED
  BY <1>7 DEF t

\* A blank screen shows a blank paper.
LEMMA BlankShows ==
  Shows([cells |-> [a \in Places |-> Blank], x |-> 0, y |-> 0], BlankPaper)
<1> DEFINE s == [cells |-> [a \in Places |-> Blank], x |-> 0, y |-> 0]
           lines == [i \in 1 .. Height |-> BlankLine]
<1>1. /\ Width \in Nat \ {0} /\ Height \in Nat \ {0} /\ Blank \in Shown
      /\ BlankLine \in Lines /\ \A x \in 0 .. Width - 1 : BlankLine[x] = Blank
  BY ConsoleAssumption DEF BlankLine, Lines, Shown
<1>2. lines \in Seq(Lines) /\ Len(lines) = Height /\ \A i \in 1 .. Height : lines[i] = BlankLine
  BY <1>1
<1>3. BlankPaper.lines = lines /\ BlankPaper.x = 0 /\ BlankPaper.y = 1
      /\ BlankPaper = [lines |-> lines, x |-> 0, y |-> 1]
  BY DEF BlankPaper
<1>4. 0 \in 0 .. Width - 1 /\ 0 \in 0 .. Height - 1 /\ 1 \in Nat \ {0}
  BY <1>1
<1>5. s \in Screens /\ s.cells = [a \in Places |-> Blank] /\ s.x = 0 /\ s.y = 0
  BY <1>1, <1>4 DEF Screens
<1>. HIDE DEF s, lines
<1>6. BlankPaper \in Papers
  BY <1>2, <1>3, <1>4 DEF Papers
<1>7. ASSUME NEW x \in 0 .. Width - 1, NEW y \in 0 .. Height - 1
      PROVE  s.cells[Place(x, y)] = BlankPaper.lines[Above(BlankPaper) + y + 1][x]
  <2>1. Place(x, y) \in Places
    BY PlacesDiffer
  <2>2. Above(BlankPaper) + y + 1 \in 1 .. Height
    BY <1>1, <1>2, <1>3 DEF Above
  <2>. QED  BY <1>1, <1>2, <1>3, <1>5, <2>1, <2>2
<1>8. BlankPaper.y = Above(BlankPaper) + 1 + s.y /\ Len(BlankPaper.lines) >= Height
  BY <1>1, <1>2, <1>3, <1>5 DEF Above
<1>9. ShowsText(s, BlankPaper)
  BY <1>1, <1>2, <1>3, <1>4, <1>5, <1>7, <1>8 DEF ShowsText
<1>10. Shows(s, BlankPaper)
  BY <1>3, <1>5, <1>6, <1>9 DEF Shows
<1>. QED
  BY <1>10 DEF s

\* The clearing of the driver blanks every cell.
LEMMA ClearBlanks ==
  ASSUME NEW memory \in [Places -> Shown]
  PROVE  mem_set(memory, 0, Blank, Width*Height) = [a \in Places |-> Blank]
<1> DEFINE N == Width*Height
<1>1. N \in Nat /\ Blank \in Shown /\ Places = 0 .. N - 1
  BY ConsoleAssumption DEF Shown, Places
<1>2. mem_set(memory, 0, Blank, N) = Filled(memory, 0, Blank, N)
  <2>. HIDE DEF N
  <2>1. N \in 0 .. N /\ 0 \in 0 .. N - N
    BY <1>1
  <2>2. memory \in [0 .. N - 1 -> Shown]
    BY <1>1
  <2>. QED  BY <1>1, <2>1, <2>2, SetFills
<1>. HIDE DEF N
<1>3. Filled(memory, 0, Blank, N) = [a \in Places |-> Blank]
  <2>1. \A a \in 0 .. N - 1 : a \in 0 .. 0 + N - 1
    BY <1>1
  <2>2. DOMAIN memory = 0 .. N - 1
    BY <1>1
  <2>. QED  BY <1>1, <2>1, <2>2 DEF Filled
<1>. QED
  BY <1>2, <1>3 DEF N

LEMMA ScreenInit ==
  ConsoleInit => ScreenInv
<1>. SUFFICES ASSUME ConsoleInit PROVE ScreenInv
  OBVIOUS
<1>1. Writer = [cells |-> [a \in Places |-> Blank], x |-> 0, y |-> 0]
  BY DEF ConsoleInit, Writer
<1>. QED
  BY <1>1, BlankShows DEF ConsoleInit, ScreenInv

LEMMA ScreenStep ==
  ScreenInv /\ [ConsoleNext]_console_vars => ScreenInv'
<1>. SUFFICES ASSUME ScreenInv, [ConsoleNext]_console_vars PROVE ScreenInv'
  OBVIOUS
<1>1. panicking \in BOOLEAN /\ Shows(Writer, paper)
  BY DEF ScreenInv
<1>2. Writer.cells = cells /\ cells \in [Places -> Shown]
      /\ Writer.x \in 0 .. Width - 1 /\ Writer.y \in 0 .. Height - 1
  BY <1>1 DEF Shows, Screens, Writer
<1>3. ASSUME Driver
      PROVE  /\ Writer = Screen /\ panicking' = FALSE /\ panicking' \in BOOLEAN
             /\ Writer' = [cells |-> cells', x |-> cur_x', y |-> cur_y']
  <2>1. panicking = FALSE /\ panicking' = FALSE
    BY <1>1, <1>3 DEF Driver
  <2>. QED  BY <2>1 DEF Writer, Screen
<1>4. ASSUME NEW ch \in Characters, PutChar(ch)
      PROVE  ScreenInv'
  <2>1. Driver /\ Written(put_char(Screen, ch)) /\ paper' = OnPaper(paper, ch)
    BY <1>4 DEF PutChar
  <2>2. Shows(put_char(Screen, ch), OnPaper(paper, ch))
    BY <1>1, <1>3, <2>1, PutCharShows
  <2>3. Writer' = put_char(Screen, ch)
    BY <1>3, <2>1, <2>2 DEF Written, Shows, Screens
  <2>. QED  BY <1>3, <2>1, <2>2, <2>3 DEF ScreenInv
<1>5. ASSUME NEW string \in Strings, PutString(string)
      PROVE  ScreenInv'
  <2>1. Driver /\ Written(put_string(Screen, string)) /\ paper' = LineOnPaper(paper, string)
        /\ string \in Seq(Characters)
    BY <1>5, ConsoleAssumption DEF PutString
  <2>2. Shows(put_string(Screen, string), LineOnPaper(paper, string))
    BY <1>1, <1>3, <2>1, PutStringShows
  <2>3. Writer' = put_string(Screen, string)
    BY <1>3, <2>1, <2>2 DEF Written, Shows, Screens
  <2>. QED  BY <1>3, <2>1, <2>2, <2>3 DEF ScreenInv
<1>6. ASSUME NEW string \in Strings, FailsafePrint(string)
      PROVE  ScreenInv'
  <2>1. panicking /\ panicking' = panicking /\ paper' = LineOnPaper(paper, string)
        /\ string \in Seq(Characters)
    BY <1>6, ConsoleAssumption DEF FailsafePrint, Call
  <2>2. Panel = PanelOf(Writer)
    BY <2>1 DEF Panel, PanelOf, Writer
  <2>3. PICK t : failsafe_print(PanelOf(Writer), string) = PanelOf(t)
                 /\ Shows(t, LineOnPaper(paper, string))
    BY <1>1, <2>1, FailsafePrintShows
  <2>4. cells' = PanelOf(t).cells /\ col' = PanelOf(t).col /\ row' = PanelOf(t).row
    BY <1>6, <2>2, <2>3 DEF FailsafePrint
  <2>5. Writer' = t
    BY <2>1, <2>3, <2>4 DEF Writer, PanelOf, Shows, Screens
  <2>. QED  BY <1>1, <2>1, <2>3, <2>5 DEF ScreenInv
<1>7. ASSUME NEW x \in 0 .. Width, NEW y \in 0 .. Height, GotoXY(x, y)
      PROVE  ScreenInv'
  <2>1. Driver /\ paper' = PaperAt(paper, cur_x', cur_y') /\ cells' = cells
        /\ cur_x' \in 0 .. Width - 1 /\ cur_y' \in 0 .. Height - 1
    BY <1>7, ConsoleAssumption DEF GotoXY
  <2>2. Writer' = [cells |-> Writer.cells, x |-> cur_x', y |-> cur_y']
    BY <1>2, <1>3, <2>1
  <2>. QED  BY <1>1, <1>3, <2>1, <2>2, GotoShows DEF ScreenInv
<1>8. ASSUME Clear
      PROVE  ScreenInv'
  <2>1. Driver /\ paper' = BlankPaper /\ cells' = [a \in Places |-> Blank]
        /\ cur_x' = 0 /\ cur_y' = 0
    BY <1>2, <1>8, ClearBlanks DEF Clear
  <2>. QED  BY <1>3, <2>1, BlankShows DEF ScreenInv
<1>9. ASSUME Panic
      PROVE  ScreenInv'
  <2>1. PICK start \in {0, PanicRow} : row' = start /\ paper' = PaperAt(paper, 0, start)
    BY <1>9 DEF Panic
  <2>2. panicking' = TRUE /\ col' = 0 /\ cells' = cells
    BY <1>9 DEF Panic
  <2>3. start \in 0 .. Height - 1 /\ 0 \in 0 .. Width - 1
    BY ConsoleAssumption
  <2>4. Writer' = [cells |-> Writer.cells, x |-> 0, y |-> start]
    BY <1>2, <2>1, <2>2 DEF Writer
  <2>. QED  BY <1>1, <2>1, <2>2, <2>3, <2>4, GotoShows DEF ScreenInv
<1>10. CASE UNCHANGED console_vars
  <2>1. panicking' = panicking /\ paper' = paper /\ Writer' = Writer
    BY <1>10 DEF console_vars, Writer
  <2>. QED  BY <1>1, <2>1 DEF ScreenInv
<1>. QED
  BY <1>4, <1>5, <1>6, <1>7, <1>8, <1>9, <1>10 DEF ConsoleNext

\* Whatever the size of the screen, and whatever strings are written, cleared and
\* jumped over, the screen shows the last lines of the paper, and the writing goes on
\* where the cursor stands, the panic's as the driver's (text_vga.cpp:61,
\* exception_handler.cpp:19).
THEOREM ScreenShowsLastLines ==
  ConsoleSpec => []ShowsLastLines
<1>1. ScreenInv => ShowsLastLines
  <2>. SUFFICES ASSUME ScreenInv PROVE ShowsLastLines
    OBVIOUS
  <2>1. /\ paper.y = Len(paper.lines) - Height + 1 + Writer.y /\ paper.x = Writer.x
        /\ \A x \in 0 .. Width - 1, y \in 0 .. Height - 1 :
             Writer.cells[y*Width + x] = paper.lines[Len(paper.lines) - Height + y + 1][x]
    BY DEF ScreenInv, Shows, ShowsText, Above, Place
  <2>2. /\ Writer.cells = cells /\ Writer.x = (IF panicking THEN col ELSE cur_x)
        /\ Writer.y = (IF panicking THEN row ELSE cur_y)
    BY Zenon DEF Writer
  <2>. QED  BY <2>1, <2>2, Zenon DEF ShowsLastLines
<1>. QED
  BY <1>1, ScreenInit, ScreenStep, PTL DEF ConsoleSpec

-----------------------------------------------------------------------------
(***************************************************************************)
(* The command line.                                                       *)
(***************************************************************************)
\* The characters of a text, what is on the line of the terminal, and what is sent to it.
TextCharacters == Letters \cup {"/"}
Texts == Seq(TextCharacters)
Glyphs == TextCharacters \cup {">", "x", "<", "^", "C"}
Terminals == [line : Seq(Glyphs), column : Nat]
Sent == Glyphs \cup {"\n", "back"}

LEMMA GlyphsPrint ==
  /\ "\n" \notin Glyphs /\ "back" \notin Glyphs /\ " " \in TextCharacters
  /\ "\n" \in Sent /\ "back" \in Sent /\ " " \in Glyphs
  /\ TextCharacters \subseteq Glyphs /\ Glyphs \subseteq Sent
BY EditorAssumption DEF Glyphs, TextCharacters, Sent

\* A character that prints, and "back", when the cursor is within the line.
LEMMA EmitTyped ==
  ASSUME NEW t \in Terminals, NEW ch \in Sent
  PROVE  Emit(t, ch) \in Terminals
<1>1. t.line \in Seq(Glyphs) /\ t.column \in Nat /\ t = [line |-> t.line, column |-> t.column]
  BY DEF Terminals
<1>2. CASE ch = "\n"
  BY <1>2 DEF Emit, Terminals
<1>3. CASE ch = "back"
  <2>1. Emit(t, ch) = [line |-> t.line, column |-> IF t.column = 0 THEN 0 ELSE t.column - 1]
    BY <1>1, <1>3 DEF Emit
  <2>. QED  BY <1>1, <2>1 DEF Terminals
<1>4. CASE ch \in Glyphs
  <2>1. ch # "\n" /\ ch # "back"
    BY <1>4, GlyphsPrint
  <2> DEFINE line == IF t.column < Len(t.line) THEN [t.line EXCEPT ![t.column + 1] = ch]
                     ELSE Append(t.line, ch)
  <2>2. Emit(t, ch) = [line |-> line, column |-> t.column + 1]
    BY <2>1 DEF Emit
  <2>3. line \in Seq(Glyphs)
    BY <1>1, <1>4
  <2>. HIDE DEF line
  <2>. QED  BY <1>1, <2>2, <2>3 DEF Terminals
<1>. QED
  BY <1>2, <1>3, <1>4 DEF Sent

\* The terminal after each of the characters sent to it.
Sends(g, t, chars) ==
  /\ g[0] = t
  /\ \A i \in 0 .. Len(chars) : g[i] \in Terminals
  /\ \A i \in 1 .. Len(chars) : g[i] = Emit(g[i - 1], chars[i])

LEMMA OutputSends ==
  ASSUME NEW t \in Terminals, NEW chars \in Seq(Sent)
  PROVE  \E g : Sends(g, t, chars) /\ Output(t, chars) = g[Len(chars)]
<1> DEFINE n == Len(chars)
           IsOut(h) == h = [i \in 0 .. n |-> IF i = 0 THEN t ELSE Emit(h[i - 1], chars[i])]
           F == [x \in (1 .. n) \X Terminals |-> Emit(x[2], chars[x[1]])]
           out == CHOOSE h : IsOut(h)
<1>1. n \in Nat /\ \A i \in 1 .. n : chars[i] \in Sent
  OBVIOUS
<1>. HIDE DEF n
<1>2. F \in [(1 .. n) \X Terminals -> Terminals]
  BY <1>1, EmitTyped
<1>3. \A i \in 1 .. n, x \in Terminals : F[<<i, x>>] = Emit(x, chars[i])
  OBVIOUS
<1>. HIDE DEF F
<1>4. PICK h : GoesOn(h, F, t, n, Terminals)
  BY <1>1, <1>2, RecursionRuns
<1>5. IsOut(h)
  <2>1. ASSUME NEW i \in 0 .. n
        PROVE  h[i] = IF i = 0 THEN t ELSE Emit(h[i - 1], chars[i])
    <3>1. CASE i = 0
      BY <1>4, <3>1 DEF GoesOn
    <3>2. CASE i # 0
      <4>1. i \in 1 .. n /\ i - 1 \in 0 .. n
        BY <1>1, <3>2
      <4>. QED  BY <1>3, <1>4, <3>2, <4>1 DEF GoesOn
    <3>. QED  BY <3>1, <3>2
  <2>2. h = [i \in 0 .. n |-> h[i]]
    BY <1>4 DEF GoesOn
  <2>. QED  BY <2>1, <2>2, Zenon
<1>6. IsOut(out)
  BY <1>5, Zenon
<1>7. Output(t, chars) = out[n]
  BY DEF Output, out, n
<1>. HIDE DEF out
<1>8. \A i \in 0 .. n : out[i] = IF i = 0 THEN t ELSE Emit(out[i - 1], chars[i])
  BY <1>6, Zenon
<1>. HIDE DEF IsOut
<1>9. out[0] = t /\ \A i \in 1 .. n : out[i] = Emit(out[i - 1], chars[i])
  <2>1. 0 \in 0 .. n /\ \A i \in 1 .. n : i \in 0 .. n /\ i # 0
    BY <1>1
  <2>. QED  BY <1>8, <2>1, Zenon
<1>10. \A i \in 0 .. n : out[i] \in Terminals
  <2> DEFINE S == {i \in 0 .. n : out[i] \in Terminals}
  <2>1. 0 \in S
    BY <1>1, <1>9
  <2>2. ASSUME NEW k \in 0 .. n - 1, k \in S
        PROVE  k + 1 \in S
    <3>1. k + 1 \in 1 .. n /\ k + 1 \in 0 .. n /\ (k + 1) - 1 = k /\ out[k] \in Terminals
      BY <1>1, <2>2
    <3>2. out[k + 1] = Emit(out[k], chars[k + 1])
      BY <1>9, <3>1, Zenon
    <3>3. Emit(out[k], chars[k + 1]) \in Terminals
      BY <1>1, <3>1, EmitTyped
    <3>. QED  BY <3>1, <3>2, <3>3
  <2>. HIDE DEF S
  <2>3. \A k \in 0 .. n : k \in S
    BY <1>1, <2>1, <2>2, Upward
  <2>. QED  BY <2>3 DEF S
<1>11. Sends(out, t, chars)
  BY <1>9, <1>10, Zenon DEF Sends, n
<1>. QED
  BY <1>7, <1>11, Zenon DEF n

\* What is sent in two parts.
LEMMA OutputJoins ==
  ASSUME NEW t \in Terminals, NEW a \in Seq(Sent), NEW b \in Seq(Sent)
  PROVE  /\ Output(t, a) \in Terminals /\ a \o b \in Seq(Sent)
         /\ Output(t, a \o b) = Output(Output(t, a), b)
<1>1. PICK f : Sends(f, t, a) /\ Output(t, a) = f[Len(a)]
  BY OutputSends
<1>2. /\ a \o b \in Seq(Sent) /\ Len(a) \in Nat /\ Len(b) \in Nat /\ Len(a \o b) = Len(a) + Len(b)
      /\ \A i \in 1 .. Len(a) : (a \o b)[i] = a[i]
      /\ \A i \in 1 .. Len(b) : (a \o b)[Len(a) + i] = b[i]
  OBVIOUS
<1> DEFINE m == Len(a)
           n == Len(b)
           ab == a \o b
<1>3. PICK g : Sends(g, t, ab) /\ Output(t, ab) = g[Len(ab)]
  BY <1>2, OutputSends
<1>4. f[m] \in Terminals
  <2>1. m \in 0 .. m
    BY <1>2
  <2>. QED  BY <1>1, <2>1 DEF Sends
<1>5. PICK h : Sends(h, f[m], b) /\ Output(f[m], b) = h[n]
  BY <1>4, OutputSends
<1>6. m \in Nat /\ n \in Nat /\ Len(ab) = m + n
      /\ (\A i \in 1 .. m : ab[i] = a[i]) /\ (\A i \in 1 .. n : ab[m + i] = b[i])
  BY <1>2
<1>7. Sends(f, t, a) <=> /\ f[0] = t /\ \A i \in 0 .. m : f[i] \in Terminals
                         /\ \A i \in 1 .. m : f[i] = Emit(f[i - 1], a[i])
  BY Zenon DEF Sends
<1>8. Sends(g, t, ab) <=> /\ g[0] = t /\ \A i \in 0 .. Len(ab) : g[i] \in Terminals
                          /\ \A i \in 1 .. Len(ab) : g[i] = Emit(g[i - 1], ab[i])
  BY Zenon DEF Sends
<1>9. Sends(h, f[m], b) <=> /\ h[0] = f[m] /\ \A i \in 0 .. n : h[i] \in Terminals
                            /\ \A i \in 1 .. n : h[i] = Emit(h[i - 1], b[i])
  BY Zenon DEF Sends
<1>. HIDE DEF m, n, ab
<1>10. \A i \in 1 .. m + n : g[i] = Emit(g[i - 1], ab[i])
  BY <1>3, <1>6, <1>8
<1>11. g[m] = f[m]
  <2>1. ASSUME NEW i \in 1 .. m, g[i - 1] = f[i - 1]
        PROVE  g[i] = f[i]
    <3>1. i \in 1 .. m + n
      BY <1>6
    <3>. QED  BY <1>1, <1>6, <1>7, <1>10, <2>1, <3>1
  <2>2. g[0] = f[0]
    BY <1>1, <1>3, <1>7, <1>8
  <2>. QED  BY <1>6, <2>1, <2>2, AgreeUpTo
<1> DEFINE g2 == [i \in 0 .. n |-> g[m + i]]
<1>12. g2[n] = h[n]
  <2>1. ASSUME NEW i \in 1 .. n, g2[i - 1] = h[i - 1]
        PROVE  g2[i] = h[i]
    <3>1. m + i \in 1 .. m + n /\ (m + i) - 1 = m + (i - 1) /\ i \in 0 .. n /\ i - 1 \in 0 .. n
      BY <1>6
    <3>2. g[m + i] = Emit(g[(m + i) - 1], ab[m + i])
      BY <1>10, <3>1
    <3>. QED  BY <1>5, <1>6, <1>9, <2>1, <3>1, <3>2
  <2>2. g2[0] = h[0]
    <3>1. 0 \in 0 .. n /\ m + 0 = m
      BY <1>6
    <3>. QED  BY <1>5, <1>9, <1>11, <3>1
  <2>. HIDE DEF g2
  <2>. QED  BY <1>6, <2>1, <2>2, AgreeUpTo
<1>13. g[m + n] = h[n]
  <2>1. n \in 0 .. n
    BY <1>6
  <2>. QED  BY <1>12, <2>1
<1>14. Output(t, ab) = Output(Output(t, a), b)
  BY <1>1, <1>3, <1>5, <1>6, <1>13 DEF m
<1>. QED
  BY <1>1, <1>2, <1>4, <1>14 DEF m, ab

\* One character.
LEMMA EmitPrints ==
  ASSUME NEW t \in Terminals, NEW ch \in Glyphs, t.column <= Len(t.line)
  PROVE  LET u == Emit(t, ch)
         IN  /\ u.column = t.column + 1
             /\ Len(u.line) = IF t.column < Len(t.line) THEN Len(t.line) ELSE t.column + 1
             /\ \A i \in 1 .. Len(u.line) : u.line[i] = IF i = t.column + 1 THEN ch ELSE t.line[i]
<1>1. ch # "\n" /\ ch # "back"
  BY GlyphsPrint
<1>2. t.line \in Seq(Glyphs) /\ t.column \in Nat
  BY DEF Terminals
<1> DEFINE line == IF t.column < Len(t.line) THEN [t.line EXCEPT ![t.column + 1] = ch]
                   ELSE Append(t.line, ch)
<1>3. Emit(t, ch) = [line |-> line, column |-> t.column + 1]
  BY <1>1 DEF Emit
<1>4. CASE t.column < Len(t.line)
  <2>1. Len(line) = Len(t.line)
        /\ \A i \in 1 .. Len(line) : line[i] = IF i = t.column + 1 THEN ch ELSE t.line[i]
    BY <1>2, <1>4
  <2>. HIDE DEF line
  <2>. QED  BY <1>3, <1>4, <2>1
<1>5. CASE ~(t.column < Len(t.line))
  <2>1. t.column = Len(t.line)
    BY <1>2, <1>5
  <2>2. Len(line) = t.column + 1
        /\ \A i \in 1 .. Len(line) : line[i] = IF i = t.column + 1 THEN ch ELSE t.line[i]
    BY <1>2, <1>5, <2>1
  <2>. HIDE DEF line
  <2>. QED  BY <1>3, <1>5, <2>2
<1>. QED
  BY <1>4, <1>5

LEMMA EmitBack ==
  ASSUME NEW t \in Terminals
  PROVE  Emit(t, "back") = [line |-> t.line, column |-> IF t.column = 0 THEN 0 ELSE t.column - 1]
<1>1. t = [line |-> t.line, column |-> t.column]
  BY DEF Terminals
<1>. QED
  BY <1>1 DEF Emit

\* On u stands what stood on t, with the first k characters of text over it from
\* the cursor on.
Printed(t, u, text, k) ==
  /\ u.column = t.column + k
  /\ Len(u.line) = IF t.column + k <= Len(t.line) THEN Len(t.line) ELSE t.column + k
  /\ \A i \in 1 .. Len(u.line) :
       u.line[i] = IF i \in t.column + 1 .. t.column + k THEN text[i - t.column] ELSE t.line[i]

LEMMA TextPrints ==
  ASSUME NEW t \in Terminals, t.column <= Len(t.line), NEW text \in Seq(Glyphs)
  PROVE  /\ text \in Seq(Sent)
         /\ Output(t, text) \in Terminals
         /\ Printed(t, Output(t, text), text, Len(text))
<1> DEFINE n == Len(text)
<1>1. text \in Seq(Sent) /\ n \in Nat /\ \A i \in 1 .. n : text[i] \in Glyphs
  <2>1. text \in Seq(Sent)
    BY GlyphsPrint, SeqMonotonic, Zenon
  <2>. QED  BY <2>1
<1>2. PICK g : Sends(g, t, text) /\ Output(t, text) = g[n]
  BY <1>1, OutputSends
<1>3. /\ g[0] = t /\ \A i \in 0 .. n : g[i] \in Terminals
      /\ \A i \in 1 .. n : g[i] = Emit(g[i - 1], text[i])
  BY <1>2 DEF Sends
<1>4. t.line \in Seq(Glyphs) /\ t.column \in Nat /\ Len(t.line) \in Nat
  BY DEF Terminals
<1>. HIDE DEF n
<1> DEFINE S == {k \in 0 .. n : Printed(t, g[k], text, k)}
<1>5. 0 \in S
  <2>1. Printed(t, t, text, 0)
    BY <1>4 DEF Printed
  <2>. QED  BY <1>1, <1>3, <2>1
<1>6. ASSUME NEW k \in 0 .. n - 1, k \in S
      PROVE  k + 1 \in S
  <2> DEFINE u == g[k]
             v == g[k + 1]
             c == t.column
             l == Len(t.line)
  <2>1. k \in Nat /\ k + 1 \in 1 .. n /\ k + 1 \in 0 .. n /\ k \in 0 .. n /\ (k + 1) - 1 = k
    BY <1>1
  <2>2. u \in Terminals /\ v = Emit(u, text[k + 1]) /\ text[k + 1] \in Glyphs
    BY <1>1, <1>3, <2>1
  <2>3. Printed(t, u, text, k)
    BY <1>6
  <2>4. c \in Nat /\ l \in Nat /\ c <= l
    BY <1>4
  <2>. HIDE DEF u, v, c, l
  <2>5. /\ u.column = c + k
        /\ Len(u.line) = IF c + k <= l THEN l ELSE c + k
        /\ \A i \in 1 .. Len(u.line) :
             u.line[i] = IF i \in c + 1 .. c + k THEN text[i - c] ELSE t.line[i]
    BY <2>3 DEF Printed, c, l
  <2>6. u.column <= Len(u.line)
    BY <2>1, <2>4, <2>5
  <2>7. /\ v.column = u.column + 1
        /\ Len(v.line) = IF u.column < Len(u.line) THEN Len(u.line) ELSE u.column + 1
        /\ \A i \in 1 .. Len(v.line) : v.line[i] = IF i = u.column + 1 THEN text[k + 1] ELSE u.line[i]
    BY <2>2, <2>6, EmitPrints
  <2>8. v.column = c + (k + 1) /\ Len(v.line) = IF c + (k + 1) <= l THEN l ELSE c + (k + 1)
    BY <2>1, <2>4, <2>5, <2>7
  <2>9. ASSUME NEW i \in 1 .. Len(v.line)
        PROVE  v.line[i] = IF i \in c + 1 .. c + (k + 1) THEN text[i - c] ELSE t.line[i]
    <3>1. i \in Nat /\ (i = c + k + 1 => i - c = k + 1)
          /\ (i # c + k + 1 => /\ i \in 1 .. Len(u.line)
                               /\ i \in c + 1 .. c + k <=> i \in c + 1 .. c + (k + 1))
      BY <2>1, <2>4, <2>5, <2>8
    <3>2. CASE i = c + k + 1
      <4>1. i = u.column + 1 /\ i \in c + 1 .. c + (k + 1) /\ i - c = k + 1
        BY <2>1, <2>4, <2>5, <3>1, <3>2
      <4>. QED  BY <2>7, <4>1
    <3>3. CASE i # c + k + 1
      <4>1. i # u.column + 1
        BY <2>5, <3>3
      <4>. QED  BY <2>5, <2>7, <3>1, <3>3, <4>1
    <3>. QED  BY <3>2, <3>3
  <2>10. Printed(t, v, text, k + 1)
    BY <2>8, <2>9 DEF Printed, c, l
  <2>. QED  BY <2>1, <2>10 DEF v
<1>7. n \in S /\ n \in 0 .. n
  <2>. HIDE DEF S
  <2>1. \A k \in 0 .. n : k \in S
    BY <1>1, <1>5, <1>6, Upward
  <2>. QED  BY <1>1, <2>1
<1>8. g[n] \in Terminals /\ Printed(t, g[n], text, n)
  BY <1>3, <1>7
<1>. QED
  BY <1>1, <1>2, <1>8 DEF n

\* A character sent n times.
LEMMA TimesSent ==
  ASSUME NEW S, NEW ch \in S, NEW n \in Nat
  PROVE  Times(ch, n) \in Seq(S) /\ Len(Times(ch, n)) = n /\ \A i \in 1 .. n : Times(ch, n)[i] = ch
BY DEF Times

\* Going back stops at the start of the line.
LEMMA BackMoves ==
  ASSUME NEW t \in Terminals, NEW n \in Nat
  PROVE  /\ Times("back", n) \in Seq(Sent)
         /\ Output(t, Times("back", n))
              = [line |-> t.line, column |-> IF n <= t.column THEN t.column - n ELSE 0]
<1> DEFINE back == Times("back", n)
           Back(k) == [line |-> t.line, column |-> IF k <= t.column THEN t.column - k ELSE 0]
<1>1. back \in Seq(Sent) /\ Len(back) = n /\ \A i \in 1 .. n : back[i] = "back"
  BY GlyphsPrint, TimesSent, Zenon
<1>. HIDE DEF back
<1>2. PICK g : Sends(g, t, back) /\ Output(t, back) = g[n]
  BY <1>1, OutputSends
<1>3. /\ g[0] = t /\ \A i \in 0 .. n : g[i] \in Terminals
      /\ \A i \in 1 .. n : g[i] = Emit(g[i - 1], "back")
  BY <1>1, <1>2 DEF Sends
<1>4. t.column \in Nat /\ t = [line |-> t.line, column |-> t.column]
  BY DEF Terminals
<1> DEFINE S == {k \in 0 .. n : g[k] = Back(k)}
<1>5. 0 \in S
  <2>1. Back(0) = t
    BY <1>4
  <2>. QED  BY <1>3, <2>1
<1>6. ASSUME NEW k \in 0 .. n - 1, k \in S
      PROVE  k + 1 \in S
  <2>1. k + 1 \in 1 .. n /\ k + 1 \in 0 .. n /\ k \in 0 .. n /\ (k + 1) - 1 = k /\ k \in Nat
    OBVIOUS
  <2>2. g[k] = Back(k) /\ g[k] \in Terminals /\ g[k + 1] = Emit(g[k], "back")
    BY <1>3, <1>6, <2>1
  <2>3. g[k + 1] = [line |-> g[k].line, column |-> IF g[k].column = 0 THEN 0 ELSE g[k].column - 1]
    BY <2>2, EmitBack
  <2>4. g[k].line = t.line /\ g[k].column = IF k <= t.column THEN t.column - k ELSE 0
    BY <2>2
  <2>5. (IF g[k].column = 0 THEN 0 ELSE g[k].column - 1)
          = IF k + 1 <= t.column THEN t.column - (k + 1) ELSE 0
    BY <1>4, <2>1, <2>4
  <2>6. g[k + 1] = Back(k + 1)
    BY <2>3, <2>4, <2>5
  <2>. QED  BY <2>1, <2>6
<1>7. n \in S
  <2>. HIDE DEF S
  <2>1. \A k \in 0 .. n : k \in S
    BY <1>5, <1>6, Upward
  <2>. QED  BY <2>1
<1>8. g[n] = Back(n)
  BY <1>7
<1>. QED
  BY <1>1, <1>2, <1>8 DEF back

\* Nothing but blanks stands from a place of the line on.
BlankFrom(line, k) == \A i \in k .. Len(line) : line[i] = " "

\* Behind the first p characters of the line stands the text, then blanks; the
\* cursor stands at its place in the text.
LineShows(t, p, text, cursor) ==
  /\ t \in Terminals /\ p \in Nat
  /\ text \in Texts /\ cursor \in 0 .. Len(text)
  /\ t.column = p + cursor
  /\ Len(t.line) >= p + Len(text)
  /\ \A i \in 1 .. Len(text) : t.line[p + i] = text[i]
  /\ BlankFrom(t.line, p + Len(text) + 1)

\* A text printed where nothing but blanks stand behind it.
LEMMA DisplayShows ==
  ASSUME NEW t \in Terminals, NEW p \in Nat, t.column = p, p <= Len(t.line),
         NEW text \in Texts, NEW cursor \in 0 .. Len(text),
         BlankFrom(t.line, p + Len(text) + 1)
  PROVE  display(text, cursor) \in Seq(Sent)
         /\ LineShows(Output(t, display(text, cursor)), p, text, cursor)
<1> DEFINE n == Len(text)
           u == Output(t, text)
           back == Times("back", n - cursor)
<1>1. n \in Nat /\ n - cursor \in Nat /\ cursor \in Nat /\ cursor <= n /\ n - (n - cursor) = cursor
  BY DEF Texts
<1>2. text \in Seq(Glyphs)
  BY GlyphsPrint, SeqMonotonic, Zenon DEF Texts
<1>3. text \in Seq(Sent) /\ u \in Terminals /\ Printed(t, u, text, n)
  BY <1>2, TextPrints
<1>4. back \in Seq(Sent)
      /\ Output(u, back) = [line |-> u.line,
                            column |-> IF n - cursor <= u.column THEN u.column - (n - cursor) ELSE 0]
  BY <1>1, <1>3, BackMoves
<1>5. display(text, cursor) = text \o back
  BY DEF display
<1>6. text \o back \in Seq(Sent) /\ Output(t, text \o back) = Output(u, back)
      /\ Output(u, back) \in Terminals
  <2>. HIDE DEF back
  <2>. QED  BY <1>3, <1>4, OutputJoins
<1>7. Len(t.line) \in Nat
  BY DEF Terminals
<1>. HIDE DEF n, u, back
<1> DEFINE v == Output(u, back)
<1>8. /\ u.column = p + n /\ Len(u.line) = IF p + n <= Len(t.line) THEN Len(t.line) ELSE p + n
      /\ \A i \in 1 .. Len(u.line) :
           u.line[i] = IF i \in p + 1 .. p + n THEN text[i - p] ELSE t.line[i]
  BY <1>3 DEF Printed
<1>9. v.line = u.line /\ v.column = p + cursor
  <2>1. (IF n - cursor <= u.column THEN u.column - (n - cursor) ELSE 0) = p + cursor
    BY <1>1, <1>8
  <2>. QED  BY <1>4, <2>1
<1>. HIDE DEF v
<1>10. Len(u.line) >= p + n
  BY <1>1, <1>7, <1>8
<1>11. ASSUME NEW i \in 1 .. n
       PROVE  u.line[p + i] = text[i]
  <2>1. p + i \in 1 .. Len(u.line) /\ p + i \in p + 1 .. p + n /\ (p + i) - p = i
    BY <1>1, <1>7, <1>8
  <2>. QED  BY <1>8, <2>1
<1>12. ASSUME NEW i \in p + n + 1 .. Len(u.line)
       PROVE  u.line[i] = " "
  <2>1. i \in 1 .. Len(u.line) /\ i \notin p + 1 .. p + n /\ i \in p + n + 1 .. Len(t.line)
    BY <1>1, <1>7, <1>8
  <2>2. t.line[i] = " "
    BY <2>1, Zenon DEF n, BlankFrom
  <2>. QED  BY <1>8, <2>1, <2>2
<1>13. BlankFrom(v.line, p + Len(text) + 1)
  BY <1>9, <1>12 DEF BlankFrom, n
<1>14. LineShows(v, p, text, cursor)
  BY <1>6, <1>9, <1>10, <1>11, <1>13 DEF LineShows, v, n
<1>. QED
  BY <1>5, <1>6, <1>14 DEF v

\* A place behind p is one of the n behind it, or one of those up to m.
LEMMA PlaceOfThree ==
  ASSUME NEW p \in Nat, NEW n \in Nat, NEW m \in Nat, NEW l, l = IF p + n <= m THEN m ELSE p + n,
         NEW k \in p + 1 .. l
  PROVE  k \in 1 .. l /\ (k \in p + 1 .. p + n => k - p \in 1 .. n)
         /\ (k \notin p + 1 .. p + n => k \in p + n + 1 .. m)
<1>1. CASE p + n <= m
  BY <1>1
<1>2. CASE ~(p + n <= m)
  BY <1>2
<1>. QED
  BY <1>1, <1>2

\* The text is cleared and another one printed, also on a line that was spoilt.
LEMMA RefreshShows ==
  ASSUME NEW t \in Terminals, NEW p \in Nat, NEW text \in Texts, NEW cursor \in 0 .. Len(text),
         NEW newText \in Texts, NEW newCursor \in 0 .. Len(newText),
         p <= Len(t.line), p = (IF cursor <= t.column THEN t.column - cursor ELSE 0),
         BlankFrom(t.line, p + Len(text) + 1)
  PROVE  LineShows(refreshLine(t, text, cursor, newText, newCursor), p, newText, newCursor)
<1> DEFINE n == Len(text)
           t1 == Output(t, Times("back", cursor))
           t2 == Output(t1, Times(" ", n))
           t3 == Output(t2, Times("back", n))
           shown == display(newText, newCursor)
<1>1. n \in Nat /\ cursor \in Nat
  BY DEF Texts
<1>2. Times("back", cursor) \in Seq(Sent) /\ t1 = [line |-> t.line, column |-> p]
      /\ Times("back", n) \in Seq(Sent)
  BY <1>1, BackMoves
<1>3. t1 \in Terminals
  BY <1>2 DEF Terminals
<1>4. Times(" ", n) \in Seq(Glyphs) /\ Len(Times(" ", n)) = n
      /\ \A i \in 1 .. n : Times(" ", n)[i] = " "
  BY <1>1, GlyphsPrint, TimesSent, Zenon
<1>5. /\ Times(" ", n) \in Seq(Sent) /\ t2 \in Terminals
      /\ Printed(t1, t2, Times(" ", n), n)
  <2>1. t1.column <= Len(t1.line)
    BY <1>2
  <2>2. \A blanks \in Seq(Glyphs) :
          blanks \in Seq(Sent) /\ Output(t1, blanks) \in Terminals
          /\ Printed(t1, Output(t1, blanks), blanks, Len(blanks))
    BY <1>3, <2>1, TextPrints
  <2>. QED  BY <1>4, <2>2
<1>6. t3 = [line |-> t2.line, column |-> IF n <= t2.column THEN t2.column - n ELSE 0]
  BY <1>1, <1>5, BackMoves
<1> DEFINE m == Len(t.line)
<1>7. m \in Nat /\ t.line \in Seq(Glyphs)
  BY DEF Terminals
<1>. HIDE DEF t1, t2, n
<1>8. /\ t2.column = p + n
      /\ Len(t2.line) = IF p + n <= m THEN m ELSE p + n
      /\ \A i \in 1 .. Len(t2.line) :
           t2.line[i] = IF i \in p + 1 .. p + n THEN Times(" ", n)[i - p] ELSE t.line[i]
  <2>1. t1.line = t.line /\ t1.column = p
    BY <1>2
  <2>2. Printed(t1, t2, Times(" ", n), n)
    BY <1>5
  <2> DEFINE blanks == Times(" ", n)
  <2>. HIDE DEF blanks
  <2>3. /\ t2.column = t1.column + n
        /\ Len(t2.line) = IF t1.column + n <= Len(t1.line) THEN Len(t1.line) ELSE t1.column + n
        /\ \A i \in 1 .. Len(t2.line) :
             t2.line[i] = IF i \in t1.column + 1 .. t1.column + n THEN blanks[i - t1.column]
                          ELSE t1.line[i]
    BY <2>2, Zenon DEF Printed, blanks
  <2>4. /\ t2.column = p + n
        /\ Len(t2.line) = IF p + n <= Len(t.line) THEN Len(t.line) ELSE p + n
    BY <2>1, <2>3
  <2>5. \A i \in 1 .. Len(t2.line) :
          t2.line[i] = IF i \in p + 1 .. p + n THEN blanks[i - p] ELSE t.line[i]
    BY <2>1, <2>3
  <2>. QED  BY <2>4, <2>5 DEF m, blanks
<1>9. t2.line \in Seq(Glyphs)
  BY <1>5 DEF Terminals
<1>10. t3.line = t2.line /\ t3.column = p /\ t3 \in Terminals
  <2>1. (IF n <= t2.column THEN t2.column - n ELSE 0) = p
    <3>1. t2.column = p + n
      BY <1>8
    <3>. QED  BY <1>1, <3>1
  <2>. QED  BY <1>6, <1>9, <2>1, SMTT(30) DEF Terminals
<1>. HIDE DEF t3, n, m
<1>11. \A i \in p + 1 .. Len(t2.line) : t2.line[i] = " "
  <2>1. ASSUME NEW i \in p + 1 .. Len(t2.line)
        PROVE  t2.line[i] = " "
    <3>1. i \in 1 .. Len(t2.line) /\ (i \in p + 1 .. p + n => i - p \in 1 .. n)
          /\ (i \notin p + 1 .. p + n => i \in p + n + 1 .. m)
      <4>1. Len(t2.line) = IF p + n <= m THEN m ELSE p + n
        BY <1>8
      <4>2. p \in Nat /\ n \in Nat /\ m \in Nat
        BY <1>1, <1>7
      <4>. QED  BY <2>1, <4>1, <4>2, PlaceOfThree, Zenon
    <3>2. i \in p + n + 1 .. m => t.line[i] = " "
      BY Zenon DEF n, m, BlankFrom
    <3>. QED  BY <1>4, <1>8, <3>1, <3>2
  <2>. QED  BY <2>1
<1>12. shown \in Seq(Sent) /\ LineShows(Output(t3, shown), p, newText, newCursor)
  <2>1. p <= Len(t3.line)
    <3>1. Len(t3.line) = IF p + n <= m THEN m ELSE p + n
      BY <1>8, <1>10
    <3>2. p <= m
      BY DEF m
    <3>. QED  BY <1>1, <1>7, <3>1, <3>2
  <2>2. BlankFrom(t3.line, p + Len(newText) + 1)
    <3>1. Len(newText) \in Nat
      BY DEF Texts
    <3>2. \A i \in p + Len(newText) + 1 .. Len(t3.line) : i \in p + 1 .. Len(t3.line)
      BY <3>1, SMTT(60)
    <3>. QED  BY <1>10, <1>11, <3>2 DEF BlankFrom
  <2>. QED  BY <1>10, <2>1, <2>2, DisplayShows
<1>13. refreshLine(t, text, cursor, newText, newCursor)
         = Output(t, ((Times("back", cursor) \o Times(" ", n)) \o Times("back", n)) \o shown)
  BY DEF refreshLine, clear, n
<1>14. Output(t, ((Times("back", cursor) \o Times(" ", n)) \o Times("back", n)) \o shown)
         = Output(t3, shown)
  <2> DEFINE a == Times("back", cursor)
             b == Times(" ", n)
             c == Times("back", n)
  <2>1. a \in Seq(Sent) /\ b \in Seq(Sent) /\ c \in Seq(Sent) /\ shown \in Seq(Sent)
    BY <1>2, <1>5, <1>12
  <2>2. t1 = Output(t, a) /\ t2 = Output(t1, b) /\ t3 = Output(t2, c)
    BY DEF t1, t2, t3
  <2>. HIDE DEF a, b, c, shown
  <2>3. a \o b \in Seq(Sent) /\ Output(t, a \o b) = t2
    BY <2>1, <2>2, OutputJoins
  <2> DEFINE ab == a \o b
  <2>. HIDE DEF ab
  <2>4. ab \in Seq(Sent) /\ Output(t, ab) = t2
    BY <2>3 DEF ab
  <2>5. ab \o c \in Seq(Sent) /\ Output(t, ab \o c) = t3
    BY <2>1, <2>2, <2>4, OutputJoins
  <2> DEFINE abc == ab \o c
  <2>. HIDE DEF abc
  <2>6. abc \in Seq(Sent) /\ Output(t, abc) = t3
    BY <2>5 DEF abc
  <2>7. Output(t, abc \o shown) = Output(t3, shown)
    BY <2>1, <2>6, OutputJoins
  <2>. QED  BY <2>7 DEF abc, ab, a, b, c
<1>. QED
  BY <1>12, <1>13, <1>14

\* The words of a line, and the one that is not ended.
Splits == [args : Seq(Texts), word : Texts]
SplitStep(line, s, i) ==
  IF line[i] # " " THEN [s EXCEPT !.word = Append(@, line[i])]
  ELSE IF i > 1 /\ line[i - 1] = " " THEN s
  ELSE [args |-> Append(s.args, s.word), word |-> <<>>]

LEMMA SplitTyped ==
  ASSUME NEW line \in Texts, NEW s \in Splits, NEW i \in 1 .. Len(line)
  PROVE  /\ SplitStep(line, s, i) \in Splits
         /\ line[i] # " " => SplitStep(line, s, i).word # <<>>
<1>1. s.args \in Seq(Texts) /\ s.word \in Texts /\ s = [args |-> s.args, word |-> s.word]
  BY DEF Splits
<1>2. line[i] \in TextCharacters
  BY DEF Texts
<1>3. CASE line[i] # " "
  <2>1. SplitStep(line, s, i) = [args |-> s.args, word |-> Append(s.word, line[i])]
    BY <1>1, <1>3 DEF SplitStep
  <2> DEFINE longer == Append(s.word, line[i])
  <2>2. longer \in Texts /\ longer # <<>>
    <3>1. s.word \in Seq(TextCharacters)
      BY <1>1 DEF Texts
    <3>2. Append(s.word, line[i]) \in Seq(TextCharacters) /\ Append(s.word, line[i]) # <<>>
      BY <1>2, <3>1, AppendProperties
    <3>. QED  BY <3>2 DEF Texts
  <2>. HIDE DEF longer
  <2>3. [args |-> s.args, word |-> longer] \in Splits
    BY <1>1, <2>2 DEF Splits
  <2>4. SplitStep(line, s, i) = [args |-> s.args, word |-> longer]
    BY <2>1 DEF longer
  <2>5. [args |-> s.args, word |-> longer].word = longer
    OBVIOUS
  <2>. QED  BY <2>2, <2>3, <2>4, <2>5, Zenon
<1>4. CASE line[i] = " "
  <2>1. Append(s.args, s.word) \in Seq(Texts) /\ <<>> \in Texts
    BY <1>1 DEF Texts
  <2>2. [args |-> Append(s.args, s.word), word |-> <<>>] \in Splits
    BY <2>1 DEF Splits
  <2>. QED  BY <1>4, <2>2 DEF SplitStep
<1>. QED
  BY <1>3, <1>4

\* strSplit gives texts, and at least one where the line does not end with a blank.
LEMMA SplitsIntoTexts ==
  ASSUME NEW line \in Texts
  PROVE  /\ strSplit(line, " ") \in Seq(Texts)
         /\ line # <<>> /\ line[Len(line)] # " " => strSplit(line, " ") # <<>>
<1> DEFINE n == Len(line)
           none == [args |-> <<>>, word |-> <<>>]
           Next(s, i) == SplitStep(line, s, i)
           IsSplit(h) == h = [i \in 0 .. n |-> IF i = 0 THEN none ELSE Next(h[i - 1], i)]
           F == [x \in (1 .. n) \X Splits |-> Next(x[2], x[1])]
           split == CHOOSE h : IsSplit(h)
<1>1. n \in Nat /\ none \in Splits /\ (line # <<>> => n \in 1 .. n /\ n - 1 \in 0 .. n)
  BY DEF Texts, Splits
<1>2. F \in [(1 .. n) \X Splits -> Splits]
  <2>1. \A i \in 1 .. n, s \in Splits : Next(s, i) \in Splits
    BY SplitTyped
  <2>. HIDE DEF Next, n
  <2>. QED  BY <2>1
<1>3. \A i \in 1 .. n, s \in Splits : F[<<i, s>>] = Next(s, i)
  <2>. HIDE DEF Next, n
  <2>. QED  OBVIOUS
<1>. HIDE DEF F, n, none, Next
<1>4. PICK h : GoesOn(h, F, none, n, Splits)
  BY <1>1, <1>2, RecursionRuns
<1>5. IsSplit(h)
  <2>1. ASSUME NEW i \in 0 .. n
        PROVE  h[i] = IF i = 0 THEN none ELSE Next(h[i - 1], i)
    <3>1. CASE i = 0
      BY <1>4, <3>1 DEF GoesOn
    <3>2. CASE i # 0
      <4>1. i \in 1 .. n /\ i - 1 \in 0 .. n
        BY <1>1, <3>2
      <4>. QED  BY <1>3, <1>4, <3>2, <4>1 DEF GoesOn
    <3>. QED  BY <3>1, <3>2
  <2>2. h = [i \in 0 .. n |-> h[i]]
    BY <1>4 DEF GoesOn
  <2>. QED  BY <2>1, <2>2, Zenon
<1>6. IsSplit(split)
  BY <1>5, Zenon
<1>7. strSplit(line, " ") = IF split[n].word = <<>> THEN split[n].args
                            ELSE Append(split[n].args, split[n].word)
  BY Zenon DEF strSplit, split, n, none, Next, SplitStep
<1>. HIDE DEF split
<1>8. \A i \in 0 .. n : split[i] = IF i = 0 THEN none ELSE Next(split[i - 1], i)
  BY <1>6, Zenon
<1>. HIDE DEF IsSplit
<1>9. split[0] = none /\ \A i \in 1 .. n : split[i] = Next(split[i - 1], i)
  <2>1. 0 \in 0 .. n /\ \A i \in 1 .. n : i \in 0 .. n /\ i # 0
    BY <1>1
  <2>. QED  BY <1>8, <2>1, Zenon
<1>10. \A i \in 0 .. n : split[i] \in Splits
  <2> DEFINE S == {i \in 0 .. n : split[i] \in Splits}
  <2>1. 0 \in S
    BY <1>1, <1>9
  <2>2. ASSUME NEW k \in 0 .. n - 1, k \in S
        PROVE  k + 1 \in S
    <3>1. k + 1 \in 1 .. n /\ k + 1 \in 0 .. n /\ (k + 1) - 1 = k /\ split[k] \in Splits
      BY <1>1, <2>2
    <3>2. split[k + 1] = Next(split[k], k + 1)
      BY <1>9, <3>1, Zenon
    <3>3. Next(split[k], k + 1) \in Splits
      BY <3>1, SplitTyped DEF Next, n
    <3>. QED  BY <3>1, <3>2, <3>3
  <2>. HIDE DEF S
  <2>3. \A k \in 0 .. n : k \in S
    BY <1>1, <2>1, <2>2, Upward
  <2>. QED  BY <2>3 DEF S
<1>11. split[n].args \in Seq(Texts) /\ split[n].word \in Texts
  <2>1. n \in 0 .. n
    BY <1>1
  <2>. QED  BY <1>10, <2>1 DEF Splits
<1>12. Append(split[n].args, split[n].word) \in Seq(Texts)
       /\ Append(split[n].args, split[n].word) # <<>>
  BY <1>11, AppendProperties, ZenonT(60)
<1>13. line # <<>> /\ line[n] # " " => split[n].word # <<>>
  <2>. SUFFICES ASSUME line # <<>>, line[n] # " " PROVE split[n].word # <<>>
    OBVIOUS
  <2>1. n \in 1 .. n /\ n - 1 \in 0 .. n
    BY <1>1, Zenon
  <2>2. split[n] = Next(split[n - 1], n) /\ split[n - 1] \in Splits
    BY <1>9, <1>10, <2>1
  <2>3. Next(split[n - 1], n).word # <<>>
    BY <2>1, <2>2, SplitTyped DEF Next, n
  <2>. QED  BY <2>2, <2>3
<1>. QED
  BY <1>7, <1>11, <1>12, <1>13 DEF n

\* getCompletions gives what goes on with the text.
Completing(partialText) == {m \in Seq(Texts) : \A i \in DOMAIN m : IsPrefix(partialText, m[i])}

LEMMA CompletionsGoOn ==
  ASSUME NEW list \in Seq([name : Texts, tail : Texts]), NEW partialText \in Texts
  PROVE  getCompletions(list, partialText) \in Completing(partialText)
<1> DEFINE n == Len(list)
           A == Completing(partialText)
           Next(m, i) == IF IsPrefix(partialText, list[i].name)
                         THEN Append(m, list[i].name \o list[i].tail) ELSE m
           IsFound(h) == h = [i \in 0 .. n |->
                                IF i = 0 THEN <<>>
                                ELSE IF IsPrefix(partialText, list[i].name)
                                     THEN Append(h[i - 1], list[i].name \o list[i].tail)
                                ELSE h[i - 1]]
           F == [x \in (1 .. n) \X A |-> Next(x[2], x[1])]
           found == CHOOSE h : IsFound(h)
<1>1. n \in Nat /\ <<>> \in A
  BY DEF Completing
<1>2. ASSUME NEW i \in 1 .. n, NEW m \in A
      PROVE  Next(m, i) \in A
  <2>1. CASE ~IsPrefix(partialText, list[i].name)
    BY <2>1
  <2>2. CASE IsPrefix(partialText, list[i].name)
    <3> DEFINE name == list[i].name
               whole == list[i].name \o list[i].tail
               tail == list[i].tail
    <3>1. name \in Seq(TextCharacters) /\ tail \in Seq(TextCharacters) /\ whole = name \o tail
      <4>1. list[i] \in [name : Texts, tail : Texts]
        BY ElementOfSeq
      <4>. QED  BY <4>1 DEF Texts
    <3>2. /\ whole \in Texts /\ Len(whole) >= Len(name) /\ Len(name) \in Nat /\ Len(whole) \in Nat
          /\ \A k \in 1 .. Len(name) : whole[k] = name[k]
      <4>. HIDE DEF name, tail, whole
      <4>. QED  BY <3>1 DEF Texts
    <3>3. IsPrefix(partialText, whole)
      <4>1. Len(partialText) <= Len(name)
            /\ SubSeq(partialText, 1, Len(partialText)) = SubSeq(name, 1, Len(partialText))
        BY <2>2 DEF IsPrefix
      <4>2. Len(partialText) \in Nat
        BY DEF Texts
      <4>. HIDE DEF whole, name
      <4>3. SubSeq(whole, 1, Len(partialText)) = SubSeq(name, 1, Len(partialText))
        BY <3>1, <3>2, <4>1, <4>2 DEF Texts
      <4>4. Len(partialText) <= Len(whole)
        BY <3>2, <4>1, <4>2
      <4>. QED  BY <4>1, <4>3, <4>4 DEF IsPrefix
    <3>4. m \in Seq(Texts) /\ \A k \in 1 .. Len(m) : IsPrefix(partialText, m[k])
      BY DEF Completing
    <3>. HIDE DEF whole
    <3>5. /\ Append(m, whole) \in Seq(Texts)
          /\ Len(Append(m, whole)) = Len(m) + 1
          /\ \A k \in 1 .. Len(m) + 1 :
               Append(m, whole)[k] = IF k = Len(m) + 1 THEN whole ELSE m[k]
      BY <3>2, <3>4
    <3>6. \A k \in DOMAIN Append(m, whole) : IsPrefix(partialText, Append(m, whole)[k])
      <4>1. DOMAIN Append(m, whole) = 1 .. Len(m) + 1 /\ Len(m) \in Nat
            /\ \A k \in 1 .. Len(m) + 1 : k # Len(m) + 1 => k \in 1 .. Len(m)
        BY <3>4, <3>5
      <4>. QED  BY <3>3, <3>4, <3>5, <4>1, Zenon
    <3>7. Append(m, whole) \in A
      BY <3>5, <3>6 DEF Completing
    <3>. QED  BY <2>2, <3>7 DEF whole
  <2>. QED  BY <2>1, <2>2
<1>3. F \in [(1 .. n) \X A -> A] /\ \A i \in 1 .. n, m \in A : F[<<i, m>>] = Next(m, i)
  <2>. HIDE DEF Next, n, A
  <2>. QED  BY <1>2
<1>4. \A h : IsFound(h) <=> h = [i \in 0 .. n |-> IF i = 0 THEN <<>> ELSE Next(h[i - 1], i)]
  BY Zenon
<1>5. getCompletions(list, partialText) = found[n]
  BY Zenon DEF getCompletions
<1>. HIDE DEF F, n, A, Next, IsFound
<1>6. PICK h : GoesOn(h, F, <<>>, n, A)
  BY <1>1, <1>3, RecursionRuns
<1>7. IsFound(h)
  <2>1. ASSUME NEW i \in 0 .. n
        PROVE  h[i] = IF i = 0 THEN <<>> ELSE Next(h[i - 1], i)
    <3>1. CASE i = 0
      BY <1>6, <3>1 DEF GoesOn
    <3>2. CASE i # 0
      <4>1. i \in 1 .. n /\ i - 1 \in 0 .. n
        BY <1>1, <3>2
      <4>. QED  BY <1>3, <1>6, <3>2, <4>1 DEF GoesOn
    <3>. QED  BY <3>1, <3>2
  <2>2. h = [i \in 0 .. n |-> h[i]]
    BY <1>6 DEF GoesOn
  <2>. QED  BY <1>4, <2>1, <2>2, Zenon
<1>8. IsFound(found)
  BY <1>7, Zenon
<1>. HIDE DEF found
<1>9. \A i \in 0 .. n : found[i] = IF i = 0 THEN <<>> ELSE Next(found[i - 1], i)
  BY <1>4, <1>8, Zenon
<1> DEFINE S == {i \in 0 .. n : found[i] \in A}
<1>10. 0 \in S
  BY <1>1, <1>9
<1>11. ASSUME NEW k \in 0 .. n - 1, k \in S
       PROVE  k + 1 \in S
  <2>1. k + 1 \in 1 .. n /\ k + 1 \in 0 .. n /\ k + 1 # 0 /\ (k + 1) - 1 = k /\ found[k] \in A
    BY <1>1, <1>11
  <2>2. found[k + 1] = Next(found[k], k + 1)
    BY <1>9, <2>1, Zenon
  <2>. QED  BY <1>2, <2>1, <2>2
<1>12. n \in S
  <2>. HIDE DEF S
  <2>1. \A k \in 0 .. n : k \in S
    BY <1>1, <1>10, <1>11, Upward
  <2>2. n \in 0 .. n
    BY <1>1
  <2>. QED  BY <2>1, <2>2
<1>. QED
  BY <1>5, <1>12 DEF A

\* Where the agreement of all the matches ends.
EndsAt(matches, from, k) ==
  \E i \in DOMAIN matches :
    Len(matches[i]) <= from + k \/ matches[i][from + k + 1] # matches[1][from + k + 1]

\* CommonLength is the first of these.
LEMMA CommonIsFirst ==
  ASSUME NEW matches \in Seq(Texts), matches # <<>>, NEW from \in Nat
  PROVE  /\ CommonLength(matches, from) \in Nat
         /\ EndsAt(matches, from, CommonLength(matches, from))
         /\ \A j \in 0 .. CommonLength(matches, from) - 1 : ~EndsAt(matches, from, j)
<1> DEFINE Ends(k) == EndsAt(matches, from, k)
           First(k) == k \in 0 .. Len(matches[1]) /\ Ends(k) /\ \A j \in 0 .. k - 1 : ~Ends(j)
           S == {k \in 0 .. Len(matches[1]) : Ends(k)}
<1>1. 1 \in DOMAIN matches /\ matches[1] \in Texts /\ Len(matches[1]) \in Nat
  <2>1. 1 \in 1 .. Len(matches)
    BY EmptySeq
  <2>2. matches[1] \in Texts
    BY <2>1, ElementOfSeq
  <2>. QED  BY <2>1, <2>2 DEF Texts
<1>2. Ends(Len(matches[1]))
  <2>1. Len(matches[1]) <= from + Len(matches[1])
    BY <1>1
  <2>. QED  BY <1>1, <2>1, Zenon DEF EndsAt
<1>. HIDE DEF Ends
<1>3. S \subseteq Nat /\ S # {}
  BY <1>1, <1>2
<1>4. PICK x \in S : \A y \in S : x <= y
  <2>. HIDE DEF S
  <2>. QED  BY <1>3, Smallest
<1>5. First(x)
  <2>1. ASSUME NEW j \in 0 .. x - 1
        PROVE  ~Ends(j)
    <3>1. j \in 0 .. Len(matches[1]) /\ ~(x <= j)
      BY <1>1
    <3>. QED  BY <1>4, <3>1
  <2>. QED  BY <2>1
<1>6. CommonLength(matches, from) = CHOOSE k \in 0 .. Len(matches[1]) :
                                      Ends(k) /\ \A j \in 0 .. k - 1 : ~Ends(j)
  BY Zenon DEF CommonLength, EndsAt, Ends
<1> DEFINE common == CHOOSE k \in 0 .. Len(matches[1]) : Ends(k) /\ \A j \in 0 .. k - 1 : ~Ends(j)
<1>7. common \in 0 .. Len(matches[1]) /\ Ends(common) /\ \A j \in 0 .. common - 1 : ~Ends(j)
  BY <1>5, Zenon
<1>. HIDE DEF common
<1>8. common \in Nat
  BY <1>1, <1>7
<1>. QED
  BY <1>6, <1>7, <1>8 DEF Ends, common

-----------------------------------------------------------------------------
\* What is on the terminal while a line is read: the line, or nothing when a message
\* was printed over it.
OnTerminal ==
  IF spoilt THEN terminal = [line |-> <<>>, column |-> 0] /\ prompt = 0
  ELSE LineShows(terminal, prompt, str, cursorI)

TextInv ==
  /\ str \in Texts /\ cursorI \in 0 .. Len(str)
  /\ typing => OnTerminal

HistoryInv ==
  /\ lineHistoryBuffer \in Seq(Texts)
  /\ typing => Len(lineHistoryBuffer) >= 1 /\ historyI \in -1 .. Len(lineHistoryBuffer) - 1

\* An edited text is shown, and shown again after a message was printed over it.
LEMMA EditedShows ==
  ASSUME TextInv, typing, NEW newText \in Texts, NEW newCursor \in 0 .. Len(newText),
         Edited(newText, newCursor)
  PROVE  TextInv'
<1>1. /\ str' = newText /\ cursorI' = newCursor /\ spoilt' = FALSE /\ prompt' = prompt
      /\ terminal' = refreshLine(terminal, str, cursorI, newText, newCursor)
  BY DEF Edited
<1>2. /\ terminal \in Terminals /\ prompt \in Nat /\ str \in Texts /\ cursorI \in 0 .. Len(str)
      /\ prompt <= Len(terminal.line)
      /\ prompt = (IF cursorI <= terminal.column THEN terminal.column - cursorI ELSE 0)
      /\ BlankFrom(terminal.line, prompt + Len(str) + 1)
  <2>1. str \in Texts /\ cursorI \in 0 .. Len(str) /\ OnTerminal /\ Len(str) \in Nat
    BY DEF TextInv, Texts
  <2>2. CASE spoilt
    <3>1. terminal = [line |-> <<>>, column |-> 0] /\ prompt = 0
      BY <2>1, <2>2 DEF OnTerminal
    <3>2. terminal \in Terminals
      BY <3>1 DEF Terminals
    <3>3. terminal.line = <<>> /\ terminal.column = 0
      BY <3>1
    <3>4. Len(terminal.line) = 0
      BY <3>3
    <3>5. BlankFrom(terminal.line, prompt + Len(str) + 1)
      <4>1. \A i \in prompt + Len(str) + 1 .. Len(terminal.line) : FALSE
        BY <2>1, <3>1, <3>4
      <4>. QED  BY <4>1, Zenon DEF BlankFrom
    <3>. QED  BY <2>1, <3>1, <3>2, <3>3, <3>4, <3>5
  <2>3. CASE ~spoilt
    <3>1. LineShows(terminal, prompt, str, cursorI)
      BY <2>1, <2>3 DEF OnTerminal
    <3>2. /\ terminal \in Terminals /\ prompt \in Nat /\ terminal.column = prompt + cursorI
          /\ Len(terminal.line) >= prompt + Len(str)
          /\ BlankFrom(terminal.line, prompt + Len(str) + 1)
      BY <3>1, Zenon DEF LineShows
    <3>3. Len(terminal.line) \in Nat
      BY <3>2 DEF Terminals
    <3>. QED  BY <2>1, <3>2, <3>3
  <2>. QED  BY <2>2, <2>3
<1>3. LineShows(refreshLine(terminal, str, cursorI, newText, newCursor), prompt, newText, newCursor)
  BY <1>2, RefreshShows
<1>. QED
  BY <1>1, <1>3 DEF TextInv, OnTerminal

LEMMA SameShows ==
  ASSUME TextInv, typing, SameText
  PROVE  TextInv'
BY DEF TextInv, OnTerminal, SameText

\* The two parts of the text, before and behind the cursor.
LEMMA TextParts ==
  ASSUME TextInv
  PROVE  /\ UpToCursor \in Texts /\ Len(UpToCursor) = cursorI
         /\ FromCursor \in Texts /\ Len(FromCursor) = Len(str) - cursorI
         /\ UpToCursor \o FromCursor = str
         /\ cursorI # 0 => UpToCursor # <<>> /\ UpToCursor[cursorI] = str[cursorI]
<1>1. str \in Seq(TextCharacters) /\ cursorI \in 0 .. Len(str) /\ Len(str) \in Nat
  BY DEF TextInv, Texts
<1>2. UpToCursor \in Seq(TextCharacters) /\ Len(UpToCursor) = cursorI
      /\ \A i \in 1 .. cursorI : UpToCursor[i] = str[i]
  BY <1>1 DEF UpToCursor
<1>3. FromCursor \in Seq(TextCharacters) /\ Len(FromCursor) = Len(str) - cursorI
  BY <1>1 DEF FromCursor
<1>4. UpToCursor \o FromCursor = str
  <2>1. 1 \in 1 .. Len(str) + 1 /\ cursorI \in 1 - 1 .. Len(str) /\ Len(str) \in cursorI .. Len(str)
    BY <1>1
  <2>2. SubSeq(str, 1, cursorI) \o SubSeq(str, cursorI + 1, Len(str)) = SubSeq(str, 1, Len(str))
    BY <1>1, <2>1, ConcatAdjacentSubSeq
  <2>. QED  BY <1>1, <2>2, SubSeqFull DEF UpToCursor, FromCursor
<1>5. cursorI # 0 => UpToCursor # <<>> /\ UpToCursor[cursorI] = str[cursorI]
  BY <1>1, <1>2
<1>. QED
  BY <1>2, <1>3, <1>4, <1>5 DEF Texts

\* What is inserted before the cursor.
LEMMA TextGrows ==
  ASSUME TextInv, NEW new \in Texts
  PROVE  /\ UpToCursor \o new \o FromCursor \in Texts
         /\ Len(UpToCursor \o new \o FromCursor) = Len(str) + Len(new)
         /\ cursorI + Len(new) \in 0 .. Len(UpToCursor \o new \o FromCursor)
         /\ SubSeq(UpToCursor \o new \o FromCursor, cursorI + 1, cursorI + Len(new)) = new
<1> DEFINE a == UpToCursor
           b == FromCursor
<1>1. /\ a \in Seq(TextCharacters) /\ b \in Seq(TextCharacters) /\ new \in Seq(TextCharacters)
      /\ Len(a) = cursorI /\ Len(b) = Len(str) - cursorI /\ Len(str) \in Nat
      /\ cursorI \in 0 .. Len(str) /\ Len(new) \in Nat
  BY TextParts DEF TextInv, Texts
<1>. HIDE DEF a, b
<1> DEFINE whole == a \o new \o b
<1>2. /\ whole \in Seq(TextCharacters) /\ Len(whole) = Len(str) + Len(new)
      /\ \A i \in 1 .. Len(new) : whole[cursorI + i] = new[i]
  BY <1>1, SMTT(30)
<1>. HIDE DEF whole
<1>3. cursorI + Len(new) \in 0 .. Len(whole)
  BY <1>1, <1>2
<1>4. SubSeq(whole, cursorI + 1, cursorI + Len(new)) = new
  <2> DEFINE part == SubSeq(whole, cursorI + 1, cursorI + Len(new))
  <2>1. part \in Seq(TextCharacters) /\ Len(part) = Len(new)
        /\ \A i \in 1 .. Len(new) : part[i] = whole[cursorI + i]
    BY <1>1, <1>2
  <2>. HIDE DEF part
  <2>2. part = new
    BY <1>1, <1>2, <2>1, SeqEqual
  <2>. QED  BY <2>2 DEF part
<1>. QED
  BY <1>2, <1>3, <1>4 DEF whole, a, b, Texts

\* One character typed, and one taken away.
LEMMA OneTyped ==
  ASSUME TextInv, NEW ch \in TextCharacters
  PROVE  /\ UpToCursor \o <<ch>> \o FromCursor \in Texts
         /\ cursorI + 1 \in 0 .. Len(UpToCursor \o <<ch>> \o FromCursor)
<1> DEFINE new == <<ch>>
<1>1. new \in Texts /\ Len(new) = 1
  BY DEF Texts
<1>. HIDE DEF new
<1>2. /\ UpToCursor \o new \o FromCursor \in Texts
      /\ cursorI + Len(new) \in 0 .. Len(UpToCursor \o new \o FromCursor)
  BY <1>1, TextGrows
<1>. QED
  BY <1>1, <1>2 DEF new

LEMMA OneErased ==
  ASSUME TextInv, cursorI > 0
  PROVE  /\ Front(UpToCursor) \o FromCursor \in Texts
         /\ cursorI - 1 \in 0 .. Len(Front(UpToCursor) \o FromCursor)
<1> DEFINE a == UpToCursor
           b == FromCursor
<1>1. /\ a \in Seq(TextCharacters) /\ b \in Seq(TextCharacters)
      /\ Len(a) = cursorI /\ Len(b) = Len(str) - cursorI /\ Len(str) \in Nat
      /\ cursorI \in 0 .. Len(str)
  BY TextParts DEF TextInv, Texts
<1>. HIDE DEF a, b
<1>2. Front(a) \in Seq(TextCharacters) /\ Len(Front(a)) = cursorI - 1
  BY <1>1 DEF Front
<1>3. /\ Front(a) \o b \in Seq(TextCharacters)
      /\ Len(Front(a) \o b) = Len(Front(a)) + Len(b)
  BY <1>1, <1>2, SMTT(30)
<1>4. cursorI - 1 \in 0 .. Len(Front(a) \o b)
  BY <1>1, <1>2, <1>3
<1>. QED
  BY <1>3, <1>4 DEF a, b, Texts

\* The lines with the one shown stored among them.
LEMMA LinesStored ==
  ASSUME TextInv, HistoryInv, typing
  PROVE  /\ Stored \in Seq(Texts) /\ Len(Stored) = Len(lineHistoryBuffer)
         /\ historyI >= 0 => Stored[historyI + 1] = str
<1>1. /\ str \in Texts /\ lineHistoryBuffer \in Seq(Texts) /\ Len(lineHistoryBuffer) \in Nat
      /\ historyI \in -1 .. Len(lineHistoryBuffer) - 1
  BY DEF TextInv, HistoryInv
<1>2. CASE historyI >= 0
  <2>1. historyI + 1 \in 1 .. Len(lineHistoryBuffer)
    BY <1>1, <1>2
  <2>2. Stored = [lineHistoryBuffer EXCEPT ![historyI + 1] = str]
    BY <1>2 DEF Stored
  <2>. QED  BY <1>1, <2>1, <2>2, ExceptSeq
<1>3. CASE ~(historyI >= 0)
  BY <1>1, <1>3 DEF Stored
<1>. QED
  BY <1>2, <1>3

\* The word before the cursor, and what goes on with it.
LEMMA MatchesGoOn ==
  ASSUME TextInv
  PROVE  /\ lstArg \in Texts /\ Len(lstArg) \in Nat
         /\ Matches \in Seq(Texts)
         /\ \A i \in DOMAIN Matches : IsPrefix(lstArg, Matches[i])
<1>1. lstArg \in Texts
  <2>1. CASE cursorI > 0 /\ str[cursorI] # " "
    <3>1. /\ UpToCursor \in Texts /\ UpToCursor # <<>> /\ Len(UpToCursor) = cursorI
          /\ UpToCursor[cursorI] # " "
      <4>1. cursorI # 0
        <5>1. cursorI > 0
          BY <2>1, Zenon
        <5>. QED  BY <5>1
      <4>. QED  BY <2>1, <4>1, TextParts, Zenon
    <3>2. Words \in Seq(Texts) /\ Words # <<>>
      BY <3>1, SplitsIntoTexts DEF Words
    <3>3. Len(Words) \in 1 .. Len(Words)
      BY <3>2
    <3>4. Last(Words) \in Texts
      BY <3>2, <3>3, ElementOfSeq DEF Last
    <3>. QED  BY <2>1, <3>4 DEF lstArg
  <2>2. CASE ~(cursorI > 0 /\ str[cursorI] # " ")
    <3>1. <<>> \in Texts
      BY DEF Texts
    <3>. QED  BY <2>2, <3>1 DEF lstArg
  <2>. QED  BY <2>1, <2>2
<1> DEFINE Names == [name : Texts, tail : Texts]
<1>2. Commands \in Seq(Names) /\ Files \in Seq(Names)
  <2>1. Seq(Letters) \subseteq Texts /\ Seq(Letters \cup {"/"}) \subseteq Texts /\ <<>> \in Texts
    BY DEF Texts, TextCharacters
  <2>2. [name : Seq(Letters), tail : {<<>>}] \subseteq Names
        /\ [name : Seq(Letters), tail : Seq(Letters \cup {"/"})] \subseteq Names
    BY <2>1
  <2>. HIDE DEF Names
  <2>. QED  BY <2>2, EditorAssumption, SeqMonotonic
<1>3. Matches \in Completing(lstArg)
  <2>1. (IF Len(Words) = 1 THEN Commands ELSE Files) \in Seq(Names)
    BY <1>2
  <2>. QED  BY <1>1, <2>1, CompletionsGoOn DEF Matches
<1>4. Len(lstArg) \in Nat
  BY <1>1 DEF Texts
<1>. QED
  BY <1>1, <1>3, <1>4 DEF Completing

\* What TAB inserts: what every match goes on with, and all that they share.
Inserted == SubSeq(Matches[1], Len(lstArg) + 1, Len(lstArg) + CommonLength(Matches, Len(lstArg)))

LEMMA TabInserts ==
  ASSUME TextInv, Matches # <<>>
  PROVE  /\ CommonLength(Matches, Len(lstArg)) \in Nat
         /\ Inserted \in Texts /\ Len(Inserted) = CommonLength(Matches, Len(lstArg))
         /\ \A i \in DOMAIN Matches : IsPrefix(lstArg \o Inserted, Matches[i])
         /\ ~\E ch \in TextCharacters : \A i \in DOMAIN Matches :
               IsPrefix(lstArg \o Inserted \o <<ch>>, Matches[i])
<1> DEFINE m == Matches
           arg == lstArg
           n == Len(arg)
           k == CommonLength(m, n)
           new == Inserted
<1>1. arg \in Texts /\ n \in Nat /\ m \in Seq(Texts) /\ m # <<>>
      /\ \A i \in DOMAIN m : IsPrefix(arg, m[i])
  BY MatchesGoOn
<1>. HIDE DEF n, m, arg
<1>2. k \in Nat /\ EndsAt(m, n, k) /\ \A j \in 0 .. k - 1 : ~EndsAt(m, n, j)
  BY <1>1, CommonIsFirst
<1>. HIDE DEF k
<1>3. ASSUME NEW i \in DOMAIN m
      PROVE  /\ m[i] \in Seq(TextCharacters) /\ Len(m[i]) \in Nat
             /\ Len(m[i]) >= n + k
             /\ \A j \in 1 .. k : m[i][n + j] = m[1][n + j]
             /\ \A j \in 1 .. n : m[i][j] = arg[j]
  <2>1. m[i] \in Seq(TextCharacters) /\ Len(m[i]) \in Nat
    BY <1>1 DEF Texts
  <2>2. \A j \in 0 .. k - 1 : ~(Len(m[i]) <= n + j) /\ m[i][n + j + 1] = m[1][n + j + 1]
    BY <1>2, Zenon DEF EndsAt
  <2>3. IsPrefix(arg, m[i])
    BY <1>1
  <2>4. n <= Len(m[i]) /\ SubSeq(arg, 1, n) = SubSeq(m[i], 1, n)
    BY <2>3 DEF IsPrefix, n
  <2>5. Len(m[i]) >= n + k
    <3>1. CASE k = 0
      BY <1>1, <1>2, <2>1, <2>4, <3>1
    <3>2. CASE k # 0
      <4>1. k - 1 \in 0 .. k - 1
        BY <1>2, <3>2
      <4>2. ~(Len(m[i]) <= n + (k - 1))
        BY <2>2, <4>1
      <4>. QED  BY <1>1, <1>2, <2>1, <4>2
    <3>. QED  BY <3>1, <3>2
  <2>6. ASSUME NEW j \in 1 .. k
        PROVE  m[i][n + j] = m[1][n + j]
    <3>1. j - 1 \in 0 .. k - 1 /\ n + (j - 1) + 1 = n + j
      BY <1>1, <1>2
    <3>. QED  BY <2>2, <3>1
  <2>7. ASSUME NEW j \in 1 .. n
        PROVE  m[i][j] = arg[j]
    <3>1. arg \in Seq(TextCharacters) /\ Len(arg) = n
      BY <1>1 DEF Texts, n
    <3>2. SubSeq(arg, 1, n)[j] = arg[j] /\ SubSeq(m[i], 1, n)[j] = m[i][j]
      BY <1>1, <2>1, <2>4, <3>1
    <3>. QED  BY <2>4, <3>2
  <2>. QED  BY <2>1, <2>5, <2>6, <2>7
<1>4. 1 \in DOMAIN m
  BY <1>1
<1>5. new = SubSeq(m[1], n + 1, n + k)
  BY DEF Inserted, n, m, arg, k
<1>6. new \in Seq(TextCharacters) /\ Len(new) = k /\ \A j \in 1 .. k : new[j] = m[1][n + j]
  <2>1. m[1] \in Seq(TextCharacters) /\ Len(m[1]) \in Nat /\ Len(m[1]) >= n + k
    BY <1>3, <1>4
  <2>. HIDE DEF new
  <2>. QED  BY <1>1, <1>2, <1>5, <2>1
<1>. HIDE DEF new
<1> DEFINE seen == arg \o new
<1>7. /\ seen \in Seq(TextCharacters) /\ Len(seen) = n + k
      /\ (\A j \in 1 .. n : seen[j] = arg[j]) /\ \A j \in 1 .. k : seen[n + j] = new[j]
  <2>1. arg \in Seq(TextCharacters) /\ Len(arg) = n
    BY <1>1 DEF Texts, n
  <2>2. /\ seen \in Seq(TextCharacters) /\ Len(seen) = n + k
        /\ \A j \in 1 .. n + k : seen[j] = IF j <= n THEN arg[j] ELSE new[j - n]
    BY <1>6, <2>1, ConcatProperties, ZenonT(60)
  <2>3. \A j \in 1 .. n : j \in 1 .. n + k /\ j <= n
    BY <1>1, <1>2
  <2>4. \A j \in 1 .. k : n + j \in 1 .. n + k /\ ~(n + j <= n) /\ (n + j) - n = j
    BY <1>1, <1>2
  <2>. HIDE DEF seen
  <2>. QED  BY <2>2, <2>3, <2>4
<1>. HIDE DEF seen
<1>8. ASSUME NEW i \in DOMAIN m
      PROVE  IsPrefix(seen, m[i])
  <2>1. \A j \in 1 .. n + k : m[i][j] = seen[j]
    <3>1. ASSUME NEW j \in 1 .. n + k
          PROVE  m[i][j] = seen[j]
      <4>1. j \in 1 .. n \/ (j - n \in 1 .. k /\ n + (j - n) = j)
        BY <1>1, <1>2
      <4>2. CASE j \in 1 .. n
        BY <1>3, <1>7, <4>2
      <4>3. CASE j - n \in 1 .. k /\ n + (j - n) = j
        <5> DEFINE d == j - n
        <5>1. d \in 1 .. k /\ n + d = j
          BY <4>3
        <5>. HIDE DEF d
        <5>2. m[i][n + d] = m[1][n + d] /\ new[d] = m[1][n + d] /\ seen[n + d] = new[d]
          BY <1>3, <1>6, <1>7, <5>1
        <5>. QED  BY <5>1, <5>2
      <4>. QED  BY <4>1, <4>2, <4>3
    <3>. QED  BY <3>1
  <2>2. m[i] \in Seq(TextCharacters) /\ Len(m[i]) \in Nat /\ Len(m[i]) >= n + k
    BY <1>3
  <2> DEFINE a == SubSeq(seen, 1, Len(seen))
             b == SubSeq(m[i], 1, Len(seen))
  <2>3. /\ a \in Seq(TextCharacters) /\ Len(a) = n + k /\ \A j \in 1 .. n + k : a[j] = seen[j]
    BY <1>1, <1>2, <1>7
  <2>4. /\ b \in Seq(TextCharacters) /\ Len(b) = n + k /\ \A j \in 1 .. n + k : b[j] = m[i][j]
    BY <1>1, <1>2, <1>7, <2>2
  <2>. HIDE DEF a, b
  <2>5. a = b
    BY <2>1, <2>3, <2>4, SeqEqual
  <2>. QED  BY <1>7, <2>2, <2>5 DEF IsPrefix, a, b
<1>9. ASSUME NEW ch \in TextCharacters,
             \A i \in DOMAIN m : IsPrefix(seen \o <<ch>>, m[i])
      PROVE  FALSE
  <2> DEFINE all == seen \o <<ch>>
  <2>1. /\ all \in Seq(TextCharacters) /\ Len(all) = n + k + 1 /\ all[n + k + 1] = ch
    BY <1>1, <1>2, <1>7
  <2>. HIDE DEF all
  <2>2. ASSUME NEW i \in DOMAIN m
        PROVE  Len(m[i]) >= n + k + 1 /\ m[i][n + k + 1] = ch
    <3>1. IsPrefix(all, m[i])
      BY <1>9 DEF all
    <3>2. n + k + 1 <= Len(m[i]) /\ SubSeq(all, 1, n + k + 1) = SubSeq(m[i], 1, n + k + 1)
      BY <2>1, <3>1 DEF IsPrefix
    <3>3. SubSeq(all, 1, n + k + 1)[n + k + 1] = ch
      BY <1>1, <1>2, <2>1
    <3>4. SubSeq(m[i], 1, n + k + 1)[n + k + 1] = m[i][n + k + 1]
      BY <1>1, <1>2, <1>3, <3>2
    <3>. QED  BY <1>1, <1>2, <1>3, <3>2, <3>3, <3>4
  <2>3. PICK i \in DOMAIN m : Len(m[i]) <= n + k \/ m[i][n + k + 1] # m[1][n + k + 1]
    BY <1>2, Zenon DEF EndsAt
  <2>. QED  BY <1>1, <1>2, <1>3, <1>4, <2>2, <2>3
<1>10. /\ k \in Nat /\ new \in Texts /\ Len(new) = k
       /\ \A i \in DOMAIN m : IsPrefix(seen, m[i])
       /\ ~\E ch \in TextCharacters : \A i \in DOMAIN m : IsPrefix(seen \o <<ch>>, m[i])
  BY <1>2, <1>6, <1>8, <1>9, Zenon DEF Texts
<1>. QED
  BY <1>10, Zenon DEF k, new, m, arg, n, seen

-----------------------------------------------------------------------------
EmptyLine == [line |-> <<>>, column |-> 0]

\* What ends with a new line leaves an empty one.
LEMMA NewLineEmpties ==
  ASSUME NEW t \in Terminals, NEW chars \in Seq(Sent), chars # <<>>, chars[Len(chars)] = "\n"
  PROVE  Output(t, chars) = EmptyLine
<1> DEFINE n == Len(chars)
<1>1. n \in 1 .. n
  <2>1. n \in Nat \ {0}
    BY EmptySeq
  <2>. QED  BY <2>1
<1>2. PICK g : Sends(g, t, chars) /\ Output(t, chars) = g[n]
  BY OutputSends
<1>3. g[n] = Emit(g[n - 1], chars[n])
  BY <1>1, <1>2, Zenon DEF Sends
<1>. QED
  BY <1>2, <1>3 DEF Emit, EmptyLine

\* A prompt printed on an empty line.
LEMMA PromptShows ==
  ASSUME NEW printed \in Seq(Glyphs)
  PROVE  LineShows(Output(EmptyLine, printed), Len(printed), <<>>, 0)
<1> DEFINE u == Output(EmptyLine, printed)
           n == Len(printed)
<1>1. EmptyLine \in Terminals /\ EmptyLine.line = <<>> /\ EmptyLine.column = 0
      /\ Len(EmptyLine.line) = 0 /\ n \in Nat
  BY DEF EmptyLine, Terminals
<1>2. EmptyLine.column <= Len(EmptyLine.line)
  BY <1>1
<1>3. u \in Terminals /\ Printed(EmptyLine, u, printed, n)
  BY <1>1, <1>2, TextPrints
<1>. HIDE DEF u, n
<1>4. u.column = 0 + n /\ Len(u.line) = IF 0 + n <= 0 THEN 0 ELSE 0 + n
  BY <1>1, <1>3 DEF Printed
<1>5. <<>> \in Texts /\ Len(<<>>) = 0
  BY DEF Texts
<1>6. u.column = n + 0 /\ Len(u.line) = n
  BY <1>1, <1>4
<1>7. BlankFrom(u.line, n + 0 + 1)
  <2>1. \A i \in n + 0 + 1 .. n : FALSE
    BY <1>1
  <2>. QED  BY <1>6, <2>1, Zenon DEF BlankFrom
<1>8. LineShows(u, n, <<>>, 0)
  <2>1. 0 \in 0 .. Len(<<>>) /\ Len(u.line) >= n + Len(<<>>) /\ BlankFrom(u.line, n + Len(<<>>) + 1)
        /\ \A i \in 1 .. Len(<<>>) : FALSE
    <3>1. n >= n + 0 /\ 0 \in 0 .. 0 /\ \A i \in 1 .. 0 : FALSE
      BY <1>1
    <3>. QED  BY <1>5, <1>6, <1>7, <3>1, Zenon
  <2>. QED  BY <1>1, <1>3, <1>5, <1>6, <2>1, Zenon DEF LineShows
<1>. QED
  BY <1>8 DEF u, n

\* The line printed again below what TAB lists.
LEMMA ListedShows ==
  ASSUME NEW t \in Terminals, NEW text \in Texts, NEW cursor \in 0 .. Len(text)
  PROVE  LineShows(Output(t, <<"\n", "\n", ">">> \o display(text, cursor)), 1, text, cursor)
<1> DEFINE lead == <<"\n", "\n", ">">>
           u == [line |-> <<">">>, column |-> 1]
<1>1. lead \in Seq(Sent) /\ Len(lead) = 3 /\ lead[2] = "\n" /\ lead[3] = ">"
  <2>1. "\n" \in Sent /\ ">" \in Sent
    BY DEF Sent, Glyphs
  <2>. QED  BY <2>1
<1>. HIDE DEF lead
<1>2. PICK g : Sends(g, t, lead) /\ Output(t, lead) = g[3]
  BY <1>1, OutputSends
<1>3. g[2] = Emit(g[1], "\n") /\ g[3] = Emit(g[2], ">")
  <2>1. 2 \in 1 .. 3 /\ 3 \in 1 .. 3 /\ 2 - 1 = 1 /\ 3 - 1 = 2
    OBVIOUS
  <2>2. g[2] = Emit(g[2 - 1], lead[2]) /\ g[3] = Emit(g[3 - 1], lead[3])
    BY <1>1, <1>2, <2>1, Zenon DEF Sends
  <2>. QED  BY <1>1, <2>1, <2>2
<1>4. g[2] = EmptyLine
  BY <1>3 DEF Emit, EmptyLine
<1>5. Emit(EmptyLine, ">") = u
  BY DEF Emit, EmptyLine
<1>6. u \in Terminals /\ u.column = 1 /\ Len(u.line) = 1
  <2>1. ">" \in Glyphs
    BY DEF Glyphs
  <2>2. <<">">> \in Seq(Glyphs) /\ Len(<<">">>) = 1
    BY <2>1
  <2>. QED  BY <2>2 DEF Terminals
<1>. HIDE DEF u
<1>7. Output(t, lead) = u
  BY <1>2, <1>3, <1>4, <1>5
<1>8. BlankFrom(u.line, 1 + Len(text) + 1)
  <2>1. Len(text) \in Nat
    BY DEF Texts
  <2>2. \A i \in 1 + Len(text) + 1 .. 1 : FALSE
    BY <2>1
  <2>. QED  BY <1>6, <2>2, Zenon DEF BlankFrom
<1>9. display(text, cursor) \in Seq(Sent) /\ LineShows(Output(u, display(text, cursor)), 1, text, cursor)
  <2>1. u.column <= Len(u.line) /\ 1 <= Len(u.line) /\ 1 \in Nat
    BY <1>6
  <2>. QED  BY <1>6, <1>8, <2>1, DisplayShows
<1>10. Output(t, lead \o display(text, cursor)) = Output(u, display(text, cursor))
  BY <1>1, <1>7, <1>9, OutputJoins
<1>. QED
  BY <1>9, <1>10 DEF lead

-----------------------------------------------------------------------------
LEMMA EditorStart ==
  EditorInit => TextInv /\ HistoryInv
BY DEF EditorInit, TextInv, HistoryInv, Texts

\* TAB.
LEMMA TabStep ==
  ASSUME TextInv, HistoryInv, Tab
  PROVE  /\ TextInv'
         /\ Matches # <<>> =>
              /\ str' = UpToCursor \o Inserted \o FromCursor
              /\ cursorI' = cursorI + Len(Inserted)
<1> DEFINE common == CommonLength(Matches, Len(lstArg))
           longer == UpToCursor \o Inserted \o FromCursor
<1>1. typing /\ OnTerminal /\ str \in Texts /\ cursorI \in 0 .. Len(str)
  BY DEF Tab, TextInv
<1>2. Matches = <<>> => common = 0
  BY DEF CommonLength
<1>3. Matches # <<>> => /\ common \in Nat /\ Inserted \in Texts /\ Len(Inserted) = common
                        /\ longer \in Texts /\ cursorI + common \in 0 .. Len(longer)
  BY TabInserts, TextGrows
<1>4. CASE common > 0
  <2>1. Edited(longer, cursorI + common)
    BY <1>4 DEF Tab, Inserted
  <2>2. Matches # <<>>
    BY <1>2, <1>4
  <2>. HIDE DEF common, longer
  <2>3. TextInv'
    BY <1>1, <1>3, <2>1, <2>2, EditedShows
  <2>4. str' = longer /\ cursorI' = cursorI + common
    BY <2>1 DEF Edited
  <2>. QED  BY <1>3, <2>2, <2>3, <2>4 DEF longer, common
<1>5. CASE ~(common > 0)
  <2>1. \/ /\ terminal' = Output(terminal, <<"\n", "\n", ">">> \o display(str, cursorI))
           /\ prompt' = 1 /\ spoilt' = FALSE /\ str' = str /\ cursorI' = cursorI
        \/ SameText
    BY <1>5, Zenon DEF Tab
  <2>2. str' = str /\ cursorI' = cursorI
    BY <2>1 DEF SameText
  <2>3. TextInv'
    <3>1. CASE SameText
      BY <1>1, <3>1, SameShows
    <3>2. CASE /\ terminal' = Output(terminal, <<"\n", "\n", ">">> \o display(str, cursorI))
               /\ prompt' = 1 /\ spoilt' = FALSE /\ str' = str /\ cursorI' = cursorI
      <4>1. terminal \in Terminals
        <5>1. [line |-> <<>>, column |-> 0] \in Terminals
          BY DEF Terminals
        <5>. QED  BY <1>1, <5>1 DEF OnTerminal, LineShows
      <4>2. LineShows(terminal', 1, str, cursorI)
        BY <1>1, <3>2, <4>1, ListedShows
      <4>. QED  BY <1>1, <3>2, <4>2 DEF TextInv, OnTerminal
    <3>. QED  BY <2>1, <3>1, <3>2
  <2>4. Matches # <<>> => str' = longer /\ cursorI' = cursorI + Len(Inserted)
    <3>. SUFFICES ASSUME Matches # <<>> PROVE str' = longer /\ cursorI' = cursorI + Len(Inserted)
      OBVIOUS
    <3>1. Inserted \in Texts /\ Len(Inserted) = 0
      BY <1>3, <1>5
    <3>2. Inserted = <<>>
      BY <3>1 DEF Texts
    <3>3. UpToCursor \in Seq(TextCharacters) /\ UpToCursor \o FromCursor = str
      BY TextParts DEF Texts
    <3>4. longer = str
      BY <3>2, <3>3
    <3>5. Len(str) \in Nat
      BY <1>1 DEF Texts
    <3>. QED  BY <1>1, <2>2, <3>1, <3>4, <3>5
  <2>. QED  BY <2>3, <2>4
<1>. QED
  BY <1>4, <1>5

LEMMA TextStep ==
  TextInv /\ HistoryInv /\ [EditorNext]_editor_vars => TextInv'
<1>. SUFFICES ASSUME TextInv, HistoryInv, [EditorNext]_editor_vars PROVE TextInv'
  OBVIOUS
<1>1. str \in Texts /\ cursorI \in 0 .. Len(str) /\ Len(str) \in Nat /\ <<>> \in Texts /\ Len(<<>>) = 0
  BY DEF TextInv, Texts
<1>2. ASSUME Prepare PROVE TextInv'
  <2>1. PICK printed \in {<<>>, <<">">>, <<"x", ">">>} :
          terminal' = Output([line |-> <<>>, column |-> 0], printed) /\ prompt' = Len(printed)
    BY <1>2 DEF Prepare
  <2>2. printed \in Seq(Glyphs)
    <3>1. ">" \in Glyphs /\ "x" \in Glyphs
      BY DEF Glyphs
    <3>2. <<>> \in Seq(Glyphs) /\ <<">">> \in Seq(Glyphs) /\ <<"x", ">">> \in Seq(Glyphs)
      BY <3>1
    <3>3. printed = <<>> \/ printed = <<">">> \/ printed = <<"x", ">">>
      OBVIOUS
    <3>. QED  BY <3>2, <3>3, Zenon
  <2>3. LineShows(terminal', prompt', <<>>, 0)
    BY <2>1, <2>2, PromptShows DEF EmptyLine
  <2>4. str' = <<>> /\ cursorI' = 0 /\ spoilt' = FALSE
    BY <1>2 DEF Prepare
  <2>. QED  BY <1>1, <2>3, <2>4 DEF TextInv, OnTerminal
<1>3. ASSUME NEW ch \in Letters, Type(ch) PROVE TextInv'
  <2>1. typing /\ Edited(UpToCursor \o <<ch>> \o FromCursor, cursorI + 1) /\ ch \in TextCharacters
    BY <1>3 DEF Type, Press, TextCharacters
  <2>. QED  BY <2>1, OneTyped, EditedShows
<1>4. ASSUME Backspace PROVE TextInv'
  <2>1. typing
    BY <1>4 DEF Backspace, Press
  <2>2. CASE cursorI > 0
    <3>1. Edited(Front(UpToCursor) \o FromCursor, cursorI - 1)
      BY <1>4, <2>2 DEF Backspace
    <3>. QED  BY <2>1, <2>2, <3>1, OneErased, EditedShows
  <2>3. CASE ~(cursorI > 0)
    BY <1>4, <2>1, <2>3, SameShows DEF Backspace
  <2>. QED  BY <2>2, <2>3
<1>5. ASSUME Left PROVE TextInv'
  <2>1. typing
    BY <1>5 DEF Left, Press
  <2>2. CASE cursorI > 0
    <3>1. Edited(str, cursorI - 1)
      BY <1>5, <2>2 DEF Left
    <3>2. cursorI - 1 \in 0 .. Len(str)
      BY <1>1, <2>2
    <3>. QED  BY <1>1, <2>1, <3>1, <3>2, EditedShows
  <2>3. CASE ~(cursorI > 0)
    BY <1>5, <2>1, <2>3, SameShows DEF Left
  <2>. QED  BY <2>2, <2>3
<1>6. ASSUME Right PROVE TextInv'
  <2>1. typing
    BY <1>6 DEF Right, Press
  <2>2. CASE cursorI < Len(str)
    <3>1. Edited(str, cursorI + 1)
      BY <1>6, <2>2 DEF Right
    <3>2. cursorI + 1 \in 0 .. Len(str)
      BY <1>1, <2>2
    <3>. QED  BY <1>1, <2>1, <3>1, <3>2, EditedShows
  <2>3. CASE ~(cursorI < Len(str))
    BY <1>6, <2>1, <2>3, SameShows DEF Right
  <2>. QED  BY <2>2, <2>3
<1>7. ASSUME Other PROVE TextInv'
  <2>1. typing /\ terminal' = Output(terminal, <<"<", ">", "\n">>) /\ prompt' = 0 /\ spoilt' = TRUE
        /\ str' = str /\ cursorI' = cursorI
    BY <1>7 DEF Other, Press
  <2> DEFINE chars == <<"<", ">", "\n">>
  <2>2. chars \in Seq(Sent) /\ chars # <<>> /\ chars[Len(chars)] = "\n"
    <3>1. "<" \in Sent /\ ">" \in Sent /\ "\n" \in Sent
      BY DEF Sent, Glyphs
    <3>2. chars \in Seq(Sent)
      BY <3>1
    <3>3. Len(chars) = 3 /\ chars[3] = "\n"
      OBVIOUS
    <3>4. chars # <<>>
      <4>. HIDE DEF chars
      <4>. QED  BY <3>2, <3>3, EmptySeq
    <3>. QED  BY <3>2, <3>3, <3>4, Zenon
  <2>. HIDE DEF chars
  <2>3. terminal \in Terminals
    <3>1. [line |-> <<>>, column |-> 0] \in Terminals
      BY DEF Terminals
    <3>. QED  BY <2>1, <3>1 DEF TextInv, OnTerminal, LineShows
  <2>4. terminal' = EmptyLine
    BY <2>1, <2>2, <2>3, NewLineEmpties DEF chars
  <2>. QED  BY <1>1, <2>1, <2>4 DEF TextInv, OnTerminal, EmptyLine
<1>8. ASSUME NEW key, Submit(key) PROVE TextInv'
  <2>1. typing' = FALSE /\ str' = str /\ cursorI' = cursorI
    BY <1>8 DEF Submit
  <2>. QED  BY <1>1, <2>1 DEF TextInv
<1>9. typing => /\ Stored \in Seq(Texts) /\ Len(Stored) = Len(lineHistoryBuffer)
                /\ Len(lineHistoryBuffer) \in Nat
                /\ historyI \in -1 .. Len(lineHistoryBuffer) - 1
  BY LinesStored DEF HistoryInv
<1>10. ASSUME NEW text \in Texts, typing, fromString(text) PROVE TextInv'
  <2>1. Edited(text, Len(text)) /\ Len(text) \in 0 .. Len(text)
    BY <1>10 DEF fromString, Texts
  <2>. QED  BY <1>10, <2>1, EditedShows
<1>11. ASSUME Up PROVE TextInv'
  <2>1. typing /\ IF historyI > 0 THEN fromString(Stored[historyI]) ELSE fromString(<<>>)
    BY <1>11 DEF Up, Press
  <2>2. CASE historyI > 0
    <3>1. historyI \in 1 .. Len(Stored)
      BY <1>9, <2>1, <2>2
    <3>2. Stored[historyI] \in Texts
      BY <1>9, <2>1, <3>1
    <3>. QED  BY <1>10, <2>1, <2>2, <3>2
  <2>3. CASE ~(historyI > 0)
    BY <1>1, <1>10, <2>1, <2>3
  <2>. QED  BY <2>2, <2>3
<1>12. ASSUME Down PROVE TextInv'
  <2>1. typing /\ IF historyI < Len(lineHistoryBuffer) - 1 THEN fromString(Stored[historyI + 2])
                  ELSE SameText
    BY <1>12 DEF Down, Press
  <2>2. CASE historyI < Len(lineHistoryBuffer) - 1
    <3>1. historyI + 2 \in 1 .. Len(Stored)
      BY <1>9, <2>1, <2>2
    <3>2. Stored[historyI + 2] \in Texts
      BY <1>9, <2>1, <3>1
    <3>. QED  BY <1>10, <2>1, <2>2, <3>2
  <2>3. CASE ~(historyI < Len(lineHistoryBuffer) - 1)
    BY <2>1, <2>3, SameShows
  <2>. QED  BY <2>2, <2>3
<1>13. CASE UNCHANGED editor_vars
  BY <1>13 DEF editor_vars, TextInv, OnTerminal
<1>. QED
  BY <1>2, <1>3, <1>4, <1>5, <1>6, <1>7, <1>8, <1>11, <1>12, <1>13, TabStep DEF EditorNext

LEMMA HistoryStep ==
  TextInv /\ HistoryInv /\ [EditorNext]_editor_vars => HistoryInv'
<1>. SUFFICES ASSUME TextInv, HistoryInv, [EditorNext]_editor_vars PROVE HistoryInv'
  OBVIOUS
<1> DEFINE buffer == lineHistoryBuffer
           n == Len(lineHistoryBuffer)
<1>1. str \in Texts /\ <<>> \in Texts /\ buffer \in Seq(Texts) /\ n \in Nat
      /\ (typing => n >= 1 /\ historyI \in -1 .. n - 1)
  BY DEF TextInv, HistoryInv, Texts
<1>2. typing => Stored \in Seq(Texts) /\ Len(Stored) = n
  BY LinesStored
<1>3. ASSUME Prepare PROVE HistoryInv'
  <2>1. buffer' = Append(buffer, <<>>) /\ historyI' = n
    BY <1>3 DEF Prepare
  <2>2. buffer' \in Seq(Texts) /\ Len(buffer') = n + 1
    BY <1>1, <2>1
  <2>3. n + 1 >= 1 /\ n \in -1 .. (n + 1) - 1
    BY <1>1
  <2>. QED  BY <2>1, <2>2, <2>3 DEF HistoryInv
<1>4. ASSUME SameHistory PROVE HistoryInv'
  BY <1>4 DEF SameHistory, HistoryInv
<1>5. ASSUME NEW key, Submit(key) PROVE HistoryInv'
  <2>1. typing /\ typing' = FALSE /\ buffer' = [buffer EXCEPT ![n] = str]
    BY <1>5 DEF Submit, Press
  <2>2. n \in 1 .. n
    BY <1>1, <2>1
  <2>3. [buffer EXCEPT ![n] = str] \in Seq(Texts)
    BY <1>1, <2>2, ExceptSeq
  <2>. QED  BY <2>1, <2>3 DEF HistoryInv
<1>6. ASSUME Up PROVE HistoryInv'
  <2>1. typing /\ buffer' = Stored /\ (historyI > 0 => historyI' = historyI - 1)
        /\ (~(historyI > 0) => historyI' = -1)
    BY <1>6 DEF Up, Press
  <2>2. historyI' \in -1 .. n - 1
    BY <1>1, <2>1
  <2>. QED  BY <1>1, <1>2, <2>1, <2>2 DEF HistoryInv
<1>7. ASSUME Down PROVE HistoryInv'
  <2>1. typing /\ buffer' = Stored /\ (historyI < n - 1 => historyI' = historyI + 1)
        /\ (~(historyI < n - 1) => historyI' = historyI)
    BY <1>7 DEF Down, Press
  <2>2. historyI' \in -1 .. n - 1
    BY <1>1, <2>1
  <2>. QED  BY <1>1, <1>2, <2>1, <2>2 DEF HistoryInv
<1>8. CASE UNCHANGED editor_vars
  BY <1>8 DEF editor_vars, HistoryInv
<1>. QED
  BY <1>3, <1>4, <1>5, <1>6, <1>7, <1>8 DEF EditorNext, Type, Backspace, Left, Right, Other, Tab

\* Storing the line that is shown a second time changes nothing.
LEMMA WalkKeeps ==
  ASSUME TextInv, HistoryInv, Up \/ Down
  PROVE  LinesSeen' = LinesSeen
<1> DEFINE n == Len(lineHistoryBuffer)
<1>1. /\ typing /\ n \in Nat /\ historyI \in -1 .. n - 1
      /\ Stored \in Seq(Texts) /\ Len(Stored) = n
      /\ (historyI >= 0 => Stored[historyI + 1] = str)
      /\ lineHistoryBuffer' = Stored
  BY LinesStored DEF HistoryInv, Up, Down, Press
<1>. HIDE DEF n
<1>2. Stored' = IF historyI' >= 0 THEN [Stored EXCEPT ![historyI' + 1] = str'] ELSE Stored
  BY <1>1 DEF Stored
<1>3. ASSUME NEW i \in 1 .. n, NEW text, text = Stored[i]
      PROVE  [Stored EXCEPT ![i] = text] = Stored
  <2>1. DOMAIN Stored = 1 .. n /\ Stored = [j \in 1 .. n |-> Stored[j]]
    BY <1>1
  <2>. QED  BY <1>3, <2>1
<1>4. historyI' >= 0 => historyI' + 1 \in 1 .. n /\ str' = Stored[historyI' + 1]
  <2>1. CASE Up /\ historyI > 0
    <3>1. historyI' = historyI - 1 /\ str' = Stored[historyI]
      BY <2>1 DEF Up, fromString, Edited
    <3>2. historyI' + 1 = historyI /\ historyI \in 1 .. n
      BY <1>1, <2>1, <3>1
    <3>. QED  BY <3>1, <3>2
  <2>2. CASE Up /\ ~(historyI > 0)
    <3>1. historyI' = -1
      BY <2>2 DEF Up
    <3>. QED  BY <3>1
  <2>3. CASE Down /\ historyI < n - 1
    <3>1. historyI' = historyI + 1 /\ str' = Stored[historyI + 2]
      BY <2>3 DEF Down, fromString, Edited, n
    <3>2. historyI' + 1 = historyI + 2 /\ (historyI' >= 0 => historyI + 2 \in 1 .. n)
      BY <1>1, <2>3, <3>1
    <3>. QED  BY <3>1, <3>2
  <2>4. CASE Down /\ ~(historyI < n - 1)
    <3>1. historyI' = historyI /\ str' = str
      BY <2>4 DEF Down, SameText, n
    <3>. QED  BY <1>1, <3>1
  <2>. QED  BY <2>1, <2>2, <2>3, <2>4
<1>5. Stored' = Stored
  BY <1>2, <1>3, <1>4
<1>. QED
  BY <1>5 DEF LinesSeen

\* Every step does what KeysKeepLines says.
LEMMA KeysStep ==
  TextInv /\ HistoryInv /\ [EditorNext]_editor_vars => [LinesKept]_editor_vars
<1>. SUFFICES ASSUME TextInv, HistoryInv, EditorNext PROVE LinesKept
  OBVIOUS
<1>1. ASSUME pressed' \notin {"UP", "DOWN", "TAB"}, typing' = typing \/ typing' = TRUE
      PROVE  LinesKept
  <2>1. ~(pressed' \in {"UP", "DOWN"}) /\ ~(pressed' = "TAB") /\ ~(typing /\ ~typing')
    BY <1>1
  <2>. QED  BY <2>1, Zenon DEF LinesKept
<1>2. ASSUME Prepare PROVE LinesKept
  <2>1. pressed' = "none" /\ typing' = TRUE
    BY <1>2 DEF Prepare
  <2>. QED  BY <1>1, <2>1
<1>3. ASSUME NEW key, Press(key), SameHistory, key \notin {"UP", "DOWN", "TAB"} PROVE LinesKept
  <2>1. pressed' = key /\ typing' = typing
    BY <1>3 DEF Press, SameHistory
  <2>. QED  BY <1>1, <1>3, <2>1
<1>4. ASSUME NEW ch \in Letters, Type(ch) PROVE LinesKept
  <2>1. ch \notin {"UP", "DOWN", "TAB"}
    BY EditorAssumption
  <2>2. Press(ch) /\ SameHistory
    BY <1>4 DEF Type
  <2>. QED  BY <1>3, <2>1, <2>2
<1>5. ASSUME Backspace \/ Left \/ Right \/ Other PROVE LinesKept
  <2>1. SameHistory /\ (Press("BACKSPACE") \/ Press("LEFT") \/ Press("RIGHT") \/ Press("ESC"))
    BY <1>5 DEF Backspace, Left, Right, Other
  <2>2. /\ "BACKSPACE" \notin {"UP", "DOWN", "TAB"} /\ "LEFT" \notin {"UP", "DOWN", "TAB"}
        /\ "RIGHT" \notin {"UP", "DOWN", "TAB"} /\ "ESC" \notin {"UP", "DOWN", "TAB"}
    OBVIOUS
  <2>. QED  BY <1>3, <2>1, <2>2, Zenon
<1>6. ASSUME NEW key \in {"ENTER", "CTRL_C"}, Submit(key) PROVE LinesKept
  <2> DEFINE n == Len(lineHistoryBuffer)
  <2>1. pressed' = key /\ typing /\ lineHistoryBuffer' = [lineHistoryBuffer EXCEPT ![n] = str]
    BY <1>6 DEF Submit, Press
  <2>2. lineHistoryBuffer \in Seq(Texts) /\ n \in Nat /\ n >= 1 /\ str \in Texts
    BY <2>1 DEF HistoryInv, TextInv
  <2>3. n \in 1 .. n
    BY <2>2
  <2>4. Len(lineHistoryBuffer') = n /\ lineHistoryBuffer'[n] = str
    BY <2>1, <2>2, <2>3, ExceptSeq
  <2>5. Last(lineHistoryBuffer') = str
    BY <2>4 DEF Last
  <2>6. pressed' \notin {"UP", "DOWN", "TAB"}
    BY <2>1
  <2>. QED  BY <2>5, <2>6, Zenon DEF LinesKept
<1>7. ASSUME Up \/ Down PROVE LinesKept
  <2>1. pressed' \in {"UP", "DOWN"} /\ typing' = typing
    BY <1>7 DEF Up, Down, Press
  <2>2. pressed' # "TAB"
    BY <2>1
  <2>3. LinesSeen' = LinesSeen
    BY <1>7, WalkKeeps
  <2>. QED  BY <2>1, <2>2, <2>3, Zenon DEF LinesKept
<1>8. ASSUME Tab PROVE LinesKept
  <2>1. pressed' = "TAB" /\ typing' = typing
    BY <1>8 DEF Tab, SameHistory
  <2>2. pressed' \notin {"UP", "DOWN"}
    BY <2>1
  <2>3. ASSUME Matches # <<>>
        PROVE  /\ SubSeq(str', cursorI + 1, cursorI') = Inserted
               /\ str' = UpToCursor \o Inserted \o FromCursor
               /\ \A i \in DOMAIN Matches : IsPrefix(lstArg \o Inserted, Matches[i])
               /\ ~\E ch \in Letters \cup {"/"} : \A i \in DOMAIN Matches :
                     IsPrefix(lstArg \o Inserted \o <<ch>>, Matches[i])
    <3>1. str' = UpToCursor \o Inserted \o FromCursor /\ cursorI' = cursorI + Len(Inserted)
      BY <1>8, <2>3, TabStep
    <3>2. /\ Inserted \in Texts
          /\ \A i \in DOMAIN Matches : IsPrefix(lstArg \o Inserted, Matches[i])
          /\ ~\E ch \in TextCharacters : \A i \in DOMAIN Matches :
                IsPrefix(lstArg \o Inserted \o <<ch>>, Matches[i])
      BY <2>3, TabInserts
    <3>3. SubSeq(UpToCursor \o Inserted \o FromCursor, cursorI + 1, cursorI + Len(Inserted)) = Inserted
      BY <3>2, TextGrows
    <3>. QED  BY <3>1, <3>2, <3>3, Zenon DEF TextCharacters
  <2>. QED  BY <2>1, <2>2, <2>3, Zenon DEF LinesKept
<1>. QED
  BY <1>2, <1>4, <1>5, <1>6, <1>7, <1>8 DEF EditorNext

\* Whatever is typed, erased, completed or called from the history, and whatever was
\* printed over it meanwhile, the line of the terminal shows the text behind the prompt,
\* with the cursor at its place (edittext.cpp:80).
THEOREM TerminalAlwaysShowsText ==
  EditorSpec => []TerminalShowsText
<1>1. TextInv => TerminalShowsText
  BY DEF TextInv, OnTerminal, LineShows, BlankFrom, TerminalShowsText
<1>. QED
  BY <1>1, EditorStart, TextStep, HistoryStep, PTL DEF EditorSpec

\* Whatever lines there are and whatever completions, walking through the history
\* changes none, the line submitted becomes the last, and TAB inserts what every match
\* goes on with, and all that they share (completions.cpp:26, :169).
THEOREM LinesAreKept ==
  EditorSpec => KeysKeepLines
BY EditorStart, TextStep, HistoryStep, KeysStep, PTL DEF EditorSpec, KeysKeepLines

-----------------------------------------------------------------------------
(***************************************************************************)
(* The view of the schedule.                                               *)
(***************************************************************************)
DisplayedItem == [row : Nat, start : Nat, complete : Nat, bound : Nat]

\* The longer the distance, the more ticks it has; and every distance is so many
\* columns and a part of one.
LEMMA ScaleDivides ==
  /\ Scale \in Nat \ {0} /\ Border \in Int /\ Edge \in Int
  /\ \A a, b \in Int : a <= b => Scale * a <= Scale * b
  /\ \A a, b \in Int : Scale * (a + b) = Scale * a + Scale * b
  /\ \A d \in Nat : /\ d \div Scale \in Nat
                    /\ Scale * (d \div Scale) <= d /\ d < Scale * (d \div Scale) + Scale
<1>1. Scale \in Nat \ {0} /\ Edge \in Nat
  BY DisplayAssumption
<1>2. Border \in Int
  BY DisplayAssumption
<1>3. ASSUME NEW a \in Int, NEW b \in Int
      PROVE  Scale * (a + b) = Scale * a + Scale * b
  BY <1>1
<1>4. ASSUME NEW a \in Int, NEW b \in Int, a <= b
      PROVE  Scale * a <= Scale * b
  <2>1. b - a \in Nat /\ b = a + (b - a)
    BY <1>4
  <2>2. \A m \in Nat, n \in Nat : m * n \in Nat
    OBVIOUS
  <2>3. Scale * (b - a) \in Nat
    BY <1>1, <2>1, <2>2
  <2>4. Scale * b = Scale * a + Scale * (b - a)
    BY <1>3, <2>1
  <2>. QED  BY <1>1, <2>3, <2>4
<1>5. ASSUME NEW d \in Nat
      PROVE  /\ d \div Scale \in Nat
             /\ Scale * (d \div Scale) <= d /\ d < Scale * (d \div Scale) + Scale
  <2>1. d = Scale * (d \div Scale) + (d % Scale) /\ d % Scale \in 0 .. Scale - 1
    BY <1>1
  <2>2. d \div Scale \in Int
    BY <1>1
  <2>3. d \div Scale \in Nat
    BY <1>1
  <2>. QED  BY <1>1, <2>1, <2>2, <2>3
<1>. QED  BY <1>1, <1>2, <1>3, <1>4, <1>5

\* A tick has a column left of the border exactly when the column stands for it;
\* one that has passed is beyond the border.
LEMMA ColumnOfTick ==
  ASSUME NEW T \in Nat, T + Border * Scale < TickWords, NEW v \in 0 .. TickWords - 1
  PROVE  /\ ColumnsAway(v, T) \in Nat
         /\ ColumnsAway(v, T) < Border \/ v >= T =>
              /\ v >= T
              /\ T + Scale * ColumnsAway(v, T) <= v
              /\ v < T + Scale * ColumnsAway(v, T) + Scale
<1> DEFINE d == (v - T) % TickWords
           q == d \div Scale
           Size == Border * Scale
<1>1. TickWords \in Nat /\ Size \in Nat /\ Size = Scale * Border /\ Scale \in Nat \ {0}
  BY DisplayAssumption
<1>2. ColumnsAway(v, T) = q
  BY DEF ColumnsAway
<1>3. T + Size < TickWords
  OBVIOUS
<1>. HIDE DEF Size
<1>4. d \in Nat /\ (v >= T => d = v - T) /\ (v < T => d >= Size)
  <2>1. CASE v >= T
    <3>1. v - T \in 0 .. TickWords - 1
      BY <1>1, <1>3, <2>1
    <3>. QED  BY <1>1, <2>1, <3>1
  <2>2. CASE v < T
    <3>1. v - T + TickWords \in 0 .. TickWords - 1
      BY <1>1, <1>3, <2>2
    <3>2. d = v - T + TickWords
      BY <1>1, <3>1
    <3>. QED  BY <1>1, <1>3, <2>2, <3>1, <3>2
  <2>. QED  BY <1>1, <2>1, <2>2
<1>. HIDE DEF d
<1>5. q \in Nat /\ Scale * q <= d /\ d < Scale * q + Scale
  BY <1>4, ScaleDivides
<1>. HIDE DEF q
<1>6. q < Border => v >= T
  <2>. SUFFICES ASSUME q < Border, v < T PROVE FALSE
    BY <1>1
  <2>1. Border \in Int /\ Scale * (q + 1) <= Scale * Border /\ Scale * (q + 1) = Scale * q + Scale * 1
    BY <1>5, ScaleDivides
  <2>2. Scale * q \in Int /\ Scale * Border \in Int /\ Scale * 1 = Scale
    BY <1>1, <1>5, <2>1
  <2>. QED  BY <1>1, <1>4, <1>5, <2>1, <2>2
<1>7. v >= T => T + Scale * q <= v /\ v < T + Scale * q + Scale
  <2>1. Scale * q \in Int
    BY <1>1, <1>5
  <2>. QED  BY <1>1, <1>4, <1>5, <2>1
<1>. QED  BY <1>2, <1>5, <1>6, <1>7

\* What CompletionAfter computes, step by step.
LEMMA CompletionRuns ==
  ASSUME NEW schedule \in Seq(DisplayedItem)
  PROVE  /\ CompletionAfter(schedule)[0] = 0
         /\ \A n \in 0 .. Len(schedule) : CompletionAfter(schedule)[n] \in Nat
         /\ \A n \in 1 .. Len(schedule) :
              CompletionAfter(schedule)[n] =
                IF Displayed(schedule[n])
                THEN Later(schedule[n].start, CompletionAfter(schedule)[n - 1]) + schedule[n].bound
                ELSE CompletionAfter(schedule)[n - 1]
<1> DEFINE m == Len(schedule)
           Step(i, c) == IF Displayed(schedule[i]) THEN Later(schedule[i].start, c) + schedule[i].bound
                         ELSE c
           IsIn(h) == h = [n \in 0 .. m |->
                             IF n = 0 THEN 0
                             ELSE IF Displayed(schedule[n])
                             THEN Later(schedule[n].start, h[n - 1]) + schedule[n].bound
                             ELSE h[n - 1]]
           F == [x \in (1 .. m) \X Nat |-> Step(x[1], x[2])]
           completion == CHOOSE h : IsIn(h)
<1>1. m \in Nat /\ \A i \in 1 .. m : schedule[i].start \in Nat /\ schedule[i].bound \in Nat
  <2>1. m \in Nat /\ \A i \in 1 .. m : schedule[i] \in DisplayedItem
    BY LenProperties, Zenon
  <2>2. \A e \in DisplayedItem : e.start \in Nat /\ e.bound \in Nat
    BY DEF DisplayedItem
  <2>. QED  BY <2>1, <2>2, Zenon
<1>. HIDE DEF m
<1>2. \A i \in 1 .. m, c \in Nat : Step(i, c) \in Nat
  BY <1>1 DEF Later
<1>3. F \in [(1 .. m) \X Nat -> Nat] /\ \A i \in 1 .. m, c \in Nat : F[<<i, c>>] = Step(i, c)
  <2>. HIDE DEF Step
  <2>. QED  BY <1>2
<1>. HIDE DEF F
<1>4. PICK h : GoesOn(h, F, 0, m, Nat)
  BY <1>1, <1>3, RecursionRuns
<1>5. h \in [0 .. m -> Nat] /\ h[0] = 0 /\ \A n \in 1 .. m : h[n] = Step(n, h[n - 1])
  <2>1. ASSUME NEW n \in 1 .. m PROVE h[n] = Step(n, h[n - 1])
    <3>1. n - 1 \in 0 .. m /\ n \in 1 .. m
      BY <1>1
    <3>. HIDE DEF Step
    <3>. QED  BY <1>3, <1>4, <3>1 DEF GoesOn
  <2>. HIDE DEF Step
  <2>. QED  BY <1>4, <2>1 DEF GoesOn
<1>6. IsIn(h)
  <2>1. \A n \in 0 .. m : h[n] = IF n = 0 THEN 0 ELSE Step(n, h[n - 1])
    <3>. HIDE DEF Step
    <3>. QED  BY <1>1, <1>5
  <2>2. h = [n \in 0 .. m |-> h[n]]
    BY <1>5
  <2>. QED  BY <2>1, <2>2, Zenon
<1>7. IsIn(completion)
  BY <1>6, Zenon
<1>8. CompletionAfter(schedule) = completion
  BY Zenon DEF CompletionAfter, completion, m
<1>. HIDE DEF completion
<1>9. \A n \in 0 .. m : completion[n] = IF n = 0 THEN 0 ELSE Step(n, completion[n - 1])
  BY <1>7, Zenon
<1>. HIDE DEF IsIn, Step
<1>10. completion[0] = 0 /\ \A n \in 1 .. m : completion[n] = Step(n, completion[n - 1])
  <2>1. 0 \in 0 .. m /\ \A n \in 1 .. m : n \in 0 .. m /\ n # 0
    BY <1>1
  <2>. QED  BY <1>9, <2>1, Zenon
<1> DEFINE S == {n \in 0 .. m : completion[n] \in Nat}
<1>11. 0 \in S
  BY <1>1, <1>10
<1>12. ASSUME NEW k \in 0 .. m - 1, k \in S PROVE k + 1 \in S
  <2>1. k + 1 \in 1 .. m /\ k + 1 \in 0 .. m /\ (k + 1) - 1 = k
    BY <1>1
  <2>2. completion[k + 1] = Step(k + 1, completion[(k + 1) - 1])
    BY <1>10, <2>1, Zenon
  <2>3. completion[k + 1] = Step(k + 1, completion[k])
    BY <2>1, <2>2
  <2>. QED  BY <1>2, <1>12, <2>1, <2>3
<1>13. \A n \in 0 .. m : completion[n] \in Nat
  <2>. HIDE DEF S
  <2>1. \A n \in 0 .. m : n \in S
    BY <1>1, <1>11, <1>12, Upward
  <2>. QED  BY <2>1 DEF S
<1>. QED
  BY <1>8, <1>10, <1>13, Zenon DEF m, Step

\* What is expected to run is complete when Finish says: CompletionAfter is the latest
\* of the times at which it is when one of the items up to it starts in time.
LEMMA FinishIsCompletion ==
  ASSUME plan \in Seq(DisplayedItem), NEW k \in DOMAIN plan, Displayed(plan[k])
  PROVE  Finish(k) = CompletionAfter(plan)[k]
<1> DEFINE m == Len(plan)
           C == CompletionAfter(plan)
           Step(i, c) == IF Displayed(plan[i]) THEN c + plan[i].bound ELSE c
           IsIn(h) == h = [n \in 0 .. m |->
                             IF n = 0 THEN 0
                             ELSE IF Displayed(plan[n]) THEN h[n - 1] + plan[n].bound
                             ELSE h[n - 1]]
           F == [x \in (1 .. m) \X Nat |-> Step(x[1], x[2])]
           bounds == CHOOSE h : IsIn(h)
           finishes == {plan[j].start + bounds[k] - bounds[j - 1] :
                          j \in {i \in 1 .. k : Displayed(plan[i])}}
<1>1. m \in Nat /\ k \in 1 .. m /\ \A i \in 1 .. m : plan[i].start \in Nat /\ plan[i].bound \in Nat
  <2>1. m \in Nat /\ DOMAIN plan = 1 .. m /\ \A i \in 1 .. m : plan[i] \in DisplayedItem
    BY LenProperties, Zenon
  <2>2. \A e \in DisplayedItem : e.start \in Nat /\ e.bound \in Nat
    BY DEF DisplayedItem
  <2>. QED  BY <2>1, <2>2, Zenon
<1>2. /\ C[0] = 0 /\ \A n \in 0 .. m : C[n] \in Nat
      /\ \A n \in 1 .. m : C[n] = IF Displayed(plan[n]) THEN Later(plan[n].start, C[n - 1]) + plan[n].bound
                                  ELSE C[n - 1]
  BY CompletionRuns, Zenon
<1>. HIDE DEF m, C
<1>3. \A i \in 1 .. m, c \in Nat : Step(i, c) \in Nat
  BY <1>1
<1>4. F \in [(1 .. m) \X Nat -> Nat] /\ \A i \in 1 .. m, c \in Nat : F[<<i, c>>] = Step(i, c)
  <2>. HIDE DEF Step
  <2>. QED  BY <1>3
<1>. HIDE DEF F
<1>5. PICK h : GoesOn(h, F, 0, m, Nat)
  BY <1>1, <1>4, RecursionRuns
<1>6. h \in [0 .. m -> Nat] /\ h[0] = 0 /\ \A n \in 1 .. m : h[n] = Step(n, h[n - 1])
  <2>1. ASSUME NEW n \in 1 .. m PROVE h[n] = Step(n, h[n - 1])
    <3>1. n - 1 \in 0 .. m /\ n \in 1 .. m
      BY <1>1
    <3>. HIDE DEF Step
    <3>. QED  BY <1>4, <1>5, <3>1 DEF GoesOn
  <2>. HIDE DEF Step
  <2>. QED  BY <1>5, <2>1 DEF GoesOn
<1>7. IsIn(h)
  <2>1. \A n \in 0 .. m : h[n] = IF n = 0 THEN 0 ELSE Step(n, h[n - 1])
    <3>. HIDE DEF Step
    <3>. QED  BY <1>1, <1>6
  <2>2. h = [n \in 0 .. m |-> h[n]]
    BY <1>6
  <2>. QED  BY <2>1, <2>2, Zenon
<1>8. IsIn(bounds)
  BY <1>7, Zenon
<1>9. Finish(k) = CHOOSE f \in finishes : \A g \in finishes : g <= f
  BY Zenon DEF Finish, finishes, bounds, m
<1>. HIDE DEF bounds
<1>10. \A n \in 0 .. m : bounds[n] = IF n = 0 THEN 0 ELSE Step(n, bounds[n - 1])
  BY <1>8, Zenon
<1>. HIDE DEF IsIn
<1>11. bounds[0] = 0 /\ \A n \in 1 .. m : bounds[n] = Step(n, bounds[n - 1])
  <2>1. 0 \in 0 .. m /\ \A n \in 1 .. m : n \in 0 .. m /\ n # 0
    BY <1>1
  <2>. HIDE DEF Step
  <2>. QED  BY <1>10, <2>1, Zenon
<1> DEFINE HasRow(j) == Displayed(plan[j])
           From(j, n) == plan[j].start + bounds[n] - bounds[j - 1]
           Latest(n) == /\ bounds[n] \in Nat
                        /\ \A j \in 1 .. n : bounds[j - 1] \in Nat
                        /\ \A j \in 1 .. n : HasRow(j) => From(j, n) <= C[n]
                        /\ \/ \E j \in 1 .. n : HasRow(j) /\ C[n] = From(j, n)
                           \/ C[n] = 0 /\ \A j \in 1 .. n : ~HasRow(j)
           S == {n \in 0 .. m : Latest(n)}
<1>12. 0 \in S
  BY <1>1, <1>2, <1>11
<1>13. ASSUME NEW n \in 0 .. m - 1, n \in S PROVE n + 1 \in S
  <2>1. n + 1 \in 1 .. m /\ n + 1 \in 0 .. m /\ n \in 0 .. m /\ (n + 1) - 1 = n /\ n \in Nat
    BY <1>1
  <2>2. /\ bounds[n + 1] = Step(n + 1, bounds[n])
        /\ C[n + 1] = IF HasRow(n + 1) THEN Later(plan[n + 1].start, C[n]) + plan[n + 1].bound ELSE C[n]
    <3>1. bounds[n + 1] = Step(n + 1, bounds[(n + 1) - 1])
      <4>. HIDE DEF Step
      <4>. QED  BY <1>11, <2>1, Zenon
    <3>2. C[n + 1] = IF HasRow(n + 1) THEN Later(plan[n + 1].start, C[(n + 1) - 1]) + plan[n + 1].bound
                     ELSE C[(n + 1) - 1]
      BY <1>2, <2>1, Zenon
    <3>. HIDE DEF Step, HasRow
    <3>. QED  BY <2>1, <3>1, <3>2
  <2>3. Latest(n)
    BY <1>13
  <2>4. /\ plan[n + 1].start \in Nat /\ plan[n + 1].bound \in Nat /\ C[n] \in Nat /\ bounds[n] \in Nat
        /\ \A j \in 1 .. n : plan[j].start \in Nat /\ bounds[j - 1] \in Nat
    BY <1>1, <1>2, <2>1, <2>3
  <2>5. \A j \in 1 .. n + 1 : j = n + 1 \/ j \in 1 .. n
    BY <2>1
  <2>6. CASE ~HasRow(n + 1)
    <3>1. bounds[n + 1] = bounds[n] /\ C[n + 1] = C[n]
      BY <2>2, <2>6
    <3>2. \A j \in 1 .. n + 1 : HasRow(j) => j \in 1 .. n
      BY <2>5, <2>6
    <3>3. \A j : From(j, n + 1) = From(j, n)
      BY <3>1
    <3>4. \A j \in 1 .. n + 1 : bounds[j - 1] \in Nat
      BY <2>1, <2>4, <2>5
    <3>5. \A j \in 1 .. n : j \in 1 .. n + 1
      BY <2>1
    <3>. HIDE DEF From, HasRow
    <3>. QED  BY <2>1, <2>3, <3>1, <3>2, <3>3, <3>4, <3>5
  <2>7. CASE HasRow(n + 1)
    <3>1. /\ bounds[n + 1] = bounds[n] + plan[n + 1].bound
          /\ C[n + 1] = Later(plan[n + 1].start, C[n]) + plan[n + 1].bound
      BY <2>2, <2>7
    <3>2. /\ From(n + 1, n + 1) = plan[n + 1].start + plan[n + 1].bound
          /\ \A j \in 1 .. n : From(j, n + 1) = From(j, n) + plan[n + 1].bound /\ From(j, n) \in Int
      <4>1. bounds[(n + 1) - 1] = bounds[n]
        BY <2>1, Zenon
      <4>2. From(n + 1, n + 1) = plan[n + 1].start + plan[n + 1].bound
        BY <2>4, <3>1, <4>1
      <4>3. ASSUME NEW j \in 1 .. n
            PROVE  From(j, n + 1) = From(j, n) + plan[n + 1].bound /\ From(j, n) \in Int
        <5> DEFINE p == plan[j].start
                   q == bounds[n]
                   r == plan[n + 1].bound
                   u == bounds[j - 1]
        <5>1. p \in Nat /\ q \in Nat /\ r \in Nat /\ u \in Nat
          BY <2>4
        <5>2. bounds[n + 1] = q + r
          BY <3>1
        <5>3. From(j, n + 1) = p + (q + r) - u /\ From(j, n) = p + q - u
          BY <5>2, Zenon
        <5>. HIDE DEF p, q, r, u, From
        <5>4. From(j, n + 1) = From(j, n) + r /\ From(j, n) \in Int
          BY <5>1, <5>3
        <5>. QED  BY <5>4, Zenon DEF r
      <4>. QED  BY <4>2, <4>3
    <3>3. \A j \in 1 .. n + 1 : bounds[j - 1] \in Nat
      BY <2>1, <2>4, <2>5
    <3>4. bounds[n + 1] \in Nat
      BY <2>4, <3>1
    <3>. HIDE DEF From
    <3>5. \A j \in 1 .. n + 1 : HasRow(j) => From(j, n + 1) <= C[n + 1]
      <4>1. From(n + 1, n + 1) <= C[n + 1]
        BY <2>4, <3>1, <3>2 DEF Later
      <4>2. ASSUME NEW j \in 1 .. n, HasRow(j) PROVE From(j, n + 1) <= C[n + 1]
        <5>1. From(j, n) <= C[n]
          BY <2>3, <4>2
        <5>2. C[n + 1] >= C[n] + plan[n + 1].bound /\ C[n + 1] \in Int
          BY <2>4, <3>1 DEF Later
        <5>3. From(j, n + 1) = From(j, n) + plan[n + 1].bound /\ From(j, n) \in Int
          BY <3>2
        <5> DEFINE f == From(j, n)
                   l == C[n]
                   r == plan[n + 1].bound
                   g == C[n + 1]
        <5>4. f \in Int /\ l \in Nat /\ r \in Nat /\ g \in Int
          BY <2>4, <5>2, <5>3
        <5>5. f <= l /\ g >= l + r /\ From(j, n + 1) = f + r
          BY <5>1, <5>2, <5>3, Zenon
        <5>. HIDE DEF f, l, r, g
        <5>6. From(j, n + 1) <= g
          BY <5>4, <5>5
        <5>. QED  BY <5>6, Zenon DEF g
      <4>. HIDE DEF HasRow
      <4>. QED  BY <2>5, <4>1, <4>2
    <3>6. \E j \in 1 .. n + 1 : HasRow(j) /\ C[n + 1] = From(j, n + 1)
      <4>1. CASE plan[n + 1].start >= C[n]
        <5>1. C[n + 1] = From(n + 1, n + 1)
          BY <2>4, <3>1, <3>2, <4>1 DEF Later
        <5>. QED  BY <2>1, <2>7, <5>1
      <4>2. CASE plan[n + 1].start < C[n]
        <5>1. C[n + 1] = C[n] + plan[n + 1].bound /\ C[n] # 0
          BY <2>4, <3>1, <4>2 DEF Later
        <5>2. PICK j \in 1 .. n : HasRow(j) /\ C[n] = From(j, n)
          BY <2>3, <5>1
        <5>3. C[n + 1] = From(j, n + 1) /\ j \in 1 .. n + 1
          BY <2>1, <3>2, <5>1, <5>2
        <5>. QED  BY <5>2, <5>3
      <4>. QED  BY <2>4, <4>1, <4>2
    <3>. HIDE DEF HasRow
    <3>. QED  BY <2>1, <3>3, <3>4, <3>5, <3>6
  <2>. QED  BY <2>6, <2>7
<1>14. Latest(k)
  <2>. HIDE DEF S, Latest
  <2>1. \A n \in 0 .. m : n \in S
    BY <1>1, <1>12, <1>13, Upward
  <2>2. k \in 0 .. m
    BY <1>1
  <2>3. k \in S
    BY <2>1, <2>2, Zenon
  <2>. QED  BY <2>3 DEF S
<1>15. /\ C[k] \in finishes
       /\ \A g \in finishes : g <= C[k] /\ g \in Int
  <2>1. ASSUME NEW j \in 1 .. k PROVE From(j, k) \in Int
    <3>1. plan[j].start \in Nat /\ bounds[k] \in Nat /\ bounds[j - 1] \in Nat
      BY <1>1, <1>14
    <3>. QED  BY <3>1
  <2>2. \A j \in 1 .. k : HasRow(j) => From(j, k) <= C[k]
    BY <1>14
  <2>3. \E j \in 1 .. k : HasRow(j) /\ C[k] = From(j, k)
    BY <1>1, <1>14
  <2>4. \A g : g \in finishes <=> \E j \in 1 .. k : HasRow(j) /\ g = From(j, k)
    OBVIOUS
  <2>. HIDE DEF finishes, From, HasRow
  <2>. QED  BY <2>1, <2>2, <2>3, <2>4
<1>16. C[k] \in Nat
  <2>1. k \in 0 .. m
    BY <1>1
  <2>. QED  BY <1>2, <2>1
<1> DEFINE last == CHOOSE f \in finishes : \A g \in finishes : g <= f
<1>. HIDE DEF finishes
<1>17. last \in finishes /\ \A g \in finishes : g <= last
  BY <1>15
<1>18. last = C[k]
  <2>. HIDE DEF last
  <2>. QED  BY <1>15, <1>16, <1>17
<1>. QED  BY <1>9, <1>18, Zenon DEF C

Signs == {"blank", "line", "bar", "start", "complete"}

\* What draw_tasks draws, item by item.
Draws(h, drawing, schedule, first, advance) ==
  /\ h \in [0 .. Len(schedule) -> [Cells -> Signs]]
  /\ h[0] = Cleared(drawing)
  /\ \A n \in 1 .. Len(schedule) : h[n] = WithItem(h[n - 1], schedule, n, first, advance)
  /\ Drawn(drawing, schedule, first, advance) = h[Len(schedule)]

LEMMA DrawnRuns ==
  ASSUME NEW drawing \in [Cells -> Signs], NEW schedule \in Seq(DisplayedItem),
         NEW first, NEW advance
  PROVE  \E h : Draws(h, drawing, schedule, first, advance)
<1> DEFINE m == Len(schedule)
           A == [Cells -> Signs]
           Step(i, c) == WithItem(c, schedule, i, first, advance)
           IsIn(h) == h = [n \in 0 .. m |-> IF n = 0 THEN Cleared(drawing)
                                             ELSE WithItem(h[n - 1], schedule, n, first, advance)]
           F == [x \in (1 .. m) \X A |-> Step(x[1], x[2])]
           drawn == CHOOSE h : IsIn(h)
<1>1. m \in Nat
  BY LenProperties, Zenon
<1>2. Cleared(drawing) \in A
  BY DEF Cleared, Signs
<1>3. \A i \in 1 .. m, c \in A : Step(i, c) \in A
  BY DEF WithItem, Signs
<1>. HIDE DEF m, A, Step
<1>4. F \in [(1 .. m) \X A -> A] /\ \A i \in 1 .. m, c \in A : F[<<i, c>>] = Step(i, c)
  BY <1>3
<1>. HIDE DEF F
<1>5. PICK h : GoesOn(h, F, Cleared(drawing), m, A)
  BY <1>1, <1>2, <1>4, RecursionRuns
<1>6. h \in [0 .. m -> A] /\ h[0] = Cleared(drawing) /\ \A n \in 1 .. m : h[n] = Step(n, h[n - 1])
  <2>1. ASSUME NEW n \in 1 .. m PROVE h[n] = Step(n, h[n - 1])
    <3>1. n - 1 \in 0 .. m /\ n \in 1 .. m
      BY <1>1
    <3>. QED  BY <1>4, <1>5, <3>1 DEF GoesOn
  <2>. QED  BY <1>5, <2>1 DEF GoesOn
<1>7. IsIn(h)
  <2>1. \A n \in 0 .. m : h[n] = IF n = 0 THEN Cleared(drawing) ELSE Step(n, h[n - 1])
    BY <1>1, <1>6
  <2>2. h = [n \in 0 .. m |-> h[n]]
    BY <1>6
  <2>. QED  BY <2>1, <2>2, Zenon DEF Step
<1>8. IsIn(drawn)
  BY <1>7, Zenon
<1>9. Drawn(drawing, schedule, first, advance) = drawn[m]
  BY Zenon DEF Drawn, drawn, m
<1>. HIDE DEF drawn
<1>10. \A n \in 0 .. m : drawn[n] = IF n = 0 THEN Cleared(drawing) ELSE Step(n, drawn[n - 1])
  BY <1>8, Zenon DEF Step
<1>11. drawn = [n \in 0 .. m |-> drawn[n]]
  <2>1. DOMAIN drawn = 0 .. m /\ drawn = [n \in DOMAIN drawn |-> drawn[n]]
    BY <1>8, Zenon
  <2>. QED  BY <2>1
<1>. HIDE DEF IsIn
<1>12. drawn[0] = Cleared(drawing) /\ \A n \in 1 .. m : drawn[n] = Step(n, drawn[n - 1])
  <2>1. 0 \in 0 .. m /\ \A n \in 1 .. m : n \in 0 .. m /\ n # 0
    BY <1>1
  <2>. QED  BY <1>10, <2>1, Zenon
<1> DEFINE S == {n \in 0 .. m : drawn[n] \in A}
<1>13. 0 \in S
  BY <1>1, <1>2, <1>12
<1>14. ASSUME NEW k \in 0 .. m - 1, k \in S PROVE k + 1 \in S
  <2>1. k + 1 \in 1 .. m /\ k + 1 \in 0 .. m /\ (k + 1) - 1 = k
    BY <1>1
  <2>2. drawn[k + 1] = Step(k + 1, drawn[(k + 1) - 1])
    BY <1>12, <2>1, Zenon
  <2>3. drawn[k + 1] = Step(k + 1, drawn[k])
    BY <2>1, <2>2
  <2>. QED  BY <1>3, <1>14, <2>1, <2>3
<1>15. \A n \in 0 .. m : drawn[n] \in A
  <2>. HIDE DEF S
  <2>1. \A n \in 0 .. m : n \in S
    BY <1>1, <1>13, <1>14, Upward
  <2>. QED  BY <2>1 DEF S
<1>16. drawn \in [0 .. m -> A]
  BY <1>11, <1>15
<1>. QED
  BY <1>9, <1>12, <1>16, Zenon DEF m, Step, A, Draws

\* What is on the board is of one of the first n items, nothing beyond the border,
\* and each column of their bars shows something.
OfItems(drawing, n, schedule, first, advance) ==
  \A cell \in Cells :
    LET In(k, columns) == cell[1] = schedule[k].row /\ cell[2] \in columns
        At(read) == TickAt(read, first, advance)
    IN  /\ cell[2] >= Border => drawing[cell] = "blank"
        /\ drawing[cell] = "bar" => \E k \in 1 .. n : In(k, Bar(schedule, k, At(ForBar(k))))
        /\ drawing[cell] = "start" => \E k \in 1 .. n : In(k, StartMark(schedule[k], At(ForStart(k))))
        /\ drawing[cell] = "complete" =>
             \E k \in 1 .. n : In(k, CompleteMark(schedule[k], At(ForComplete(k))))
        /\ \A k \in 1 .. n : In(k, Bar(schedule, k, At(ForBar(k)))) => drawing[cell] # "blank"

LEMMA DrawnOfItems ==
  ASSUME NEW drawing \in [Cells -> Signs], NEW schedule \in Seq(DisplayedItem),
         NEW first, NEW advance,
         \A cell \in Cells : cell[2] >= Border => drawing[cell] = "blank"
  PROVE  /\ Drawn(drawing, schedule, first, advance) \in [Cells -> Signs]
         /\ OfItems(Drawn(drawing, schedule, first, advance), Len(schedule), schedule, first, advance)
<1> DEFINE m == Len(schedule)
<1>1. m \in Nat
  BY LenProperties, Zenon
<1>0. PICK h : Draws(h, drawing, schedule, first, advance)
  BY DrawnRuns, Zenon
<1>2. /\ h \in [0 .. m -> [Cells -> Signs]]
      /\ h[0] = Cleared(drawing)
      /\ \A n \in 1 .. m : h[n] = WithItem(h[n - 1], schedule, n, first, advance)
      /\ Drawn(drawing, schedule, first, advance) = h[m]
  BY <1>0, Zenon DEF Draws
<1>. HIDE DEF m
<1>3. Cells \subseteq Nat \X Int /\ Border \in Nat /\ Edge \in Nat /\ Edge < Border
  BY DisplayAssumption DEF Cells
<1> DEFINE S == {n \in 0 .. m : OfItems(h[n], n, schedule, first, advance)}
<1>4. 0 \in S
  <2>1. OfItems(Cleared(drawing), 0, schedule, first, advance)
    <3>1. ASSUME NEW cell \in Cells
          PROVE  /\ cell[2] >= Border => Cleared(drawing)[cell] = "blank"
                 /\ Cleared(drawing)[cell] \notin {"bar", "start", "complete"}
      BY <1>3, <3>1 DEF Cleared
    <3>2. \A k \in 1 .. 0 : FALSE
      OBVIOUS
    <3>. HIDE DEF Cleared
    <3>. QED  BY <3>1, <3>2 DEF OfItems
  <2>. QED  BY <1>1, <1>2, <2>1
<1>5. ASSUME NEW k \in 0 .. m - 1, k \in S PROVE k + 1 \in S
  <2> DEFINE c == h[k]
             d == h[k + 1]
             i == schedule[k + 1]
             Tick(read) == TickAt(read, first, advance)
  <2>1. k + 1 \in 1 .. m /\ k + 1 \in 0 .. m /\ k \in 0 .. m /\ (k + 1) - 1 = k /\ k \in Nat
    BY <1>1
  <2>2. d = WithItem(c, schedule, k + 1, first, advance)
    <3>1. h[k + 1] = WithItem(h[(k + 1) - 1], schedule, k + 1, first, advance)
      BY <1>2, <2>1, Zenon
    <3>. QED  BY <2>1, <3>1
  <2>3. c \in [Cells -> Signs] /\ OfItems(c, k, schedule, first, advance)
    BY <1>2, <1>5, <2>1
  <2>. HIDE DEF c, d
  <2>4. ASSUME NEW cell \in Cells
        PROVE  d[cell] = IF cell[1] # i.row THEN c[cell]
                         ELSE IF cell[2] \in CompleteMark(i, Tick(ForComplete(k + 1))) THEN "complete"
                         ELSE IF cell[2] \in StartMark(i, Tick(ForStart(k + 1))) THEN "start"
                         ELSE IF cell[2] \in Bar(schedule, k + 1, Tick(ForBar(k + 1))) THEN "bar"
                         ELSE c[cell]
    BY <2>2 DEF WithItem
  <2>5. /\ \A j \in 1 .. k + 1 : j = k + 1 \/ j \in 1 .. k
        /\ \A j \in 1 .. k : j \in 1 .. k + 1
        /\ k + 1 \in 1 .. k + 1
    BY <2>1
  <2>6. ASSUME NEW cell \in Cells, cell[2] >= Border
        PROVE  /\ cell[2] \notin CompleteMark(i, Tick(ForComplete(k + 1)))
               /\ cell[2] \notin StartMark(i, Tick(ForStart(k + 1)))
               /\ cell[2] \notin Bar(schedule, k + 1, Tick(ForBar(k + 1)))
    <3>1. cell[2] \in Int /\ ~(cell[2] < Border) /\ cell[2] \notin Edge + 1 .. Border - 1
      BY <1>3, <2>6
    <3>. QED  BY <3>1, Zenon DEF CompleteMark, StartMark, Bar
  <2>7. OfItems(d, k + 1, schedule, first, advance)
    <3> DEFINE In(cell, j, columns) == cell[1] = schedule[j].row /\ cell[2] \in columns
               Bars(j) == Bar(schedule, j, Tick(ForBar(j)))
               Starts(j) == StartMark(schedule[j], Tick(ForStart(j)))
               Completes(j) == CompleteMark(schedule[j], Tick(ForComplete(j)))
               Says(b, n, cell) ==
                 /\ cell[2] >= Border => b[cell] = "blank"
                 /\ b[cell] = "bar" => \E j \in 1 .. n : In(cell, j, Bars(j))
                 /\ b[cell] = "start" => \E j \in 1 .. n : In(cell, j, Starts(j))
                 /\ b[cell] = "complete" => \E j \in 1 .. n : In(cell, j, Completes(j))
                 /\ \A j \in 1 .. n : In(cell, j, Bars(j)) => b[cell] # "blank"
    <3>1. \A b, n : OfItems(b, n, schedule, first, advance) <=> \A cell \in Cells : Says(b, n, cell)
      BY Zenon DEF OfItems
    <3>2. ASSUME NEW cell \in Cells PROVE Says(d, k + 1, cell)
      <4>1. Says(c, k, cell)
        <5>. HIDE DEF Says
        <5>. QED  BY <2>3, <3>1, Zenon
      <4>2. /\ cell[1] # schedule[k + 1].row => d[cell] = c[cell]
            /\ cell[1] = schedule[k + 1].row =>
                 d[cell] = IF cell[2] \in Completes(k + 1) THEN "complete"
                           ELSE IF cell[2] \in Starts(k + 1) THEN "start"
                           ELSE IF cell[2] \in Bars(k + 1) THEN "bar"
                           ELSE c[cell]
        BY <2>4, Zenon
      <4>3. cell[2] >= Border => /\ cell[2] \notin Completes(k + 1)
                                 /\ cell[2] \notin Starts(k + 1)
                                 /\ cell[2] \notin Bars(k + 1)
        BY <2>6, Zenon
      <4>. HIDE DEF Bars, Starts, Completes
      <4>. QED  BY <2>5, <4>1, <4>2, <4>3
    <3>. HIDE DEF Says
    <3>. QED  BY <3>1, <3>2, Zenon
  <2>. QED  BY <2>1, <2>7 DEF d
<1>6. m \in S
  <2>. HIDE DEF S
  <2>1. \A n \in 0 .. m : n \in S
    BY <1>1, <1>4, <1>5, Upward
  <2>. QED  BY <1>1, <2>1
<1>. QED  BY <1>1, <1>2, <1>6 DEF m

\* Every drawing leaves the board so, for the schedule and the ticks it was drawn with.
BoardInv ==
  /\ board \in [Cells -> Signs]
  /\ \A cell \in Cells : cell[2] >= Border => board[cell] = "blank"
  /\ draws \in Nat
  /\ draws > 0 => /\ plan \in Schedules /\ now \in DrawTicks /\ before \in 0 .. 3 * Len(plan)
                  /\ OfItems(board, Len(plan), plan, now, before)

\* An answer of current_tick() while the board is drawn.
LEMMA AnswersFit ==
  ASSUME NEW first \in DrawTicks, NEW advance \in Int, NEW read \in Int
  PROVE  /\ TickAt(read, first, advance) \in Nat
         /\ TickAt(read, first, advance) + Border * Scale < TickWords
         /\ advance >= read => TickAt(read, first, advance) = first
<1>1. first \in Nat /\ first + 1 + Border * Scale < TickWords
  BY TicksFit
<1>2. Border * Scale \in Nat /\ TickWords \in Nat
  BY DisplayAssumption
<1>. QED  BY <1>1, <1>2 DEF TickAt

\* The columns of a bar are those of the ticks at which its task is expected to run.
LEMMA BarIsRun ==
  ASSUME NEW schedule \in Schedules, NEW k \in 1 .. Len(schedule),
         NEW T \in Nat, T + Border * Scale < TickWords,
         NEW c \in Edge + 1 .. Border - 1
  PROVE  LET S == AnticipatedStart(schedule, k)
             b == schedule[k].bound
             Ticks == {T + Scale * (c - Edge) + t : t \in 0 .. Scale - 1}
         IN  /\ S \in Nat /\ b \in Nat
             /\ c \in Bar(schedule, k, T) =>
                  /\ S < T + Scale * (c - Edge) + Scale
                  /\ T + Scale * (c - Edge) + Scale <= S + b
                  /\ \E time \in Ticks : S <= time /\ time < S + b
             /\ S >= T =>
                  \A n \in 1 .. b \div Scale :
                    S + Scale * (n - 1) \in Ticks => c \in Bar(schedule, k, T)
<1> DEFINE S == AnticipatedStart(schedule, k)
           b == schedule[k].bound
           q == ColumnsAway(S, T)
           w == b \div Scale
           Ticks == {T + Scale * (c - Edge) + t : t \in 0 .. Scale - 1}
<1>1. schedule \in Seq(DisplayedItem) /\ k \in DOMAIN schedule
  BY DisplayAssumption DEF DisplayedItem
<1>2. S \in 0 .. TickWords - 1 /\ b \in Nat
  <2>1. schedule[k] \in DisplayedItem
    BY <1>1
  <2>2. b \in Nat /\ schedule[k].start \in Nat
    BY <2>1 DEF DisplayedItem
  <2>3. k - 1 \in 0 .. Len(schedule)
    BY <1>1
  <2>4. CompletionAfter(schedule)[k - 1] \in Nat
    BY <1>1, <2>3, CompletionRuns
  <2>5. S \in Nat
    BY <2>2, <2>4 DEF AnticipatedStart, Later
  <2>6. S < TickWords /\ TickWords \in Nat
    BY <1>1, TicksFit, DisplayAssumption
  <2>. HIDE DEF S, b
  <2>. QED  BY <2>2, <2>5, <2>6
<1>3. c \in Bar(schedule, k, T) <=> q + Edge <= c /\ c < q + Edge + w
  BY Zenon DEF Bar
<1>4. /\ q \in Nat
      /\ q < Border \/ S >= T => /\ S >= T
                                 /\ T + Scale * q <= S
                                 /\ S < T + Scale * q + Scale
  <2>. HIDE DEF S
  <2>. QED  BY <1>2, ColumnOfTick
<1>5. /\ Scale \in Nat \ {0} /\ Edge \in Nat /\ Border \in Nat
      /\ w \in Nat /\ Scale * w <= b
  <2>. HIDE DEF b
  <2>. QED  BY <1>2, ScaleDivides, DisplayAssumption
<1>. HIDE DEF S, b, q, w
<1>6. c \in Int /\ Edge < c /\ c < Border
  BY <1>5
<1>7. ASSUME q + Edge <= c, c < q + Edge + w
      PROVE  /\ S < T + Scale * (c - Edge) + Scale
             /\ T + Scale * (c - Edge) + Scale <= S + b
             /\ \E time \in Ticks : S <= time /\ time < S + b
  <2> DEFINE n == c - Edge - q + 1
             time == S + Scale * (n - 1)
             t == S - (T + Scale * q)
  <2>1. n \in 1 .. w /\ n - 1 \in Nat /\ c - Edge = q + (n - 1)
    BY <1>4, <1>5, <1>6, <1>7
  <2>2. q < Border
    BY <1>4, <1>5, <1>6, <1>7
  <2>. HIDE DEF n
  <2>3. Scale * q \in Int /\ Scale * (n - 1) \in Nat /\ Scale * w \in Int /\ Scale * (c - Edge) \in Int
    BY <1>4, <1>5, <1>6, <2>1
  <2>4. Scale * (c - Edge) = Scale * q + Scale * (n - 1)
    BY <1>4, <2>1, ScaleDivides
  <2>5. t \in 0 .. Scale - 1
    BY <1>2, <1>4, <1>5, <2>2, <2>3
  <2>6. time = T + Scale * (c - Edge) + t
    BY <1>2, <2>3, <2>4
  <2>7. time \in Ticks
    BY <2>5, <2>6
  <2>8. Scale * (n - 1) + Scale <= Scale * w
    <3>1. Scale * ((n - 1) + 1) <= Scale * w /\ Scale * ((n - 1) + 1) = Scale * (n - 1) + Scale * 1
      BY <1>5, <2>1, ScaleDivides
    <3>2. Scale * 1 = Scale
      BY <1>5
    <3>. QED  BY <3>1, <3>2
  <2>9. S <= time /\ time < S + b
    BY <1>2, <1>5, <2>3, <2>8
  <2>. HIDE DEF Ticks
  <2>10. /\ S < T + Scale * (c - Edge) + Scale
         /\ T + Scale * (c - Edge) + Scale <= S + b
    <3> DEFINE sn == Scale * (n - 1)
               sw == Scale * w
               sc == Scale * (c - Edge)
    <3>1. /\ sn \in Nat /\ sw \in Int /\ sc \in Int /\ sn + Scale <= sw /\ sw <= b
          /\ time = S + sn /\ time = T + sc + t /\ S <= time
      BY <1>5, <2>3, <2>6, <2>8, <2>9, Zenon
    <3>. HIDE DEF sn, sw, sc, time, t
    <3>2. S < T + sc + Scale /\ T + sc + Scale <= S + b
      BY <1>2, <1>5, <2>5, <3>1
    <3>. QED  BY <3>2, Zenon DEF sc
  <2>. QED  BY <2>7, <2>9, <2>10
<1>8. ASSUME S >= T, NEW n \in 1 .. w, S + Scale * (n - 1) \in Ticks
      PROVE  q + Edge <= c /\ c < q + Edge + w
  <2>1. PICK t \in 0 .. Scale - 1 : S + Scale * (n - 1) = T + Scale * (c - Edge) + t
    BY <1>8
  <2>2. T + Scale * q <= S /\ S < T + Scale * q + Scale
    BY <1>4, <1>8
  <2> DEFINE x == q + (n - 1)
             y == c - Edge
  <2>3. x \in Int /\ y \in Int /\ n - 1 \in Int
    BY <1>4, <1>5, <1>6
  <2>4. /\ Scale * q \in Int /\ Scale * (n - 1) \in Int /\ Scale * x \in Int /\ Scale * y \in Int
        /\ Scale * x = Scale * q + Scale * (n - 1)
    BY <1>4, <1>5, <2>3, ScaleDivides
  <2>. HIDE DEF x
  <2>5. Scale * x < Scale * y + Scale /\ Scale * y < Scale * x + Scale
    <3>1. S + Scale * (n - 1) = T + Scale * y + t
      BY <2>1
    <3>. HIDE DEF y
    <3> DEFINE sq == Scale * q
               sn == Scale * (n - 1)
               sx == Scale * x
               sy == Scale * y
    <3>2. /\ sq \in Int /\ sn \in Int /\ sx = sq + sn /\ sy \in Int
          /\ T + sq <= S /\ S < T + sq + Scale /\ S + sn = T + sy + t
      BY <2>2, <2>4, <3>1, Zenon
    <3>. HIDE DEF sq, sn, sx, sy
    <3>3. sx < sy + Scale /\ sy < sx + Scale
      BY <1>2, <1>5, <3>2
    <3>. QED  BY <3>3, Zenon DEF sx, sy
  <2>. HIDE DEF y
  <2>6. Scale * 1 = Scale /\ Scale * (y + 1) = Scale * y + Scale * 1 /\ Scale * (x + 1) = Scale * x + Scale * 1
    BY <1>5, <2>3, ScaleDivides
  <2>7. ~(y + 1 <= x) /\ ~(x + 1 <= y)
    <3>1. y + 1 <= x => Scale * (y + 1) <= Scale * x
      BY <2>3, ScaleDivides
    <3>2. x + 1 <= y => Scale * (x + 1) <= Scale * y
      BY <2>3, ScaleDivides
    <3>. QED  BY <1>5, <2>4, <2>5, <2>6, <3>1, <3>2
  <2>8. x = y
    BY <2>3, <2>7
  <2>. QED  BY <1>4, <1>5, <1>6, <2>8 DEF x, y
<1>. HIDE DEF Ticks
<1>9. /\ S \in Nat /\ b \in Nat
      /\ c \in Bar(schedule, k, T) =>
           /\ S < T + Scale * (c - Edge) + Scale
           /\ T + Scale * (c - Edge) + Scale <= S + b
           /\ \E time \in Ticks : S <= time /\ time < S + b
      /\ S >= T => \A n \in 1 .. w : S + Scale * (n - 1) \in Ticks => c \in Bar(schedule, k, T)
  <2>1. S \in Nat /\ b \in Nat
    BY <1>2
  <2>. QED  BY <1>3, <1>7, <1>8, <2>1, Zenon
<1>. QED  BY <1>9, Zenon DEF S, b, w, Ticks

\* A mark is where its item starts or has to be complete.
LEMMA MarkIsTick ==
  ASSUME NEW T \in Nat, T + Border * Scale < TickWords, NEW v \in 0 .. TickWords - 1,
         NEW away \in {1, 2}, NEW c \in Int, c = ColumnsAway(v, T) + Edge - away,
         Edge - 1 < c, c < Border
  PROVE  v \in {T + Scale * ((c + away) - Edge) + t : t \in 0 .. Scale - 1}
<1> DEFINE q == ColumnsAway(v, T)
           t == v - (T + Scale * q)
<1>1. Scale \in Nat \ {0} /\ Edge \in Nat \ {0, 1} /\ Border \in Nat
  BY DisplayAssumption
<1>2. /\ q \in Nat
      /\ q < Border \/ v >= T => T + Scale * q <= v /\ v < T + Scale * q + Scale
  BY ColumnOfTick
<1>3. c = q + Edge - away
  OBVIOUS
<1>. HIDE DEF q
<1>4. (c + away) - Edge = q /\ q < Border
  BY <1>1, <1>2, <1>3
<1>5. Scale * q \in Int
  BY <1>1, <1>2
<1>6. t \in 0 .. Scale - 1 /\ v = T + Scale * q + t
  BY <1>1, <1>2, <1>4, <1>5
<1>. HIDE DEF t
<1>. QED  BY <1>4, <1>6

\* No task is expected to be complete before one that goes ahead of it.
LEMMA CompletionsGrow ==
  ASSUME NEW schedule \in Seq(DisplayedItem),
         NEW j \in 0 .. Len(schedule), NEW k \in j .. Len(schedule)
  PROVE  CompletionAfter(schedule)[j] <= CompletionAfter(schedule)[k]
<1> DEFINE m == Len(schedule)
           C == CompletionAfter(schedule)
<1>1. m \in Nat /\ \A i \in 1 .. m : schedule[i].start \in Nat /\ schedule[i].bound \in Nat
  <2>1. m \in Nat /\ \A i \in 1 .. m : schedule[i] \in DisplayedItem
    BY LenProperties, Zenon
  <2>2. \A e \in DisplayedItem : e.start \in Nat /\ e.bound \in Nat
    BY DEF DisplayedItem
  <2>. QED  BY <2>1, <2>2, Zenon
<1>2. /\ \A n \in 0 .. m : C[n] \in Nat
      /\ \A n \in 1 .. m : C[n] = IF Displayed(schedule[n])
                                  THEN Later(schedule[n].start, C[n - 1]) + schedule[n].bound
                                  ELSE C[n - 1]
  BY CompletionRuns, Zenon
<1>3. j \in 0 .. m /\ k \in j .. m
  BY Zenon
<1>. HIDE DEF m, C
<1> DEFINE S == {n \in 0 .. m - j : C[j] <= C[j + n]}
<1>4. 0 \in S
  BY <1>1, <1>2, <1>3
<1>5. ASSUME NEW n \in 0 .. (m - j) - 1, n \in S PROVE n + 1 \in S
  <2>1. /\ j + (n + 1) \in 1 .. m /\ j + (n + 1) \in 0 .. m /\ j + n \in 0 .. m
        /\ (j + (n + 1)) - 1 = j + n /\ n + 1 \in 0 .. m - j
    BY <1>1, <1>3
  <2>2. C[j + (n + 1)] = IF Displayed(schedule[j + (n + 1)])
                         THEN Later(schedule[j + (n + 1)].start, C[(j + (n + 1)) - 1])
                                + schedule[j + (n + 1)].bound
                         ELSE C[(j + (n + 1)) - 1]
    BY <1>2, <2>1, Zenon
  <2>3. C[(j + (n + 1)) - 1] = C[j + n]
    BY <2>1, Zenon
  <2>4. C[j + n] \in Nat /\ schedule[j + (n + 1)].start \in Nat /\ schedule[j + (n + 1)].bound \in Nat
    BY <1>1, <1>2, <2>1
  <2>5. C[j + n] <= C[j + (n + 1)]
    <3>1. \A p, q, r \in Nat : q <= Later(p, q) + r
      BY DEF Later
    <3>2. C[j + (n + 1)] = C[j + n]
          \/ C[j + (n + 1)] = Later(schedule[j + (n + 1)].start, C[j + n]) + schedule[j + (n + 1)].bound
      BY <2>2, <2>3, Zenon
    <3> DEFINE p == schedule[j + (n + 1)].start
               q == C[j + n]
               r == schedule[j + (n + 1)].bound
               g == C[j + (n + 1)]
    <3>3. q \in Nat /\ (g = q \/ g = Later(p, q) + r) /\ q <= Later(p, q) + r
      BY <2>4, <3>1, <3>2, Zenon
    <3>. HIDE DEF p, q, r, g
    <3>4. q <= g
      BY <3>3
    <3>. QED  BY <3>4, Zenon DEF q, g
  <2>6. C[j] <= C[j + n] /\ C[j] \in Nat /\ C[j + n] \in Nat /\ C[j + (n + 1)] \in Nat
    BY <1>2, <1>3, <1>5, <2>1
  <2>. QED  BY <2>1, <2>5, <2>6
<1>6. k - j \in S
  <2>. HIDE DEF S
  <2> DEFINE l == m - j
  <2>0. l \in Nat
    BY <1>1, <1>3
  <2>. HIDE DEF l
  <2>1. \A n \in 0 .. l : n \in S
    <3>1. \A n \in 0 .. l - 1 : n \in S => n + 1 \in S
      BY <1>5 DEF l
    <3>. QED  BY <1>4, <2>0, <3>1, Upward
  <2>. QED  BY <1>1, <1>3, <2>1 DEF l
<1>. QED
  <2>1. C[j] <= C[j + (k - j)] /\ j + (k - j) = k
    BY <1>1, <1>3, <1>6
  <2>. QED  BY <2>1 DEF C

\* The board as draw_tasks has left it is what the property says.
LEMMA BoardShows == BoardInv => BoardShowsPlan
<1>. SUFFICES ASSUME BoardInv, draws > 0 PROVE BoardShowsPlan
  BY DEF BoardShowsPlan
<1> DEFINE m == Len(plan)
           C == CompletionAfter(plan)
           At(read) == TickAt(read, now, before)
           Bars(k) == Bar(plan, k, At(ForBar(k)))
           Starts(k) == StartMark(plan[k], At(ForStart(k)))
           Completes(k) == CompleteMark(plan[k], At(ForComplete(k)))
           Start(k) == AnticipatedStart(plan, k)
<1>1. /\ plan \in Schedules /\ now \in DrawTicks /\ before \in 0 .. 3 * m
      /\ OfItems(board, m, plan, now, before)
  BY DEF BoardInv
<1>2. /\ plan \in Seq(DisplayedItem) /\ m \in Nat /\ DOMAIN plan = 1 .. m
      /\ \A k \in 1 .. m : /\ plan[k].row \in Nat /\ plan[k].bound \in Nat
                           /\ plan[k].start \in 0 .. TickWords - 1
                           /\ plan[k].complete \in 0 .. TickWords - 1
  <2>1. plan \in Seq(DisplayedItem)
    BY <1>1, DisplayAssumption DEF DisplayedItem
  <2>2. m \in Nat /\ DOMAIN plan = 1 .. m /\ \A k \in 1 .. m : plan[k] \in DisplayedItem
    BY <2>1, LenProperties, Zenon
  <2>3. \A e \in DisplayedItem : e.row \in Nat /\ e.bound \in Nat /\ e.start \in Nat /\ e.complete \in Nat
    BY DEF DisplayedItem
  <2>4. TickWords \in Nat
    BY DisplayAssumption
  <2>5. ASSUME NEW k \in 1 .. m
        PROVE  /\ plan[k].row \in Nat /\ plan[k].bound \in Nat
               /\ plan[k].start \in 0 .. TickWords - 1
               /\ plan[k].complete \in 0 .. TickWords - 1
    <3>1. plan[k].row \in Nat /\ plan[k].bound \in Nat /\ plan[k].start \in Nat /\ plan[k].complete \in Nat
      BY <2>2, <2>3, Zenon
    <3>2. Start(k) < TickWords /\ plan[k].complete < TickWords
      BY <1>1, <2>2, TicksFit
    <3>3. k - 1 \in 0 .. m
      BY <2>2
    <3>4. C[k - 1] \in Nat
      BY <2>1, <3>3, CompletionRuns
    <3>5. plan[k].start <= Start(k) /\ Start(k) \in Nat
      BY <3>1, <3>4 DEF AnticipatedStart, Later
    <3>. HIDE DEF Start
    <3>. QED  BY <2>4, <3>1, <3>2, <3>5
  <2>. QED  BY <2>1, <2>2, <2>5
<1>. HIDE DEF m
<1>3. \A read \in Int : At(read) \in Nat /\ At(read) + Border * Scale < TickWords
                        /\ (before >= read => At(read) = now)
  BY <1>1, <1>2, AnswersFit
<1>4. ASSUME NEW k \in 1 .. m
      PROVE  ForBar(k) \in Int /\ ForStart(k) \in Int /\ ForComplete(k) \in Int
             /\ (before = 3 * m => before >= ForBar(k))
  BY <1>2 DEF ForBar, ForStart, ForComplete
<1>5. /\ DisplayRows \in Nat /\ Edge \in Nat \ {0, 1} /\ Border \in Nat /\ Scale \in Nat \ {0}
      /\ Cells = (0 .. DisplayRows - 1) \X (Edge - 1 .. Border + 1)
  BY DisplayAssumption DEF Cells
<1>6. ASSUME NEW k \in 1 .. m, plan[k].row \in 0 .. DisplayRows - 1
      PROVE  /\ Finish(k) = Start(k) + plan[k].bound
             /\ Start(k) \in Nat /\ Start(k) >= C[k - 1] /\ C[k - 1] \in Nat
             /\ Finish(k) - plan[k].bound = Start(k)
             /\ C[k] = Start(k) + plan[k].bound
  <2>1. Displayed(plan[k])
    BY <1>2, <1>5, <1>6 DEF Displayed
  <2>2. Finish(k) = C[k]
    BY <1>2, <2>1, FinishIsCompletion
  <2>3. k - 1 \in 0 .. m
    BY <1>2
  <2>4. C[k] = Later(plan[k].start, C[k - 1]) + plan[k].bound /\ C[k - 1] \in Nat
    <3>1. C[k] = IF Displayed(plan[k]) THEN Later(plan[k].start, C[k - 1]) + plan[k].bound ELSE C[k - 1]
      BY <1>2, CompletionRuns, Zenon DEF m
    <3>2. C[k - 1] \in Nat
      BY <1>2, <2>3, CompletionRuns DEF m
    <3>. HIDE DEF C
    <3>. QED  BY <2>1, <3>1, <3>2
  <2>5. Start(k) = Later(plan[k].start, C[k - 1])
    BY Zenon DEF AnticipatedStart
  <2>6. plan[k].start \in Nat /\ plan[k].bound \in Nat
    BY <1>2
  <2>. HIDE DEF C, Start
  <2>7. Start(k) \in Nat /\ Start(k) >= C[k - 1]
    BY <2>4, <2>5, <2>6 DEF Later
  <2>. QED  BY <2>2, <2>4, <2>5, <2>6, <2>7
<1>. HIDE DEF C
<1>7. ASSUME NEW cell \in Cells
      PROVE  /\ cell[2] >= Border => board[cell] = "blank"
             /\ board[cell] = "bar" => \E k \in 1 .. m : cell[1] = plan[k].row /\ cell[2] \in Bars(k)
             /\ board[cell] = "start" => \E k \in 1 .. m : cell[1] = plan[k].row /\ cell[2] \in Starts(k)
             /\ board[cell] = "complete" =>
                  \E k \in 1 .. m : cell[1] = plan[k].row /\ cell[2] \in Completes(k)
             /\ \A k \in 1 .. m : cell[1] = plan[k].row /\ cell[2] \in Bars(k) => board[cell] # "blank"
  BY <1>1, Zenon DEF OfItems
<1>8. ASSUME NEW k \in 1 .. m, NEW c \in Edge + 1 .. Border - 1
      PROVE  /\ c \in Bars(k) =>
                  /\ Start(k) < At(ForBar(k)) + Scale * (c - Edge) + Scale
                  /\ At(ForBar(k)) + Scale * (c - Edge) + Scale <= Start(k) + plan[k].bound
                  /\ \E time \in TicksOf(c, ForBar(k)) :
                       Start(k) <= time /\ time < Start(k) + plan[k].bound
             /\ Start(k) >= At(ForBar(k)) =>
                  \A n \in 1 .. plan[k].bound \div Scale :
                    Start(k) + Scale * (n - 1) \in TicksOf(c, ForBar(k)) => c \in Bars(k)
  <2>1. k \in 1 .. Len(plan) /\ At(ForBar(k)) \in Nat /\ At(ForBar(k)) + Border * Scale < TickWords
    BY <1>3, <1>4 DEF m
  <2>. HIDE DEF Start
  <2>2. TicksOf(c, ForBar(k)) = {At(ForBar(k)) + Scale * (c - Edge) + t : t \in 0 .. Scale - 1}
    BY Zenon DEF TicksOf
  <2>. HIDE DEF At
  <2>3. /\ c \in Bar(plan, k, At(ForBar(k))) =>
             /\ AnticipatedStart(plan, k) < At(ForBar(k)) + Scale * (c - Edge) + Scale
             /\ At(ForBar(k)) + Scale * (c - Edge) + Scale <= AnticipatedStart(plan, k) + plan[k].bound
             /\ \E time \in {At(ForBar(k)) + Scale * (c - Edge) + t : t \in 0 .. Scale - 1} :
                  AnticipatedStart(plan, k) <= time /\ time < AnticipatedStart(plan, k) + plan[k].bound
        /\ AnticipatedStart(plan, k) >= At(ForBar(k)) =>
             \A n \in 1 .. plan[k].bound \div Scale :
               AnticipatedStart(plan, k) + Scale * (n - 1)
                   \in {At(ForBar(k)) + Scale * (c - Edge) + t : t \in 0 .. Scale - 1}
                 => c \in Bar(plan, k, At(ForBar(k)))
    BY <1>1, <2>1, BarIsRun, Zenon
  <2>. QED  BY <2>2, <2>3, Zenon DEF Start
<1>9. \A k : Bars(k) \subseteq Edge + 1 .. Border - 1
  BY Zenon DEF Bar
<1>10. ASSUME NEW k \in 1 .. m, NEW c \in Starts(k)
       PROVE  plan[k].start \in TicksOf(c + 1, ForStart(k))
  <2> DEFINE T == At(ForStart(k))
  <2>1. T \in Nat /\ T + Border * Scale < TickWords
    BY <1>3, <1>4
  <2>2. TicksOf(c + 1, ForStart(k)) = {T + Scale * ((c + 1) - Edge) + t : t \in 0 .. Scale - 1}
    BY Zenon DEF TicksOf
  <2>. HIDE DEF T
  <2>3. c = ColumnsAway(plan[k].start, T) + Edge - 1 /\ Edge - 1 < c /\ c < Border
    BY DEF StartMark, T
  <2>4. plan[k].start \in 0 .. TickWords - 1
    BY <1>2
  <2>5. ColumnsAway(plan[k].start, T) \in Nat
    BY <2>1, <2>4, ColumnOfTick
  <2>6. c \in Int
    BY <1>5, <2>3, <2>5
  <2>. QED  BY <2>1, <2>2, <2>3, <2>4, <2>6, MarkIsTick
<1>11. ASSUME NEW k \in 1 .. m, NEW c \in Completes(k)
       PROVE  plan[k].complete \in TicksOf(c + 2, ForComplete(k))
  <2> DEFINE T == At(ForComplete(k))
  <2>1. T \in Nat /\ T + Border * Scale < TickWords
    BY <1>3, <1>4
  <2>2. TicksOf(c + 2, ForComplete(k)) = {T + Scale * ((c + 2) - Edge) + t : t \in 0 .. Scale - 1}
    BY Zenon DEF TicksOf
  <2>. HIDE DEF T
  <2>3. c = ColumnsAway(plan[k].complete, T) + Edge - 2 /\ Edge - 1 < c /\ c < Border
    BY DEF CompleteMark, T
  <2>4. plan[k].complete \in 0 .. TickWords - 1
    BY <1>2
  <2>5. ColumnsAway(plan[k].complete, T) \in Nat
    BY <2>1, <2>4, ColumnOfTick
  <2>6. c \in Int
    BY <1>5, <2>3, <2>5
  <2>. QED  BY <2>1, <2>2, <2>3, <2>4, <2>6, MarkIsTick
<1>12. ASSUME NEW j \in 1 .. m, NEW k \in 1 .. m, j < k, before = 3 * m,
              plan[j].row \in 0 .. DisplayRows - 1, plan[k].row \in 0 .. DisplayRows - 1,
              NEW c, c \in Bars(j), c \in Bars(k)
       PROVE  FALSE
  <2>1. c \in Edge + 1 .. Border - 1
    BY <1>9, <1>12
  <2>2. At(ForBar(j)) = now /\ At(ForBar(k)) = now /\ now \in Nat
    <3>1. TicksFit!1
      BY TicksFit
    <3>. QED  BY <1>1, <1>3, <1>4, <1>12, <3>1
  <2>. HIDE DEF At
  <2>3. /\ now + Scale * (c - Edge) + Scale <= Start(j) + plan[j].bound
        /\ Start(k) < now + Scale * (c - Edge) + Scale
    <3>. HIDE DEF Start, Bars
    <3>. QED  BY <1>8, <1>12, <2>1, <2>2
  <2>4. Start(j) + plan[j].bound = C[j] /\ Start(k) >= C[k - 1] /\ C[k - 1] \in Nat
        /\ Start(j) \in Nat /\ Start(k) \in Nat /\ plan[j].bound \in Nat
    BY <1>2, <1>6, <1>12
  <2>5. C[j] <= C[k - 1]
    <3>1. j \in 0 .. Len(plan) /\ k - 1 \in j .. Len(plan)
      BY <1>2, <1>12 DEF m
    <3>. QED  BY <1>2, <3>1, CompletionsGrow DEF C
  <2>6. c - Edge \in Int /\ Scale * (c - Edge) \in Int
    BY <1>5, <2>1
  <2>. HIDE DEF Start
  <2>. QED  BY <1>5, <2>2, <2>3, <2>4, <2>5, <2>6
<1>. HIDE DEF Bars, Starts, Completes
<1> DEFINE OfRow(r) == {k \in DOMAIN plan : plan[k].row = r}
<1>13. ASSUME NEW cell \in Cells
       PROVE  /\ cell[2] >= Border => board[cell] = "blank"
              /\ board[cell] = "bar" =>
                   /\ \E k \in OfRow(cell[1]) :
                        (Finish(k) - plan[k].bound .. Finish(k) - 1) \cap TicksOf(cell[2], ForBar(k)) # {}
                   /\ before = 3 * Len(plan) =>
                        \A other \in Cells : other[2] = cell[2] /\ board[other] = "bar" => other = cell
              /\ board[cell] = "start" =>
                   \E k \in OfRow(cell[1]) : plan[k].start \in TicksOf(cell[2] + 1, ForStart(k))
              /\ board[cell] = "complete" =>
                   \E k \in OfRow(cell[1]) : plan[k].complete \in TicksOf(cell[2] + 2, ForComplete(k))
              /\ (\E k \in OfRow(cell[1]) :
                    /\ Edge < cell[2] /\ cell[2] < Border
                    /\ Finish(k) - plan[k].bound >= TickAt(ForBar(k), now, before)
                    /\ \E n \in 1 .. plan[k].bound \div Scale :
                         Finish(k) - plan[k].bound + Scale * (n - 1) \in TicksOf(cell[2], ForBar(k)))
                   => board[cell] # "blank"
  <2> DEFINE c == cell[2]
  <2>1. cell[1] \in 0 .. DisplayRows - 1 /\ c \in Int
    BY <1>5
  <2>2. \A k : k \in OfRow(cell[1]) <=> k \in 1 .. m /\ plan[k].row = cell[1]
    BY <1>2
  <2>3. c >= Border => board[cell] = "blank"
    BY <1>7
  <2>4. ASSUME board[cell] = "bar"
        PROVE  \E k \in OfRow(cell[1]) :
                 (Finish(k) - plan[k].bound .. Finish(k) - 1) \cap TicksOf(c, ForBar(k)) # {}
    <3>1. PICK k \in 1 .. m : cell[1] = plan[k].row /\ c \in Bars(k)
      BY <1>7, <2>4, Zenon
    <3>2. c \in Edge + 1 .. Border - 1
      BY <1>9, <3>1, Zenon
    <3>. HIDE DEF Start, c, OfRow
    <3>3. PICK time \in TicksOf(c, ForBar(k)) : Start(k) <= time /\ time < Start(k) + plan[k].bound
      BY <1>8, <3>1, <3>2, Zenon
    <3>4. time \in Int
      <4>1. PICK t \in 0 .. Scale - 1 : time = At(ForBar(k)) + Scale * (c - Edge) + t
        BY <3>3 DEF TicksOf
      <4>2. At(ForBar(k)) \in Nat /\ Scale * (c - Edge) \in Int
        BY <1>3, <1>4, <1>5, <3>2
      <4>. HIDE DEF At
      <4>. QED  BY <1>5, <4>1, <4>2
    <3>5. Finish(k) - plan[k].bound = Start(k) /\ Finish(k) = Start(k) + plan[k].bound
          /\ Start(k) \in Nat /\ plan[k].bound \in Nat
      BY <1>2, <1>6, <2>1, <3>1
    <3>6. time \in Finish(k) - plan[k].bound .. Finish(k) - 1
      BY <3>3, <3>4, <3>5
    <3>. QED  BY <2>2, <3>1, <3>3, <3>6, Zenon
  <2>5. ASSUME board[cell] = "bar", before = 3 * Len(plan),
               NEW other \in Cells, other[2] = c, board[other] = "bar"
        PROVE  other = cell
    <3>1. PICK k \in 1 .. m : cell[1] = plan[k].row /\ c \in Bars(k)
      BY <1>7, <2>5, Zenon
    <3>2. PICK j \in 1 .. m : other[1] = plan[j].row /\ other[2] \in Bars(j)
      BY <1>7, <2>5, Zenon
    <3>3. other[1] \in 0 .. DisplayRows - 1 /\ before = 3 * m
      BY <1>5, <2>5 DEF m
    <3>4. ~(j < k) /\ ~(k < j)
      <4>1. c \in Bars(j) /\ plan[j].row \in 0 .. DisplayRows - 1 /\ plan[k].row \in 0 .. DisplayRows - 1
        BY <2>1, <2>5, <3>1, <3>2, <3>3, Zenon
      <4>. QED  BY <1>12, <3>1, <3>3, <4>1, Zenon
    <3>5. j = k
      BY <1>2, <3>4
    <3>6. other[1] = cell[1]
      BY <3>1, <3>2, <3>5
    <3>. QED  BY <1>5, <2>5, <3>6
  <2>6. ASSUME board[cell] = "start"
        PROVE  \E k \in OfRow(cell[1]) : plan[k].start \in TicksOf(c + 1, ForStart(k))
    <3>1. PICK k \in 1 .. m : cell[1] = plan[k].row /\ c \in Starts(k)
      BY <1>7, <2>6, Zenon
    <3>. QED  BY <1>10, <2>2, <3>1, Zenon
  <2>7. ASSUME board[cell] = "complete"
        PROVE  \E k \in OfRow(cell[1]) : plan[k].complete \in TicksOf(c + 2, ForComplete(k))
    <3>1. PICK k \in 1 .. m : cell[1] = plan[k].row /\ c \in Completes(k)
      BY <1>7, <2>7, Zenon
    <3>. QED  BY <1>11, <2>2, <3>1, Zenon
  <2>8. ASSUME NEW k \in OfRow(cell[1]), Edge < c, c < Border,
               Finish(k) - plan[k].bound >= TickAt(ForBar(k), now, before),
               NEW n \in 1 .. plan[k].bound \div Scale,
               Finish(k) - plan[k].bound + Scale * (n - 1) \in TicksOf(c, ForBar(k))
        PROVE  board[cell] # "blank"
    <3>1. k \in 1 .. m /\ plan[k].row = cell[1]
      BY <2>2
    <3>2. Finish(k) - plan[k].bound = Start(k)
      BY <1>6, <2>1, <3>1, Zenon
    <3>3. c \in Edge + 1 .. Border - 1
      BY <1>5, <2>1, <2>8
    <3>. HIDE DEF Start, c
    <3>4. Start(k) >= At(ForBar(k)) /\ Start(k) + Scale * (n - 1) \in TicksOf(c, ForBar(k))
      BY <2>8, <3>2, Zenon
    <3>5. c \in Bars(k)
      BY <1>8, <3>1, <3>3, <3>4, Zenon
    <3>. QED  BY <1>7, <3>1, <3>5, Zenon DEF c
  <2>. HIDE DEF OfRow
  <2>. QED  BY <2>3, <2>4, <2>5, <2>6, <2>7, <2>8, Zenon
<1>. QED  BY <1>13, Zenon DEF BoardShowsPlan

LEMMA BoardStep ==
  BoardInv /\ [DisplayNext]_display_vars => BoardInv'
<1>. SUFFICES ASSUME BoardInv, [DisplayNext]_display_vars PROVE BoardInv'
  OBVIOUS
<1>1. CASE UNCHANGED display_vars
  BY <1>1 DEF display_vars, BoardInv, OfItems
<1>2. CASE draw_tasks
  <2>1. PICK schedule \in Schedules, first \in DrawTicks :
          \E advance \in 0 .. 3 * Len(schedule) :
            /\ board' = Drawn(board, schedule, first, advance)
            /\ plan' = schedule /\ now' = first /\ before' = advance
    BY <1>2, Zenon DEF draw_tasks
  <2>2. PICK advance \in 0 .. 3 * Len(schedule) :
          /\ board' = Drawn(board, schedule, first, advance)
          /\ plan' = schedule /\ now' = first /\ before' = advance
    BY <2>1, Zenon
  <2>3. draws' \in Nat
    BY <1>2 DEF draw_tasks, BoardInv
  <2>4. schedule \in Seq(DisplayedItem)
    BY DisplayAssumption DEF DisplayedItem
  <2>5. /\ board' \in [Cells -> Signs]
        /\ OfItems(board', Len(schedule), schedule, first, advance)
    BY <2>2, <2>4, DrawnOfItems DEF BoardInv
  <2>6. \A cell \in Cells : cell[2] >= Border => board'[cell] = "blank"
    BY <2>5, Zenon DEF OfItems
  <2>. QED  BY <2>2, <2>3, <2>5, <2>6, Zenon DEF BoardInv
<1>. QED  BY <1>1, <1>2 DEF DisplayNext

\* The view shows the schedule as it is, for every schedule, scale and width of the
\* screen, however often it is drawn and whenever the tick advances meanwhile: a bar
\* is where its task is expected to run and nowhere else.
THEOREM ViewShowsSchedule == DisplaySpec => []BoardShowsPlan
<1>1. DisplayInit => BoardInv
  BY DEF DisplayInit, BoardInv, Signs
<1>. QED  BY <1>1, BoardStep, BoardShows, PTL DEF DisplaySpec

=============================================================================
