------------------------------- MODULE Blocks -------------------------------
(***************************************************************************)
(* Calls of the memory functions, on blocks that lie anywhere in a memory. *)
(***************************************************************************)
EXTENDS Memory, FiniteSetsExt

CONSTANTS
  MemorySize,  \* how many bytes there are
  MaxBlocks    \* bound: the calls

ASSUME BlocksAssumption == MemorySize \in Nat \ {0} /\ MaxBlocks \in Nat

VARIABLES
  bytes,       \* the memory
  intended,    \* history: what should be in it
  order_found, \* what the last comparison answered
  true_order,  \* history: what it should have answered
  uses         \* how many calls there were

blocks_vars == <<bytes, intended, order_found, true_order, uses>>

Addresses == 0 .. MemorySize - 1

BlocksInit ==
  /\ bytes = [a \in Addresses |-> a]
  /\ intended = bytes
  /\ order_found = 0 /\ true_order = 0
  /\ uses = 0

Inside(a, size) == a + size <= MemorySize
Use == uses < MaxBlocks /\ uses' = uses + 1

Sets(dst, size) ==
  /\ Use /\ Inside(dst, size)
  /\ bytes' = mem_set(bytes, dst, 0, size)
  /\ intended' = [a \in Addresses |-> IF a \in dst .. dst + size - 1 THEN 0 ELSE intended[a]]
  /\ UNCHANGED <<order_found, true_order>>

\* The functions that know the sizes refuse what does not fit.
Moves(dst, dst_size, src, src_size) ==
  /\ Use /\ Inside(dst, dst_size) /\ Inside(src, src_size)
  /\ bytes' = IF dst_size = src_size THEN mem_move(bytes, dst, src, src_size)
              ELSE bounded_move(bytes, dst, dst_size, src, src_size)
  /\ intended' = IF dst_size < src_size THEN intended ELSE Moved(intended, dst, src, src_size)
  /\ UNCHANGED <<order_found, true_order>>

\* Blocks that are swapped do not overlap, or are the same one.
Swaps(first, first_size, second, second_size) ==
  /\ Use /\ Inside(first, first_size) /\ Inside(second, second_size)
  /\ first = second \/ first + first_size <= second \/ second + second_size <= first
  /\ bytes' = IF first_size = second_size THEN mem_swap(bytes, first, second, first_size)
              ELSE bounded_swap(bytes, first, first_size, second, second_size)
  /\ intended' = IF first_size # second_size THEN intended
                 ELSE [a \in Addresses |->
                         CASE a \in first .. first + first_size - 1 -> intended[a - first + second]
                           [] a \in second .. second + second_size - 1 -> intended[a - second + first]
                           [] OTHER -> intended[a]]
  /\ UNCHANGED <<order_found, true_order>>

\* The first difference decides, and then the length.
Lexicographic(m, dst, dst_size, src, src_size) ==
  LET Less(a, m_size, b, n_size) ==
        \E k \in 0 .. m_size :
          /\ \A i \in 0 .. k - 1 : i < n_size /\ m[a + i] = m[b + i]
          /\ k < n_size /\ (k = m_size \/ m[a + k] < m[b + k])
  IN  IF Less(dst, dst_size, src, src_size) THEN -1
      ELSE IF Less(src, src_size, dst, dst_size) THEN 1 ELSE 0

\* At one address, blocks count as equal whatever their sizes are.
Compares(dst, dst_size, src, src_size) ==
  /\ Use /\ Inside(dst, dst_size) /\ Inside(src, src_size)
  /\ dst # src \/ dst_size = src_size
  /\ order_found' = IF dst_size = src_size THEN mem_cmp(bytes, dst, src, src_size)
                    ELSE bounded_cmp(bytes, dst, dst_size, src, src_size)
  /\ true_order' = Lexicographic(intended, dst, dst_size, src, src_size)
  /\ UNCHANGED <<bytes, intended>>

BlocksNext ==
  \E first, second \in Addresses : \E first_size, second_size \in 0 .. MemorySize :
    \/ Sets(first, first_size)
    \/ Moves(first, first_size, second, second_size)
    \/ Swaps(first, first_size, second, second_size)
    \/ Compares(first, first_size, second, second_size)

BlocksSpec == BlocksInit /\ [][BlocksNext]_blocks_vars

-----------------------------------------------------------------------------
\* A block arrives where it is moved as it was, also where it overlaps its
\* place, blocks that are swapped are exchanged, nothing else changes and
\* nothing is done to blocks that do not fit; a comparison goes by the first
\* difference, and by the length where there is none (memory.cpp:39, 59, 122).
BlocksArrive == bytes = intended /\ order_found = true_order
=============================================================================
