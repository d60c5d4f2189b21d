------------------------------- MODULE Memory -------------------------------
(***************************************************************************)
(* The memory functions of src/src/runtime/memory.cpp.  A memory is a      *)
(* function from addresses to bytes; a block of it is the address it       *)
(* starts at and its length.                                               *)
(***************************************************************************)
EXTENDS Integers, Sequences, SequencesExt

\* set[n] is the memory when n bytes have been set.
mem_set(memory, dst, val, len) ==
  LET set[n \in 0 .. len] == IF n = 0 THEN memory ELSE [set[n - 1] EXCEPT ![dst + n - 1] = val]
  IN  set[len]

\* One byte is copied.
CopyByte(memory, to, from) == [memory EXCEPT ![to] = memory[from]]

\* The block is copied from the front, or from its end.
CopyUp(memory, dst, src, len) ==
  LET up[n \in 0 .. len] ==
        IF n = 0 THEN memory ELSE CopyByte(up[n - 1], dst + n - 1, src + n - 1)
  IN  up[len]
CopyDown(memory, dst, src, len) ==
  LET down[n \in 0 .. len] ==
        IF n = 0 THEN memory ELSE CopyByte(down[n - 1], dst + len - n, src + len - n)
  IN  down[len]

\* A faulty mem_move that always copies from the front.
mem_move_ascending(memory, dst, src, len) == CopyUp(memory, dst, src, len)

\* The end to start at depends on which way the blocks overlap.
mem_move(memory, dst, src, len) ==
  IF dst < src THEN CopyUp(memory, dst, src, len) ELSE CopyDown(memory, dst, src, len)

\* The comparison of one byte after another, 0 where none differs.
Differing(memory, dst, src, len) == {i \in 0 .. len - 1 : memory[dst + i] # memory[src + i]}

mem_cmp(memory, dst, src, len) ==
  LET differ == Differing(memory, dst, src, len)
  IN  IF dst = src \/ differ = {} THEN 0
      ELSE LET i == CHOOSE k \in differ : \A j \in differ : k <= j
           IN  IF memory[dst + i] < memory[src + i] THEN -1 ELSE 1

SwapBytes(memory, a, b) == [memory EXCEPT ![a] = memory[b], ![b] = memory[a]]

mem_swap(memory, first, second, len) ==
  LET swapped[n \in 0 .. len] ==
        IF n = 0 THEN memory ELSE SwapBytes(swapped[n - 1], first + n - 1, second + n - 1)
  IN  swapped[len]

\* The functions that know the sizes: a block that does not fit is not moved,
\* blocks of two sizes are not swapped, and of two blocks that agree as far as
\* both go the shorter one is less.
bounded_move(memory, dst, dst_size, src, src_size) ==
  IF dst_size < src_size THEN memory ELSE mem_move(memory, dst, src, src_size)

bounded_swap(memory, first, first_size, second, second_size) ==
  IF first_size # second_size THEN memory ELSE mem_swap(memory, first, second, first_size)

bounded_cmp(memory, dst, dst_size, src, src_size) ==
  LET common == mem_cmp(memory, dst, src, IF dst_size < src_size THEN dst_size ELSE src_size)
  IN  IF dst = src THEN 0
      ELSE IF common # 0 THEN common
      ELSE IF dst_size < src_size THEN -1
      ELSE IF dst_size > src_size THEN 1 ELSE 0

-----------------------------------------------------------------------------
\* What a move promises: the block arrives as it was, and nothing else changes.
Moved(memory, dst, src, len) ==
  [a \in DOMAIN memory |-> IF a \in dst .. dst + len - 1 THEN memory[a - dst + src] ELSE memory[a]]
=============================================================================
