----------------------------- MODULE RingIndex -----------------------------
(***************************************************************************)
(* The index arithmetic of CircularQueueMPMC (RingBuffer.hpp), on words of *)
(* Width bits.  Its member Capacity is never initialised, so the mask      *)
(* Capacity - 1 may be any word of the machine.                            *)
(***************************************************************************)
EXTENDS Integers, FiniteSetsExt, Bitwise

CONSTANT Width     \* the bits of size_t: 64 in the program

Word == 0 .. 2^Width - 1
Wrapped(n) == n % 2^Width

\* next = (current + 1) & (Capacity - 1)
NextIndex(capacity, i) == Wrapped(i + 1) & Wrapped(capacity - 1)

\* The power of two that ends the word, which is the whole range when it is 0:
\* the number of indices that NextIndex goes through from 0.
LowestBit(c) == Max({p \in {2^k : k \in 0 .. Width} : c % p = 0})
=============================================================================
