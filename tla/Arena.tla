-------------------------------- MODULE Arena --------------------------------
(***************************************************************************)
(* neuro::mem::Arena (src/include/neuro/mem/arena.hpp): a bump allocator   *)
(* with checkpoints.  Addresses are numbers below Word, at which their sums*)
(* wrap around; what a caller may still use is a history, as the arena     *)
(* itself keeps nothing but its cursor.                                    *)
(***************************************************************************)
EXTENDS Naturals

CONSTANTS
  Word,          \* 2^64, the number of addresses
  Base,          \* the address of the arena's first byte
  Bytes,         \* size_
  Alignments,    \* powers of two
  Lengths,       \* the lengths asked for
  MaxEvents      \* bound: allocations and checkpoints in a behaviour

VARIABLES
  cursor,    \* cursor_
  blocks,    \* history: the blocks nobody has released, with when they were allocated
  marks,     \* history: the checkpoints taken, with when
  events     \* history: allocations and checkpoints so far

vars == <<cursor, blocks, marks, events>>

End == Base + Bytes

Init ==
  /\ cursor = Base
  /\ blocks = {}
  /\ marks = {}
  /\ events = 0

Wrapped(x) == x % Word

Aligned(a, align) == (Wrapped(a + align - 1) \div align) * align

Count == events < MaxEvents /\ events' = events + 1

\* allocate, make and reserve.
Allocate(n, align) ==
  LET at == Aligned(cursor, align)
      next == Wrapped(at + n)
  IN
    /\ Count
    /\ next <= End
    /\ cursor' = next
    /\ blocks' = blocks \cup {[at |-> at, len |-> n, align |-> align, born |-> events]}
    /\ UNCHANGED marks

AllocateThrows(n, align) ==
  /\ Wrapped(Aligned(cursor, align) + n) > End
  /\ UNCHANGED vars

Save ==
  /\ Count
  /\ marks' = marks \cup {[offset |-> cursor - Base, taken |-> events]}
  /\ UNCHANGED <<cursor, blocks>>

\* What was allocated after the checkpoint is released; the cursor only moves back.
ResetTo(mark) ==
  /\ cursor' = IF Base + mark.offset < cursor THEN Base + mark.offset ELSE cursor
  /\ blocks' = {b \in blocks : b.born < mark.taken}
  /\ UNCHANGED <<marks, events>>

Reset ==
  /\ cursor' = Base
  /\ blocks' = {}
  /\ UNCHANGED <<marks, events>>

Next ==
  \/ \E n \in Lengths, align \in Alignments : Allocate(n, align) \/ AllocateThrows(n, align)
  \/ Save
  \/ \E mark \in marks : ResetTo(mark)
  \/ Reset

Spec == Init /\ [][Next]_vars

-----------------------------------------------------------------------------
\* Of lengths with which no sum wraps around (allocate checks for none): however
\* checkpoints are taken, kept and gone back to, out of order or twice, the blocks nobody
\* has released lie in the arena below the cursor, as aligned as they were asked for, and
\* no two of them share a byte.
BlocksApart ==
  /\ \A b \in blocks : b.at >= Base /\ b.at + b.len <= cursor /\ b.at % b.align = 0
  /\ \A b, c \in blocks : b # c => b.at + b.len <= c.at \/ c.at + c.len <= b.at
=============================================================================
