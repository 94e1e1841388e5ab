---------------------------- MODULE DeadlineQueue ----------------------------
(***************************************************************************)
(* neuro::sched::DeadlineQueue (src/include/neuro/sched/deadline.hpp): a   *)
(* binary heap in a vector, ordered by deadline and then by the number of  *)
(* the push.  Indices are from 1, so that the children of i are 2i and     *)
(* 2i + 1.  The values are left out: an entry is known by its number.      *)
(***************************************************************************)
EXTENDS Naturals, Sequences

CONSTANTS
  MaxTime,      \* bound: deadlines and the clock
  MaxPushes     \* bound: pushes in a behaviour

VARIABLES
  heap,       \* entries_
  nextSeq,    \* next_seq_
  now         \* clock::now()

vars == <<heap, nextSeq, now>>

Init == heap = << >> /\ nextSeq = 0 /\ now = 0

\* Slip: ties are left to the heap.
Higher_NoTie(x, y) == x.deadline < y.deadline

Higher(x, y) == x.deadline < y.deadline \/ (x.deadline = y.deadline /\ x.seq < y.seq)

Swap(es, i, j) == [es EXCEPT ![i] = es[j], ![j] = es[i]]

\* One turn of each loop: z is the entries and the index in it.
Raised(z) ==
  LET parent == z.at \div 2 IN
    IF z.at > 1 /\ Higher(z.es[z.at], z.es[parent])
    THEN [es |-> Swap(z.es, z.at, parent), at |-> parent]
    ELSE z

SmallerChild(z) ==
  LET left == 2 * z.at IN
    IF left < Len(z.es) /\ Higher(z.es[left + 1], z.es[left]) THEN left + 1 ELSE left

Lowered(z) ==
  LET child == SmallerChild(z) IN
    IF 2 * z.at <= Len(z.es) /\ Higher(z.es[child], z.es[z.at])
    THEN [es |-> Swap(z.es, z.at, child), at |-> child]
    ELSE z

\* The loops end before they have made as many turns as there are entries, and further
\* turns change nothing.
SiftUp(es, i) ==
  LET turns[k \in 0..Len(es)] ==
        IF k = 0 THEN [es |-> es, at |-> i] ELSE Raised(turns[k - 1])
  IN  turns[Len(es)].es

SiftDown(es, i) ==
  LET turns[k \in 0..Len(es)] ==
        IF k = 0 THEN [es |-> es, at |-> i] ELSE Lowered(turns[k - 1])
  IN  turns[Len(es)].es

Push(d) ==
  /\ nextSeq < MaxPushes
  /\ heap' = SiftUp(Append(heap, [deadline |-> d, seq |-> nextSeq]), Len(heap) + 1)
  /\ nextSeq' = nextSeq + 1
  /\ UNCHANGED now

\* The last entry takes the place of the first and sinks.
Remove ==
  LET n == Len(heap)
      moved == SubSeq([heap EXCEPT ![1] = heap[n]], 1, n - 1)
  IN  heap' = IF n = 1 THEN << >> ELSE SiftDown(moved, 1)

Pop == heap # << >> /\ Remove /\ UNCHANGED <<nextSeq, now>>

TryPop == heap # << >> /\ heap[1].deadline <= now /\ Remove /\ UNCHANGED <<nextSeq, now>>

Clear == heap' = << >> /\ UNCHANGED <<nextSeq, now>>

Tick == now < MaxTime /\ now' = now + 1 /\ UNCHANGED <<heap, nextSeq>>

Next == (\E d \in 0..MaxTime : Push(d)) \/ Pop \/ TryPop \/ Clear \/ Tick

Spec == Init /\ [][Next]_vars

-----------------------------------------------------------------------------
Pending == {heap[i] : i \in 1..Len(heap)}

\* What next_deadline shows and pop takes is the first of all entries pending, by
\* deadline and, among equal deadlines, in the order they were pushed.
EarliestFirst ==
  heap # << >> => \A e \in Pending : e = heap[1] \/ Higher(heap[1], e)
=============================================================================
