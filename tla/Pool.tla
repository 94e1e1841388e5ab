--------------------------------- MODULE Pool ---------------------------------
(***************************************************************************)
(* neuro::mem::Pool (src/include/neuro/mem/pool.hpp): equal blocks, the    *)
(* free ones linked through their own memory.  A block in use is its       *)
(* owner's to write, so that its link holds anything.  Blocks are numbered *)
(* from 1 and 0 is the null pointer.  create and destroy allocate and      *)
(* deallocate around a constructor; if that one throws, create returns     *)
(* nothing and does not deallocate, so that the block stays in use with no *)
(* owner to return it: an Allocate whose Deallocate never comes.           *)
(***************************************************************************)
EXTENDS Naturals, FiniteSets

CONSTANT N

VARIABLES
  head,      \* head_
  link,      \* the pointer in each block
  inUse,     \* in_use_
  high,      \* high_water_
  owned,     \* history: the blocks handed out
  most       \* history: the most that were handed out at a time

vars == <<head, link, inUse, high, owned, most>>

Blocks == 1..N

\* The constructor links every block to the one before it.
Init ==
  /\ head = N
  /\ link = [b \in Blocks |-> b - 1]
  /\ inUse = 0 /\ high = 0
  /\ owned = {} /\ most = 0

\* Slip: the head stays on a block that is handed out last.
Allocate_LastTwice ==
  /\ head # 0
  /\ head' = IF link[head] = 0 THEN head ELSE link[head]
  /\ inUse' = inUse + 1
  /\ high' = IF inUse' > high THEN inUse' ELSE high
  /\ owned' = owned \cup {head}
  /\ most' = IF Cardinality(owned') > most THEN Cardinality(owned') ELSE most
  /\ UNCHANGED link

Allocate ==
  /\ head # 0
  /\ head' = link[head]
  /\ inUse' = inUse + 1
  /\ high' = IF inUse' > high THEN inUse' ELSE high
  /\ owned' = owned \cup {head}
  /\ most' = IF Cardinality(owned') > most THEN Cardinality(owned') ELSE most
  /\ UNCHANGED link

AllocateFails == head = 0 /\ UNCHANGED vars

\* Only of a block in use: anything else is undefined, as the comment says.
Deallocate(b) ==
  /\ b \in owned
  /\ link' = [link EXCEPT ![b] = head]
  /\ head' = b
  /\ inUse' = inUse - 1
  /\ owned' = owned \ {b}
  /\ UNCHANGED <<high, most>>

\* The owner of a block writes into it.
Scribble(b, v) ==
  /\ b \in owned
  /\ link' = [link EXCEPT ![b] = v]
  /\ UNCHANGED <<head, inUse, high, owned, most>>

Next ==
  \/ Allocate \/ AllocateFails
  \/ \E b \in Blocks : Deallocate(b) \/ \E v \in Blocks \cup {0} : Scribble(b, v)

Spec == Init /\ [][Next]_vars

-----------------------------------------------------------------------------
\* The first n blocks of the free list.
FreeAfter(n) ==
  LET walk[k \in 0..n] == IF k = 0 THEN head ELSE IF walk[k - 1] = 0 THEN 0 ELSE link[walk[k - 1]]
  IN  {walk[k] : k \in 0..n} \ {0}

\* Whatever owners write into their blocks and in whatever order they return them, the
\* free list is exactly the blocks nobody owns, and the counters count them.
FreeIsTheRest ==
  /\ FreeAfter(N) = Blocks \ owned
  /\ inUse = Cardinality(owned) /\ high = most
=============================================================================
