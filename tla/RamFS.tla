-------------------------------- MODULE RamFS --------------------------------
(***************************************************************************)
(* neuro::fs::RamFS (src/include/neuro/fs/ramfs.hpp, src/src/fs/ramfs.cpp):*)
(* files under a byte budget, where a charged write evicts the files least *)
(* recently accessed.  Every operation of the file system is one critical  *)
(* section; the VNodes it hands out are written and truncated behind its   *)
(* back.  Of a file's contents only the length is kept.                    *)
(***************************************************************************)
EXTENDS Naturals, FiniteSetsExt

CONSTANTS
  Paths,
  Capacity,      \* byte_capacity_; 0 is unbounded
  MaxLength,     \* bound: offsets and lengths of a write
  MaxTicks,      \* bound: accesses in a behaviour
  NodeWrites     \* whether clients write through VNodes as well

VARIABLES
  size,      \* nodes_: the length of each file there is
  last,      \* RamVNode::last_access_
  used,      \* bytes_used_
  tick,      \* tick_
  earlier    \* history: the pairs of files, the first of them accessed before the second

vars == <<size, last, used, tick, earlier>>

Files == DOMAIN size

Init ==
  /\ size = << >>
  /\ last = << >>
  /\ used = 0
  /\ tick = 1
  /\ earlier = {}

Monus(a, b) == IF a < b THEN 0 ELSE a - b

Larger(a, b) == IF a < b THEN b ELSE a

Total(F) == FoldSet(LAMBDA p, sum : size[p] + sum, 0, F)

Only(f, F) == [p \in F |-> f[p]]

Put(f, p, v) == [q \in DOMAIN f \cup {p} |-> IF q = p THEN v ELSE f[q]]

Among(F) == earlier \cap (F \X F)

\* The files F remain, and p among them is accessed now.
Touch(F, p) ==
  /\ tick <= MaxTicks
  /\ last' = Put(Only(last, F \cap Files), p, tick)
  /\ tick' = tick + 1
  /\ earlier' = Among(F \ {p}) \cup ((F \ {p}) \X {p})

-----------------------------------------------------------------------------
(* lookup and open.                                                        *)

\* Slip: a lookup does not count as an access.
Lookup_Untouched(p) ==
  /\ p \in Files
  /\ tick <= MaxTicks
  /\ tick' = tick + 1
  /\ earlier' = Among(Files \ {p}) \cup ((Files \ {p}) \X {p})
  /\ UNCHANGED <<size, last, used>>

Lookup(p) ==
  /\ p \in Files
  /\ Touch(Files, p)
  /\ UNCHANGED <<size, used>>

\* An existing file: Exclusive is refused, with Create or without; Truncate gives
\* back the bytes the file has, were they charged or not.
OpenExisting(p, flags) ==
  /\ p \in Files /\ "Exclusive" \notin flags
  /\ IF "Truncate" \in flags
     THEN size' = [size EXCEPT ![p] = 0] /\ used' = Monus(used, size[p])
     ELSE UNCHANGED <<size, used>>
  /\ Touch(Files, p)

OpenNew(p, flags) ==
  /\ p \notin Files /\ "Create" \in flags
  /\ size' = Put(size, p, 0)
  /\ Touch(Files \cup {p}, p)
  /\ UNCHANGED used

-----------------------------------------------------------------------------
(* write_charging, with reserve_locked and evict_oldest_locked.            *)

\* Slip: the new bytes are not counted in.
Fits_BeforeTheWrite(E, delta) == Capacity = 0 \/ Monus(used, Total(E)) <= Capacity

Fits(E, delta) == Capacity = 0 \/ Monus(used, Total(E)) + delta <= Capacity

\* E are the oldest files, as the stamps have it.
Oldest(E) == \A p \in E, q \in Files \ E : last[p] < last[q]

\* The loop of reserve_locked evicts the oldest file until delta fits or none is left.
Victims(delta) ==
  CHOOSE E \in SUBSET Files :
    /\ Oldest(E)
    /\ Fits(E, delta) \/ E = Files
    /\ \A D \in SUBSET E : D # E /\ Oldest(D) => ~Fits(D, delta)

Growth(p, offset, n) == Larger(size[p], offset + n) - size[p]

Evicted(p, offset, n) ==
  LET delta == Growth(p, offset, n) IN IF delta = 0 THEN {} ELSE Victims(delta)

\* OutOfMemory: by then every file has been evicted.
WriteNoRoom(p, offset, n) ==
  LET delta == Growth(p, offset, n) IN
    /\ delta > 0
    /\ ~Fits(Evicted(p, offset, n), delta)
    /\ size' = << >> /\ last' = << >> /\ earlier' = {}
    /\ used' = Monus(used, Total(Files))
    /\ UNCHANGED tick

\* An offset past the end: the rollback takes off a delta that was never added.
WriteFails(p, offset, n) ==
  LET delta == Growth(p, offset, n)
      F == Files \ Evicted(p, offset, n)
  IN  /\ p \in F /\ offset > size[p] /\ Fits(Files \ F, delta)
      /\ size' = Only(size, F) /\ last' = Only(last, F)
      /\ earlier' = Among(F)
      /\ used' = Monus(Monus(used, Total(Files \ F)), delta)
      /\ UNCHANGED tick

WriteSucceeds(p, offset, n) ==
  LET delta == Growth(p, offset, n)
      F == Files \ Evicted(p, offset, n)
  IN  /\ p \in F /\ offset <= size[p]
      /\ delta > 0 => Fits(Files \ F, delta)
      /\ size' = Only([size EXCEPT ![p] = @ + delta], F)
      /\ used' = Monus(used, Total(Files \ F)) + delta
      /\ Touch(F, p)

\* The file written to was itself evicted, and its freed node is used all the same.
\* The write to it may seem to succeed or to fail; the file is gone either way.
WriteDangling(p, offset, n) ==
  LET delta == Growth(p, offset, n)
      F == Files \ Evicted(p, offset, n)
      left == Monus(used, Total(Files \ F))
  IN  /\ p \in Files \ F /\ Fits(Files \ F, delta)
      /\ size' = Only(size, F) /\ last' = Only(last, F)
      /\ earlier' = Among(F)
      /\ \/ used' = left + delta /\ tick <= MaxTicks /\ tick' = tick + 1
         \/ used' = Monus(left, delta) /\ UNCHANGED tick

WriteCharging(p, offset, n) ==
  /\ p \in Files
  /\ \/ WriteNoRoom(p, offset, n)
     \/ WriteFails(p, offset, n)
     \/ WriteSucceeds(p, offset, n)
     \/ WriteDangling(p, offset, n)

Clear ==
  /\ size' = << >> /\ last' = << >> /\ earlier' = {}
  /\ used' = 0
  /\ UNCHANGED tick

-----------------------------------------------------------------------------
(* RamVNode::write and truncate: neither charged nor an access, and no more*)
(* is RamVNode::read, which changes nothing.                               *)

NodeWrite(p, offset, n) ==
  /\ NodeWrites /\ p \in Files
  /\ offset <= size[p] /\ n > 0
  /\ size' = [size EXCEPT ![p] = Larger(@, offset + n)]
  /\ UNCHANGED <<last, used, tick, earlier>>

NodeTruncate(p, n) ==
  /\ NodeWrites /\ p \in Files
  /\ n < size[p]
  /\ size' = [size EXCEPT ![p] = n]
  /\ UNCHANGED <<last, used, tick, earlier>>

Next ==
  \/ \E p \in Paths :
       \/ Lookup(p)
       \/ \E flags \in SUBSET {"Create", "Truncate", "Exclusive"} :
            OpenExisting(p, flags) \/ OpenNew(p, flags)
       \/ \E offset, n \in 0..MaxLength : WriteCharging(p, offset, n) \/ NodeWrite(p, offset, n)
       \/ \E n \in 0..MaxLength : NodeTruncate(p, n)
  \/ Clear

Spec == Init /\ [][Next]_vars

-----------------------------------------------------------------------------
(* Properties.                                                             *)

\* Whatever is charged, evicted, truncated, rolled back or written to a node that is
\* gone, bytes_used never exceeds the capacity the file system was given.
UsedWithinBudget == Capacity > 0 => used <= Capacity

\* Eviction takes the least recently accessed first, accesses being what the code counts
\* as one: a lookup, an open (one that truncates too) and a charged write that succeeds,
\* but nothing that is done through a VNode.  A file survives a step only if every file
\* accessed after it does, whatever the stamps say.
EvictionTakesOldest ==
  [][\A e \in earlier : e[1] \in DOMAIN size' => e[2] \in DOMAIN size']_vars

\* What the comment on bytes_used() says: the total bytes stored across all files.
UsedIsTotal == used = Total(Files)
=============================================================================
