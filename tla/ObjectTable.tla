----------------------------- MODULE ObjectTable -----------------------------
(***************************************************************************)
(* neuro::core::ObjectTable over KObjects (src/include/neuro/core/         *)
(* object_table.hpp, kobject.hpp).  Every operation of the table is one    *)
(* critical section; retire is the object's own atomic, and the table      *)
(* learns of it at the next refresh or insert.  An id is given to an object*)
(* by the global counter or by whoever makes the object, so that objects   *)
(* may share one.                                                          *)
(***************************************************************************)
EXTENDS Naturals, FiniteSets

CONSTANTS
  N,                \* the number of slots
  Objects,
  Ids,              \* values of KObject::id_
  MaxGeneration     \* bound: retirements of an object

VARIABLES
  idOf,          \* KObject::id_ of each object, for good
  generation,    \* KObject::generation_ of each object
  slots,         \* slots_: id, generation, ptr and whether present
  count,         \* count_
  stored,        \* history: of each id the object inserted last, unless removed, as a set
  dead           \* history: the objects with generations the table was told are past

vars == <<idOf, generation, slots, count, stored, dead>>

Slots == 0..(N - 1)
Null == "null"

Init ==
  /\ idOf \in [Objects -> Ids]
  /\ generation = [o \in Objects |-> 0]
  /\ slots = [i \in Slots |-> [id |-> 0, generation |-> 0, ptr |-> Null, present |-> FALSE]]
  /\ count = 0
  /\ stored = [id \in Ids |-> {}]
  /\ dead = {}

Probe(id) == id % N

ValidFor(s, id, g) == s.present /\ s.id = id /\ s.generation = g

Holds(id) == slots[Probe(id)].present /\ slots[Probe(id)].id = id

Past(o) == {<<o, g>> : g \in 0..(generation[o] - 1)}

\* A slot taken by another id refuses, there being no second probe; an object of the same
\* id is replaced.
Insert(o) ==
  LET id == idOf[o]
      s == slots[Probe(id)]
  IN  /\ ~(s.present /\ s.id # id)
      /\ slots' = [slots EXCEPT ![Probe(id)] =
                      [id |-> id, generation |-> generation[o], ptr |-> o, present |-> TRUE]]
      /\ count' = IF s.present THEN count ELSE count + 1
      /\ stored' = [stored EXCEPT ![id] = {o}]
      /\ dead' = dead \cup Past(o)
      /\ UNCHANGED <<idOf, generation>>

Refresh(id) ==
  LET o == slots[Probe(id)].ptr IN
    /\ Holds(id)
    /\ slots' = [slots EXCEPT ![Probe(id)].generation = generation[o]]
    /\ dead' = dead \cup Past(o)
    /\ UNCHANGED <<idOf, generation, count, stored>>

\* The slot keeps its id and generation.
Remove(id) ==
  /\ Holds(id)
  /\ slots' = [slots EXCEPT ![Probe(id)].present = FALSE, ![Probe(id)].ptr = Null]
  /\ count' = count - 1
  /\ stored' = [stored EXCEPT ![id] = {}]
  /\ UNCHANGED <<idOf, generation, dead>>

Retire(o) ==
  /\ generation[o] < MaxGeneration
  /\ generation' = [generation EXCEPT ![o] = @ + 1]
  /\ UNCHANGED <<idOf, slots, count, stored, dead>>

Next ==
  \/ \E o \in Objects : Insert(o) \/ Retire(o)
  \/ \E id \in Ids : Refresh(id) \/ Remove(id)

Spec == Init /\ [][Next]_vars

-----------------------------------------------------------------------------
\* lookup and lookup_any_generation: the object found, as a set.
Lookup(id, g) == {s.ptr : s \in {t \in {slots[Probe(id)]} : ValidFor(t, id, g)}}
LookupAnyGeneration(id) == {s.ptr : s \in {t \in {slots[Probe(id)]} : t.present /\ t.id = id}}

\* Through inserts, refusals, replacements, retirements and removals, of objects that
\* share ids and slots: an id finds the object inserted for it last, until it is removed;
\* an object is never found again by a generation that the table was told is past for it;
\* and the count is that of the slots used.
TableIsTheMap ==
  /\ \A id \in Ids : LookupAnyGeneration(id) = stored[id]
  /\ \A d \in dead : d[1] \notin Lookup(idOf[d[1]], d[2])
  /\ count = Cardinality({i \in Slots : slots[i].present})
=============================================================================
