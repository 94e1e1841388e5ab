------------------------------- MODULE CapTrie -------------------------------
(***************************************************************************)
(* The radix trie of neuro::sec::CapabilitySpace (src/include/neuro/sec/   *)
(* cap_space.hpp), which CapOps takes for the function it stands for.  A   *)
(* node is the sequence of nibbles that leads to it, least significant     *)
(* first; the terminal nodes, at full depth, hold the capabilities.        *)
(***************************************************************************)
EXTENDS Naturals, Sequences, FiniteSets, FiniteSetsExt, Functions

CONSTANTS
  Radix,        \* kRadixSize
  Depth,        \* kMaxDepth
  Caps

VARIABLES
  nodes,         \* the nodes allocated; the root is the empty sequence
  value,         \* Node::value_ of the terminal nodes, taken or not
  full,          \* the terminal nodes that has_value_
  size,          \* size_
  nodeCount,     \* node_count_
  nextHandle,    \* next_handle_
  bound          \* history: what each handle in use was bound to

vars == <<nodes, value, full, size, nodeCount, nextHandle, bound>>

\* What the nibble at a depth counts for.
Weight[d \in 0..Depth] == IF d = 0 THEN 1 ELSE Radix * Weight[d - 1]

HandleModulus == Weight[Depth]

Handles == 0..(HandleModulus - 1)

Init ==
  /\ nodes = {} /\ value = << >> /\ full = {}
  /\ size = 0 /\ nodeCount = 1 /\ nextHandle = 1
  /\ bound = << >>

Nibble(h, depth) == (h \div Weight[depth]) % Radix

\* The node at a depth on the path of a handle.
On(h, depth) == [d \in 1..depth |-> Nibble(h, d - 1)]

Path(h) == {On(h, depth) : depth \in 0..Depth}

HandleInUse(h) == On(h, Depth) \in nodes /\ On(h, Depth) \in full

\* lookup asks for the node alone, not whether it has a value.
Lookup(h) == IF h # 0 /\ On(h, Depth) \in nodes THEN {value[On(h, Depth)]} ELSE {}

\* The attempts of mint_handle that succeed, as in CapOps.
Attempts ==
  {k \in 0..(HandleModulus - 2) :
     LET h == (nextHandle + k) % HandleModulus IN h # 0 /\ ~HandleInUse(h)}

\* insert: the counter moves past the handle, and the path is completed.
Insert(cap) ==
  LET k == Min(Attempts)
      h == (nextHandle + k) % HandleModulus
      missing == Path(h) \ (nodes \cup {On(h, 0)})
  IN  /\ Attempts # {}
      /\ nextHandle' = (h + 1) % HandleModulus
      /\ nodes' = nodes \cup Path(h)
      /\ nodeCount' = nodeCount + Cardinality(missing)
      /\ value' = [n \in DOMAIN value \cup {On(h, Depth)} |-> IF n = On(h, Depth) THEN cap ELSE value[n]]
      /\ full' = full \cup {On(h, Depth)}
      /\ size' = size + 1
      /\ bound' = [g \in DOMAIN bound \cup {h} |-> IF g = h THEN cap ELSE bound[g]]

InsertFails ==
  /\ Attempts = {}
  /\ nextHandle' = (nextHandle + HandleModulus - 1) % HandleModulus
  /\ UNCHANGED <<nodes, value, full, size, nodeCount, bound>>

Children(ns, n) == {c \in ns : Len(c) = Len(n) + 1 /\ SubSeq(c, 1, Len(n)) = n}

\* Slip: the path is cut off from its first branch on.
Compacted_Cut(ns, values, h) == ns \ {On(h, d) : d \in 2..Depth}

\* From the leaf upward, each node of the path goes if it has no child and no value.
Compacted(ns, values, h) ==
  LET left[d \in 0..Depth] ==
        IF d = 0 THEN ns
        ELSE LET n == On(h, Depth + 1 - d) IN
               IF Children(left[d - 1], n) = {} /\ n \notin values THEN left[d - 1] \ {n}
               ELSE left[d - 1]
  IN  left[Depth]

Erase(h) ==
  /\ h # 0 /\ HandleInUse(h)
  /\ full' = full \ {On(h, Depth)}
  /\ nodes' = Compacted(nodes, full', h)
  /\ value' = Restrict(value, DOMAIN value \cap nodes')
  /\ nodeCount' = nodeCount - Cardinality(nodes \ nodes')
  /\ size' = size - 1
  /\ bound' = Restrict(bound, DOMAIN bound \ {h})
  /\ UNCHANGED nextHandle

Next == (\E cap \in Caps : Insert(cap)) \/ InsertFails \/ \E h \in Handles : Erase(h)

Spec == Init /\ [][Next]_vars

-----------------------------------------------------------------------------
\* The trie is the function CapOps takes it for: after any order of inserts and erases,
\* with the counter wrapping past handles in use, every handle finds what it was bound
\* to and no other finds anything; no node is missing or left over; the counts are right.
TrieIsTheMap ==
  /\ \A h \in Handles : Lookup(h) = IF h \in DOMAIN bound THEN {bound[h]} ELSE {}
  /\ nodes \cup {<<>>} = {<<>>} \cup UNION {Path(h) : h \in DOMAIN bound}
  /\ size = Cardinality(DOMAIN bound)
  /\ nodeCount = Cardinality(nodes \cup {<<>>})
  /\ 0 \notin DOMAIN bound
=============================================================================
