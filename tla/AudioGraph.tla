------------------------------ MODULE AudioGraph ------------------------------
(***************************************************************************)
(* neuro::audio::Graph (src/include/neuro/audio/pipeline.hpp): nodes that  *)
(* render in turn.  A node is the gain it applies, 1 for a passthrough,    *)
(* and a buffer is one sample.  Blocks may come without an input.          *)
(***************************************************************************)
EXTENDS Naturals, Sequences

CONSTANTS
  Gains, Samples,    \* numbers
  MaxNodes           \* bound: nodes added

VARIABLES
  nodes,       \* nodes_
  prepared,    \* prepared_
  io,          \* the caller's buffers, the same for every block
  input,       \* history: the last input there was
  chain        \* history: the nodes at the last block

vars == <<nodes, prepared, io, input, chain>>

Init == nodes = << >> /\ prepared = FALSE /\ io = << >> /\ input = 0 /\ chain = << >>

\* Also after prepare_all: the new node will render unprepared.
AddNode(g) ==
  /\ Len(nodes) < MaxNodes
  /\ nodes' = Append(nodes, g)
  /\ UNCHANGED <<prepared, io, input, chain>>

PrepareAll ==
  /\ prepared' = TRUE
  /\ UNCHANGED <<nodes, io, input, chain>>

\* A node refuses: prepared_ stays as it is, be it set.
PrepareFails == nodes # << >> /\ UNCHANGED vars

\* render_block leaves the buffers as they are.
RenderNothing == (~prepared \/ nodes = << >>) /\ UNCHANGED vars

Resized == [i \in DOMAIN nodes |-> IF i \in DOMAIN io THEN io[i] ELSE 0]

InputOf(bufs, i) == bufs[i - 1]

\* The first node, without an input, leaves its buffer as it was in the last block.
RenderBlock(in) ==
  LET first == IF in = {} THEN Resized[1] ELSE nodes[1] * (CHOOSE x \in in : TRUE)
      rendered[i \in 0..Len(nodes)] ==
        IF i = 0 THEN Resized
        ELSE [rendered[i - 1] EXCEPT
                ![i] = IF i = 1 THEN first ELSE nodes[i] * InputOf(rendered[i - 1], i)]
  IN  /\ prepared /\ nodes # << >>
      /\ io' = rendered[Len(nodes)]
      /\ input' = IF in = {} THEN input ELSE CHOOSE x \in in : TRUE
      /\ chain' = nodes
      /\ UNCHANGED <<nodes, prepared>>

Next ==
  \/ \E g \in Gains : AddNode(g)
  \/ PrepareAll \/ PrepareFails \/ RenderNothing
  \/ \E in \in {{}} \cup {{x} : x \in Samples} : RenderBlock(in)

Spec == Init /\ [][Next]_vars

-----------------------------------------------------------------------------
\* Whenever nodes are added and whichever blocks had an input, every buffer is the last
\* input there was through the nodes up to its own.
BlocksGoThrough ==
  LET through[i \in 0..Len(chain)] ==
        IF i = 0 THEN input ELSE through[i - 1] * chain[i]
  IN  \A i \in DOMAIN chain : io[i] = through[i]
=============================================================================
