------------------------------ MODULE OverlayFS ------------------------------
(***************************************************************************)
(* neuro::fs::OverlayFS over two MemFS layers, used by concurrent clients  *)
(* through the conveniences of neuro::fs::VFS (src/src/fs/overlayfs.cpp,   *)
(* memfs.cpp, src/include/neuro/fs/vfs.hpp).  Each call into a layer is one*)
(* step, as each takes that layer's mutex: a convenience is several.  A    *)
(* client writes one byte, by which it is known.                           *)
(***************************************************************************)
EXTENDS Naturals, Sequences

CONSTANTS
  Clients,
  UpperPaths,    \* the paths that only the upper layer can come to have
  LowerFiles,    \* the lower layer's files: a function from paths to contents
  Zero,          \* the byte a sparse write fills up with
  MaxCalls       \* bound: calls of each client

VARIABLES
  upper,     \* MemFS::nodes_ of the upper layer: contents by path
  lower,     \* the same of the lower layer
  mu,        \* OverlayFS::mu_: the client in copy_up, as a set
  call       \* each client's call: what it does, where it is and what it holds

vars == <<upper, lower, mu, call>>

LowerPaths == DOMAIN LowerFiles

CallKinds == {"read_all", "write_all", "append"}

Idle == [kind |-> "none", path |-> "none", pc |-> "idle", node |-> "none", size |-> 0,
         got |-> <<>>, base |-> <<>>, alone |-> TRUE, calls |-> 0]

Init ==
  /\ upper = << >>
  /\ lower = LowerFiles
  /\ mu = {}
  /\ call = [c \in Clients |-> Idle]

Has(layer, p) == p \in DOMAIN layer

\* What a lookup of the path shows.
View(p) == IF Has(upper, p) THEN upper[p] ELSE IF Has(lower, p) THEN lower[p] ELSE <<>>

Node(c) == IF call[c].node = "upper" THEN upper[call[c].path] ELSE lower[call[c].path]

At(c, pc) == call[c].pc = pc

Goto(c, pc) == call' = [call EXCEPT ![c].pc = pc]

Done(c) == [Idle EXCEPT !.calls = call[c].calls]

Put(layer, p, data) ==
  [q \in DOMAIN layer \cup {p} |-> IF q = p THEN data ELSE layer[q]]

\* MemVNode::write: zeros up to the offset, then the bytes, then what was there.
Written(data, offset, bytes) ==
  [i \in 1..(IF Len(data) > offset + Len(bytes) THEN Len(data) ELSE offset + Len(bytes)) |->
     IF i > offset /\ i <= offset + Len(bytes) THEN bytes[i - offset]
     ELSE IF i <= Len(data) THEN data[i] ELSE Zero]

WriteNode(c, offset, bytes) ==
  LET p == call[c].path IN
    IF call[c].node = "upper"
    THEN upper' = [upper EXCEPT ![p] = Written(@, offset, bytes)] /\ UNCHANGED lower
    ELSE lower' = [lower EXCEPT ![p] = Written(@, offset, bytes)] /\ UNCHANGED upper

-----------------------------------------------------------------------------
Writes(kind) == kind # "read_all"

\* Of two calls on one path at once, neither is alone if the other writes.
Call(c, kind, p) ==
  LET others == {d \in Clients \ {c} : call[d].path = p} IN
    /\ At(c, "idle") /\ call[c].calls < MaxCalls
    /\ call' = [d \in Clients |->
         IF d = c
         THEN [Idle EXCEPT !.kind = kind, !.path = p, !.base = View(p),
                           !.pc = IF Writes(kind) THEN "open" ELSE "lookup",
                           !.alone = \A e \in others : ~Writes(call[e].kind),
                           !.calls = call[c].calls + 1]
         ELSE [call[d] EXCEPT !.alone = @ /\ ~(d \in others /\ Writes(kind))]]
    /\ UNCHANGED <<upper, lower, mu>>

-----------------------------------------------------------------------------
(* OverlayFS::open with Write and Create.  The lower layer gets no new     *)
(* files, so that looking there is part of the step before.                *)

Open(c) ==
  /\ At(c, "open")
  /\ Goto(c, IF Has(upper, call[c].path) THEN "lookup"
             ELSE IF Has(lower, call[c].path) THEN "copy_up" ELSE "create")
  /\ UNCHANGED <<upper, lower, mu>>

\* Slip: copy_up does not look into the upper layer again.
CopyUp_NoRecheck(c) ==
  /\ At(c, "copy_up") /\ mu = {}
  /\ mu' = {c} /\ Goto(c, "seed")
  /\ UNCHANGED <<upper, lower>>

\* copy_up takes the mutex and looks again: somebody else may have copied.
CopyUp(c) ==
  /\ At(c, "copy_up") /\ mu = {}
  /\ IF Has(upper, call[c].path)
     THEN Goto(c, "lookup") /\ UNCHANGED mu
     ELSE Goto(c, "seed") /\ mu' = {c}
  /\ UNCHANGED <<upper, lower>>

\* Reads the lower file whole and opens the upper one with Create and Truncate.
CopyUpOpen(c) ==
  /\ At(c, "seed")
  /\ upper' = Put(upper, call[c].path, <<>>)
  /\ call' = [call EXCEPT ![c].pc = "fill", ![c].got = lower[call[c].path]]
  /\ UNCHANGED <<lower, mu>>

CopyUpWrite(c) ==
  /\ At(c, "fill")
  /\ upper' = [upper EXCEPT ![call[c].path] = Written(@, 0, call[c].got)]
  /\ mu' = {}
  /\ call' = [call EXCEPT ![c].pc = "lookup", ![c].got = <<>>]
  /\ UNCHANGED lower

\* MemFS::open with Create in the upper layer; with Truncate, from write_all, a file
\* that has appeared there in the meantime is emptied.
Create(c) ==
  LET p == call[c].path IN
    /\ At(c, "create")
    /\ upper' = IF Has(upper, p) /\ call[c].kind = "append" THEN upper
                ELSE Put(upper, p, <<>>)
    /\ Goto(c, "lookup")
    /\ UNCHANGED <<lower, mu>>

-----------------------------------------------------------------------------
(* What follows in read_all, write_all and append.                         *)

\* Slip: the lower layer comes first.
Lookup_LowerFirst(c) ==
  LET p == call[c].path IN
    /\ At(c, "lookup")
    /\ IF ~Has(upper, p) /\ ~Has(lower, p)
       THEN call' = [call EXCEPT ![c] = Done(c)]
       ELSE call' = [call EXCEPT ![c].node = IF Has(lower, p) THEN "lower" ELSE "upper",
                                 ![c].pc = IF call[c].kind = "write_all" THEN "write" ELSE "stat"]
    /\ UNCHANGED <<upper, lower, mu>>

Lookup(c) ==
  LET p == call[c].path IN
    /\ At(c, "lookup")
    /\ IF ~Has(upper, p) /\ ~Has(lower, p)
       THEN call' = [call EXCEPT ![c] = Done(c)]
       ELSE call' = [call EXCEPT ![c].node = IF Has(upper, p) THEN "upper" ELSE "lower",
                                 ![c].pc = IF call[c].kind = "write_all" THEN "write" ELSE "stat"]
    /\ UNCHANGED <<upper, lower, mu>>

\* Only append asks for the size to write there; write_all writes at 0.
Stat(c) ==
  /\ At(c, "stat")
  /\ call' = [call EXCEPT ![c].size = Len(Node(c)),
                          ![c].pc = IF call[c].kind = "append" THEN "write" ELSE "read"]
  /\ UNCHANGED <<upper, lower, mu>>

Write(c) ==
  /\ At(c, "write")
  /\ WriteNode(c, call[c].size, <<c>>)
  /\ call' = [call EXCEPT ![c] = Done(c)]
  /\ UNCHANGED mu

\* One turn of the loop of read_all: it ends with the size reached, at the end of the
\* file, or past it, if the file has shrunk.
Read(c) ==
  LET at == Len(call[c].got)
      more == SubSeq(Node(c), at + 1, IF call[c].size < Len(Node(c)) THEN call[c].size ELSE Len(Node(c)))
  IN  /\ At(c, "read")
      /\ IF at >= call[c].size \/ more = <<>>
         THEN call' = [call EXCEPT ![c] = Done(c)]
         ELSE call' = [call EXCEPT ![c].got = @ \o more]
      /\ UNCHANGED <<upper, lower, mu>>

Next ==
  \E c \in Clients :
    \/ \E kind \in CallKinds, p \in UpperPaths \cup LowerPaths : Call(c, kind, p)
    \/ Open(c) \/ CopyUp(c) \/ CopyUpOpen(c) \/ CopyUpWrite(c) \/ Create(c)
    \/ Lookup(c) \/ Stat(c) \/ Write(c) \/ Read(c)

Spec == Init /\ [][Next]_vars

-----------------------------------------------------------------------------
(* Properties.                                                             *)

\* A step that ends call c on the path p, which no writer of that file overlapped.
EndsAlone(c, p) == call[c].path = p /\ call[c].alone /\ ~At(c, "idle") /\ At(c, "idle")'

\* A call no writer of its file overlaps does all of what it does and nothing else to the
\* file, wherever that lies and whatever others do elsewhere: append leaves what there was
\* and its byte after it, write_all its byte over the first and the rest as it was, for a
\* file that exists is not truncated; and read_all has read all there was.
AloneActsOnWhole ==
  [][\A c \in Clients, p \in UpperPaths \cup LowerPaths : EndsAlone(c, p) =>
       CASE call[c].kind = "append"    -> View(p)' = Append(call[c].base, c)
         [] call[c].kind = "write_all" -> View(p)' = Written(call[c].base, 0, <<c>>)
         [] call[c].kind = "read_all"  -> call[c].got = call[c].base]_vars

\* The lower layer is never written, and a file that shadows one of its files is
\* copied up once: whoever opens it at the same time, it is never emptied again.
CopiedUpOnce ==
  [][/\ lower' = lower
     /\ \A p \in LowerPaths \cap DOMAIN upper : Len(upper[p]) <= Len(upper'[p])]_vars
=============================================================================
