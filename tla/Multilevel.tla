------------------------------ MODULE Multilevel ------------------------------
(***************************************************************************)
(* neuro::sched::MultilevelScheduler (src/include/neuro/sched/             *)
(* multilevel.hpp) with concurrent submitters.  The loads are atomics that *)
(* are read and changed one by one; post to the node's Scheduler, which is *)
(* module Scheduler's, is counted.  Nobody takes anything off `running'.   *)
(***************************************************************************)
EXTENDS Naturals, FiniteSets, FiniteSetsExt

CONSTANTS
  Submitters,
  Nodes,          \* 1..n
  PinnedNodes,    \* the nodes submit_to is used for
  MaxSubmits      \* bound: submissions in a behaviour

VARIABLES
  queued,     \* NodeLoad::queued
  running,    \* NodeLoad::running
  posted,     \* history: posts to each node's Scheduler
  at,         \* where each submitter is
  best        \* of each submitter: the node it looks at, the best so far, its load

vars == <<queued, running, posted, at, best>>

Fresh == [next |-> 1, seen |-> 0, node |-> 0, load |-> 0]

Init ==
  /\ queued = [n \in Nodes |-> 0]
  /\ running = [n \in Nodes |-> 0]
  /\ posted = [n \in Nodes |-> 0]
  /\ at = [s \in Submitters |-> "idle"]
  /\ best = [s \in Submitters |-> Fresh]

InFlight == {s \in Submitters : at[s] # "idle"}

Total(f) == FoldSet(LAMBDA n, sum : f[n] + sum, 0, Nodes)

Room == Total(posted) + Cardinality({s \in Submitters : at[s] \in {"pick", "add", "chosen", "queued"}}) < MaxSubmits

Go(s, from, to) == at[s] = from /\ at' = [at EXCEPT ![s] = to]

\* submit; and submit_to, which goes straight to the node it is given.
Submit(s) ==
  /\ Room
  /\ Go(s, "idle", "pick")
  /\ best' = [best EXCEPT ![s] = Fresh]
  /\ UNCHANGED <<queued, running, posted>>

SubmitTo(s, n) ==
  /\ Room
  /\ Go(s, "idle", "chosen")
  /\ best' = [best EXCEPT ![s] = [Fresh EXCEPT !.node = n]]
  /\ UNCHANGED <<queued, running, posted>>

\* Slip: the comparison is the wrong way round.
Better_More(b, load) == b.node = 0 \/ load > b.load

\* The first node is the best so far, and a later one only if its load is less.
Better(b, load) == b.node = 0 \/ load < b.load

\* One turn of pick_node's loop loads queued and then running.
LoadQueued(s) ==
  /\ Go(s, "pick", "add")
  /\ best' = [best EXCEPT ![s].seen = queued[best[s].next]]
  /\ UNCHANGED <<queued, running, posted>>

LoadRunning(s) ==
  LET b == best[s]
      load == b.seen + running[b.next]
  IN  /\ Go(s, "add", IF b.next + 1 \in Nodes THEN "pick" ELSE "chosen")
      /\ best' = [best EXCEPT ![s] = [next |-> b.next + 1, seen |-> 0,
                                      node |-> IF Better(b, load) THEN b.next ELSE b.node,
                                      load |-> IF Better(b, load) THEN load ELSE b.load]]
      /\ UNCHANGED <<queued, running, posted>>

Queue(s) ==
  /\ Go(s, "chosen", "queued")
  /\ queued' = [queued EXCEPT ![best[s].node] = @ + 1]
  /\ UNCHANGED <<running, posted, best>>

Post(s) ==
  /\ Go(s, "queued", "posted")
  /\ posted' = [posted EXCEPT ![best[s].node] = @ + 1]
  /\ UNCHANGED <<queued, running, best>>

Unqueue(s) ==
  /\ Go(s, "posted", "unqueued")
  /\ queued' = [queued EXCEPT ![best[s].node] = @ - 1]
  /\ UNCHANGED <<running, posted, best>>

Run(s) ==
  /\ Go(s, "unqueued", "idle")
  /\ running' = [running EXCEPT ![best[s].node] = @ + 1]
  /\ best' = [best EXCEPT ![s] = Fresh]
  /\ UNCHANGED <<queued, posted>>

Next ==
  \E s \in Submitters :
    \/ Submit(s) \/ \E n \in PinnedNodes : SubmitTo(s, n)
    \/ LoadQueued(s) \/ LoadRunning(s) \/ Queue(s) \/ Post(s) \/ Unqueue(s) \/ Run(s)

Spec == Init /\ [][Next]_vars

-----------------------------------------------------------------------------
\* Every submitter in flight is counted where its steps have got it.
LoadsCounted ==
  /\ \A n \in Nodes : /\ queued[n] = Cardinality({s \in Submitters : best[s].node = n /\ at[s] \in {"queued", "posted"}})
                      /\ posted[n] = running[n] + Cardinality({s \in Submitters : best[s].node = n /\ at[s] \in {"posted", "unqueued"}})

\* What a node has been given: its posts, and those about to be made.
Given(n) == posted[n] + Cardinality({s \in Submitters : best[s].node = n /\ at[s] \in {"chosen", "queued"}})

\* Submitters look at the loads while others change them, may see a post counted twice
\* or not at all, and may choose one node at once; the nodes are kept level all the
\* same: submit gives none more above any other than each submitter may miscount and add.
KeptLevel ==
  \A n \in Nodes \ PinnedNodes, m \in Nodes : Given(n) <= Given(m) + 2 * Cardinality(Submitters)
=============================================================================
