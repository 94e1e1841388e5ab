--------------------------------- MODULE Kernel ---------------------------------
(***************************************************************************)
(* The components that neither files nor IPC involve, in three groups:     *)
(* those in which something acts (threads, the workers of the work-stealing*)
(* scheduler, interrupt sources, receivers of a channel, the members of a  *)
(* cluster, the submitters of the multilevel scheduler); those that hand   *)
(* something out and look it up again (memory, address space, capability   *)
(* handles, kernel objects, descriptors of sockets, entries by deadline);  *)
(* and those that compute something piece by piece (metrics, lowered code, *)
(* records within scopes, averaged gradients, rendered blocks).  They share*)
(* no state: a step is one component's and leaves the others as they are.  *)
(***************************************************************************)
EXTENDS Integers, Sequences, FiniteSets

-----------------------------------------------------------------------------
(* Those in which something acts.                                          *)

CONSTANTS
  Owner, Friends, MaxCalls,                          \* Thread
  Workers, MaxPosts,                                 \* WorkStealing
  Firers, MaxAttached,                               \* IrqSource
  Receivers, MaxSends,                               \* Channel
  Others, Timeouts, HookSets,                        \* Cluster
  MaxClock, MaxOffset, MaxRevivals,
  Submitters, Nodes, PinnedNodes, MaxSubmits         \* Multilevel

VARIABLES
  state, done, os, body, at, ended, starts,
  global, stop, worker, hand, joined, posts, ran,
  handlers, fires, left, called, began, count,
  queue, closed, waiting, woken, timed, sent, got,
  peers, self, hooks, running, timeout, offset, clock, told,
  queued, given, posted, stage, best

Thread == INSTANCE Thread
WorkStealing == INSTANCE WorkStealing
IrqSource == INSTANCE IrqSource
Channel == INSTANCE Channel
Cluster == INSTANCE Cluster
Multilevel == INSTANCE Multilevel WITH running <- given, at <- stage

thread == <<state, done, os, body, at, ended, starts>>
stealing == <<global, stop, worker, hand, joined, posts, ran>>
irq == <<handlers, fires, left, called, began, count>>
channel == <<queue, closed, waiting, woken, timed, sent, got>>
cluster == <<peers, self, hooks, running, timeout, offset, clock, told>>
levels == <<queued, given, posted, stage, best>>

activities == <<thread, stealing, irq, channel, cluster, levels>>

\* The constructors make 1..n workers and nodes, and at least one node.
ASSUME WorkersAssumption == IsFiniteSet(Workers) /\ Workers = 1..Cardinality(Workers)
ASSUME ReceiversAssumption == IsFiniteSet(Receivers) /\ MaxSends \in Nat
ASSUME LevelsAssumption ==
  /\ IsFiniteSet(Nodes) /\ Nodes = 1..Cardinality(Nodes) /\ Nodes # {}
  /\ IsFiniteSet(Submitters) /\ PinnedNodes \subseteq Nodes

ActivitiesInit ==
  /\ Thread!Init /\ WorkStealing!Init /\ IrqSource!Init
  /\ Channel!Init /\ Cluster!Init /\ Multilevel!Init

ThreadStep == Thread!Next /\ UNCHANGED <<stealing, irq, channel, cluster, levels>>
StealingStep == WorkStealing!Next /\ UNCHANGED <<thread, irq, channel, cluster, levels>>
IrqStep == IrqSource!Next /\ UNCHANGED <<thread, stealing, channel, cluster, levels>>
ChannelStep == Channel!Next /\ UNCHANGED <<thread, stealing, irq, cluster, levels>>
ClusterStep == Cluster!Next /\ UNCHANGED <<thread, stealing, irq, channel, levels>>
LevelsStep == Multilevel!Next /\ UNCHANGED <<thread, stealing, irq, channel, cluster>>

ActivitiesNext ==
  ThreadStep \/ StealingStep \/ IrqStep \/ ChannelStep \/ ClusterStep \/ LevelsStep

ActivitiesSpec == ActivitiesInit /\ [][ActivitiesNext]_activities

\* Threads: who is told that a thread has ended is told the truth, and it ran once.
ThreadsEnd == Thread!ThreadsEnd

\* Each coroutine posted to the work-stealing scheduler is taken once, in order, and each
\* handler there was when an interrupt fired is called once, in order.
EachOnce == WorkStealing!TakenOnceInOrder /\ IrqSource!CallsWhatItBeganWith

\* The channel: while a receiver waits, every value has a receiver on its way to it.
ReceiverOnItsWay == Channel!ReceiverOnItsWay

\* The channel implements the abstract FIFO channel that the endpoints implement.
ChannelIsFifo == Channel!ChannelIsFifo

\* The cluster: callbacks tell every change of a peer's status for which there is one.
CallbacksTell == Cluster!CallbacksTell

\* The multilevel scheduler: nodes are kept level by submitters that read stale loads,
\* and the loads count what is there.
KeptLevel == Multilevel!KeptLevel /\ Multilevel!LoadsCounted

-----------------------------------------------------------------------------
(* Those that hand something out.                                         *)

CONSTANTS
  Word, Base, Bytes, Alignments, Lengths, MaxEvents, \* Arena
  PoolSize,                                          \* Pool
  Addresses, Rights, Backings, PageSize, Frames,     \* AddressSpace
  Radix, Depth, Caps,                                \* CapTrie
  TableSize, KObjects, Ids, MaxGeneration,           \* ObjectTable
  Objects, Descriptors,                              \* Sockets
  MaxTime, MaxPushes                                 \* DeadlineQueue

VARIABLES
  cursor, blocks, marks, events,
  head, link, inUse, high, owned, most,
  entries, mapped, pages, translated, written,
  nodes, value, full, size, nodeCount, nextHandle, bound,
  idOf, generation, slots, held, stored, dead,
  fd, open, lost,
  heap, nextSeq, now

Arena == INSTANCE Arena
Pool == INSTANCE Pool WITH N <- PoolSize
AddressSpace == INSTANCE AddressSpace
CapTrie == INSTANCE CapTrie
ObjectTable == INSTANCE ObjectTable
  WITH N <- TableSize, Objects <- KObjects, count <- held
Sockets == INSTANCE Sockets
Deadlines == INSTANCE DeadlineQueue

arena == <<cursor, blocks, marks, events>>
pool == <<head, link, inUse, high, owned, most>>
space == <<entries, mapped, pages, translated, written>>
trie == <<nodes, value, full, size, nodeCount, nextHandle, bound>>
table == <<idOf, generation, slots, held, stored, dead>>
sockets == <<fd, open, lost>>
deadlines == <<heap, nextSeq, now>>

resources == <<arena, pool, space, trie, table, sockets, deadlines>>

\* The last: with the lengths that are asked for no sum of allocate wraps around.
ASSUME ArenaAssumption ==
  /\ Word \in Nat /\ Base \in Nat /\ Bytes \in Nat
  /\ Alignments \subseteq Nat \ {0} /\ Lengths \subseteq Nat
  /\ \A n \in Lengths, align \in Alignments : Base + Bytes + align + n <= Word
ASSUME PoolAssumption == PoolSize \in Nat
ASSUME SpaceAssumption ==
  Addresses \subseteq Nat /\ PageSize \in Nat \ {0} /\ Frames \subseteq Nat
ASSUME TrieAssumption == Radix \in Nat \ {0, 1} /\ Depth \in Nat \ {0}
ASSUME SocketsAssumption == Descriptors \subseteq Nat
ASSUME TableAssumption ==
  TableSize \in Nat \ {0} /\ Ids \subseteq Nat /\ MaxGeneration \in Nat
ASSUME DeadlinesAssumption == MaxTime \in Nat

ResourcesInit ==
  /\ Arena!Init /\ Pool!Init /\ AddressSpace!Init
  /\ CapTrie!Init /\ ObjectTable!Init /\ Sockets!Init
  /\ Deadlines!Init

ArenaStep == Arena!Next /\ UNCHANGED <<pool, space, trie, table, sockets, deadlines>>
PoolStep == Pool!Next /\ UNCHANGED <<arena, space, trie, table, sockets, deadlines>>
SpaceStep == AddressSpace!Next /\ UNCHANGED <<arena, pool, trie, table, sockets, deadlines>>
TrieStep == CapTrie!Next /\ UNCHANGED <<arena, pool, space, table, sockets, deadlines>>
TableStep == ObjectTable!Next /\ UNCHANGED <<arena, pool, space, trie, sockets, deadlines>>
SocketsStep == Sockets!Next /\ UNCHANGED <<arena, pool, space, trie, table, deadlines>>
DeadlinesStep == Deadlines!Next /\ UNCHANGED <<arena, pool, space, trie, table, sockets>>

ResourcesNext ==
  \/ ArenaStep \/ PoolStep \/ SpaceStep \/ TrieStep \/ TableStep
  \/ SocketsStep \/ DeadlinesStep

ResourcesSpec == ResourcesInit /\ [][ResourcesNext]_resources

\* Whatever is handed out has one owner: memory of an arena and of a pool, in whatever
\* order it is released, and the descriptors of sockets, however these are moved.
OwnedOnce == Arena!BlocksApart /\ Pool!FreeIsTheRest /\ Sockets!OneOwner

\* Lookups find what was last put there, and nothing after it was taken away or retired:
\* mapped addresses, pages, capability handles and objects.
LookupsAgree ==
  /\ AddressSpace!FindAgrees /\ AddressSpace!PagesAgree
  /\ CapTrie!TrieIsTheMap
  /\ ObjectTable!TableIsTheMap

\* The deadline queue: first is the earliest deadline, and of equal ones the first pushed.
EarliestFirst == Deadlines!EarliestFirst

-----------------------------------------------------------------------------
(* Those that compute something.                                           *)

CONSTANTS
  Updaters, Steps, Bounds, Observations, MaxUpdates,      \* Metrics
  Literals, Cells, MaxCode,                               \* Jit
  Sinks, Keys, Values, LogLevels, MaxScopes, MaxRecords,  \* Log
  Initial, Gradients, WorkerCounts, MaxObserved,            \* Optimizer
  Gains, Samples, MaxStages                               \* AudioGraph

VARIABLES
  help, counter, gauge, adding, buckets, observed, ideal, updates,
  functions,
  sink, lowest, context, frames, records, wanted, due,
  params, buf, pending, number, proposed, windows,
  chain, prepared, io, input, played

Metrics == INSTANCE Metrics WITH loop <- adding, seen <- observed
Jit == INSTANCE Jit WITH Numbers <- Literals, Addresses <- Cells
Log == INSTANCE Log WITH Levels <- LogLevels, MaxDepth <- MaxScopes
Optimizer == INSTANCE Optimizer
  WITH Start <- Initial, Workers <- WorkerCounts, last <- number
AudioGraph == INSTANCE AudioGraph WITH MaxNodes <- MaxStages, nodes <- chain, chain <- played

metrics == <<help, counter, gauge, adding, buckets, observed, ideal, updates>>
jit == <<functions>>
log == <<sink, lowest, context, frames, records, wanted, due>>
optimizer == <<params, buf, pending, number, proposed, windows>>
audio == <<chain, prepared, io, input, played>>

computing == <<metrics, jit, log, optimizer, audio>>

\* Histograms are given their bounds in order.
ASSUME MetricsAssumption ==
  /\ Steps \subseteq Int /\ Observations \subseteq Int /\ Bounds \in Seq(Int)
  /\ \A i, j \in DOMAIN Bounds : i < j => Bounds[i] <= Bounds[j]
ASSUME JitAssumption == Literals \subseteq Int /\ Cells \subseteq Int
ASSUME LogAssumption == "null" \notin Sinks /\ "stderr" \notin Sinks
ASSUME OptimizerAssumption ==
  Initial \in Seq(Int) /\ Initial # << >> /\ Gradients \subseteq Seq(Int)
ASSUME AudioAssumption == Gains \subseteq Nat /\ Samples \subseteq Nat

ComputingInit ==
  /\ Metrics!Init /\ Jit!Init /\ Log!Init
  /\ Optimizer!Init /\ AudioGraph!Init

MetricsStep == Metrics!Next /\ UNCHANGED <<jit, log, optimizer, audio>>
JitStep == Jit!Next /\ UNCHANGED <<metrics, log, optimizer, audio>>
LogStep == Log!Next /\ UNCHANGED <<metrics, jit, optimizer, audio>>
OptimizerStep == Optimizer!Next /\ UNCHANGED <<metrics, jit, log, audio>>
AudioStep == AudioGraph!Next /\ UNCHANGED <<metrics, jit, log, optimizer>>

ComputingNext == MetricsStep \/ JitStep \/ LogStep \/ OptimizerStep \/ AudioStep

ComputingSpec == ComputingInit /\ [][ComputingNext]_computing

\* What is computed piecemeal is what it would be at once: metrics updated concurrently
\* and scraped, code compiled and run, gradients averaged, blocks rendered node by node
\* and records logged within scopes.
ResultsAgree ==
  /\ Metrics!CountsAgree /\ Jit!MachineAgrees /\ Log!LogSeesItsScopes
  /\ Optimizer!StepsByTheAverage /\ AudioGraph!BlocksGoThrough
=============================================================================
