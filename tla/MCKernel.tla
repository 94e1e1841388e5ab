-------------------------------- MODULE MCKernel --------------------------------
(***************************************************************************)
(* The components of Kernel for TLC.  As they share no state, a behaviour  *)
(* is one component's: `unit' says whose, and the others stay as they are. *)
(***************************************************************************)
EXTENDS Kernel

VARIABLE unit

MCBounds == <<1, 3>>
MCInitial == <<10, 20>>
MCGradients == {<< >>, <<6>>, <<-6, 12>>, <<12, 0, 6>>}

Acting == {"thread", "stealing", "irq", "channel", "cluster", "levels"}
HandingOut == {"arena", "pool", "space", "trie", "table", "sockets", "deadlines"}
Counting == {"metrics", "jit", "log", "optimizer", "audio"}

Init ==
  /\ ActivitiesInit /\ ResourcesInit /\ ComputingInit
  /\ unit \in Acting \cup HandingOut \cup Counting
  /\ unit # "cluster" => timeout = 1
  /\ unit # "log" => lowest = 0
  /\ unit # "table" => \A o \in KObjects : idOf[o] = 1

Act ==
  \/ unit = "thread" /\ ThreadStep
  \/ unit = "stealing" /\ StealingStep
  \/ unit = "irq" /\ IrqStep
  \/ unit = "channel" /\ ChannelStep
  \/ unit = "cluster" /\ ClusterStep
  \/ unit = "levels" /\ LevelsStep

HandOut ==
  \/ unit = "arena" /\ ArenaStep
  \/ unit = "pool" /\ PoolStep
  \/ unit = "space" /\ SpaceStep
  \/ unit = "trie" /\ TrieStep
  \/ unit = "table" /\ TableStep
  \/ unit = "sockets" /\ SocketsStep
  \/ unit = "deadlines" /\ DeadlinesStep

Compute ==
  \/ unit = "metrics" /\ MetricsStep
  \/ unit = "jit" /\ JitStep
  \/ unit = "log" /\ LogStep
  \/ unit = "optimizer" /\ OptimizerStep
  \/ unit = "audio" /\ AudioStep

Next ==
  \/ Act /\ UNCHANGED <<unit, resources, computing>>
  \/ HandOut /\ UNCHANGED <<unit, activities, computing>>
  \/ Compute /\ UNCHANGED <<unit, activities, resources>>

vars == <<unit, activities, resources, computing>>

Spec == Init /\ [][Next]_vars
=============================================================================
