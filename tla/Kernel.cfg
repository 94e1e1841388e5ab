SPECIFICATION Spec
CONSTANTS
  Owner = "o"
  Friends = {"x", "y"}
  MaxCalls = 2
  Workers = {1, 2}
  MaxPosts = 3
  Firers = {"r", "s"}
  MaxAttached = 3
  Receivers = {"r", "s", "t"}
  MaxSends = 4
  Others = {"p", "q"}
  Timeouts = {1, 2}
  HookSets = {{"join", "leave", "suspect", "revive"}, {"join", "leave", "suspect"}}
  MaxClock = 1
  MaxOffset = 1
  MaxRevivals = 1
  Submitters = {"a", "b"}
  Nodes = {1, 2, 3}
  PinnedNodes = {3}
  MaxSubmits = 7
  Word = 32
  Base = 4
  Bytes = 7
  Alignments = {1, 4}
  Lengths = {1, 2}
  MaxEvents = 6
  PoolSize = 4
  Addresses = {0, 1, 2, 3}
  Rights = {"r", "w"}
  Backings = {1}
  PageSize = 2
  Frames = {4, 7}
  Radix = 2
  Depth = 3
  Caps = {"a", "b"}
  TableSize = 2
  KObjects = {"a", "b"}
  Ids = {1, 2, 3}
  MaxGeneration = 2
  Objects = {"x", "y", "z"}
  Descriptors = {0, 1, 2}
  MaxTime = 2
  MaxPushes = 6
  Updaters = {"r", "s"}
  Steps = {1, 2}
  Bounds <- MCBounds
  Observations = {0, 1, 2, 3, 4}
  MaxUpdates = 3
  Literals = {128, 3}
  Cells = {128}
  MaxCode = 5
  Sinks = {"q", "r"}
  Keys = {"k", "l"}
  Values = {1, 2}
  LogLevels = {0, 1}
  MaxScopes = 2
  MaxRecords = 2
  Initial <- MCInitial
  Gradients <- MCGradients
  WorkerCounts = {3}
  MaxObserved = 3
  Gains = {1, 2}
  Samples = {1, 3}
  MaxStages = 3
INVARIANTS
  EarliestFirst
  KeptLevel
  OwnedOnce
  LookupsAgree
  CallbacksTell
  ThreadsEnd
  EachOnce
  ReceiverOnItsWay
  ResultsAgree
PROPERTIES
  ChannelIsFifo
CHECK_DEADLOCK FALSE
