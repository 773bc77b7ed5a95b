\* Three experts in four slots on two GPUs, a re-placement every four forwards over
\* a window of two, two callers, and enough forwards for one re-placement between.
CONSTANTS
  NumGPUs = 2
  NumExperts = 3
  NumLayers = 1
  PhysicalSlots = 4
  TopK = 1
  Interval = 4
  Window = 2
  Loads <- MCLoads
  NoLoad <- MCNoLoad
  Unit = 44
  Probability <- MCProbability
  Weight = 60
  Activation = 1
  Flops = 2
  Moves = 20
  Hop = 5
  Wire = 1
  Transfer = 30
  SharedWeight = 10
  SharedActivation = 2
  SharedFlops = 2
  BlockRows = 2
  MemorySlowdown = 2
  ComputeSlowdown = 1
  KernelLaunch = 3
  Callers = {a, b}
  Tokens = {2}
  Demands <- MCDemands
  Options <- MCOptions
  FixedMaps <- MCFixedMaps
  MaxForwards = 5
SPECIFICATION Spec
SYMMETRY Symmetry
CHECK_DEADLOCK FALSE
INVARIANTS
  PlacementWellFormed
  CacheCoherent
  EveryTokenRoutedOnce
  WindowIsRecent
