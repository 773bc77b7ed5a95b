\* Unique request ids (one choice per call), two models and room for four blocks.
CONSTANTS
  Calls = {c1, c2, c3}
  NumChoices = 1
  Prompts <- MCPrompts
  Base = base
  Loras = {la}
  MaxBlocks = 4
  None = none
  a = a
  b = b
SPECIFICATION Spec
SYMMETRY Symmetry
INVARIANTS
  ReferenceCounts
  CacheBounds
  ActiveBlocksInUse
  SubscriberView
PROPERTIES
  EvictionPriority
