\* Four events, a channel of two, batches of two and a window of three.
CONSTANTS
  MaxEvents = 4
  EventCapacity = 2
  MaxBatchSize = 2
  ReplayCapacity = 3
  MaxJoins = 2
  None = none
SPECIFICATION FairSpec
CHECK_DEADLOCK FALSE
INVARIANTS
  ReplayWindow
PROPERTIES
  LossyFifo
  EventuallyPublished
