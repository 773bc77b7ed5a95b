\* Jobs that need less than, exactly, and more than one forward of two tokens, and
\* a decode step that competes with them for the timeline.
CONSTANTS
  Jobs = {j1, j2}
  MaxLength = 3
  Budget = 2
  Leaders = {d1}
  Callers <- MCCallers
  Durations = {2}
  HostTimes = {1}
  MaxNow = 2
SPECIFICATION FairSpec
CHECK_DEADLOCK FALSE
INVARIANTS
  OneBatcher
  WaitIsQueueing
  ForwardsDisjoint
  ProfileInOrder
PROPERTIES
  EveryJobServed
