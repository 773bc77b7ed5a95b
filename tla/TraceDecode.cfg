\* Three requests, with ids of their own or shared, and up to three tokens each.
CONSTANTS
  r1 = r1
  r2 = r2
  r3 = r3
  x1 = x1
  x2 = x2
  x3 = x3
  Requests = {r1, r2, r3}
  IDs = {x1, x2, x3}
  Assignments <- MCAssignments
  MaxTokens = 3
  None = none
SPECIFICATION FairSpec
CHECK_DEADLOCK FALSE
INVARIANTS
  SharedForward
  RoutesCountedOnce
PROPERTIES
  EveryRequestFinishes
