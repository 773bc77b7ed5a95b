\* Requests of every endpoint, on servers with every source of responses, with one
\* and two choices, from clients that leave and from the benchmark scripts.
SPECIFICATION FairSpec
CONSTANTS
  Inputs <- MCInputs
  MaxModelLen = 4
  HistogramBound = 130
INVARIANTS
  LimitsRespected
  InOrder
  ResponseComplete
  HonestStatus
  BenchmarkVerdict
PROPERTIES
  AlwaysEnds
\* A call that has been answered is at its end.
CHECK_DEADLOCK FALSE
