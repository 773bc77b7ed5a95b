\* The same requests; among the servers is one whose dataset cannot be read.
SPECIFICATION Spec
CONSTANTS
  Inputs <- MCInputs
  MaxModelLen = 4
  HistogramBound = 130
INVARIANTS
  SurvivesDataset
CHECK_DEADLOCK FALSE
