\* Two converters with the same output path, two faults, and the benchmark on what is
\* published: five sources that are well formed, twenty-nine that are not.
CONSTANTS
  Nil = Nil
  Sources <- MCSources
  Converters = {c1, c2}
  GivenFiles <- MCGivenFiles
  MaxUint32 = 3
  OneByte = 2
  MetadataSize = 10
  MaxFaults = 2
  Configs <- MCConfigs
  BenchOptions <- MCBenchOptions
  BatchTokens = 4
  DefaultBatchTokens = 8
  DefaultMaxNumSeqs = 3
SPECIFICATION Spec
CHECK_DEADLOCK FALSE
INVARIANTS
  ConversionExact
  EveryRecordReplayed
  ServingLimits
PROPERTIES
  LoopProgresses
