\* As AdminConfig.cfg, with one body that sends null for a fake metric.
CONSTANTS
  Requests = {r1, r2}
  Loras = {l1}
  NoLora = NoLora
  LoraOf <- MCLoraOf
  MaxNumSeqs = 2
  MaxWaitingQueueLength = 1
  PromptOf <- MCPromptOf
  Admins = {a1, a2}
  Bodies <- MCBodiesWithNull
  Scenarios <- MCScenarios
  Nil = Nil
  Null = Null
  MaxAge = 1
SPECIFICATION Spec
CHECK_DEADLOCK FALSE
INVARIANTS
  LastValueReported
