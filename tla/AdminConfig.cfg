\* Two admins, two requests (one with a LoRA), updates of the latency settings, of
\* fixed and of generated fake metrics, and one that is refused.
CONSTANTS
  Requests = {r1, r2}
  Loras = {l1}
  NoLora = NoLora
  LoraOf <- MCLoraOf
  MaxNumSeqs = 2
  MaxWaitingQueueLength = 1
  PromptOf <- MCPromptOf
  Admins = {a1, a2}
  Bodies <- MCBodies
  Scenarios <- MCScenarios
  Nil = Nil
  Null = Null
  MaxAge = 1
SPECIFICATION Spec
CHECK_DEADLOCK FALSE
INVARIANTS
  
  
  
  TickersFollow
