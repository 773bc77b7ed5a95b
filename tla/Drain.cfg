\* Up to four choices, more than newRequests holds, for one worker and a queue of one;
\* an adaptor that may be unloaded and loaded again, and a signal at any moment.
CONSTANTS
  Calls = {c1}
  MaxChoices = 4
  Workers = {w1}
  Loras = {la}
  LoraModules = {la}
  Base = base
  MaxLoras = 1
  QueueCapacity = 1
  MaxAdmin = 2
  None = none
SPECIFICATION FairDrainSpec
CHECK_DEADLOCK FALSE
PROPERTIES
  OpenIsAnswered
