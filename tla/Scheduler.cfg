\* Two calls with up to two choices, two LoRAs that compete for one slot, one of them
\* loaded or unloaded while requests wait, and a queue shorter than all the choices.
CONSTANTS
  Calls = {c1, c2}
  MaxChoices = 2
  Workers = {w1, w2}
  Loras = {la, lb}
  LoraModules = {la}
  Base = base
  MaxLoras = 1
  QueueCapacity = 2
  MaxAdmin = 1
  None = none
SPECIFICATION FairSpec
CHECK_DEADLOCK FALSE
INVARIANTS
  Conservation
  AllAtOnceFits
  LoraAccounting
  WorkConservation
PROPERTIES
  EveryCallCompletes
