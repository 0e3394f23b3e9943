SPECIFICATION Spec
CONSTANTS
  p = p
  q = q
  Isins <- MCIsins
  Pool <- MCPool
  Batches <- MCBatches
  Alternatives <- MCAlternatives
  TicksPerDay = 2
  KeepDays = 1
  HardDays = 0
  Horizon = 2
  Runner = FALSE
  MaxTick = 3
  MaxLosses = 0
  MaxLateness = 0
INVARIANT HistoryIsSomewhere
CHECK_DEADLOCK FALSE
