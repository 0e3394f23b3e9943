\* A job that crashed between the two statements of one label.
SPECIFICATION FairSpec
CONSTANTS
  Products = {1, 2}
  MiniFutures = {}
  Horizon = 1
  Grace = 1
  LastDay = 2
  MaxCrashes = 1
  QuoteKinds = {}
  Barred = {}
PROPERTY CrashDelaysNoOthers
\* The days modelled end.
CHECK_DEADLOCK FALSE
