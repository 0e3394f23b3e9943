\* One version through nine calls, one crash, and one call whose now is an
\* earlier call's or earlier still.  Nine calls take a version through
\* production, to a health reading and to another allocation, or through a
\* stop and a retest.
SPECIFICATION Spec
CONSTANTS
  Versions = {v1}
  Readings = {good}
  Trials = {t1}
  MaxCalls = 9
  MaxCrashes = 1
  MaxSkews = 1
INVARIANTS
  TypeOK
  HistoryTellsThePath
  ProductionWasConfirmed
PROPERTIES
  ImplementsLifecycle
  PromotionIsEarned
  FailureMemory
\* The calls are bounded.
CHECK_DEADLOCK FALSE
