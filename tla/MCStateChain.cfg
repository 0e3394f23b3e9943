\* Three runs, two of which fit the restore's window: an artifact can expire,
\* fall out of the window, or fail to download while a newer one exists.
CONSTANTS
  MaxRuns = 3
  Window = 2
  MaxListingLag = 1
  MaxFlaky = 1
  Modes = {"scan", "external"}
  BackendConfigured = TRUE
SPECIFICATION FairSpec
INVARIANTS TypeOK LossIsExplained NoBrokenRunLeaks NoSilentEmptyStart NewestBase
PROPERTY EveryRunConcludes
\* The bound on runs ends every behaviour.
CHECK_DEADLOCK FALSE
