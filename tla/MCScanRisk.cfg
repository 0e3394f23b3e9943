\* Three batches, one held position.  A cluster takes three units and two
\* positions, so that each of its caps binds where the other does not.
SPECIFICATION Spec
CONSTANTS
  i1 = i1
  i2 = i2
  Underlyings = {"u1", "u2"}
  Issuers = {i1, i2}
  Clusters = {"c1", "c2"}
  Unknown = "none"
  Clusterings <- MCClusterings
  MaxPosition = 2
  MaxCluster = 3
  MaxIssuer = 2
  MaxTotal = 3
  MaxActive = 2
  MaxBatches = 3
  MaxHeld = 1
  HeldSizes = {1, 2}
INVARIANTS TypeOK BudgetsCoverTheStore
PROPERTIES ClusterCapIsKept OvershootIsOneScan
\* The bound on batches ends every behaviour.
CHECK_DEADLOCK FALSE
SYMMETRY IssuerSymmetry
VIEW BudgetView
