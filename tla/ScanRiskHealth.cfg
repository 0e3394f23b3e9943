\* One batch, nothing held: a scan whose product sources all fail.
SPECIFICATION Spec
CONSTANTS
  i1 = i1
  i2 = i2
  Underlyings = {"u1", "u2"}
  Issuers = {i1, i2}
  Clusters = {"c1", "c2"}
  Unknown = "none"
  Clusterings <- MCClusterings
  MaxPosition = 2
  MaxCluster = 2
  MaxIssuer = 2
  MaxTotal = 3
  MaxActive = 2
  MaxBatches = 1
  MaxHeld = 0
  HeldSizes = {2}
INVARIANT UnhealthyIsNotActionable
CHECK_DEADLOCK FALSE
