SPECIFICATION Spec
CONSTANTS
  c1 = c1
  c2 = c2
  i1 = i1
  i2 = i2
  i3 = i3
  i4 = i4
  CRs = {c1}
  Instances = {i1, i2, i3}
  Group <- OneGroup
  Initial <- Both
  Desired = 2
  MaxUnavailable = 1
  Mode = "eager"
  ForceRefresh = FALSE
  IgnoreDrainFailures = FALSE
  Intervals = {"drain"}
  MaxReplacementNodes = 1
  Disruptions <- Everything
  MaxDisruptions = 3
INVARIANTS TypeOK NoTerminateWhileDraining OwnBatchIsDrained EagerKeepsCapacity
PROPERTY ImplementsDrainGate
SYMMETRY Alike
CHECK_DEADLOCK FALSE
