SPECIFICATION Spec
CONSTANTS
  c1 = c1
  c2 = c2
  i1 = i1
  i2 = i2
  i3 = i3
  i4 = i4
  CRs = {c1, c2}
  Instances = {i1, i2, i3, i4}
  Group <- TwoGroups
  Initial <- Both
  Desired = 1
  MaxUnavailable = 1
  Mode = "eager"
  ForceRefresh = FALSE
  IgnoreDrainFailures = FALSE
  Intervals = {"termination"}
  MaxReplacementNodes = 1
  Disruptions = {}
  MaxDisruptions = 0
INVARIANT ReplacementNodesAllowed
CHECK_DEADLOCK FALSE
