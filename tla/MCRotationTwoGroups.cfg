SPECIFICATION Spec
CONSTANTS
  c1 = c1
  c2 = c2
  i1 = i1
  i2 = i2
  i3 = i3
  i4 = i4
  CRs = {c1, c2}
  Instances = {i1, i2, i3, i4}
  Group <- TwoGroups
  Initial <- Both
  Desired = 1
  MaxUnavailable = 1
  Mode = "lazy"
  ForceRefresh = FALSE
  IgnoreDrainFailures = FALSE
  Intervals = {"termination"}
  MaxReplacementNodes = 0
  Disruptions = {}
  MaxDisruptions = 0
PROPERTY TagKeptByOthers
CHECK_DEADLOCK FALSE
