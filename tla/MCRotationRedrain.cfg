SPECIFICATION FairSpec
CONSTANTS
  c1 = c1
  c2 = c2
  i1 = i1
  i2 = i2
  i3 = i3
  i4 = i4
  CRs = {c1}
  Instances = {i1, i2, i3}
  Group <- OneGroup
  Initial <- Both
  Desired = 2
  MaxUnavailable = 1
  Mode = "lazy"
  ForceRefresh = FALSE
  IgnoreDrainFailures = FALSE
  Intervals = {"termination"}
  MaxReplacementNodes = 0
  Disruptions <- Failures
  MaxDisruptions = 0
PROPERTY CompletedDrainIsTerminated
CHECK_DEADLOCK FALSE
