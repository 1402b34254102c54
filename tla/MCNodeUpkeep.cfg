SPECIFICATION UpkeepSpec
CONSTANTS
  n1 = n1
  n2 = n2
  n3 = n3
  NoNode = NoNode
  Nobody = Nobody
  Unset = Unset
  Nodes <- AllNodes
  GroupNodes <- TwoNodes
  EarlyCordonNodes = TRUE
  MaxFailures = 3
  MaxEvents = 1
  Rotated <- TwoNodes
  MaxMishaps = 1
  Zones = {"a", "b", "c"}
  Strategies <- MCStrategies
  MaxCapacity = 3
  MaxTargets = 2
  MaxInProgress = 1
  Names = {"s", "t"}
  MaxVersion = 2
  ForceRefreshes = {TRUE, FALSE}
SYMMETRY Alike
INVARIANTS
  CordonTypeOK
  AnnotatedIsCordoned
  ForeignCordonKept
  CleanUpComplete
  CountedOnce
  GoroutineFindsItsEntry
  TerminatedIsCounted
  UniformAcrossZones
  AcceptedSelects
  ShareReached
  DriftedIffDifferent
PROPERTY StepsRunInOrder
CHECK_DEADLOCK FALSE
