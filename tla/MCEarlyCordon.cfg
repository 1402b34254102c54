SPECIFICATION CordonSpec
CONSTANTS
  n1 = n1
  n2 = n2
  n3 = n3
  NoNode = NoNode
  Nodes <- AllNodes
  GroupNodes <- TwoNodes
  EarlyCordonNodes = TRUE
  MaxFailures = 0
  MaxEvents = 0
INVARIANT AllUncordonedInTheEnd
CHECK_DEADLOCK FALSE
