SPECIFICATION Spec
CONSTANTS
  c1 = c1  c2 = c2  g1 = g1  g2 = g2
  CRs = {c1, c2}
  ASGs = {g1, g2}
  NoASG = NoASG
  InitialASG <- SharedASG
  MaxParallel = 2
  Disruptions = {}
  MaxDisruptions = 0
INVARIANT OneReconcilePerASG
CHECK_DEADLOCK FALSE
