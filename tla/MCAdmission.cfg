SPECIFICATION FairSpec
CONSTANTS
  c1 = c1  c2 = c2  g1 = g1  g2 = g2
  CRs = {c1, c2}
  ASGs = {g1, g2}
  NoASG = NoASG
  InitialASG <- SeparateASG
  MaxParallel = 2
  Disruptions = {"api", "crash", "user", "edit"}
  MaxDisruptions = 2
INVARIANTS TypeOK RotatingIsAdmitted ReconcileMapIsExact
PROPERTIES StatusOnlyAdvances EndsUnlessHeldUp
CHECK_DEADLOCK FALSE
