SPECIFICATION Spec
CONSTANTS
  e1 = e1
  e2 = e2
  w1 = w1
  w2 = w2
  r1 = r1
  r2 = r2
  p1 = p1
  p2 = p2
  None = None
  Executions <- TwoExecutions
  Workers <- TwoWorkers
  Reapers <- OneReaper
  Promoters <- OnePromoter
  Plans <- SmallPlans
  MaxTasks = 2
  MaxRetries = 0
  CrashPoints = {"check", "run"}
  ErrorPoints = {}
  PrematureExpiry = FALSE
  Redelivery = FALSE
  MaxFaults = 2
SYMMETRY ExecutionSymmetry
CHECK_DEADLOCK FALSE
INVARIANT NoOrphans
INVARIANT VerdictMatchesTasks
