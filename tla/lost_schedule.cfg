SPECIFICATION FairSpec
CONSTANTS
  e1 = e1
  e2 = e2
  w1 = w1
  w2 = w2
  r1 = r1
  r2 = r2
  p1 = p1
  p2 = p2
  None = None
  Executions <- OneExecution
  Workers <- TwoWorkers
  Reapers <- OneReaper
  Promoters <- OnePromoter
  Plans <- SinglePlan
  MaxTasks = 1
  MaxRetries = 1
  CrashPoints = {"schedule"}
  ErrorPoints = {}
  PrematureExpiry = FALSE
  Redelivery = FALSE
  MaxFaults = 1
CHECK_DEADLOCK FALSE
PROPERTY ExecutionTerminates
