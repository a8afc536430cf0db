SPECIFICATION Spec
CONSTANTS
  e1 = e1
  e2 = e2
  w1 = w1
  w2 = w2
  r1 = r1
  r2 = r2
  p1 = p1
  p2 = p2
  None = None
  Executions <- OneExecution
  Workers <- TwoWorkers
  Reapers <- OneReaper
  Promoters <- OnePromoter
  Plans <- ThreeTaskPlans
  MaxTasks = 3
  MaxRetries = 1
  CrashPoints <- Anywhere
  ErrorPoints = {}
  PrematureExpiry = FALSE
  Redelivery = TRUE
  MaxFaults = 2
SYMMETRY WorkerSymmetry
CHECK_DEADLOCK FALSE
INVARIANT NoDoubleWork
INVARIANT RetryBudget
INVARIANT AttemptsAccountForTries
INVARIANT VerdictMatchesTasks
PROPERTY PlannedOnce
