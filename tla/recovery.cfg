SPECIFICATION FairProcessSpec
CONSTANTS
  e1 = e1
  e2 = e2
  w1 = w1
  w2 = w2
  r1 = r1
  p1 = p1
  None = None
  Executions <- OneExecution
  Workers <- TwoWorkers
  Reapers <- OneReaper
  Promoters <- OnePromoter
  Leaving <- OneLeaves
  Plans <- JoinPlan
  MaxTasks = 3
  MaxRetries = 1
  CrashPoints = {"run", "recover"}
  ErrorPoints = {}
  PrematureExpiry = FALSE
  Redelivery = FALSE
  MaxFaults = 1
CHECK_DEADLOCK FALSE
INVARIANT TypeOK
INVARIANT ProcessTypeOK
INVARIANT DependenciesFirst
INVARIANT NoOrphans
INVARIANT ExhaustedAreDeadLettered
PROPERTY BackoffRespected
PROPERTY ThreadsEnd
PROPERTY ExecutionTerminates
