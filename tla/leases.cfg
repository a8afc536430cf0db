SPECIFICATION Spec
CONSTANTS
  e1 = e1
  e2 = e2
  w1 = w1
  w2 = w2
  r1 = r1
  r2 = r2
  p1 = p1
  p2 = p2
  None = None
  Executions <- OneExecution
  Workers <- TwoWorkers
  Reapers <- TwoReapers
  Promoters <- OnePromoter
  Plans <- ChainPlan
  MaxTasks = 2
  MaxRetries = 1
  CrashPoints = {"run"}
  ErrorPoints = {"guard", "llm", "start"}
  PrematureExpiry = TRUE
  Redelivery = FALSE
  MaxFaults = 1
SYMMETRY ActorSymmetry
CHECK_DEADLOCK FALSE
INVARIANT ResultsMatchStatus
INVARIANT SingleDelivery
INVARIANT WorkNeedsRunningExecution
INVARIANT DeadLettersAreExhausted
PROPERTY TerminalIsFinal
PROPERTY ImplementsLifecycle
