SPECIFICATION FairApiSpec
CONSTANTS
  None = None
  Unusable = Unusable
  Executions <- NoExecutions
  Plans <- NoPlans
  MaxTasks = 3
  MaxIterations = 2
  ToolsEnabled = TRUE
  Registry <- AllTools
  Names <- SomeNames
  Remote <- SomeReplies
  Llms = {"mock", "remote", "unusable"}
  Answers <- SomeAnswers
  MaxFailures = 2
  Requests <- SomeRequests
  Keys = {"key"}
  MaxRequestBytes = 1
  Clients = {"key", "host"}
  Limit = 1
  WindowLength = 2
  MaxEntries = 1
  MaxTime = 2
  MaxCount = 2
CHECK_DEADLOCK FALSE
INVARIANT ApiTypeOK
INVARIANT AnthropicAccepted
INVARIANT OpenAIAccepted
INVARIANT MockAnswersInTime
INVARIANT ContextCoversDependencies
INVARIANT FinalResultIsComplete
INVARIANT VerdictOnReturn
INVARIANT MetricsAgree
INVARIANT RetryAfterSuffices
PROPERTY RunGoesForward
PROPERTY OneFailureIsRecorded
PROPERTY MockRunsEndToEnd
PROPERTY ImplementsQuota
