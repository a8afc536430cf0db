SPECIFICATION FairViewSpec
CONSTANTS
  e1 = e1
  e2 = e2
  c1 = c1
  None = None
  Executions <- OneExecution
  Plans <- SinglePlan
  MaxTasks = 1
  Calls <- OneCall
  MaxInbox = 1
  MaxDisturbances = 1
CHECK_DEADLOCK FALSE
PROPERTY UpdatesAutomatically
