------------------------- MODULE ExecutionLifecycle -------------------------
(***************************************************************************)
(* What queue mode promises of the rows of executions, tasks and           *)
(* task_results, whoever writes them: which statuses follow which, and     *)
(* what must be true of the other rows when one changes.  There are no     *)
(* workers here, no queue, no retries counted and nothing is ever stale.   *)
(* Scheduler implements this as long as planning fails, if at all, before  *)
(* its scheduling pass, and a plan job that may fail before it has looked  *)
(* at the execution is delivered once.                                     *)
(***************************************************************************)
EXTENDS Models

VARIABLES execStatus, status, deps, result

lifecycleVars == <<execStatus, status, deps, result>>

Rows(e) == {t \in TasksOf(e) : status[t] # "ABSENT"}
Deps(t) == {ExecutionOf(t)} \X deps[t]

Init ==
  /\ execStatus = [e \in Executions |-> "ABSENT"]
  /\ status = [t \in Tasks |-> "ABSENT"]
  /\ deps = [t \in Tasks |-> {}]
  /\ result = [t \in Tasks |-> FALSE]

-----------------------------------------------------------------------------
(* An execution.                                                           *)

MoveExecution(e, from, to) ==
  /\ execStatus[e] = from
  /\ execStatus' = [execStatus EXCEPT ![e] = to]
  /\ UNCHANGED <<status, deps, result>>

Create(e) == MoveExecution(e, "ABSENT", "PENDING")
BeginPlanning(e) == MoveExecution(e, "PENDING", "PLANNING")
FailPlanning(e) == \E from \in {"PENDING", "PLANNING"} : MoveExecution(e, from, "FAILED")
Begin(e) == Rows(e) # {} /\ MoveExecution(e, "PLANNING", "RUNNING")

\* A plan is recorded once, while the execution is being planned.
Plan(e, p) ==
  LET new == {e} \X DOMAIN p IN
  /\ execStatus[e] = "PLANNING"
  /\ Rows(e) = {}
  /\ status' = [t \in Tasks |-> IF t \in new THEN "PENDING" ELSE status[t]]
  /\ deps' = [t \in Tasks |-> IF t \in new THEN p[t[2]] ELSE deps[t]]
  /\ UNCHANGED <<execStatus, result>>

\* The verdict agrees with the tasks at the moment it is recorded.
Finish(e) ==
  /\ Rows(e) # {}
  /\ \A t \in Rows(e) : status[t] \in Terminal
  /\ MoveExecution(e, "RUNNING",
       IF \A t \in Rows(e) : status[t] = "COMPLETED" THEN "COMPLETED" ELSE "FAILED")

-----------------------------------------------------------------------------
(* A task of a running execution.                                          *)

MoveTask(t, from, to) ==
  /\ execStatus[ExecutionOf(t)] = "RUNNING"
  /\ status[t] \in from
  /\ status' = [status EXCEPT ![t] = to]
  /\ UNCHANGED <<execStatus, deps>>

Claim(t) ==
  /\ \A d \in Deps(t) : status[d] = "COMPLETED"
  /\ MoveTask(t, {"PENDING", "RETRYING"}, "RUNNING")
  /\ UNCHANGED result

Complete(t) ==
  /\ MoveTask(t, {"RUNNING", "RETRYING"}, "COMPLETED")
  /\ result' = [result EXCEPT ![t] = TRUE]

Retry(t) == MoveTask(t, {"RUNNING"}, "RETRYING") /\ UNCHANGED result
Exhaust(t) == MoveTask(t, {"RUNNING"}, "FAILED") /\ UNCHANGED result

Skip(t) ==
  /\ \E d \in Deps(t) : status[d] = "FAILED"
  /\ MoveTask(t, {"PENDING"}, "FAILED")
  /\ UNCHANGED result

\* The output of a worker that was given up for dead is kept, and changes
\* nothing else.
LateResult(t) ==
  /\ status[t] = "FAILED"
  /\ result' = [result EXCEPT ![t] = TRUE]
  /\ UNCHANGED <<execStatus, status, deps>>

-----------------------------------------------------------------------------
ExecutionStep(e) ==
  \/ Create(e)
  \/ BeginPlanning(e)
  \/ FailPlanning(e)
  \/ \E p \in Plans : Plan(e, p)
  \/ Begin(e)
  \/ Finish(e)

TaskStep(t) ==
  \/ Claim(t)
  \/ Complete(t)
  \/ Retry(t)
  \/ Exhaust(t)
  \/ Skip(t)
  \/ LateResult(t)

Next == (\E e \in Executions : ExecutionStep(e)) \/ (\E t \in Tasks : TaskStep(t))

Spec == Init /\ [][Next]_lifecycleVars

-----------------------------------------------------------------------------
(* What follows from the rules above, for every reader of the tables.      *)

TypeOK ==
  /\ execStatus \in [Executions -> ExecutionStatuses]
  /\ status \in [Tasks -> TaskStatuses]
  /\ deps \in [Tasks -> SUBSET Index]
  /\ result \in [Tasks -> BOOLEAN]

\* README "Scheduling": work on a task implies that every task it depends on
\* has completed and left its output.
DependenciesFirst ==
  \A t \in Tasks :
    status[t] \in {"RUNNING", "RETRYING", "COMPLETED"} =>
      \A d \in Deps(t) : status[d] = "COMPLETED" /\ result[d]

\* An output is stored exactly when its task completes, a failed task apart.
ResultsMatchStatus ==
  \A t \in Tasks :
    /\ status[t] = "COMPLETED" => result[t]
    /\ result[t] => status[t] \in Terminal

\* README "aggregator only runs once every task is terminal": what the verdict
\* on an execution says of its tasks.  An execution that could not be planned
\* fails with tasks nobody will ever start.
VerdictMatchesTasks ==
  \A e \in Executions :
    /\ execStatus[e] = "COMPLETED" =>
         Rows(e) # {} /\ \A t \in Rows(e) : status[t] = "COMPLETED"
    /\ execStatus[e] = "FAILED" =>
         \/ \A t \in Rows(e) : status[t] = "PENDING"
         \/ /\ \A t \in Rows(e) : status[t] \in Terminal
            /\ \E t \in Rows(e) : status[t] = "FAILED"

\* Nothing runs, or waits for its retry, under an execution that is not
\* running: before its plan is complete, or after its verdict.
WorkNeedsRunningExecution ==
  \A t \in Tasks :
    status[t] \in {"RUNNING", "RETRYING"} => execStatus[ExecutionOf(t)] = "RUNNING"
=============================================================================
