------------------------------ MODULE Metrics ------------------------------
(***************************************************************************)
(* collect_metrics (observability/metrics.py): several statements in one   *)
(* session, each of which sees what has been committed when it runs, while *)
(* a run goes on committing.                                               *)
(*                                                                         *)
(* Durations and costs are read like the tokens and are left out; queue    *)
(* depths are read in queue mode only.                                     *)
(***************************************************************************)
EXTENDS InlineExecution

VARIABLES
  reading  \* the statements still to run, and what the others have returned

NoReading == [left |-> <<>>, executions |-> None, tasks |-> None, outputs |-> None]

SlipTasksFirst == <<"tasks", "executions", "outputs">>

\* The order of the statements.
Statements == <<"executions", "tasks", "outputs">>

\* What each returns.  Of the counts grouped by status the completed ones and the
\* rest are kept.  The sum of tasks.total_tokens is the number of tasks that
\* contribute to it: the column is written with the output.
Returns(statement) ==
  LET completed == Cardinality({i \in Index : status[i] = "COMPLETED"}) IN
  CASE statement = "executions" -> execStatus = "COMPLETED"
    [] statement = "tasks" -> [completed |-> completed, others |-> Len(subtasks) - completed]
    [] statement = "outputs" -> Cardinality({i \in Index : result[i]})

BeginReading ==
  /\ reading = NoReading
  /\ reading' = [NoReading EXCEPT !.left = Statements]

ReadNext ==
  /\ reading.left # <<>>
  /\ LET statement == Head(reading.left) IN
     reading' = [reading EXCEPT !.left = Tail(@), ![statement] = Returns(statement)]

Read == reading # NoReading /\ reading.left = <<>>

\* The answer is sent, the session closed.
EndReading ==
  /\ Read
  /\ reading' = NoReading

\* README:440-441: the metrics are accurate, although no transaction keeps their
\* parts together: an execution counted as COMPLETED has all its tasks counted as
\* COMPLETED, and every task counted as COMPLETED contributes its tokens.
MetricsAgree ==
  Read =>
    /\ reading.executions => reading.tasks.completed > 0 /\ reading.tasks.others = 0
    /\ reading.tasks.completed <= reading.outputs
=============================================================================
