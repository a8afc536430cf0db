------------------------------- MODULE Models -------------------------------
(***************************************************************************)
(* The persistent vocabulary of the platform: what enums.py and models/    *)
(* say an execution, a task and a job may look like.                       *)
(*                                                                         *)
(* A task row is named by its execution and its order_index, so that       *)
(* depends_on (a list of order_index values of the same execution) names   *)
(* tasks directly.  The UUID keys of the code identify the same rows.      *)
(* "ABSENT" is the status of a row nobody has inserted yet.                *)
(***************************************************************************)
EXTENDS Integers, Sequences, FiniteSets

CONSTANTS
  Executions,   \* ids that POST /api/executions may hand out
  MaxTasks,     \* planner_max_tasks, the length the planner clamps a plan to
  Plans,        \* the dependency structures the planner may produce
  None          \* "no value"

Index == 0 .. MaxTasks - 1

ASSUME MaxTasksAssumption == MaxTasks \in Nat \ {0}

\* What Planner.plan guarantees of a plan: it is not empty, it is clamped to
\* MaxTasks, and each subtask depends on earlier subtasks only.
IsPlan(p) ==
  \E n \in 1 .. MaxTasks :
     /\ p \in [0 .. n - 1 -> SUBSET Index]
     /\ \A i \in 0 .. n - 1 : \A d \in p[i] : d < i

ASSUME PlansAssumption == \A p \in Plans : IsPlan(p)

Tasks == Executions \X Index
TasksOf(e) == {e} \X Index
ExecutionOf(t) == t[1]

ExecutionStatuses == {"ABSENT", "PENDING", "PLANNING", "RUNNING", "COMPLETED", "FAILED"}
TaskStatuses == {"ABSENT", "PENDING", "RUNNING", "RETRYING", "COMPLETED", "FAILED"}
Terminal == {"COMPLETED", "FAILED"}
AgentTypes == {"research", "analysis", "summarization"}

PlanJob(e) == [type |-> "plan", id |-> e]
TaskJob(t) == [type |-> "task", id |-> t]
PlanJobs == {PlanJob(e) : e \in Executions}
TaskJobs == {TaskJob(t) : t \in Tasks}
Jobs == PlanJobs \cup TaskJobs
=============================================================================
