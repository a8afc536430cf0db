---------------------- MODULE ExecutionLifecycleProofs ----------------------
(***************************************************************************)
(* The promises of ExecutionLifecycle hold for every set of executions and *)
(* plans.  They are not inductive by themselves: that a verdict stays true *)
(* and that work has a running execution rest on what a task may be before *)
(* its execution runs, which Unstarted states.                             *)
(***************************************************************************)
EXTENDS ExecutionLifecycle, TLAPS

\* Tasks that belong to an execution that is not yet running.
Unstarted ==
  \A t \in Tasks :
    /\ execStatus[ExecutionOf(t)] \in {"ABSENT", "PENDING"} => status[t] = "ABSENT"
    /\ execStatus[ExecutionOf(t)] = "PLANNING" => status[t] \in {"ABSENT", "PENDING"}

Safety ==
  /\ TypeOK
  /\ Unstarted
  /\ WorkNeedsRunningExecution
  /\ DependenciesFirst
  /\ ResultsMatchStatus
  /\ VerdictMatchesTasks

\* A plan names order_index values within the bound, for its subtasks and for
\* what they depend on.
LEMMA PlanWithinIndex ==
  ASSUME NEW p \in Plans
  PROVE  /\ DOMAIN p \subseteq Index
         /\ \A i \in DOMAIN p : p[i] \in SUBSET Index
  BY PlansAssumption, MaxTasksAssumption DEF IsPlan, Index

LEMMA TaskOfExecution ==
  /\ \A t \in Tasks : ExecutionOf(t) \in Executions /\ t \in TasksOf(ExecutionOf(t))
  /\ \A e \in Executions : \A t \in TasksOf(e) : t \in Tasks /\ ExecutionOf(t) = e
  BY DEF Tasks, TasksOf, ExecutionOf

LEMMA DepsAreSiblings ==
  ASSUME TypeOK, NEW t \in Tasks
  PROVE  \A d \in Deps(t) : d \in Tasks /\ ExecutionOf(d) = ExecutionOf(t)
  BY DEF TypeOK, Deps, Tasks, ExecutionOf

-----------------------------------------------------------------------------
(* Type correctness.                                                       *)

LEMMA TypeStep == TypeOK /\ [Next]_lifecycleVars => TypeOK'
<1> SUFFICES ASSUME TypeOK, [Next]_lifecycleVars PROVE TypeOK'
  OBVIOUS
<1> USE DEF TypeOK, ExecutionStatuses, TaskStatuses
<1>1. ASSUME NEW e \in Executions, NEW p \in Plans, Plan(e, p) PROVE TypeOK'
  <2>1. \A i \in DOMAIN p : p[i] \in SUBSET Index
    BY PlanWithinIndex
  <2>2. \A t \in {e} \X DOMAIN p : p[t[2]] \in SUBSET Index
    BY <2>1
  <2>3. deps' \in [Tasks -> SUBSET Index]
    BY <1>1, <2>2 DEF Plan
  <2> QED BY <1>1, <2>3 DEF Plan
<1>2. ASSUME NEW e \in Executions,
             Create(e) \/ BeginPlanning(e) \/ FailPlanning(e) \/ Begin(e) \/ Finish(e)
      PROVE  TypeOK'
  BY <1>2 DEF Create, BeginPlanning, FailPlanning, Begin, Finish, MoveExecution
<1>3. ASSUME NEW t \in Tasks, TaskStep(t) PROVE TypeOK'
  BY <1>3 DEF TaskStep, Claim, Complete, Retry, Exhaust, Skip, LateResult, MoveTask
<1>4. CASE UNCHANGED lifecycleVars
  BY <1>4 DEF lifecycleVars
<1> QED BY <1>1, <1>2, <1>3, <1>4 DEF Next, ExecutionStep

\* Every reachable state of the tables is well typed.
THEOREM TypeCorrect == Spec => []TypeOK
<1>1. Init => TypeOK
  BY DEF Init, TypeOK, ExecutionStatuses, TaskStatuses
<1> QED BY <1>1, TypeStep, PTL DEF Spec

-----------------------------------------------------------------------------
(* The promises themselves.                                                *)

LEMMA InitSafe == Init => Safety
  BY TaskOfExecution
  DEF Init, Safety, TypeOK, Unstarted, WorkNeedsRunningExecution, DependenciesFirst,
      ResultsMatchStatus, VerdictMatchesTasks, ExecutionStatuses, TaskStatuses, Terminal

\* Planning an execution adds tasks to one that had none.
LEMMA PlanSafe ==
  ASSUME Safety, TypeOK', NEW e \in Executions, NEW p \in Plans, Plan(e, p)
  PROVE  Safety'
<1> DEFINE new == {e} \X DOMAIN p
<1>1. new \subseteq TasksOf(e)
  BY PlanWithinIndex DEF TasksOf
<1>2. \A t \in TasksOf(e) : status[t] = "ABSENT"
  BY DEF Plan, Rows
<1>3. \A t \in Tasks : t \in new => status'[t] = "PENDING" /\ ExecutionOf(t) = e
  BY <1>1, TaskOfExecution DEF Plan
<1>4. \A t \in Tasks : t \notin new => status'[t] = status[t] /\ deps'[t] = deps[t]
  BY DEF Plan
<1>5. UNCHANGED <<execStatus, result>> /\ execStatus[e] = "PLANNING"
  BY DEF Plan
<1> HIDE DEF new
<1>6. Unstarted'
  BY <1>3, <1>4, <1>5 DEF Safety, Unstarted
<1>7. WorkNeedsRunningExecution'
  BY <1>3, <1>4, <1>5 DEF Safety, WorkNeedsRunningExecution
<1>8. DependenciesFirst'
  <2> SUFFICES ASSUME NEW t \in Tasks, status'[t] \in {"RUNNING", "RETRYING", "COMPLETED"},
                      NEW d \in Deps(t)'
               PROVE  status'[d] = "COMPLETED" /\ result'[d]
    BY DEF DependenciesFirst
  <2>1. t \notin new
    BY <1>3
  <2>2. d \in Deps(t)
    BY <2>1, <1>4 DEF Deps
  <2>3. d \in Tasks /\ status[d] = "COMPLETED" /\ result[d]
    BY <2>1, <2>2, <1>4, DepsAreSiblings DEF Safety, DependenciesFirst
  <2>4. d \notin new
    BY <2>3, <1>1, <1>2
  <2> QED BY <2>3, <2>4, <1>4, <1>5
<1>9. ResultsMatchStatus'
  BY <1>1, <1>2, <1>3, <1>4, <1>5, TaskOfExecution DEF Safety, ResultsMatchStatus, Terminal
<1>10. VerdictMatchesTasks'
  <2>1. \A f \in Executions \ {e} : \A t \in TasksOf(f) : t \in Tasks /\ t \notin new
    BY <1>1, TaskOfExecution
  <2>2. \A f \in Executions \ {e} : Rows(f)' = Rows(f)
    BY <2>1, <1>4 DEF Rows
  <2>3. \A f \in Executions \ {e} : \A t \in Rows(f) : status'[t] = status[t]
    BY <2>1, <1>4 DEF Rows
  <2> QED BY <2>2, <2>3, <1>5 DEF Safety, VerdictMatchesTasks, Rows
<1> QED BY <1>6, <1>7, <1>8, <1>9, <1>10 DEF Safety

\* Moving an execution on leaves its tasks alone; only Finish gives a verdict on
\* tasks that have run, and it gives the one the tasks call for.
LEMMA ExecutionMoveSafe ==
  ASSUME Safety, TypeOK', NEW e \in Executions,
         Create(e) \/ BeginPlanning(e) \/ FailPlanning(e) \/ Begin(e) \/ Finish(e)
  PROVE  Safety'
<1>1. /\ UNCHANGED <<status, deps, result>>
      /\ \A f \in Executions \ {e} : execStatus'[f] = execStatus[f]
  BY DEF Create, BeginPlanning, FailPlanning, Begin, Finish, MoveExecution, Safety, TypeOK
<1>2. /\ \A t \in Tasks : Deps(t)' = Deps(t)
      /\ \A f \in Executions : Rows(f)' = Rows(f)
  BY <1>1 DEF Deps, Rows
<1>3. \/ execStatus[e] = "ABSENT" /\ execStatus'[e] = "PENDING"
      \/ execStatus[e] = "PENDING" /\ execStatus'[e] \in {"PLANNING", "FAILED"}
      \/ execStatus[e] = "PLANNING" /\ execStatus'[e] \in {"RUNNING", "FAILED"}
      \/ /\ execStatus[e] = "RUNNING"
         /\ Rows(e) # {}
         /\ \A t \in Rows(e) : status[t] \in Terminal
         /\ execStatus'[e] = IF \A t \in Rows(e) : status[t] = "COMPLETED"
                             THEN "COMPLETED" ELSE "FAILED"
  BY DEF Create, BeginPlanning, FailPlanning, Begin, Finish, MoveExecution, Safety, TypeOK
<1>4. Unstarted'
  BY <1>1, <1>3, TaskOfExecution DEF Safety, Unstarted
<1>5. WorkNeedsRunningExecution'
  <2> SUFFICES ASSUME NEW t \in Tasks, status[t] \in {"RUNNING", "RETRYING"}
               PROVE  execStatus'[ExecutionOf(t)] = "RUNNING"
    BY <1>1 DEF WorkNeedsRunningExecution
  <2>1. execStatus[ExecutionOf(t)] = "RUNNING"
    BY DEF Safety, WorkNeedsRunningExecution
  <2>2. CASE ExecutionOf(t) = e
    <3>1. t \in Rows(e) /\ status[t] \notin Terminal
      BY <2>2, TaskOfExecution DEF Rows, Terminal
    <3> QED BY <2>1, <2>2, <3>1, <1>3
  <2> QED BY <2>1, <2>2, <1>1, TaskOfExecution
<1>6. DependenciesFirst'
  BY <1>1, <1>2 DEF Safety, DependenciesFirst
<1>7. ResultsMatchStatus'
  BY <1>1 DEF Safety, ResultsMatchStatus
<1>8. VerdictMatchesTasks'
  <2>1. ASSUME NEW f \in Executions, execStatus'[f] = "COMPLETED"
        PROVE  Rows(f)' # {} /\ \A t \in Rows(f)' : status'[t] = "COMPLETED"
    BY <2>1, <1>1, <1>2, <1>3 DEF Safety, VerdictMatchesTasks
  <2>2. ASSUME NEW f \in Executions, execStatus'[f] = "FAILED"
        PROVE  \/ \A t \in Rows(f)' : status'[t] = "PENDING"
               \/ /\ \A t \in Rows(f)' : status'[t] \in Terminal
                  /\ \E t \in Rows(f)' : status'[t] = "FAILED"
    <3>1. CASE f # e
      BY <2>2, <3>1, <1>1, <1>2 DEF Safety, VerdictMatchesTasks
    <3>2. CASE f = e /\ execStatus[e] \in {"PENDING", "PLANNING"}
      BY <3>2, <1>1, <1>2, TaskOfExecution DEF Safety, Unstarted, Rows
    <3>3. CASE f = e /\ execStatus[e] = "RUNNING"
      <4>1. ~ \A t \in Rows(e) : status[t] = "COMPLETED"
        BY <2>2, <3>3, <1>3
      <4> QED BY <4>1, <3>3, <1>1, <1>2, <1>3 DEF Terminal
    <3> QED BY <2>2, <3>1, <3>2, <3>3, <1>3
  <2> QED BY <2>1, <2>2 DEF VerdictMatchesTasks
<1> QED BY <1>4, <1>5, <1>6, <1>7, <1>8 DEF Safety

\* A task moves under a running execution.  It leaves PENDING, RUNNING or
\* RETRYING, so no promise about a completed dependency or a verdict is undone,
\* and it starts or completes only after its dependencies.
LEMMA TaskMoveSafe ==
  ASSUME Safety, TypeOK', NEW t \in Tasks, NEW from, NEW to,
         from \subseteq {"PENDING", "RUNNING", "RETRYING"},
         to \notin {"ABSENT", "PENDING"},
         MoveTask(t, from, to),
         to = "COMPLETED" => result' = [result EXCEPT ![t] = TRUE],
         to # "COMPLETED" => UNCHANGED result,
         to \in {"RUNNING", "RETRYING", "COMPLETED"} =>
           \A d \in Deps(t) : status[d] = "COMPLETED"
  PROVE  Safety'
<1> DEFINE e == ExecutionOf(t)
<1>1. /\ e \in Executions /\ execStatus[e] = "RUNNING"
      /\ status[t] \in {"PENDING", "RUNNING", "RETRYING"}
      /\ status'[t] = to
      /\ UNCHANGED <<execStatus, deps>>
  BY TaskOfExecution DEF MoveTask, Safety, TypeOK
<1>2. \A u \in Tasks \ {t} : status'[u] = status[u] /\ result'[u] = result[u]
  BY DEF MoveTask, Safety, TypeOK
<1>3. /\ to = "COMPLETED" => result'[t]
      /\ to # "COMPLETED" => result'[t] = result[t]
  BY DEF Safety, TypeOK
<1>4. ~result[t]
  BY <1>1 DEF Safety, ResultsMatchStatus, Terminal
<1> HIDE DEF e
<1>5. Unstarted'
  BY <1>1, <1>2 DEF Safety, Unstarted, e
<1>6. WorkNeedsRunningExecution'
  BY <1>1, <1>2 DEF Safety, WorkNeedsRunningExecution, e
<1>7. DependenciesFirst'
  <2> SUFFICES ASSUME NEW u \in Tasks, status'[u] \in {"RUNNING", "RETRYING", "COMPLETED"},
                      NEW d \in Deps(u)'
               PROVE  status'[d] = "COMPLETED" /\ result'[d]
    BY DEF DependenciesFirst
  <2>1. d \in Deps(u) /\ d \in Tasks
    BY <1>1, DepsAreSiblings DEF Deps, Safety
  <2>2. status[d] = "COMPLETED"
    BY <2>1, <1>1, <1>2 DEF Safety, DependenciesFirst
  <2>3. d # t /\ result[d]
    BY <2>1, <2>2, <1>1 DEF Safety, ResultsMatchStatus
  <2> QED BY <2>1, <2>2, <2>3, <1>2
<1>8. ResultsMatchStatus'
  BY <1>1, <1>2, <1>3, <1>4 DEF Safety, ResultsMatchStatus, Terminal
<1>9. VerdictMatchesTasks'
  <2>1. \A f \in Executions \ {e} : \A u \in TasksOf(f) : u \in Tasks /\ u # t
    BY TaskOfExecution DEF e
  <2>2. \A f \in Executions \ {e} : Rows(f)' = Rows(f)
    BY <2>1, <1>2 DEF Rows
  <2>3. \A f \in Executions \ {e} : \A u \in Rows(f) : status'[u] = status[u]
    BY <2>1, <1>2 DEF Rows
  <2> QED BY <2>2, <2>3, <1>1 DEF Safety, VerdictMatchesTasks
<1> QED BY <1>5, <1>6, <1>7, <1>8, <1>9 DEF Safety

\* The output of a late worker reaches a task that has failed.
LEMMA LateResultSafe ==
  ASSUME Safety, TypeOK', NEW t \in Tasks, LateResult(t)
  PROVE  Safety'
<1>1. /\ UNCHANGED <<execStatus, status, deps>>
      /\ \A u \in Tasks : result[u] => result'[u]
      /\ \A u \in Tasks \ {t} : result'[u] = result[u]
      /\ status[t] = "FAILED"
  BY DEF LateResult, Safety, TypeOK
<1>2. DependenciesFirst'
  <2>1. \A u \in Tasks : Deps(u)' = Deps(u) /\ \A d \in Deps(u) : d \in Tasks
    BY <1>1, DepsAreSiblings DEF Deps, Safety
  <2> QED BY <1>1, <2>1 DEF Safety, DependenciesFirst
<1>3. ResultsMatchStatus'
  BY <1>1 DEF Safety, ResultsMatchStatus, Terminal
<1> QED BY <1>1, <1>2, <1>3
        DEF Safety, Unstarted, WorkNeedsRunningExecution, VerdictMatchesTasks, Rows

LEMMA SafetyStep == Safety /\ [Next]_lifecycleVars => Safety'
<1> SUFFICES ASSUME Safety, [Next]_lifecycleVars PROVE Safety'
  OBVIOUS
<1>1. TypeOK'
  BY TypeStep DEF Safety
<1>2. ASSUME NEW e \in Executions, NEW p \in Plans, Plan(e, p) PROVE Safety'
  BY <1>1, <1>2, PlanSafe
<1>3. ASSUME NEW e \in Executions,
             Create(e) \/ BeginPlanning(e) \/ FailPlanning(e) \/ Begin(e) \/ Finish(e)
      PROVE  Safety'
  BY <1>1, <1>3, ExecutionMoveSafe
<1>4. ASSUME NEW t \in Tasks, TaskStep(t) PROVE Safety'
  <2>1. CASE Claim(t)
    BY <2>1, <1>1, TaskMoveSafe DEF Claim
  <2>2. CASE Complete(t)
    <3>1. \A d \in Deps(t) : status[d] = "COMPLETED"
      BY <2>2 DEF Complete, MoveTask, Safety, DependenciesFirst
    <3> QED BY <2>2, <3>1, <1>1, TaskMoveSafe DEF Complete
  <2>3. CASE Retry(t)
    <3>1. \A d \in Deps(t) : status[d] = "COMPLETED"
      BY <2>3 DEF Retry, MoveTask, Safety, DependenciesFirst
    <3> QED BY <2>3, <3>1, <1>1, TaskMoveSafe DEF Retry
  <2>4. CASE Exhaust(t)
    BY <2>4, <1>1, TaskMoveSafe DEF Exhaust
  <2>5. CASE Skip(t)
    BY <2>5, <1>1, TaskMoveSafe DEF Skip
  <2>6. CASE LateResult(t)
    BY <2>6, <1>1, LateResultSafe
  <2> QED BY <1>4, <2>1, <2>2, <2>3, <2>4, <2>5, <2>6 DEF TaskStep
<1>5. CASE UNCHANGED lifecycleVars
  BY <1>5 DEF lifecycleVars, Safety, TypeOK, Unstarted, WorkNeedsRunningExecution,
     DependenciesFirst, ResultsMatchStatus, VerdictMatchesTasks, Rows, Deps
<1> QED BY <1>2, <1>3, <1>4, <1>5 DEF Next, ExecutionStep

\* README "Scheduling" and "Idempotency": in every reachable state work follows
\* its dependencies, outputs match statuses, verdicts match tasks, and nothing
\* runs under an execution that is not running.
THEOREM LifecycleSafe ==
  Spec => [](DependenciesFirst /\ ResultsMatchStatus /\ VerdictMatchesTasks
             /\ WorkNeedsRunningExecution)
<1>1. Safety => DependenciesFirst /\ ResultsMatchStatus /\ VerdictMatchesTasks
                /\ WorkNeedsRunningExecution
  BY DEF Safety
<1> QED BY InitSafe, SafetyStep, <1>1, PTL DEF Spec

Final ==
  /\ \A e \in Executions : execStatus[e] \in Terminal => execStatus'[e] = execStatus[e]
  /\ \A t \in Tasks : status[t] \in Terminal => status'[t] = status[t]

LEMMA StepsKeepVerdicts == Safety /\ [Next]_lifecycleVars => Final
<1> SUFFICES ASSUME Safety, [Next]_lifecycleVars PROVE Final
  OBVIOUS
<1>1. ASSUME NEW e \in Executions, NEW p \in Plans, Plan(e, p) PROVE Final
  <2>1. \A t \in {e} \X DOMAIN p : t \in TasksOf(e) /\ status[t] = "ABSENT"
    BY <1>1, PlanWithinIndex DEF Plan, Rows, TasksOf
  <2> QED BY <1>1, <2>1 DEF Plan, Terminal, Final
<1>2. ASSUME NEW e \in Executions,
             Create(e) \/ BeginPlanning(e) \/ FailPlanning(e) \/ Begin(e) \/ Finish(e)
      PROVE  Final
  BY <1>2 DEF Create, BeginPlanning, FailPlanning, Begin, Finish, MoveExecution, Terminal,
     Safety, TypeOK, Final
<1>3. ASSUME NEW t \in Tasks, TaskStep(t) PROVE Final
  BY <1>3 DEF TaskStep, Claim, Complete, Retry, Exhaust, Skip, LateResult, MoveTask, Terminal,
     Safety, TypeOK, Final
<1>4. CASE UNCHANGED lifecycleVars
  BY <1>4 DEF lifecycleVars, Final
<1> QED BY <1>1, <1>2, <1>3, <1>4 DEF Next, ExecutionStep

\* README "States": a verdict and the end of a task are never revised.
THEOREM TerminalIsFinal == Spec => [][Final]_lifecycleVars
<1>1. Safety /\ [Next]_lifecycleVars => [Final]_lifecycleVars
  BY StepsKeepVerdicts
<1> QED BY InitSafe, SafetyStep, <1>1, PTL DEF Spec
=============================================================================
