-------------------------- MODULE SchedulerProofs --------------------------
(***************************************************************************)
(* What holds of queue mode for every number of executions, workers,       *)
(* reapers and promoters, every plan and every retry limit, whatever       *)
(* crashes, redeliveries and early lease expiries happen.                  *)
(***************************************************************************)
EXTENDS SchedulerProperties, TLAPS

LEMMA TaskOfExecution ==
  /\ \A t \in Tasks : ExecutionOf(t) \in Executions /\ t \in TasksOf(ExecutionOf(t))
  /\ \A e \in Executions : \A t \in TasksOf(e) : t \in Tasks /\ ExecutionOf(t) = e
  BY DEF Tasks, TasksOf, ExecutionOf

\* A plan names order_index values within the bound.
LEMMA PlanWithinIndex ==
  ASSUME NEW p \in Plans
  PROVE  /\ DOMAIN p \subseteq Index
         /\ \A i \in DOMAIN p : p[i] \in SUBSET Index
  BY PlansAssumption, MaxTasksAssumption DEF IsPlan, Index

\* Jobs of the two types, apart from each other and from no job.
LEMMA JobShapes ==
  /\ \A e \in Executions : PlanJob(e) \in Jobs /\ PlanJob(e).type = "plan" /\ PlanJob(e).id = e
  /\ \A t \in Tasks : TaskJob(t) \in Jobs /\ TaskJob(t).type = "task" /\ TaskJob(t).id = t
  /\ \A j \in Jobs : \/ j.type = "plan" /\ j.id \in Executions /\ j = PlanJob(j.id)
                     \/ j.type = "task" /\ j.id \in Tasks /\ j = TaskJob(j.id)
  /\ \A j \in PlanJobs : j.id \in Executions
  /\ \A j \in TaskJobs : j.id \in Tasks
<1>1. /\ \A e \in Executions : PlanJob(e) \in PlanJobs /\ PlanJob(e).type = "plan" /\ PlanJob(e).id = e
      /\ \A t \in Tasks : TaskJob(t) \in TaskJobs /\ TaskJob(t).type = "task" /\ TaskJob(t).id = t
  BY DEF PlanJobs, TaskJobs, PlanJob, TaskJob
<1>2. /\ \A j \in PlanJobs : \E e \in Executions : j = PlanJob(e)
      /\ \A j \in TaskJobs : \E t \in Tasks : j = TaskJob(t)
  BY DEF PlanJobs, TaskJobs
<1> QED BY <1>1, <1>2 DEF Jobs

\* What a scheduling pass reads of an execution is well typed, and lists tasks
\* whose rows exist.
LEMMA SnapshotType ==
  ASSUME NEW e \in Executions
  PROVE  /\ Snapshot(e) \in Passes
         /\ Snapshot(e).exec = e /\ Snapshot(e).task = None
         /\ \A t \in Snapshot(e).ready :
              t \in Tasks /\ t \in Rows(e) /\ DepsCompleted(t)
         /\ \A t \in Snapshot(e).doomed :
              t \in Tasks /\ t \in Rows(e) /\ DepFailed(t)
  BY TaskOfExecution DEF Snapshot, Passes, Rows

\* The updates the steps of a pass make to its record keep it a pass.
LEMMA PassUpdate ==
  ASSUME NEW q \in Passes
  PROVE  /\ \A t \in Tasks \cup {None} : [q EXCEPT !.task = t] \in Passes
         /\ \A t \in Tasks \cup {None}, c \in BOOLEAN :
              [q EXCEPT !.task = t, !.changed = c] \in Passes
         /\ \A t \in Tasks \cup {None}, R \in SUBSET Tasks :
              [q EXCEPT !.ready = R, !.task = t] \in Passes
         /\ \A D \in SUBSET Tasks, c \in BOOLEAN :
              [q EXCEPT !.doomed = D, !.changed = c] \in Passes
         /\ q.ready \in SUBSET Tasks /\ q.doomed \in SUBSET Tasks /\ q.changed \in BOOLEAN
         /\ q.task \in Tasks \cup {None} /\ q.exec \in Executions \cup {None}
  BY DEF Passes

-----------------------------------------------------------------------------
(* Type correctness.  The job an actor has in hand and the progress of its  *)
(* pass are typed by where the actor is, so that is part of the invariant.  *)

PointsMatch ==
  \A a \in Actors :
    /\ pc[a] \in PlanPoints => job[a] \in PlanJobs
    /\ pc[a] \in {"claim", "check", "run"} => job[a] \in TaskJobs
    /\ pc[a] \in {"pass", "push", "complete", "fail"} => pass[a].exec \in Executions
    /\ pc[a] \in {"push", "zadd", "dlq"} => pass[a].task \in Tasks

TablesTyped ==
  /\ execStatus \in [Executions -> ExecutionStatuses]
  /\ status \in [Tasks -> TaskStatuses]
  /\ deps \in [Tasks -> SUBSET Index]
  /\ enqueued \in [Tasks -> BOOLEAN]
  /\ attempts \in [Tasks -> Nat]
  /\ result \in [Tasks -> BOOLEAN]
  /\ expired \in [Tasks -> BOOLEAN]
  /\ apiPending \in SUBSET Executions
  /\ tries \in [Tasks -> Nat]
  /\ faults \in 0 .. MaxFaults

ActorsTyped ==
  /\ pc \in [Actors -> ControlPoints]
  /\ job \in [Actors -> Jobs \cup {None}]
  /\ stale \in [Actors -> SUBSET StaleReads]
  /\ affected \in [Actors -> SUBSET Executions]
  /\ pass \in [Actors -> Passes]

Typed == TablesTyped /\ ActorsTyped /\ PointsMatch /\ QueueTypeOK

LEMMA TypedIsTypeOK == Typed => TypeOK
  BY DEF Typed, TablesTyped, ActorsTyped, TypeOK

LEMMA InitTyped == Init => Typed
  BY FaultsAssumption
  DEF Init, QueueInit, Typed, TablesTyped, ActorsTyped, PointsMatch, QueueTypeOK, NoPass, Passes,
      ExecutionStatuses, TaskStatuses, ControlPoints, PlanPoints, StaleReads

\* The API and the queue leave the actors alone.
LEMMA ApiTyped ==
  ASSUME Typed, NEW e \in Executions, CreateExecution(e) \/ EnqueuePlan(e) \/ ApiStops(e)
  PROVE  Typed'
<1> USE JobShapes, FaultsAssumption
    DEF Typed, TablesTyped, ActorsTyped, PointsMatch, QueueTypeOK, ExecutionStatuses
<1>1. CASE CreateExecution(e)
  BY <1>1 DEF CreateExecution, taskVars, actorVars, queueVars
<1>2. CASE EnqueuePlan(e)
  BY <1>2 DEF EnqueuePlan, Enqueue, taskVars, actorVars, promoterVars
<1>3. CASE ApiStops(e)
  BY <1>3 DEF ApiStops, Fault, taskVars, actorVars, queueVars
<1> QED BY <1>1, <1>2, <1>3

\* Leaving a job, or a pass, is well typed wherever it happens.
LEMMA DropTyped ==
  ASSUME ActorsTyped, PointsMatch, NEW a \in Actors, Drop(a)
  PROVE  ActorsTyped' /\ PointsMatch'
<1>1. NoPass \in Passes
  BY DEF NoPass, Passes
<1>2. ActorsTyped'
  BY <1>1 DEF Drop, ActorsTyped, ControlPoints, StaleReads
<1>3. PointsMatch'
  BY DEF Drop, ActorsTyped, PointsMatch, PlanPoints
<1> QED BY <1>2, <1>3

LEMMA ReturnTyped ==
  ASSUME ActorsTyped, PointsMatch, NEW a \in Actors, Return(a)
  PROVE  ActorsTyped' /\ PointsMatch'
<1>1. NoPass \in Passes
  BY DEF NoPass, Passes
<1>2. ActorsTyped'
  BY <1>1 DEF Return, ActorsTyped, ControlPoints, PassPoints
<1>3. PointsMatch'
  BY DEF Return, ActorsTyped, PointsMatch, PlanPoints
<1> QED BY <1>2, <1>3

\* plan_execution.
LEMMA PlanTyped ==
  ASSUME Typed, NEW w \in Workers, PlanStep(w)
  PROVE  Typed'
<1>0. GuardPlan(w) /\ ~Unplanned(job[w].id) => ActorsTyped' /\ PointsMatch'
  BY DropTyped DEF GuardPlan, Typed, Actors
<1> USE JobShapes
    DEF Typed, TablesTyped, ActorsTyped, PointsMatch, QueueTypeOK, Actors, PlanPoints,
        ControlPoints, PassPoints
<1>1. CASE GuardPlan(w)
  <2>1. job[w].id \in Executions
    BY <1>1 DEF GuardPlan
  <2>2. TablesTyped' /\ QueueTypeOK'
    BY <1>1, <2>1 DEF GuardPlan, taskVars, queueVars, ExecutionStatuses
  <2>3. ActorsTyped' /\ PointsMatch'
    <3>1. CASE Unplanned(job[w].id)
      <4>1. pc' = [pc EXCEPT ![w] = "llm"] /\ UNCHANGED <<job, stale, affected, pass>>
        BY <1>1, <3>1 DEF GuardPlan
      <4>2. job[w] \in PlanJobs
        BY <1>1 DEF GuardPlan
      <4>3. ActorsTyped'
        BY <4>1
      <4>4. PointsMatch'
        BY <4>1, <4>2
      <4> QED BY <4>3, <4>4
    <3> QED BY <1>0, <1>1, <3>1
  <2> QED BY <2>2, <2>3
<1>2. ASSUME NEW p \in Plans, InsertTasks(w, p) PROVE Typed'
  <2> DEFINE new == {<<job[w].id, i>> : i \in DOMAIN p}
  <2>1. job[w].id \in Executions
    BY <1>2 DEF InsertTasks
  <2>2. \A t \in new : p[t[2]] \in SUBSET Index
    BY PlanWithinIndex
  <2>3. deps' \in [Tasks -> SUBSET Index] /\ status' \in [Tasks -> TaskStatuses]
    BY <1>2, <2>2 DEF InsertTasks, TaskStatuses
  <2>4. TablesTyped' /\ QueueTypeOK'
    BY <1>2, <2>3 DEF InsertTasks, queueVars
  <2>5. ActorsTyped' /\ PointsMatch'
    BY <1>2 DEF InsertTasks
  <2> QED BY <2>4, <2>5
<1>3. CASE StartExecution(w)
  <2>1. job[w].id \in Executions
    BY <1>3 DEF StartExecution
  <2>2. TablesTyped' /\ QueueTypeOK'
    BY <1>3, <2>1 DEF StartExecution, taskVars, queueVars, ExecutionStatuses
  <2>3. ActorsTyped' /\ PointsMatch'
    BY <1>3, <2>1 DEF StartExecution
  <2> QED BY <2>2, <2>3
<1> QED BY <1>1, <1>2, <1>3 DEF PlanStep

\* _consumer_loop: the job at the head of the list decides where w goes.
LEMMA DequeueTyped ==
  ASSUME Typed, NEW w \in Workers, Dequeue(w)
  PROVE  Typed'
<1>1. Head(queue) \in Jobs /\ Tail(queue) \in Seq(Jobs)
  BY DEF Dequeue, Pop, Typed, QueueTypeOK
<1>2. /\ Head(queue).type = "plan" => Head(queue) \in PlanJobs
      /\ Head(queue).type # "plan" => Head(queue) \in TaskJobs
  BY <1>1, JobShapes DEF Jobs, PlanJobs, TaskJobs
<1>3. TablesTyped' /\ QueueTypeOK'
  BY <1>1 DEF Dequeue, Pop, taskVars, promoterVars, Typed, TablesTyped, QueueTypeOK
<1>4. ActorsTyped'
  BY <1>1 DEF Dequeue, Typed, ActorsTyped, ControlPoints, PlanPoints
<1>5. PointsMatch'
  BY <1>2 DEF Dequeue, Typed, ActorsTyped, PointsMatch, PlanPoints, Actors
<1> QED BY <1>3, <1>4, <1>5 DEF Typed

\* execute_task.
LEMMA ExecuteTyped ==
  ASSUME Typed, NEW w \in Workers, ExecuteStep(w)
  PROVE  Typed'
<1>0. Claim(w) /\ status[job[w].id] \notin Claimable => ActorsTyped' /\ PointsMatch'
  BY DropTyped DEF Claim, Typed, Actors
<1> USE DEF Typed, TablesTyped, ActorsTyped, PointsMatch, QueueTypeOK, Actors, PlanPoints,
            ControlPoints, PassPoints, HoldingPoints, TaskStatuses
<1>1. job[w].id \in Tasks
  BY JobShapes DEF ExecuteStep, Claim, CheckResult, PersistSuccess, FailAttempt
<1>2. CASE Claim(w)
  <2>1. TablesTyped' /\ QueueTypeOK'
    BY <1>1, <1>2 DEF Claim, queueVars
  <2>2. ActorsTyped' /\ PointsMatch'
    <3>1. CASE status[job[w].id] \in Claimable
      <4>1. pc' = [pc EXCEPT ![w] = "check"] /\ UNCHANGED <<job, stale, affected, pass>>
        BY <1>2, <3>1 DEF Claim
      <4>2. job[w] \in TaskJobs
        BY <1>2 DEF Claim
      <4>3. ActorsTyped'
        BY <4>1
      <4>4. PointsMatch'
        BY <4>1, <4>2
      <4> QED BY <4>3, <4>4
    <3> QED BY <1>0, <1>2, <3>1
  <2> QED BY <2>1, <2>2
<1>3. CASE CheckResult(w)
  <2>1. TablesTyped' /\ QueueTypeOK'
    BY <1>1, <1>3 DEF CheckResult, queueVars
  <2>2. \/ /\ affected' = [affected EXCEPT ![w] = {ExecutionOf(job[w].id)}]
           /\ pc' = [pc EXCEPT ![w] = "schedule"]
        \/ /\ affected' = affected
           /\ pc' = [pc EXCEPT ![w] = "run"]
    BY <1>3 DEF CheckResult
  <2>3. job[w] \in TaskJobs /\ UNCHANGED <<job, stale, pass>>
    BY <1>3 DEF CheckResult
  <2>4. ActorsTyped'
    <3>1. {ExecutionOf(job[w].id)} \in SUBSET Executions
      BY <1>1, TaskOfExecution
    <3>2. affected' \in [Actors -> SUBSET Executions]
      BY <2>2, <3>1
    <3>3. pc' \in [Actors -> ControlPoints]
      BY <2>2
    <3> QED BY <2>3, <3>2, <3>3
  <2>5. PointsMatch'
    BY <2>2, <2>3
  <2> QED BY <2>1, <2>4, <2>5
<1>4. CASE PersistSuccess(w)
  <2>1. TablesTyped' /\ QueueTypeOK'
    BY <1>1, <1>4 DEF PersistSuccess, queueVars
  <2>2. ActorsTyped' /\ PointsMatch'
    BY <1>1, <1>4, TaskOfExecution DEF PersistSuccess
  <2> QED BY <2>1, <2>2
<1>5. CASE FailAttempt(w)
  <2>1. TablesTyped' /\ QueueTypeOK'
    BY <1>5 DEF FailAttempt, taskVars, queueVars
  <2>2. [task |-> job[w].id, attempts |-> attempts[job[w].id]] \in StaleReads
    BY <1>1 DEF StaleReads
  <2>3. ActorsTyped' /\ PointsMatch'
    BY <1>1, <1>5, <2>2, TaskOfExecution DEF FailAttempt
  <2> QED BY <2>1, <2>3
<1> QED BY <1>2, <1>3, <1>4, <1>5 DEF ExecuteStep

\* Leases, the reaper's scan and _retry_or_fail.
LEMMA RecoverTyped ==
  ASSUME Typed, NEW a \in Actors, RecoverStep(a)
  PROVE  Typed'
<1> USE MaxRetriesAssumption
    DEF Typed, TablesTyped, ActorsTyped, PointsMatch, QueueTypeOK, PlanPoints,
        ControlPoints, PassPoints, HoldingPoints, TaskStatuses
<1>1. ASSUME NEW x \in stale[a], Retry(a, x) PROVE Typed'
  <2>1. x.task \in Tasks /\ AttemptsNew(x) \in Nat
    BY DEF StaleReads, AttemptsNew
  <2>2. [pass[a] EXCEPT !.task = x.task] \in Passes
    BY <2>1, PassUpdate
  <2>3. TablesTyped' /\ QueueTypeOK'
    BY <1>1, <2>1 DEF Retry, queueVars
  <2>4. ActorsTyped'
    BY <1>1, <2>2 DEF Retry
  <2>5. pass'[a].task = x.task
    BY <1>1 DEF Retry, Passes
  <2>6. PointsMatch'
    BY <1>1, <2>1, <2>5 DEF Retry
  <2> QED BY <2>3, <2>4, <2>6
<1>2. ASSUME NEW x \in stale[a], Exhaust(a, x) PROVE Typed'
  <2>1. x.task \in Tasks /\ AttemptsNew(x) \in Nat
    BY DEF StaleReads, AttemptsNew
  <2>2. [pass[a] EXCEPT !.task = x.task] \in Passes
    BY <2>1, PassUpdate
  <2>3. TablesTyped' /\ QueueTypeOK'
    BY <1>2, <2>1 DEF Exhaust, queueVars
  <2>4. ActorsTyped'
    BY <1>2, <2>2 DEF Exhaust
  <2>5. pass'[a].task = x.task
    BY <1>2 DEF Exhaust, Passes
  <2>6. PointsMatch'
    BY <1>2, <2>1, <2>5 DEF Exhaust
  <2> QED BY <2>3, <2>4, <2>6
<1>3. ASSUME NEW x \in stale[a], Superseded(a, x) PROVE Typed'
  <2>1. TablesTyped' /\ QueueTypeOK'
    BY <1>3 DEF Superseded, taskVars, queueVars
  <2>2. ActorsTyped' /\ PointsMatch'
    BY <1>3 DEF Superseded, AfterRecovery
  <2> QED BY <2>1, <2>2
<1>4. [pass[a] EXCEPT !.task = None] \in Passes
  BY PassUpdate
<1>5. CASE ScheduleRetry(a)
  <2>1. TablesTyped' /\ QueueTypeOK'
    BY <1>5 DEF ScheduleRetry, ScheduleTask, taskVars, promoterVars
  <2>2. ActorsTyped'
    BY <1>4, <1>5 DEF ScheduleRetry, AfterRecovery
  <2>3. PointsMatch'
    BY <1>5 DEF ScheduleRetry, AfterRecovery
  <2> QED BY <2>1, <2>2, <2>3
<1>6. CASE DeadLetter(a)
  <2>1. TablesTyped' /\ QueueTypeOK'
    BY <1>6 DEF DeadLetter, PushDeadLetter, taskVars, promoterVars
  <2>2. ActorsTyped'
    BY <1>4, <1>6 DEF DeadLetter, AfterRecovery
  <2>3. PointsMatch'
    BY <1>6 DEF DeadLetter, AfterRecovery
  <2> QED BY <2>1, <2>2, <2>3
<1> QED BY <1>1, <1>2, <1>3, <1>5, <1>6 DEF RecoverStep

LEMMA ReaperScanTyped ==
  ASSUME Typed, NEW r \in Reapers, ReaperScan(r)
  PROVE  Typed'
<1>1. {[task |-> t, attempts |-> attempts[t]] : t \in StaleTasks} \subseteq StaleReads
  BY DEF StaleReads, StaleTasks, Typed, TablesTyped
<1>2. {ExecutionOf(t) : t \in StaleTasks} \subseteq Executions
  BY TaskOfExecution DEF StaleTasks
<1>3. TablesTyped' /\ QueueTypeOK'
  BY DEF ReaperScan, Typed, TablesTyped, QueueTypeOK, taskVars, queueVars
<1>4. ActorsTyped' /\ PointsMatch'
  BY <1>1, <1>2 DEF ReaperScan, Typed, ActorsTyped, PointsMatch, ControlPoints, HoldingPoints,
     PlanPoints, Actors
<1> QED BY <1>3, <1>4 DEF Typed

\* schedule_execution and _finalize.
LEMMA PassTyped ==
  ASSUME Typed, NEW a \in Actors, PassStep(a)
  PROVE  Typed'
<1>0. Return(a) => ActorsTyped' /\ PointsMatch'
  BY ReturnTyped DEF Typed
<1> USE DEF Typed, TablesTyped, ActorsTyped, PointsMatch, QueueTypeOK, PlanPoints,
            ControlPoints, PassPoints, HoldingPoints
<1>1. ASSUME NEW e \in affected[a], BeginPass(a, e) PROVE Typed'
  <2>1. TablesTyped' /\ QueueTypeOK'
    BY <1>1 DEF BeginPass, taskVars, queueVars
  <2>2. ActorsTyped' /\ PointsMatch'
    BY <1>1, SnapshotType DEF BeginPass
  <2> QED BY <2>1, <2>2
<1>2. CASE RepeatPass(a)
  <2>1. TablesTyped' /\ QueueTypeOK'
    BY <1>2 DEF RepeatPass, taskVars, queueVars
  <2>2. ActorsTyped' /\ PointsMatch'
    BY <1>2, SnapshotType DEF RepeatPass, LoopDone
  <2> QED BY <2>1, <2>2
<1>3. ASSUME NEW t \in pass[a].doomed, Cascade(a, t) PROVE Typed'
  <2>1. t \in Tasks
    BY DEF Passes
  <2>2. TablesTyped' /\ QueueTypeOK'
    BY <1>3, <2>1 DEF Cascade, queueVars, TaskStatuses
  <2>3. PICK further \in SUBSET Tasks :
          pass' = [pass EXCEPT ![a].doomed = (@ \ {t}) \cup further,
                               ![a].changed = @ \/ status[t] = "PENDING"]
    BY <1>3, TaskOfExecution DEF Cascade, Rows
  <2> DEFINE q == [pass[a] EXCEPT !.doomed = (pass[a].doomed \ {t}) \cup further,
                                  !.changed = pass[a].changed \/ status[t] = "PENDING"]
  <2>4. q \in Passes
    <3>1. (pass[a].doomed \ {t}) \cup further \in SUBSET Tasks
      BY PassUpdate
    <3>2. (pass[a].changed \/ status[t] = "PENDING") \in BOOLEAN
      OBVIOUS
    <3> QED BY <3>1, <3>2, PassUpdate
  <2>5. q.exec = pass[a].exec /\ q.task = pass[a].task
    BY DEF Passes
  <2>6. pass' = [pass EXCEPT ![a] = q]
    BY <2>3
  <2> HIDE DEF q
  <2>7. ActorsTyped'
    BY <1>3, <2>4, <2>6 DEF Cascade
  <2>8. PointsMatch'
    BY <1>3, <2>5, <2>6 DEF Cascade
  <2> QED BY <2>2, <2>7, <2>8
<1>4. ASSUME NEW t \in pass[a].ready, MarkEnqueued(a, t) PROVE Typed'
  <2>1. t \in Tasks
    BY DEF Passes
  <2>2. TablesTyped' /\ QueueTypeOK'
    BY <1>4, <2>1 DEF MarkEnqueued, queueVars
  <2> DEFINE u == IF NotEnqueued(t) THEN t ELSE None
             q == [pass[a] EXCEPT !.ready = pass[a].ready \ {t}, !.task = u]
  <2>3. q \in Passes
    <3>1. pass[a].ready \ {t} \in SUBSET Tasks
      BY PassUpdate
    <3>2. u \in Tasks \cup {None}
      BY <2>1
    <3> HIDE DEF u
    <3> QED BY <3>1, <3>2, PassUpdate
  <2>4. q.exec = pass[a].exec /\ q.task = u
    BY DEF Passes
  <2>5. pass' = [pass EXCEPT ![a] = q]
    BY <1>4 DEF MarkEnqueued
  <2>6. /\ pc[a] = "pass"
        /\ pc' = [pc EXCEPT ![a] = IF NotEnqueued(t) THEN "push" ELSE "pass"]
        /\ UNCHANGED <<job, stale, affected>>
        /\ NotEnqueued(t) => u \in Tasks
    BY <1>4, <2>1 DEF MarkEnqueued
  <2> HIDE DEF q, u
  <2>7. ActorsTyped'
    BY <2>3, <2>5, <2>6
  <2>8. PointsMatch'
    BY <2>4, <2>5, <2>6
  <2> QED BY <2>2, <2>7, <2>8
<1>5. CASE PushTask(a)
  <2>1. TablesTyped' /\ QueueTypeOK'
    BY <1>5, JobShapes DEF PushTask, Enqueue, taskVars, promoterVars
  <2> DEFINE q == [pass[a] EXCEPT !.task = None, !.changed = TRUE]
  <2>2. q \in Passes
    BY PassUpdate
  <2>3. q.exec = pass[a].exec
    BY DEF Passes
  <2>4. pass' = [pass EXCEPT ![a] = q]
    BY <1>5 DEF PushTask
  <2> HIDE DEF q
  <2>5. ActorsTyped'
    BY <1>5, <2>2, <2>4 DEF PushTask
  <2>6. PointsMatch'
    BY <1>5, <2>3, <2>4 DEF PushTask
  <2> QED BY <2>1, <2>5, <2>6
<1>6. CASE FinalizeRead(a)
  <2>1. TablesTyped' /\ QueueTypeOK'
    BY <1>6 DEF FinalizeRead, taskVars, queueVars
  <2>2. CASE Return(a)
    BY <1>0, <2>1, <2>2
  <2>3. CASE /\ UNCHANGED <<job, stale, affected, pass>>
             /\ pc' = [pc EXCEPT ![a] = "complete"] \/ pc' = [pc EXCEPT ![a] = "fail"]
    <3>1. ActorsTyped' /\ PointsMatch'
      BY <1>6, <2>3 DEF FinalizeRead, LoopDone
    <3> QED BY <2>1, <3>1
  <2> QED BY <1>6, <2>2, <2>3 DEF FinalizeRead
<1>7. CASE FinalizeWrite(a)
  <2>1. TablesTyped' /\ QueueTypeOK'
    BY <1>7 DEF FinalizeWrite, taskVars, queueVars, ExecutionStatuses
  <2> QED BY <1>0, <1>7, <2>1 DEF FinalizeWrite
<1> QED BY <1>1, <1>2, <1>3, <1>4, <1>5, <1>6, <1>7 DEF PassStep

\* The promoters, time and the faults.
LEMMA PromoterTyped ==
  ASSUME Typed, NEW p \in Promoters, PromoterStep(p)
  PROVE  Typed'
<1>1. TablesTyped' /\ ActorsTyped' /\ PointsMatch'
  BY DEF PromoterStep, QueueStep, taskVars, actorVars, Typed, TablesTyped, ActorsTyped, PointsMatch
<1> USE DEF Typed, QueueTypeOK
<1>2. CASE QueueStep(PromoteScan(p))
  BY <1>1, <1>2 DEF QueueStep, PromoteScan
<1>3. ASSUME NEW t \in scan[p], QueueStep(PromoteRemove(p, t)) PROVE Typed'
  <2>1. t \in Tasks
    OBVIOUS
  <2> QED BY <1>1, <1>3, <2>1 DEF QueueStep, PromoteRemove
<1>4. CASE QueueStep(PromotePush(p))
  <2>1. moving[p] \in Tasks /\ TaskJob(moving[p]) \in Jobs
    BY <1>4, JobShapes DEF QueueStep, PromotePush
  <2> QED BY <1>1, <1>4, <2>1 DEF QueueStep, PromotePush
<1> QED BY <1>2, <1>3, <1>4 DEF PromoterStep

LEMMA ElapseTyped ==
  ASSUME Typed, NEW t \in Tasks, Elapse(t)
  PROVE  Typed'
<1>1. CASE QueueStep(BecomeDue(t))
  BY <1>1 DEF QueueStep, BecomeDue, promoterVars, taskVars, actorVars,
     Typed, TablesTyped, ActorsTyped, PointsMatch, QueueTypeOK
<1>2. CASE LeaseExpires(t)
  <2>1. faults' \in 0 .. MaxFaults
    BY <1>2, FaultsAssumption DEF LeaseExpires, Fault, Typed, TablesTyped
  <2> QED BY <1>2, <2>1 DEF LeaseExpires, actorVars, queueVars, Typed, TablesTyped, ActorsTyped,
          PointsMatch, QueueTypeOK
<1> QED BY <1>1, <1>2 DEF Elapse

LEMMA FaultTyped ==
  ASSUME Typed, FaultStep
  PROVE  Typed'
<1>0. Fault => faults' \in 0 .. MaxFaults
  BY FaultsAssumption DEF Fault, Typed, TablesTyped
<1>1. ASSUME NEW w \in Workers, PlanError(w) PROVE Typed'
  <2>1. ActorsTyped' /\ PointsMatch'
    BY <1>1, DropTyped DEF PlanError, Typed, Actors
  <2>2. job[w].id \in Executions
    BY <1>1, JobShapes DEF PlanError
  <2> QED BY <1>0, <1>1, <2>1, <2>2
          DEF PlanError, taskVars, queueVars, Typed, TablesTyped, QueueTypeOK, ExecutionStatuses
<1>2. ASSUME NEW a \in Actors, Crash(a) PROVE Typed'
  <2>1. ActorsTyped' /\ PointsMatch'
    BY <1>2, DropTyped DEF Crash, Typed
  <2> QED BY <1>0, <1>2, <2>1 DEF Crash, taskVars, queueVars, Typed, TablesTyped, QueueTypeOK
<1>3. ASSUME NEW p \in Promoters, PromoterCrash(p) PROVE Typed'
  BY <1>0, <1>3 DEF PromoterCrash, PromoterStops, taskVars, actorVars,
     Typed, TablesTyped, ActorsTyped, PointsMatch, QueueTypeOK
<1>4. ASSUME NEW i \in DOMAIN queue, DuplicateDelivery(i) PROVE Typed'
  <2>1. queue[i] \in Jobs
    BY DEF Typed, QueueTypeOK
  <2> QED BY <1>0, <1>4, <2>1 DEF DuplicateDelivery, Redeliver, promoterVars, taskVars, actorVars,
          Typed, TablesTyped, ActorsTyped, PointsMatch, QueueTypeOK
<1> QED BY <1>1, <1>2, <1>3, <1>4 DEF FaultStep

LEMMA TypedStep == Typed /\ [Next]_vars => Typed'
<1>1. ASSUME Typed, Next PROVE Typed'
  <2>1. CASE ApiStep
    BY <1>1, <2>1, ApiTyped DEF ApiStep
  <2>2. ASSUME NEW w \in Workers, WorkerStep(w) PROVE Typed'
    BY <1>1, <2>2, DequeueTyped, PlanTyped, ExecuteTyped, RecoverTyped, PassTyped
       DEF WorkerStep, Actors
  <2>3. ASSUME NEW r \in Reapers, ReaperStep(r) PROVE Typed'
    BY <1>1, <2>3, ReaperScanTyped, RecoverTyped, PassTyped DEF ReaperStep, Actors
  <2> QED BY <1>1, <2>1, <2>2, <2>3, PromoterTyped, ElapseTyped, FaultTyped DEF Next
<1>2. ASSUME Typed, UNCHANGED vars PROVE Typed'
  BY <1>2 DEF vars, taskVars, actorVars, queueVars, Typed, TablesTyped, ActorsTyped, PointsMatch,
     QueueTypeOK
<1> QED BY <1>1, <1>2

\* Every variable keeps its type.
THEOREM TypeCorrect == Spec => []TypeOK
<1>1. Spec => []Typed
  BY InitTyped, TypedStep, PTL DEF Spec
<1> QED BY <1>1, TypedIsTypeOK, PTL

-----------------------------------------------------------------------------
(* Safety.  The inductive invariant says, of every place that can make a   *)
(* task run, that the task's dependencies have completed: the test a       *)
(* scheduling pass makes once on its snapshot stays true on the way        *)
(* through the list, the delayed set, the promoters and the workers,       *)
(* because no step takes a completed task back.                            *)

\* The tasks whose rows exist and all of whose dependencies have completed.
Cleared == {t \in Tasks : status[t] # "ABSENT" /\ DepsCompleted(t)}

\* Those for which a job has been queued, or is about to be.
Queued == {t \in Cleared : enqueued[t]}

\* One worker plans an execution, over no rows.
PlannerAlone ==
  /\ \A e \in Executions :
       execStatus[e] \in {"ABSENT", "PENDING"} => \A t \in TasksOf(e) : status[t] = "ABSENT"
  /\ \A w \in Workers :
       /\ pc[w] \in {"llm", "start"} => execStatus[job[w].id] \notin {"ABSENT", "PENDING"}
       /\ pc[w] = "llm" => \A t \in TasksOf(job[w].id) : status[t] = "ABSENT"
  /\ \A v, w \in Workers :
       pc[v] \in {"llm", "start"} /\ pc[w] \in {"llm", "start"} /\ job[v] = job[w] => v = w

\* The jobs on their way to a worker.
JobsCleared ==
  /\ \A i \in DOMAIN queue : queue[i] \in TaskJobs => queue[i].id \in Queued
  /\ delayed \subseteq Queued
  /\ \A p \in Promoters : moving[p] \in Queued \cup {None}

\* What an actor has in hand.
HandCleared(a) ==
  /\ pass[a].ready \subseteq Cleared
  /\ pc[a] \in {"push", "zadd"} => pass[a].task \in Queued
  /\ pc[a] \in {"claim", "check", "run"} => job[a].id \in Queued
  /\ pc[a] \in {"check", "run"} => status[job[a].id] # "PENDING"

HandsCleared == \A a \in Actors : HandCleared(a)

\* The tasks that have been started, and not failed, are cleared.
Started == {t \in Tasks : status[t] \in {"RUNNING", "RETRYING", "COMPLETED"}}

SafeInv ==
  /\ Typed
  /\ PlannerAlone
  /\ JobsCleared
  /\ HandsCleared
  /\ Started \subseteq Queued
  /\ ResultsMatchStatus

LEMMA InitSafe == Init => SafeInv
<1> SUFFICES ASSUME Init PROVE SafeInv
  OBVIOUS
<1>1. Typed
  BY InitTyped
<1>2. PlannerAlone /\ JobsCleared /\ Started \subseteq Queued /\ ResultsMatchStatus
  BY TaskOfExecution
  DEF Init, QueueInit, PlannerAlone, JobsCleared, Started, Queued, Cleared, ResultsMatchStatus, Actors
<1>3. HandsCleared
  BY DEF Init, HandsCleared, HandCleared, NoPass
<1> QED BY <1>1, <1>2, <1>3 DEF SafeInv

-----------------------------------------------------------------------------
(* The rows.  Every step keeps the plan and the outcome of a task whose row *)
(* exists, and only the insertion of a plan makes rows.                     *)

RowsKept ==
  \A t \in Tasks :
    /\ status[t] # "ABSENT" => deps'[t] = deps[t] /\ status'[t] # "ABSENT"
    /\ status[t] \in Terminal => status'[t] = status[t]
    /\ status'[t] = "PENDING" => status[t] \in {"ABSENT", "PENDING"}
    /\ enqueued[t] => enqueued'[t]

NoNewRows == \A t \in Tasks : status[t] = "ABSENT" => status'[t] = "ABSENT"

\* What the steps of a worker's own task, of recovery and of a pass do to the
\* rows of tasks.
LEMMA ExecuteRows ==
  ASSUME Typed, NEW w \in Workers, ExecuteStep(w)
  PROVE  RowsKept /\ NoNewRows
<1>1. job[w].id \in Tasks
  BY JobShapes
  DEF ExecuteStep, Claim, CheckResult, PersistSuccess, FailAttempt, Typed, PointsMatch, Actors
<1> USE DEF Typed, TablesTyped, TaskStatuses, Terminal, RowsKept, NoNewRows
<1>2. CASE Claim(w)
  BY <1>1, <1>2 DEF Claim, Claimable
<1>3. CASE CheckResult(w)
  BY <1>1, <1>3 DEF CheckResult
<1>4. CASE PersistSuccess(w)
  BY <1>1, <1>4 DEF PersistSuccess, Persistable
<1>5. CASE FailAttempt(w)
  BY <1>5 DEF FailAttempt, taskVars
<1> QED BY <1>2, <1>3, <1>4, <1>5 DEF ExecuteStep

LEMMA RecoverRows ==
  ASSUME Typed, NEW a \in Actors, RecoverStep(a)
  PROVE  RowsKept /\ NoNewRows
<1>0. \A x \in stale[a] : x.task \in Tasks
  BY DEF Typed, ActorsTyped, StaleReads
<1> USE DEF Typed, TablesTyped, TaskStatuses, Terminal, RowsKept, NoNewRows
<1>1. ASSUME NEW x \in stale[a], Retry(a, x) \/ Exhaust(a, x) PROVE RowsKept /\ NoNewRows
  BY <1>0, <1>1 DEF Retry, Exhaust, StillRunning
<1>2. ASSUME NEW x \in stale[a], Superseded(a, x) PROVE RowsKept /\ NoNewRows
  BY <1>2 DEF Superseded, taskVars
<1>3. CASE ScheduleRetry(a) \/ DeadLetter(a)
  BY <1>3 DEF ScheduleRetry, DeadLetter, taskVars
<1> QED BY <1>1, <1>2, <1>3 DEF RecoverStep

LEMMA PassRows ==
  ASSUME Typed, NEW a \in Actors, PassStep(a)
  PROVE  RowsKept /\ NoNewRows
<1> USE DEF Typed, TablesTyped, TaskStatuses, Terminal, RowsKept, NoNewRows
<1>1. ASSUME NEW t \in pass[a].doomed, Cascade(a, t) PROVE RowsKept /\ NoNewRows
  BY <1>1 DEF Cascade
<1>2. ASSUME NEW t \in pass[a].ready, MarkEnqueued(a, t) PROVE RowsKept /\ NoNewRows
  BY <1>2 DEF MarkEnqueued
<1>3. ASSUME NEW e \in affected[a], BeginPass(a, e) PROVE RowsKept /\ NoNewRows
  BY <1>3 DEF BeginPass, taskVars
<1>4. CASE RepeatPass(a) \/ PushTask(a) \/ FinalizeRead(a) \/ FinalizeWrite(a)
  BY <1>4 DEF RepeatPass, PushTask, FinalizeRead, FinalizeWrite, taskVars
<1> QED BY <1>1, <1>2, <1>3, <1>4 DEF PassStep

\* A plan is inserted where there are no rows.
LEMMA InsertRows ==
  ASSUME Typed, PlannerAlone, NEW w \in Workers, NEW p \in Plans, InsertTasks(w, p)
  PROVE  RowsKept
<1>1. \A t \in {<<job[w].id, i>> : i \in DOMAIN p} : t \in TasksOf(job[w].id)
  BY PlanWithinIndex DEF TasksOf
<1>2. \A t \in TasksOf(job[w].id) : status[t] = "ABSENT"
  BY DEF PlannerAlone, InsertTasks
<1> QED BY <1>1, <1>2 DEF InsertTasks, RowsKept, Terminal, Typed, TablesTyped

\* The steps that leave the rows of tasks, but for their leases, alone.
LEMMA QuietRows ==
  ASSUME \/ ApiStep \/ FaultStep
         \/ \E w \in Workers : GuardPlan(w) \/ StartExecution(w) \/ Dequeue(w)
         \/ \E r \in Reapers : ReaperScan(r)
         \/ \E p \in Promoters : PromoterStep(p)
         \/ \E t \in Tasks : Elapse(t)
  PROVE  UNCHANGED <<status, deps, enqueued, result>>
<1>1. CASE ApiStep
  BY <1>1 DEF ApiStep, CreateExecution, EnqueuePlan, ApiStops, taskVars
<1>2. CASE FaultStep
  BY <1>2 DEF FaultStep, PlanError, Crash, PromoterCrash, DuplicateDelivery, taskVars
<1>3. ASSUME NEW w \in Workers, GuardPlan(w) \/ StartExecution(w) \/ Dequeue(w)
      PROVE  UNCHANGED <<status, deps, enqueued, result>>
  BY <1>3 DEF GuardPlan, StartExecution, Dequeue, taskVars
<1>4. ASSUME NEW r \in Reapers, ReaperScan(r) PROVE UNCHANGED <<status, deps, enqueued, result>>
  BY <1>4 DEF ReaperScan, taskVars
<1>5. ASSUME NEW p \in Promoters, PromoterStep(p) PROVE UNCHANGED <<status, deps, enqueued, result>>
  BY <1>5 DEF PromoterStep, QueueStep, taskVars
<1>6. ASSUME NEW t \in Tasks, Elapse(t) PROVE UNCHANGED <<status, deps, enqueued, result>>
  BY <1>6 DEF Elapse, QueueStep, LeaseExpires, taskVars
<1> QED BY <1>1, <1>2, <1>3, <1>4, <1>5, <1>6

LEMMA RowsStep ==
  ASSUME Typed, PlannerAlone, Next
  PROVE  /\ RowsKept
         /\ NoNewRows \/ \E w \in Workers : \E p \in Plans : InsertTasks(w, p)
<1>1. UNCHANGED <<status, deps, enqueued, result>> => RowsKept /\ NoNewRows
  BY DEF RowsKept, NoNewRows
<1>2. ASSUME NEW w \in Workers, WorkerStep(w)
      PROVE  /\ RowsKept
             /\ NoNewRows \/ \E v \in Workers : \E p \in Plans : InsertTasks(v, p)
  BY <1>1, <1>2, QuietRows, ExecuteRows, RecoverRows, PassRows, InsertRows
     DEF WorkerStep, PlanStep, Actors
<1>3. ASSUME NEW r \in Reapers, ReaperStep(r) PROVE RowsKept /\ NoNewRows
  BY <1>1, <1>3, QuietRows, RecoverRows, PassRows DEF ReaperStep, Actors
<1> QED BY <1>1, <1>2, <1>3, QuietRows DEF Next

\* So a task that is cleared stays cleared, and a queued one queued.
LEMMA ClearedStays ==
  ASSUME Typed, RowsKept
  PROVE  Cleared \subseteq Cleared' /\ Queued \subseteq Queued'
<1> SUFFICES ASSUME NEW t \in Cleared PROVE t \in Cleared'
  BY DEF RowsKept, Queued, Cleared
<1>1. \A d \in Deps(t) : d \in Tasks
  BY DEF Cleared, Deps, Typed, TablesTyped, Tasks, ExecutionOf
<1>2. Deps(t)' = Deps(t)
  BY DEF Deps, RowsKept, Cleared
<1> QED BY <1>1, <1>2 DEF RowsKept, Cleared, DepsCompleted, Terminal

-----------------------------------------------------------------------------
(* The planner.                                                            *)

PlannerQuiet ==
  /\ \A w \in Workers : pc'[w] \in {"llm", "start"} => pc[w] = pc'[w] /\ job[w] = job'[w]
  /\ \A e \in Executions :
       execStatus'[e] \in {"ABSENT", "PENDING"} => execStatus[e] \in {"ABSENT", "PENDING"}

LEMMA PlannerStays ==
  ASSUME Typed, PlannerAlone, PlannerQuiet, NoNewRows
  PROVE  PlannerAlone'
<1>1. \A w \in Workers : pc[w] \in {"llm", "start"} => job[w].id \in Executions
  BY JobShapes DEF Typed, PointsMatch, PlanPoints, Actors
<1> QED BY <1>1, TaskOfExecution DEF PlannerAlone, PlannerQuiet, NoNewRows

LEMMA GuardPlanner ==
  ASSUME Typed, PlannerAlone, NEW w \in Workers, GuardPlan(w)
  PROVE  PlannerAlone'
<1>1. job[w].id \in Executions
  BY JobShapes DEF GuardPlan, Typed, PointsMatch, PlanPoints, Actors
<1>2. NoNewRows
  BY DEF GuardPlan, taskVars, NoNewRows
<1>3. CASE ~Unplanned(job[w].id)
  BY <1>2, <1>3, PlannerStays
     DEF GuardPlan, Drop, PlannerQuiet, Typed, ActorsTyped, Actors
<1>4. CASE Unplanned(job[w].id)
  <2>1. /\ execStatus[job[w].id] = "PENDING"
        /\ execStatus' = [execStatus EXCEPT ![job[w].id] = "PLANNING"]
        /\ pc' = [pc EXCEPT ![w] = "llm"]
        /\ UNCHANGED <<job, status>>
    BY <1>4 DEF GuardPlan, Unplanned, taskVars
  <2>2. \A v \in Workers \ {w} : pc[v] \in {"llm", "start"} => job[v] # job[w]
    BY <2>1 DEF PlannerAlone
  <2> QED BY <1>1, <2>1, <2>2 DEF PlannerAlone, Typed, TablesTyped, ActorsTyped, Actors
<1> QED BY <1>3, <1>4

LEMMA InsertPlanner ==
  ASSUME Typed, PlannerAlone, NEW w \in Workers, NEW p \in Plans, InsertTasks(w, p)
  PROVE  PlannerAlone'
<1>1. job[w] \in PlanJobs /\ pc[w] = "llm"
  BY DEF InsertTasks, Typed, PointsMatch, PlanPoints, Actors
<1>2. \A t \in Tasks : t \notin TasksOf(job[w].id) => status'[t] = status[t]
  <2>1. \A t \in {<<job[w].id, i>> : i \in DOMAIN p} : t \in TasksOf(job[w].id)
    BY PlanWithinIndex DEF TasksOf
  <2> QED BY <2>1 DEF InsertTasks
<1>3. /\ pc' = [pc EXCEPT ![w] = "start"]
      /\ UNCHANGED <<execStatus, job>>
  BY DEF InsertTasks
<1>4. \A v \in Workers \ {w} : pc[v] = "llm" => /\ job[v] \in PlanJobs
                                              /\ job[v] # job[w]
                                              /\ job[v].id # job[w].id
  <2>1. \A i, j \in PlanJobs : i.id = j.id => i = j
    BY DEF PlanJobs, PlanJob
  <2> QED BY <1>1, <2>1 DEF PlannerAlone, Typed, PointsMatch, PlanPoints, Actors
<1>5. \A e \in Executions : e # job[w].id =>
        \A t \in TasksOf(e) : t \in Tasks /\ t \notin TasksOf(job[w].id)
  BY DEF TasksOf, Tasks
<1>6. \A e \in Executions :
        execStatus'[e] \in {"ABSENT", "PENDING"} => \A t \in TasksOf(e) : status'[t] = "ABSENT"
  BY <1>1, <1>2, <1>3, <1>5 DEF PlannerAlone
<1>7. \A v \in Workers : pc'[v] = "llm" =>
        \A t \in TasksOf(job'[v].id) : status'[t] = "ABSENT"
  <2>1. \A v \in Workers : pc'[v] = "llm" => v # w /\ pc[v] = "llm" /\ job'[v] = job[v]
    BY <1>3 DEF Typed, ActorsTyped, Actors
  <2>2. \A j \in PlanJobs : j.id \in Executions
    BY JobShapes
  <2> QED BY <1>2, <1>4, <1>5, <2>1, <2>2 DEF PlannerAlone
<1>8. \A v \in Workers : pc'[v] \in {"llm", "start"} => pc[v] \in {"llm", "start"}
  BY <1>1, <1>3 DEF Typed, ActorsTyped, Actors
<1> QED BY <1>3, <1>6, <1>7, <1>8, TaskOfExecution DEF PlannerAlone

\* No other step starts to plan or makes an execution new again.
LEMMA OtherPlanner ==
  ASSUME Typed,
         \/ ApiStep \/ FaultStep
         \/ \E w \in Workers : Dequeue(w) \/ ExecuteStep(w)
         \/ \E r \in Reapers : ReaperScan(r)
         \/ \E a \in Actors : RecoverStep(a) \/ PassStep(a)
         \/ \E p \in Promoters : PromoterStep(p)
         \/ \E t \in Tasks : Elapse(t)
  PROVE  PlannerQuiet
<1> USE DEF Typed, TablesTyped, ActorsTyped, PlannerQuiet
<1>1. CASE ApiStep
  BY <1>1 DEF ApiStep, CreateExecution, EnqueuePlan, ApiStops, actorVars
<1>2. CASE FaultStep
  <2>1. ASSUME NEW w \in Workers, PlanError(w) PROVE PlannerQuiet
    <3>1. job[w].id \in Executions
      BY <2>1, JobShapes DEF PlanError
    <3> QED BY <2>1, <3>1 DEF PlanError, Drop, Actors
  <2>2. ASSUME NEW a \in Actors, Crash(a) PROVE PlannerQuiet
    BY <2>2 DEF Crash, Drop, Actors
  <2> QED BY <1>2, <2>1, <2>2 DEF FaultStep, PromoterCrash, DuplicateDelivery, actorVars
<1>3. ASSUME NEW w \in Workers, Dequeue(w) PROVE PlannerQuiet
  BY <1>3 DEF Dequeue, Actors
<1>4. ASSUME NEW w \in Workers, ExecuteStep(w) PROVE PlannerQuiet
  BY <1>4 DEF ExecuteStep, Claim, CheckResult, PersistSuccess, FailAttempt, Drop, Actors
<1>5. ASSUME NEW r \in Reapers, ReaperScan(r) PROVE PlannerQuiet
  BY <1>5 DEF ReaperScan, Actors
<1>6. ASSUME NEW a \in Actors, RecoverStep(a) PROVE PlannerQuiet
  BY <1>6 DEF RecoverStep, Retry, Exhaust, Superseded, ScheduleRetry, DeadLetter, AfterRecovery, Actors
<1>7. ASSUME NEW a \in Actors, PassStep(a) PROVE PlannerQuiet
  <2>1. CASE FinalizeRead(a)
    BY <2>1 DEF FinalizeRead, Return, Actors
  <2>2. CASE FinalizeWrite(a)
    <3>1. pass[a].exec \in Executions
      BY <2>2 DEF FinalizeWrite, PointsMatch
    <3> QED BY <2>2, <3>1 DEF FinalizeWrite, Return, Actors
  <2>3. CASE RepeatPass(a) \/ PushTask(a)
    BY <2>3 DEF RepeatPass, PushTask, Actors
  <2>4. ASSUME NEW e \in affected[a], BeginPass(a, e) PROVE PlannerQuiet
    BY <2>4 DEF BeginPass, Actors
  <2>5. ASSUME NEW t \in pass[a].doomed, Cascade(a, t) PROVE PlannerQuiet
    BY <2>5 DEF Cascade, Actors
  <2>6. ASSUME NEW t \in pass[a].ready, MarkEnqueued(a, t) PROVE PlannerQuiet
    BY <2>6 DEF MarkEnqueued, Actors
  <2> QED BY <1>7, <2>1, <2>2, <2>3, <2>4, <2>5, <2>6 DEF PassStep
<1>8. ASSUME NEW p \in Promoters, PromoterStep(p) PROVE PlannerQuiet
  BY <1>8 DEF PromoterStep, QueueStep, actorVars
<1>9. ASSUME NEW t \in Tasks, Elapse(t) PROVE PlannerQuiet
  BY <1>9 DEF Elapse, QueueStep, LeaseExpires, actorVars
<1> QED BY <1>1, <1>2, <1>3, <1>4, <1>5, <1>6, <1>7, <1>8, <1>9

LEMMA PlannerStep ==
  ASSUME Typed, PlannerAlone, Next
  PROVE  PlannerAlone'
<1>1. CASE \E w \in Workers : GuardPlan(w)
  BY <1>1, GuardPlanner
<1>2. CASE \E w \in Workers : \E p \in Plans : InsertTasks(w, p)
  BY <1>2, InsertPlanner
<1>3. ASSUME NEW w \in Workers, StartExecution(w) PROVE PlannerAlone'
  <2>1. job[w].id \in Executions
    BY <1>3, JobShapes DEF StartExecution, Typed, PointsMatch, PlanPoints, Actors
  <2>2. PlannerQuiet
    BY <1>3, <2>1 DEF StartExecution, PlannerQuiet, Typed, TablesTyped, ActorsTyped, Actors
  <2>3. NoNewRows
    BY <1>3 DEF StartExecution, taskVars, NoNewRows
  <2> QED BY <2>2, <2>3, PlannerStays
<1>4. CASE /\ ~ \E w \in Workers : GuardPlan(w)
           /\ ~ \E w \in Workers : \E p \in Plans : InsertTasks(w, p)
           /\ ~ \E w \in Workers : StartExecution(w)
  <2>1. PlannerQuiet
    BY <1>4, OtherPlanner DEF Next, WorkerStep, ReaperStep, PlanStep, Actors
  <2>2. NoNewRows
    BY <1>4, RowsStep
  <2> QED BY <2>1, <2>2, PlannerStays
<1> QED BY <1>1, <1>2, <1>3, <1>4

-----------------------------------------------------------------------------
(* The jobs on their way.                                                  *)

LEMMA AppendElements ==
  ASSUME NEW S, NEW s \in Seq(S), NEW x \in S
  PROVE  \A i \in DOMAIN Append(s, x) :
           Append(s, x)[i] = x \/ (i \in DOMAIN s /\ Append(s, x)[i] = s[i])
  OBVIOUS

LEMMA TailElements ==
  ASSUME NEW S, NEW s \in Seq(S), s # <<>>
  PROVE  \A i \in DOMAIN Tail(s) : i + 1 \in DOMAIN s /\ Tail(s)[i] = s[i + 1]
  OBVIOUS

LEMMA JobsStay ==
  ASSUME Typed, RowsKept, JobsCleared, UNCHANGED <<queue, delayed, moving>>
  PROVE  JobsCleared'
  BY ClearedStays DEF JobsCleared

\* A job appended to the list is a plan job or that of a cleared task.
LEMMA EnqueueCleared ==
  ASSUME Typed, RowsKept, JobsCleared, NEW j \in Jobs,
         j \in TaskJobs => j.id \in Queued,
         queue' = Append(queue, j)
  PROVE  \A i \in DOMAIN queue' : queue'[i] \in TaskJobs => queue'[i].id \in Queued'
<1>1. queue \in Seq(Jobs)
  BY DEF Typed, QueueTypeOK
<1>2. \A i \in DOMAIN queue' : queue'[i] = j \/ (i \in DOMAIN queue /\ queue'[i] = queue[i])
  BY <1>1, AppendElements
<1> QED BY <1>2, ClearedStays DEF JobsCleared

LEMMA JobsStep ==
  ASSUME Typed, RowsKept, JobsCleared, HandsCleared, Next
  PROVE  JobsCleared'
<1> USE ClearedStays
<1>1. ASSUME NEW e \in Executions, EnqueuePlan(e) PROVE JobsCleared'
  <2>1. PlanJob(e) \in Jobs /\ PlanJob(e) \notin TaskJobs
    BY DEF Jobs, PlanJobs, PlanJob, TaskJobs, TaskJob
  <2>2. queue' = Append(queue, PlanJob(e)) /\ UNCHANGED <<delayed, moving>>
    BY <1>1 DEF EnqueuePlan, Enqueue, promoterVars
  <2> QED BY <2>1, <2>2, EnqueueCleared DEF JobsCleared
<1>2. ASSUME NEW w \in Workers, Dequeue(w) PROVE JobsCleared'
  <2>1. queue \in Seq(Jobs) /\ queue # <<>> /\ queue' = Tail(queue) /\ UNCHANGED <<delayed, moving>>
    BY <1>2 DEF Dequeue, Pop, promoterVars, Typed, QueueTypeOK
  <2>2. \A i \in DOMAIN queue' : i + 1 \in DOMAIN queue /\ queue'[i] = queue[i + 1]
    BY <2>1, TailElements
  <2> QED BY <2>1, <2>2 DEF JobsCleared
<1>3. ASSUME NEW a \in Actors, ScheduleRetry(a) PROVE JobsCleared'
  <2>1. pass[a].task \in Queued
    BY <1>3 DEF ScheduleRetry, HandsCleared, HandCleared
  <2> QED BY <1>3, <2>1 DEF ScheduleRetry, ScheduleTask, promoterVars, JobsCleared
<1>4. ASSUME NEW a \in Actors, PushTask(a) PROVE JobsCleared'
  <2>1. pass[a].task \in Queued /\ pass[a].task \in Tasks
    BY <1>4 DEF PushTask, HandsCleared, HandCleared, Queued, Cleared
  <2>2. TaskJob(pass[a].task) \in Jobs /\ TaskJob(pass[a].task).id = pass[a].task
    BY <2>1, JobShapes
  <2>3. queue' = Append(queue, TaskJob(pass[a].task)) /\ UNCHANGED <<delayed, moving>>
    BY <1>4 DEF PushTask, Enqueue, promoterVars
  <2> QED BY <2>1, <2>2, <2>3, EnqueueCleared DEF JobsCleared
<1>5. ASSUME NEW p \in Promoters, PromoterStep(p) PROVE JobsCleared'
  <2>1. CASE QueueStep(PromoteScan(p))
    BY <2>1, JobsStay DEF QueueStep, PromoteScan
  <2>2. ASSUME NEW t \in scan[p], QueueStep(PromoteRemove(p, t)) PROVE JobsCleared'
    BY <2>2 DEF QueueStep, PromoteRemove, JobsCleared, Typed, QueueTypeOK
  <2>3. CASE QueueStep(PromotePush(p))
    <3>1. moving[p] \in Queued /\ moving[p] \in Tasks
      BY <2>3 DEF QueueStep, PromotePush, JobsCleared, Queued, Cleared
    <3>2. TaskJob(moving[p]) \in Jobs /\ TaskJob(moving[p]).id = moving[p]
      BY <3>1, JobShapes
    <3>3. queue' = Append(queue, TaskJob(moving[p]))
      BY <2>3 DEF QueueStep, PromotePush
    <3> QED BY <2>3, <3>1, <3>2, <3>3, EnqueueCleared
            DEF QueueStep, PromotePush, JobsCleared, Typed, QueueTypeOK
  <2> QED BY <1>5, <2>1, <2>2, <2>3 DEF PromoterStep
<1>6. ASSUME NEW p \in Promoters, PromoterCrash(p) PROVE JobsCleared'
  BY <1>6 DEF PromoterCrash, PromoterStops, JobsCleared, Typed, QueueTypeOK
<1>7. ASSUME NEW i \in DOMAIN queue, DuplicateDelivery(i) PROVE JobsCleared'
  <2>1. queue[i] \in Jobs /\ (queue[i] \in TaskJobs => queue[i].id \in Queued)
    BY DEF Typed, QueueTypeOK, JobsCleared
  <2>2. queue' = Append(queue, queue[i]) /\ UNCHANGED <<delayed, moving>>
    BY <1>7 DEF DuplicateDelivery, Redeliver, promoterVars
  <2> QED BY <2>1, <2>2, EnqueueCleared DEF JobsCleared
<1>8. ASSUME \/ \E e \in Executions : CreateExecution(e) \/ ApiStops(e)
             \/ \E w \in Workers : PlanStep(w) \/ ExecuteStep(w) \/ PlanError(w)
             \/ \E r \in Reapers : ReaperScan(r)
             \/ \E t \in Tasks : Elapse(t)
             \/ \E a \in Actors : Crash(a)
      PROVE  UNCHANGED <<queue, delayed, moving>>
  BY <1>8 DEF CreateExecution, ApiStops, PlanStep, GuardPlan, InsertTasks, StartExecution,
     ExecuteStep, Claim, CheckResult, PersistSuccess, FailAttempt, PlanError, ReaperScan,
     Elapse, QueueStep, BecomeDue, LeaseExpires, Crash, queueVars, promoterVars
<1>9. ASSUME NEW a \in Actors, RecoverStep(a), ~ScheduleRetry(a)
      PROVE  UNCHANGED <<queue, delayed, moving>>
  BY <1>9 DEF RecoverStep, Retry, Exhaust, Superseded, DeadLetter, PushDeadLetter,
     queueVars, promoterVars
<1>10. ASSUME NEW a \in Actors, PassStep(a), ~PushTask(a)
       PROVE  UNCHANGED <<queue, delayed, moving>>
  BY <1>10 DEF PassStep, BeginPass, RepeatPass, Cascade, MarkEnqueued, FinalizeRead, FinalizeWrite,
     queueVars
<1>11. ASSUME NEW a \in Actors, RecoverStep(a) \/ PassStep(a) PROVE JobsCleared'
  BY <1>3, <1>4, <1>9, <1>10, <1>11, JobsStay
<1>12. CASE ApiStep
  BY <1>1, <1>8, <1>12, JobsStay DEF ApiStep
<1>13. CASE FaultStep
  BY <1>6, <1>7, <1>8, <1>13, JobsStay DEF FaultStep
<1> QED BY <1>2, <1>5, <1>8, <1>11, <1>12, <1>13, JobsStay DEF Next, WorkerStep, ReaperStep, Actors

-----------------------------------------------------------------------------
(* What the actors have in hand: a step changes one actor's, if any.       *)

OthersKeep(a) ==
  \A b \in Actors \ {a} : pc'[b] = pc[b] /\ job'[b] = job[b] /\ pass'[b] = pass[b]

LEMMA HandStays ==
  ASSUME Typed, RowsKept, NEW b \in Actors, HandCleared(b),
         pc'[b] = pc[b], job'[b] = job[b], pass'[b] = pass[b]
  PROVE  HandCleared(b)'
<1>1. pc[b] \in {"check", "run"} => /\ job[b].id \in Tasks
                                    /\ status[job[b].id] \notin {"ABSENT", "PENDING"}
  BY DEF HandCleared, Queued, Cleared
<1> QED BY <1>1, ClearedStays DEF HandCleared, RowsKept

LEMMA HandsStay ==
  ASSUME Typed, RowsKept, HandsCleared, NEW a \in Actors, OthersKeep(a), HandCleared(a)'
  PROVE  HandsCleared'
<1>1. ASSUME NEW b \in Actors, b # a PROVE HandCleared(b)'
  BY <1>1, HandStays DEF OthersKeep, HandsCleared
<1> QED BY <1>1 DEF HandsCleared

\* An actor has nothing in hand at a point where it is neither about to push
\* or delay a task nor working on one.
LEMMA HandEmpty ==
  ASSUME Typed, RowsKept, HandsCleared, NEW a \in Actors,
         pc'[a] \notin {"push", "zadd", "claim", "check", "run"},
         pass'[a].ready \subseteq pass[a].ready
  PROVE  HandCleared(a)'
  BY ClearedStays DEF HandsCleared, HandCleared

LEMMA IdleHand ==
  ASSUME Typed, RowsKept, HandsCleared, NEW a \in Actors, Drop(a) \/ Return(a)
  PROVE  HandsCleared'
<1>1. pc'[a] \notin {"push", "zadd", "claim", "check", "run"} /\ pass'[a].ready = {}
  BY DEF Drop, Return, NoPass, Typed, ActorsTyped
<1>2. OthersKeep(a)
  BY DEF Drop, Return, OthersKeep, Typed, ActorsTyped
<1> QED BY <1>1, <1>2, HandEmpty, HandsStay

LEMMA ExecuteHands ==
  ASSUME Typed, RowsKept, HandsCleared, NEW w \in Workers, ExecuteStep(w)
  PROVE  HandsCleared'
<1>0. w \in Actors /\ pc \in [Actors -> ControlPoints] /\ status \in [Tasks -> TaskStatuses]
  BY DEF Actors, Typed, ActorsTyped, TablesTyped
<1>1. CASE Claim(w)
  <2>1. CASE status[job[w].id] \notin Claimable
    BY <1>0, <1>1, <2>1, IdleHand DEF Claim
  <2>2. CASE status[job[w].id] \in Claimable
    <3>1. /\ pc[w] = "claim" /\ pc' = [pc EXCEPT ![w] = "check"]
          /\ status' = [status EXCEPT ![job[w].id] = "RUNNING"]
          /\ UNCHANGED <<job, pass>>
      BY <1>1, <2>2 DEF Claim
    <3>2. job[w].id \in Queued /\ job[w].id \in Tasks
      BY <1>0, <3>1 DEF HandsCleared, HandCleared, Queued, Cleared
    <3>3. HandCleared(w)'
      BY <1>0, <3>1, <3>2, ClearedStays DEF HandsCleared, HandCleared
    <3> QED BY <1>0, <3>1, <3>3, HandsStay DEF OthersKeep
  <2> QED BY <2>1, <2>2
<1>2. CASE CheckResult(w)
  <2>1. CASE pc' = [pc EXCEPT ![w] = "schedule"]
    BY <1>0, <1>2, <2>1, HandEmpty, HandsStay DEF CheckResult, OthersKeep
  <2>2. CASE pc' = [pc EXCEPT ![w] = "run"] /\ UNCHANGED status
    <3>1. pc[w] = "check" /\ UNCHANGED <<job, pass>>
      BY <1>2 DEF CheckResult
    <3>2. HandCleared(w)'
      BY <1>0, <2>2, <3>1, ClearedStays DEF HandsCleared, HandCleared
    <3> QED BY <1>0, <2>2, <3>1, <3>2, HandsStay DEF OthersKeep
  <2> QED BY <1>2, <2>1, <2>2 DEF CheckResult
<1>3. CASE PersistSuccess(w) \/ FailAttempt(w)
  <2>1. /\ pc'[w] \in {"schedule", "recover"}
        /\ UNCHANGED <<job, pass>>
        /\ OthersKeep(w)
    BY <1>0, <1>3 DEF PersistSuccess, FailAttempt, OthersKeep
  <2> QED BY <1>0, <2>1, HandEmpty, HandsStay
<1> QED BY <1>1, <1>2, <1>3 DEF ExecuteStep

LEMMA PlanHands ==
  ASSUME Typed, RowsKept, HandsCleared, NEW w \in Workers, PlanStep(w)
  PROVE  HandsCleared'
<1>0. w \in Actors /\ pc \in [Actors -> ControlPoints]
  BY DEF Actors, Typed, ActorsTyped
<1>1. CASE GuardPlan(w) /\ ~Unplanned(job[w].id)
  BY <1>0, <1>1, IdleHand DEF GuardPlan
<1>2. CASE ~(GuardPlan(w) /\ ~Unplanned(job[w].id))
  <2>1. pc'[w] \in {"llm", "start", "schedule"} /\ UNCHANGED <<job, pass>> /\ OthersKeep(w)
    BY <1>0, <1>2 DEF PlanStep, GuardPlan, InsertTasks, StartExecution, OthersKeep
  <2> QED BY <1>0, <2>1, HandEmpty, HandsStay
<1> QED BY <1>1, <1>2

\* A worker takes a task job from the list: its task is cleared.
LEMMA DequeueHands ==
  ASSUME Typed, RowsKept, JobsCleared, HandsCleared, NEW w \in Workers, Dequeue(w)
  PROVE  HandsCleared'
<1>0. w \in Actors /\ pc \in [Actors -> ControlPoints] /\ job \in [Actors -> Jobs \cup {None}]
  BY DEF Actors, Typed, ActorsTyped
<1>1. queue # <<>> /\ Head(queue) \in Jobs /\ Head(queue) = queue[1] /\ 1 \in DOMAIN queue
  BY DEF Dequeue, Pop, Typed, QueueTypeOK
<1>2. Head(queue).type # "plan" => Head(queue).id \in Queued
  <2>1. Head(queue).type # "plan" => Head(queue) \in TaskJobs
    BY <1>1 DEF Jobs, PlanJobs, PlanJob
  <2> QED BY <1>1, <2>1 DEF JobsCleared
<1>3. HandCleared(w)'
  BY <1>0, <1>2, ClearedStays DEF Dequeue, HandsCleared, HandCleared
<1> QED BY <1>0, <1>3, HandsStay DEF Dequeue, OthersKeep

LEMMA RecoverHands ==
  ASSUME Typed, RowsKept, HandsCleared, Started \subseteq Queued, NEW a \in Actors, RecoverStep(a)
  PROVE  HandsCleared'
<1>0. pc \in [Actors -> ControlPoints] /\ pass \in [Actors -> Passes]
  BY DEF Typed, ActorsTyped
<1>1. \A t \in Tasks \cup {None} : [pass[a] EXCEPT !.task = t].ready = pass[a].ready
  BY <1>0 DEF Passes
<1>2. ASSUME NEW x \in stale[a], Retry(a, x) PROVE HandsCleared'
  <2>1. x.task \in Queued
    BY <1>2 DEF Retry, StillRunning, Started, Typed, ActorsTyped, StaleReads
  <2>2. pass'[a].task = x.task /\ pass'[a].ready = pass[a].ready /\ pc'[a] = "zadd"
    BY <1>0, <1>2 DEF Retry, Passes
  <2>3. OthersKeep(a)
    BY <1>0, <1>2 DEF Retry, OthersKeep
  <2>4. HandCleared(a)'
    BY <2>1, <2>2, ClearedStays DEF HandsCleared, HandCleared
  <2> QED BY <2>3, <2>4, HandsStay
<1>3. ASSUME NEW x \in stale[a], Exhaust(a, x) \/ Superseded(a, x) PROVE HandsCleared'
  <2>1. pass'[a].ready = pass[a].ready /\ pc'[a] \in {"dlq", "schedule", "recover"}
    BY <1>0, <1>3 DEF Exhaust, Superseded, AfterRecovery, Passes
  <2>2. OthersKeep(a)
    BY <1>0, <1>3 DEF Exhaust, Superseded, OthersKeep
  <2> QED BY <2>1, <2>2, HandEmpty, HandsStay
<1>4. CASE ScheduleRetry(a) \/ DeadLetter(a)
  <2>1. pass'[a].ready = pass[a].ready /\ pc'[a] \in {"schedule", "recover"}
    BY <1>0, <1>4 DEF ScheduleRetry, DeadLetter, AfterRecovery, Passes
  <2>2. OthersKeep(a)
    BY <1>0, <1>4 DEF ScheduleRetry, DeadLetter, OthersKeep
  <2> QED BY <2>1, <2>2, HandEmpty, HandsStay
<1> QED BY <1>2, <1>3, <1>4 DEF RecoverStep

LEMMA PassHands ==
  ASSUME Typed, RowsKept, HandsCleared, NEW a \in Actors, PassStep(a)
  PROVE  HandsCleared'
<1>0. /\ pc \in [Actors -> ControlPoints] /\ pass \in [Actors -> Passes]
      /\ affected \in [Actors -> SUBSET Executions]
  BY DEF Typed, ActorsTyped
<1>1. \A e \in Executions : Snapshot(e).ready \subseteq Cleared
  BY SnapshotType DEF Cleared, Rows
<1>2. ASSUME NEW e \in Executions, pass' = [pass EXCEPT ![a] = Snapshot(e)], pc'[a] = "pass",
             OthersKeep(a)
      PROVE  HandsCleared'
  <2>1. HandCleared(a)'
    BY <1>0, <1>1, <1>2, ClearedStays DEF HandCleared
  <2> QED BY <1>2, <2>1, HandsStay
<1>3. ASSUME NEW e \in affected[a], BeginPass(a, e) PROVE HandsCleared'
  BY <1>0, <1>2, <1>3 DEF BeginPass, OthersKeep
<1>4. CASE RepeatPass(a)
  BY <1>0, <1>2, <1>4 DEF RepeatPass, LoopDone, OthersKeep, Typed, PointsMatch
<1>5. ASSUME NEW t \in pass[a].doomed, Cascade(a, t) PROVE HandsCleared'
  <2>1. pass'[a].ready = pass[a].ready /\ pc'[a] = "pass" /\ OthersKeep(a)
    BY <1>0, <1>5 DEF Cascade, OthersKeep, Passes
  <2> QED BY <2>1, HandEmpty, HandsStay
<1>6. ASSUME NEW t \in pass[a].ready, MarkEnqueued(a, t) PROVE HandsCleared'
  <2>1. t \in Cleared
    BY DEF HandsCleared, HandCleared
  <2>2. /\ pass'[a].ready = pass[a].ready \ {t}
        /\ pc'[a] = "pass" \/ (pc'[a] = "push" /\ pass'[a].task = t)
        /\ OthersKeep(a)
        /\ enqueued'[t]
    BY <1>0, <1>6, <2>1 DEF MarkEnqueued, OthersKeep, Passes, Cleared, Typed, TablesTyped
  <2>3. t \in Queued'
    BY <2>1, <2>2, ClearedStays DEF Queued
  <2>4. HandCleared(a)'
    BY <2>2, <2>3, ClearedStays DEF HandsCleared, HandCleared
  <2> QED BY <2>2, <2>4, HandsStay
<1>7. CASE PushTask(a)
  <2>1. pass'[a].ready = pass[a].ready /\ pc'[a] = "pass" /\ OthersKeep(a)
    BY <1>0, <1>7 DEF PushTask, OthersKeep, Passes
  <2> QED BY <2>1, HandEmpty, HandsStay
<1>8. CASE FinalizeRead(a)
  <2>1. CASE Return(a)
    BY <2>1, IdleHand
  <2>2. CASE UNCHANGED <<job, pass>> /\ \E v \in {"complete", "fail"} : pc' = [pc EXCEPT ![a] = v]
    BY <1>0, <2>2, HandEmpty, HandsStay DEF OthersKeep
  <2> QED BY <1>8, <2>1, <2>2 DEF FinalizeRead
<1>9. CASE FinalizeWrite(a)
  BY <1>9, IdleHand DEF FinalizeWrite
<1> QED BY <1>3, <1>4, <1>5, <1>6, <1>7, <1>8, <1>9 DEF PassStep

LEMMA HandsStep ==
  ASSUME Typed, RowsKept, JobsCleared, HandsCleared, Started \subseteq Queued, Next
  PROVE  HandsCleared'
<1>1. ASSUME UNCHANGED actorVars PROVE HandsCleared'
  BY <1>1, HandStays DEF HandsCleared, actorVars
<1>2. ASSUME NEW w \in Workers, WorkerStep(w) PROVE HandsCleared'
  BY <1>2, DequeueHands, PlanHands, ExecuteHands, RecoverHands, PassHands DEF WorkerStep, Actors
<1>3. ASSUME NEW r \in Reapers, ReaperStep(r) PROVE HandsCleared'
  <2>1. CASE ReaperScan(r)
    <3>1. r \in Actors
      BY DEF Actors
    <3>2. pc'[r] = "recover" /\ UNCHANGED <<job, pass>> /\ OthersKeep(r)
      BY <2>1, <3>1 DEF ReaperScan, OthersKeep, Typed, ActorsTyped
    <3> QED BY <3>1, <3>2, HandEmpty, HandsStay
  <2> QED BY <1>3, <2>1, RecoverHands, PassHands DEF ReaperStep, Actors
<1>4. CASE FaultStep
  <2>1. ASSUME NEW a \in Actors, Drop(a) PROVE HandsCleared'
    BY <2>1, IdleHand
  <2> QED BY <1>1, <1>4, <2>1
          DEF FaultStep, PlanError, Crash, PromoterCrash, DuplicateDelivery, Actors
<1>5. CASE ApiStep \/ (\E p \in Promoters : PromoterStep(p)) \/ (\E t \in Tasks : Elapse(t))
  <2>1. UNCHANGED actorVars
    BY <1>5 DEF ApiStep, CreateExecution, EnqueuePlan, ApiStops, PromoterStep, Elapse, QueueStep,
       LeaseExpires
  <2> QED BY <1>1, <2>1
<1> QED BY <1>2, <1>3, <1>4, <1>5 DEF Next

-----------------------------------------------------------------------------
(* The tasks that have been started, and the outputs.                      *)

\* Only a claim starts a task.
LEMMA StartedStep ==
  ASSUME Typed, PlannerAlone, RowsKept, HandsCleared, Started \subseteq Queued, Next
  PROVE  (Started \subseteq Queued)'
<1> SUFFICES Started' \subseteq Started \cup Queued
  BY ClearedStays
<1> USE DEF Started
<1>1. UNCHANGED status => Started' = Started
  OBVIOUS
<1>2. ASSUME NEW w \in Workers, ExecuteStep(w) PROVE Started' \subseteq Started \cup Queued
  <2>1. Claim(w) => Started' \subseteq Started \cup Queued
    <3>1. Claim(w) => job[w].id \in Queued
      BY DEF Claim, HandsCleared, HandCleared, Actors
    <3> QED BY <3>1 DEF Claim, Typed, TablesTyped
  <2>2. CheckResult(w) \/ PersistSuccess(w) => Started' \subseteq Started
    BY DEF CheckResult, PersistSuccess, Persistable, Typed, TablesTyped
  <2>3. FailAttempt(w) => UNCHANGED status
    BY DEF FailAttempt, taskVars
  <2> QED BY <1>1, <1>2, <2>1, <2>2, <2>3 DEF ExecuteStep
<1>3. ASSUME NEW a \in Actors, RecoverStep(a) PROVE Started' \subseteq Started
  BY <1>1, <1>3 DEF RecoverStep, Retry, Exhaust, Superseded, ScheduleRetry, DeadLetter, StillRunning,
     taskVars, Typed, TablesTyped
<1>4. ASSUME NEW a \in Actors, PassStep(a) PROVE Started' \subseteq Started
  BY <1>1, <1>4 DEF PassStep, BeginPass, RepeatPass, Cascade, MarkEnqueued, PushTask, FinalizeRead,
     FinalizeWrite, taskVars, Typed, TablesTyped
<1>5. ASSUME NEW w \in Workers, NEW p \in Plans, InsertTasks(w, p) PROVE Started' \subseteq Started
  BY <1>5 DEF InsertTasks
<1> QED BY <1>1, <1>2, <1>3, <1>4, <1>5, QuietRows DEF Next, WorkerStep, ReaperStep, PlanStep, Actors

LEMMA ResultsStep ==
  ASSUME Typed, RowsKept, HandsCleared, ResultsMatchStatus, Next
  PROVE  ResultsMatchStatus'
<1> USE DEF ResultsMatchStatus
<1>1. UNCHANGED <<status, result>> => ResultsMatchStatus'
  OBVIOUS
<1>2. ASSUME NEW w \in Workers, ExecuteStep(w) PROVE ResultsMatchStatus'
  <2>1. job[w].id \in Tasks
    BY <1>2, JobShapes
    DEF ExecuteStep, Claim, CheckResult, PersistSuccess, FailAttempt, Typed, PointsMatch, Actors
  <2> USE DEF Typed, TablesTyped, TaskStatuses, Terminal
  <2>2. Claim(w) => ResultsMatchStatus'
    BY <2>1 DEF Claim, Claimable
  <2>3. CheckResult(w) => ResultsMatchStatus'
    BY <2>1 DEF CheckResult
  <2>4. PersistSuccess(w) => ResultsMatchStatus'
    <3>1. PersistSuccess(w) => status[job[w].id] \notin {"ABSENT", "PENDING"}
      BY DEF PersistSuccess, HandsCleared, HandCleared, Queued, Cleared, Actors
    <3> QED BY <2>1, <3>1 DEF PersistSuccess, Persistable
  <2>5. FailAttempt(w) => ResultsMatchStatus'
    BY DEF FailAttempt, taskVars
  <2> QED BY <1>2, <2>2, <2>3, <2>4, <2>5 DEF ExecuteStep
<1>3. ASSUME NEW a \in Actors, RecoverStep(a) PROVE ResultsMatchStatus'
  <2>1. \A x \in stale[a] : x.task \in Tasks
    BY DEF Typed, ActorsTyped, StaleReads
  <2> USE DEF Typed, TablesTyped, Terminal
  <2>2. ASSUME NEW x \in stale[a], Retry(a, x) \/ Exhaust(a, x) PROVE ResultsMatchStatus'
    BY <2>1, <2>2 DEF Retry, Exhaust, StillRunning
  <2> QED BY <1>1, <1>3, <2>2 DEF RecoverStep, Superseded, ScheduleRetry, DeadLetter, taskVars
<1>4. ASSUME NEW a \in Actors, PassStep(a) PROVE ResultsMatchStatus'
  <2>1. ASSUME NEW t \in pass[a].doomed, Cascade(a, t) PROVE ResultsMatchStatus'
    BY <2>1 DEF Cascade, Typed, TablesTyped, Terminal
  <2> QED BY <1>1, <1>4, <2>1 DEF PassStep, BeginPass, RepeatPass, MarkEnqueued, PushTask,
          FinalizeRead, FinalizeWrite, taskVars
<1>5. ASSUME NEW w \in Workers, NEW p \in Plans, InsertTasks(w, p) PROVE ResultsMatchStatus'
  BY <1>5 DEF InsertTasks, RowsKept
<1> QED BY <1>1, <1>2, <1>3, <1>4, <1>5, QuietRows DEF Next, WorkerStep, ReaperStep, PlanStep, Actors

-----------------------------------------------------------------------------
(* The theorems.                                                           *)

LEMMA SafeStep == SafeInv /\ [Next]_vars => SafeInv'
<1>1. ASSUME SafeInv, Next PROVE SafeInv'
  <2>1. Typed'
    BY <1>1, TypedStep DEF SafeInv
  <2>2. RowsKept
    BY <1>1, RowsStep DEF SafeInv
  <2> QED BY <1>1, <2>1, <2>2, PlannerStep, JobsStep, HandsStep, StartedStep, ResultsStep DEF SafeInv
<1>2. ASSUME SafeInv, UNCHANGED vars PROVE SafeInv'
  <2>1. Typed'
    BY <1>2, TypedStep DEF SafeInv
  <2>2. RowsKept /\ NoNewRows /\ PlannerQuiet
    BY <1>2 DEF vars, taskVars, actorVars, RowsKept, NoNewRows, PlannerQuiet
  <2>3. PlannerAlone' /\ JobsCleared'
    BY <1>2, <2>2, PlannerStays, JobsStay DEF SafeInv, vars, queueVars
  <2>4. HandsCleared'
    BY <1>2, <2>2, HandStays DEF SafeInv, HandsCleared, vars, actorVars
  <2>5. (Started \subseteq Queued)' /\ ResultsMatchStatus'
    BY <1>2, <2>2, ClearedStays DEF SafeInv, Started, ResultsMatchStatus, vars, taskVars
  <2> QED BY <2>1, <2>3, <2>4, <2>5 DEF SafeInv
<1> QED BY <1>1, <1>2

LEMMA SafeInvariant == Spec => []SafeInv
  BY InitSafe, SafeStep, PTL DEF Spec

\* No agent is ever started before the tasks it depends on have completed and
\* stored their outputs.
THEOREM DependenciesComeFirst == Spec => []DependenciesFirst
<1>1. SafeInv => DependenciesFirst
  <2> SUFFICES ASSUME SafeInv, NEW w \in Workers, pc[w] = "run", NEW d \in Deps(job[w].id)
               PROVE  status[d] = "COMPLETED" /\ result[d]
    BY DEF DependenciesFirst
  <2>1. job[w].id \in Queued
    BY DEF SafeInv, HandsCleared, HandCleared, Actors
  <2>2. d \in Tasks /\ status[d] = "COMPLETED"
    BY <2>1 DEF Queued, Cleared, DepsCompleted, Deps, ExecutionOf, Tasks, SafeInv, Typed, TablesTyped
  <2> QED BY <2>2 DEF SafeInv, ResultsMatchStatus
<1> QED BY <1>1, SafeInvariant, PTL

\* A completed task has an output, and an output belongs to a task that has
\* ended.
THEOREM ResultsStored == Spec => []ResultsMatchStatus
<1>1. SafeInv => ResultsMatchStatus
  BY DEF SafeInv
<1> QED BY <1>1, SafeInvariant, PTL

\* A plan is inserted once and no task row ever returns to PENDING.
THEOREM PlansInsertedOnce == Spec => PlannedOnce
<1>1. SafeInv /\ [Next]_vars =>
        [\A t \in Tasks :
           status[t] # "ABSENT" =>
             /\ deps'[t] = deps[t]
             /\ status'[t] # "ABSENT"
             /\ status'[t] = "PENDING" => status[t] = "PENDING"]_vars
  BY RowsStep DEF SafeInv, RowsKept
<1> QED BY <1>1, SafeInvariant, PTL DEF Spec, PlannedOnce
=============================================================================
