-------------------------- MODULE RefinementProofs --------------------------
(***************************************************************************)
(* Queue mode implements ExecutionLifecycle: whatever its workers, reapers *)
(* and promoters do, read late or lose, the rows of executions, tasks and  *)
(* results change only as the abstract rules allow.  What has to be shown  *)
(* is that facts an actor established when it looked are still true when   *)
(* it writes.                                                              *)
(***************************************************************************)
EXTENDS SchedulerProofs

\* Planning fails, if at all, before its scheduling pass: without this the
\* refinement is false, as the run verdict_overwritten shows.  A second delivery
\* of a plan job that fails before its guard would overwrite a verdict as well.
ErrorsWhilePlanning ==
  /\ ErrorPoints \subseteq PlanPoints
  /\ "guard" \in ErrorPoints => ~Redelivery

Unstarted(e) == \A t \in Rows(e) : status[t] = "PENDING"
Settled(e) == \A t \in Rows(e) : status[t] \in Terminal
AllCompleted(e) == \A t \in Rows(e) : status[t] = "COMPLETED"
SomeFailed(e) == \E t \in Rows(e) : status[t] = "FAILED"

\* The executions whose plan is complete and whose tasks may be worked on, or
\* have been until all of them ended.
Launched ==
  {e \in Executions :
     /\ Rows(e) # {}
     /\ execStatus[e] = "RUNNING" \/ (execStatus[e] \in Terminal /\ Settled(e))}

\* What the status of an execution says of its tasks.
ExecutionsMatch ==
  \A e \in Executions :
    /\ execStatus[e] = "PLANNING" => Unstarted(e)
    /\ execStatus[e] = "RUNNING" => Rows(e) # {}
    /\ execStatus[e] = "COMPLETED" => Rows(e) # {} /\ AllCompleted(e)
    /\ execStatus[e] = "FAILED" =>
         \/ ErrorPoints # {} /\ Unstarted(e)
         \/ Settled(e) /\ SomeFailed(e)

\* A worker that is planning has the execution to itself.
PlannerMatch(w) ==
  pc[w] \in {"llm", "start"} =>
    /\ execStatus[job[w].id] = "PLANNING"
    /\ pc[w] = "start" => Rows(job[w].id) # {}

PlannersMatch == \A w \in Workers : PlannerMatch(w)

\* A worker that has a plan job and has not looked at its execution yet.
AtGuard(w, e) == pc[w] = "guard" /\ job[w] = PlanJob(e)

\* A plan job that is on its way is in one place only, and its execution is
\* waiting for it.
PlanJobAlone(e) ==
  /\ PlanComing(e) => execStatus[e] = "PENDING"
  /\ e \in apiPending => /\ \A i \in DOMAIN queue : queue[i] # PlanJob(e)
                         /\ \A w \in Workers : ~AtGuard(w, e)
  /\ \A i \in DOMAIN queue : queue[i] = PlanJob(e) =>
       /\ \A j \in DOMAIN queue : queue[j] = PlanJob(e) => i = j
       /\ \A w \in Workers : ~AtGuard(w, e)
  /\ \A v, w \in Workers : AtGuard(v, e) /\ AtGuard(w, e) => v = w

PlanJobsAlone == ~Redelivery => \A e \in Executions : PlanJobAlone(e)

\* Only tasks of launched executions are ever queued.
EnqueuedLaunched ==
  \A t \in Tasks : enqueued[t] => status[t] # "ABSENT" /\ ExecutionOf(t) \in Launched

\* Scheduling passes are over launched executions, and what they have decided
\* about tasks and verdicts stays right until they write it.
PassLaunched(a) ==
  /\ affected[a] \subseteq Launched
  /\ pc[a] \in {"pass", "push", "complete", "fail"} => pass[a].exec \in Launched
  /\ \A t \in pass[a].ready \cup pass[a].doomed :
       status[t] # "ABSENT" /\ ExecutionOf(t) \in Launched
  /\ \A t \in pass[a].doomed : DepFailed(t)
  /\ pc[a] = "complete" => AllCompleted(pass[a].exec)
  /\ pc[a] = "fail" => Settled(pass[a].exec) /\ SomeFailed(pass[a].exec)

PassesLaunched == \A a \in Actors : PassLaunched(a)

RefInv ==
  /\ SafeInv
  /\ ExecutionsMatch
  /\ PlannersMatch
  /\ PlanJobsAlone
  /\ EnqueuedLaunched
  /\ PassesLaunched

\* The words of the abstract specification are those of Scheduler.
LEMMA SameWords ==
  /\ Lifecycle!Tasks = Tasks /\ Lifecycle!Terminal = Terminal
  /\ \A e : Lifecycle!Rows(e) = Rows(e)
  /\ \A t : Lifecycle!Deps(t) = Deps(t) /\ Lifecycle!ExecutionOf(t) = ExecutionOf(t)
  BY DEF Lifecycle!Tasks, Tasks, Lifecycle!Index, Index, Lifecycle!Terminal, Terminal,
     Lifecycle!Rows, Rows, Lifecycle!TasksOf, TasksOf, Lifecycle!Deps, Deps,
     Lifecycle!ExecutionOf, ExecutionOf

LEMMA InitRefines == Init => RefInv /\ Lifecycle!Init
<1> SUFFICES ASSUME Init PROVE RefInv /\ Lifecycle!Init
  OBVIOUS
<1>1. ExecutionsMatch /\ EnqueuedLaunched
  BY DEF Init, ExecutionsMatch, EnqueuedLaunched
<1>2. PlannersMatch /\ PassesLaunched
  BY DEF Init, PlannersMatch, PlannerMatch, PassesLaunched, PassLaunched, NoPass, Actors
<1>3. PlanJobsAlone
  BY DEF Init, QueueInit, PlanJobsAlone, PlanJobAlone, PlanComing, AtGuard, Actors
<1>4. Lifecycle!Init
  BY SameWords DEF Init, Lifecycle!Init
<1> QED BY <1>1, <1>2, <1>3, <1>4, InitSafe DEF RefInv

-----------------------------------------------------------------------------
(* Every step is a rule of ExecutionLifecycle, or changes no row.          *)

LifecycleRule ==
  \/ \E e \in Executions :
       \/ Lifecycle!Create(e)
       \/ Lifecycle!BeginPlanning(e)
       \/ ErrorPoints # {} /\ Lifecycle!FailPlanning(e)
       \/ \E p \in Plans : Lifecycle!Plan(e, p)
       \/ Lifecycle!Begin(e)
       \/ Lifecycle!Finish(e)
  \/ \E t \in Tasks : Lifecycle!TaskStep(t)
  \/ UNCHANGED <<execStatus, status, deps, result>>

\* A task that is cleared cannot be doomed.
LEMMA ClearedNotDoomed ==
  ASSUME NEW t \in Cleared PROVE ~DepFailed(t)
  BY DEF Cleared, DepsCompleted, DepFailed

\* Work belongs to executions that are RUNNING.
LEMMA WorkLaunched ==
  ASSUME RefInv, NEW t \in Tasks, enqueued[t] \/ status[t] \in {"RUNNING", "RETRYING"},
         status[t] \notin Terminal
  PROVE  execStatus[ExecutionOf(t)] = "RUNNING"
<1>1. enqueued[t]
  BY DEF RefInv, SafeInv, Started, Queued
<1>2. ExecutionOf(t) \in Launched /\ status[t] # "ABSENT"
  BY <1>1 DEF RefInv, EnqueuedLaunched
<1>3. t \in Rows(ExecutionOf(t))
  BY <1>2, TaskOfExecution DEF Rows
<1> QED BY <1>2, <1>3 DEF Launched, Settled

LEMMA PlanRule ==
  ASSUME RefInv, NEW w \in Workers, PlanStep(w)
  PROVE  LifecycleRule
<1> DEFINE e == job[w].id
<1>0. e \in Executions
  BY JobShapes
  DEF PlanStep, GuardPlan, InsertTasks, StartExecution, RefInv, SafeInv, Typed, PointsMatch,
      PlanPoints, Actors
<1>1. CASE GuardPlan(w)
  <2>1. Lifecycle!BeginPlanning(e) \/ UNCHANGED <<execStatus, status, deps, result>>
    BY <1>1 DEF GuardPlan, Unplanned, taskVars, Lifecycle!BeginPlanning, Lifecycle!MoveExecution
  <2> QED BY <1>0, <2>1 DEF LifecycleRule
<1>2. ASSUME NEW p \in Plans, InsertTasks(w, p) PROVE LifecycleRule
  <2>1. execStatus[e] = "PLANNING" /\ Rows(e) = {}
    BY <1>2 DEF InsertTasks, RefInv, SafeInv, PlannersMatch, PlannerMatch, PlannerAlone, Rows
  <2>2. {<<e, i>> : i \in DOMAIN p} = {e} \X DOMAIN p
    OBVIOUS
  <2>3. Lifecycle!Plan(e, p)
    BY <1>2, <2>1, <2>2, SameWords DEF InsertTasks, Lifecycle!Plan
  <2> QED BY <1>0, <2>3 DEF LifecycleRule
<1>3. CASE StartExecution(w)
  <2>1. execStatus[e] = "PLANNING" /\ Rows(e) # {}
    BY <1>3 DEF StartExecution, RefInv, PlannersMatch, PlannerMatch
  <2>2. Lifecycle!Begin(e)
    BY <1>3, <2>1, SameWords
    DEF StartExecution, taskVars, Lifecycle!Begin, Lifecycle!MoveExecution, RefInv, SafeInv, Typed,
        TablesTyped
  <2> QED BY <1>0, <2>2 DEF LifecycleRule
<1> QED BY <1>1, <1>2, <1>3 DEF PlanStep

\* A planning error finds the execution as the plan job or the worker left it.
LEMMA ErrorFindsPlanning ==
  ASSUME ErrorsWhilePlanning, RefInv, NEW w \in Workers, PlanError(w)
  PROVE  /\ pc[w] = "guard" => execStatus[job[w].id] = "PENDING"
         /\ pc[w] # "guard" => pc[w] \in {"llm", "start"} /\ execStatus[job[w].id] = "PLANNING"
<1>1. pc[w] \in PlanPoints
  BY DEF PlanError, ErrorsWhilePlanning
<1>2. CASE pc[w] = "guard"
  <2>1. PICK e \in Executions : job[w] = PlanJob(e) /\ job[w].id = e
    BY JobShapes DEF PlanError, PlanJobs
  <2>2. ~Redelivery /\ PlanComing(e)
    BY <1>2, <2>1 DEF PlanError, ErrorsWhilePlanning, PlanComing
  <2> QED BY <1>2, <2>1, <2>2 DEF RefInv, PlanJobsAlone, PlanJobAlone
<1>3. CASE pc[w] # "guard"
  BY <1>1, <1>3 DEF PlanPoints, RefInv, PlannersMatch, PlannerMatch
<1> QED BY <1>2, <1>3

LEMMA ErrorRule ==
  ASSUME ErrorsWhilePlanning, RefInv, FaultStep
  PROVE  LifecycleRule
<1>1. ASSUME NEW w \in Workers, PlanError(w) PROVE LifecycleRule
  <2>1. ErrorPoints # {} /\ job[w].id \in Executions
    BY <1>1, JobShapes DEF PlanError
  <2>2. execStatus[job[w].id] \in {"PENDING", "PLANNING"}
    BY <1>1, ErrorFindsPlanning
  <2>3. Lifecycle!FailPlanning(job[w].id)
    BY <1>1, <2>2 DEF PlanError, taskVars, Lifecycle!FailPlanning, Lifecycle!MoveExecution
  <2> QED BY <2>1, <2>3 DEF LifecycleRule
<1> QED BY <1>1 DEF FaultStep, Crash, PromoterCrash, DuplicateDelivery, taskVars, LifecycleRule

LEMMA ExecuteRule ==
  ASSUME RefInv, NEW w \in Workers, ExecuteStep(w)
  PROVE  LifecycleRule
<1> DEFINE t == job[w].id
<1>0. /\ t \in Tasks /\ Typed
      /\ status \in [Tasks -> TaskStatuses] /\ result \in [Tasks -> BOOLEAN]
  BY JobShapes
  DEF ExecuteStep, Claim, CheckResult, PersistSuccess, FailAttempt, RefInv, SafeInv, Typed,
      TablesTyped, PointsMatch, Actors
<1>1. pc[w] \in {"claim", "check", "run"} => t \in Queued /\ DepsCompleted(t) /\ enqueued[t]
  BY DEF RefInv, SafeInv, HandsCleared, HandCleared, Queued, Cleared, Actors
<1>2. ResultsMatchStatus
  BY DEF RefInv, SafeInv
<1> HIDE DEF t
<1>3. CASE Claim(w)
  <2>1. CASE status[t] \in Claimable
    <3>1. execStatus[ExecutionOf(t)] = "RUNNING"
      BY <1>0, <1>1, <1>3, <2>1, WorkLaunched DEF Claim, Claimable, Terminal
    <3>2. Lifecycle!Claim(t)
      BY <1>1, <1>3, <2>1, <3>1, SameWords
      DEF Claim, Claimable, DepsCompleted, Lifecycle!Claim, Lifecycle!MoveTask, t
    <3> QED BY <1>0, <3>2 DEF LifecycleRule, Lifecycle!TaskStep
  <2>2. CASE status[t] \notin Claimable
    BY <1>3, <2>2 DEF Claim, LifecycleRule, t
  <2> QED BY <2>1, <2>2
<1>4. CASE CheckResult(w)
  <2>1. UNCHANGED <<execStatus, status, deps, result>>
    <3>1. result[t] => status[t] # "RUNNING"
      BY <1>0, <1>2 DEF ResultsMatchStatus, Terminal
    <3> QED BY <1>0, <1>4, <3>1 DEF CheckResult, t
  <2> QED BY <2>1 DEF LifecycleRule
<1>5. CASE PersistSuccess(w)
  <2>0. /\ status' = [status EXCEPT ![t] = IF @ \in Persistable THEN "COMPLETED" ELSE @]
        /\ result' = [result EXCEPT ![t] = TRUE]
        /\ UNCHANGED <<execStatus, deps>>
        /\ status[t] # "ABSENT" /\ status[t] # "PENDING"
    BY <1>5 DEF PersistSuccess, RefInv, SafeInv, HandsCleared, HandCleared, Queued, Cleared, Actors, t
  <2>1. CASE status[t] \in Persistable
    <3>1. execStatus[ExecutionOf(t)] = "RUNNING"
      BY <1>0, <2>1, WorkLaunched DEF Persistable, Terminal
    <3>2. Lifecycle!Complete(t)
      BY <2>0, <2>1, <3>1, SameWords DEF Persistable, Lifecycle!Complete, Lifecycle!MoveTask
    <3> QED BY <1>0, <3>2 DEF LifecycleRule, Lifecycle!TaskStep
  <2>2. CASE status[t] = "FAILED"
    <3>1. status' = status
      BY <1>0, <2>0, <2>2 DEF Persistable
    <3>2. Lifecycle!LateResult(t)
      BY <2>0, <2>2, <3>1 DEF Lifecycle!LateResult
    <3> QED BY <1>0, <3>2 DEF LifecycleRule, Lifecycle!TaskStep
  <2>3. CASE status[t] = "COMPLETED"
    <3>1. status' = status /\ result' = result
      BY <1>0, <1>2, <2>0, <2>3 DEF Persistable, ResultsMatchStatus
    <3> QED BY <2>0, <3>1 DEF LifecycleRule
  <2> QED BY <1>0, <2>0, <2>1, <2>2, <2>3 DEF TaskStatuses, Persistable
<1>6. CASE FailAttempt(w)
  BY <1>6 DEF FailAttempt, taskVars, LifecycleRule
<1> QED BY <1>3, <1>4, <1>5, <1>6 DEF ExecuteStep

LEMMA RecoverRule ==
  ASSUME RefInv, NEW a \in Actors, RecoverStep(a)
  PROVE  LifecycleRule
<1>1. ASSUME NEW x \in stale[a], Retry(a, x) \/ Exhaust(a, x) PROVE LifecycleRule
  <2>1. x.task \in Tasks /\ status[x.task] = "RUNNING"
    BY <1>1 DEF Retry, Exhaust, StillRunning, RefInv, SafeInv, Typed, ActorsTyped, StaleReads
  <2>2. execStatus[ExecutionOf(x.task)] = "RUNNING"
    BY <2>1, WorkLaunched DEF Terminal
  <2>3. Lifecycle!Retry(x.task) \/ Lifecycle!Exhaust(x.task)
    BY <1>1, <2>1, <2>2, SameWords
    DEF Retry, Exhaust, Lifecycle!Retry, Lifecycle!Exhaust, Lifecycle!MoveTask
  <2> QED BY <2>1, <2>3 DEF LifecycleRule, Lifecycle!TaskStep
<1>2. ASSUME NEW x \in stale[a], Superseded(a, x) PROVE LifecycleRule
  BY <1>2 DEF Superseded, taskVars, LifecycleRule
<1>3. CASE ScheduleRetry(a) \/ DeadLetter(a)
  BY <1>3 DEF ScheduleRetry, DeadLetter, taskVars, LifecycleRule
<1> QED BY <1>1, <1>2, <1>3 DEF RecoverStep

LEMMA PassRule ==
  ASSUME RefInv, NEW a \in Actors, PassStep(a)
  PROVE  LifecycleRule
<1>0. PassLaunched(a) /\ pass[a].doomed \subseteq Tasks
  BY DEF RefInv, PassesLaunched, SafeInv, Typed, ActorsTyped, Passes
<1>1. ASSUME NEW t \in pass[a].doomed, Cascade(a, t) PROVE LifecycleRule
  <2>1. t \in Tasks /\ DepFailed(t) /\ ExecutionOf(t) \in Launched
    BY <1>0 DEF PassLaunched
  <2>2. CASE status[t] = "PENDING"
    <3>1. t \in Rows(ExecutionOf(t))
      BY <2>1, <2>2, TaskOfExecution DEF Rows
    <3>2. execStatus[ExecutionOf(t)] = "RUNNING"
      BY <2>1, <2>2, <3>1 DEF Launched, Settled, Terminal
    <3>3. Lifecycle!Skip(t)
      BY <1>1, <2>1, <2>2, <3>2, SameWords
      DEF Cascade, DepFailed, Lifecycle!Skip, Lifecycle!MoveTask
    <3> QED BY <2>1, <3>3 DEF LifecycleRule, Lifecycle!TaskStep
  <2>3. CASE status[t] # "PENDING"
    BY <1>1, <2>3 DEF Cascade, LifecycleRule
  <2> QED BY <2>2, <2>3
<1>2. CASE FinalizeWrite(a)
  <2> DEFINE e == pass[a].exec
  <2>1. e \in Launched /\ e \in Executions
    BY <1>0, <1>2 DEF FinalizeWrite, PassLaunched, Launched
  <2>2. CASE execStatus[e] = "RUNNING"
    <3>1. Rows(e) # {} /\ Settled(e)
      BY <1>0, <1>2, <2>1 DEF FinalizeWrite, PassLaunched, Launched, Settled, AllCompleted, Terminal
    <3>2. pc[a] = "complete" <=> AllCompleted(e)
      BY <1>0, <1>2 DEF FinalizeWrite, PassLaunched, AllCompleted, SomeFailed
    <3>3. Lifecycle!Finish(e)
      BY <1>2, <2>2, <3>1, <3>2, SameWords
      DEF FinalizeWrite, taskVars, Settled, AllCompleted, Lifecycle!Finish, Lifecycle!MoveExecution
    <3> QED BY <2>1, <3>3 DEF LifecycleRule
  <2>3. CASE execStatus[e] # "RUNNING"
    <3>1. execStatus' = execStatus
      BY <1>2, <2>1, <2>3 DEF FinalizeWrite, RefInv, SafeInv, Typed, TablesTyped
    <3> QED BY <1>2, <3>1 DEF FinalizeWrite, taskVars, LifecycleRule
  <2> QED BY <2>2, <2>3
<1>3. ASSUME NEW e \in affected[a], BeginPass(a, e) PROVE LifecycleRule
  BY <1>3 DEF BeginPass, taskVars, LifecycleRule
<1>4. ASSUME NEW t \in pass[a].ready, MarkEnqueued(a, t) PROVE LifecycleRule
  BY <1>4 DEF MarkEnqueued, LifecycleRule
<1>5. CASE RepeatPass(a) \/ PushTask(a) \/ FinalizeRead(a)
  BY <1>5 DEF RepeatPass, PushTask, FinalizeRead, taskVars, LifecycleRule
<1> QED BY <1>1, <1>2, <1>3, <1>4, <1>5 DEF PassStep

LEMMA StepRule ==
  ASSUME ErrorsWhilePlanning, RefInv, Next
  PROVE  LifecycleRule
<1>1. CASE ApiStep
  <2>1. ASSUME NEW e \in Executions, CreateExecution(e) PROVE LifecycleRule
    <3>1. Lifecycle!Create(e)
      BY <2>1 DEF CreateExecution, taskVars, Lifecycle!Create, Lifecycle!MoveExecution
    <3> QED BY <3>1 DEF LifecycleRule
  <2> QED BY <1>1, <2>1 DEF ApiStep, EnqueuePlan, ApiStops, taskVars, LifecycleRule
<1>2. ASSUME NEW w \in Workers, WorkerStep(w) PROVE LifecycleRule
  <2>1. Dequeue(w) => LifecycleRule
    BY DEF Dequeue, taskVars, LifecycleRule
  <2> QED BY <1>2, <2>1, PlanRule, ExecuteRule, RecoverRule, PassRule DEF WorkerStep, Actors
<1>3. ASSUME NEW r \in Reapers, ReaperStep(r) PROVE LifecycleRule
  <2>1. ReaperScan(r) => LifecycleRule
    BY DEF ReaperScan, taskVars, LifecycleRule
  <2> QED BY <1>3, <2>1, RecoverRule, PassRule DEF ReaperStep, Actors
<1>4. CASE (\E p \in Promoters : PromoterStep(p)) \/ (\E t \in Tasks : Elapse(t))
  BY <1>4 DEF PromoterStep, Elapse, QueueStep, LeaseExpires, taskVars, LifecycleRule
<1> QED BY <1>1, <1>2, <1>3, <1>4, ErrorRule DEF Next

-----------------------------------------------------------------------------
(* So what a launched execution is, it stays.                              *)

VerdictsKept ==
  /\ \A e \in Executions :
       /\ execStatus[e] \in Terminal => execStatus'[e] = execStatus[e]
       /\ execStatus[e] = "RUNNING" => \/ execStatus'[e] = "RUNNING"
                                       \/ execStatus'[e] \in Terminal /\ Settled(e)
  /\ \A t \in Tasks :
       status[t] = "ABSENT" /\ execStatus[ExecutionOf(t)] # "PLANNING" => status'[t] = "ABSENT"

LEMMA RuleKeepsVerdicts ==
  ASSUME RefInv, LifecycleRule
  PROVE  VerdictsKept
<1>0. /\ execStatus \in [Executions -> ExecutionStatuses]
      /\ status \in [Tasks -> TaskStatuses]
  BY DEF RefInv, SafeInv, Typed, TablesTyped
<1>1. ASSUME NEW e \in Executions, NEW p \in Plans, Lifecycle!Plan(e, p) PROVE VerdictsKept
  <2>1. \A t \in {e} \X DOMAIN p : ExecutionOf(t) = e
    BY DEF ExecutionOf
  <2>2. /\ execStatus[e] = "PLANNING" /\ UNCHANGED execStatus
        /\ \A t \in Tasks : t \notin {e} \X DOMAIN p => status'[t] = status[t]
    BY <1>1, SameWords DEF Lifecycle!Plan
  <2> QED BY <1>0, <2>1, <2>2 DEF VerdictsKept
<1>2. ASSUME NEW e \in Executions,
             \/ Lifecycle!Create(e) \/ Lifecycle!BeginPlanning(e) \/ Lifecycle!FailPlanning(e)
             \/ Lifecycle!Begin(e)
      PROVE  VerdictsKept
  BY <1>0, <1>2
  DEF Lifecycle!Create, Lifecycle!BeginPlanning, Lifecycle!FailPlanning, Lifecycle!Begin,
      Lifecycle!MoveExecution, VerdictsKept, Terminal
<1>3. ASSUME NEW e \in Executions, Lifecycle!Finish(e) PROVE VerdictsKept
  BY <1>0, <1>3, SameWords
  DEF Lifecycle!Finish, Lifecycle!MoveExecution, VerdictsKept, Settled, Terminal
<1>4. ASSUME NEW t \in Tasks, Lifecycle!TaskStep(t) PROVE VerdictsKept
  BY <1>0, <1>4
  DEF Lifecycle!TaskStep, Lifecycle!Claim, Lifecycle!Complete, Lifecycle!Retry, Lifecycle!Exhaust,
      Lifecycle!Skip, Lifecycle!LateResult, Lifecycle!MoveTask, VerdictsKept, Terminal
<1>5. UNCHANGED <<execStatus, status, deps, result>> => VerdictsKept
  BY <1>0 DEF VerdictsKept
<1> QED BY <1>1, <1>2, <1>3, <1>4, <1>5 DEF LifecycleRule

LEMMA LaunchedStays ==
  ASSUME Typed, RowsKept, VerdictsKept
  PROVE  /\ Launched \subseteq Launched'
         /\ \A e \in Launched :
              /\ Rows(e)' = Rows(e)
              /\ Settled(e) => Settled(e)'
              /\ AllCompleted(e) => AllCompleted(e)'
              /\ SomeFailed(e) => SomeFailed(e)'
<1>1. ASSUME NEW e \in Launched
      PROVE  /\ Rows(e)' = Rows(e)
             /\ Settled(e) => Settled(e)'
             /\ AllCompleted(e) => AllCompleted(e)'
             /\ SomeFailed(e) => SomeFailed(e)'
  <2>1. execStatus[e] # "PLANNING" /\ e \in Executions
    BY DEF Launched, Terminal
  <2>2. Rows(e)' = Rows(e)
    BY <2>1, TaskOfExecution DEF RowsKept, VerdictsKept, Rows
  <2>3. \A t \in Rows(e) : t \in Tasks
    BY <2>1, TaskOfExecution DEF Rows
  <2> QED BY <2>2, <2>3 DEF RowsKept, Settled, AllCompleted, SomeFailed, Terminal
<1>2. ASSUME NEW e \in Launched PROVE e \in Launched'
  BY <1>1 DEF Launched, VerdictsKept
<1> QED BY <1>1, <1>2

LEMMA DoomedStays ==
  ASSUME Typed, RowsKept, NEW t \in Tasks, status[t] # "ABSENT", DepFailed(t)
  PROVE  DepFailed(t)'
<1>1. Deps(t)' = Deps(t) /\ \A d \in Deps(t) : d \in Tasks
  BY DEF RowsKept, Deps, Typed, TablesTyped, Tasks, ExecutionOf
<1> QED BY <1>1 DEF DepFailed, RowsKept, Terminal

\* The status of every execution goes on saying what it said of the tasks.
LEMMA MatchStep ==
  ASSUME RefInv, RowsKept, LifecycleRule
  PROVE  ExecutionsMatch'
<1>0. /\ execStatus \in [Executions -> ExecutionStatuses]
      /\ status \in [Tasks -> TaskStatuses]
      /\ ExecutionsMatch
  BY DEF RefInv, SafeInv, Typed, TablesTyped
<1>1. ASSUME NEW e \in Executions, NEW p \in Plans, Lifecycle!Plan(e, p) PROVE ExecutionsMatch'
  <2>1. execStatus[e] = "PLANNING" /\ UNCHANGED execStatus
        /\ status' = [t \in Tasks |-> IF t \in {e} \X DOMAIN p THEN "PENDING" ELSE status[t]]
    BY <1>1, SameWords DEF Lifecycle!Plan
  <2>2. \A f \in Executions : f # e => Rows(f)' = Rows(f) /\ \A t \in Rows(f) : status'[t] = status[t]
    BY <2>1 DEF Rows, TasksOf, Tasks
  <2>3. Rows(e) = {}
    BY <1>1, SameWords DEF Lifecycle!Plan
  <2>4. Unstarted(e)'
    BY <2>1, <2>3, TaskOfExecution DEF Unstarted, Rows
  <2>5. ASSUME NEW f \in Executions, f # e
        PROVE  /\ execStatus'[f] = execStatus[f]
               /\ (Rows(f) # {})' <=> Rows(f) # {}
               /\ Unstarted(f)' <=> Unstarted(f)
               /\ Settled(f)' <=> Settled(f)
               /\ AllCompleted(f)' <=> AllCompleted(f)
               /\ SomeFailed(f)' <=> SomeFailed(f)
    <3>1. Rows(f)' = Rows(f) /\ \A t \in Rows(f) : status'[t] = status[t]
      BY <2>2, <2>5
    <3> QED BY <2>1, <3>1 DEF Unstarted, Settled, AllCompleted, SomeFailed
  <2> QED BY <1>0, <2>1, <2>4, <2>5 DEF ExecutionsMatch
<1>2. ASSUME NEW e \in Executions, NEW from, NEW to, Lifecycle!MoveExecution(e, from, to)
      PROVE  /\ execStatus[e] = from
             /\ \A f \in Executions : execStatus'[f] = IF f = e THEN to ELSE execStatus[f]
             /\ \A f : /\ Rows(f)' = Rows(f)
                       /\ Unstarted(f)' <=> Unstarted(f)
                       /\ Settled(f)' <=> Settled(f)
                       /\ AllCompleted(f)' <=> AllCompleted(f)
                       /\ SomeFailed(f)' <=> SomeFailed(f)
  BY <1>0, <1>2 DEF Lifecycle!MoveExecution, Rows, Unstarted, Settled, AllCompleted, SomeFailed
<1>3. ASSUME NEW e \in Executions, Lifecycle!Create(e) PROVE ExecutionsMatch'
  BY <1>0, <1>2, <1>3 DEF Lifecycle!Create, ExecutionsMatch
<1>4. ASSUME NEW e \in Executions, Lifecycle!BeginPlanning(e) PROVE ExecutionsMatch'
  <2>1. Unstarted(e)
    BY <1>4 DEF Lifecycle!BeginPlanning, Lifecycle!MoveExecution, RefInv, SafeInv, PlannerAlone,
       Rows, Unstarted
  <2> QED BY <1>0, <1>2, <1>4, <2>1 DEF Lifecycle!BeginPlanning, ExecutionsMatch
<1>5. ASSUME NEW e \in Executions, ErrorPoints # {}, Lifecycle!FailPlanning(e) PROVE ExecutionsMatch'
  <2>1. PICK from \in {"PENDING", "PLANNING"} : Lifecycle!MoveExecution(e, from, "FAILED")
    BY <1>5 DEF Lifecycle!FailPlanning
  <2>2. Unstarted(e)
    BY <1>0, <1>2, <2>1 DEF ExecutionsMatch, RefInv, SafeInv, PlannerAlone, Rows, Unstarted
  <2> QED BY <1>0, <1>2, <1>5, <2>1, <2>2 DEF ExecutionsMatch
<1>6. ASSUME NEW e \in Executions, Lifecycle!Begin(e) PROVE ExecutionsMatch'
  BY <1>0, <1>2, <1>6, SameWords DEF Lifecycle!Begin, ExecutionsMatch
<1>7. ASSUME NEW e \in Executions, Lifecycle!Finish(e) PROVE ExecutionsMatch'
  <2>1. Rows(e) # {} /\ Settled(e) /\ (AllCompleted(e) \/ SomeFailed(e))
    BY <1>7, SameWords DEF Lifecycle!Finish, Settled, AllCompleted, SomeFailed, Terminal
  <2>2. CASE AllCompleted(e)
    <3>1. Lifecycle!MoveExecution(e, "RUNNING", "COMPLETED")
      BY <1>7, <2>2, SameWords DEF Lifecycle!Finish, AllCompleted
    <3> QED BY <1>0, <1>2, <2>1, <2>2, <3>1 DEF ExecutionsMatch
  <2>3. CASE ~AllCompleted(e)
    <3>1. Lifecycle!MoveExecution(e, "RUNNING", "FAILED")
      BY <1>7, <2>3, SameWords DEF Lifecycle!Finish, AllCompleted
    <3> QED BY <1>0, <1>2, <2>1, <2>3, <3>1 DEF ExecutionsMatch
  <2> QED BY <2>2, <2>3
<1>8. ASSUME NEW t \in Tasks, Lifecycle!TaskStep(t) PROVE ExecutionsMatch'
  <2>1. \/ status' = status
        \/ /\ execStatus[ExecutionOf(t)] = "RUNNING"
           /\ status[t] # "ABSENT"
           /\ \E to : to # "ABSENT" /\ status' = [status EXCEPT ![t] = to]
    BY <1>8, SameWords
    DEF Lifecycle!TaskStep, Lifecycle!Claim, Lifecycle!Complete, Lifecycle!Retry, Lifecycle!Exhaust,
        Lifecycle!Skip, Lifecycle!LateResult, Lifecycle!MoveTask
  <2>2. UNCHANGED execStatus
    BY <1>8
    DEF Lifecycle!TaskStep, Lifecycle!Claim, Lifecycle!Complete, Lifecycle!Retry, Lifecycle!Exhaust,
        Lifecycle!Skip, Lifecycle!LateResult, Lifecycle!MoveTask
  <2>3. \A f \in Executions : Rows(f)' = Rows(f)
    BY <1>0, <2>1, TaskOfExecution DEF Rows
  <2>4. \A f \in Executions : execStatus[f] # "RUNNING" => \A u \in Rows(f) : status'[u] = status[u]
    BY <1>0, <2>1, TaskOfExecution DEF Rows
  <2> QED BY <1>0, <2>2, <2>3, <2>4
          DEF ExecutionsMatch, Unstarted, Settled, AllCompleted, SomeFailed
<1>9. UNCHANGED <<execStatus, status, deps, result>> => ExecutionsMatch'
  BY <1>0 DEF ExecutionsMatch, Unstarted, Settled, AllCompleted, SomeFailed, Rows
<1> QED BY <1>1, <1>3, <1>4, <1>5, <1>6, <1>7, <1>8, <1>9 DEF LifecycleRule

-----------------------------------------------------------------------------
(* The planners.                                                           *)

PlanningKept ==
  \A e \in Executions : execStatus[e] = "PLANNING" => execStatus'[e] = "PLANNING"

LEMMA OthersKeepPlanning ==
  ASSUME Typed,
         \/ ApiStep
         \/ \E w \in Workers : Dequeue(w) \/ ExecuteStep(w) \/ GuardPlan(w)
         \/ \E w \in Workers : \E p \in Plans : InsertTasks(w, p)
         \/ \E r \in Reapers : ReaperScan(r)
         \/ \E a \in Actors : RecoverStep(a) \/ PassStep(a) \/ Crash(a)
         \/ \E p \in Promoters : PromoterStep(p) \/ PromoterCrash(p)
         \/ \E t \in Tasks : Elapse(t)
         \/ \E i \in DOMAIN queue : DuplicateDelivery(i)
  PROVE  PlanningKept
<1> USE DEF Typed, TablesTyped, PlanningKept
<1>1. CASE ApiStep
  BY <1>1 DEF ApiStep, CreateExecution, EnqueuePlan, ApiStops
<1>2. ASSUME NEW w \in Workers, GuardPlan(w) PROVE PlanningKept
  <2>1. job[w].id \in Executions
    BY <1>2, JobShapes DEF GuardPlan, PointsMatch, PlanPoints, Actors
  <2> QED BY <1>2, <2>1 DEF GuardPlan, Unplanned
<1>3. ASSUME NEW w \in Workers,
             Dequeue(w) \/ ExecuteStep(w) \/ \E p \in Plans : InsertTasks(w, p)
      PROVE  PlanningKept
  BY <1>3 DEF Dequeue, InsertTasks, ExecuteStep, Claim, CheckResult, PersistSuccess, FailAttempt
<1>4. ASSUME NEW a \in Actors, RecoverStep(a) PROVE PlanningKept
  BY <1>4 DEF RecoverStep, Retry, Exhaust, Superseded, ScheduleRetry, DeadLetter
<1>5. ASSUME NEW a \in Actors, PassStep(a) PROVE PlanningKept
  <2>1. CASE FinalizeWrite(a)
    <3>1. pass[a].exec \in Executions
      BY <2>1 DEF FinalizeWrite, PointsMatch
    <3> QED BY <2>1, <3>1 DEF FinalizeWrite
  <2> QED BY <1>5, <2>1
          DEF PassStep, BeginPass, RepeatPass, Cascade, MarkEnqueued, PushTask, FinalizeRead
<1>6. ASSUME NEW r \in Reapers, ReaperScan(r) PROVE PlanningKept
  BY <1>6 DEF ReaperScan
<1>7. ASSUME NEW a \in Actors, Crash(a) PROVE PlanningKept
  BY <1>7 DEF Crash
<1>8. ASSUME NEW p \in Promoters, PromoterStep(p) \/ PromoterCrash(p) PROVE PlanningKept
  BY <1>8 DEF PromoterStep, QueueStep, PromoterCrash
<1>9. ASSUME NEW t \in Tasks, Elapse(t) PROVE PlanningKept
  BY <1>9 DEF Elapse, QueueStep, LeaseExpires
<1>10. ASSUME NEW i \in DOMAIN queue, DuplicateDelivery(i) PROVE PlanningKept
  BY <1>10 DEF DuplicateDelivery
<1> QED BY <1>1, <1>2, <1>3, <1>4, <1>5, <1>6, <1>7, <1>8, <1>9, <1>10

\* A worker that goes on planning keeps its execution and its rows.
LEMMA PlannerGoesOn ==
  ASSUME RefInv, RowsKept, NEW w \in Workers, pc'[w] \in {"llm", "start"}, pc'[w] = pc[w],
         job'[w] = job[w], execStatus'[job[w].id] = "PLANNING"
  PROVE  PlannerMatch(w)'
<1>1. job[w].id \in Executions
  BY JobShapes DEF RefInv, SafeInv, Typed, PointsMatch, PlanPoints, Actors
<1>2. pc[w] = "start" => \E t \in TasksOf(job[w].id) : t \in Tasks /\ status[t] # "ABSENT"
  BY <1>1, TaskOfExecution DEF RefInv, PlannersMatch, PlannerMatch, Rows
<1>3. pc[w] = "start" => \E t \in TasksOf(job[w].id) : status'[t] # "ABSENT"
  BY <1>2 DEF RowsKept
<1> QED BY <1>3 DEF PlannerMatch, Rows

LEMMA PlannersStep ==
  ASSUME ErrorsWhilePlanning, RefInv, RowsKept, Next
  PROVE  PlannersMatch'
<1>0. /\ Typed /\ PlannersMatch /\ PlannerAlone
      /\ pc \in [Actors -> ControlPoints] /\ job \in [Actors -> Jobs \cup {None}]
      /\ execStatus \in [Executions -> ExecutionStatuses]
      /\ Workers \subseteq Actors
  BY DEF RefInv, SafeInv, Typed, ActorsTyped, TablesTyped, Actors
<1>1. \A w \in Workers : pc[w] \in {"llm", "start"} => /\ job[w] \in PlanJobs
                                                       /\ job[w].id \in Executions
                                                       /\ execStatus[job[w].id] = "PLANNING"
  BY <1>0, JobShapes DEF Typed, PointsMatch, PlanPoints, PlannersMatch, PlannerMatch
<1>2. \A v, w \in Workers : /\ pc[v] \in {"llm", "start"} /\ pc[w] \in {"llm", "start"}
                            /\ job[v].id = job[w].id
                            => v = w
  <2>1. \A i, j \in PlanJobs : i.id = j.id => i = j
    BY DEF PlanJobs, PlanJob
  <2> QED BY <1>0, <1>1, <2>1 DEF PlannerAlone
<1>3. ASSUME PlannerQuiet, PlanningKept PROVE PlannersMatch'
  <2>1. ASSUME NEW w \in Workers, pc'[w] \in {"llm", "start"}
        PROVE  pc'[w] = pc[w] /\ job'[w] = job[w] /\ execStatus'[job[w].id] = "PLANNING"
    BY <1>1, <1>3, <2>1 DEF PlannerQuiet, PlanningKept
  <2>2. ASSUME NEW w \in Workers PROVE PlannerMatch(w)'
    <3>1. CASE pc'[w] \in {"llm", "start"}
      BY <2>1, <3>1, PlannerGoesOn
    <3>2. CASE pc'[w] \notin {"llm", "start"}
      BY <3>2 DEF PlannerMatch
    <3> QED BY <3>1, <3>2
  <2> QED BY <2>2 DEF PlannersMatch
<1>4. ASSUME NEW w \in Workers, PlannerMatch(w)',
             \A v \in Workers \ {w} : pc'[v] = pc[v] /\ job'[v] = job[v],
             \A v \in Workers \ {w} : pc[v] \in {"llm", "start"} => execStatus'[job[v].id] = "PLANNING"
      PROVE  PlannersMatch'
  <2>1. ASSUME NEW v \in Workers, v # w PROVE PlannerMatch(v)'
    <3>1. CASE pc'[v] \in {"llm", "start"}
      BY <1>4, <2>1, <3>1, PlannerGoesOn
    <3>2. CASE pc'[v] \notin {"llm", "start"}
      BY <3>2 DEF PlannerMatch
    <3> QED BY <3>1, <3>2
  <2> QED BY <1>4, <2>1 DEF PlannersMatch
<1>5. ASSUME NEW w \in Workers, StartExecution(w) \/ PlanError(w) PROVE PlannersMatch'
  <2>1. job[w].id \in Executions
    BY <1>1, <1>5, JobShapes DEF StartExecution, PlanError
  <2>2. pc'[w] \in {"schedule", "idle"} /\ \A v \in Workers \ {w} : pc'[v] = pc[v] /\ job'[v] = job[v]
    BY <1>0, <1>5 DEF StartExecution, PlanError, Drop
  <2>3. \A f \in Executions : f # job[w].id => execStatus'[f] = execStatus[f]
    BY <1>0, <1>5, <2>1 DEF StartExecution, PlanError
  <2>4. \A v \in Workers \ {w} : pc[v] \in {"llm", "start"} => execStatus'[job[v].id] = "PLANNING"
    <3>1. pc[w] \in {"llm", "start"} \/ execStatus[job[w].id] = "PENDING"
      BY <1>5, ErrorFindsPlanning DEF StartExecution
    <3> QED BY <1>1, <1>2, <2>1, <2>3, <3>1
  <2>5. PlannerMatch(w)'
    BY <2>2 DEF PlannerMatch
  <2> QED BY <1>4, <2>2, <2>4, <2>5
<1>6. ASSUME NEW w \in Workers, GuardPlan(w) PROVE PlannersMatch'
  <2>1. PlanningKept /\ job[w].id \in Executions
    BY <1>0, <1>6, JobShapes, OthersKeepPlanning DEF GuardPlan, Typed, PointsMatch, PlanPoints
  <2>2. CASE Unplanned(job[w].id)
    <3>1. /\ pc' = [pc EXCEPT ![w] = "llm"] /\ job' = job
          /\ execStatus'[job[w].id] = "PLANNING"
      BY <1>0, <1>6, <2>1, <2>2 DEF GuardPlan
    <3>2. PlannerMatch(w)'
      BY <1>0, <3>1 DEF PlannerMatch
    <3>3. \A v \in Workers \ {w} : pc'[v] = pc[v] /\ job'[v] = job[v]
      BY <1>0, <3>1
    <3>4. \A v \in Workers \ {w} : pc[v] \in {"llm", "start"} => execStatus'[job[v].id] = "PLANNING"
      BY <1>1, <2>1 DEF PlanningKept
    <3> QED BY <1>4, <3>2, <3>3, <3>4
  <2>3. CASE ~Unplanned(job[w].id)
    <3>1. PlannerQuiet
      BY <1>0, <1>6, <2>3 DEF GuardPlan, Drop, PlannerQuiet
    <3> QED BY <1>3, <2>1, <3>1
  <2> QED BY <2>2, <2>3
<1>7. ASSUME NEW w \in Workers, NEW p \in Plans, InsertTasks(w, p) PROVE PlannersMatch'
  <2>1. pc[w] = "llm" /\ pc' = [pc EXCEPT ![w] = "start"] /\ job' = job /\ execStatus' = execStatus
    BY <1>7 DEF InsertTasks
  <2>2. 0 \in DOMAIN p /\ 0 \in Index
    BY PlansAssumption, MaxTasksAssumption DEF IsPlan, Index
  <2>3. \E t \in TasksOf(job[w].id) : status'[t] # "ABSENT"
    <3>1. <<job[w].id, 0>> \in TasksOf(job[w].id) /\ <<job[w].id, 0>> \in Tasks
      BY <1>1, <2>1, <2>2 DEF TasksOf, Tasks
    <3>2. status'[<<job[w].id, 0>>] = "PENDING"
      BY <1>7, <2>2, <3>1 DEF InsertTasks
    <3> QED BY <3>1, <3>2
  <2>4. PlannerMatch(w)'
    BY <1>1, <2>1, <2>3 DEF PlannerMatch, Rows
  <2>5. /\ \A v \in Workers \ {w} : pc'[v] = pc[v] /\ job'[v] = job[v]
        /\ \A v \in Workers \ {w} : pc[v] \in {"llm", "start"} => execStatus'[job[v].id] = "PLANNING"
    BY <1>0, <1>1, <2>1
  <2> QED BY <1>4, <2>4, <2>5
<1>8. CASE /\ ~ \E w \in Workers : GuardPlan(w) \/ StartExecution(w) \/ PlanError(w)
           /\ ~ \E w \in Workers : \E p \in Plans : InsertTasks(w, p)
  <2>1. PlannerQuiet
    BY <1>0, <1>8, OtherPlanner DEF Next, WorkerStep, ReaperStep, PlanStep, Actors
  <2>2. PlanningKept
    BY <1>0, <1>8, OthersKeepPlanning
    DEF Next, WorkerStep, ReaperStep, PlanStep, FaultStep, Actors
  <2> QED BY <1>3, <2>1, <2>2
<1> QED BY <1>5, <1>6, <1>7, <1>8

-----------------------------------------------------------------------------
(* The plan jobs.                                                          *)

\* A plan job that goes nowhere, or is lost, stays alone.
LEMMA StaysAlone ==
  ASSUME NEW e \in Executions, PlanJobAlone(e),
         e \in apiPending' => e \in apiPending,
         \A i \in DOMAIN queue' : queue'[i] = PlanJob(e) => i \in DOMAIN queue /\ queue[i] = PlanJob(e),
         \A w \in Workers : AtGuard(w, e)' => AtGuard(w, e),
         execStatus[e] = "PENDING" /\ PlanComing(e)' => execStatus'[e] = "PENDING"
  PROVE  PlanJobAlone(e)'
<1>1. PlanComing(e)' => PlanComing(e)
  BY DEF PlanComing, AtGuard
<1> QED BY <1>1 DEF PlanJobAlone

\* The worker that has it leaves it, and nobody is left with one.
LEMMA GuardLeaves ==
  ASSUME Typed, \A e \in Executions : PlanJobAlone(e), NEW w \in Workers, NEW e \in Executions,
         AtGuard(w, e) \/ ~PlanComing(e), pc'[w] # "guard", UNCHANGED <<queue, apiPending>>,
         \A v \in Workers \ {w} : pc'[v] = pc[v] /\ job'[v] = job[v],
         \A f \in Executions \ {e} : execStatus'[f] = execStatus[f]
  PROVE  \A f \in Executions : PlanJobAlone(f)'
<1>1. ASSUME NEW f \in Executions, NEW v \in Workers, AtGuard(v, f)' PROVE AtGuard(v, f) /\ v # w
  BY <1>1 DEF AtGuard
<1>2. ~PlanComing(e)'
  <2>1. \A v \in Workers : ~AtGuard(v, e)'
    BY <1>1 DEF PlanJobAlone, PlanComing, AtGuard
  <2>2. e \notin apiPending /\ \A i \in DOMAIN queue : queue[i] # PlanJob(e)
    BY DEF PlanJobAlone, PlanComing
  <2> QED BY <2>1, <2>2 DEF PlanComing, AtGuard
<1>3. ASSUME NEW f \in Executions PROVE execStatus[f] = "PENDING" /\ PlanComing(f)' => execStatus'[f] = "PENDING"
  BY <1>2
<1> QED BY <1>1, <1>3, StaysAlone

PlansUntouched ==
  /\ apiPending' \subseteq apiPending
  /\ queue' = queue \/ \E t \in Tasks : queue' = Append(queue, TaskJob(t))
  /\ \A w \in Workers : pc'[w] = "guard" => pc[w] = "guard" /\ job'[w] = job[w]
  /\ \A e \in Executions : execStatus[e] = "PENDING" => execStatus'[e] = "PENDING"

LEMMA UntouchedAlone ==
  ASSUME Typed, \A e \in Executions : PlanJobAlone(e), PlansUntouched
  PROVE  \A e \in Executions : PlanJobAlone(e)'
<1> SUFFICES ASSUME NEW e \in Executions PROVE PlanJobAlone(e)'
  OBVIOUS
<1>1. \A t \in Tasks : TaskJob(t) # PlanJob(e) /\ TaskJob(t) \in Jobs
  BY JobShapes DEF TaskJob, PlanJob
<1>2. \A i \in DOMAIN queue' : queue'[i] = PlanJob(e) => i \in DOMAIN queue /\ queue[i] = PlanJob(e)
  <2>1. ASSUME NEW t \in Tasks, queue' = Append(queue, TaskJob(t)), NEW i \in DOMAIN queue',
               queue'[i] = PlanJob(e)
        PROVE  i \in DOMAIN queue /\ queue[i] = PlanJob(e)
    BY <1>1, <2>1, AppendElements DEF Typed, QueueTypeOK
  <2> QED BY <2>1 DEF PlansUntouched
<1>3. \A w \in Workers : AtGuard(w, e)' => AtGuard(w, e)
  BY DEF PlansUntouched, AtGuard
<1> QED BY <1>2, <1>3, StaysAlone DEF PlansUntouched

LEMMA CreateAlone ==
  ASSUME Typed, \A e \in Executions : PlanJobAlone(e), NEW e \in Executions, CreateExecution(e)
  PROVE  \A f \in Executions : PlanJobAlone(f)'
<1>1. /\ execStatus[e] = "ABSENT" /\ execStatus' = [execStatus EXCEPT ![e] = "PENDING"]
      /\ apiPending' = apiPending \cup {e} /\ UNCHANGED <<queue, pc, job>>
  BY DEF CreateExecution, actorVars, queueVars
<1>2. execStatus'[e] = "PENDING" /\ \A f \in Executions \ {e} : execStatus'[f] = execStatus[f]
  BY <1>1 DEF Typed, TablesTyped
<1>3. ~PlanComing(e)
  BY <1>1 DEF PlanJobAlone
<1>4. PlanJobAlone(e)'
  BY <1>1, <1>2, <1>3 DEF PlanJobAlone, PlanComing, AtGuard
<1>5. ASSUME NEW f \in Executions \ {e} PROVE PlanJobAlone(f)'
  BY <1>1, <1>2, StaysAlone DEF AtGuard
<1> QED BY <1>4, <1>5

LEMMA EnqueueAlone ==
  ASSUME Typed, \A e \in Executions : PlanJobAlone(e), NEW e \in Executions, EnqueuePlan(e)
  PROVE  \A f \in Executions : PlanJobAlone(f)'
<1>1. /\ e \in apiPending /\ apiPending' = apiPending \ {e} /\ queue' = Append(queue, PlanJob(e))
      /\ UNCHANGED <<pc, job, execStatus>>
  BY DEF EnqueuePlan, Enqueue, actorVars
<1>2. queue \in Seq(Jobs) /\ PlanJob(e) \in Jobs
  BY JobShapes DEF Typed, QueueTypeOK
<1>3. \A i \in DOMAIN queue' : i = Len(queue) + 1 \/ (i \in DOMAIN queue /\ queue'[i] = queue[i])
  BY <1>1, <1>2
<1>4. execStatus[e] = "PENDING" /\ (\A i \in DOMAIN queue : queue[i] # PlanJob(e))
      /\ \A w \in Workers : ~AtGuard(w, e)
  BY <1>1 DEF PlanJobAlone, PlanComing
<1>5. PlanJobAlone(e)'
  BY <1>1, <1>3, <1>4 DEF PlanJobAlone, AtGuard
<1>6. ASSUME NEW f \in Executions \ {e} PROVE PlanJobAlone(f)'
  <2>1. PlanJob(f) # PlanJob(e)
    BY DEF PlanJob
  <2>2. \A i \in DOMAIN queue' : queue'[i] = PlanJob(f) => i \in DOMAIN queue /\ queue[i] = PlanJob(f)
    BY <1>1, <1>2, <2>1, AppendElements
  <2> QED BY <1>1, <2>2, StaysAlone DEF AtGuard
<1> QED BY <1>5, <1>6

LEMMA DequeueAlone ==
  ASSUME Typed, \A e \in Executions : PlanJobAlone(e), NEW w \in Workers, Dequeue(w)
  PROVE  \A e \in Executions : PlanJobAlone(e)'
<1> SUFFICES ASSUME NEW e \in Executions PROVE PlanJobAlone(e)'
  OBVIOUS
<1>1. /\ queue \in Seq(Jobs) /\ queue # <<>> /\ queue' = Tail(queue) /\ Head(queue) = queue[1]
      /\ 1 \in DOMAIN queue /\ UNCHANGED <<apiPending, execStatus>>
      /\ pc[w] = "idle" /\ job'[w] = queue[1]
      /\ \A v \in Workers \ {w} : pc'[v] = pc[v] /\ job'[v] = job[v]
  BY DEF Dequeue, Pop, Typed, ActorsTyped, QueueTypeOK, Actors
<1>2. \A i \in DOMAIN queue' : i \in Nat /\ i + 1 \in DOMAIN queue /\ i + 1 # 1 /\ queue'[i] = queue[i + 1]
  BY <1>1, TailElements
<1>3. \A v \in Workers \ {w} : AtGuard(v, e)' => AtGuard(v, e)
  BY <1>1 DEF AtGuard
<1>4. AtGuard(w, e)' => queue[1] = PlanJob(e)
  BY <1>1 DEF AtGuard
<1>5. PlanComing(e)' => PlanComing(e)
  BY <1>1, <1>2, <1>3, <1>4 DEF PlanComing, AtGuard
<1>6. CASE queue[1] = PlanJob(e)
  <2>1. e \notin apiPending /\ (\A i \in DOMAIN queue : queue[i] = PlanJob(e) => i = 1)
        /\ \A v \in Workers : ~AtGuard(v, e)
    BY <1>1, <1>6 DEF PlanJobAlone
  <2>2. \A i \in DOMAIN queue' : queue'[i] # PlanJob(e)
    BY <1>2, <2>1
  <2> QED BY <1>1, <1>3, <1>5, <2>1, <2>2 DEF PlanJobAlone
<1>7. CASE queue[1] # PlanJob(e)
  <2>1. \A v \in Workers : AtGuard(v, e)' => AtGuard(v, e)
    BY <1>3, <1>4, <1>7
  <2>2. \A i, j \in DOMAIN queue' : queue'[i] = PlanJob(e) /\ queue'[j] = PlanJob(e) => i = j
    <3> SUFFICES ASSUME NEW i \in DOMAIN queue', NEW j \in DOMAIN queue', queue'[i] = PlanJob(e),
                        queue'[j] = PlanJob(e)
                 PROVE  i = j
      OBVIOUS
    <3>1. i + 1 = j + 1
      BY <1>2 DEF PlanJobAlone
    <3> QED BY <1>2, <3>1
  <2>3. \A i \in DOMAIN queue' : queue'[i] = PlanJob(e) => \E j \in DOMAIN queue : queue[j] = PlanJob(e)
    BY <1>2
  <2> QED BY <1>1, <1>5, <2>1, <2>2, <2>3 DEF PlanJobAlone
<1> QED BY <1>6, <1>7

\* The steps of a worker that has a plan job: the guard, or an error.
LEMMA PlannerAloneLeaves ==
  ASSUME RefInv, \A e \in Executions : PlanJobAlone(e), ErrorsWhilePlanning, NEW w \in Workers,
         GuardPlan(w) \/ PlanError(w)
  PROVE  \A e \in Executions : PlanJobAlone(e)'
<1>0. /\ Typed /\ pc \in [Actors -> ControlPoints] /\ job \in [Actors -> Jobs \cup {None}]
      /\ execStatus \in [Executions -> ExecutionStatuses] /\ w \in Actors /\ Workers \subseteq Actors
  BY DEF RefInv, SafeInv, Typed, TablesTyped, ActorsTyped, Actors
<1>1. PICK e \in Executions : job[w] = PlanJob(e) /\ job[w].id = e /\ pc[w] \in PlanPoints
  <2>1. job[w] \in PlanJobs /\ pc[w] \in PlanPoints
    BY <1>0 DEF GuardPlan, PlanError, ErrorsWhilePlanning, Typed, PointsMatch, PlanPoints
  <2> QED BY <2>1, JobShapes DEF PlanJobs
<1>2. /\ UNCHANGED <<queue, apiPending>> /\ pc'[w] \in {"idle", "llm"}
      /\ \A v \in Workers \ {w} : pc'[v] = pc[v] /\ job'[v] = job[v]
      /\ \A f \in Executions \ {e} : execStatus'[f] = execStatus[f]
  BY <1>0, <1>1 DEF GuardPlan, PlanError, Drop, queueVars
<1>3. AtGuard(w, e) \/ ~PlanComing(e)
  <2>1. CASE pc[w] = "guard"
    BY <1>1, <2>1 DEF AtGuard
  <2>2. CASE pc[w] \in {"llm", "start"}
    <3>1. execStatus[e] = "PLANNING"
      BY <1>1, <2>2 DEF RefInv, PlannersMatch, PlannerMatch
    <3> QED BY <3>1 DEF PlanJobAlone
  <2> QED BY <1>1, <2>1, <2>2 DEF PlanPoints
<1> QED BY <1>0, <1>2, <1>3, GuardLeaves

\* Every other step leaves the plan jobs where they are.
LEMMA OthersUntouched ==
  ASSUME Typed, Next, ~Redelivery,
         ~ \E e \in Executions : CreateExecution(e) \/ EnqueuePlan(e),
         ~ \E w \in Workers : Dequeue(w) \/ GuardPlan(w) \/ PlanError(w)
  PROVE  PlansUntouched
<1>0. /\ pc \in [Actors -> ControlPoints] /\ job \in [Actors -> Jobs \cup {None}]
      /\ execStatus \in [Executions -> ExecutionStatuses] /\ Workers \subseteq Actors
      /\ PointsMatch
  BY DEF Typed, TablesTyped, ActorsTyped, Actors
<1> USE DEF PlansUntouched
<1>1. ASSUME NEW a \in Actors, Drop(a) PROVE \A w \in Workers : pc'[w] = "guard" => pc[w] = "guard" /\ job'[w] = job[w]
  BY <1>0, <1>1 DEF Drop
<1>2. ASSUME NEW e \in Executions, ApiStops(e) PROVE PlansUntouched
  BY <1>2 DEF ApiStops, actorVars, queueVars
<1>3. ASSUME NEW w \in Workers, StartExecution(w) \/ \E p \in Plans : InsertTasks(w, p) PROVE PlansUntouched
  <2>1. job[w].id \in Executions
    BY <1>0, <1>3, JobShapes DEF StartExecution, InsertTasks, PointsMatch, PlanPoints
  <2> QED BY <1>0, <1>3, <2>1 DEF StartExecution, InsertTasks, queueVars
<1>4. ASSUME NEW w \in Workers, ExecuteStep(w) PROVE PlansUntouched
  BY <1>0, <1>1, <1>4 DEF ExecuteStep, Claim, CheckResult, PersistSuccess, FailAttempt, queueVars
<1>5. ASSUME NEW a \in Actors, RecoverStep(a) PROVE PlansUntouched
  BY <1>0, <1>5 DEF RecoverStep, Retry, Exhaust, Superseded, ScheduleRetry, DeadLetter, ScheduleTask,
     PushDeadLetter, AfterRecovery, queueVars
<1>6. ASSUME NEW a \in Actors, PassStep(a) PROVE PlansUntouched
  <2>1. CASE PushTask(a)
    BY <1>0, <2>1 DEF PushTask, Enqueue, PointsMatch
  <2>2. CASE FinalizeWrite(a)
    <3>1. pass[a].exec \in Executions
      BY <1>0, <2>2 DEF FinalizeWrite, PointsMatch
    <3> QED BY <1>0, <2>2, <3>1 DEF FinalizeWrite, Return, queueVars
  <2> QED BY <1>0, <1>6, <2>1, <2>2
          DEF PassStep, BeginPass, RepeatPass, Cascade, MarkEnqueued, FinalizeRead, Return, queueVars
<1>7. ASSUME NEW r \in Reapers, ReaperScan(r) PROVE PlansUntouched
  BY <1>0, <1>7 DEF ReaperScan, queueVars
<1>8. ASSUME NEW p \in Promoters, PromoterStep(p) \/ PromoterCrash(p) PROVE PlansUntouched
  BY <1>0, <1>8 DEF PromoterStep, PromoterCrash, PromoterStops, QueueStep, PromoteScan, PromoteRemove,
     PromotePush, actorVars, Typed, QueueTypeOK
<1>9. ASSUME NEW t \in Tasks, Elapse(t) PROVE PlansUntouched
  BY <1>9 DEF Elapse, QueueStep, BecomeDue, LeaseExpires, actorVars, queueVars
<1>10. ASSUME NEW a \in Actors, Crash(a) PROVE PlansUntouched
  BY <1>0, <1>1, <1>10 DEF Crash, queueVars
<1> QED BY <1>2, <1>3, <1>4, <1>5, <1>6, <1>7, <1>8, <1>9, <1>10
        DEF Next, ApiStep, WorkerStep, PlanStep, ReaperStep, FaultStep, DuplicateDelivery, Actors

LEMMA PlanJobsStep ==
  ASSUME ErrorsWhilePlanning, RefInv, Next
  PROVE  PlanJobsAlone'
<1> SUFFICES ASSUME ~Redelivery PROVE \A e \in Executions : PlanJobAlone(e)'
  BY DEF PlanJobsAlone
<1>1. Typed /\ \A e \in Executions : PlanJobAlone(e)
  BY DEF RefInv, SafeInv, PlanJobsAlone
<1>2. CASE \E e \in Executions : CreateExecution(e) \/ EnqueuePlan(e)
  BY <1>1, <1>2, CreateAlone, EnqueueAlone
<1>3. CASE \E w \in Workers : Dequeue(w) \/ GuardPlan(w) \/ PlanError(w)
  BY <1>1, <1>3, DequeueAlone, PlannerAloneLeaves
<1>4. CASE /\ ~ \E e \in Executions : CreateExecution(e) \/ EnqueuePlan(e)
           /\ ~ \E w \in Workers : Dequeue(w) \/ GuardPlan(w) \/ PlanError(w)
  BY <1>1, <1>4, OthersUntouched, UntouchedAlone
<1> QED BY <1>2, <1>3, <1>4

-----------------------------------------------------------------------------
(* The scheduling passes.                                                  *)

\* Only a pass marks a task as enqueued, and only one it has in its lists.
LEMMA EnqueuedStep ==
  ASSUME RefInv, RowsKept, VerdictsKept, Next
  PROVE  EnqueuedLaunched'
<1>0. enqueued \in [Tasks -> BOOLEAN] /\ Typed
  BY DEF RefInv, SafeInv, Typed, TablesTyped
<1>1. ASSUME NEW t \in Tasks, enqueued'[t], ~enqueued[t]
      PROVE  \E a \in Actors : t \in pass[a].ready \cup pass[a].doomed
  <2>1. ASSUME NEW a \in Actors, PassStep(a) PROVE t \in pass[a].ready \cup pass[a].doomed
    BY <1>0, <1>1, <2>1 DEF PassStep, BeginPass, RepeatPass, Cascade, MarkEnqueued, PushTask,
       FinalizeRead, FinalizeWrite, taskVars
  <2>2. ASSUME NEW w \in Workers, ExecuteStep(w) \/ \E p \in Plans : InsertTasks(w, p)
        PROVE  UNCHANGED enqueued
    BY <2>2 DEF ExecuteStep, Claim, CheckResult, PersistSuccess, FailAttempt, InsertTasks, taskVars
  <2>3. ASSUME NEW a \in Actors, RecoverStep(a) PROVE UNCHANGED enqueued
    BY <2>3 DEF RecoverStep, Retry, Exhaust, Superseded, ScheduleRetry, DeadLetter, taskVars
  <2> QED BY <1>1, <2>1, <2>2, <2>3, QuietRows DEF Next, WorkerStep, ReaperStep, PlanStep, Actors
<1>2. ASSUME NEW t \in Tasks, enqueued'[t]
      PROVE  status[t] # "ABSENT" /\ ExecutionOf(t) \in Launched
  BY <1>1, <1>2 DEF RefInv, EnqueuedLaunched, PassesLaunched, PassLaunched
<1> QED BY <1>0, <1>2, LaunchedStays DEF EnqueuedLaunched, RowsKept

\* What has to be seen of an actor's pass after a step: that it is about what
\* was launched and failed before the step, or by it.
PassSeen(a) ==
  /\ affected'[a] \subseteq Launched \cup Launched'
  /\ pc'[a] \in {"pass", "push", "complete", "fail"} => pass'[a].exec \in Launched
  /\ \A t \in pass'[a].ready \cup pass'[a].doomed :
       t \in Tasks /\ status[t] # "ABSENT" /\ ExecutionOf(t) \in Launched
  /\ \A t \in pass'[a].doomed : DepFailed(t) \/ DepFailed(t)'
  /\ pc'[a] = "complete" => AllCompleted(pass'[a].exec)
  /\ pc'[a] = "fail" => Settled(pass'[a].exec) /\ SomeFailed(pass'[a].exec)

LEMMA SeenLaunched ==
  ASSUME Typed, RowsKept, VerdictsKept, NEW a \in Actors, PassSeen(a)
  PROVE  PassLaunched(a)'
<1>1. Launched \subseteq Launched'
  BY LaunchedStays
<1>2. affected'[a] \subseteq Launched'
  BY <1>1 DEF PassSeen
<1>3. \A t \in pass'[a].ready \cup pass'[a].doomed :
        status'[t] # "ABSENT" /\ ExecutionOf(t) \in Launched'
  BY <1>1 DEF PassSeen, RowsKept
<1>4. \A t \in pass'[a].doomed : DepFailed(t)'
  BY DoomedStays DEF PassSeen
<1>5. pc'[a] = "complete" => AllCompleted(pass[a].exec)'
  <2>1. ASSUME NEW e \in Launched, AllCompleted(e)
        PROVE  \A t \in {u \in TasksOf(e) : status'[u] # "ABSENT"} : status'[t] = "COMPLETED"
    BY <2>1, LaunchedStays DEF AllCompleted, Rows
  <2> QED BY <2>1 DEF PassSeen, AllCompleted, Rows
<1>6. pc'[a] = "fail" => Settled(pass[a].exec)' /\ SomeFailed(pass[a].exec)'
  <2>1. ASSUME NEW e \in Launched, Settled(e), SomeFailed(e)
        PROVE  /\ \A t \in {u \in TasksOf(e) : status'[u] # "ABSENT"} : status'[t] \in Terminal
               /\ \E t \in {u \in TasksOf(e) : status'[u] # "ABSENT"} : status'[t] = "FAILED"
    BY <2>1, LaunchedStays DEF Settled, SomeFailed, Rows
  <2> QED BY <2>1 DEF PassSeen, Settled, SomeFailed, Rows
<1> QED BY <1>1, <1>2, <1>3, <1>4, <1>5, <1>6 DEF PassLaunched, PassSeen

\* A step that leaves a pass alone, narrows it, or is outside one.
LEMMA PassUntouched ==
  ASSUME RefInv, NEW a \in Actors,
         pc'[a] = pc[a], pass'[a] = pass[a], affected'[a] = affected[a]
  PROVE  PassSeen(a)
<1>1. pass[a].ready \subseteq Tasks /\ pass[a].doomed \subseteq Tasks
  BY DEF RefInv, SafeInv, Typed, ActorsTyped, Passes
<1> QED BY <1>1 DEF RefInv, PassesLaunched, PassLaunched, PassSeen

LEMMA PassNarrowed ==
  ASSUME RefInv, NEW a \in Actors, pc[a] = "pass" \/ pc[a] = "push", pc'[a] \in {"pass", "push"},
         pass'[a].exec = pass[a].exec, affected'[a] = affected[a],
         pass'[a].ready \subseteq pass[a].ready, pass'[a].doomed \subseteq pass[a].doomed
  PROVE  PassSeen(a)
<1>1. pass[a].ready \subseteq Tasks /\ pass[a].doomed \subseteq Tasks
  BY DEF RefInv, SafeInv, Typed, ActorsTyped, Passes
<1> QED BY <1>1 DEF RefInv, PassesLaunched, PassLaunched, PassSeen

LEMMA OutsidePass ==
  ASSUME RefInv, NEW a \in Actors, pc'[a] \notin {"pass", "push", "complete", "fail"},
         affected'[a] \subseteq affected[a] \cup Launched \cup Launched',
         pass'[a].ready \subseteq pass[a].ready, pass'[a].doomed \subseteq pass[a].doomed
  PROVE  PassSeen(a)
<1>1. pass[a].ready \subseteq Tasks /\ pass[a].doomed \subseteq Tasks
  BY DEF RefInv, SafeInv, Typed, ActorsTyped, Passes
<1> QED BY <1>1 DEF RefInv, PassesLaunched, PassLaunched, PassSeen

LEMMA LeavesPass ==
  ASSUME RefInv, NEW a \in Actors, Drop(a) \/ Return(a)
  PROVE  PassSeen(a)
<1>1. /\ pc'[a] \in {"idle", "schedule"} /\ affected'[a] \subseteq affected[a]
      /\ pass'[a].ready = {} /\ pass'[a].doomed = {}
  BY DEF Drop, Return, NoPass, RefInv, SafeInv, Typed, ActorsTyped
<1> QED BY <1>1, OutsidePass

\* A task that has been queued, or that is being worked on, was launched.
LEMMA QueuedLaunched ==
  ASSUME RefInv, NEW t \in Tasks, t \in Queued \/ status[t] = "RUNNING"
  PROVE  ExecutionOf(t) \in Launched
<1>1. enqueued[t]
  BY DEF RefInv, SafeInv, Started, Queued
<1> QED BY <1>1 DEF RefInv, EnqueuedLaunched
OthersPass(a) ==
  \A b \in Actors \ {a} : pc'[b] = pc[b] /\ pass'[b] = pass[b] /\ affected'[b] = affected[b]

LEMMA SeenByAll ==
  ASSUME RefInv, RowsKept, VerdictsKept, NEW a \in Actors, OthersPass(a), PassSeen(a)
  PROVE  PassesLaunched'
<1>1. Typed
  BY DEF RefInv, SafeInv
<1>2. ASSUME NEW b \in Actors PROVE PassSeen(b)
  BY PassUntouched DEF OthersPass
<1> QED BY <1>1, <1>2, SeenLaunched DEF PassesLaunched

LEMMA PlanPass ==
  ASSUME RefInv, RowsKept, VerdictsKept, PlannersMatch, NEW w \in Workers, Dequeue(w) \/ PlanStep(w)
  PROVE  PassesLaunched'
<1>0. /\ w \in Actors /\ pc \in [Actors -> ControlPoints] /\ affected \in [Actors -> SUBSET Executions]
      /\ execStatus \in [Executions -> ExecutionStatuses]
  BY DEF Actors, RefInv, SafeInv, Typed, ActorsTyped, TablesTyped
<1>1. CASE GuardPlan(w) /\ ~Unplanned(job[w].id)
  <2>1. Drop(w)
    BY <1>1 DEF GuardPlan
  <2>2. OthersPass(w)
    BY <2>1 DEF Drop, OthersPass, RefInv, SafeInv, Typed, ActorsTyped
  <2> QED BY <1>0, <2>1, <2>2, LeavesPass, SeenByAll
<1>2. CASE StartExecution(w)
  <2>1. job[w].id \in Executions
    BY <1>2, JobShapes DEF StartExecution, RefInv, SafeInv, Typed, PointsMatch, PlanPoints, Actors
  <2>2. execStatus[job[w].id] = "PLANNING" /\ Rows(job[w].id) # {}
    BY <1>2 DEF StartExecution, PlannersMatch, PlannerMatch
  <2>3. ASSUME NEW e \in Executions, execStatus'[e] = "RUNNING", Rows(e) # {}, UNCHANGED status
        PROVE  e \in Launched'
    BY <2>3 DEF Launched, Rows
  <2>4. job[w].id \in Launched'
    BY <1>0, <1>2, <2>1, <2>2, <2>3 DEF StartExecution, taskVars
  <2>5. /\ pc'[w] = "schedule" /\ UNCHANGED pass /\ affected'[w] = {job[w].id}
        /\ OthersPass(w)
    BY <1>0, <1>2 DEF StartExecution, OthersPass
  <2> QED BY <1>0, <2>4, <2>5, OutsidePass, SeenByAll
<1>3. CASE ~StartExecution(w) /\ ~(GuardPlan(w) /\ ~Unplanned(job[w].id))
  <2>1. pc'[w] \in {"guard", "claim", "llm", "start"} /\ UNCHANGED <<pass, affected>> /\ OthersPass(w)
    BY <1>0, <1>3 DEF PlanStep, Dequeue, GuardPlan, InsertTasks, OthersPass
  <2> QED BY <1>0, <2>1, OutsidePass, SeenByAll
<1> QED BY <1>1, <1>2, <1>3

LEMMA ExecutePass ==
  ASSUME RefInv, RowsKept, VerdictsKept, NEW w \in Workers, ExecuteStep(w)
  PROVE  PassesLaunched'
<1>0. /\ w \in Actors /\ pc \in [Actors -> ControlPoints] /\ affected \in [Actors -> SUBSET Executions]
  BY DEF Actors, RefInv, SafeInv, Typed, ActorsTyped
<1>1. CASE Claim(w) /\ status[job[w].id] \notin Claimable
  <2>1. Drop(w)
    BY <1>1 DEF Claim
  <2>2. OthersPass(w)
    BY <2>1 DEF Drop, OthersPass, RefInv, SafeInv, Typed, ActorsTyped
  <2> QED BY <1>0, <2>1, <2>2, LeavesPass, SeenByAll
<1>2. CASE ~(Claim(w) /\ status[job[w].id] \notin Claimable)
  <2>1. job[w].id \in Tasks /\ (pc[w] \in {"check", "run"} => ExecutionOf(job[w].id) \in Launched)
    <3>1. pc[w] \in {"claim", "check", "run"} => job[w].id \in Queued
      BY <1>0 DEF RefInv, SafeInv, HandsCleared, HandCleared
    <3> QED BY <3>1, QueuedLaunched DEF ExecuteStep, Claim, CheckResult, PersistSuccess, FailAttempt,
            Queued, Cleared
  <2>2. /\ pc'[w] \in {"check", "run", "recover", "schedule"} /\ UNCHANGED pass /\ OthersPass(w)
        /\ affected'[w] \in {affected[w], {ExecutionOf(job[w].id)}}
        /\ affected'[w] # affected[w] => pc[w] \in {"check", "run"}
    BY <1>0, <1>2 DEF ExecuteStep, Claim, CheckResult, PersistSuccess, FailAttempt, OthersPass
  <2> QED BY <1>0, <2>1, <2>2, OutsidePass, SeenByAll
<1> QED BY <1>1, <1>2

LEMMA RecoverPass ==
  ASSUME RefInv, RowsKept, VerdictsKept, NEW a \in Actors, RecoverStep(a)
  PROVE  PassesLaunched'
<1>0. /\ pc \in [Actors -> ControlPoints] /\ pass \in [Actors -> Passes]
  BY DEF RefInv, SafeInv, Typed, ActorsTyped
<1>1. /\ pc'[a] \in {"zadd", "dlq", "recover", "schedule"} /\ UNCHANGED affected
      /\ pass'[a].ready = pass[a].ready /\ pass'[a].doomed = pass[a].doomed
      /\ OthersPass(a)
  BY <1>0 DEF RecoverStep, Retry, Exhaust, Superseded, ScheduleRetry, DeadLetter, AfterRecovery,
     OthersPass, Passes
<1> QED BY <1>1, OutsidePass, SeenByAll

LEMMA SnapshotSeen ==
  ASSUME RefInv, RowsKept, VerdictsKept, NEW a \in Actors, NEW e \in Launched,
         pass' = [pass EXCEPT ![a] = Snapshot(e)], pc'[a] = "pass",
         affected'[a] \subseteq affected[a]
  PROVE  PassSeen(a)
<1>1. e \in Executions /\ pass'[a] = Snapshot(e)
  BY DEF Launched, RefInv, SafeInv, Typed, ActorsTyped
<1>2. \A t \in Rows(e) : t \in Tasks /\ status[t] # "ABSENT" /\ ExecutionOf(t) = e
  BY <1>1, TaskOfExecution DEF Rows
<1>3. affected[a] \subseteq Launched
  BY DEF RefInv, PassesLaunched, PassLaunched
<1> QED BY <1>1, <1>2, <1>3, SnapshotType DEF PassSeen

LEMMA PassPass ==
  ASSUME RefInv, RowsKept, VerdictsKept, NEW a \in Actors, PassStep(a)
  PROVE  PassesLaunched'
<1>0. /\ pc \in [Actors -> ControlPoints] /\ pass \in [Actors -> Passes]
      /\ affected \in [Actors -> SUBSET Executions]
      /\ PassLaunched(a) /\ pass[a] \in Passes
      /\ pass[a].ready \subseteq Tasks /\ pass[a].doomed \subseteq Tasks
  BY DEF RefInv, PassesLaunched, SafeInv, Typed, ActorsTyped, Passes
<1>1. ASSUME NEW e \in affected[a], BeginPass(a, e) PROVE PassesLaunched'
  <2>1. e \in Launched /\ OthersPass(a)
    BY <1>0, <1>1 DEF PassLaunched, BeginPass, OthersPass
  <2>2. PassSeen(a)
    BY <1>0, <1>1, <2>1, SnapshotSeen DEF BeginPass
  <2> QED BY <2>1, <2>2, SeenByAll
<1>2. CASE RepeatPass(a)
  <2>1. pass[a].exec \in Launched /\ OthersPass(a)
    BY <1>0, <1>2 DEF PassLaunched, RepeatPass, LoopDone, OthersPass
  <2>2. PassSeen(a)
    BY <1>0, <1>2, <2>1, SnapshotSeen DEF RepeatPass, LoopDone
  <2> QED BY <2>1, <2>2, SeenByAll
<1>3. ASSUME NEW t \in pass[a].ready, MarkEnqueued(a, t) PROVE PassesLaunched'
  <2>1. /\ pc[a] = "pass" /\ pc'[a] \in {"pass", "push"} /\ UNCHANGED affected /\ OthersPass(a)
        /\ pass'[a].exec = pass[a].exec /\ pass'[a].doomed = pass[a].doomed
        /\ pass'[a].ready \subseteq pass[a].ready
    BY <1>0, <1>3 DEF MarkEnqueued, OthersPass, Passes
  <2> QED BY <2>1, PassNarrowed, SeenByAll
<1>4. CASE PushTask(a)
  <2>1. /\ pc[a] = "push" /\ pc'[a] = "pass" /\ UNCHANGED affected /\ OthersPass(a)
        /\ pass'[a].exec = pass[a].exec /\ pass'[a].doomed = pass[a].doomed
        /\ pass'[a].ready = pass[a].ready
    BY <1>0, <1>4 DEF PushTask, OthersPass, Passes
  <2> QED BY <2>1, PassNarrowed, SeenByAll
<1>5. ASSUME NEW t \in pass[a].doomed, Cascade(a, t) PROVE PassesLaunched'
  <2>1. PICK further \in SUBSET {u \in Rows(pass[a].exec) : t \in Deps(u) /\ Waiting(u)} :
          pass' = [pass EXCEPT ![a].doomed = (@ \ {t}) \cup further,
                               ![a].changed = @ \/ status[t] = "PENDING"]
    BY <1>5 DEF Cascade
  <2>2. /\ pc[a] = "pass" /\ UNCHANGED <<pc, affected, deps>> /\ OthersPass(a)
        /\ pass'[a].exec = pass[a].exec /\ pass'[a].ready = pass[a].ready
        /\ pass'[a].doomed \subseteq pass[a].doomed \cup further
    BY <1>0, <1>5, <2>1 DEF Cascade, OthersPass, Passes
  <2>3. pass[a].exec \in Launched /\ pass[a].exec \in Executions
    BY <1>0, <2>2 DEF PassLaunched, Launched
  <2>4. status'[t] = "FAILED"
    <3>1. t \in Tasks /\ DepFailed(t) /\ status[t] # "ABSENT"
      BY <1>0 DEF PassLaunched
    <3>2. status[t] \notin {"RUNNING", "RETRYING", "COMPLETED"}
      BY <3>1, ClearedNotDoomed DEF RefInv, SafeInv, Started, Queued
    <3>3. status \in [Tasks -> TaskStatuses]
      BY DEF RefInv, SafeInv, Typed, TablesTyped
    <3> QED BY <1>5, <3>1, <3>2, <3>3 DEF Cascade, TaskStatuses
  <2>5. \A u \in further : u \in Tasks /\ status[u] # "ABSENT" /\ ExecutionOf(u) = pass[a].exec
    BY <2>3, TaskOfExecution DEF Rows
  <2>6. \A u \in further : DepFailed(u)'
    BY <2>2, <2>4 DEF DepFailed, Deps
  <2>7. PassSeen(a)
    BY <1>0, <2>2, <2>3, <2>5, <2>6 DEF PassLaunched, PassSeen
  <2> QED BY <2>2, <2>7, SeenByAll
<1>6. CASE FinalizeRead(a)
  <2>1. CASE Return(a)
    <3>1. OthersPass(a)
      BY <1>0, <2>1 DEF Return, OthersPass
    <3> QED BY <2>1, <3>1, LeavesPass, SeenByAll
  <2>2. CASE ~Return(a)
    <3> DEFINE e == pass[a].exec
    <3>1. /\ Rows(e) # {} /\ ~ \E t \in Rows(e) : status[t] \in NonTerminal
          /\ pc' = [pc EXCEPT ![a] = IF AllCompleted(e) THEN "complete" ELSE "fail"]
          /\ pc[a] = "pass" /\ UNCHANGED <<affected, pass>>
      BY <1>6, <2>2 DEF FinalizeRead, LoopDone, AllCompleted
    <3>2. e \in Launched /\ e \in Executions
      BY <1>0, <3>1 DEF PassLaunched, Launched
    <3>3. Settled(e) /\ (AllCompleted(e) \/ SomeFailed(e))
      <4>1. \A t \in Rows(e) : status[t] \in TaskStatuses /\ status[t] # "ABSENT"
        BY <3>2, TaskOfExecution DEF Rows, RefInv, SafeInv, Typed, TablesTyped
      <4> QED BY <3>1, <4>1
              DEF NonTerminal, TaskStatuses, Terminal, Settled, AllCompleted, SomeFailed
    <3>4. OthersPass(a)
      BY <1>0, <3>1 DEF OthersPass
    <3>5. PassSeen(a)
      BY <1>0, <3>1, <3>2, <3>3 DEF PassLaunched, PassSeen
    <3> QED BY <3>4, <3>5, SeenByAll
  <2> QED BY <2>1, <2>2
<1>7. CASE FinalizeWrite(a)
  <2>1. Return(a) /\ OthersPass(a)
    BY <1>0, <1>7 DEF FinalizeWrite, Return, OthersPass
  <2> QED BY <2>1, LeavesPass, SeenByAll
<1> QED BY <1>1, <1>2, <1>3, <1>4, <1>5, <1>6, <1>7 DEF PassStep
\* The steps that touch no pass.
LEMMA PassesStep ==
  ASSUME RefInv, RowsKept, VerdictsKept, Next
  PROVE  PassesLaunched'
<1>0. Typed /\ PlannersMatch
  BY DEF RefInv, SafeInv
<1>1. ASSUME UNCHANGED actorVars PROVE PassesLaunched'
  <2>1. \A a \in Actors : PassSeen(a)
    BY <1>1, PassUntouched DEF actorVars
  <2> QED BY <1>0, <2>1, SeenLaunched DEF PassesLaunched
<1>2. ASSUME NEW w \in Workers, WorkerStep(w) PROVE PassesLaunched'
  BY <1>0, <1>2, PlanPass, ExecutePass, RecoverPass, PassPass DEF WorkerStep, Actors
<1>3. ASSUME NEW r \in Reapers, ReaperStep(r) PROVE PassesLaunched'
  <2>1. CASE ReaperScan(r)
    <3>1. r \in Actors
      BY DEF Actors
    <3>2. {ExecutionOf(t) : t \in StaleTasks} \subseteq Launched
      BY QueuedLaunched DEF StaleTasks
    <3>3. /\ pc'[r] = "recover" /\ UNCHANGED pass /\ OthersPass(r)
          /\ affected'[r] = {ExecutionOf(t) : t \in StaleTasks}
      BY <1>0, <2>1, <3>1 DEF ReaperScan, OthersPass, Typed, ActorsTyped
    <3> QED BY <3>1, <3>2, <3>3, OutsidePass, SeenByAll
  <2> QED BY <1>3, <2>1, RecoverPass, PassPass DEF ReaperStep, Actors
<1>4. CASE FaultStep
  <2>1. ASSUME NEW a \in Actors, Drop(a) PROVE PassesLaunched'
    <3>1. OthersPass(a)
      BY <1>0, <2>1 DEF Drop, OthersPass, Typed, ActorsTyped
    <3> QED BY <2>1, <3>1, LeavesPass, SeenByAll
  <2> QED BY <1>1, <1>4, <2>1
          DEF FaultStep, PlanError, Crash, PromoterCrash, DuplicateDelivery, Actors
<1>5. CASE ApiStep \/ (\E p \in Promoters : PromoterStep(p)) \/ (\E t \in Tasks : Elapse(t))
  <2>1. UNCHANGED actorVars
    BY <1>5 DEF ApiStep, CreateExecution, EnqueuePlan, ApiStops, PromoterStep, Elapse, QueueStep,
       LeaseExpires
  <2> QED BY <1>1, <2>1
<1> QED BY <1>2, <1>3, <1>4, <1>5 DEF Next

-----------------------------------------------------------------------------
(* The theorems.                                                           *)

LEMMA RefStep == ErrorsWhilePlanning => (RefInv /\ [Next]_vars => RefInv')
<1> SUFFICES ASSUME ErrorsWhilePlanning, RefInv, [Next]_vars PROVE RefInv'
  OBVIOUS
<1>1. SafeInv'
  BY SafeStep DEF RefInv
<1>2. CASE Next
  <2>1. RowsKept
    BY <1>2, RowsStep DEF RefInv, SafeInv
  <2>2. LifecycleRule
    BY <1>2, StepRule
  <2>3. VerdictsKept
    BY <2>2, RuleKeepsVerdicts
  <2> QED BY <1>1, <1>2, <2>1, <2>2, <2>3, MatchStep, PlannersStep, PlanJobsStep, EnqueuedStep,
          PassesStep
          DEF RefInv
<1>3. CASE UNCHANGED vars
  <2>1. ExecutionsMatch' /\ PlannersMatch'
    BY <1>3 DEF vars, taskVars, actorVars, RefInv, ExecutionsMatch, PlannersMatch, PlannerMatch,
       Unstarted, Settled, AllCompleted, SomeFailed, Rows
  <2>2. EnqueuedLaunched' /\ PassesLaunched'
    BY <1>3 DEF vars, taskVars, actorVars, RefInv, EnqueuedLaunched, PassesLaunched, PassLaunched,
       Launched, Settled, AllCompleted, SomeFailed, Rows, DepFailed, Deps
  <2>3. PlanJobsAlone'
    BY <1>3 DEF vars, actorVars, queueVars, RefInv, PlanJobsAlone, PlanJobAlone, PlanComing, AtGuard
  <2> QED BY <1>1, <2>1, <2>2, <2>3 DEF RefInv
<1> QED BY <1>2, <1>3

LEMMA RefInvariant == ASSUME ErrorsWhilePlanning PROVE Spec => []RefInv
<1>1. Init => RefInv
  BY InitRefines
<1>2. RefInv /\ [Next]_vars => RefInv'
  BY RefStep
<1> QED BY <1>1, <1>2, PTL DEF Spec

\* The scheduler implements ExecutionLifecycle: every step of an actor is one of
\* its rules or changes no row, however late the actor writes what it decided.
THEOREM SchedulerImplementsLifecycle ==
  ASSUME ErrorsWhilePlanning PROVE Spec => ImplementsLifecycle
<1>1. Init => Lifecycle!Init
  BY InitRefines
<1>2. RefInv /\ [Next]_vars => [Lifecycle!Next]_<<execStatus, status, deps, result>>
  <2>1. ASSUME LifecycleRule
        PROVE  Lifecycle!Next \/ UNCHANGED <<execStatus, status, deps, result>>
    BY <2>1, SameWords DEF LifecycleRule, Lifecycle!Next, Lifecycle!ExecutionStep
  <2> QED BY <2>1, StepRule DEF vars, taskVars
<1> QED BY <1>1, <1>2, RefInvariant, PTL
        DEF Spec, ImplementsLifecycle, Lifecycle!Spec, Lifecycle!lifecycleVars

\* COMPLETED and FAILED are where executions and tasks end.
THEOREM VerdictsAreFinal == ASSUME ErrorsWhilePlanning PROVE Spec => TerminalIsFinal
<1>1. RefInv /\ [Next]_vars =>
        [/\ \A e \in Executions : execStatus[e] \in Terminal => execStatus'[e] = execStatus[e]
         /\ \A t \in Tasks : status[t] \in Terminal => status'[t] = status[t]]_vars
  <2>1. ASSUME RefInv, Next
        PROVE  /\ \A e \in Executions : execStatus[e] \in Terminal => execStatus'[e] = execStatus[e]
               /\ \A t \in Tasks : status[t] \in Terminal => status'[t] = status[t]
    <3>1. RowsKept
      BY <2>1, RowsStep DEF RefInv, SafeInv
    <3>2. VerdictsKept
      BY <2>1, StepRule, RuleKeepsVerdicts
    <3> QED BY <3>1, <3>2 DEF RowsKept, VerdictsKept
  <2> QED BY <2>1
<1> QED BY <1>1, RefInvariant, PTL DEF Spec, TerminalIsFinal

\* No task runs, or waits for its retry, under an execution that is not running.
THEOREM WorkIsUnderRunningExecutions ==
  ASSUME ErrorsWhilePlanning PROVE Spec => []WorkNeedsRunningExecution
<1>1. RefInv => WorkNeedsRunningExecution
  BY WorkLaunched, SameWords
  DEF WorkNeedsRunningExecution, Lifecycle!WorkNeedsRunningExecution, Terminal
<1> QED BY <1>1, RefInvariant, PTL

\* The verdict on an execution agrees with its tasks, and stays so.  With
\* planning errors an execution fails with tasks nobody has started, which is
\* what ExecutionsMatch says of it.
THEOREM VerdictsAgree ==
  ASSUME ErrorPoints = {} PROVE Spec => []VerdictMatchesTasks
<1>1. ErrorsWhilePlanning
  BY DEF ErrorsWhilePlanning
<1>2. RefInv => VerdictMatchesTasks
  <2> SUFFICES ASSUME RefInv PROVE VerdictMatchesTasks
    OBVIOUS
  <2>1. \A e \in Executions : \A t \in Rows(e) : status[t] = "COMPLETED" => result[t]
    BY TaskOfExecution DEF Rows, RefInv, SafeInv, ResultsMatchStatus
  <2> QED BY <2>1 DEF RefInv, ExecutionsMatch, AllCompleted, Settled, SomeFailed, VerdictMatchesTasks
<1> QED BY <1>1, <1>2, RefInvariant, PTL
=============================================================================
