----------------------------- MODULE Scheduler -----------------------------
(***************************************************************************)
(* Queue mode end to end: the API that creates executions, the consumer    *)
(* threads that plan executions and execute tasks (plan_execution,         *)
(* execute_task), the reaper threads that recover stale tasks, and the     *)
(* scheduling pass both of them run (schedule_execution, _finalize), over  *)
(* the Postgres tables and the job queue.                                  *)
(*                                                                         *)
(* One action is one database transaction or one Redis command.  Postgres  *)
(* runs READ COMMITTED and every UPDATE of the scheduler is guarded, so a  *)
(* transaction is atomic, but what an actor read in one is stale in the    *)
(* next: everything kept in Python between two of them is an actor-local   *)
(* variable below.                                                         *)
(***************************************************************************)
EXTENDS JobQueue

CONSTANTS
  Workers,          \* consumer threads, over all worker processes
  Reapers,          \* reaper threads, one per worker process
  MaxRetries,       \* task_max_retries
  CrashPoints,      \* control points at which an actor may die or raise
  ErrorPoints,      \* control points at which a plan job may raise
  PrematureExpiry,  \* may the lease of a live worker run out?
  Redelivery,       \* may a queued job be delivered twice?
  MaxFaults         \* bound on the crashes, errors, expiries and redeliveries

Actors == Workers \cup Reapers

PlanPoints == {"guard", "llm", "start"}
HoldingPoints == {"check", "run", "recover"}
PassPoints == {"schedule", "pass", "push", "complete", "fail"}
ControlPoints == {"idle", "claim", "zadd", "dlq"} \cup PlanPoints \cup HoldingPoints \cup PassPoints

ASSUME ActorsAssumption == Workers \cap Reapers = {} /\ None \notin Actors
ASSUME MaxRetriesAssumption == MaxRetries \in Nat
ASSUME FaultsAssumption ==
  /\ CrashPoints \subseteq (ControlPoints \ {"idle"}) \cup {"api", "move"}
  /\ ErrorPoints \subseteq PlanPoints \cup PassPoints
  /\ PrematureExpiry \in BOOLEAN
  /\ Redelivery \in BOOLEAN
  /\ MaxFaults \in Nat

VARIABLES
  \* the tables
  execStatus,  \* executions.status
  status,      \* tasks.status
  deps,        \* tasks.depends_on
  enqueued,    \* tasks.enqueued
  attempts,    \* tasks.attempts
  result,      \* does task_results have a row for the task?
  expired,     \* is tasks.updated_at older than the lease?
  \* the actors
  apiPending,  \* executions create_execution has committed and not enqueued
  pc,          \* where each actor is
  job,         \* the job a worker has in hand
  stale,       \* what an actor read of tasks it is about to retry or fail
  affected,    \* executions an actor has still to run a scheduling pass for
  pass,        \* the snapshot and progress of its scheduling pass
  \* history and bounds
  tries,       \* how often each task's agent has been started
  faults       \* faults so far

taskVars == <<status, deps, enqueued, attempts, result, expired>>
actorVars == <<pc, job, stale, affected, pass>>
vars == <<execStatus, taskVars, apiPending, actorVars, tries, faults, queueVars>>

NoPass == [exec |-> None, ready |-> {}, doomed |-> {}, task |-> None, changed |-> FALSE]

Passes == [exec : Executions \cup {None}, ready : SUBSET Tasks, doomed : SUBSET Tasks,
           task : Tasks \cup {None}, changed : BOOLEAN]

StaleReads == [task : Tasks, attempts : Nat]

TypeOK ==
  /\ execStatus \in [Executions -> ExecutionStatuses]
  /\ status \in [Tasks -> TaskStatuses]
  /\ deps \in [Tasks -> SUBSET Index]
  /\ enqueued \in [Tasks -> BOOLEAN]
  /\ attempts \in [Tasks -> Nat]
  /\ result \in [Tasks -> BOOLEAN]
  /\ expired \in [Tasks -> BOOLEAN]
  /\ apiPending \in SUBSET Executions
  /\ pc \in [Actors -> ControlPoints]
  /\ job \in [Actors -> Jobs \cup {None}]
  /\ stale \in [Actors -> SUBSET StaleReads]
  /\ affected \in [Actors -> SUBSET Executions]
  /\ pass \in [Actors -> Passes]
  /\ tries \in [Tasks -> Nat]
  /\ faults \in 0 .. MaxFaults
  /\ QueueTypeOK

Init ==
  /\ execStatus = [e \in Executions |-> "ABSENT"]
  /\ status = [t \in Tasks |-> "ABSENT"]
  /\ deps = [t \in Tasks |-> {}]
  /\ enqueued = [t \in Tasks |-> FALSE]
  /\ attempts = [t \in Tasks |-> 0]
  /\ result = [t \in Tasks |-> FALSE]
  /\ expired = [t \in Tasks |-> FALSE]
  /\ apiPending = {}
  /\ pc = [a \in Actors |-> "idle"]
  /\ job = [a \in Actors |-> None]
  /\ stale = [a \in Actors |-> {}]
  /\ affected = [a \in Actors |-> {}]
  /\ pass = [a \in Actors |-> NoPass]
  /\ tries = [t \in Tasks |-> 0]
  /\ faults = 0
  /\ QueueInit

-----------------------------------------------------------------------------
(* The WHERE clauses and tests of the code, named.                         *)

Rows(e) == {t \in TasksOf(e) : status[t] # "ABSENT"}

\* by_index: the rows depends_on names.  A plan only names its own rows and
\* plan_execution inserts a plan's rows together, so none is missing.
Deps(t) == {ExecutionOf(t)} \X deps[t]

(* A definition whose name starts with Slip is a plausible slip in the one  *)
(* that follows it: README, "Mutants".                                     *)

SlipClaimRunning == {"PENDING", "RETRYING", "RUNNING"}

\* _CLAIMABLE
Claimable == {"PENDING", "RETRYING"}

SlipPersistRunningOnly == {"RUNNING"}
SlipPersistFailed == {"RUNNING", "RETRYING", "FAILED"}

\* The statuses _persist_success moves to COMPLETED.
Persistable == {"RUNNING", "RETRYING"}

SlipRetryingIsTerminal == {"PENDING", "RUNNING"}
SlipRunningIsTerminal == {"PENDING", "RETRYING"}

\* non_terminal of _finalize.
NonTerminal == {"PENDING", "RUNNING", "RETRYING"}

\* A task a scheduling pass looks at, and the two things it may do with it.
Waiting(t) == status[t] = "PENDING" /\ ~enqueued[t]
DepFailed(t) == \E d \in Deps(t) : status[d] = "FAILED"
SlipDepsStarted(t) == \A d \in Deps(t) : status[d] # "PENDING"
DepsCompleted(t) == \A d \in Deps(t) : status[d] = "COMPLETED"

\* The snapshot a scheduling pass takes of the rows of e.
Snapshot(e) ==
  LET waiting == {t \in Rows(e) : Waiting(t)}
      doomed == {t \in waiting : DepFailed(t)}
  IN [exec |-> e,
      ready |-> {t \in waiting \ doomed : DepsCompleted(t)},
      doomed |-> doomed,
      task |-> None,
      changed |-> FALSE]

SlipAttemptsNotCounted(x) == x.attempts
SlipOneRetryMore(x) == x.attempts <= MaxRetries

\* attempts_new of _retry_or_fail, and what it decides from it.
AttemptsNew(x) == x.attempts + 1
RetriesLeft(x) == AttemptsNew(x) <= MaxRetries

SlipNotCompleted(t) == status[t] # "COMPLETED"
SlipPendingIsNotEnqueued(t) == status[t] = "PENDING"
SlipReplan(e) == execStatus[e] \in {"PENDING", "PLANNING"}

\* The guards of the UPDATEs: of _retry_or_fail (both of them), of
\* _mark_enqueued, and of _guard_execution before planning.
StillRunning(t) == status[t] = "RUNNING"
NotEnqueued(t) == ~enqueued[t]
Unplanned(e) == execStatus[e] = "PENDING"

SlipReapRetrying == {t \in Tasks : status[t] = "RETRYING" /\ expired[t]}

\* The rows the reaper's SELECT returns.
StaleTasks == {t \in Tasks : status[t] = "RUNNING" /\ expired[t]}

\* A live worker between claiming a task and reporting its outcome.
Holds(a, t) == job[a] = TaskJob(t) /\ pc[a] \in HoldingPoints
Held(t) == \E a \in Workers : Holds(a, t)

\* The control point after a stale read has been dealt with.
AfterRecovery(remaining) == IF remaining = {} THEN "schedule" ELSE "recover"

\* Is the loop over the snapshot of a's pass over?
LoopDone(a) == pc[a] = "pass" /\ pass[a].ready = {} /\ pass[a].doomed = {}

\* The actor abandons what it was doing: its session is closed.
Drop(a) ==
  /\ pc' = [pc EXCEPT ![a] = "idle"]
  /\ job' = [job EXCEPT ![a] = None]
  /\ stale' = [stale EXCEPT ![a] = {}]
  /\ affected' = [affected EXCEPT ![a] = {}]
  /\ pass' = [pass EXCEPT ![a] = NoPass]

SlipForgetOthers(a) ==
  /\ pc' = [pc EXCEPT ![a] = "idle"]
  /\ job' = [job EXCEPT ![a] = None]
  /\ pass' = [pass EXCEPT ![a] = NoPass]
  /\ affected' = [affected EXCEPT ![a] = {}]
  /\ UNCHANGED stale

\* The actor leaves schedule_execution: a reaper goes on with the executions
\* it has still to look at, anyone else is done with its job.
Return(a) ==
  /\ pc' = [pc EXCEPT ![a] = IF affected[a] = {} THEN "idle" ELSE "schedule"]
  /\ job' = [job EXCEPT ![a] = None]
  /\ pass' = [pass EXCEPT ![a] = NoPass]
  /\ UNCHANGED <<stale, affected>>

Fault == faults < MaxFaults /\ faults' = faults + 1

-----------------------------------------------------------------------------
(* The API: create_execution.                                              *)

CreateExecution(e) ==
  /\ execStatus[e] = "ABSENT"
  /\ execStatus' = [execStatus EXCEPT ![e] = "PENDING"]
  /\ apiPending' = apiPending \cup {e}
  /\ UNCHANGED <<taskVars, actorVars, tries, faults, queueVars>>

EnqueuePlan(e) ==
  /\ e \in apiPending
  /\ apiPending' = apiPending \ {e}
  /\ Enqueue(PlanJob(e))
  /\ UNCHANGED <<execStatus, taskVars, actorVars, tries, faults>>

\* The API process dies, or enqueue_plan raises, after the commit.
ApiStops(e) ==
  /\ "api" \in CrashPoints
  /\ e \in apiPending
  /\ Fault
  /\ apiPending' = apiPending \ {e}
  /\ UNCHANGED <<execStatus, taskVars, actorVars, tries, queueVars>>

-----------------------------------------------------------------------------
(* A consumer thread takes a job: _consumer_loop, _handle_job.             *)

Dequeue(w) ==
  /\ pc[w] = "idle"
  /\ Pop
  /\ job' = [job EXCEPT ![w] = Head(queue)]
  /\ pc' = [pc EXCEPT ![w] = IF Head(queue).type = "plan" THEN "guard" ELSE "claim"]
  /\ UNCHANGED <<execStatus, taskVars, apiPending, stale, affected, pass, tries, faults>>

-----------------------------------------------------------------------------
(* plan_execution.                                                         *)

\* Only the worker that moves PENDING to PLANNING plans.
GuardPlan(w) ==
  LET e == job[w].id IN
  /\ pc[w] = "guard"
  /\ IF Unplanned(e)
     THEN /\ execStatus' = [execStatus EXCEPT ![e] = "PLANNING"]
          /\ pc' = [pc EXCEPT ![w] = "llm"]
          /\ UNCHANGED <<job, stale, affected, pass>>
     ELSE /\ Drop(w)
          /\ UNCHANGED execStatus
  /\ UNCHANGED <<taskVars, apiPending, tries, faults, queueVars>>

\* The planner answers and the rows of its plan are committed together.
InsertTasks(w, p) ==
  LET new == {<<job[w].id, i>> : i \in DOMAIN p} IN
  /\ pc[w] = "llm"
  /\ status' = [t \in Tasks |-> IF t \in new THEN "PENDING" ELSE status[t]]
  /\ deps' = [t \in Tasks |-> IF t \in new THEN p[t[2]] ELSE deps[t]]
  /\ pc' = [pc EXCEPT ![w] = "start"]
  /\ UNCHANGED <<execStatus, enqueued, attempts, result, expired, apiPending,
                 job, stale, affected, pass, tries, faults, queueVars>>

StartExecution(w) ==
  LET e == job[w].id IN
  /\ pc[w] = "start"
  /\ execStatus' = [execStatus EXCEPT ![e] = IF @ = "PLANNING" THEN "RUNNING" ELSE @]
  /\ affected' = [affected EXCEPT ![w] = {e}]
  /\ pc' = [pc EXCEPT ![w] = "schedule"]
  /\ UNCHANGED <<taskVars, apiPending, job, stale, pass, tries, faults, queueVars>>

\* Anything under the try of plan_execution raises, its scheduling pass
\* included: _fail_execution, whatever the status is by then.
PlanError(w) ==
  /\ pc[w] \in ErrorPoints
  /\ job[w] \in PlanJobs
  /\ Fault
  /\ execStatus' = [execStatus EXCEPT ![job[w].id] = "FAILED"]
  /\ Drop(w)
  /\ UNCHANGED <<taskVars, apiPending, tries, queueVars>>

-----------------------------------------------------------------------------
(* execute_task.                                                           *)

\* _claim_task: PENDING or RETRYING to RUNNING, stamping updated_at.  A job
\* whose task is not claimable is dropped.
Claim(w) ==
  LET t == job[w].id IN
  /\ pc[w] = "claim"
  /\ IF status[t] \in Claimable
     THEN /\ status' = [status EXCEPT ![t] = "RUNNING"]
          /\ expired' = [expired EXCEPT ![t] = FALSE]
          /\ pc' = [pc EXCEPT ![w] = "check"]
          /\ UNCHANGED <<job, stale, affected, pass>>
     ELSE /\ Drop(w)
          /\ UNCHANGED <<status, expired>>
  /\ UNCHANGED <<execStatus, deps, enqueued, attempts, result, apiPending,
                 tries, faults, queueVars>>

\* Complete a task that has a result already, start the agent of one that has
\* none.
CheckResult(w) ==
  LET t == job[w].id IN
  /\ pc[w] = "check"
  /\ IF result[t]
     THEN /\ status' = [status EXCEPT ![t] = IF @ = "RUNNING" THEN "COMPLETED" ELSE @]
          /\ affected' = [affected EXCEPT ![w] = {ExecutionOf(t)}]
          /\ pc' = [pc EXCEPT ![w] = "schedule"]
          /\ UNCHANGED tries
     ELSE /\ tries' = [tries EXCEPT ![t] = @ + 1]
          /\ pc' = [pc EXCEPT ![w] = "run"]
          /\ UNCHANGED <<status, affected>>
  /\ UNCHANGED <<execStatus, deps, enqueued, attempts, result, expired, apiPending,
                 job, stale, pass, faults, queueVars>>

\* The agent answers in time: _persist_success.  The result row is inserted
\* unless there is one, and the status moves only from RUNNING or RETRYING.
PersistSuccess(w) ==
  LET t == job[w].id IN
  /\ pc[w] = "run"
  /\ result' = [result EXCEPT ![t] = TRUE]
  /\ status' = [status EXCEPT ![t] = IF @ \in Persistable THEN "COMPLETED" ELSE @]
  /\ affected' = [affected EXCEPT ![w] = {ExecutionOf(t)}]
  /\ pc' = [pc EXCEPT ![w] = "schedule"]
  /\ UNCHANGED <<execStatus, deps, enqueued, attempts, expired, apiPending,
                 job, stale, pass, tries, faults, queueVars>>

\* The agent raises or times out: roll back and read the task afresh.
FailAttempt(w) ==
  LET t == job[w].id IN
  /\ pc[w] = "run"
  /\ stale' = [stale EXCEPT ![w] = {[task |-> t, attempts |-> attempts[t]]}]
  /\ affected' = [affected EXCEPT ![w] = {ExecutionOf(t)}]
  /\ pc' = [pc EXCEPT ![w] = "recover"]
  /\ UNCHANGED <<execStatus, taskVars, apiPending, job, pass, tries, faults, queueVars>>

-----------------------------------------------------------------------------
(* Leases and recover_stale_tasks.                                         *)

\* A RUNNING task has not been updated for task_lease_seconds.  Leases exceed
\* the task timeout, so unless PrematureExpiry no live worker holds the task.
LeaseExpires(t) ==
  /\ status[t] = "RUNNING"
  /\ ~expired[t]
  /\ IF Held(t) THEN PrematureExpiry /\ Fault ELSE UNCHANGED faults
  /\ expired' = [expired EXCEPT ![t] = TRUE]
  /\ UNCHANGED <<execStatus, status, deps, enqueued, attempts, result, apiPending,
                 actorVars, tries, queueVars>>

\* The reaper loads the stale rows; it handles them one by one from here on.
ReaperScan(r) ==
  /\ pc[r] = "idle"
  /\ StaleTasks # {}
  /\ stale' = [stale EXCEPT ![r] = {[task |-> t, attempts |-> attempts[t]] : t \in StaleTasks}]
  /\ affected' = [affected EXCEPT ![r] = {ExecutionOf(t) : t \in StaleTasks}]
  /\ pc' = [pc EXCEPT ![r] = "recover"]
  /\ UNCHANGED <<execStatus, taskVars, apiPending, job, pass, tries, faults, queueVars>>

-----------------------------------------------------------------------------
(* _retry_or_fail, for a worker's own failure or a reaper's stale task x.  *)

Retry(a, x) ==
  /\ pc[a] = "recover"
  /\ x \in stale[a]
  /\ RetriesLeft(x)
  /\ StillRunning(x.task)
  /\ status' = [status EXCEPT ![x.task] = "RETRYING"]
  /\ attempts' = [attempts EXCEPT ![x.task] = AttemptsNew(x)]
  /\ stale' = [stale EXCEPT ![a] = @ \ {x}]
  /\ pass' = [pass EXCEPT ![a].task = x.task]
  /\ pc' = [pc EXCEPT ![a] = "zadd"]
  /\ UNCHANGED <<execStatus, deps, enqueued, result, expired, apiPending,
                 job, affected, tries, faults, queueVars>>

ScheduleRetry(a) ==
  /\ pc[a] = "zadd"
  /\ ScheduleTask(pass[a].task)
  /\ pass' = [pass EXCEPT ![a].task = None]
  /\ pc' = [pc EXCEPT ![a] = AfterRecovery(stale[a])]
  /\ UNCHANGED <<execStatus, taskVars, apiPending, job, stale, affected, tries, faults>>

Exhaust(a, x) ==
  /\ pc[a] = "recover"
  /\ x \in stale[a]
  /\ ~RetriesLeft(x)
  /\ StillRunning(x.task)
  /\ status' = [status EXCEPT ![x.task] = "FAILED"]
  /\ attempts' = [attempts EXCEPT ![x.task] = AttemptsNew(x)]
  /\ stale' = [stale EXCEPT ![a] = @ \ {x}]
  /\ pass' = [pass EXCEPT ![a].task = x.task]
  /\ pc' = [pc EXCEPT ![a] = "dlq"]
  /\ UNCHANGED <<execStatus, deps, enqueued, result, expired, apiPending,
                 job, affected, tries, faults, queueVars>>

DeadLetter(a) ==
  /\ pc[a] = "dlq"
  /\ PushDeadLetter(pass[a].task)
  /\ pass' = [pass EXCEPT ![a].task = None]
  /\ pc' = [pc EXCEPT ![a] = AfterRecovery(stale[a])]
  /\ UNCHANGED <<execStatus, taskVars, apiPending, job, stale, affected, tries, faults>>

\* The guarded UPDATE matches no row: somebody else has moved the task on.
Superseded(a, x) ==
  /\ pc[a] = "recover"
  /\ x \in stale[a]
  /\ ~StillRunning(x.task)
  /\ stale' = [stale EXCEPT ![a] = @ \ {x}]
  /\ pc' = [pc EXCEPT ![a] = AfterRecovery(stale[a] \ {x})]
  /\ UNCHANGED <<execStatus, taskVars, apiPending, job, affected, pass, tries, faults, queueVars>>

-----------------------------------------------------------------------------
(* schedule_execution.                                                     *)

\* The first read of a pass for one of the executions a is to schedule.
BeginPass(a, e) ==
  /\ pc[a] = "schedule"
  /\ e \in affected[a]
  /\ affected' = [affected EXCEPT ![a] = @ \ {e}]
  /\ pass' = [pass EXCEPT ![a] = Snapshot(e)]
  /\ pc' = [pc EXCEPT ![a] = "pass"]
  /\ UNCHANGED <<execStatus, taskVars, apiPending, job, stale, tries, faults, queueVars>>

\* The pass changed something: while changed, read again.
RepeatPass(a) ==
  /\ LoopDone(a)
  /\ pass[a].changed
  /\ pass' = [pass EXCEPT ![a] = Snapshot(pass[a].exec)]
  /\ UNCHANGED <<execStatus, taskVars, apiPending, pc, job, stale, affected, tries, faults, queueVars>>

\* A dependency failed, so the task is skipped.  The session's own objects see
\* that at once: dependents further down the list may be skipped in this round.
Cascade(a, t) ==
  /\ pc[a] = "pass"
  /\ t \in pass[a].doomed
  /\ IF status[t] = "PENDING"
     THEN /\ status' = [status EXCEPT ![t] = "FAILED"]
          /\ enqueued' = [enqueued EXCEPT ![t] = TRUE]
     ELSE UNCHANGED <<status, enqueued>>
  /\ \E further \in SUBSET {u \in Rows(pass[a].exec) : t \in Deps(u) /\ Waiting(u)} :
        pass' = [pass EXCEPT ![a].doomed = (@ \ {t}) \cup further,
                             ![a].changed = @ \/ status[t] = "PENDING"]
  /\ UNCHANGED <<execStatus, deps, attempts, result, expired, apiPending,
                 pc, job, stale, affected, tries, faults, queueVars>>

\* _mark_enqueued: of the passes that find the task ready, one wins.
MarkEnqueued(a, t) ==
  /\ pc[a] = "pass"
  /\ t \in pass[a].ready
  /\ enqueued' = [enqueued EXCEPT ![t] = TRUE]
  /\ pass' = [pass EXCEPT ![a].ready = @ \ {t},
                          ![a].task = IF NotEnqueued(t) THEN t ELSE None]
  /\ pc' = [pc EXCEPT ![a] = IF NotEnqueued(t) THEN "push" ELSE "pass"]
  /\ UNCHANGED <<execStatus, status, deps, attempts, result, expired, apiPending,
                 job, stale, affected, tries, faults, queueVars>>

PushTask(a) ==
  /\ pc[a] = "push"
  /\ Enqueue(TaskJob(pass[a].task))
  /\ pass' = [pass EXCEPT ![a].task = None, ![a].changed = TRUE]
  /\ pc' = [pc EXCEPT ![a] = "pass"]
  /\ UNCHANGED <<execStatus, taskVars, apiPending, job, stale, affected, tries, faults>>

-----------------------------------------------------------------------------
(* _finalize.                                                              *)

\* It reads the tasks again and decides.
FinalizeRead(a) ==
  LET rows == Rows(pass[a].exec) IN
  /\ LoopDone(a)
  /\ ~pass[a].changed
  /\ IF rows = {} \/ \E t \in rows : status[t] \in NonTerminal
     THEN Return(a)
     ELSE /\ pc' = [pc EXCEPT ![a] = IF \A t \in rows : status[t] = "COMPLETED"
                                     THEN "complete" ELSE "fail"]
          /\ UNCHANGED <<job, stale, affected, pass>>
  /\ UNCHANGED <<execStatus, taskVars, apiPending, tries, faults, queueVars>>

\* The guarded UPDATE: of the actors that decided, one finalizes.
FinalizeWrite(a) ==
  LET outcome == IF pc[a] = "complete" THEN "COMPLETED" ELSE "FAILED" IN
  /\ pc[a] \in {"complete", "fail"}
  /\ execStatus' = [execStatus EXCEPT ![pass[a].exec] = IF @ = "RUNNING" THEN outcome ELSE @]
  /\ Return(a)
  /\ UNCHANGED <<taskVars, apiPending, tries, faults, queueVars>>

-----------------------------------------------------------------------------
(* The promoters, over the queue, and what may go wrong.                   *)

\* Steps of the promoter threads and of time that leave the database alone.
QueueStep(A) ==
  /\ A
  /\ UNCHANGED <<execStatus, taskVars, apiPending, actorVars, tries, faults>>

PromoterCrash(p) ==
  /\ "move" \in CrashPoints
  /\ Fault
  /\ PromoterStops(p)
  /\ UNCHANGED <<execStatus, taskVars, apiPending, actorVars, tries>>

DuplicateDelivery(i) ==
  /\ Redelivery
  /\ Fault
  /\ Redeliver(i)
  /\ UNCHANGED <<execStatus, taskVars, apiPending, actorVars, tries>>

\* The actor's process dies at a point where it holds no open transaction, or
\* an exception ends its job in the outer handler of execute_task or of
\* _reaper_loop; a restarted process starts from the idle state.
Crash(a) ==
  /\ pc[a] \in CrashPoints
  /\ Fault
  /\ Drop(a)
  /\ UNCHANGED <<execStatus, taskVars, apiPending, tries, queueVars>>

-----------------------------------------------------------------------------
ApiStep == \E e \in Executions : CreateExecution(e) \/ EnqueuePlan(e) \/ ApiStops(e)

PlanStep(w) ==
  \/ GuardPlan(w)
  \/ \E p \in Plans : InsertTasks(w, p)
  \/ StartExecution(w)

ExecuteStep(w) ==
  \/ Claim(w)
  \/ CheckResult(w)
  \/ PersistSuccess(w)
  \/ FailAttempt(w)

RecoverStep(a) ==
  \/ \E x \in stale[a] : Retry(a, x) \/ Exhaust(a, x) \/ Superseded(a, x)
  \/ ScheduleRetry(a)
  \/ DeadLetter(a)

PassStep(a) ==
  \/ \E e \in affected[a] : BeginPass(a, e)
  \/ RepeatPass(a)
  \/ \E t \in pass[a].doomed : Cascade(a, t)
  \/ \E t \in pass[a].ready : MarkEnqueued(a, t)
  \/ PushTask(a)
  \/ FinalizeRead(a)
  \/ FinalizeWrite(a)

PromoterStep(p) ==
  \/ QueueStep(PromoteScan(p))
  \/ \E t \in scan[p] : QueueStep(PromoteRemove(p, t))
  \/ QueueStep(PromotePush(p))

\* The steps of the threads, which keep running as long as the processes do.
WorkerStep(w) == Dequeue(w) \/ PlanStep(w) \/ ExecuteStep(w) \/ RecoverStep(w) \/ PassStep(w)
ReaperStep(r) == ReaperScan(r) \/ RecoverStep(r) \/ PassStep(r)

\* Time passes for a delayed retry and for a lease.
Elapse(t) == QueueStep(BecomeDue(t)) \/ LeaseExpires(t)

FaultStep ==
  \/ \E w \in Workers : PlanError(w)
  \/ \E a \in Actors : Crash(a)
  \/ \E p \in Promoters : PromoterCrash(p)
  \/ \E i \in DOMAIN queue : DuplicateDelivery(i)

Next ==
  \/ ApiStep
  \/ \E w \in Workers : WorkerStep(w)
  \/ \E r \in Reapers : ReaperStep(r)
  \/ \E p \in Promoters : PromoterStep(p)
  \/ \E t \in Tasks : Elapse(t)
  \/ FaultStep

Spec == Init /\ [][Next]_vars

\* Threads are scheduled by the operating system, time passes, and the API
\* handler goes on to enqueue what it committed.  Nothing obliges a client to
\* create an execution, nor a fault to happen.
Fairness ==
  /\ \A e \in Executions : WF_vars(EnqueuePlan(e))
  /\ \A w \in Workers : WF_vars(WorkerStep(w))
  /\ \A r \in Reapers : WF_vars(ReaperStep(r))
  /\ \A p \in Promoters : WF_vars(PromoterStep(p))
  /\ \A t \in Tasks : WF_vars(Elapse(t))

FairSpec == Spec /\ Fairness
=============================================================================
