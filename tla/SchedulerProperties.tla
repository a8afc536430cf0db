------------------------ MODULE SchedulerProperties ------------------------
(***************************************************************************)
(* What queue mode promises, stated over the variables of Scheduler.       *)
(***************************************************************************)
EXTENDS Scheduler

\* README "Scheduling" and "Idempotency": a task starts only after every task
\* it depends on has completed, and then finds all their outputs, so the
\* context _dependency_context builds for the agent is never missing a part.
\* The dependency test runs on a snapshot, in another actor, long before.
DependenciesFirst ==
  \A w \in Workers :
    pc[w] = "run" => \A d \in Deps(job[w].id) : status[d] = "COMPLETED" /\ result[d]

\* scheduler.py:142-144, README "Idempotency": an output is stored exactly when
\* its task completes, whichever of several racing workers stores it; the one
\* exception is a late worker whose task has been failed by the reaper.
ResultsMatchStatus ==
  \A t \in Tasks :
    /\ status[t] = "COMPLETED" => result[t]
    /\ result[t] => status[t] \in Terminal

\* README "no double work": two workers are never at work on the same task.
NoDoubleWork ==
  \A v, w \in Workers : \A t \in Tasks : Holds(v, t) /\ Holds(w, t) => v = w

\* The places a job for t can be: about to be pushed or delayed, in the list,
\* delayed, in a promoter's hands, or taken by a worker that has not claimed.
Tokens(t) ==
  LET Count(S) == Cardinality(S) IN
    Count({i \in DOMAIN queue : queue[i] = TaskJob(t)})
  + Count({p \in Promoters : moving[p] = t})
  + Count({w \in Workers : job[w] = TaskJob(t) /\ pc[w] = "claim"})
  + Count({a \in Actors : pc[a] \in {"push", "zadd"} /\ pass[a].task = t})
  + Count({t} \cap delayed)

\* README "Enqueue once", jobqueue.py:87-88: concurrent passes, retries and
\* promoters never have two jobs for one task on their way, nor one for a task
\* that is running.
SingleDelivery ==
  \A t \in Tasks :
    /\ Tokens(t) <= 1
    /\ status[t] = "RUNNING" => Tokens(t) = 0

\* config.py:61: total tries = max_retries + 1.
RetryBudget == \A t \in Tasks : tries[t] <= MaxRetries + 1

\* task.py:61-62: the attempts column accounts for every start of the agent but
\* the one under way or the one that succeeded, also when a worker that died
\* reports nothing and the reaper counts its attempt.
AttemptsAccountForTries ==
  \A t \in Tasks :
    tries[t] <= attempts[t] + IF status[t] \in {"RUNNING", "COMPLETED"} THEN 1 ELSE 0

\* README "aggregator only runs once every task is terminal": the verdict on an
\* execution agrees with its tasks.  It is reached on a read that other workers
\* may have overtaken before the UPDATE.
VerdictMatchesTasks ==
  \A e \in Executions :
    /\ execStatus[e] = "COMPLETED" =>
         Rows(e) # {} /\ \A t \in Rows(e) : status[t] = "COMPLETED" /\ result[t]
    /\ execStatus[e] = "FAILED" =>
         /\ \A t \in Rows(e) : status[t] \in Terminal
         /\ \E t \in Rows(e) : status[t] = "FAILED"

\* README:60-61: COMPLETED and FAILED are where executions and tasks end.
TerminalIsFinal ==
  [][/\ \A e \in Executions : execStatus[e] \in Terminal => execStatus'[e] = execStatus[e]
     /\ \A t \in Tasks : status[t] \in Terminal => status'[t] = status[t]]_vars

\* The same of executions alone (README:60).
ExecutionVerdictIsFinal ==
  [][\A e \in Executions : execStatus[e] \in Terminal => execStatus'[e] = execStatus[e]]_vars

\* scheduler.py:77: one worker plans.  A second delivery of the plan job never
\* inserts rows again over tasks that are already under way.
PlannedOnce ==
  [][\A t \in Tasks :
       status[t] # "ABSENT" =>
         /\ deps'[t] = deps[t]
         /\ status'[t] # "ABSENT"
         /\ status'[t] = "PENDING" => status[t] = "PENDING"]_vars

\* README "Dead-letter queue": exhausted tasks are recorded once, and nothing
\* else is recorded: neither a skipped task nor one that completes after all.
DeadLettersAreExhausted ==
  /\ \A i, j \in DOMAIN dlq : dlq[i] = dlq[j] => i = j
  /\ \A i \in DOMAIN dlq : status[dlq[i]] = "FAILED" /\ attempts[dlq[i]] > MaxRetries

\* README:370-372: a permanently failed task is not silently dropped: it is in
\* the dead-letter list, or the actor that failed it is about to put it there.
ExhaustedAreDeadLettered ==
  \A t \in Tasks :
    status[t] = "FAILED" /\ attempts[t] > MaxRetries =>
      \/ \E i \in DOMAIN dlq : dlq[i] = t
      \/ \E a \in Actors : pc[a] = "dlq" /\ pass[a].task = t

-----------------------------------------------------------------------------
(* Nothing the platform has accepted is ever left without an actor that    *)
(* will look at it.  This is what crash recovery has to preserve.          *)

\* A plan job for e that some actor still has to take to its guard.
PlanComing(e) ==
  \/ e \in apiPending
  \/ \E i \in DOMAIN queue : queue[i] = PlanJob(e)
  \/ \E w \in Workers : job[w] = PlanJob(e) /\ pc[w] = "guard"

Planning(e) == \E w \in Workers : job[w] = PlanJob(e) /\ pc[w] \in {"llm", "start"}

\* An actor that will read the rows of e for its verdict, or has read them.
WillFinalize(a, e) == e \in affected[a] \/ pass[a].exec = e

\* An actor that will still come across the waiting task t.
WillVisit(a, t) ==
  \/ ExecutionOf(t) \in affected[a]
  \/ /\ pass[a].exec = ExecutionOf(t)
     /\ t \in pass[a].ready \cup pass[a].doomed \/ pass[a].changed \/ pc[a] = "push"

NoOrphans ==
  \A e \in Executions :
    /\ execStatus[e] = "PENDING" => PlanComing(e)
    /\ execStatus[e] = "PLANNING" => Planning(e)
    /\ execStatus[e] = "RUNNING" =>
         /\ \A t \in Rows(e) :
              /\ status[t] = "RETRYING" \/ (status[t] = "PENDING" /\ enqueued[t]) => Tokens(t) > 0
              /\ Waiting(t) /\ (DepFailed(t) \/ DepsCompleted(t)) => \E a \in Actors : WillVisit(a, t)
         /\ (\A t \in Rows(e) : status[t] \in Terminal) => \E a \in Actors : WillFinalize(a, e)

\* jobqueue.py:9: delivery is at least once.  A task whose job was pushed, and
\* that nobody has claimed since, still has a job on its way.
AtLeastOnceDelivery ==
  \A t \in Tasks : status[t] = "PENDING" /\ enqueued[t] => Tokens(t) > 0

\* README:354-355: between attempts a task waits out its backoff.  A promoter
\* moves a retry to the list only when its run-at time has passed.
BackoffRespected ==
  [][\A p \in Promoters :
       moving[p] = None /\ moving'[p] # None => moving'[p] \in due]_vars

\* README "Crash recovery": every execution that was accepted reaches a verdict.
ExecutionTerminates ==
  \A e \in Executions : (execStatus[e] = "PENDING") ~> (execStatus[e] \in Terminal)

-----------------------------------------------------------------------------
\* The scheduler, with its stale reads, races, retries and crashes, does to the
\* tables only what ExecutionLifecycle allows.
Lifecycle == INSTANCE ExecutionLifecycle

ImplementsLifecycle == Lifecycle!Spec

\* In particular, no task runs or waits for its retry under an execution that is
\* still being planned or has its verdict already.
WorkNeedsRunningExecution == Lifecycle!WorkNeedsRunningExecution
=============================================================================
