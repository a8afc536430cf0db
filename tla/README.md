# Verification of the agent execution platform

TLA+ models of the platform in this repository, TLC runs that check them on
small instances, and TLAPS proofs of the results that matter most for every
instance. Line references are to files of the repository; `README` is the
repository's own README.

The platform takes a free-form request, lets a planner split it into two to five
tasks with dependencies, has agents execute the tasks, and aggregates their
outputs. In queue mode, the part most of this project is about, that work is
done by any number of worker processes that share a Postgres database and a
Redis list and hold no locks.

## 1. The system

| Component | State it keeps | Operations that change state | Talks to |
|---|---|---|---|
| Execution API (`api/routes/executions.py`) | none; inserts executions | `create_execution` | database, queue (or an in-process background task) |
| Job queue (`jobqueue.py`) | Redis: list `aep:jobs`, sorted set `aep:delayed`, list `aep:dlq` | `enqueue_*`, `dequeue`, `schedule_task`, `promote_due`, `push_dead_letter` | Redis |
| Worker process (`worker.py`) | a stop flag, where its threads are | N consumer threads, a promoter thread, a reaper thread | queue, scheduler |
| Scheduler (`services/scheduler.py`) | none between calls; the tables | `plan_execution`, `execute_task`, `recover_stale_tasks`, `schedule_execution` | database, queue, planner, agents |
| Tables (`models/`, `enums.py`) | executions, tasks, task_results | guarded `UPDATE`s | |
| Planner (`services/planner.py`) | none | `plan` | LLM |
| Inline mode (`services/orchestrator.py`, `executor.py`) | the tables | `run_execution` | database, planner, agents, aggregator |
| Aggregator (`services/aggregator.py`) | none | pure | |
| Agents and tools (`agents/`, `tools/`) | a conversation, per call | `Agent.run`, `execute_tool` | LLM |
| LLM providers (`llm/`) | none | `complete`, `chat`: the conversation in the form of an API, and its reply | remote APIs, or none (mock) |
| Metrics (`observability/metrics.py`) | none | `collect_metrics`: a sequence of reads | database |
| Event stream (`executions.py:113`) | what it sent last, a deadline | SSE generator | database, browser |
| Browser client (`frontend/src/App.jsx`) | the execution shown, its subscription, an activity log | effects and callbacks of React | REST, event stream |
| Rate and size limits, keys (`middleware.py`, `api/security.py`) | counters per client | ASGI middleware, a dependency of the routes | the API process |

How the scheduler works. A transition of an execution or a task is one guarded
`UPDATE` (compare-and-set on `status` or `enqueued`); whoever's update matches a
row goes on. There is no coordinator: each worker that has finished a task runs
a *scheduling pass* over the execution (`schedule_execution`), which queues the
tasks that became ready, fails those whose dependency failed, repeats until
nothing changes, and finalizes the execution if every task is terminal. A
failing task is put into the delayed set and promoted back to the list when its
backoff has passed; a task whose worker died is found by a reaper once its lease
(`updated_at`) is old, and is retried or failed like any other.

What makes this hard: everything a worker reads in one transaction may be stale
in the next, the queue and the database are not updated together, a worker may
die between any two steps, a lease may run out while its worker is alive, the
last two tasks of an execution may finish at the same time, and the same job may
be delivered twice. `PROJECT.json` lists these hazards at the lines where they
bite, with the properties that watch each.

What correctness means for each component:

* **scheduler**: dependencies first; no double work; a bounded number of tries;
  one job per task on its way; nothing accepted is forgotten; the verdict agrees
  with the tasks and is final; every execution ends.
* **job queue**: exactly one promoter moves a due retry, and not before it is
  due; dead letters are exactly the exhausted tasks.
* **tables**: statuses follow the documented lifecycle; an output is stored
  exactly for a completed task.
* **planner**: whatever the LLM answers, a plan is nonempty, bounded and acyclic.
* **worker process**: a process that is told to stop does stop, and what its
  threads held when it was cut off is found again.
* **LLM providers**: a conversation is one the API accepts, whatever the tools
  did; the mock runs the whole platform, and fails when its prompts say so.
* **rate limits**: each client gets its quota in every window, no more and no
  less, and a refused client is told when to come back.
* **metrics**: numbers that are read one after the other agree with each other.
* **inline mode, agents, aggregator**: an agent works with the outputs of the
  tasks its own depends on; every tool call of a conversation is answered; the
  final result holds every output once; a failure anywhere ends in a verdict.
* **event stream and browser client**: what the screen shows of an execution that
  has ended is its end, not a mixture of states; the client follows what it
  shows; the verdict appears on the screen.

## 2. Modules

| Module | Contents |
|---|---|
| `Models` | the vocabulary: executions, tasks named by (execution, order_index), statuses, plans, jobs |
| `JobQueue` | the Redis structures, one action per Redis command; promoter threads |
| `Scheduler` | EXTENDS `JobQueue`: tables, API, consumers, reapers, scheduling passes, faults: the whole of queue mode |
| `SchedulerProperties` | the properties of queue mode, and the refinement mapping |
| `ExecutionLifecycle` | abstract specification of the rows: which transitions are allowed and under which conditions; no workers, no queue, nothing stale |
| `Comprehension` | pure: Python's `[x for x in s if ...]`, as a fold |
| `Planner` | pure: from the LLM's answer to subtasks and their dependencies |
| `Aggregator` | pure: which outputs a final result consists of |
| `Providers` | pure: conversations in the form of Anthropic's and OpenAI's APIs, what these accept, replies; the mock's plan and replies |
| `AgentLoop` | EXTENDS `Providers`: one call of `Agent.run`: rounds, tool calls and their results |
| `InlineExecution` | EXTENDS `Planner`, `Aggregator`, `AgentLoop`: `run_execution` with all its handlers |
| `Metrics` | EXTENDS `InlineExecution`: `collect_metrics`, statement by statement, next to the commits of a run |
| `RateLimiter` | windows and counters of the rate limiter; the refinement mapping to `Quota` |
| `Quota` | abstract specification of the rate limiter: what each client may use in each window of the clock; no counters, nothing to reset or evict |
| `ApiProcess` | EXTENDS `Metrics`, `RateLimiter`: the API process in inline mode: requests, limits, keys, the run in the background, its death |
| `WorkerProcess` | EXTENDS `SchedulerProperties`: one worker process is told to stop while the others go on |
| `LiveView` | EXTENDS `ExecutionLifecycle`: the browser client, its event stream and REST calls, over tables that change as the lifecycle allows |
| `MCModels`, `MCScheduler`, `MCWorkerProcess`, `MCApiProcess`, `MCLiveView` | plans, answers, requests, sets of actors and symmetry for TLC |
| `ExecutionLifecycleProofs`, `SchedulerProofs`, `RefinementProofs`, `DeliveryProofs`, `RecoveryProofs`, `ConversationProofs`, `ApiProcessProofs`, `LiveViewProofs` | theorems (section 6) |

`Models` is extended by all of them but `Comprehension`, `Providers`, `AgentLoop`,
`Quota` and `RateLimiter`.
`LiveView` stands on the abstract lifecycle and not on `Scheduler`: the theorem
`SchedulerImplementsLifecycle` (and the run `leases`) shows that the scheduler
changes the tables only as the lifecycle allows (the error of
`verdict_overwritten` apart, section 4), so what `LiveView` establishes holds of
the scheduler, without its workers and its queue in the state space.

### How `Scheduler` corresponds to the code

An action is one database transaction or one Redis command. What a Python
function keeps in local variables or in its SQLAlchemy session between two of
them is an actor-local variable, so that any other actor may act in between.
Sessions are created with `expire_on_commit=False` (`database.py:26`), so a row
a reaper has loaded keeps the values it was loaded with: that is the variable
`stale`.

| Variable | Code |
|---|---|
| `execStatus`, `status`, `deps`, `enqueued`, `attempts` | columns of the same names (`depends_on` for `deps`) |
| `result` | whether `task_results` has a row for the task |
| `expired` | whether `updated_at` is older than `task_lease_seconds`; `Claim` clears it |
| `queue`, `delayed`, `due`, `dlq` | `aep:jobs`; members of `aep:delayed`, and those whose score has passed; `aep:dlq` |
| `scan`, `moving` | a promoter inside `promote_due`: members read, member removed and not pushed yet |
| `apiPending` | `create_execution` between its commit and `enqueue_plan` |
| `pc`, `job` | where a consumer or reaper thread is, and the job it handles |
| `stale` | task rows it has read and will retry or fail |
| `affected` | executions it has still to run a scheduling pass for |
| `pass` | the snapshot of its scheduling pass: tasks found ready or doomed, `changed`, the task being pushed |
| `tries` | history: how often the agent of a task was started |
| `faults` | bound on crashes, errors, premature expiries and redeliveries |

| Action | Code |
|---|---|
| `CreateExecution`, `EnqueuePlan`, `ApiStops` | `create_execution`: commit, then RPUSH; the process dies or Redis refuses in between |
| `Dequeue` | `_consumer_loop`, `_handle_job`: BLPOP |
| `GuardPlan`, `InsertTasks`, `StartExecution`, `PlanError` | `plan_execution`: PENDING to PLANNING, rows of the plan, PLANNING to RUNNING, and `_fail_execution` for whatever its `try` covers |
| `Claim`, `CheckResult` | `_claim_task`, then the short cut for a task that has a result; else the agent starts |
| `PersistSuccess`, `FailAttempt` | the agent answers; it raises or times out |
| `ReaperScan`, `LeaseExpires` | the SELECT of `recover_stale_tasks`; time |
| `Retry`/`ScheduleRetry`, `Exhaust`/`DeadLetter`, `Superseded` | `_retry_or_fail`: commit, then the Redis command; or an UPDATE that matches no row |
| `BeginPass`, `RepeatPass`, `Cascade`, `MarkEnqueued`/`PushTask` | the loop of `schedule_execution` |
| `FinalizeRead`, `FinalizeWrite` | `_finalize`: read and decide, then the guarded UPDATE |
| `PromoteScan`, `PromoteRemove`, `PromotePush`, `BecomeDue` | `promote_due`: ZRANGEBYSCORE, ZREM, RPUSH; time |
| `Crash`, `PromoterCrash`, `DuplicateDelivery` | a process dies or an outer handler swallows an exception; a job is delivered twice |

Abstractions worth knowing:

* `_mark_started` and the refresh after a claim change no modelled column and are
  part of `Claim`. The read of dependency outputs (`_dependency_context`)
  happens when the agent starts; completed tasks and results never change again,
  so `DependenciesFirst` is stated at that point.
* The query of a scheduling pass has no ORDER BY and the session's own UPDATE is
  visible to the rest of its loop. `Snapshot` handles the members in any order,
  and `Cascade` may add dependents of the task it just failed to the same round.
* Timeouts, backoffs and leases have no numbers. An agent may take any time; a
  backoff passes when `BecomeDue` fires; a lease of a task some live worker holds
  runs out only if `PrematureExpiry` says so (`config.py:70`: the lease *should*
  exceed the timeout, and nothing enforces it).
* A crash is possible at each control point listed in `CrashPoints`. An actor
  between two transactions holds no lock, so a crash only empties its local
  state; the restarted thread begins at `idle`.

### How `WorkerProcess` corresponds to the code

`Leaving` are the threads of the process that gets the signal; every other thread
is `Scheduler`'s.

| Variable, action | Code |
|---|---|
| `stop` | `_stop`; `Sigterm` sets it (`worker.py:123-129`) |
| `at` | where a loop is: at its `while not _stop.is_set()`, in its body, or past it |
| `TestStop`, `Work`, `IdleRound` | the test; a step of the body, which ends a round when nothing is left in the thread's hands; a round that finds nothing, for a consumer the timeout of BLPOP |
| `Killed` | `main` has joined for `worker_poll_timeout + 10` seconds (15 by default, while a task may take 30) and returns, and the interpreter ends its daemon threads wherever they are (`worker.py:179-183`). Before it does, an exit hook of `concurrent.futures` joins the threads that run agents (`scheduler.py`, `_run_agent_with_timeout`), so a consumer may first see its agent's answer and go on; `Killed` takes no account of how much later the end comes. A container that is given less time than that to stop is ended the same way. What the thread held is lost: `Abandon`, a crash of `Scheduler` |
| `Others` | `Scheduler`'s API, threads, time, and crashes of threads that stay |

The two waits between rounds (`_stop.wait(interval)`) only say how soon a round
follows another. `Abandon` counts as the fault of a run, and happens at its
`CrashPoints`; a thread with nothing in hand ends without it.

### How `InlineExecution` corresponds to the code

One background task runs sequentially; what interleaves with it is the end of its
process and, in `ApiProcess`, requests, which do not change its rows. An action is
a commit, or a call of the LLM or a tool.

| Action | Code |
|---|---|
| `NoProvider` | `get_llm_provider` raises: an unknown provider, or one without its key (`llm/factory.py:14-47`) |
| `CreateExecution`, `BeginPlanning`, `PlanTasks`, `BeginRunning` | `create_execution`, and the commits of `run_execution` up to the executor (`orchestrator.py:33-66`) |
| `StartTask`, `RunAgent`, `CompleteTask` | one round of the executor's loop (`executor.py:61-98`); `RunAgent` takes a step of `AgentLoop` |
| `Chat`, `ChatRaises`, `ExecuteTool` | `llm.chat`, and `execute_tool` or the message for an unknown tool (`agents/base.py:66-101`) |
| `CatchTaskError`, `FailTask` | the executor's handler (`executor.py:99-113`): the loop is left, later tasks stay PENDING |
| `CatchCommitError` | the commit of a result raises: the same handler's commit, on a session that has not been rolled back, raises too, and the exception reaches `run_execution` with the task still RUNNING |
| `Complete`, `FailRun` | `orchestrator.py:71-90` |
| `CatchRunError`, `RecordFailure`, `RecordingFails` | the outer handler and `_fail_execution` |
| `Crash` | the API process ends |

`llm` is the configured provider. `userRequest` is what the properties tell apart of
a request of up to 8000 characters (`schemas/execution.py:20`): it does not contain
`force_fail` (`plain`), has it among the first 200 characters, which the mock's plan
repeats in the descriptions of its tasks (`forced`), or only further in
(`forcedLater`). The mock looks for the word in the agent's prompt (`mock.py:151`),
which consists of a description and of outputs, so `Forced` asks what `Clip` leaves
of the request (`mock.py:83`). `failures` counts providers that
cannot be built, commits and planners that raise, and crashes, up to
`MaxFailures`; remote LLMs and tools may fail at any time without being counted. An
output is named by its task, since the properties only ask whose output appears
where. `Aggregate` returns a headline and the supporting outputs instead of a
text.

A message of a conversation is a record with a role, as in `Agent.run`; an id of a
call is the pair of its round and its position, since an API gives every call an id
of its own. What an LLM may call a tool, known or not, is one of `Names`, and
`Remote` are its replies: lists of text blocks and tool uses. `AnthropicMessages`
and `OpenAIMessages` translate the list as `chat` of the two providers does;
`AnthropicAccepts` and `OpenAIAccepts` are external: the rules of the two APIs that
a list of messages can break. Anthropic joins neighbouring turns of one role
(`Turns`), which is what lets the provider send each tool result as a turn of its
own. The mock's texts are left out; whether an analysis asks for the calculator
depends on an arithmetic expression in its prompt and is a choice.

### How `ApiProcess` corresponds to the code

| Action | Code |
|---|---|
| `Receive` | `RequestSizeLimitMiddleware`, then `RateLimitMiddleware` for paths under `/api` (`main.py:42-43`: the middleware added last is the outer one) |
| `Admitted` | the limiter let it through, and `require_api_key`; `/metrics` needs neither |
| `ReceiveCreate`, `HandleCreate`, `Background` | a request on its way to `create_execution`; the handler; the background task it leaves behind |
| `ReceiveRead`, `HandleMetrics` | GET requests: all but the metrics are answered by one read; `collect_metrics` runs a statement at a time (`ReadNext`) |
| `ProcessDies` | run, requests and counters are lost together, the tables stay |
| `Count`, `Evict`, `RetryAfter` | the locked block of the limiter, its cleanup, its header (`middleware.py:77-95`) |

`verdicts` is a history the code does not keep and no step looks at: for each
client, how often it has been let through and whether it was refused in the current
window of the clock by this process, and the time its latest verdict named if that
was a refusal. The refinement maps it to `Quota`, whose `NextWindow` is the only way
into another window and is taken by the `Tick` that crosses the end of one;
`StartAnew` is the death of the process, after which nobody's requests are
remembered. The decision itself (`LetThrough`) is made from `counts` alone.

Reading the clock and counting are one step: the middleware does not await between
them, and a process has one event loop. A second API process (`uvicorn_workers`)
has its own counters and is not modelled; the docstring of the middleware warns of
it. Requests that fail validation count and do nothing else: they are like reads.

### How `LiveView` corresponds to the code

| Variable | Code |
|---|---|
| `execStatus`, `status`, `deps`, `result` | the tables, declared in `ExecutionLifecycle`; `TablesStep` is any of its steps |
| `shown` | the state `execution` of `App` (`App.jsx:47`) |
| `effectKey` | the values of the effect's dependencies when it ran last (`App.jsx:119`) |
| `stream` | the current EventSource and the server's generator: the execution, what it sent last, the status of a poll that has not read the tasks yet, events on their way, whether the server still sends |
| `calls` | REST calls: what for, what the server has read, the answer on its way |
| `disturbances` | bound on deadlines, cut streams, failed calls and hasty clicks |

| Action | Code |
|---|---|
| `PollExecution`, `PollTasks` | one round of the generator (`executions.py:129-146`): `db.get`, then the tasks when the payload is built, two statements that see different states |
| `Deadline`, `Drop` | `sse_max_seconds` are over; the connection breaks |
| `Render` | React runs the cleanup and the effect, some time after the state changed (`App.jsx:92-119`) |
| `ReceiveUpdate`, `ReceiveDone`, `StreamError` | the listeners and `onerror` |
| `Submit`, `OpenExecution` | `handleSubmit` (the form is disabled while `busy`) and a click on a recent execution |
| `ServerCreates`, `ReadExecution`, `ReadTasks`, `Deliver`, `CallFails` | a REST call: the insert, the two reads, the answer arriving in `startExecution` or `applySnapshot`, or an error |

A snapshot keeps the status of the execution and which of its tasks have not
completed. Two payloads may differ in other columns (tokens, attempts), so
`PollTasks` may send a snapshot that looks equal. A hasty click is one made before
the screen has caught up, or for what is on it already: its answer may replace a
newer state by an older one, so it is bounded like a failure. The buffer of a
connection holds one event (`MaxInbox`) before the generator waits; a terminal
poll adds its two.

### Slips

A definition whose name starts with `Slip` is never part of a specification. It
is a plausible mistake in the definition that follows it (an off-by-one, a
forgotten status, a wrong set) and documents why the correct one is as it is:
`PROJECT.json` ("mutants") pairs each property with a slip that TLC finds it
violated by.

## 3. Runs

All bounds are constants of the cfg files: `Executions`, `Workers`, `Reapers`,
`Promoters`, `Plans`, `MaxRetries`, and `MaxFaults`, the number of crashes,
errors, premature expiries and redeliveries of one behaviour. Without faults the
number of steps of a behaviour is bounded by the retry budget.

| Run | Instance | What it shows |
|---|---|---|
| `recovery` | 2 worker processes: the consumer, reaper and promoter of one stay, the consumer of the other is told to stop; a join of three tasks; 1 retry; one fault, a crash or the end of the stopping process, of a thread that holds a RUNNING task; fair threads | `TypeOK`, `ProcessTypeOK`, `DependenciesFirst`, `NoOrphans`, `ExhaustedAreDeadLettered`, `BackoffRespected`, and two liveness properties: `ThreadsEnd`, the process stops, and `ExecutionTerminates`: with the crashes the reaper is made for, no execution is forgotten and each ends |
| `faults` | as above, join or line; two faults at *any* point, including duplicated jobs | `NoDoubleWork`, `RetryBudget`, `AttemptsAccountForTries`, `VerdictMatchesTasks`, `PlannedOnce`: what holds even where work is lost |
| `leases` | 2 workers, 2 reapers; two tasks in a chain; one premature expiry or crash or planning error; a planning job fails anywhere before its scheduling pass, the provider that cannot be built (`guard`) included | `ResultsMatchStatus`, `SingleDelivery`, `WorkNeedsRunningExecution`, `DeadLettersAreExhausted`, `TerminalIsFinal`, and `ImplementsLifecycle`, the refinement of `ExecutionLifecycle` |
| `two_executions` | 2 executions of one or two tasks, 2 workers, 1 reaper, no retries | `NoOrphans`, `VerdictMatchesTasks`: a reaper that recovers tasks of several executions forgets none of them |
| `live_view` | 2 executions of one task; 1 REST call at a time; 1 disturbance | `ViewTypeOK`, `NoTornVerdict`, `SubscribedToWhatIsShown`, `WorkingViewIsWatched` |
| `inline` | one API process; the mock, a remote or an unusable provider; requests without `force_fail`, with it early or late; 4 planning answers (unusable, too long, invalid dependencies, several summaries); 2 rounds of replies without, with one or with two tool calls, one unknown; 2 failures; 6 requests of 2 clients, a limit of 1 request in a window of 2 seconds, a table of 1 counter, 2 windows; one metrics reading at a time | `ApiTypeOK`, `AnthropicAccepted`, `OpenAIAccepted`, `MockAnswersInTime`, `ContextCoversDependencies`, `FinalResultIsComplete`, `VerdictOnReturn`, `RunGoesForward`, `OneFailureIsRecorded`, `MockRunsEndToEnd`, `MetricsAgree`, `RetryAfterSuffices`, and `ImplementsQuota`, the refinement of `Quota` |
| `stale_view` | 1 execution, 1 disturbance | a violation: section 4 |
| `lost_delivery`, `verdict_overwritten`, `two_reapers`, `lost_schedule`, `two_promoters` | minimal | violations: section 4 |

Why these bounds are enough to be interesting: two workers give every race of
two passes, two claims and two verdicts; a join has the two last tasks finish
together, a line has a failure cascade two levels; one retry gives a task that
is RETRYING, exhausted, dead-lettered and late; two reapers (or a reaper and a
late worker) give the stale attempt counts. `CHECK_DEADLOCK FALSE`: the system
may stop, when every execution has its verdict or when a fault has lost its job.

For the view, two executions let answers and events of one arrive while the other is
shown; one disturbance is what `UpdatesAutomatically` needs to fail and
`WorkingViewIsWatched` excludes. `RunGoesForward` is an action property: every step
of a run raises its `Position`, in the lexicographic order of its stage, task,
rounds and so on, so that no combination of replies, tools and failures has it do
the same again. For inline mode a second failure is one in the handler of the first,
two rounds are what the mock needs and what lets an unknown tool of the first be
answered before the second; three tasks hold a summary in the middle and a
dependency on a later one. For the limiter, a limit of 1 and a table of 1 have the
second request refused and every second client evict; the clock crosses one end of a
window, and counters of the first are stale in the second; requests a client makes
in a window are bounded by `MaxCount`, one beyond the limit. One execution is
enough, because runs share no rows; metrics over several would be sums of what is
read here. Both may stop: an execution is shown to its end, a run returns and the
clock is at its bound.

`NoOrphans` deserves a word. It says, of every row that is waiting for somebody,
who that is: a job in some hands for a task that is queued or retrying, an actor
whose pass will still visit a task that is ready or doomed, an actor that will
still finalize an execution whose tasks are all terminal. It is the safety
counterpart of `ExecutionTerminates`, and it holds only for the crashes from
which the code does recover, the ones of a worker that holds a RUNNING task: its
agent is about to start (`check`), is running (`run`), or a failure of it is about
to be recorded (`recover`). The end of a stopping process is one more way to be
cut off at these points; at the others it loses what `lost_schedule` shows a crash
to lose.

So the runs that check `NoOrphans` say nothing of the crashes between a commit and
the Redis command that should follow it: a task marked as enqueued and not pushed,
RETRYING and not delayed, removed from the delayed set and not pushed, FAILED and not
dead-lettered. From these the code does not recover, and `NoOrphans` does not hold.
`faults` has crashes there too; what it checks is that such a loss does no other
harm, and `lost_schedule` stands for all of them as a violation.

A reaper that dies is not one of them. It keeps the executions of the tasks it has
dealt with in a set until it has dealt with all stale tasks it read
(`scheduler.py`, `recover_stale_tasks`), and only then runs their passes: dying
half way, after it has failed one task for good and before the next, it leaves an
execution whose tasks nobody will look at again. `CrashPoints` has `recover` in the run
`recovery`, but its single fault must already have been spent on the crash that
makes a task stale; with a second one (or `MaxRetries = 0`) TLC finds that state.
`NothingOrphaned` therefore has the hypothesis `ReapersSurvive`.

## 4. Where code and documentation disagree

Each is a run TLC must find violated, and a finding in `PROJECT.json` with the
quoted line.

* `lost_delivery`: delivery is at most once, not "at least once"
  (`jobqueue.py:9`): BLPOP removes the only copy of a job before the claim.
* `lost_schedule`: a worker that dies after its commit and before its scheduling
  pass leaves the execution RUNNING for ever; the reaper looks at RUNNING tasks
  only, and there is none.
* `verdict_overwritten`: an exception in the scheduling pass of a planning job
  turns an execution another worker has COMPLETED into FAILED.
* `two_reapers`: with two worker processes a task may be tried more than
  `max_retries + 1` times, because the attempt count of a retry is computed from
  an old read and the guard does not notice that the claim is a new one.
* `two_promoters`: a promoter with an old list queues a retry that was delayed
  again under the same name, without its backoff.
* `stale_view`: a stream that ends without its done event, because it was cut or
  because its `sse_max_seconds` are over, is replaced by one REST snapshot. The
  effect that subscribes runs again only if the snapshot changes the status.
  Otherwise the screen says "Working… this updates automatically" for ever.

Three disagreements have no run of their own. A request that contains `force_fail`
does not always fail (README:390-391 of the repository), because the mock's agents
see its first 200 characters only (`mock.py:83`): `MockRunsEndToEnd` has it
complete. The docstring of `_assign_dependencies` (`planner.py:74`) has each
summarization depend on all earlier tasks; one whose given dependencies are all
invalid keeps an empty list and is independent. And when the commit of a completed inline task fails, the
task stays RUNNING, although its handler means to record the failure
(`executor.py:99-103`); the execution is still marked FAILED.

## 5. Fairness

Safety is checked of `Spec`, without fairness. `FairSpec` adds weak fairness of
each thread (`WorkerStep(w)`, `ReaperStep(r)`, `PromoterStep(p)`): they are loops
that the operating system schedules and that no exception ends
(`worker.py:52-94`). `EnqueuePlan` is fair because the handler continues after its
commit, `Elapse` because time passes. Weak fairness is enough: a step of a
thread, once enabled, is disabled only by steps that are its own or that replace
it by another enabled step of that thread (a job taken by another worker leaves
this one idle, not owed anything). Not fair: clients (`CreateExecution`), faults,
and the choice between an agent that answers and one that fails, so
`ExecutionTerminates` does not assume any agent ever succeeds.

`WorkerProcess!FairProcessSpec`: the same, with the loop of each thread of the
stopping process in place of its steps. A signal is owed to nobody, and so is the
end of the join: `ThreadsEnd` holds because the threads come to their tests, not
because they are killed. That depends on the timeout of BLPOP (`IdleRound`).

`InlineExecution!FairSpec` and `ApiProcess!FairApiSpec`: the background task goes
on until it returns, and calls of the LLM return or raise (they have whatever
timeout their client library has). `LiveView!FairViewSpec`: the generator polls on a
timer, the browser dispatches events and runs effects, calls are answered or fail.
Users and executions owe nothing, and no disturbance is forced. The counterexample
of `stale_view` respects all of these.

## 6. Proofs

Every invariant and every action property that a passing run checks, and every
refinement, is a theorem here. TLAPS checks the following for every value of the
constants that satisfies their named assumptions: any sets of executions, workers,
reapers and promoters, any set of plans whose members satisfy `IsPlan`, any number
of retries, crashes, errors, premature expiries and redeliveries, unless a
hypothesis says otherwise.

| Theorem | Statement |
|---|---|
| `SchedulerProofs!TypeCorrect` | `Spec => []TypeOK` |
| `SchedulerProofs!DependenciesComeFirst` | `Spec => []DependenciesFirst` |
| `SchedulerProofs!ResultsStored` | `Spec => []ResultsMatchStatus` |
| `SchedulerProofs!PlansInsertedOnce` | `Spec => PlannedOnce` |
| `RefinementProofs!SchedulerImplementsLifecycle` | `Spec => ImplementsLifecycle`, if `ErrorsWhilePlanning` |
| `RefinementProofs!VerdictsAreFinal` | `Spec => TerminalIsFinal`, if `ErrorsWhilePlanning` |
| `RefinementProofs!WorkIsUnderRunningExecutions` | `Spec => []WorkNeedsRunningExecution`, if `ErrorsWhilePlanning` |
| `RefinementProofs!VerdictsAgree` | `Spec => []VerdictMatchesTasks`, if `ErrorPoints = {}` |
| `DeliveryProofs!DeadLettersExhausted` | `Spec => []DeadLettersAreExhausted` |
| `DeliveryProofs!NoDeadLetterLost` | `Spec => []ExhaustedAreDeadLettered`, if `"dlq" \notin CrashPoints` |
| `DeliveryProofs!DeliveredOnce` | `Spec => []SingleDelivery`, if `~Redelivery` |
| `DeliveryProofs!RetriesBackOff` | `Spec => BackoffRespected`, if `~Redelivery` and `OnePromoter` |
| `DeliveryProofs!WorkedOnOnce`, `AttemptsAccount`, `WithinBudget` | `Spec => []NoDoubleWork`, `[]AttemptsAccountForTries`, `[]RetryBudget`, if `~PrematureExpiry` and `OneReaper` |
| `RecoveryProofs!NothingOrphaned` | `Spec /\ ReapersSurvive => []NoOrphans`, if `FiniteThreads`, `ErrorsWhilePlanning` and `CrashesWhileWorking` |
| `RecoveryProofs!NothingOrphanedByWorkers` | `Spec => []NoOrphans`, if `FiniteThreads`, `ErrorsWhilePlanning` and `CrashPoints \subseteq {"check", "run"}` |
| `RecoveryProofs!DeliveredAtLeastOnce` | `Spec /\ ReapersSurvive => []AtLeastOnceDelivery`, as `NothingOrphaned` |
| `ExecutionLifecycleProofs!LifecycleSafe` | the abstract rules imply dependencies, results, verdicts and `WorkNeedsRunningExecution` |
| `ExecutionLifecycleProofs!TerminalIsFinal` | under the abstract rules terminal statuses are final |
| `RecoveryProofs!StoppingIsScheduling` | `ProcessSpec => Spec`: a shutdown is a behaviour of the scheduler |
| `RecoveryProofs!StoppingIsSafe`, `StoppingOrphansNothing` | hence types, dependencies, results, planning, dead letters and, as `NothingOrphaned`, `NoOrphans` of `ProcessSpec` |
| `RecoveryProofs!LoopsTyped` | `ProcessSpec => []ProcessTypeOK` |
| `ApiProcessProofs!QuotaKept`, `RetryAfterIsEnough` | `LimiterSpec => ImplementsQuota`, the refinement of `Quota`, and `[]RetryAfterSuffices` |
| `ApiProcessProofs!ApiRunsLimiter`, `ApiKeepsQuotas` | `ApiSpec => LimiterSpec`, hence both for the API process |
| `ApiProcessProofs!SubtasksBecomeAPlan`, `FallbackBecomesAPlan` | for every nonempty list of subtasks `s`: `IsPlan(AssignDependencies(Clamp(s)))`; the same of the fallback plan |
| `ApiProcessProofs!AnswersBecomePlans` | for every list `a` of usable and unusable items: `IsPlan(AssignDependencies(Decompose(a)))` |
| `ApiProcessProofs!AnthropicAlwaysAccepts`, `OpenAIAlwaysAccepts` | `ApiSpec => []AnthropicAccepted`, `[]OpenAIAccepted` |
| `ApiProcessProofs!MockAlwaysAnswers` | `ApiSpec => []MockAnswersInTime` |
| `ApiProcessProofs!FinalResultsAreComplete` | `ApiSpec => []FinalResultIsComplete` |
| `ApiProcessProofs!OneFailureHasAVerdict` | `ApiSpec => []VerdictOnReturn` |
| `ApiProcessProofs!RunsEnd` | `ApiSpec => RunGoesForward` |
| `ApiProcessProofs!MockVerdicts` | `ApiSpec => []MockVerdict`: the verdict of an undisturbed run with the mock, for each of the three kinds of request |
| `ApiProcessProofs!ContextIsComplete` | `ApiSpec => []ContextCoversDependencies` |
| `ApiProcessProofs!MetricsAlwaysAgree` | `ApiSpec => []MetricsAgree` |
| `ApiProcessProofs!ApiTypes` | `ApiSpec => []ApiTypeOK` |
| `LiveViewProofs!VerdictsAreWhole` | `ViewSpec => []NoTornVerdict` |
| `LiveViewProofs!StreamFollowsScreen` | `ViewSpec => []SubscribedToWhatIsShown` |
| `LiveViewProofs!WorkIsWatched` | `ViewSpec => []WorkingViewIsWatched` |
| `LiveViewProofs!ViewTypes` | `ViewSpec => []ViewTypeOK` |

`ErrorsWhilePlanning`: an exception in a planning job comes before its scheduling
pass (`ErrorPoints \subseteq PlanPoints`), and a job that may fail before it has
claimed the planning, at the guard, is not delivered twice
(`"guard" \in ErrorPoints => ~Redelivery`). The `try` of `plan_execution` begins
before the guard, so a provider that cannot be built moves an execution from PENDING
to FAILED; `ExecutionLifecycle!FailPlanning` allows both. `OnePromoter`, `OneReaper`: at most
one. `FiniteThreads`: threads are finitely many, since `NoOrphans` counts the
places of a job. `CrashesWhileWorking`: `CrashPoints \subseteq HoldingPoints`; and
`ReapersSurvive`: no reaper dies with stale tasks in its hands (section 3). They are
not conveniences. A violation run of section 4 or a TLC run with the hypothesis
dropped shows each to be needed:

| Hypothesis | What happens without it |
|---|---|
| `ErrorsWhilePlanning`, first part | `verdict_overwritten` |
| `ErrorsWhilePlanning`, second part | the second delivery of a planning job finds no provider and fails an execution that the first one has taken to its verdict: `_fail_execution` does not look at the status |
| `OneReaper` | `two_reapers` |
| `OnePromoter` | `two_promoters` |
| `CrashesWhileWorking` | `lost_delivery`, `lost_schedule` |
| `ReapersSurvive` | the execution in the hands of a reaper that died (section 3) |
| `~Redelivery`, for `SingleDelivery` | the duplicate is the second job |
| `~PrematureExpiry`, for `NoDoubleWork` | a worker whose lease ran out is still at work |
| `ErrorPoints = {}`, for `VerdictMatchesTasks` | a planner's error fails an execution whose tasks are all PENDING; `ExecutionsMatch` says that this is the only way, and `LifecycleSafe` has the promise in that form |

Assumptions on constants: `PlansAssumption` (a plan depends on earlier tasks only),
`MaxTasksAssumption`, `ActorsAssumption` (workers and reapers are different
threads), `MaxRetriesAssumption`, `FaultsAssumption`, `NoneAssumption` (null is no
id, and in `LiveView` no snapshot), `LeavingAssumption` (the stopping threads are
threads), `LiveViewAssumption`; for the limiter `LimitAssumption` (the code does
nothing for a limit that is not positive), `WindowAssumption`,
`MaxEntriesAssumption` and `RequestsAssumption`; for the inline run
`IterationsAssumption`, `ToolsAssumption`, `LlmsAssumption` and `FailuresAssumption`, which
give types; `AnswersAssumption` and `RemoteAssumption`, which say that an
answer is any list of usable and unusable items and a reply any list of texts and
tool uses; `NamesAssumption` (the mock's two tools have names) and `OutputAssumption`
(null is no output). TLC evaluates them in every run. `PlansAssumption` is what
`AnswersBecomePlans` shows of the planner.

**Safety of the scheduler** (`SchedulerProofs`). None of the properties is
inductive: that a dependency has completed is tested on a snapshot by one actor, and
the agent is started, much later, by another. `SafeInv` carries the fact across:

* `PlannerAlone`: while some worker is between claiming the planning of an
  execution and recording it, no other worker is, and the execution's rows are
  as it left them. Hence rows are inserted once, and dependencies never change.
* `Cleared`: a task is cleared if every dependency is COMPLETED with a result;
  `Queued` are the cleared tasks a pass has marked as enqueued. `JobsCleared`: every
  task that is named by a job, delayed, or in a promoter's hands is queued;
  `HandsCleared`: so is every task an actor is about to push, delay, claim or run.
* `Started \subseteq Queued` for the tasks that are RUNNING, RETRYING or
  COMPLETED, and `ResultsMatchStatus`.

Being cleared is stable because COMPLETED is left by no action and results are
never removed. Each action then either moves a queued task from one hand to
another, or (in `BeginPass`, `RepeatPass`, `MarkEnqueued`) establishes it from the
current rows. Types come first, one lemma per group of actions.

**Refinement** (`RefinementProofs`). `LifecycleRule` lists what a step may do to the
tables, and each action of `Scheduler` is shown to be one of the rules or to leave
the tables alone. What an actor decided on an old read must still be right when it
writes: `ExecutionsMatch` relates an execution's status to its tasks,
`PlannersMatch` gives a planner its execution, `EnqueuedLaunched` and
`PassesLaunched` say that jobs and passes belong to executions that are running or
have ended, and that a doomed task still has its failed dependency and a verdict
in a worker's hands is still the one the tasks call for. `PlanJobsAlone` is about a
planning job that may fail before its guard: unless jobs are delivered twice, it is
in one place only, and its execution is still PENDING, so that the failure it may
record overwrites no verdict. The two go on together: a step that obeys the rules changes no verdict
(`RuleKeepsVerdicts`), so what was decided stays right (`RefInv` is inductive).
`VerdictsAreFinal` and `WorkIsUnderRunningExecutions` follow from `RefInv` and the
rules.

**Delivery and attempts** (`DeliveryProofs`). `Places(t)` is the set of all places a
job of `t` can be in: positions of the list, the delayed set, promoters, claimers,
senders. `DeliveryInv` says that it has at most one member, and none while the task
runs or before it is enqueued; each action is shown to empty one place or to
trade one for another. `RetriesBackOff` needs it, because a promoter's scan
stays due (`ScanDue`) only if nobody delays the same task anew while it is in the
scan. `WorkInv` is about the hands instead of the jobs, and tolerates redelivery: a
task is held by one worker (`HeldOnce`), a reader's attempt count is still the
row's (`ReadsFresh`), and `StartsCounted` bounds starts by attempts.
`DeadLetterInv` needs none of the hypotheses.

**Recovery** (`RecoveryProofs`). `NoOrphans` says who will act; `RecoveryInv` says it
so that one step cannot break it. `Tidy` describes what an actor can have in its
hands at each point; `SeenTo`: every ready or doomed task and every settled
execution has an actor that will come to it and *stays*, which a worker about to
record a failure is not; `JobsOnTheirWay` and `PlansOnTheirWay`: a queued or retrying task
has a place, a pending execution a job or an API call, a planned one its planner. A
step that makes something due remembers it (`affected`, or the pass); a pass that
ends has looked at everything that was due.

**The API process** (`ApiProcessProofs`). `LimiterInv` says that no entry is of a
window still to come (`CountersArePast`): a new window therefore finds every
counter at zero, as `Quota!NextWindow` wants, although the code resets nothing at that
moment, and an eviction drops only counters that already count as zero.
The counter of a client says how often its history has it let through in this
window, and that it is at its limit if it was refused. `RefusalEnds` adds, for each
client whose latest verdict was a refusal, that its entry is of an earlier window than
the one its Retry-After names (`RetryAfterEndsTheWindow`), whatever other clients ask
and whatever is evicted; when that window has come, its counter is stale or gone. `RunInv` is the inline run's: the tasks before the current one, and no
others, have completed, have an output, and are in the context (`Progress`), from
which `ContextIsComplete` follows for plans that depend on earlier tasks. `ReadingInv`
relates what a metrics request has read so far to how far the run has come since
(`TasksAgree`): each later statement can only see more.

**Facts about lists** (`ConversationProofs`). What the planner keeps of an answer,
the aggregator of the outcomes and Anthropic of a conversation are comprehensions
and folds over a list of any length, and the library's theorems about induction and
folds have operators as parameters, which the provers cannot instantiate. The same
can be said with sets: `NatLessThanWellFounded` has no parameter, so a least element
of a set of numbers exists (`LeastNumber`), so a set with 0 and all successors is
`Nat` (`SetInduction`), so a set of lists with the empty one and all extensions
contains every list (`ListInduction`). From there the folds of the community
module, for one fold function at a time: `KeepAppend` and `TurnsAppend` say what one
more element does, `KeepTyped`, `KeepConcat`, `TurnsTyped` and the rest follow by
`ListInduction`. That is why `Comprehension` has a fold and not `SelectSeq`, which is
a primitive to the provers.

**Conversations** (`ConversationProofs`). That every tool use is answered is false
while tools run. What holds throughout is a property of the conversation *with the
results still owed*: `Owed` is the messages followed by an answer to each call of
`pending`, and `ConversationInv` says that `Owed` is acceptable to both APIs.
A reply adds its calls and all their answers at once (`AnthropicGoesOn`,
`OpenAIGoesOn`: the turns alternate and the last one answers exactly the one
before); a tool that ends replaces an owed answer by its result, which has the same
id (`PaidOff`); and when the LLM is asked, nothing is owed (`AcceptedWhenAsked`). No
bound on rounds, replies or the calls of a reply appears. `MockInv` adds that the
mock asks for one tool at most, in its first reply, and answers once it has observed
something.

**The end of a run** (`ApiProcessProofs`). `VerdictInv`: who is about to record a
failure has seen one, and who returns without a verdict two. `RunsEnd` shows of each
step that it raises the first of the components of `Position` that it changes: the
stage (an exception only ever moves a run towards its end), the task, where it is
with the task, the rounds, the calls left of a response (fewer), the exception. The
stages and tasks are bounded, and so are the rounds (`RoundsCounted`), so that a run
can take finitely many steps only; with `OneFailureHasAVerdict` that is
`OneFailureIsRecorded`, but for the fairness that has the next step taken. In the
same way `MockVerdicts` is what `MockRunsEndToEnd` leaves when fairness is taken
away. `FinalResultsAreComplete` rests on `AllAggregated`: since all tasks have
completed, `Keep` leaves the outcomes as they are, and taking out the headline loses
and doubles nothing (`RemovedAt`).

**Shutdowns** (`RecoveryProofs`) are a refinement: each step of
`WorkerProcess` leaves `Scheduler`'s variables alone, or is one of `Scheduler`'s
steps. A thread that is cut off takes the step `Crash` or `PromoterCrash`, so what
holds through every crash holds through every shutdown.

**The view** (`LiveViewProofs`). `WholeInv`: a status COMPLETED that was read, by a
poll or a call, is the row's, so that by the rules' own theorems (`Safety`,
`StepsKeepVerdicts`) the tasks read later are all completed; that goes for what is on
its way and what is shown. `Subscribed`: an open stream is the one the effect made
for the key it ran with last. The theorem about watching needs more, and only for
undisturbed behaviours: outstanding calls are about different executions, none of
which is shown or subscribed to (`CallsElsewhere`); a done event comes after the
verdict of its execution, or finds another one on the screen
(`VerdictBeforeDone`); so when a stream is gone while the effect's key is that of a
working execution, the screen has moved on and the effect will run (`Watched`).

Not proved, model-checked only: liveness (`ExecutionTerminates`, `ThreadsEnd`,
`OneFailureIsRecorded`, `MockRunsEndToEnd`). Weak fairness is about ENABLED, which
the prover does not handle. Their safety halves are theorems: `NothingOrphaned`
(somebody will act for every execution), `StoppingOrphansNothing` and `LoopsTyped`,
`OneFailureHasAVerdict` with `RunsEnd`, and `MockVerdicts` with `RunsEnd`. The
violation runs of section 4 are counterexamples, and their properties are not
theorems except under the hypotheses given above (`DeliveredAtLeastOnce`).

No module with a theorem contains a RECURSIVE operator.

## 7. Not modelled, and why

What tools do inside (arithmetic, remote calls), prices and token counts, health
and system endpoints (they read), schemas and view components (validation and
rendering), logging, migrations, load test and deployment. `queue_depth`,
`delayed_depth` and `dead_letter_*` only read. Metrics columns, error texts,
timestamps other than the lease, and the length of a backoff are data no property
distinguishes. `main` of a worker waits for Redis and the schema before it starts
any thread; `Init` is the state after that.

Hazards of the code that have no property, because the code promises nothing
there or the model would be one of something else:

* The activity log (`App.jsx:82-88`). The updater passed to `setEvents` reads a ref
  that the next line sets. React evaluates an updater at once only if no other
  update of that component is pending; otherwise at the next render, when the ref
  already is the new snapshot, the difference is empty and the entries are lost.
  A model would be one of React's update queue.
* The list of recent executions is refreshed by a `done` event which the effect's
  cleanup may forestall; it says nothing of how current it is.
* An agent that has timed out goes on in its thread (`scheduler.py`,
  `_run_agent_with_timeout`) while its task is retried. Nobody reads its answer.
* `time.time()` may step back, and several API processes count separately:
  quotas are those of one process and a clock that goes forward.
* Inline mode does not recover a run whose process died, and calls of a remote LLM
  have no timeout of the code's.

Metrics are modelled next to an inline run. In queue mode the same statements run
next to the workers' transactions. A late result of a FAILED task is not counted
there: `total_tokens` is written by the guarded UPDATE that completes the task
(`scheduler.py:238-243`), although the row in `task_results` stays.

## 8. Plan

The order in which the project was and will be built: what everybody depends on
first, then what users see of it.

1. *Done.* `Models`, `JobQueue`, `Scheduler` with `SchedulerProperties`, checked in
   runs with faults, leases, several executions, and their five violations.
2. *Done.* `ExecutionLifecycle`, its theorems, and the refinement checked by TLC.
3. *Done.* Proofs of types, dependencies, results and planning of `Scheduler`.
4. *Done.* `Planner`, `Aggregator`, `AgentLoop`, `InlineExecution`; `LiveView`.
5. *Done.* `Providers`, and the providers in `AgentLoop` and `InlineExecution`.
6. *Done.* `RateLimiter` and its refinement of `Quota`, proved; `Metrics`; their
   composition with an inline run in `ApiProcess`.
7. *Done.* `WorkerProcess`: shutdown, its liveness, and the proof that it adds no
   behaviour to `Scheduler`.
8. *Done.* Proofs: the refinement of `ExecutionLifecycle`, finality and verdicts;
   delivery, backoffs, attempts and dead letters; recovery; contexts and metrics of an
   inline run; everything `LiveView` promises.
9. *Done.* Proofs: conversations of any length with both APIs, the planner's answers,
   final results, the end of an inline run and its verdict.

What could follow: a model of React's update queue for the activity log, and several
API processes behind one quota, if the code is to promise something of either.
