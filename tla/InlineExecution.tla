-------------------------- MODULE InlineExecution --------------------------
(***************************************************************************)
(* Inline mode: run_execution (services/orchestrator.py), a background     *)
(* task of the API process that plans an execution, runs its tasks one by  *)
(* one (services/executor.py) and aggregates their outputs.  Runs of       *)
(* different executions share no rows, so one is modelled.                 *)
(*                                                                         *)
(* Anything may raise: the provider, the planner, an agent, a commit.  The *)
(* model follows the exception to the handler that catches it.             *)
(***************************************************************************)
EXTENDS Planner, Aggregator, AgentLoop

CONSTANTS
  Llms,        \* configured providers: "mock", "remote", or "unusable"
  Answers,     \* what a remote LLM may answer to the planning prompt
  MaxFailures  \* bound on failing commits, planners and crashes

ASSUME LlmsAssumption == Llms \subseteq {"mock", "remote", "unusable"}
ASSUME FailuresAssumption == MaxFailures \in Nat

\* An answer is a list; _parse makes a PlannedSubtask of each item or drops it.
ASSUME AnswersAssumption == Answers \subseteq Seq(Subtasks \cup {Unusable})

VARIABLES
  llm,          \* llm_provider; "unusable" is an unknown one, or one without its key
  userRequest,  \* user_request, see UserRequests
  execStatus,   \* executions.status
  subtasks,     \* the plan, as task rows in the order of order_index
  status,       \* tasks.status
  result,       \* does task_results have a row for the task?
  finalResult,  \* executions.final_result
  pc,           \* where run_execution is
  current,      \* the task the executor is at
  context,      \* context_parts, as the tasks whose outputs it holds
  failures

rowVars == <<execStatus, subtasks, status, result, finalResult>>
given == <<llm, userRequest>>
inlineVars == <<given, rowVars, pc, current, context, failures, loopVars>>

\* A request contains "force_fail" in its beginning, which the mock's plan
\* repeats, or further in, or not at all.
UserRequests == {"plain", "forced", "forcedLater"}

TypeOK ==
  /\ llm \in Llms
  /\ userRequest \in UserRequests
  /\ execStatus \in ExecutionStatuses
  /\ Len(subtasks) <= MaxTasks /\ \A i \in DOMAIN subtasks : subtasks[i] \in Subtasks
  /\ status \in [Index -> TaskStatuses]
  /\ result \in [Index -> BOOLEAN]
  /\ pc \in {"new", "begin", "planning", "start", "next", "agent", "taskFailed", "finish",
             "failing", "done", "dead"}
  /\ current \in 0 .. MaxTasks
  /\ context \in Seq(Index)
  /\ failures \in 0 .. MaxFailures
  /\ loop \in {"idle", "chat", "tools", "answered", "raised"}
  /\ rounds \in 0 .. Rounds

Init ==
  /\ llm \in Llms
  /\ userRequest = "plain"
  /\ execStatus = "ABSENT"
  /\ subtasks = <<>>
  /\ status = [i \in Index |-> "ABSENT"]
  /\ result = [i \in Index |-> FALSE]
  /\ finalResult = None
  /\ pc = "new"
  /\ current = 0
  /\ context = <<>>
  /\ failures = 0
  /\ LoopInit

Fail == failures < MaxFailures /\ failures' = failures + 1

\* A commit that moves the execution, with nothing else to record.
Move(from, to, next) ==
  /\ pc = from
  /\ execStatus' = to
  /\ pc' = next
  /\ UNCHANGED <<subtasks, status, result, finalResult, current, context, failures, loopVars>>

-----------------------------------------------------------------------------
\* create_execution: the row, and the background task that runs after the answer.
CreateExecution ==
  /\ Move("new", "PENDING", "begin")
  /\ userRequest' \in IF llm = "mock" THEN UserRequests ELSE {"plain"}
  /\ UNCHANGED llm

BeginPlanning == llm # "unusable" /\ Move("begin", "PLANNING", "planning")

\* build_llm_provider raises: the provider is unknown, or has no key.
NoProvider ==
  /\ pc = "begin"
  /\ llm = "unusable"
  /\ Fail
  /\ pc' = "failing"
  /\ UNCHANGED <<rowVars, current, context, loopVars>>

\* What llm.complete may return to the planner.  The mock exempts planning from
\* its forced failures.
PlanAnswers == IF llm = "mock" THEN {MockPlan} ELSE Answers

\* planner.plan, and one commit for all the rows.
PlanTasks ==
  /\ pc = "planning"
  /\ \E answer \in PlanAnswers : subtasks' = Decompose(answer)
  /\ status' = [i \in Index |-> IF i < Len(subtasks') THEN "PENDING" ELSE "ABSENT"]
  /\ pc' = "start"
  /\ UNCHANGED <<execStatus, result, finalResult, current, context, failures, loopVars>>

BeginRunning == Move("start", "RUNNING", "next")

-----------------------------------------------------------------------------
(* SequentialExecutor.execute.                                             *)

StartTask ==
  /\ pc = "next"
  /\ current < Len(subtasks)
  /\ status' = [status EXCEPT ![current] = "RUNNING"]
  /\ pc' = "agent"
  /\ StartAgent
  /\ UNCHANGED <<execStatus, subtasks, result, finalResult, current, context, failures>>

\* The agent of the current task, what its LLM may reply, and whether the LLM
\* fails: a remote one may, the mock does when its prompt, the description of the
\* task and the outputs before it, contains "force_fail".
Tools == ToolsOf(subtasks[current + 1].agent)
Replies ==
  IF llm = "mock" THEN MockReplies(subtasks[current + 1].agent, Tools, messages) ELSE RemoteReplies(Tools)
Forced == llm = "mock" /\ Clip(userRequest) # "plain"

RunAgent ==
  /\ pc = "agent"
  /\ \/ ~Forced /\ \E reply \in Replies : Chat(reply)
     \/ (Forced \/ llm = "remote") /\ ChatRaises
     \/ ExecuteTool(Tools)
  /\ UNCHANGED <<rowVars, pc, current, context, failures>>

\* The output and COMPLETED are one commit; the output joins the context.
CompleteTask ==
  /\ pc = "agent"
  /\ loop = "answered"
  /\ status' = [status EXCEPT ![current] = "COMPLETED"]
  /\ result' = [result EXCEPT ![current] = TRUE]
  /\ context' = Append(context, current)
  /\ current' = current + 1
  /\ pc' = "next"
  /\ StopAgent
  /\ UNCHANGED <<execStatus, subtasks, finalResult, failures>>

\* The agent has raised: the handler of the task.
CatchTaskError ==
  /\ pc = "agent"
  /\ loop = "raised"
  /\ pc' = "taskFailed"
  /\ StopAgent
  /\ UNCHANGED <<rowVars, current, context, failures>>

\* That commit raises.  The handler of the task catches it, but nothing has
\* rolled the session back, so its own commit raises as well.
CatchCommitError ==
  /\ pc = "agent"
  /\ loop = "answered"
  /\ Fail
  /\ pc' = "failing"
  /\ StopAgent
  /\ UNCHANGED <<rowVars, current, context>>

SlipGoOn ==
  /\ pc = "taskFailed"
  /\ status' = [status EXCEPT ![current] = "FAILED"]
  /\ current' = current + 1
  /\ pc' = "next"
  /\ UNCHANGED <<execStatus, subtasks, result, finalResult, context, failures, loopVars>>

\* Record the failure and leave the loop: later tasks stay PENDING.
FailTask ==
  /\ pc = "taskFailed"
  /\ status' = [status EXCEPT ![current] = "FAILED"]
  /\ pc' = "finish"
  /\ UNCHANGED <<execStatus, subtasks, result, finalResult, current, context, failures, loopVars>>

-----------------------------------------------------------------------------
(* The end of run_execution.                                               *)

Outcomes == [i \in DOMAIN subtasks |->
               [agent |-> subtasks[i].agent, output |-> IF result[i - 1] THEN i - 1 ELSE None]]

Complete ==
  /\ pc = "next"
  /\ current = Len(subtasks)
  /\ execStatus' = "COMPLETED"
  /\ finalResult' = Aggregate(Outcomes)
  /\ pc' = "done"
  /\ UNCHANGED <<subtasks, status, result, current, context, failures, loopVars>>

FailRun == Move("finish", "FAILED", "done")

SlipOnlyPlanningIsGuarded ==
  /\ pc \in {"begin", "planning", "start", "next", "taskFailed", "finish"}
  /\ Fail
  /\ pc' = IF pc \in {"begin", "planning", "start"} THEN "failing" ELSE "done"
  /\ UNCHANGED <<rowVars, current, context, loopVars>>

\* The planner or a commit raises outside the handler of a task: the outer one
\* calls _fail_execution.
CatchRunError ==
  /\ pc \in {"begin", "planning", "start", "next", "taskFailed", "finish"}
  /\ Fail
  /\ pc' = "failing"
  /\ UNCHANGED <<rowVars, current, context, loopVars>>

RecordFailure == Move("failing", "FAILED", "done")

\* _fail_execution cannot record the failure either, and swallows that.
RecordingFails ==
  /\ pc = "failing"
  /\ Fail
  /\ pc' = "done"
  /\ UNCHANGED <<rowVars, current, context, loopVars>>

\* The API process dies: nothing resumes a run.
Crash ==
  /\ pc \notin {"new", "done", "dead"}
  /\ Fail
  /\ pc' = "dead"
  /\ StopAgent
  /\ UNCHANGED <<rowVars, current, context>>

-----------------------------------------------------------------------------
RunStep ==
  \/ BeginPlanning
  \/ PlanTasks
  \/ BeginRunning
  \/ StartTask
  \/ RunAgent
  \/ CompleteTask
  \/ FailTask
  \/ Complete
  \/ FailRun
  \/ RecordFailure

Catch == NoProvider \/ CatchTaskError \/ CatchCommitError \/ CatchRunError

\* The background task.  What it was given it does not change.
Run == (RunStep \/ Catch) /\ UNCHANGED given
Disturb == (RecordingFails \/ Crash) /\ UNCHANGED given

Next == CreateExecution \/ Run \/ Disturb

Spec == Init /\ [][Next]_inlineVars

\* The background task goes on until it returns, and a call of the LLM returns
\* or raises.
FairSpec == Spec /\ WF_inlineVars(Run)

-----------------------------------------------------------------------------
\* agents/base.py:76-101, anthropic_provider.py:63-88: whenever a conversation is
\* put to Anthropic, its turns alternate and every tool use of an earlier reply is
\* answered by one result in the turn that follows it, whichever tools are
\* unknown, fail or time out, and over several rounds.
AnthropicAccepted == loop = "chat" => AnthropicAccepts(AnthropicMessages(messages))

\* The same for OpenAI (openai_provider.py:58-93): a message for each call,
\* between the assistant's message and the next.
OpenAIAccepted == loop = "chat" => OpenAIAccepts(OpenAIMessages(messages))

\* README:425-426: the mock performs the tool loop.  With two rounds or more its
\* last word is an answer, whatever its tools return: the loop never runs out
\* under it.
MockAnswersInTime == llm = "mock" /\ loop = "answered" /\ Rounds >= 2 => LastWord

\* executor.py:3-5, planner.py:27: when an agent works, every task its own
\* depends on has completed, and their outputs are part of its context.
ContextCoversDependencies ==
  pc = "agent" =>
    \A d \in AssignDependencies(subtasks)[current] :
      /\ status[d] = "COMPLETED" /\ result[d]
      /\ \E i \in DOMAIN context : context[i] = d

\* aggregator.py:1-6: a completed execution's final result holds the output of
\* every task, each once, and leads with a summary if there is one.
FinalResultIsComplete ==
  execStatus = "COMPLETED" =>
    LET headline == IF finalResult.headline = None THEN <<>> ELSE <<finalResult.headline>>
        all == headline \o finalResult.supporting
    IN /\ Len(all) = Len(subtasks)
       /\ \A i \in DOMAIN subtasks : \E j \in DOMAIN all : all[j] = i - 1
       /\ (\E i \in DOMAIN subtasks : subtasks[i].agent = "summarization") =>
            headline # <<>> /\ subtasks[headline[1] + 1].agent = "summarization"

\* orchestrator.py:27 "Never raises": a run that returns after at most one failure,
\* wherever that was, has recorded a verdict.
VerdictOnReturn == pc = "done" /\ failures <= 1 => execStatus \in Terminal

\* How far a run has come: its stage, its task, where it is with the task, and
\* where the agent is, by its rounds and the calls left.
Position ==
  << CASE pc = "new" -> 0 [] pc = "begin" -> 1 [] pc = "planning" -> 2 [] pc = "start" -> 3
       [] pc \in {"next", "agent", "taskFailed"} -> 4 [] pc = "finish" -> 5 [] pc = "failing" -> 6
       [] OTHER -> 7,
     current,
     CASE pc = "agent" -> 1 [] pc = "taskFailed" -> 2 [] OTHER -> 0,
     rounds,
     -Len(pending),
     IF loop = "raised" THEN 1 ELSE 0 >>

Precedes(p, q) == \E k \in DOMAIN p : p[k] < q[k] /\ \A j \in 1 .. k - 1 : p[j] = q[j]

\* agents/base.py:70, executor.py:3-5: no loop of a run goes round in circles.
\* Whatever the LLM replies, tools fail at, or raises, every step takes the run
\* forward, in a lexicographic order in which it can go so far only.
RunGoesForward == [][Precedes(Position, Position')]_<<pc, current, loopVars>>

\* orchestrator.py:27 "Never raises": a run in which at most one thing goes
\* wrong, wherever that is, ends with a verdict, unless it is the process that
\* dies.
OneFailureIsRecorded ==
  (execStatus = "PENDING") ~> (execStatus \in Terminal \/ failures > 1 \/ pc = "dead")

\* mock.py:3-4, 83, 151: with the mock the whole platform runs end to end.  A
\* request with "force_fail" is planned like any other and fails in its first
\* agent if what the plan repeats of it still contains the word; a request that
\* has it further in completes, unless something else goes wrong.
MockRunsEndToEnd ==
  (llm = "mock" /\ execStatus = "PENDING") ~>
    \/ failures > 0
    \/ userRequest # "forced" /\ execStatus = "COMPLETED"
    \/ userRequest = "forced" /\ execStatus = "FAILED" /\ status[0] = "FAILED"

=============================================================================
