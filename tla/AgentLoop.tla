----------------------------- MODULE AgentLoop -----------------------------
(***************************************************************************)
(* One call of Agent.run (agents/base.py) with its tools (tools/           *)
(* executor.py, tools/registry.py): the LLM is asked, asks for tools, is   *)
(* handed their results, until it answers or its rounds are used up.       *)
(***************************************************************************)
EXTENDS Providers

CONSTANTS
  MaxIterations,   \* agent_max_tool_iterations
  ToolsEnabled,    \* tools_enabled
  Registry         \* names of the registered tools

ASSUME IterationsAssumption == MaxIterations \in Int
ASSUME ToolsAssumption == ToolsEnabled \in BOOLEAN

VARIABLES
  loop,      \* where Agent.run is
  rounds,    \* responses received
  messages,  \* the conversation
  pending    \* calls of the last response that have not been executed

loopVars == <<loop, rounds, messages, pending>>

Rounds == IF MaxIterations < 1 THEN 1 ELSE MaxIterations

\* tool_names of the agent, as far as the registry knows them.
ToolsOf(agent) ==
  LET names == CASE agent = "research" -> {"web_search", "fetch_url"}
                 [] agent = "analysis" -> {"calculator", "fetch_url"}
                 [] OTHER -> {}
  IN IF ToolsEnabled THEN names \cap Registry ELSE {}

LoopInit ==
  /\ loop = "idle"
  /\ rounds = 0
  /\ messages = <<>>
  /\ pending = <<>>

StartAgent ==
  /\ loop' = "chat"
  /\ rounds' = 0
  /\ messages' = <<User>>
  /\ pending' = <<>>

StopAgent ==
  /\ loop' = "idle"
  /\ rounds' = 0
  /\ messages' = <<>>
  /\ pending' = <<>>

\* self.llm.chat returns: a response without tool calls is the answer.
Chat(reply) ==
  LET uses == ToolUses(reply)
      calls == [k \in DOMAIN uses |-> [id |-> <<rounds + 1, k>>, name |-> uses[k].name]]
  IN
  /\ loop = "chat"
  /\ rounds' = rounds + 1
  /\ IF calls = <<>>
     THEN /\ loop' = "answered"
          /\ UNCHANGED <<messages, pending>>
     ELSE /\ messages' = Append(messages, Assistant(calls, HasText(reply)))
          /\ pending' = calls
          /\ loop' = "tools"

\* The provider raises, and so does run.
ChatRaises ==
  /\ loop = "chat"
  /\ loop' = "raised"
  /\ UNCHANGED <<rounds, messages, pending>>

\* After the last call of a response comes the next round, if there is one.
NextRound(remaining) ==
  IF remaining # <<>> THEN "tools" ELSE IF rounds < Rounds THEN "chat" ELSE "answered"

SlipSkipUnknown(call, tools) ==
  IF call.name \in tools THEN {ToolResult(call, TRUE), ToolResult(call, FALSE)} ELSE {User}

\* An unknown tool is an error for the LLM; so are a failure and a timeout of a
\* known one: execute_tool never raises.
ResultsOf(call, tools) ==
  IF call.name \in tools THEN {ToolResult(call, TRUE), ToolResult(call, FALSE)}
  ELSE {ToolResult(call, FALSE)}

SlipTryAgain(tools) ==
  /\ loop = "tools"
  /\ \E r \in ResultsOf(Head(pending), tools) :
       /\ messages' = Append(messages, r)
       /\ pending' = IF r.ok THEN Tail(pending) ELSE pending
  /\ loop' = NextRound(pending')
  /\ UNCHANGED rounds

ExecuteTool(tools) ==
  /\ loop = "tools"
  /\ \E r \in ResultsOf(Head(pending), tools) : messages' = Append(messages, r)
  /\ pending' = Tail(pending)
  /\ loop' = NextRound(Tail(pending))
  /\ UNCHANGED rounds

\* run has returned the LLM's own answer: its last response called no tool.
\* Otherwise its rounds were used up, and "(no answer produced)" may be returned.
LastWord == rounds = 1 + Cardinality({i \in DOMAIN messages : messages[i].role = "assistant"})
=============================================================================
