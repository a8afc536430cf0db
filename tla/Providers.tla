----------------------------- MODULE Providers -----------------------------
(***************************************************************************)
(* The LLM providers (llm/): how a conversation of Agent.run is put to the *)
(* API of Anthropic or OpenAI, what becomes of the reply, and the mock     *)
(* provider, which plans and answers without any API.                      *)
(*                                                                         *)
(* A message of Agent.run is a record with a role; the assistant's holds   *)
(* the calls it made and whether it said something besides.  A reply is a  *)
(* sequence of blocks: OpenAI's, which has one text and a list of calls,   *)
(* is the text followed by the calls.  Texts and arguments are left out.   *)
(***************************************************************************)
EXTENDS Comprehension

CONSTANTS
  Names,  \* what an LLM may call a tool
  Remote  \* the replies a remote LLM may give

Text == [type |-> "text"]
Use(name) == [type |-> "use", name |-> name]
Uses == [type : {"use"}, name : Names]

ASSUME NamesAssumption == {"web_search", "calculator"} \subseteq Names
ASSUME RemoteAssumption == Remote \subseteq Seq({Text} \cup Uses)

\* response.tool_calls and whether response.text is empty.
ToolUses(reply) == Keep(reply, Uses)
HasText(reply) == \E i \in DOMAIN reply : reply[i].type = "text"

User == [role |-> "user"]
Assistant(calls, text) == [role |-> "assistant", calls |-> calls, text |-> text]
ToolResult(call, ok) == [role |-> "tool", id |-> call.id, ok |-> ok]

-----------------------------------------------------------------------------
(* Anthropic: tool results travel in turns of the user.                    *)

Says(text) == IF text THEN <<Text>> ELSE <<>>
ToolUse(call) == [type |-> "tool_use", id |-> call.id]
Result(m) == [type |-> "tool_result", id |-> m.id]

SlipResultAsText(m) ==
  IF m.role = "assistant"
  THEN [role |-> "assistant", content |-> Says(m.text) \o [k \in DOMAIN m.calls |-> ToolUse(m.calls[k])]]
  ELSE [role |-> "user", content |-> <<Text>>]

AnthropicTurn(m) ==
  IF m.role = "assistant"
  THEN [role |-> "assistant", content |-> Says(m.text) \o [k \in DOMAIN m.calls |-> ToolUse(m.calls[k])]]
  ELSE [role |-> "user", content |-> IF m.role = "tool" THEN <<Result(m)>> ELSE <<Text>>]

AnthropicMessages(messages) == [i \in DOMAIN messages |-> AnthropicTurn(messages[i])]

\* The API joins neighbouring turns of one role.
JoinTurn(turns, turn) ==
  IF turns # <<>> /\ Last(turns).role = turn.role
  THEN Append(Front(turns), [turn EXCEPT !.content = Last(turns).content \o @])
  ELSE Append(turns, turn)

Turns(api) == FoldLeft(JoinTurn, <<>>, api)

IdsOf(turn, type) ==
  LET blocks == Keep(turn.content, [type : {type}, id : Nat \X Nat])
  IN [k \in DOMAIN blocks |-> blocks[k].id]

\* It then wants turns of content that alternate, the user's first and last, and
\* after every turn with tool uses one with a result for each, and no other.
AnthropicAccepts(api) ==
  LET turns == Turns(api) IN
  /\ turns[1].role = "user" /\ Last(turns).role = "user"
  /\ IdsOf(turns[1], "tool_result") = <<>>
  /\ \A i \in DOMAIN turns : turns[i].content # <<>>
  /\ \A i \in 2 .. Len(turns) :
       turns[i].role = "user" => IdsOf(turns[i], "tool_result") = IdsOf(turns[i - 1], "tool_use")

-----------------------------------------------------------------------------
(* OpenAI: tool results are messages of their own.                         *)

OpenAIMessage(m) ==
  CASE m.role = "tool" -> [role |-> "tool", toolCallId |-> m.id]
    [] m.role = "assistant" -> [role |-> "assistant", toolCalls |-> [k \in DOMAIN m.calls |-> m.calls[k].id]]
    [] OTHER -> User

OpenAIMessages(messages) == <<[role |-> "system"]>> \o [i \in DOMAIN messages |-> OpenAIMessage(messages[i])]

\* The API wants the calls of an assistant's message answered by the messages
\* that follow it, and every answer to belong to such a call.
OpenAIAccepts(api) ==
  /\ \A i \in DOMAIN api : api[i].role = "assistant" =>
       LET ids == api[i].toolCalls IN
       /\ ids # <<>> /\ i + Len(ids) <= Len(api)
       /\ \A j \in DOMAIN ids :
            api[i + j].role = "tool" /\ \E k \in DOMAIN ids : api[i + k] = [role |-> "tool", toolCallId |-> ids[j]]
  /\ \A i \in DOMAIN api : api[i].role = "tool" =>
       \E j \in 1 .. i - 1 : api[j].role = "assistant" /\ i - j <= Len(api[j].toolCalls)

-----------------------------------------------------------------------------
(* The mock provider.                                                      *)

MockItem(agent) == [agent |-> agent, dependsOn |-> {}]

\* The plan it answers with, to every request.
MockPlan == <<MockItem("research"), MockItem("analysis"), MockItem("summarization")>>

\* _clip: the descriptions of the mock's plan hold the beginning of a request
\* only, and so do the outputs of its agents, which repeat a description.
Clip(text) == IF text = "forcedLater" THEN "plain" ELSE text

Observed(messages) == \E i \in DOMAIN messages : messages[i].role = "tool"

SlipAskAgain(agent, tools, messages) ==
  IF agent = "research" /\ "web_search" \in tools THEN {<<Use("web_search")>>}
  ELSE IF agent = "analysis" /\ "calculator" \in tools THEN {<<Use("calculator")>>, <<Text>>}
  ELSE {<<Text>>}

\* It asks for one tool before the first observation, and then answers.  Whether
\* an analysis asks is up to the prompt, which may hold an arithmetic expression.
MockReplies(agent, tools, messages) ==
  IF Observed(messages) THEN {<<Text>>}
  ELSE IF agent = "research" /\ "web_search" \in tools THEN {<<Use("web_search")>>}
  ELSE IF agent = "analysis" /\ "calculator" \in tools THEN {<<Use("calculator")>>, <<Text>>}
  ELSE {<<Text>>}

\* An API that is given no tools makes no calls.
RemoteReplies(tools) == IF tools # {} THEN Remote ELSE {r \in Remote : ToolUses(r) = <<>>}
=============================================================================
