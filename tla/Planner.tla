------------------------------ MODULE Planner ------------------------------
(***************************************************************************)
(* The planner (services/planner.py): from what the LLM answers to the     *)
(* subtasks of an execution and their dependencies.                        *)
(*                                                                         *)
(* An answer is the JSON array found in the LLM's text, <<>> if there is   *)
(* none.  Its unusable items (not an object, no description) are one       *)
(* value.  An agent type is already what AgentType.from_value makes of it. *)
(***************************************************************************)
EXTENDS Models, Comprehension

CONSTANT Unusable

Subtasks == [agent : AgentTypes, dependsOn : SUBSET Int]

Subtask(agent) == [agent |-> agent, dependsOn |-> {}]

\* _fallback
Fallback == <<Subtask("research"), Subtask("analysis"), Subtask("summarization")>>

\* _parse
Parse(answer) == Keep(answer, Subtasks)

SlipNoClamp(subtasks) == subtasks

\* Clamp to the configured maximum.
Clamp(subtasks) == SubSeq(subtasks, 1, IF Len(subtasks) < MaxTasks THEN Len(subtasks) ELSE MaxTasks)

SlipDependOnLater(s, i) ==
  IF s.dependsOn # {} THEN s.dependsOn
  ELSE IF s.agent = "summarization" THEN 0 .. i - 1 ELSE {}

\* The dependencies of the subtask in position i: the ones the LLM gave, as far
\* as they name earlier positions; if it gave none, a summarization joins
\* everything before it.
Dependencies(s, i) ==
  IF s.dependsOn # {} THEN {d \in s.dependsOn : 0 <= d /\ d < i}
  ELSE IF s.agent = "summarization" THEN 0 .. i - 1 ELSE {}

AssignDependencies(subtasks) == [i \in 0 .. Len(subtasks) - 1 |-> Dependencies(subtasks[i + 1], i)]

Decompose(answer) == Clamp(IF Parse(answer) = <<>> THEN Fallback ELSE Parse(answer))
=============================================================================
