----------------------------- MODULE Aggregator -----------------------------
(***************************************************************************)
(* The aggregator (services/aggregator.py).  An outcome is a task's agent  *)
(* type and output, None if it has none.  The final text is a headline and *)
(* supporting outputs; its layout is left out.                             *)
(***************************************************************************)
EXTENDS Models, Comprehension

ASSUME OutputAssumption == None \notin Index

\* `o.status == COMPLETED and o.output`
Completed == [agent : AgentTypes, output : Index]

Outputs(outcomes) == [i \in DOMAIN outcomes |-> outcomes[i].output]

SlipDropSummaries(outcomes, first) ==
  Keep(outcomes, [agent : AgentTypes \ {"summarization"}, output : Index])

\* Everything but the headline, `if o is not summary`.
Supporting(outcomes, first) == RemoveAt(outcomes, first)

\* The first summary is the headline; without one there is none.
Aggregate(outcomes) ==
  LET completed == Keep(outcomes, Completed)
      summaries == {i \in DOMAIN completed : completed[i].agent = "summarization"}
      first == CHOOSE i \in summaries : \A j \in summaries : i <= j
  IN IF summaries = {}
     THEN [headline |-> None, supporting |-> Outputs(completed)]
     ELSE [headline |-> completed[first].output,
           supporting |-> Outputs(Supporting(completed, first))]
=============================================================================
