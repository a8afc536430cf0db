------------------------------ MODULE MCModels ------------------------------
(* Small values for the constants of Models, shared by the MC modules.     *)
EXTENDS Models

CONSTANTS e1, e2

OneExecution == {e1}
TwoExecutions == {e1, e2}

\* The shapes of dependency the planner produces: one task, a step and its
\* summary, the fan-out / fan-in plan of the fallback, and a chain of steps.
Single == [i \in {0} |-> {}]
Chain == [i \in 0 .. 1 |-> IF i = 0 THEN {} ELSE {0}]
Join == [i \in 0 .. 2 |-> IF i = 2 THEN {0, 1} ELSE {}]
Line == [i \in 0 .. 2 |-> IF i = 0 THEN {} ELSE {i - 1}]

SinglePlan == {Single}
ChainPlan == {Chain}
JoinPlan == {Join}
ThreeTaskPlans == {Join, Line}
SmallPlans == {Single, Chain}
=============================================================================
