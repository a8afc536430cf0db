---------------------------- MODULE MCScheduler ----------------------------
(* Small instances of Scheduler for TLC.                                   *)
EXTENDS SchedulerProperties, MCModels, TLC

CONSTANTS w1, w2, r1, r2, p1, p2

OneWorker == {w1}
TwoWorkers == {w1, w2}
OneReaper == {r1}
TwoReapers == {r1, r2}
OnePromoter == {p1}
TwoPromoters == {p1, p2}

\* Every point at which an actor can die, a promoter and the API included.
Anywhere == (ControlPoints \ {"idle"}) \cup {"api", "move"}

\* Nothing names a particular worker, reaper or execution.
WorkerSymmetry == Permutations({w1, w2})
ActorSymmetry == WorkerSymmetry \cup Permutations({r1, r2})
ExecutionSymmetry == WorkerSymmetry \cup Permutations({e1, e2})
=============================================================================
