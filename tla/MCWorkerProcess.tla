-------------------------- MODULE MCWorkerProcess --------------------------
(* A small instance of WorkerProcess for TLC: the consumer of one process   *)
(* is told to stop, the consumer, reaper and promoter of another stay.      *)
EXTENDS WorkerProcess, MCModels, TLC

CONSTANTS w1, w2, r1, p1

TwoWorkers == {w1, w2}
OneReaper == {r1}
OnePromoter == {p1}
OneLeaves == {w2}
=============================================================================
