----------------------------- MODULE MCLiveView -----------------------------
(* Small instances of LiveView for TLC.                                    *)
EXTENDS LiveView, MCModels, TLC

CONSTANT c1

OneCall == {c1}

\* Nothing names a particular execution.
ExecutionSymmetry == Permutations({e1, e2})
=============================================================================
