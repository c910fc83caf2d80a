-------------------------- MODULE MCTaskLifecycle --------------------------
(* Model-checking instance of TaskLifecycle: interchangeable pool threads. *)
EXTENDS TaskLifecycle, TLC

CONSTANTS w1, w2

OneWorker == {w1}
TwoWorkers == {w1, w2}
Threads == Permutations(TwoWorkers)

=============================================================================
