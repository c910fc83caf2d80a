------------------------------ MODULE MCDaemon ------------------------------
(* Model-checking instance of Daemon: interchangeable processes.           *)
EXTENDS Daemon, TLC

CONSTANTS s1, r1, r2

OneSup == {s1}
TwoRuns == {r1, r2}
Processes == Permutations(TwoRuns)

=============================================================================
