---------------------------- MODULE MCSubtaskLoop ----------------------------
(* Model-checking instances of SubtaskLoop: the plans.                     *)
EXTENDS SubtaskLoop

OneSubtask == <<1>>
NoDeps1 == [s \in {1} |-> {}]
TwoSubtasks == <<1, 2>>
NoDeps2 == [s \in {1, 2} |-> {}]

==============================================================================
