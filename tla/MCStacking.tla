------------------------------ MODULE MCStacking ------------------------------
(* A stack for TLC: task 3 needs 1 and 2; in Chain task 2 also needs 1.      *)
EXTENDS Stacking, TLC

ThreeSpecs == {1, 2, 3}
Chain      == (1 :> {} @@ 2 :> {1} @@ 3 :> {1, 2})
Fork       == (1 :> {} @@ 2 :> {}  @@ 3 :> {1, 2})
OneEach    == [t \in ThreeSpecs |-> 1]
FirstTwice == (1 :> 2 @@ 2 :> 1 @@ 3 :> 1)
===============================================================================
