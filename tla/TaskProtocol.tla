---------------------------- MODULE TaskProtocol ----------------------------
(***************************************************************************)
(* What the orchestrator promises about one task, without workers, audits  *)
(* or a store: the phase a reader of the task list sees, and whether a     *)
(* pull request is on record for it.                                       *)
(*                                                                         *)
(* A task is worked on only from the queue or from review, a task in       *)
(* review has a pull request on record and never falls back to the queue,  *)
(* a stopped task moves only through the queue or to merged, and merged is *)
(* final.                                                                  *)
(***************************************************************************)

VARIABLES
  phase,      \* queued, working, review, stopped or merged
  published   \* a pull request is on record

Phases == {"queued", "working", "review", "stopped", "merged"}

Init == phase = "queued" /\ published = FALSE

Start ==
  /\ phase \in {"queued", "review"}
  /\ phase' = "working"
  /\ UNCHANGED published

(* The number of the pull request is recorded; the phase may follow later. *)
Publish == published' = TRUE /\ UNCHANGED phase

EnterReview ==
  /\ phase \in {"working", "review"}
  /\ phase' = "review"
  /\ published' = TRUE

Stop ==
  /\ phase # "merged"
  /\ phase' = "stopped"
  /\ UNCHANGED published

Requeue ==
  /\ phase \in {"working", "stopped"}
  /\ phase' = "queued"
  /\ UNCHANGED published

(* Only the operator's retry, of a stopped task, forgets the pull request. *)
StartOver ==
  /\ phase = "stopped"
  /\ phase' = "queued"
  /\ published' = FALSE

Merge ==
  /\ phase' = "merged"
  /\ UNCHANGED published

Next == Start \/ Publish \/ EnterReview \/ Stop \/ Requeue \/ StartOver \/ Merge

Spec == Init /\ [][Next]_<<phase, published>>

=============================================================================
