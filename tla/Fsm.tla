-------------------------------- MODULE Fsm --------------------------------
(***************************************************************************)
(* The canonical task state machine: the state and event vocabulary, the   *)
(* transition table and the crash-recovery table of quikode/fsm.py, and    *)
(* the helper layer of quikode/fsm_runtime.py.                             *)
(*                                                                         *)
(* Everything here is a constant operator from states to states.  A helper *)
(* of fsm_runtime that "silently skips" returns its argument unchanged; an *)
(* event that is not in the table has the target Invalid, which the        *)
(* callers that use the raw event must treat as a raised InvalidTransition.*)
(***************************************************************************)

AuditStates ==
  {"AUDIT_LOCAL_CI", "AUDIT_RUBRIC", "AUDIT_STANDARDS",
   "AUDIT_ARCHITECTURE", "AUDIT_BEHAVIOR"}

ACTIVE_STATES ==
  AuditStates \cup
  {"PROVISIONING", "PLANNING", "DOING_SUBTASK", "CHECKING_SUBTASK",
   "TRIAGING_SUBTASK", "COMMITTING", "PUSHING", "LOCAL_CI_CHECKING",
   "FIXUP_PLANNING", "PR_OPENING", "REBASING_TO_MAIN", "CONFLICT_RESOLVING"}

TERMINAL_STATES ==
  {"MERGED", "MERGE_NODE_RETIRED", "BLOCKED", "FAILED", "ABORTED"}

POST_PR_STATES == {"PENDING_CI", "AWAITING_REVIEW"}

RETRYABLE_STATES == {"BLOCKED", "FAILED", "ABORTED"}

State ==
  ACTIVE_STATES \cup TERMINAL_STATES \cup POST_PR_STATES
    \cup {"PENDING", "MERGE_NODE_READY"}

Invalid == "INVALID_TRANSITION"

(* The gauntlet order: a stage's PASSED event leads to the next stage.     *)
NextStage(s) ==
  CASE s = "AUDIT_LOCAL_CI"     -> "AUDIT_RUBRIC"
    [] s = "AUDIT_RUBRIC"       -> "AUDIT_STANDARDS"
    [] s = "AUDIT_STANDARDS"    -> "AUDIT_ARCHITECTURE"
    [] s = "AUDIT_ARCHITECTURE" -> "AUDIT_BEHAVIOR"
    [] s = "AUDIT_BEHAVIOR"     -> "PR_OPENING"

(***************************************************************************)
(* TRANSITIONS and target_for_event.  The five AUDIT_x_PASSED and the five *)
(* AUDIT_x_FAILED events, each valid from exactly one stage, are the two   *)
(* events AUDIT_PASSED and AUDIT_FAILED here.                              *)
(***************************************************************************)
target_for_event(s, e) ==
  CASE e = "START_TASK" /\ s = "PENDING"                  -> "PROVISIONING"
    [] e = "ENVIRONMENT_READY" /\ s = "PROVISIONING"      -> "PLANNING"
    [] e = "PLAN_VALID" /\ s = "PLANNING"                 -> "DOING_SUBTASK"
    [] e = "DOER_DONE" /\ s = "DOING_SUBTASK"             -> "CHECKING_SUBTASK"
    [] e = "SUBTASK_PASSED" /\ s = "CHECKING_SUBTASK"     -> "COMMITTING"
    [] e = "SUBTASK_FAILED" /\ s = "CHECKING_SUBTASK"     -> "TRIAGING_SUBTASK"
    [] e = "RETRY_SUBTASK" /\ s = "TRIAGING_SUBTASK"      -> "DOING_SUBTASK"
    [] e = "RETRY_EXHAUSTED" /\ s = "TRIAGING_SUBTASK"    -> "BLOCKED"
    [] e = "COMMIT_CREATED" /\ s = "COMMITTING"           -> "PUSHING"
    [] e = "MORE_SUBTASKS" /\ s = "PUSHING"               -> "DOING_SUBTASK"
    [] e = "ALL_SUBTASKS_DONE" /\ s = "PUSHING"           -> "LOCAL_CI_CHECKING"
    [] e = "LOCAL_CI_PASSED" /\ s = "LOCAL_CI_CHECKING"   -> "AUDIT_LOCAL_CI"
    [] e = "LOCAL_CI_FAILED" /\ s = "LOCAL_CI_CHECKING"   -> "FIXUP_PLANNING"
    [] e = "AUDIT_PASSED" /\ s \in AuditStates            -> NextStage(s)
    [] e = "AUDIT_FAILED" /\ s \in AuditStates            -> "FIXUP_PLANNING"
    [] e = "MERGE_NODE_BUILT" /\ s = "AUDIT_BEHAVIOR"     -> "MERGE_NODE_READY"
    [] e = "CI_FIXUP_START" /\ s \in POST_PR_STATES       -> "AUDIT_LOCAL_CI"
    [] e = "REVIEW_FIXUP_START" /\ s = "AWAITING_REVIEW"  -> "AUDIT_LOCAL_CI"
    [] e = "FIXUP_PLAN_VALID" /\ s = "FIXUP_PLANNING"     -> "DOING_SUBTASK"
    [] e = "FIXUP_EXHAUSTED" /\ s = "FIXUP_PLANNING"      -> "BLOCKED"
    [] e = "PR_OPENED" /\ s = "PR_OPENING"                -> "PENDING_CI"
    [] e = "CI_PASSED" /\ s = "PENDING_CI"                -> "AWAITING_REVIEW"
    [] e = "MERGED" /\ s = "AWAITING_REVIEW"              -> "MERGED"
    [] e = "PARENT_ADVANCED" /\ s = "MERGE_NODE_READY"    -> "PENDING"
    [] e = "ALL_PARENTS_MERGED" /\ s = "MERGE_NODE_READY" -> "MERGE_NODE_RETIRED"
    [] e = "PARENT_MERGED_OR_CONFLICT"
         /\ s \in (ACTIVE_STATES \ {"REBASING_TO_MAIN"}) \cup POST_PR_STATES
                                                          -> "REBASING_TO_MAIN"
    [] e = "REBASE_PUSHED" /\ s = "REBASING_TO_MAIN"      -> "PENDING_CI"
    [] e = "CONFLICT" /\ s = "REBASING_TO_MAIN"           -> "CONFLICT_RESOLVING"
    [] e = "RESOLVED" /\ s = "CONFLICT_RESOLVING"         -> "REBASING_TO_MAIN"
    [] e = "UNRESOLVED" /\ s = "CONFLICT_RESOLVING"       -> "BLOCKED"
    [] e = "BLOCK_TASK"
         /\ s \in ACTIVE_STATES \ {"CONFLICT_RESOLVING"}  -> "BLOCKED"
    [] e = "CRASH" /\ s \in ACTIVE_STATES                 -> "FAILED"
    [] e = "ABORT" /\ s = "PENDING"                       -> "ABORTED"
    [] e = "MARK_MERGED" /\ s = "PENDING"                 -> "MERGED"
    [] e = "RETRY_TASK" /\ s \in RETRYABLE_STATES         -> "PENDING"
    [] e = "RESUME_TASK" /\ s \in {"BLOCKED", "FAILED"}   -> "PENDING"
    [] e = "PR_CLOSED" /\ s \in POST_PR_STATES            -> "ABORTED"
    [] OTHER                                              -> Invalid

(* Store.apply_event raises on an event the table does not allow.          *)
Raises(s, e) == target_for_event(s, e) = Invalid

(* The typed-guard idiom of fsm_runtime: fire the event or skip.           *)
Fire(s, e) == IF Raises(s, e) THEN s ELSE target_for_event(s, e)

-----------------------------------------------------------------------------
(* The helper layer, one operator per function of fsm_runtime.py.          *)

enter_doing_subtask(s) ==
  CASE s = "PLANNING"         -> Fire(s, "PLAN_VALID")
    [] s = "TRIAGING_SUBTASK" -> Fire(s, "RETRY_SUBTASK")
    [] s = "FIXUP_PLANNING"   -> Fire(s, "FIXUP_PLAN_VALID")
    [] s = "PUSHING"          -> Fire(s, "MORE_SUBTASKS")
    [] OTHER                  -> s

enter_checking_subtask(s) == Fire(s, "DOER_DONE")

enter_triaging_subtask(s) == Fire(s, "SUBTASK_FAILED")

enter_committing(s) == Fire(s, "SUBTASK_PASSED")

enter_pushing(s) == Fire(s, "COMMIT_CREATED")

enter_local_ci_checking(s) == Fire(s, "ALL_SUBTASKS_DONE")

enter_audit_local_ci(s) ==
  CASE s = "LOCAL_CI_CHECKING" -> Fire(s, "LOCAL_CI_PASSED")
    [] s = "PENDING_CI"        -> Fire(s, "CI_FIXUP_START")
    [] s = "AWAITING_REVIEW"   -> Fire(s, "REVIEW_FIXUP_START")
    [] OTHER                   -> s

(* _advance_audit_stage(passed = True, expected_state): the named stage's  *)
(* pass, ignored when the row is in any other state.                       *)
audit_stage_passed(s, expected) ==
  IF s = expected THEN Fire(s, "AUDIT_PASSED") ELSE s

enter_fixup_planning(s) ==
  CASE s = "LOCAL_CI_CHECKING" -> Fire(s, "LOCAL_CI_FAILED")
    [] s \in AuditStates       -> Fire(s, "AUDIT_FAILED")
    [] OTHER                   -> s

enter_pr_opening(s) == audit_stage_passed(s, "AUDIT_BEHAVIOR")

enter_pending_ci(s) ==
  CASE s = "PR_OPENING"       -> Fire(s, "PR_OPENED")
    [] s = "REBASING_TO_MAIN" -> Fire(s, "REBASE_PUSHED")
    [] OTHER                  -> s

enter_awaiting_review(s) == Fire(s, "CI_PASSED")

enter_audit_cycle_for_ci_fixup(s) == Fire(s, "CI_FIXUP_START")

enter_audit_cycle_for_review_fixup(s) == Fire(s, "REVIEW_FIXUP_START")

(* mark_merged bridges most states to MERGED through several events; the   *)
(* subtask-loop and PR_OPENING states are outside its bridge set.          *)
mark_merged(s) ==
  IF s \in {"MERGED", "PENDING", "CONFLICT_RESOLVING", "REBASING_TO_MAIN"}
             \cup POST_PR_STATES \cup AuditStates \cup RETRYABLE_STATES
  THEN "MERGED"
  ELSE s

(* Mutant: a blocked row is rebased as well.                               *)
enter_rebasing_also_blocked(s) ==
  CASE s = "CONFLICT_RESOLVING" -> Fire(s, "RESOLVED")
    [] s = "BLOCKED"            -> "REBASING_TO_MAIN"
    [] OTHER                    -> Fire(s, "PARENT_MERGED_OR_CONFLICT")

enter_rebasing_to_main(s) ==
  IF s = "CONFLICT_RESOLVING" THEN Fire(s, "RESOLVED")
                              ELSE Fire(s, "PARENT_MERGED_OR_CONFLICT")

enter_conflict_resolving(s) == Fire(s, "CONFLICT")

block_current(s) ==
  CASE s = "TRIAGING_SUBTASK"   -> Fire(s, "RETRY_EXHAUSTED")
    [] s = "FIXUP_PLANNING"     -> Fire(s, "FIXUP_EXHAUSTED")
    [] s = "CONFLICT_RESOLVING" -> Fire(s, "UNRESOLVED")
    [] OTHER                    -> Fire(s, "BLOCK_TASK")

(* TaskWorker._safe_crash_current: CRASH, suppressed when not allowed.     *)
safe_crash_current(s) == Fire(s, "CRASH")

(* The supervisor's raw write: no event, whatever the state is.            *)
force_recover_to_pending_ci(s) == "PENDING_CI"

(* Where a row lands when the orchestrator died, and whether the recovery  *)
(* sets resume_from_existing_subtasks.                                     *)
recover_after_crash(s, has_pr) ==
  CASE s \in TERMINAL_STATES \cup {"PENDING"} -> s
    [] s \in POST_PR_STATES                   -> "PENDING_CI"
    [] s \in AuditStates \cup {"PR_OPENING", "REBASING_TO_MAIN", "CONFLICT_RESOLVING"}
         /\ has_pr                            -> "PENDING_CI"
    [] OTHER                                  -> "PENDING"

recovery_sets_resume(s, has_pr) ==
  /\ s \notin TERMINAL_STATES \cup POST_PR_STATES \cup {"PENDING", "PROVISIONING"}
  /\ recover_after_crash(s, has_pr) = "PENDING"

=============================================================================
