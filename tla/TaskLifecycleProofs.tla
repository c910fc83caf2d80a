------------------------ MODULE TaskLifecycleProofs ------------------------
(***************************************************************************)
(* Theorems about TaskLifecycle, for every number of threads, every budget *)
(* and every configuration of the audit.                                   *)
(***************************************************************************)
EXTENDS TaskLifecycle, TLAPS

-----------------------------------------------------------------------------
(* The state machine: every helper maps states to states.                  *)

LEMMA TargetType ==
  ASSUME NEW s \in State, NEW e, ~Raises(s, e)
  PROVE  target_for_event(s, e) \in State
<1>1. \A x \in AuditStates : NextStage(x) \in State
  BY DEF NextStage, State, AuditStates, ACTIVE_STATES
<1>2. /\ {"PENDING", "MERGE_NODE_READY", "PENDING_CI", "AWAITING_REVIEW", "MERGED",
          "MERGE_NODE_RETIRED", "BLOCKED", "FAILED", "ABORTED"} \subseteq State
      /\ {"PROVISIONING", "PLANNING", "DOING_SUBTASK", "CHECKING_SUBTASK",
          "TRIAGING_SUBTASK", "COMMITTING", "PUSHING", "LOCAL_CI_CHECKING",
          "AUDIT_LOCAL_CI", "FIXUP_PLANNING", "REBASING_TO_MAIN",
          "CONFLICT_RESOLVING"} \subseteq State
  BY DEF State, AuditStates, ACTIVE_STATES, TERMINAL_STATES, POST_PR_STATES
<1> HIDE DEF State
<1> QED BY <1>1, <1>2, SMTT(30) DEF Raises, target_for_event

LEMMA FireType ==
  ASSUME NEW s \in State, NEW e
  PROVE  Fire(s, e) \in State
  BY TargetType DEF Fire

LEMMA HelperTypes ==
  ASSUME NEW s \in State
  PROVE  /\ enter_doing_subtask(s) \in State
         /\ enter_checking_subtask(s) \in State
         /\ enter_triaging_subtask(s) \in State
         /\ enter_committing(s) \in State
         /\ enter_pushing(s) \in State
         /\ enter_local_ci_checking(s) \in State
         /\ enter_audit_local_ci(s) \in State
         /\ \A x : audit_stage_passed(s, x) \in State
         /\ enter_fixup_planning(s) \in State
         /\ enter_pr_opening(s) \in State
         /\ enter_pending_ci(s) \in State
         /\ enter_awaiting_review(s) \in State
         /\ enter_audit_cycle_for_ci_fixup(s) \in State
         /\ enter_audit_cycle_for_review_fixup(s) \in State
         /\ mark_merged(s) \in State
         /\ enter_rebasing_to_main(s) \in State
         /\ enter_conflict_resolving(s) \in State
         /\ block_current(s) \in State
         /\ safe_crash_current(s) \in State
         /\ StartTask(s) \in State
         /\ force_recover_to_pending_ci(s) \in State
         /\ \A b \in BOOLEAN : recover_after_crash(s, b) \in State
<1>1. "MERGED" \in State /\ "PENDING_CI" \in State /\ "PENDING" \in State
  BY DEF State, TERMINAL_STATES, POST_PR_STATES
<1>2. \A e : Fire(s, e) \in State
  BY FireType
<1> HIDE DEF State
<1>3. /\ enter_doing_subtask(s) \in State
      /\ enter_checking_subtask(s) \in State
      /\ enter_triaging_subtask(s) \in State
      /\ enter_committing(s) \in State
      /\ enter_pushing(s) \in State
      /\ enter_local_ci_checking(s) \in State
  BY <1>2 DEF enter_doing_subtask, enter_checking_subtask, enter_triaging_subtask,
              enter_committing, enter_pushing, enter_local_ci_checking
<1>4. /\ enter_audit_local_ci(s) \in State
      /\ \A x : audit_stage_passed(s, x) \in State
      /\ enter_fixup_planning(s) \in State
      /\ enter_pr_opening(s) \in State
      /\ enter_pending_ci(s) \in State
      /\ enter_awaiting_review(s) \in State
  BY <1>2 DEF enter_audit_local_ci, audit_stage_passed, enter_fixup_planning,
              enter_pr_opening, enter_pending_ci, enter_awaiting_review
<1>5. /\ enter_audit_cycle_for_ci_fixup(s) \in State
      /\ enter_audit_cycle_for_review_fixup(s) \in State
      /\ mark_merged(s) \in State
      /\ enter_rebasing_to_main(s) \in State
      /\ enter_conflict_resolving(s) \in State
      /\ block_current(s) \in State
  BY <1>1, <1>2 DEF enter_audit_cycle_for_ci_fixup, enter_audit_cycle_for_review_fixup,
              mark_merged, enter_rebasing_to_main, enter_conflict_resolving, block_current
<1>6. /\ safe_crash_current(s) \in State
      /\ StartTask(s) \in State
      /\ force_recover_to_pending_ci(s) \in State
      /\ \A b \in BOOLEAN : recover_after_crash(s, b) \in State
  BY <1>1, <1>2 DEF safe_crash_current, StartTask, force_recover_to_pending_ci,
              recover_after_crash
<1> QED BY <1>3, <1>4, <1>5, <1>6

-----------------------------------------------------------------------------
(* Types.  TypeOK alone is not inductive: the counters of a thread stay in *)
(* range only because of where the thread is when it counts.               *)

TypeInv == TypeOK /\ ControlOK

Jobs == {"none", "task", "review", "ci", "rebase"}

LEMMA BecomeType ==
  ASSUME TypeInv, NEW w \in Workers, NEW r \in WorkerRecord, InControl(r), Become(w, r)
  PROVE  wk' \in [Workers -> WorkerRecord] /\ ControlOK'
  BY DEF TypeInv, TypeOK, ControlOK, Become, InControl

LEMMA ThreadType ==
  ASSUME NEW pc \in PCs, NEW job \in Jobs,
         pc \notin {"doing", "check", "fbstart"} \/ (pc = "fbstart" /\ job \in {"review", "ci"})
  PROVE  Thread(pc, job) \in WorkerRecord /\ InControl(Thread(pc, job))
  BY LimitsAssumption DEF Thread, WorkerRecord, InControl, Jobs

(* A jump that enters none of the program points InControl speaks about.   *)
LEMMA GotoType ==
  ASSUME TypeInv, NEW w \in Workers, NEW pc \in PCs, Goto(w, pc),
         pc \notin {"doing", "check", "stage", "settle", "fixup", "sub", "fbstart"}
  PROVE  wk' \in [Workers -> WorkerRecord] /\ ControlOK'
<1>1. [wk[w] EXCEPT !.pc = pc] \in WorkerRecord
  BY DEF TypeInv, TypeOK, WorkerRecord
<1>2. InControl([wk[w] EXCEPT !.pc = pc])
  BY DEF TypeInv, TypeOK, WorkerRecord, InControl
<1> QED BY <1>1, <1>2, BecomeType DEF Goto

LEMMA ReturnType ==
  ASSUME TypeInv, NEW w \in Workers, Return(w)
  PROVE  wk' \in [Workers -> WorkerRecord] /\ ControlOK'
<1>1. /\ Thread("done", "none") \in WorkerRecord /\ InControl(Thread("done", "none"))
      /\ Thread("poll", "task") \in WorkerRecord /\ InControl(Thread("poll", "task"))
      /\ Thread("teardown", "task") \in WorkerRecord /\ InControl(Thread("teardown", "task"))
  BY ThreadType DEF PCs, Jobs
<1>2. [Thread("poll", "task") EXCEPT !.tries = wk[w].tries] \in WorkerRecord
  BY <1>1 DEF TypeInv, TypeOK, WorkerRecord
<1>3. InControl([Thread("poll", "task") EXCEPT !.tries = wk[w].tries])
  BY DEF InControl, Thread
<1>4. Returned(w) \in WorkerRecord /\ InControl(Returned(w))
  BY <1>1, <1>2, <1>3 DEF Returned
<1> QED BY <1>4, BecomeType DEF Return

LEMMA BlockedType ==
  ASSUME TypeInv, NEW w \in Workers, ReturnBlocked(w)
  PROVE  st' \in State /\ wk' \in [Workers -> WorkerRecord] /\ ControlOK'
<1>1. BlockedState(w) \in State
  BY HelperTypes DEF BlockedState, TypeInv, TypeOK
<1> QED BY <1>1, ReturnType DEF ReturnBlocked

LEMMA RaiseType ==
  ASSUME TypeInv, NEW w \in Workers, NEW s \in State, Raise(w, s)
  PROVE  st' \in State /\ wk' \in [Workers -> WorkerRecord] /\ ControlOK'
<1>1. RaisedState(w, s) \in State
  BY HelperTypes DEF RaisedState
<1> QED BY <1>1, ReturnType DEF Raise

LEMMA StartSetType ==
  ASSUME TypeInv, NEW w \in Workers, NEW n \in 0..(MaxTodo + MaxSub),
         NEW ret \in {"commit", "cycle", "audit"}, StartSet(w, n, ret),
         ret = "cycle" => wk[w].cyc <= MaxCycles
  PROVE  wk' \in [Workers -> WorkerRecord] /\ ControlOK'
<1> DEFINE r == [wk[w] EXCEPT !.pc = "sub", !.left = n, !.att = 0, !.ret = ret]
<1>1. 0 \in 0..MaxAttempts /\ "sub" \in PCs /\ wk[w] \in WorkerRecord
  BY LimitsAssumption DEF PCs, TypeInv, TypeOK
<1>2. r \in WorkerRecord
  BY <1>1 DEF WorkerRecord
<1>3. r.pc = "sub" /\ r.ret = ret /\ r.cyc = wk[w].cyc
  BY <1>1 DEF WorkerRecord
<1>4. Become(w, r)
  BY DEF StartSet
<1> HIDE DEF r
<1>5. InControl(r)
  BY <1>3 DEF InControl
<1> QED BY <1>2, <1>4, <1>5, BecomeType

LEMMA SubmitType ==
  ASSUME TypeInv, NEW w \in Workers, NEW pc \in PCs, NEW job \in Jobs, Submit(w, pc, job),
         pc \notin {"doing", "check", "fbstart"} \/ (pc = "fbstart" /\ job \in {"review", "ci"})
  PROVE  wk' \in [Workers -> WorkerRecord] /\ ControlOK' /\ fut' \in Workers \cup {None}
<1>1. Thread(pc, job) \in WorkerRecord /\ InControl(Thread(pc, job))
  BY ThreadType
<1> QED BY <1>1, BecomeType DEF Submit

LEMMA PlanStepType ==
  ASSUME TypeInv, NEW w \in Workers, PlanStep(w)
  PROVE  TypeInv'
<1> USE DEF TypeInv, github, daemon, ghosts
<1>1. CASE Provision(w)
  BY <1>1, GotoType, HelperTypes DEF Provision, TypeOK, PCs
<1>2. CASE ProvisionWorktree(w)
  <2>1. row' \in Rows
    BY <1>2 DEF ProvisionWorktree, TypeOK, Rows
  <2>2. stale' \in BOOLEAN /\ work' \in BOOLEAN
    BY <1>2 DEF ProvisionWorktree, HeadMoves, TypeOK
  <2>3. gh' \in {"none", "open", "merged", "closed"}
    BY <1>2 DEF ProvisionWorktree, TypeOK
  <2>4. wk' \in [Workers -> WorkerRecord] /\ ControlOK'
    BY <1>2, GotoType DEF ProvisionWorktree, PCs
  <2> QED BY <1>2, <2>1, <2>2, <2>3, <2>4 DEF ProvisionWorktree, TypeOK
<1>3. CASE PlanFresh(w)
  BY <1>3, GotoType, FireType DEF PlanFresh, TypeOK, PCs
<1>4. CASE PlanResumed(w)
  <2>1. PICK n \in IF row.plan = "good" THEN {row.todo} ELSE 1..MaxSub :
          StartSet(w, n, "commit")
    BY <1>4 DEF PlanResumed
  <2>2. n \in 0..(MaxTodo + MaxSub)
    BY <2>1, LimitsAssumption DEF TypeOK, Rows
  <2>3. wk' \in [Workers -> WorkerRecord] /\ ControlOK'
    BY <2>1, <2>2, StartSetType
  <2>4. row' \in Rows /\ st' \in State
    BY <1>4, FireType DEF PlanResumed, TypeOK, Rows
  <2> QED BY <1>4, <2>3, <2>4 DEF PlanResumed, TypeOK
<1>5. CASE PlanUnparsable(w)
  <2>1. Fire(st, "ENVIRONMENT_READY") \in State
    BY FireType DEF TypeOK
  <2> QED BY <1>5, <2>1, RaiseType DEF PlanUnparsable, TypeOK
<1>6. CASE PlanOutOfState(w)
  BY <1>6, RaiseType DEF PlanOutOfState, TypeOK
<1>7. CASE PlannerEmits(w)
  BY <1>7 DEF PlannerEmits, TypeOK, Rows, ControlOK
<1>8. CASE Planned(w)
  <2>1. PICK n \in 1..MaxSub :
          /\ n <= MaxTodo
          /\ row' = [row EXCEPT !.plan = "good", !.todo = n, !.done = FALSE]
          /\ StartSet(w, n, "commit")
    BY <1>8 DEF Planned
  <2>2. n \in 0..(MaxTodo + MaxSub) /\ n \in 0..MaxTodo
    BY <2>1, LimitsAssumption
  <2>3. wk' \in [Workers -> WorkerRecord] /\ ControlOK'
    BY <2>1, <2>2, StartSetType
  <2>4. row' \in Rows
    BY <2>1, <2>2 DEF TypeOK, Rows
  <2> QED BY <1>8, <2>3, <2>4 DEF Planned, TypeOK
<1>9. CASE PlannerExhausted(w)
  <2>1. block_current(st) \in State
    BY HelperTypes DEF TypeOK
  <2> QED BY <1>9, <2>1, RaiseType DEF PlannerExhausted, TypeOK
<1> QED BY <1>1, <1>2, <1>3, <1>4, <1>5, <1>6, <1>7, <1>8, <1>9 DEF PlanStep

LEMMA SubtaskStepType ==
  ASSUME TypeInv, NEW w \in Workers, SubtaskStep(w)
  PROVE  TypeInv'
<1> USE DEF TypeInv, github, daemon, ghosts
<1>0. /\ wk[w] \in WorkerRecord /\ InControl(wk[w])
      /\ {"sub", "doing", "check", "cycle", "commit", "audit"} \subseteq PCs
  BY DEF TypeOK, ControlOK, PCs
<1>1. CASE SubtaskDo(w)
  <2> DEFINE r == [wk[w] EXCEPT !.pc = "doing"]
  <2>1. r \in WorkerRecord
    BY <1>0 DEF WorkerRecord
  <2>2. InControl(r)
    BY <1>0, <1>1 DEF SubtaskDo, At, InControl, WorkerRecord
  <2> QED BY <1>1, <2>1, <2>2, BecomeType, HelperTypes DEF SubtaskDo, Goto, TypeOK
<1>2. CASE SubtaskCheck(w)
  <2> DEFINE r == [wk[w] EXCEPT !.pc = "check"]
  <2>1. r \in WorkerRecord
    BY <1>0 DEF WorkerRecord
  <2>2. InControl(r)
    BY <1>0, <1>2 DEF SubtaskCheck, At, InControl, WorkerRecord
  <2> QED BY <1>2, <2>1, <2>2, BecomeType, HelperTypes DEF SubtaskCheck, Goto, TypeOK
<1>3. CASE SubtaskPass(w)
  <2> DEFINE r == [wk[w] EXCEPT !.pc = "sub", !.left = @ - 1, !.att = 0]
  <2>1. wk[w].left - 1 \in 0..(MaxTodo + MaxSub) /\ 0 \in 0..MaxAttempts
    BY <1>0, <1>3, LimitsAssumption DEF SubtaskPass, At, InControl, WorkerRecord
  <2>2. r \in WorkerRecord
    BY <1>0, <2>1 DEF WorkerRecord
  <2>3. InControl(r)
    BY <1>0, <1>3 DEF SubtaskPass, At, InControl, WorkerRecord
  <2>4. wk' \in [Workers -> WorkerRecord] /\ ControlOK'
    BY <1>3, <2>2, <2>3, BecomeType DEF SubtaskPass
  <2>5. row.todo > 0 => row.todo - 1 \in 0..MaxTodo
    BY LimitsAssumption DEF TypeOK, Rows
  <2>6. row' \in Rows
    BY <1>3, <2>5 DEF SubtaskPass, TypeOK, Rows
  <2> QED BY <1>3, <2>4, <2>6, HelperTypes DEF SubtaskPass, TypeOK, HeadMoves
<1>4. CASE SubtaskTransient(w)
  <2> DEFINE r == [wk[w] EXCEPT !.pc = "sub"]
  <2>1. r \in WorkerRecord
    BY <1>0 DEF WorkerRecord
  <2>2. InControl(r)
    BY <1>0, <1>4 DEF SubtaskTransient, At, InControl, WorkerRecord
  <2> QED BY <1>4, <2>1, <2>2, BecomeType, HelperTypes
          DEF SubtaskTransient, Goto, TypeOK, HeadMoves
<1>5. CASE SubtaskFail(w)
  <2> DEFINE r == [wk[w] EXCEPT !.pc = "sub", !.att = @ + 1]
  <2>1. wk[w].att + 1 \in 0..MaxAttempts
    BY <1>0, <1>5, LimitsAssumption DEF SubtaskFail, At, InControl, WorkerRecord
  <2>2. r \in WorkerRecord
    BY <1>0, <2>1 DEF WorkerRecord
  <2>3. InControl(r)
    BY <1>0, <1>5 DEF SubtaskFail, At, InControl, WorkerRecord
  <2> QED BY <1>5, <2>2, <2>3, BecomeType, HelperTypes DEF SubtaskFail, TypeOK
<1>6. CASE SubtaskBlocked(w)
  BY <1>6, BlockedType DEF SubtaskBlocked, TypeOK
<1>7. CASE SubtasksDone(w)
  <2> DEFINE again == [wk[w] EXCEPT !.pc = "cycle", !.cyc = @ + 1, !.res = {}, !.ret = "commit"]
             back  == [wk[w] EXCEPT !.pc = wk[w].ret, !.ret = "commit"]
  <2>1. CASE wk[w].ret = "cycle"
    <3>1. wk[w].cyc + 1 \in 0..(MaxCycles + 1)
      BY <1>0, <1>7, <2>1, LimitsAssumption DEF SubtasksDone, At, InControl, WorkerRecord
    <3>2. again \in WorkerRecord
      BY <1>0, <3>1 DEF WorkerRecord
    <3>3. InControl(again)
      BY <1>0 DEF InControl, WorkerRecord
    <3> QED BY <1>7, <2>1, <3>2, <3>3, BecomeType DEF SubtasksDone, TypeOK
  <2>2. CASE wk[w].ret # "cycle"
    <3>1. wk[w].ret \in {"commit", "audit"}
      BY <1>0, <2>2 DEF WorkerRecord
    <3>2. back \in WorkerRecord
      BY <1>0, <3>1 DEF WorkerRecord
    <3>3. InControl(back)
      BY <1>0, <3>1 DEF InControl, WorkerRecord
    <3> QED BY <1>7, <2>2, <3>2, <3>3, BecomeType DEF SubtasksDone, TypeOK
  <2> QED BY <2>1, <2>2
<1>8. CASE Commit(w)
  <2>1. FastForward(st) \in State
    BY HelperTypes DEF FastForward, TypeOK
  <2> QED BY <1>8, <2>1, GotoType DEF Commit, TypeOK, PCs
<1>9. CASE SubtaskReconciles(w)
  BY <1>9 DEF SubtaskReconciles, HeadMoves, TypeOK, ControlOK
<1> QED BY <1>1, <1>2, <1>3, <1>4, <1>5, <1>6, <1>7, <1>8, <1>9 DEF SubtaskStep

LEMMA AdvanceAuditType ==
  ASSUME NEW s \in State, NEW i \in 1..5
  PROVE  AdvanceAudit(s, i) \in State
<1>1. enter_audit_local_ci(s) \in State
  BY HelperTypes
<1>2. \A x : audit_stage_passed(s, x) \in State
                /\ audit_stage_passed(enter_audit_local_ci(s), x) \in State
  BY <1>1, HelperTypes
<1> QED BY <1>2 DEF AdvanceAudit

LEMMA RecordStageType ==
  ASSUME TypeInv, NEW cycle \in 0..MaxCycles, NEW stage \in Stages, NEW passed \in BOOLEAN
  PROVE  RecordStage(cycle, stage, passed) \in Rows
<1> DEFINE before == IF row.cycle = cycle THEN row.passed ELSE {}
           after  == IF passed THEN before \cup {stage} ELSE before \ {stage}
<1>1. row \in Rows /\ after \in SUBSET Stages
  BY DEF TypeInv, TypeOK, Rows
<1>2. RecordStage(cycle, stage, passed) = [row EXCEPT !.cycle = cycle, !.passed = after]
  BY DEF RecordStage
<1> HIDE DEF after
<1> QED BY <1>1, <1>2 DEF Rows

LEMMA StageOverType ==
  ASSUME TypeInv, NEW w \in Workers, At(w, "stage"),
         NEW failed \in SUBSET Stages, StageOver(w, wk[w].ran + 1, failed)
  PROVE  wk' \in [Workers -> WorkerRecord] /\ ControlOK'
<1> DEFINE pc == IF wk[w].ran + 1 = 5 THEN "settle" ELSE "stage"
           r == [wk[w] EXCEPT !.pc = pc, !.ran = wk[w].ran + 1, !.failed = failed]
<1>1. wk[w] \in WorkerRecord /\ InControl(wk[w])
  BY DEF TypeInv, TypeOK, ControlOK
<1>2. /\ wk[w].ran + 1 \in 0..5 /\ pc \in PCs
      /\ pc = "stage" => wk[w].ran + 1 < 5
      /\ wk[w].cyc <= MaxCycles
  BY <1>1 DEF At, InControl, WorkerRecord, PCs
<1>3. pc \in {"settle", "stage"}
  OBVIOUS
<1>4. Become(w, r)
  BY DEF StageOver
<1> HIDE DEF pc
<1>5. r \in WorkerRecord
  BY <1>1, <1>2 DEF WorkerRecord
<1>6. r.pc = pc /\ r.ran = wk[w].ran + 1 /\ r.cyc = wk[w].cyc
  BY <1>1 DEF WorkerRecord
<1> HIDE DEF r
<1>7. InControl(r)
  BY <1>2, <1>3, <1>6 DEF InControl
<1> QED BY <1>4, <1>5, <1>7, BecomeType

LEMMA AuditStepType ==
  ASSUME TypeInv, NEW w \in Workers, AuditStep(w)
  PROVE  TypeInv'
<1> USE DEF TypeInv, github, daemon, ghosts
<1>0. /\ wk[w] \in WorkerRecord /\ InControl(wk[w])
      /\ {"cycle", "stage", "fixup"} \subseteq PCs
      /\ 0 \in 0..5 /\ {} \in SUBSET Stages
  BY DEF TypeOK, ControlOK, PCs
<1>a. ASSUME At(w, "stage")
      PROVE  /\ wk[w].ran + 1 \in 1..5 /\ wk[w].cyc \in 0..MaxCycles
             /\ StageOrder[wk[w].ran + 1] \in Stages
             /\ wk[w].failed \in SUBSET Stages
  <2>1. wk[w].ran \in 0..4 /\ wk[w].cyc \in 0..MaxCycles
    BY <1>0, <1>a, LimitsAssumption DEF At, InControl, WorkerRecord
  <2>2. \A i \in 1..5 : StageOrder[i] \in Stages
    BY DEF StageOrder, Stages
  <2> QED BY <1>0, <2>1, <2>2 DEF WorkerRecord
<1>1. CASE AuditStart(w)
  <2> DEFINE resumable == row.cycle \in 1..MaxCycles /\ row.passed # {}
             cyc == IF resumable THEN row.cycle ELSE 1
             res == IF resumable THEN row.passed ELSE {}
             r == [wk[w] EXCEPT !.pc = "cycle", !.cyc = cyc, !.res = res]
  <2>1. cyc \in 0..(MaxCycles + 1) /\ res \in SUBSET Stages
    BY LimitsAssumption DEF TypeOK, Rows
  <2>2. Become(w, r)
    BY <1>1 DEF AuditStart
  <2> HIDE DEF cyc, res
  <2>3. r \in WorkerRecord
    BY <1>0, <2>1 DEF WorkerRecord
  <2>4. InControl(r)
    BY <1>0 DEF InControl, WorkerRecord
  <2>5. st' \in State
    BY <1>1, HelperTypes DEF AuditStart, TypeOK
  <2> QED BY <1>1, <2>2, <2>3, <2>4, <2>5, BecomeType DEF AuditStart, TypeOK
<1>2. CASE CyclesExhausted(w)
  BY <1>2, BlockedType DEF CyclesExhausted, TypeOK
<1>3. CASE BootstrapBlocked(w)
  <2>1. wk[w].cyc \in 0..MaxCycles
    BY <1>0, <1>3, LimitsAssumption DEF BootstrapBlocked, WorkerRecord
  <2>2. row' \in Rows
    BY <1>3, <2>1 DEF BootstrapBlocked, TypeOK, Rows
  <2>3. ReturnBlocked(w)
    BY <1>3 DEF BootstrapBlocked
  <2>4. stale' \in BOOLEAN /\ owed' \in BOOLEAN
    BY <1>3 DEF BootstrapBlocked, TypeOK
  <2> QED BY <1>3, <2>2, <2>3, <2>4, BlockedType DEF BootstrapBlocked, TypeOK
<1>4. CASE CycleStart(w)
  <2> DEFINE r == [wk[w] EXCEPT !.pc = "stage", !.ran = 0, !.failed = {}]
  <2>1. wk[w].cyc \in 0..MaxCycles
    BY <1>0, <1>4, LimitsAssumption DEF CycleStart, WorkerRecord
  <2>2. r \in WorkerRecord
    BY <1>0 DEF WorkerRecord
  <2>3. InControl(r)
    BY <1>0, <2>1, LimitsAssumption DEF InControl, WorkerRecord
  <2>4. row' \in Rows
    BY <1>4, <2>1 DEF CycleStart, TypeOK, Rows
  <2>5. st' \in State
    BY <1>4, HelperTypes DEF CycleStart, TypeOK
  <2>6. Become(w, r) /\ stale' \in BOOLEAN
    BY <1>4 DEF CycleStart
  <2>7. wk' \in [Workers -> WorkerRecord] /\ ControlOK'
    BY <2>2, <2>3, <2>6, BecomeType
  <2> QED BY <1>4, <2>4, <2>5, <2>6, <2>7 DEF CycleStart, TypeOK
<1>5. CASE StageReused(w)
  <2>1. At(w, "stage") /\ StageOver(w, wk[w].ran + 1, wk[w].failed)
    BY <1>5 DEF StageReused
  <2>2. wk' \in [Workers -> WorkerRecord] /\ ControlOK'
    BY <1>a, <2>1, StageOverType
  <2>3. st' \in State
    BY <1>5, <1>a, <2>1, AdvanceAuditType DEF StageReused, TypeOK
  <2> QED BY <1>5, <2>2, <2>3 DEF StageReused, TypeOK
<1>6. CASE StagePasses(w)
  <2>1. At(w, "stage") /\ StageOver(w, wk[w].ran + 1, wk[w].failed)
    BY <1>6 DEF StagePasses
  <2>2. wk' \in [Workers -> WorkerRecord] /\ ControlOK'
    BY <1>a, <2>1, StageOverType
  <2>3. st' \in State
    BY <1>6, <1>a, <2>1, AdvanceAuditType DEF StagePasses, TypeOK
  <2>4. row' \in Rows
    BY <1>6, <1>a, <2>1, RecordStageType DEF StagePasses
  <2>5. stale' \in BOOLEAN
    BY <1>6 DEF StagePasses
  <2>6. UNCHANGED <<pr, github, daemon, work, owed>>
    BY <1>6 DEF StagePasses
  <2> QED BY <2>2, <2>3, <2>4, <2>5, <2>6 DEF TypeOK
<1>7. CASE StageFails(w)
  <2> DEFINE failed == wk[w].failed \cup {StageOrder[wk[w].ran + 1]}
  <2>1. At(w, "stage") /\ StageOver(w, wk[w].ran + 1, failed)
    BY <1>7 DEF StageFails
  <2>2. failed \in SUBSET Stages
    BY <1>a, <2>1
  <2>3. wk' \in [Workers -> WorkerRecord] /\ ControlOK'
    BY <2>1, <2>2, StageOverType
  <2>4. row' \in Rows
    BY <1>7, <1>a, <2>1, RecordStageType DEF StageFails
  <2>5. stale' \in BOOLEAN
    BY <1>7 DEF StageFails
  <2>6. UNCHANGED <<st, pr, github, daemon, work, owed>>
    BY <1>7 DEF StageFails
  <2> QED BY <2>3, <2>4, <2>5, <2>6 DEF TypeOK
<1>8. CASE StageShutdown(w)
  BY <1>8, GotoType, ReturnType DEF StageShutdown, TypeOK, PCs
<1>9. ASSUME AuditSettled(w)
      PROVE  st' \in State /\ wk' \in [Workers -> WorkerRecord] /\ ControlOK'
  BY <1>9, GotoType, HelperTypes DEF AuditSettled, TypeOK, PCs
<1>10. CASE SettlePassed(w)
  BY <1>9, <1>10 DEF SettlePassed, TypeOK
<1>11. CASE SettleDeferred(w)
  BY <1>9, <1>11 DEF SettleDeferred, TypeOK
<1>12. CASE SettleStructural(w)
  BY <1>12, BlockedType DEF SettleStructural, TypeOK
<1>13. CASE SettleFixup(w)
  <2> DEFINE r == [wk[w] EXCEPT !.pc = "fixup", !.ret = "cycle", !.res = {}, !.ran = 0,
                                !.failed = {}]
  <2>1. r \in WorkerRecord
    BY <1>0 DEF WorkerRecord
  <2>2. InControl(r)
    BY <1>0, <1>13 DEF SettleFixup, At, InControl, WorkerRecord
  <2> QED BY <1>13, <2>1, <2>2, BecomeType, HelperTypes DEF SettleFixup, TypeOK
<1>14. CASE FixupPlanned(w)
  <2>1. PICK n \in 0..MaxSub :
          /\ row.todo + n <= MaxTodo
          /\ row' = [row EXCEPT !.todo = @ + n]
          /\ StartSet(w, n, wk[w].ret)
    BY <1>14 DEF FixupPlanned
  <2>2. n \in 0..(MaxTodo + MaxSub) /\ row.todo + n \in 0..MaxTodo
    BY <2>1, LimitsAssumption DEF TypeOK, Rows
  <2>3. /\ wk[w].ret \in {"commit", "cycle", "audit"}
        /\ wk[w].ret = "cycle" => wk[w].cyc <= MaxCycles
    BY <1>0, <1>14 DEF FixupPlanned, At, InControl, WorkerRecord
  <2>4. wk' \in [Workers -> WorkerRecord] /\ ControlOK'
    BY <2>1, <2>2, <2>3, StartSetType
  <2>5. row' \in Rows
    BY <2>1, <2>2 DEF TypeOK, Rows
  <2> QED BY <1>14, <2>4, <2>5 DEF FixupPlanned, TypeOK
<1>15. CASE FixupRejected(w)
  BY <1>15, BlockedType DEF FixupRejected, TypeOK
<1> QED
  BY <1>1, <1>2, <1>3, <1>4, <1>5, <1>6, <1>7, <1>8, <1>10, <1>11, <1>12, <1>13, <1>14, <1>15
  DEF AuditStep

LEMMA PrStepType ==
  ASSUME TypeInv, NEW w \in Workers, PrStep(w)
  PROVE  TypeInv'
<1> USE DEF TypeInv, github, daemon, ghosts
<1>0. wk[w] \in WorkerRecord /\ InControl(wk[w]) /\ "fixup" \in PCs
  BY DEF TypeOK, ControlOK, PCs
<1>1. CASE OpenPr(w)
  <2> DEFINE pc == IF pr THEN "pollstart" ELSE "create"
  <2>1. Thread(pc, "task") \in WorkerRecord /\ InControl(Thread(pc, "task"))
    BY ThreadType DEF PCs, Jobs
  <2> QED BY <1>1, <2>1, BecomeType, HelperTypes DEF OpenPr, TypeOK
<1>2. CASE CreatePr(w)
  BY <1>2, GotoType DEF CreatePr, TypeOK, PCs
<1>3. CASE RecordPr(w)
  BY <1>3, GotoType DEF RecordPr, TypeOK, PCs
<1>4. CASE PollStart(w)
  <2>1. Thread("poll", "task") \in WorkerRecord /\ InControl(Thread("poll", "task"))
    BY ThreadType DEF PCs, Jobs
  <2> QED BY <1>4, <2>1, BecomeType, HelperTypes DEF PollStart, TypeOK
<1>5. CASE PollTerminal(w)
  BY <1>5, ReturnType DEF PollTerminal, TypeOK
<1>6. CASE PollMerged(w)
  BY <1>6, ReturnType, HelperTypes DEF PollMerged, TypeOK
<1>7. CASE PollClosed(w)
  <2>1. st' \in State
    BY <1>7, HelperTypes, FireType DEF PollClosed, TypeOK
  <2> QED BY <1>7, <2>1, ReturnType DEF PollClosed, TypeOK
<1>8. CASE PollConflict(w)
  BY <1>8, GotoType, HelperTypes DEF PollConflict, TypeOK, PCs
<1>9. CASE PollConflictNoContainer(w)
  <2>1. enter_rebasing_to_main(st) \in State
    BY HelperTypes DEF TypeOK
  <2> QED BY <1>9, <2>1, RaiseType DEF PollConflictNoContainer, TypeOK
<1>10. CASE PollCiFails(w)
  <2> DEFINE r == [wk[w] EXCEPT !.pc = "fixup", !.trig = "ci", !.ret = "audit", !.tries = @ + 1]
  <2>1. wk[w].tries + 1 \in 0..CiBudget
    BY <1>0, <1>10, LimitsAssumption DEF PollCiFails, WorkerRecord
  <2>2. r \in WorkerRecord
    BY <1>0, <2>1 DEF WorkerRecord
  <2>3. InControl(r)
    BY <1>0 DEF InControl, WorkerRecord
  <2>4. st' \in State
    BY <1>10, HelperTypes DEF PollCiFails, TypeOK
  <2> QED BY <1>10, <2>2, <2>3, <2>4, BecomeType DEF PollCiFails, TypeOK
<1>11. CASE PollGreen(w)
  BY <1>11, ReturnType DEF PollGreen, TypeOK
<1>12. CASE PollBudgetSpent(w)
  BY <1>12, RaiseType DEF PollBudgetSpent, TypeOK
<1>13. CASE FeedbackStart(w)
  <2> DEFINE r == [wk[w] EXCEPT !.pc = "fixup", !.trig = wk[w].job, !.ret = "audit"]
  <2>1. StartTask(st) \in State
    BY HelperTypes DEF TypeOK
  <2>2. CASE row.wt
    <3>1. wk[w].job \in {"review", "ci"}
      BY <1>0, <1>13 DEF FeedbackStart, At, InControl
    <3>2. r \in WorkerRecord
      BY <1>0, <3>1 DEF WorkerRecord
    <3>3. InControl(r)
      BY <1>0 DEF InControl, WorkerRecord
    <3>4. st' \in State
      BY <1>13, <2>1, <2>2, HelperTypes DEF FeedbackStart
    <3> QED BY <1>13, <2>2, <3>2, <3>3, <3>4, BecomeType DEF FeedbackStart, TypeOK
  <2>3. CASE ~row.wt
    BY <1>13, <2>1, <2>3, RaiseType DEF FeedbackStart, TypeOK
  <2> QED BY <2>2, <2>3
<1>14. CASE FeedbackDone(w)
  <2>1. row.round < RoundsMax => row.round + 1 \in 0..RoundsMax
    BY LimitsAssumption DEF TypeOK, Rows
  <2>2. row' \in Rows
    BY <1>14, <2>1 DEF FeedbackDone, TypeOK, Rows
  <2> QED BY <1>14, <2>2, ReturnType, HelperTypes DEF FeedbackDone, TypeOK
<1> QED
  BY <1>1, <1>2, <1>3, <1>4, <1>5, <1>6, <1>7, <1>8, <1>9, <1>10, <1>11, <1>12, <1>13, <1>14
  DEF PrStep

LEMMA RebaseStepType ==
  ASSUME TypeInv, NEW w \in Workers, RebaseStep(w)
  PROVE  TypeInv'
<1> USE DEF TypeInv, github, daemon, ghosts
<1>1. CASE RebaseStart(w)
  <2>1. StartTask(st) \in State
    BY HelperTypes DEF TypeOK
  <2> QED BY <1>1, <2>1, GotoType, RaiseType DEF RebaseStart, TypeOK, PCs
<1>2. CASE RebaseFetchFails(w)
  BY <1>2, ReturnType, HelperTypes DEF RebaseFetchFails, TypeOK
<1>3. ASSUME Rebased(w)
      PROVE  TypeInv'
  BY <1>3, GotoType, HelperTypes DEF Rebased, TypeOK, PCs, HeadMoves
<1>4. CASE RebaseClean(w)
  BY <1>3, <1>4 DEF RebaseClean
<1>5. CASE RebaseConflicts(w)
  BY <1>5, GotoType, HelperTypes DEF RebaseConflicts, TypeOK, PCs
<1>6. CASE ConflictResolved(w)
  BY <1>3, <1>6 DEF ConflictResolved
<1>7. CASE RebaseBlocked(w)
  BY <1>7, ReturnType, HelperTypes DEF RebaseBlocked, TypeOK
<1>8. CASE RebaseFinish(w)
  <2>1. st' \in State
    BY <1>8, HelperTypes DEF RebaseFinish, TypeOK
  <2>2. pr' \in BOOLEAN /\ gh' \in {"none", "open", "merged", "closed"}
    BY <1>8 DEF RebaseFinish, TypeOK
  <2>3. wk' \in [Workers -> WorkerRecord] /\ ControlOK'
    BY <1>8, ReturnType DEF RebaseFinish
  <2> QED BY <1>8, <2>1, <2>2, <2>3 DEF RebaseFinish, TypeOK
<1> QED BY <1>1, <1>2, <1>4, <1>5, <1>6, <1>7, <1>8 DEF RebaseStep

LEMMA WorkerStepType ==
  ASSUME TypeInv, NEW w \in Workers, WorkerStep(w)
  PROVE  TypeInv'
<1>1. CASE WorkerRaises(w)
  BY <1>1, RaiseType DEF WorkerRaises, TypeInv, TypeOK, github, daemon, ghosts
<1>2. CASE Teardown(w)
  <2>1. row' \in Rows
    BY <1>2 DEF Teardown, TypeInv, TypeOK, Rows
  <2>2. Thread("done", "none") \in WorkerRecord /\ InControl(Thread("done", "none"))
    BY ThreadType DEF PCs, Jobs
  <2>3. wk' \in [Workers -> WorkerRecord] /\ ControlOK'
    BY <1>2, <2>2, BecomeType DEF Teardown
  <2> QED BY <1>2, <2>1, <2>3 DEF Teardown, TypeInv, TypeOK, github, daemon, ghosts
<1> QED
  BY <1>1, <1>2, PlanStepType, SubtaskStepType, AuditStepType, PrStepType, RebaseStepType
  DEF WorkerStep

LEMMA LoopStepType ==
  ASSUME TypeInv, LoopStep
  PROVE  TypeInv'
<1> USE DEF TypeInv, github, daemon, ghosts
<1>0. Thread("idle", "none") \in WorkerRecord /\ InControl(Thread("idle", "none"))
  BY ThreadType DEF PCs, Jobs
<1>1. ASSUME NEW w \in Workers, Dispatch(w) PROVE TypeInv'
  BY <1>1, SubmitType DEF Dispatch, TypeOK, PCs, Jobs
<1>2. ASSUME NEW w \in Workers, Reap(w) \/ Forgotten(w) PROVE TypeInv'
  BY <1>0, <1>2, BecomeType DEF Reap, Forgotten, TypeOK
<1>3. ASSUME NEW w \in Workers, WatchConflict(w) PROVE TypeInv'
  BY <1>3, SubmitType, HelperTypes DEF WatchConflict, TypeOK, PCs, Jobs
<1>4. ASSUME NEW w \in Workers, WatchCiFails(w) PROVE TypeInv'
  BY <1>4, SubmitType DEF WatchCiFails, TypeOK, PCs, Jobs
<1>5. ASSUME NEW w \in Workers, WatchChanges(w) PROVE TypeInv'
  BY <1>5, SubmitType DEF WatchChanges, TypeOK, PCs, Jobs
<1>6. CASE WatchMerged
  BY <1>6, HelperTypes, FireType DEF WatchMerged, TypeOK, ControlOK
<1>7. CASE BridgeMerged
  BY <1>7, FireType DEF BridgeMerged, TypeOK, ControlOK
<1>8. CASE WatchClosed
  BY <1>8, FireType DEF WatchClosed, TypeOK, ControlOK
<1>9. CASE WatchCiPasses
  BY <1>9, HelperTypes DEF WatchCiPasses, TypeOK, ControlOK
<1>10. CASE WatchRoundsExhausted
  BY <1>10, HelperTypes DEF WatchRoundsExhausted, TypeOK, ControlOK
<1>11. CASE WatchApproval
  BY <1>11 DEF WatchApproval, TypeOK, ControlOK
<1>12. CASE StallDetect
  BY <1>12 DEF StallDetect, TypeOK, ControlOK
<1>13. CASE StallRecover
  BY <1>13, HelperTypes DEF StallRecover, TypeOK, ControlOK
<1> QED
  BY <1>1, <1>2, <1>3, <1>4, <1>5, <1>6, <1>7, <1>8, <1>9, <1>10, <1>11, <1>12, <1>13
  DEF LoopStep

LEMMA ProcessStepType ==
  ASSUME TypeInv, ProcessStep
  PROVE  TypeInv'
<1> USE DEF TypeInv, github, daemon, ghosts
<1>1. CASE StopRequested
  BY <1>1 DEF StopRequested, TypeOK, ControlOK
<1>2. CASE Exit \/ Killed
  <2>1. Thread("idle", "none") \in WorkerRecord /\ InControl(Thread("idle", "none"))
    BY ThreadType DEF PCs, Jobs
  <2>2. wk' = [w \in Workers |-> Thread("idle", "none")]
    BY <1>2 DEF Exit, Killed, ProcessGone
  <2>3. wk' \in [Workers -> WorkerRecord] /\ ControlOK'
    BY <2>1, <2>2 DEF ControlOK, InControl
  <2> QED BY <1>2, <2>3 DEF Exit, Killed, ProcessGone, TypeOK
<1>3. ASSUME NEW retry_failed \in BOOLEAN, Restart(retry_failed) PROVE TypeInv'
  <2>1. st' \in State
    BY <1>3, HelperTypes, FireType DEF Restart, TypeOK
  <2>2. row' \in Rows
    BY <1>3 DEF Restart, TypeOK, Rows
  <2> QED BY <1>3, <2>1, <2>2 DEF Restart, TypeOK, ControlOK
<1> QED BY <1>1, <1>2, <1>3 DEF ProcessStep

LEMMA OutsideStepType ==
  ASSUME TypeInv, OutsideStep
  PROVE  TypeInv'
<1> USE DEF TypeInv, github, daemon, ghosts
<1>1. CASE Retry
  BY <1>1, FireType DEF Retry, TypeOK, ControlOK, Rows
<1>2. CASE Resume
  <2>1. row' \in Rows
    BY <1>2 DEF Resume, TypeOK, Rows
  <2> QED BY <1>2, <2>1, FireType DEF Resume, TypeOK, ControlOK
<1>3. CASE Abort
  BY <1>3, FireType DEF Abort, TypeOK, ControlOK
<1>4. CASE MarkMerged
  <2>1. "PENDING" \in State /\ "MERGED" \in State
    BY DEF State, TERMINAL_STATES
  <2>2. st' \in State /\ cli' \in BOOLEAN
    BY <1>4, <2>1 DEF MarkMerged
  <2> QED BY <1>4, <2>2 DEF MarkMerged, TypeOK, ControlOK
<1>5. CASE MarkMergedFinish
  <2>1. st' \in State /\ cli' \in BOOLEAN
    BY <1>5, FireType DEF MarkMergedFinish, TypeOK
  <2> QED BY <1>5, <2>1 DEF MarkMergedFinish, TypeOK, ControlOK
<1>6. CASE SubmitReview
  BY <1>6 DEF SubmitReview, TypeOK, ControlOK
<1>8. CASE MergeOrClosePr
  BY <1>8 DEF MergeOrClosePr, TypeOK, ControlOK
<1>7. CASE RetryRefused
  <2>1. row' \in Rows
    BY <1>7 DEF RetryRefused, TypeOK, Rows
  <2> QED BY <1>7, <2>1 DEF RetryRefused, TypeOK, ControlOK
<1> QED BY <1>1, <1>2, <1>3, <1>4, <1>5, <1>6, <1>7, <1>8 DEF OutsideStep

LEMMA InitType == Init => TypeInv
<1>1. Thread("idle", "none") \in WorkerRecord /\ InControl(Thread("idle", "none"))
  BY ThreadType DEF PCs, Jobs
<1>2. ASSUME Init PROVE row \in Rows
  BY <1>2, LimitsAssumption DEF Init, Rows
<1>3. ASSUME Init PROVE wk \in [Workers -> WorkerRecord] /\ ControlOK
  BY <1>1, <1>3 DEF Init, ControlOK
<1> QED BY <1>2, <1>3 DEF Init, TypeInv, TypeOK, State

LEMMA NextType == TypeInv /\ [Next]_vars => TypeInv'
<1>1. ASSUME TypeInv, UNCHANGED vars PROVE TypeInv'
  BY <1>1 DEF vars, TypeInv, TypeOK, ControlOK
<1> QED
  BY <1>1, WorkerStepType, LoopStepType, ProcessStepType, OutsideStepType DEF Next

(***************************************************************************)
(* Type correctness, for every pool and every budget: in particular no     *)
(* audit cycle, attempt, stage or CI counter of a worker leaves its range, *)
(* and a persisted row never holds a cycle beyond the configured maximum.  *)
(***************************************************************************)
THEOREM TypeCorrect == Spec => []TypeOK
<1>1. Spec => []TypeInv
  BY InitType, NextType, PTL DEF Spec
<1> QED BY <1>1, PTL DEF TypeInv

-----------------------------------------------------------------------------
(***************************************************************************)
(* One driver, and no row under review without a pull request.             *)
(*                                                                         *)
(* Neither fact is inductive by itself.  `retry` may forget the pull       *)
(* request while a response or a rebase for it is still running, so the    *)
(* invariant says where the row can be then: in a Quiet state, which such  *)
(* a Late thread cannot move out of.  Exposed states are the ones that     *)
(* lead to review without passing through _open_pr.                        *)
(***************************************************************************)
Quiet == {"PENDING", "PROVISIONING"} \cup TERMINAL_STATES

Exposed == POST_PR_STATES \cup {"REBASING_TO_MAIN", "CONFLICT_RESOLVING"}

LatePCs == {"pollstart", "poll", "fbstart", "fbdone", "rbstart", "rebase", "resolve", "rbfinish"}

Late(r) ==
  /\ r.pc \notin {"idle", "done"}
  /\ r.trig # "initial" \/ r.job # "task" \/ r.pc \in LatePCs

EarlyPCs == {"prov", "wt", "plan"}

PublishInv ==
  /\ sup # "recover"
  /\ \A w \in Workers : wk[w].pc # "idle" => fut = w
  /\ \A w \in Workers :
       wk[w].pc \in EarlyPCs => wk[w].job = "task" /\ wk[w].trig = "initial"
  /\ ~pr => st \notin Exposed
  /\ \A w \in Workers : Late(wk[w]) /\ ~pr => st \in Quiet

Follows == [Protocol!Next]_<<Phase, pr>>

(* What the helpers do to a state, closed under composition.               *)
Calm(s, t) ==
  /\ s \in TERMINAL_STATES \cup {"MERGE_NODE_READY"} => t = s
  /\ s \in {"PENDING", "PROVISIONING"} => t \in Quiet
  /\ t \in Exposed => s \in Exposed
  /\ t = "PENDING" => s = "PENDING"

(* The moves TaskProtocol allows between phases.                           *)
Moves(s, t) ==
  /\ s = "PENDING" => t \notin POST_PR_STATES
  /\ s \in POST_PR_STATES => t # "PENDING"
  /\ s \in RETRYABLE_STATES => t \notin ACTIVE_STATES \cup POST_PR_STATES
  /\ s \in {"MERGED", "MERGE_NODE_READY", "MERGE_NODE_RETIRED"} =>
       t \in {"MERGED", "MERGE_NODE_READY", "MERGE_NODE_RETIRED"}

LEMMA CalmComposes ==
  ASSUME NEW s \in State, NEW t \in State, NEW u \in State, Calm(s, t), Calm(t, u)
  PROVE  Calm(s, u)
  BY DEF Calm, Quiet

LEMMA CalmMoves ==
  ASSUME NEW s \in State, NEW t \in State, Calm(s, t)
  PROVE  Moves(s, t)
  BY DEF Calm, Moves, Quiet, State, ACTIVE_STATES, POST_PR_STATES, RETRYABLE_STATES,
         TERMINAL_STATES, AuditStates

LEMMA CalmHelpers ==
  ASSUME NEW s \in State
  PROVE  /\ Calm(s, s)
         /\ Calm(s, enter_doing_subtask(s))
         /\ Calm(s, enter_checking_subtask(s))
         /\ Calm(s, enter_triaging_subtask(s))
         /\ Calm(s, enter_committing(s))
         /\ Calm(s, enter_pushing(s))
         /\ Calm(s, enter_local_ci_checking(s))
         /\ Calm(s, enter_audit_local_ci(s))
         /\ \A x : Calm(s, audit_stage_passed(s, x))
         /\ Calm(s, enter_fixup_planning(s))
         /\ Calm(s, enter_pr_opening(s))
         /\ s # "PR_OPENING" => Calm(s, enter_pending_ci(s))
         /\ Calm(s, enter_awaiting_review(s))
         /\ Calm(s, enter_audit_cycle_for_ci_fixup(s))
         /\ Calm(s, enter_audit_cycle_for_review_fixup(s))
         /\ Calm(s, enter_conflict_resolving(s))
         /\ Calm(s, block_current(s))
         /\ Calm(s, safe_crash_current(s))
         /\ Calm(s, StartTask(s))
<1> USE DEF Calm, Quiet, Exposed, State, AuditStates, ACTIVE_STATES, TERMINAL_STATES,
            POST_PR_STATES, RETRYABLE_STATES, Fire, Raises, Invalid, target_for_event, NextStage
<1>1. Calm(s, s)
  OBVIOUS
<1>2. Calm(s, enter_doing_subtask(s))
  BY DEF enter_doing_subtask
<1>3. Calm(s, enter_checking_subtask(s)) /\ Calm(s, enter_triaging_subtask(s))
  BY DEF enter_checking_subtask, enter_triaging_subtask
<1>4. Calm(s, enter_committing(s)) /\ Calm(s, enter_pushing(s))
  BY DEF enter_committing, enter_pushing
<1>5. Calm(s, enter_local_ci_checking(s))
  BY DEF enter_local_ci_checking
<1>6. Calm(s, enter_audit_local_ci(s))
  BY DEF enter_audit_local_ci
<1>7. \A x : Calm(s, audit_stage_passed(s, x))
  BY DEF audit_stage_passed
<1>8. Calm(s, enter_fixup_planning(s))
  BY DEF enter_fixup_planning
<1>9. Calm(s, enter_pr_opening(s))
  BY <1>7 DEF enter_pr_opening
<1>10. s # "PR_OPENING" => Calm(s, enter_pending_ci(s))
  BY DEF enter_pending_ci
<1>11. Calm(s, enter_awaiting_review(s))
  BY DEF enter_awaiting_review
<1>12. Calm(s, enter_audit_cycle_for_ci_fixup(s))
  BY DEF enter_audit_cycle_for_ci_fixup
<1>13. Calm(s, enter_audit_cycle_for_review_fixup(s))
  BY DEF enter_audit_cycle_for_review_fixup
<1>14. Calm(s, enter_conflict_resolving(s))
  BY DEF enter_conflict_resolving
<1>15. Calm(s, block_current(s))
  BY DEF block_current
<1>16. Calm(s, safe_crash_current(s))
  BY DEF safe_crash_current
<1>17. Calm(s, StartTask(s))
  BY DEF StartTask
<1> QED
  BY <1>1, <1>2, <1>3, <1>4, <1>5, <1>6, <1>7, <1>8, <1>9, <1>10, <1>11, <1>12, <1>13, <1>14,
     <1>15, <1>16, <1>17

(* A step between allowed phases that leaves pr alone is a protocol step.  *)
LEMMA MovesFollows ==
  ASSUME TypeOK, TypeOK', Moves(st, st'), pr' = pr, st' \in POST_PR_STATES => pr
  PROVE  Follows
<1>1. pr' = pr /\ pr \in BOOLEAN /\ st \in State /\ st' \in State
  BY DEF TypeOK
<1>2. CASE st' \in POST_PR_STATES
  BY <1>1, <1>2 DEF Follows, Phase, Moves, Protocol!Next, Protocol!EnterReview,
     State, AuditStates, ACTIVE_STATES, TERMINAL_STATES, POST_PR_STATES, RETRYABLE_STATES
<1>3. CASE st' \in ACTIVE_STATES
  BY <1>1, <1>3 DEF Follows, Phase, Moves, Protocol!Next, Protocol!Start,
     State, AuditStates, ACTIVE_STATES, TERMINAL_STATES, POST_PR_STATES, RETRYABLE_STATES
<1>4. CASE st' \in RETRYABLE_STATES
  BY <1>1, <1>4 DEF Follows, Phase, Moves, Protocol!Next, Protocol!Stop,
     State, AuditStates, ACTIVE_STATES, TERMINAL_STATES, POST_PR_STATES, RETRYABLE_STATES
<1>5. CASE st' = "PENDING"
  BY <1>1, <1>5 DEF Follows, Phase, Moves, Protocol!Next, Protocol!Requeue,
     State, AuditStates, ACTIVE_STATES, TERMINAL_STATES, POST_PR_STATES, RETRYABLE_STATES
<1>6. CASE st' \in {"MERGED", "MERGE_NODE_READY", "MERGE_NODE_RETIRED"}
  BY <1>1, <1>6 DEF Follows, Phase, Protocol!Next, Protocol!Merge,
     State, AuditStates, ACTIVE_STATES, TERMINAL_STATES, POST_PR_STATES, RETRYABLE_STATES
<1> QED BY <1>1, <1>2, <1>3, <1>4, <1>5, <1>6 DEF State, TERMINAL_STATES, RETRYABLE_STATES

(***************************************************************************)
(* How a thread may move the row: calmly; or as the protocol allows while  *)
(* the pull request is on record; or, when it is not a Late thread and     *)
(* enters no exposed state, as the protocol allows.                        *)
(***************************************************************************)
Fits(r, t) ==
  \/ Calm(st, t)
  \/ pr /\ Moves(st, t)
  \/ ~Late(r) /\ Moves(st, t) /\ t \notin Exposed

LEMMA WorkerKeeps ==
  ASSUME TypeOK, TypeOK', PublishInv, NEW w \in Workers, wk[w].pc # "idle",
         NEW r, Become(w, r), UNCHANGED <<pr, sup, fut>>, Fits(r, st'),
         Late(r) => pr \/ Late(wk[w]),
         r.pc \in EarlyPCs => r.job = "task" /\ r.trig = "initial"
  PROVE  PublishInv' /\ Follows
<1>1. fut = w /\ \A v \in Workers : v # w => wk[v].pc = "idle" /\ wk'[v] = wk[v]
  BY DEF PublishInv, Become, TypeOK
<1>2. wk'[w] = r
  BY DEF Become, TypeOK
<1>3. ~pr => st' \notin Exposed
  BY DEF PublishInv, Calm, Fits
<1>4. ASSUME ~pr, Late(r) PROVE st' \in Quiet
  BY <1>4 DEF PublishInv, Calm, Quiet, Fits
<1>5. ASSUME NEW v \in Workers, v # w PROVE ~Late(wk'[v]) /\ wk'[v].pc = "idle"
  BY <1>1, <1>5 DEF Late
<1>6. PublishInv'
  BY <1>1, <1>2, <1>3, <1>4, <1>5 DEF PublishInv, EarlyPCs
<1>7. Moves(st, st')
  BY CalmMoves DEF TypeOK, Fits
<1>8. st' \in POST_PR_STATES => pr
  BY <1>3 DEF Exposed
<1> QED BY <1>6, <1>7, <1>8, MovesFollows

(* A step inside the pipeline that keeps the thread's job.                 *)
LEMMA StayKeeps ==
  ASSUME TypeInv, TypeOK', PublishInv, NEW w \in Workers, wk[w].pc \notin {"idle", "done"},
         NEW r, Become(w, r), UNCHANGED <<pr, sup, fut>>, Calm(st, st'),
         r.job = wk[w].job, r.trig = wk[w].trig, r.pc \notin LatePCs \cup EarlyPCs
  PROVE  PublishInv' /\ Follows
<1>1. Late(r) => Late(wk[w])
  BY DEF Late
<1> QED BY <1>1, WorkerKeeps DEF TypeInv, Fits

LEMMA GotoKeeps ==
  ASSUME TypeInv, TypeOK', PublishInv, NEW w \in Workers, wk[w].pc \notin {"idle", "done"},
         NEW pc, Goto(w, pc), UNCHANGED <<pr, sup, fut>>,
         Fits([wk[w] EXCEPT !.pc = pc], st'),
         pc \in LatePCs => pr \/ Late(wk[w]),
         pc \in EarlyPCs => wk[w].pc \in EarlyPCs
  PROVE  PublishInv' /\ Follows
<1> DEFINE r == [wk[w] EXCEPT !.pc = pc]
<1>1. wk[w] \in WorkerRecord
  BY DEF TypeInv, TypeOK
<1>2. r.pc = pc /\ r.job = wk[w].job /\ r.trig = wk[w].trig
  BY <1>1 DEF WorkerRecord
<1>3. Become(w, r) /\ Fits(r, st')
  BY DEF Goto
<1> HIDE DEF r
<1>4. Late(r) => pr \/ Late(wk[w])
  BY <1>2 DEF Late
<1>5. r.pc \in EarlyPCs => r.job = "task" /\ r.trig = "initial"
  BY <1>2 DEF PublishInv
<1> QED BY <1>3, <1>4, <1>5, WorkerKeeps DEF TypeInv

LEMMA ReturnKeeps ==
  ASSUME TypeInv, TypeOK', PublishInv, NEW w \in Workers, wk[w].pc \notin {"idle", "done"},
         Return(w), UNCHANGED <<pr, sup, fut>>,
         Calm(st, st') \/ (pr /\ Moves(st, st'))
  PROVE  PublishInv' /\ Follows
<1>1. \/ Returned(w) = Thread("done", "none") \/ Returned(w) = Thread("teardown", "task")
      \/ /\ InResponse(w)
         /\ Returned(w) = [Thread("poll", "task") EXCEPT !.tries = wk[w].tries]
  BY DEF Returned
<1>2. /\ Returned(w).pc \in {"done", "poll", "teardown"}
      /\ Returned(w).pc = "poll" => InResponse(w)
      /\ Returned(w).pc = "teardown" => Returned(w) = Thread("teardown", "task")
  BY <1>1 DEF Thread
<1>3. Late(Returned(w)) => Late(wk[w])
  BY <1>2 DEF Late, InResponse, Thread, LatePCs
<1>4. Returned(w).pc \notin EarlyPCs
  BY <1>2 DEF EarlyPCs
<1>5. Become(w, Returned(w))
  BY DEF Return
<1> QED BY <1>3, <1>4, <1>5, WorkerKeeps DEF TypeInv, Fits

(* enter_pending_ci is called by Late threads only.                        *)
LEMMA PendingCiFits ==
  ASSUME TypeOK, PublishInv, NEW w \in Workers, Late(wk[w]), NEW s \in State, Calm(st, s)
  PROVE  Calm(st, enter_pending_ci(s)) \/ (pr /\ Moves(st, enter_pending_ci(s)))
<1>1. enter_pending_ci(s) \in State
  BY HelperTypes
<1>2. CASE s # "PR_OPENING"
  BY <1>1, <1>2, CalmHelpers, CalmComposes DEF TypeOK
<1>3. CASE s = "PR_OPENING"
  <2>1. st \notin Quiet
    BY <1>3 DEF Calm, Quiet, TERMINAL_STATES
  <2>2. pr
    BY <2>1 DEF PublishInv, TypeOK
  <2>3. enter_pending_ci(s) = "PENDING_CI"
    BY <1>3 DEF enter_pending_ci, Fire, Raises, Invalid, target_for_event, AuditStates,
                POST_PR_STATES, ACTIVE_STATES, RETRYABLE_STATES
  <2>4. Moves(st, "PENDING_CI")
    BY <1>3, <2>1 DEF Calm, Moves, Quiet, TERMINAL_STATES, RETRYABLE_STATES
  <2> QED BY <2>2, <2>3, <2>4
<1> QED BY <1>2, <1>3

LEMMA BlockedKeeps ==
  ASSUME TypeInv, TypeOK', PublishInv, NEW w \in Workers, wk[w].pc \notin {"idle", "done"},
         ReturnBlocked(w), UNCHANGED <<pr, sup, fut>>
  PROVE  PublishInv' /\ Follows
<1>1. block_current(st) \in State /\ Calm(st, block_current(st))
  BY HelperTypes, CalmHelpers DEF TypeInv, TypeOK
<1>2. InResponse(w) => Late(wk[w])
  BY DEF InResponse, Late
<1>3. Calm(st, BlockedState(w)) \/ (pr /\ Moves(st, BlockedState(w)))
  BY <1>1, <1>2, PendingCiFits DEF BlockedState, TypeInv
<1> QED BY <1>3, ReturnKeeps DEF ReturnBlocked

LEMMA RaisedFits ==
  ASSUME TypeOK, PublishInv, NEW w \in Workers, wk[w].pc \notin {"idle", "done"},
         NEW s \in State, Calm(st, s)
  PROVE  Calm(st, RaisedState(w, s)) \/ (pr /\ Moves(st, RaisedState(w, s)))
<1>1. safe_crash_current(s) \in State /\ Calm(s, safe_crash_current(s))
  BY HelperTypes, CalmHelpers
<1>2. Calm(st, safe_crash_current(s))
  BY <1>1, CalmComposes DEF TypeOK
<1>3. wk[w].job # "task" \/ InResponse(w) => Late(wk[w])
  BY DEF InResponse, Late
<1> QED BY <1>2, <1>3, PendingCiFits DEF RaisedState

LEMMA RaiseKeeps ==
  ASSUME TypeInv, TypeOK', PublishInv, NEW w \in Workers, wk[w].pc \notin {"idle", "done"},
         NEW s \in State, Calm(st, s), Raise(w, s), UNCHANGED <<pr, sup, fut>>
  PROVE  PublishInv' /\ Follows
  BY RaisedFits, ReturnKeeps DEF Raise, TypeInv

LEMMA PlanStepKeeps ==
  ASSUME TypeInv, TypeOK', PublishInv, NEW w \in Workers, PlanStep(w)
  PROVE  PublishInv' /\ Follows
<1> USE DEF At, github, daemon, ghosts
<1>0. st \in State /\ wk[w] \in WorkerRecord /\ Calm(st, st)
  BY CalmHelpers DEF TypeInv, TypeOK
<1>a. ASSUME ~Raises(st, "ENVIRONMENT_READY")
      PROVE  st = "PROVISIONING" /\ Fire(st, "ENVIRONMENT_READY") = "PLANNING"
  BY <1>a DEF Raises, Fire, Invalid, target_for_event
<1>b. Moves("PROVISIONING", "PLANNING") /\ "PLANNING" \notin Exposed
  BY DEF Moves, Exposed, POST_PR_STATES, RETRYABLE_STATES
<1>c. ASSUME wk[w].pc = "plan" PROVE wk[w].job = "task" /\ wk[w].trig = "initial"
  BY <1>c DEF PublishInv, EarlyPCs
<1>1. CASE Provision(w)
  <2>1. Calm(st, st')
    BY <1>0, <1>1, CalmHelpers DEF Provision
  <2>2. Fits([wk[w] EXCEPT !.pc = "wt"], st')
    BY <2>1 DEF Fits
  <2> QED BY <1>1, <2>2, GotoKeeps DEF Provision, LatePCs, EarlyPCs
<1>2. CASE ProvisionWorktree(w)
  <2>1. Fits([wk[w] EXCEPT !.pc = "plan"], st')
    BY <1>0, <1>2 DEF ProvisionWorktree, Fits
  <2> QED BY <1>2, <2>1, GotoKeeps DEF ProvisionWorktree, LatePCs, EarlyPCs
<1>3. CASE PlanFresh(w)
  <2> DEFINE r == [wk[w] EXCEPT !.pc = "planner"]
  <2>1. r.pc = "planner" /\ r.job = "task" /\ r.trig = "initial"
    BY <1>0, <1>c, <1>3 DEF PlanFresh, WorkerRecord
  <2>2. Become(w, r)
    BY <1>3 DEF PlanFresh, Goto
  <2> HIDE DEF r
  <2>3. ~Late(r) /\ r.pc \notin EarlyPCs
    BY <2>1 DEF Late, LatePCs, EarlyPCs
  <2>4. Fits(r, st')
    BY <1>3, <1>a, <1>b, <2>3 DEF PlanFresh, Fits
  <2> QED BY <1>3, <2>2, <2>3, <2>4, WorkerKeeps DEF PlanFresh, TypeInv
<1>4. CASE PlanResumed(w)
  <2>1. PICK n : StartSet(w, n, "commit")
    BY <1>4 DEF PlanResumed
  <2> DEFINE r == [wk[w] EXCEPT !.pc = "sub", !.left = n, !.att = 0, !.ret = "commit"]
  <2>2. r.pc = "sub" /\ r.job = "task" /\ r.trig = "initial"
    BY <1>0, <1>c, <1>4 DEF PlanResumed, WorkerRecord
  <2>3. Become(w, r)
    BY <2>1 DEF StartSet
  <2> HIDE DEF r
  <2>4. ~Late(r) /\ r.pc \notin EarlyPCs
    BY <2>2 DEF Late, LatePCs, EarlyPCs
  <2>5. Fits(r, st')
    BY <1>4, <1>a, <1>b, <2>4 DEF PlanResumed, Fits
  <2> QED BY <1>4, <2>3, <2>4, <2>5, WorkerKeeps DEF PlanResumed, TypeInv
<1>5. CASE PlanUnparsable(w)
  <2>1. RaisedState(w, Fire(st, "ENVIRONMENT_READY"))
          = safe_crash_current(Fire(st, "ENVIRONMENT_READY"))
    BY <1>5, <1>c DEF PlanUnparsable, RaisedState, InResponse
  <2>2. Calm(st, safe_crash_current(Fire(st, "ENVIRONMENT_READY")))
    <3>1. CASE Raises(st, "ENVIRONMENT_READY")
      BY <1>0, <3>1, CalmHelpers DEF Fire
    <3>2. CASE ~Raises(st, "ENVIRONMENT_READY")
      <4>1. safe_crash_current("PLANNING") = "FAILED"
        BY DEF safe_crash_current, Fire, Raises, Invalid, target_for_event, AuditStates,
               ACTIVE_STATES
      <4>2. Calm("PROVISIONING", "FAILED")
        BY DEF Calm, Quiet, Exposed, TERMINAL_STATES, POST_PR_STATES
      <4> QED BY <1>a, <3>2, <4>1, <4>2
    <3> QED BY <3>1, <3>2
  <2> QED BY <1>5, <2>1, <2>2, ReturnKeeps DEF PlanUnparsable, Raise
<1>6. CASE PlanOutOfState(w)
  BY <1>0, <1>6, RaiseKeeps DEF PlanOutOfState
<1>7. CASE PlannerEmits(w)
  <2>1. Become(w, wk[w])
    BY <1>7 DEF PlannerEmits, Become, TypeInv, TypeOK
  <2>2. wk[w].pc = "planner" /\ UNCHANGED <<st, pr, sup, fut>>
    BY <1>7 DEF PlannerEmits
  <2> QED BY <1>0, <2>1, <2>2, StayKeeps DEF LatePCs, EarlyPCs
<1>8. CASE Planned(w)
  <2>1. PICK n : StartSet(w, n, "commit")
    BY <1>8 DEF Planned
  <2> DEFINE r == [wk[w] EXCEPT !.pc = "sub", !.left = n, !.att = 0, !.ret = "commit"]
  <2>2. r.pc = "sub" /\ r.job = wk[w].job /\ r.trig = wk[w].trig
    BY <1>0 DEF WorkerRecord
  <2>3. Become(w, r)
    BY <2>1 DEF StartSet
  <2>4. wk[w].pc = "planner" /\ UNCHANGED <<st, pr, sup, fut>>
    BY <1>8 DEF Planned
  <2> HIDE DEF r
  <2> QED BY <1>0, <2>2, <2>3, <2>4, StayKeeps DEF LatePCs, EarlyPCs
<1>9. CASE PlannerExhausted(w)
  <2>1. block_current(st) \in State /\ Calm(st, block_current(st))
    BY <1>0, HelperTypes, CalmHelpers
  <2> QED BY <1>9, <2>1, RaiseKeeps DEF PlannerExhausted
<1> QED BY <1>1, <1>2, <1>3, <1>4, <1>5, <1>6, <1>7, <1>8, <1>9 DEF PlanStep

LEMMA SubtaskStepKeeps ==
  ASSUME TypeInv, TypeOK', PublishInv, NEW w \in Workers, SubtaskStep(w)
  PROVE  PublishInv' /\ Follows
<1> USE DEF At, github, daemon, ghosts
<1>0. st \in State /\ wk[w] \in WorkerRecord /\ Calm(st, st)
  BY CalmHelpers DEF TypeInv, TypeOK
<1>a. ASSUME NEW r, Become(w, r), r.job = wk[w].job, r.trig = wk[w].trig,
             r.pc \in {"doing", "check", "sub", "cycle", "commit", "audit"},
             wk[w].pc \in {"sub", "doing", "check", "commit"},
             UNCHANGED <<pr, sup, fut>>, Calm(st, st')
      PROVE  PublishInv' /\ Follows
  BY <1>a, StayKeeps DEF LatePCs, EarlyPCs
<1>b. \A s \in State : Calm(st, s) =>
        /\ Calm(st, enter_checking_subtask(s)) /\ enter_checking_subtask(s) \in State
        /\ Calm(st, enter_committing(s)) /\ enter_committing(s) \in State
        /\ Calm(st, enter_pushing(s)) /\ enter_pushing(s) \in State
        /\ Calm(st, enter_local_ci_checking(s))
  BY <1>0, HelperTypes, CalmHelpers, CalmComposes
<1>1. CASE SubtaskDo(w)
  <2> DEFINE r == [wk[w] EXCEPT !.pc = "doing"]
  <2>1. r.pc = "doing" /\ r.job = wk[w].job /\ r.trig = wk[w].trig
    BY <1>0 DEF WorkerRecord
  <2>2. Become(w, r) /\ Calm(st, st')
    BY <1>0, <1>1, CalmHelpers DEF SubtaskDo, Goto
  <2> HIDE DEF r
  <2> QED BY <1>1, <1>a, <2>1, <2>2 DEF SubtaskDo
<1>2. CASE SubtaskCheck(w)
  <2> DEFINE r == [wk[w] EXCEPT !.pc = "check"]
  <2>1. r.pc = "check" /\ r.job = wk[w].job /\ r.trig = wk[w].trig
    BY <1>0 DEF WorkerRecord
  <2>2. Become(w, r) /\ Calm(st, st')
    BY <1>0, <1>2, CalmHelpers DEF SubtaskCheck, Goto
  <2> HIDE DEF r
  <2> QED BY <1>2, <1>a, <2>1, <2>2 DEF SubtaskCheck
<1>3. CASE SubtaskPass(w)
  <2> DEFINE r == [wk[w] EXCEPT !.pc = "sub", !.left = @ - 1, !.att = 0]
  <2>1. r.pc = "sub" /\ r.job = wk[w].job /\ r.trig = wk[w].trig
    BY <1>0 DEF WorkerRecord
  <2>2. Become(w, r) /\ Calm(st, st')
    BY <1>0, <1>3, <1>b DEF SubtaskPass
  <2> HIDE DEF r
  <2> QED BY <1>3, <1>a, <2>1, <2>2 DEF SubtaskPass
<1>4. CASE SubtaskTransient(w)
  <2> DEFINE r == [wk[w] EXCEPT !.pc = "sub"]
  <2>1. r.pc = "sub" /\ r.job = wk[w].job /\ r.trig = wk[w].trig
    BY <1>0 DEF WorkerRecord
  <2>2. Become(w, r) /\ Calm(st, st')
    BY <1>0, <1>4, CalmHelpers DEF SubtaskTransient, Goto
  <2> HIDE DEF r
  <2> QED BY <1>4, <1>a, <2>1, <2>2 DEF SubtaskTransient
<1>5. CASE SubtaskFail(w)
  <2> DEFINE r == [wk[w] EXCEPT !.pc = "sub", !.att = @ + 1]
  <2>1. r.pc = "sub" /\ r.job = wk[w].job /\ r.trig = wk[w].trig
    BY <1>0 DEF WorkerRecord
  <2>2. Become(w, r) /\ Calm(st, st')
    BY <1>0, <1>5, CalmHelpers DEF SubtaskFail
  <2> HIDE DEF r
  <2> QED BY <1>5, <1>a, <2>1, <2>2 DEF SubtaskFail
<1>6. CASE SubtaskBlocked(w)
  BY <1>6, BlockedKeeps DEF SubtaskBlocked
<1>7. CASE SubtasksDone(w)
  <2> DEFINE r == IF wk[w].ret = "cycle"
                  THEN [wk[w] EXCEPT !.pc = "cycle", !.cyc = @ + 1, !.res = {}, !.ret = "commit"]
                  ELSE [wk[w] EXCEPT !.pc = wk[w].ret, !.ret = "commit"]
  <2>1. /\ r.pc \in {"cycle", "commit", "audit"}
        /\ r.job = wk[w].job /\ r.trig = wk[w].trig
    BY <1>0 DEF WorkerRecord
  <2>2. Become(w, r)
    BY <1>7 DEF SubtasksDone
  <2> HIDE DEF r
  <2> QED BY <1>0, <1>7, <1>a, <2>1, <2>2 DEF SubtasksDone
<1>8. CASE Commit(w)
  <2> DEFINE r == [wk[w] EXCEPT !.pc = "audit"]
  <2>1. r.pc = "audit" /\ r.job = wk[w].job /\ r.trig = wk[w].trig
    BY <1>0 DEF WorkerRecord
  <2>2. enter_doing_subtask(st) \in State /\ Calm(st, enter_doing_subtask(st))
    BY <1>0, HelperTypes, CalmHelpers
  <2>3. Calm(st, FastForward(st))
    BY <1>0, <1>b, <2>2 DEF FastForward
  <2>4. Become(w, r) /\ Calm(st, st')
    BY <1>8, <2>3 DEF Commit, Goto
  <2> HIDE DEF r
  <2> QED BY <1>8, <1>a, <2>1, <2>4 DEF Commit
<1>9. CASE SubtaskReconciles(w)
  <2>1. UNCHANGED <<st, pr, sup, fut, wk>>
    BY <1>9 DEF SubtaskReconciles
  <2>2. PublishInv'
    BY <2>1 DEF PublishInv
  <2>3. Follows
    BY <2>1 DEF Follows, Phase
  <2> QED BY <2>2, <2>3
<1> QED BY <1>1, <1>2, <1>3, <1>4, <1>5, <1>6, <1>7, <1>8, <1>9 DEF SubtaskStep

LEMMA AdvanceAuditCalm ==
  ASSUME NEW s \in State, NEW i
  PROVE  Calm(s, AdvanceAudit(s, i))
<1>1. enter_audit_local_ci(s) \in State /\ Calm(s, enter_audit_local_ci(s)) /\ Calm(s, s)
  BY HelperTypes, CalmHelpers
<1>2. \A x : /\ Calm(s, audit_stage_passed(s, x))
             /\ audit_stage_passed(enter_audit_local_ci(s), x) \in State
             /\ Calm(enter_audit_local_ci(s), audit_stage_passed(enter_audit_local_ci(s), x))
  BY <1>1, HelperTypes, CalmHelpers
<1>3. \A x : Calm(s, audit_stage_passed(enter_audit_local_ci(s), x))
  BY <1>1, <1>2, CalmComposes
<1> QED BY <1>1, <1>2, <1>3 DEF AdvanceAudit

LEMMA AuditStepKeeps ==
  ASSUME TypeInv, TypeOK', PublishInv, NEW w \in Workers, AuditStep(w)
  PROVE  PublishInv' /\ Follows
<1> USE DEF At, github, daemon, ghosts
<1>0. st \in State /\ wk[w] \in WorkerRecord /\ Calm(st, st)
  BY CalmHelpers DEF TypeInv, TypeOK
<1>a. ASSUME NEW r, Become(w, r), r.job = wk[w].job, r.trig = wk[w].trig,
             r.pc \in {"cycle", "stage", "settle", "fixup", "sub", "openpr"},
             wk[w].pc \in {"audit", "cycle", "stage", "settle", "fixup"},
             UNCHANGED <<pr, sup, fut>>, Calm(st, st')
      PROVE  PublishInv' /\ Follows
  BY <1>a, StayKeeps DEF LatePCs, EarlyPCs
<1>b. ASSUME NEW i, NEW failed, StageOver(w, i, failed), wk[w].pc = "stage",
             UNCHANGED <<pr, sup, fut>>, Calm(st, st')
      PROVE  PublishInv' /\ Follows
  <2> DEFINE pc == IF i = 5 THEN "settle" ELSE "stage"
             r == [wk[w] EXCEPT !.pc = pc, !.ran = i, !.failed = failed]
  <2>1. r.pc = pc /\ r.job = wk[w].job /\ r.trig = wk[w].trig
    BY <1>0 DEF WorkerRecord
  <2>2. Become(w, r)
    BY <1>b DEF StageOver
  <2> HIDE DEF r
  <2> QED BY <1>a, <1>b, <2>1, <2>2
<1>c. ASSUME AuditSettled(w), wk[w].pc = "settle", UNCHANGED <<pr, sup, fut>>
      PROVE  PublishInv' /\ Follows
  <2>1. Calm(st, st')
    BY <1>0, <1>c, CalmHelpers DEF AuditSettled
  <2>2. CASE InResponse(w)
    <3>1. Late(wk[w])
      BY <1>c, <2>2 DEF Late, InResponse
    <3>2. Goto(w, "fbdone") /\ Fits([wk[w] EXCEPT !.pc = "fbdone"], st')
      BY <1>c, <2>1, <2>2 DEF AuditSettled, Fits
    <3> QED BY <1>c, <3>1, <3>2, GotoKeeps DEF EarlyPCs
  <2>3. CASE ~InResponse(w)
    <3>1. Goto(w, "openpr") /\ Fits([wk[w] EXCEPT !.pc = "openpr"], st')
      BY <1>c, <2>1, <2>3 DEF AuditSettled, Fits
    <3> QED BY <1>c, <3>1, GotoKeeps DEF LatePCs, EarlyPCs
  <2> QED BY <2>2, <2>3
<1>1. CASE AuditStart(w)
  <2> DEFINE resumable == row.cycle \in 1..MaxCycles /\ row.passed # {}
             cyc == IF resumable THEN row.cycle ELSE 1
             res == IF resumable THEN row.passed ELSE {}
             r == [wk[w] EXCEPT !.pc = "cycle", !.cyc = cyc, !.res = res]
  <2>1. Become(w, r)
    BY <1>1 DEF AuditStart
  <2>2. Calm(st, st')
    BY <1>0, <1>1, CalmHelpers DEF AuditStart
  <2> HIDE DEF cyc, res
  <2>3. r.pc = "cycle" /\ r.job = wk[w].job /\ r.trig = wk[w].trig
    BY <1>0 DEF WorkerRecord
  <2> HIDE DEF r
  <2> QED BY <1>1, <1>a, <2>1, <2>2, <2>3 DEF AuditStart
<1>2. CASE CyclesExhausted(w)
  BY <1>2, BlockedKeeps DEF CyclesExhausted
<1>3. CASE BootstrapBlocked(w)
  BY <1>3, BlockedKeeps DEF BootstrapBlocked
<1>4. CASE CycleStart(w)
  <2> DEFINE r == [wk[w] EXCEPT !.pc = "stage", !.ran = 0, !.failed = {}]
  <2>1. r.pc = "stage" /\ r.job = wk[w].job /\ r.trig = wk[w].trig
    BY <1>0 DEF WorkerRecord
  <2>2. Become(w, r) /\ Calm(st, st')
    BY <1>0, <1>4, CalmHelpers DEF CycleStart
  <2> HIDE DEF r
  <2> QED BY <1>4, <1>a, <2>1, <2>2 DEF CycleStart
<1>5. CASE StageReused(w)
  BY <1>0, <1>5, <1>b, AdvanceAuditCalm DEF StageReused
<1>6. CASE StagePasses(w)
  BY <1>0, <1>6, <1>b, AdvanceAuditCalm DEF StagePasses
<1>7. CASE StageFails(w)
  BY <1>0, <1>7, <1>b DEF StageFails
<1>8. CASE StageShutdown(w)
  <2>1. CASE InResponse(w)
    <3>1. Late(wk[w])
      BY <1>8, <2>1 DEF StageShutdown, Late, InResponse
    <3>2. Goto(w, "fbdone") /\ Fits([wk[w] EXCEPT !.pc = "fbdone"], st')
      BY <1>0, <1>8, <2>1 DEF StageShutdown, Fits
    <3> QED BY <1>8, <3>1, <3>2, GotoKeeps DEF StageShutdown, EarlyPCs
  <2>2. CASE ~InResponse(w)
    BY <1>0, <1>8, <2>2, ReturnKeeps DEF StageShutdown
  <2> QED BY <2>1, <2>2
<1>9. CASE SettlePassed(w)
  BY <1>9, <1>c DEF SettlePassed
<1>10. CASE SettleDeferred(w)
  BY <1>10, <1>c DEF SettleDeferred
<1>11. CASE SettleStructural(w)
  BY <1>11, BlockedKeeps DEF SettleStructural
<1>12. CASE SettleFixup(w)
  <2> DEFINE r == [wk[w] EXCEPT !.pc = "fixup", !.ret = "cycle", !.res = {}, !.ran = 0,
                                !.failed = {}]
  <2>1. r.pc = "fixup" /\ r.job = wk[w].job /\ r.trig = wk[w].trig
    BY <1>0 DEF WorkerRecord
  <2>2. Become(w, r) /\ Calm(st, st')
    BY <1>0, <1>12, CalmHelpers DEF SettleFixup
  <2> HIDE DEF r
  <2> QED BY <1>12, <1>a, <2>1, <2>2 DEF SettleFixup
<1>13. CASE FixupPlanned(w)
  <2>1. PICK n : StartSet(w, n, wk[w].ret)
    BY <1>13 DEF FixupPlanned
  <2> DEFINE r == [wk[w] EXCEPT !.pc = "sub", !.left = n, !.att = 0, !.ret = wk[w].ret]
  <2>2. r.pc = "sub" /\ r.job = wk[w].job /\ r.trig = wk[w].trig
    BY <1>0 DEF WorkerRecord
  <2>3. Become(w, r)
    BY <2>1 DEF StartSet
  <2>4. wk[w].pc = "fixup" /\ UNCHANGED <<st, pr, sup, fut>>
    BY <1>13 DEF FixupPlanned
  <2> HIDE DEF r
  <2> QED BY <1>0, <1>a, <2>2, <2>3, <2>4
<1>14. CASE FixupRejected(w)
  BY <1>14, BlockedKeeps DEF FixupRejected
<1> QED BY <1>1, <1>2, <1>3, <1>4, <1>5, <1>6, <1>7, <1>8, <1>9, <1>10, <1>11, <1>12, <1>13,
           <1>14 DEF AuditStep

(* With a pull request on record the watcher's helpers follow the protocol.*)
LEMMA WatchedMoves ==
  ASSUME NEW s \in State
  PROVE  /\ Moves(s, s)
         /\ Moves(s, mark_merged(s))
         /\ Moves(s, Fire(s, "PR_CLOSED"))
         /\ Moves(s, enter_rebasing_to_main(s))
         /\ Moves(s, safe_crash_current(enter_rebasing_to_main(s)))
         /\ Moves(s, enter_pending_ci(enter_rebasing_to_main(s)))
<1> USE DEF Moves, State, AuditStates, ACTIVE_STATES, TERMINAL_STATES, POST_PR_STATES,
            RETRYABLE_STATES, Fire, Raises, Invalid, target_for_event, NextStage
<1>1. Moves(s, s) /\ Moves(s, mark_merged(s))
  BY DEF mark_merged
<1>2. Moves(s, Fire(s, "PR_CLOSED"))
  OBVIOUS
<1>3. Moves(s, enter_rebasing_to_main(s))
  BY DEF enter_rebasing_to_main
<1>4. enter_rebasing_to_main(s) \in {s, "REBASING_TO_MAIN"} /\
      (enter_rebasing_to_main(s) # s => s \in ACTIVE_STATES \cup POST_PR_STATES)
  BY DEF enter_rebasing_to_main
<1>5. Moves(s, safe_crash_current(enter_rebasing_to_main(s)))
  BY <1>4 DEF safe_crash_current
<1>6. Moves(s, enter_pending_ci(enter_rebasing_to_main(s)))
  BY <1>4 DEF enter_pending_ci
<1> QED BY <1>1, <1>2, <1>3, <1>5, <1>6

(* The step that puts the pull request on record.                          *)
LEMMA RecordKeeps ==
  ASSUME TypeInv, TypeOK', PublishInv, NEW w \in Workers, wk[w].pc # "idle",
         NEW r, Become(w, r), r.pc \notin EarlyPCs, pr', UNCHANGED <<sup, fut>>,
         st' = st \/ (pr /\ Moves(st, st'))
  PROVE  PublishInv' /\ Follows
<1>1. fut = w /\ \A v \in Workers : v # w => wk[v].pc = "idle" /\ wk'[v] = wk[v]
  BY DEF PublishInv, Become, TypeInv, TypeOK
<1>2. wk'[w] = r
  BY DEF Become, TypeInv, TypeOK
<1>3. PublishInv'
  BY <1>1, <1>2 DEF PublishInv, EarlyPCs
<1>4. CASE st' = st
  <2>1. pr' = TRUE
    BY DEF TypeOK
  <2>2. Phase' = Phase
    BY <1>4 DEF Phase
  <2> QED BY <1>3, <2>1, <2>2 DEF Follows, Protocol!Next, Protocol!Publish
<1>5. CASE pr /\ Moves(st, st')
  <2>1. pr' = pr
    BY <1>5 DEF TypeInv, TypeOK
  <2> QED BY <1>3, <1>5, <2>1, MovesFollows DEF TypeInv
<1> QED BY <1>4, <1>5

LEMMA PrStepKeeps ==
  ASSUME TypeInv, TypeOK', PublishInv, NEW w \in Workers, PrStep(w)
  PROVE  PublishInv' /\ Follows
<1> USE DEF At, github, daemon, ghosts
<1>0. st \in State /\ wk[w] \in WorkerRecord /\ Calm(st, st)
  BY CalmHelpers DEF TypeInv, TypeOK
<1>a. ASSUME wk[w].pc \in LatePCs PROVE Late(wk[w])
  BY <1>a DEF Late, LatePCs
<1>b. /\ StartTask(st) \in State /\ Calm(st, StartTask(st))
      /\ Calm(st, enter_fixup_planning(StartTask(st)))
  <2>1. StartTask(st) \in State /\ Calm(st, StartTask(st))
    BY <1>0, HelperTypes, CalmHelpers
  <2>2. /\ enter_fixup_planning(StartTask(st)) \in State
        /\ Calm(StartTask(st), enter_fixup_planning(StartTask(st)))
    BY <2>1, HelperTypes, CalmHelpers
  <2> QED BY <1>0, <2>1, <2>2, CalmComposes
<1>c. ASSUME Late(wk[w])
      PROVE  Calm(st, enter_pending_ci(st)) \/ (pr /\ Moves(st, enter_pending_ci(st)))
  BY <1>0, <1>c, PendingCiFits DEF TypeInv
<1>1. CASE OpenPr(w)
  <2> DEFINE r == Thread(IF pr THEN "pollstart" ELSE "create", "task")
  <2>1. r.pc \in {"pollstart", "create"} /\ (r.pc = "pollstart" => pr)
        /\ r.job = "task" /\ r.trig = "initial"
    BY DEF Thread
  <2>2. Become(w, r) /\ Calm(st, st')
    BY <1>0, <1>1, CalmHelpers DEF OpenPr
  <2> HIDE DEF r
  <2>3. (Late(r) => pr) /\ r.pc \notin EarlyPCs /\ Fits(r, st')
    BY <2>1, <2>2 DEF Late, LatePCs, EarlyPCs, Fits
  <2> QED BY <1>1, <2>2, <2>3, WorkerKeeps DEF OpenPr, TypeInv
<1>2. CASE CreatePr(w)
  <2>1. Fits([wk[w] EXCEPT !.pc = "record"], st')
    BY <1>0, <1>2 DEF CreatePr, Fits
  <2> QED BY <1>2, <2>1, GotoKeeps DEF CreatePr, LatePCs, EarlyPCs
<1>3. CASE RecordPr(w)
  <2> DEFINE r == [wk[w] EXCEPT !.pc = "pollstart"]
  <2>1. r.pc = "pollstart"
    BY <1>0 DEF WorkerRecord
  <2>2. Become(w, r)
    BY <1>3 DEF RecordPr, Goto
  <2> HIDE DEF r
  <2> QED BY <1>3, <2>1, <2>2, RecordKeeps DEF RecordPr, EarlyPCs
<1>4. CASE PollStart(w)
  <2> DEFINE r == Thread("poll", "task")
  <2>1. r.pc = "poll"
    BY DEF Thread
  <2>2. Become(w, r) /\ Late(wk[w])
    BY <1>4, <1>a DEF PollStart, LatePCs
  <2> HIDE DEF r
  <2>3. Fits(r, st')
    BY <1>4, <1>c, <2>2 DEF PollStart, Fits
  <2> QED BY <1>4, <2>1, <2>2, <2>3, WorkerKeeps DEF PollStart, TypeInv, EarlyPCs
<1>5. CASE PollTerminal(w)
  BY <1>0, <1>5, ReturnKeeps DEF PollTerminal
<1>6. CASE PollMerged(w)
  BY <1>0, <1>6, WatchedMoves, ReturnKeeps DEF PollMerged, Polling
<1>7. CASE PollClosed(w)
  <2>1. /\ Moves(st, mark_merged(st)) /\ Moves(st, Fire(st, "PR_CLOSED"))
        /\ Moves(st, safe_crash_current(st))
    BY <1>0, HelperTypes, WatchedMoves, CalmHelpers, CalmMoves
  <2>2. Moves(st, st')
    BY <1>7, <2>1 DEF PollClosed
  <2> QED BY <1>7, <2>2, ReturnKeeps DEF PollClosed, Polling
<1>8. CASE PollConflict(w)
  <2>1. Fits([wk[w] EXCEPT !.pc = "rebase"], st')
    BY <1>0, <1>8, WatchedMoves DEF PollConflict, Fits
  <2> QED BY <1>8, <2>1, GotoKeeps DEF PollConflict, Polling, EarlyPCs
<1>9. CASE PollConflictNoContainer(w)
  <2>1. Moves(st, RaisedState(w, enter_rebasing_to_main(st)))
    BY <1>0, WatchedMoves DEF RaisedState
  <2> QED BY <1>9, <2>1, ReturnKeeps DEF PollConflictNoContainer, Polling, Raise
<1>10. CASE PollCiFails(w)
  <2> DEFINE r == [wk[w] EXCEPT !.pc = "fixup", !.trig = "ci", !.ret = "audit", !.tries = @ + 1]
  <2>1. r.pc = "fixup"
    BY <1>0 DEF WorkerRecord
  <2>2. Become(w, r) /\ pr /\ Calm(st, st')
    BY <1>10, <1>b DEF PollCiFails
  <2> HIDE DEF r
  <2>3. Fits(r, st')
    BY <2>2 DEF Fits
  <2> QED BY <1>10, <2>1, <2>2, <2>3, WorkerKeeps DEF PollCiFails, Polling, TypeInv, EarlyPCs
<1>11. CASE PollGreen(w)
  BY <1>0, <1>11, ReturnKeeps DEF PollGreen, Polling
<1>12. CASE PollBudgetSpent(w)
  BY <1>0, <1>12, RaiseKeeps DEF PollBudgetSpent, Polling
<1>13. CASE FeedbackStart(w)
  <2>1. Late(wk[w])
    BY <1>13, <1>a DEF FeedbackStart, LatePCs
  <2>2. CASE row.wt
    <3> DEFINE r == [wk[w] EXCEPT !.pc = "fixup", !.trig = wk[w].job, !.ret = "audit"]
    <3>1. r.pc = "fixup"
      BY <1>0 DEF WorkerRecord
    <3>2. Become(w, r) /\ Calm(st, st')
      BY <1>13, <1>b, <2>2 DEF FeedbackStart
    <3> HIDE DEF r
    <3>3. Fits(r, st')
      BY <3>2 DEF Fits
    <3> QED BY <1>13, <2>1, <3>1, <3>2, <3>3, WorkerKeeps DEF FeedbackStart, TypeInv, EarlyPCs
  <2>3. CASE ~row.wt
    BY <1>13, <1>b, <2>3, RaiseKeeps DEF FeedbackStart
  <2> QED BY <2>2, <2>3
<1>14. CASE FeedbackDone(w)
  <2>1. Late(wk[w])
    BY <1>14, <1>a DEF FeedbackDone, LatePCs
  <2> QED BY <1>14, <1>c, <2>1, ReturnKeeps DEF FeedbackDone
<1> QED BY <1>1, <1>2, <1>3, <1>4, <1>5, <1>6, <1>7, <1>8, <1>9, <1>10, <1>11, <1>12, <1>13,
           <1>14 DEF PrStep

LEMMA RebaseStepKeeps ==
  ASSUME TypeInv, TypeOK', PublishInv, NEW w \in Workers, RebaseStep(w)
  PROVE  PublishInv' /\ Follows
<1> USE DEF At, github, daemon, ghosts
<1>0. /\ st \in State /\ wk[w] \in WorkerRecord /\ Calm(st, st)
      /\ block_current(st) \in State /\ Calm(st, block_current(st))
      /\ StartTask(st) \in State /\ Calm(st, StartTask(st))
  BY HelperTypes, CalmHelpers DEF TypeInv, TypeOK
<1>a. Late(wk[w]) /\ wk[w].pc \in LatePCs
  BY DEF RebaseStep, RebaseStart, RebaseFetchFails, RebaseClean, RebaseConflicts,
         ConflictResolved, RebaseBlocked, RebaseFinish, Late, LatePCs
<1>b. ASSUME NEW s \in {st, block_current(st)}
      PROVE  Calm(st, enter_pending_ci(s)) \/ (pr /\ Moves(st, enter_pending_ci(s)))
  BY <1>0, <1>a, PendingCiFits DEF TypeInv
<1>c. ASSUME NEW pc, pc \notin EarlyPCs, Goto(w, pc), UNCHANGED <<pr, sup, fut>>,
             Calm(st, st') \/ (pr /\ Moves(st, st'))
      PROVE  PublishInv' /\ Follows
  <2>1. Fits([wk[w] EXCEPT !.pc = pc], st')
    BY <1>c DEF Fits
  <2> QED BY <1>a, <1>c, <2>1, GotoKeeps DEF Late
<1>d. ASSUME Rebased(w) PROVE PublishInv' /\ Follows
  BY <1>0, <1>b, <1>c, <1>d DEF Rebased, EarlyPCs
<1>1. CASE RebaseStart(w)
  <2>1. CASE row.wt
    BY <1>0, <1>1, <1>c, <2>1 DEF RebaseStart, EarlyPCs
  <2>2. CASE ~row.wt
    BY <1>0, <1>1, <2>2, RaiseKeeps DEF RebaseStart
  <2> QED BY <2>1, <2>2
<1>2. CASE RebaseFetchFails(w)
  <2>1. Calm(st, st') \/ (pr /\ Moves(st, st'))
    BY <1>0, <1>2, <1>b DEF RebaseFetchFails
  <2> QED BY <1>2, <2>1, ReturnKeeps DEF RebaseFetchFails
<1>3. CASE RebaseClean(w)
  BY <1>3, <1>d DEF RebaseClean
<1>4. CASE RebaseConflicts(w)
  <2>1. Calm(st, st')
    BY <1>0, <1>4, CalmHelpers DEF RebaseConflicts
  <2> QED BY <1>4, <1>c, <2>1 DEF RebaseConflicts, EarlyPCs
<1>5. CASE ConflictResolved(w)
  BY <1>5, <1>d DEF ConflictResolved
<1>6. CASE RebaseBlocked(w)
  BY <1>0, <1>6, ReturnKeeps DEF RebaseBlocked
<1>7. CASE RebaseFinish(w)
  <2>1. CASE pr' = pr
    <3>1. Calm(st, st') \/ (pr /\ Moves(st, st'))
      BY <1>7, <1>b DEF RebaseFinish
    <3> QED BY <1>7, <2>1, <3>1, ReturnKeeps DEF RebaseFinish
  <2>2. CASE pr' # pr
    <3>1. pr' /\ ~pr /\ st' = enter_pending_ci(st)
      BY <1>7, <2>2 DEF RebaseFinish, TypeInv, TypeOK
    <3>2. st \in Quiet
      BY <1>a, <3>1 DEF PublishInv
    <3>3. st' = st
      BY <3>1, <3>2 DEF Quiet, TERMINAL_STATES, enter_pending_ci
    <3>4. Returned(w).pc \notin EarlyPCs
      BY DEF Returned, Thread, EarlyPCs
    <3> QED BY <1>7, <3>1, <3>3, <3>4, RecordKeeps DEF RebaseFinish, Return
  <2> QED BY <2>1, <2>2
<1> QED BY <1>1, <1>2, <1>3, <1>4, <1>5, <1>6, <1>7 DEF RebaseStep

LEMMA WorkerStepKeeps ==
  ASSUME TypeInv, TypeOK', PublishInv, NEW w \in Workers, WorkerStep(w)
  PROVE  PublishInv' /\ Follows
<1>1. CASE WorkerRaises(w)
  <2>1. st \in State /\ Calm(st, st)
    BY CalmHelpers DEF TypeInv, TypeOK
  <2> QED BY <1>1, <2>1, RaiseKeeps DEF WorkerRaises, daemon
<1>2. CASE Teardown(w)
  <2> DEFINE r == Thread("done", "none")
  <2>1. r.pc = "done"
    BY DEF Thread
  <2>2. wk[w].pc = "teardown" /\ Become(w, r) /\ UNCHANGED <<st, pr, sup, fut>>
    BY <1>2 DEF Teardown, At, daemon
  <2>3. Calm(st, st')
    BY <2>2, CalmHelpers DEF TypeInv, TypeOK
  <2> HIDE DEF r
  <2> QED BY <2>1, <2>2, <2>3, WorkerKeeps DEF TypeInv, Fits, Late, EarlyPCs
<1> QED BY <1>1, <1>2, PlanStepKeeps, SubtaskStepKeeps, AuditStepKeeps, PrStepKeeps, RebaseStepKeeps
        DEF WorkerStep

(* A job is submitted: no thread was busy.                                 *)
LEMMA SubmitKeeps ==
  ASSUME TypeInv, TypeOK', PublishInv, LoopFree, NEW w \in Workers, NEW pc, NEW job,
         Submit(w, pc, job), UNCHANGED <<pr, sup>>, Moves(st, st'),
         pr \/ (st' = st /\ ~Late(Thread(pc, job))), pc \in EarlyPCs => job = "task"
  PROVE  PublishInv' /\ Follows
<1> DEFINE r == Thread(pc, job)
<1>1. \A v \in Workers : wk[v].pc = "idle"
  BY WorkersAssumption DEF PublishInv, LoopFree
<1>2. \A v \in Workers : v # w => wk'[v] = wk[v]
  BY DEF Submit, Become, TypeInv, TypeOK
<1>3. wk'[w] = r /\ fut' = w
  BY DEF Submit, Become, TypeInv, TypeOK
<1>4. r.pc = pc /\ r.job = job /\ r.trig = "initial"
  BY DEF Thread
<1>5. pr \/ (st' = st /\ ~Late(r))
  OBVIOUS
<1> HIDE DEF r
<1>6. \A v \in Workers : v # w => ~Late(wk'[v])
  BY <1>1, <1>2 DEF Late
<1>7. PublishInv'
  BY <1>1, <1>2, <1>3, <1>4, <1>5, <1>6 DEF PublishInv, EarlyPCs
<1>8. Follows
  BY <1>5, MovesFollows DEF TypeInv, PublishInv, Exposed
<1> QED BY <1>7, <1>8

(* Main loop, restart or CLI writes the row; the threads are where they were. *)
LEMMA RowKeeps ==
  ASSUME TypeInv, TypeOK', PublishInv, UNCHANGED <<pr, fut, wk>>, sup' # "recover",
         Moves(st, st'),
         pr \/ (st' \notin Exposed /\ (st \in Quiet => st' \in Quiet))
  PROVE  PublishInv' /\ Follows
<1>1. PublishInv'
  BY DEF PublishInv
<1>2. Follows
  BY MovesFollows DEF TypeInv, Exposed
<1> QED BY <1>1, <1>2

(* Threads become idle, and with them the future is dropped.               *)
LEMMA IdleKeeps ==
  ASSUME TypeInv, TypeOK', PublishInv, UNCHANGED <<st, pr>>, sup' # "recover",
         \A w \in Workers : wk'[w].pc = "idle"
  PROVE  PublishInv' /\ Follows
<1>1. PublishInv'
  BY DEF PublishInv, EarlyPCs, Late
<1>2. Follows
  BY DEF Follows, Phase
<1> QED BY <1>1, <1>2

LEMMA LoopStepKeeps ==
  ASSUME TypeInv, TypeOK', PublishInv, ~StallOn, LoopStep
  PROVE  PublishInv' /\ Follows
<1> USE DEF github, daemon, ghosts
<1>0. /\ st \in State /\ sup # "recover" /\ Moves(st, st)
      /\ pr \/ st \notin Exposed
  BY WatchedMoves DEF TypeInv, TypeOK, PublishInv
<1>1. ASSUME NEW w \in Workers, Dispatch(w) PROVE PublishInv' /\ Follows
  <2>1. ~Late(Thread("prov", "task"))
    BY DEF Late, Thread, LatePCs
  <2> QED BY <1>0, <1>1, <2>1, SubmitKeeps DEF Dispatch
<1>2. ASSUME NEW w \in Workers, Reap(w) PROVE PublishInv' /\ Follows
  <2>1. \A v \in Workers : v # w => wk'[v].pc = "idle"
    BY <1>2 DEF Reap, Become, PublishInv, TypeInv, TypeOK
  <2>2. wk'[w].pc = "idle"
    BY <1>2 DEF Reap, Become, Thread, TypeInv, TypeOK
  <2> QED BY <1>2, <2>1, <2>2, <1>0, IdleKeeps DEF Reap
<1>3. ASSUME NEW w \in Workers, Forgotten(w) PROVE PublishInv' /\ Follows
  BY <1>3 DEF Forgotten, At, PublishInv
<1>4. ASSUME NEW w \in Workers, WatchConflict(w) PROVE PublishInv' /\ Follows
  BY <1>0, <1>4, WatchedMoves, SubmitKeeps DEF WatchConflict, Watched, EarlyPCs
<1>5. ASSUME NEW w \in Workers, WatchCiFails(w) PROVE PublishInv' /\ Follows
  BY <1>0, <1>5, SubmitKeeps DEF WatchCiFails, Watched, EarlyPCs
<1>6. ASSUME NEW w \in Workers, WatchChanges(w) PROVE PublishInv' /\ Follows
  BY <1>0, <1>6, SubmitKeeps DEF WatchChanges, Reviewed, Watched, EarlyPCs
<1>7. CASE WatchMerged
  <2>1. Moves("BLOCKED", Fire("BLOCKED", "RETRY_TASK"))
    BY DEF Moves, Fire, Raises, Invalid, target_for_event, RETRYABLE_STATES, AuditStates,
           POST_PR_STATES, ACTIVE_STATES
  <2>2. Moves(st, st')
    BY <1>0, <1>7, <2>1, WatchedMoves DEF WatchMerged
  <2> QED BY <1>0, <1>7, <2>2, RowKeeps DEF WatchMerged, Watched
<1>8. CASE BridgeMerged
  <2>1. st' = st \/ (st = "PENDING" /\ st' = "MERGED")
    BY <1>8 DEF BridgeMerged, Fire, Raises, Invalid, target_for_event
  <2>2. Moves("PENDING", "MERGED") /\ "MERGED" \notin Exposed /\ "MERGED" \in Quiet
    BY DEF Moves, Exposed, Quiet, TERMINAL_STATES, POST_PR_STATES, RETRYABLE_STATES
  <2> QED BY <1>0, <1>8, <2>1, <2>2, RowKeeps DEF BridgeMerged
<1>9. CASE WatchClosed
  BY <1>0, <1>9, WatchedMoves, RowKeeps DEF WatchClosed, Watched
<1>10. CASE WatchCiPasses
  <2>1. Moves(st, enter_awaiting_review(st))
    BY <1>0, HelperTypes, CalmHelpers, CalmMoves
  <2> QED BY <1>0, <1>10, <2>1, RowKeeps DEF WatchCiPasses, Watched
<1>11. CASE WatchRoundsExhausted
  <2>1. Moves(st, block_current(st))
    BY <1>0, HelperTypes, CalmHelpers, CalmMoves
  <2> QED BY <1>0, <1>11, <2>1, RowKeeps DEF WatchRoundsExhausted, Reviewed, Watched
<1>12. CASE WatchApproval
  BY <1>0, <1>12, RowKeeps DEF WatchApproval, Reviewed, Watched
<1>13. ~StallDetect /\ ~StallRecover
  BY <1>0 DEF StallDetect, StallRecover
<1> QED BY <1>1, <1>2, <1>3, <1>4, <1>5, <1>6, <1>7, <1>8, <1>9, <1>10, <1>11, <1>12, <1>13
        DEF LoopStep

LEMMA ProcessStepKeeps ==
  ASSUME TypeInv, TypeOK', PublishInv, ProcessStep
  PROVE  PublishInv' /\ Follows
<1> USE DEF github, daemon, ghosts
<1>0. /\ st \in State /\ sup # "recover" /\ Moves(st, st)
      /\ pr \/ st \notin Exposed
  BY WatchedMoves DEF TypeInv, TypeOK, PublishInv
<1>1. CASE StopRequested
  BY <1>0, <1>1, RowKeeps DEF StopRequested
<1>2. ASSUME ProcessGone PROVE PublishInv' /\ Follows
  <2>1. \A w \in Workers : wk'[w].pc = "idle"
    BY <1>2 DEF ProcessGone, Thread
  <2> QED BY <1>2, <2>1, IdleKeeps DEF ProcessGone
<1>3. ASSUME NEW retry_failed \in BOOLEAN, Restart(retry_failed) PROVE PublishInv' /\ Follows
  <2>1. \/ st' = st
        \/ st \in ACTIVE_STATES /\ (st' = "PENDING" \/ (pr /\ st' = "PENDING_CI"))
        \/ st \in RETRYABLE_STATES /\ st' = "PENDING"
    BY <1>0, <1>3 DEF Restart, recover_after_crash, Fire, Raises, Invalid, target_for_event,
         State, AuditStates, ACTIVE_STATES, TERMINAL_STATES, POST_PR_STATES, RETRYABLE_STATES
  <2>2. Moves(st, st') /\ (pr \/ (st' \notin Exposed /\ (st \in Quiet => st' \in Quiet)))
    BY <1>0, <2>1 DEF Moves, Exposed, Quiet, AuditStates, ACTIVE_STATES, TERMINAL_STATES,
         POST_PR_STATES, RETRYABLE_STATES
  <2> QED BY <1>0, <1>3, <2>2, RowKeeps DEF Restart
<1> QED BY <1>1, <1>2, <1>3 DEF ProcessStep, Exit, Killed

LEMMA OutsideStepKeeps ==
  ASSUME TypeInv, TypeOK', PublishInv, OutsideStep
  PROVE  PublishInv' /\ Follows
<1> USE DEF github, daemon, ghosts
<1>0. /\ st \in State /\ sup # "recover" /\ Moves(st, st)
      /\ pr \/ st \notin Exposed
  BY WatchedMoves DEF TypeInv, TypeOK, PublishInv
<1>a. \A s \in RETRYABLE_STATES \cup AuditStates \cup {"REBASING_TO_MAIN", "CONFLICT_RESOLVING"} :
        Moves(s, "PENDING")
  BY DEF Moves, RETRYABLE_STATES, ACTIVE_STATES, POST_PR_STATES, AuditStates
<1>b. \A s \in POST_PR_STATES \cup {"PENDING"} : Moves(s, "MERGED")
  BY DEF Moves, RETRYABLE_STATES, POST_PR_STATES
<1>c. {"PENDING", "MERGED", "ABORTED"} \subseteq Quiet /\ Quiet \cap Exposed = {}
  BY DEF Quiet, Exposed, TERMINAL_STATES, POST_PR_STATES
<1>1. CASE Retry
  <2>1. st \in RETRYABLE_STATES /\ st' = "PENDING"
    BY <1>1 DEF Retry, Fire, Raises, Invalid, target_for_event, AuditStates, POST_PR_STATES,
         ACTIVE_STATES, RETRYABLE_STATES
  <2>2. PublishInv'
    BY <1>1, <1>c, <2>1 DEF Retry, PublishInv
  <2>3. Phase = "stopped" /\ Phase' = "queued"
    BY <2>1 DEF Phase, AuditStates, ACTIVE_STATES, POST_PR_STATES, RETRYABLE_STATES
  <2> QED BY <1>1, <2>2, <2>3 DEF Retry, Follows, Protocol!Next, Protocol!StartOver
<1>2. CASE Resume
  <2>1. st \in RETRYABLE_STATES /\ st' = "PENDING"
    BY <1>2 DEF Resume, Fire, Raises, Invalid, target_for_event, AuditStates, POST_PR_STATES,
         ACTIVE_STATES, RETRYABLE_STATES
  <2> QED BY <1>0, <1>2, <1>a, <1>c, <2>1, RowKeeps DEF Resume
<1>3. CASE Abort
  <2>1. st = "PENDING" /\ st' = "ABORTED"
    BY <1>3 DEF Abort, Fire, Raises, Invalid, target_for_event
  <2>2. Moves("PENDING", "ABORTED")
    BY DEF Moves, RETRYABLE_STATES, POST_PR_STATES
  <2> QED BY <1>0, <1>3, <1>c, <2>1, <2>2, RowKeeps DEF Abort
<1>4. CASE MarkMerged
  <2>1. \/ st \in POST_PR_STATES \cup {"PENDING"} /\ st' = "MERGED"
        \/ /\ st \in RETRYABLE_STATES \cup AuditStates
                       \cup {"REBASING_TO_MAIN", "CONFLICT_RESOLVING"}
           /\ st' = "PENDING"
    BY <1>4 DEF MarkMerged, mark_merged
  <2> QED BY <1>0, <1>4, <1>a, <1>b, <1>c, <2>1, RowKeeps DEF MarkMerged
<1>5. CASE MarkMergedFinish
  <2>1. st' = st \/ (st = "PENDING" /\ st' = "MERGED")
    BY <1>5 DEF MarkMergedFinish, Fire, Raises, Invalid, target_for_event
  <2> QED BY <1>0, <1>5, <1>b, <1>c, <2>1, RowKeeps DEF MarkMergedFinish
<1>6. CASE SubmitReview
  BY <1>0, <1>6, RowKeeps DEF SubmitReview
<1>7. CASE MergeOrClosePr
  BY <1>0, <1>7, RowKeeps DEF MergeOrClosePr
<1>8. CASE RetryRefused
  BY <1>0, <1>8, RowKeeps DEF RetryRefused
<1> QED BY <1>1, <1>2, <1>3, <1>4, <1>5, <1>6, <1>7, <1>8 DEF OutsideStep

LEMMA NextKeeps ==
  ASSUME TypeInv, TypeOK', PublishInv, ~StallOn, [Next]_vars
  PROVE  PublishInv' /\ Follows
<1>1. CASE UNCHANGED vars
  <2>1. PublishInv'
    BY <1>1 DEF PublishInv, vars
  <2>2. Follows
    BY <1>1 DEF Follows, Phase, vars
  <2> QED BY <2>1, <2>2
<1> QED BY <1>1, WorkerStepKeeps, LoopStepKeeps, ProcessStepKeeps, OutsideStepKeeps DEF Next

LEMMA InitPublish ==
  ASSUME Init
  PROVE  PublishInv /\ Protocol!Init
<1>1. \A w \in Workers : wk[w].pc = "idle"
  BY DEF Init, Thread
<1>2. PublishInv
  BY <1>1 DEF Init, PublishInv, EarlyPCs, Late, Exposed, POST_PR_STATES
<1>3. Protocol!Init
  BY DEF Init, Phase, Protocol!Init, AuditStates, ACTIVE_STATES, POST_PR_STATES, RETRYABLE_STATES
<1> QED BY <1>2, <1>3

(* The invariant behind the three theorems below.                          *)
SafeInv == TypeInv /\ (~StallOn => PublishInv)

LEMMA SafeInvariant ==
  Spec => []SafeInv
<1>1. Init => SafeInv
  BY InitType, InitPublish DEF SafeInv
<1>2. SafeInv /\ [Next]_vars => SafeInv'
  <2> SUFFICES ASSUME SafeInv, [Next]_vars PROVE SafeInv'
    OBVIOUS
  <2>1. TypeInv'
    BY NextType DEF SafeInv
  <2> QED BY <2>1, NextKeeps DEF SafeInv, TypeInv
<1> QED BY <1>1, <1>2, PTL DEF Spec

(***************************************************************************)
(* Picker, watcher, shutdown and restart never put two pool threads on one *)
(* task, however many threads the pool has (runner.run's futures map).     *)
(***************************************************************************)
THEOREM OneDriver == Spec => []SingleDriver
<1>1. SafeInv => SingleDriver
  BY DEF SafeInv, PublishInv, SingleDriver
<1> QED BY <1>1, SafeInvariant, PTL

(***************************************************************************)
(* Whatever crashes, rebases, responses and CLI commands do, a row in      *)
(* PENDING_CI or AWAITING_REVIEW has the pr_number that the review watcher *)
(* (tasks_needing_review_poll, _process_task) needs.                       *)
(***************************************************************************)
THEOREM ReviewHasPr == Spec => []PostPrHasPr
<1>1. SafeInv => PostPrHasPr
  BY DEF SafeInv, PublishInv, PostPrHasPr, Exposed
<1> QED BY <1>1, SafeInvariant, PTL

(***************************************************************************)
(* The row moves as TaskProtocol says, for every pool size, budget and     *)
(* audit configuration, as long as the stall supervisor, whose             *)
(* force_recover_to_pending_ci writes over any state, is switched off.     *)
(***************************************************************************)
THEOREM ImplementsProtocol ==
  ASSUME ~StallOn
  PROVE  Spec => FollowsProtocol
<1>1. Init => Protocol!Init
  BY InitPublish
<1>2. SafeInv /\ SafeInv' /\ [Next]_vars => [Protocol!Next]_<<Phase, pr>>
  BY NextKeeps DEF SafeInv, TypeInv, Follows
<1> QED BY <1>1, <1>2, SafeInvariant, PTL DEF Spec, FollowsProtocol, Protocol!Spec

=============================================================================
