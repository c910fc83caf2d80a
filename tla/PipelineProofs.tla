--------------------------- MODULE PipelineProofs ---------------------------
(***************************************************************************)
(* What run()'s pipeline promises on its way from the plan to the pull     *)
(* request, for every pool, every budget and every audit configuration,    *)
(* as long as one thread drives the task (the stall supervisor is off).    *)
(***************************************************************************)
EXTENDS TaskLifecycleProofs

-----------------------------------------------------------------------------
(***************************************************************************)
(* The invariant.  None of the three properties is inductive: that a       *)
(* pipeline reaches _commit_push in one of three states follows from where *)
(* the row is at every point of the subtask loop before it; that the head  *)
(* it publishes is audited, from what the summary holds after each stage;  *)
(* and that no exit strands the row, from both, because what an exit       *)
(* writes depends on where the thread was.                                 *)
(***************************************************************************)

(* The row while a thread is in the loop of its first pass.                *)
LoopOK(r, s) ==
  /\ r.pc = "planner" => s = "PLANNING"
  /\ r.ret = "commit" =>
       /\ r.pc = "sub" => s \in {"PLANNING", "PUSHING"} \/ (s = "TRIAGING_SUBTASK" /\ r.left > 0)
       /\ r.pc = "doing" => s = "DOING_SUBTASK"
       /\ r.pc = "check" => s = "CHECKING_SUBTASK"
  /\ r.pc = "fixup" => r.ret # "commit"
  /\ r.pc = "commit" => s \in {"PLANNING", "PUSHING"}

(* The stages that are over in the running cycle.                          *)
Over(r) == {StageOrder[i] : i \in 1..r.ran}

(* The stored summary q while a thread audits without a resumed one; d:    *)
(* the head moved since.                                                   *)
AuditOK(r, q, d) ==
  /\ r.pc = "settle" => r.ran = 5
  /\ r.pc \in {"stage", "settle"} /\ r.res = {} =>
       q.cycle = r.cyc /\ ~d /\ Over(r) \ r.failed \subseteq q.passed
  /\ r.pc = "openpr" /\ r.res = {} =>
       /\ ~d /\ Stages \ r.failed \subseteq q.passed
       /\ r.failed \subseteq DeferStages \ {"local_ci", "behavior"}

Resting == {"idle", "done", "teardown"}

(* States in which picker, watcher or operator find the row.               *)
Rests(s) == s \notin ACTIVE_STATES \ {"PROVISIONING"}

PipelineInv ==
  /\ up = "down" => \A w \in Workers : wk[w].pc = "idle"
  /\ \A w \in Workers : LoopOK(wk[w], st) /\ AuditOK(wk[w], row, stale)
  /\ up = "up" /\ ~pr /\ (\A w \in Workers : wk[w].pc \in Resting) => Rests(st)

Premise == TypeInv /\ TypeInv' /\ PublishInv /\ PipelineInv

LoopPCs  == {"planner", "sub", "doing", "check", "fixup", "commit"}
AuditPCs == {"stage", "settle", "openpr"}

LEMMA Elsewhere ==
  ASSUME NEW r, NEW s, NEW q, NEW d
  PROVE  /\ r.pc \notin LoopPCs => LoopOK(r, s)
         /\ r.pc \notin AuditPCs => AuditOK(r, q, d)
  BY DEF LoopPCs, AuditPCs, LoopOK, AuditOK

-----------------------------------------------------------------------------
(* What the helpers do at the points of the pipeline.                      *)

LEMMA LoopHelpers ==
  /\ \A s : ~Raises(s, "ENVIRONMENT_READY") => Fire(s, "ENVIRONMENT_READY") = "PLANNING"
  /\ \A s \in {"PLANNING", "PUSHING", "TRIAGING_SUBTASK"} : enter_doing_subtask(s) = "DOING_SUBTASK"
  /\ enter_checking_subtask("DOING_SUBTASK") = "CHECKING_SUBTASK"
  /\ enter_pushing(enter_committing("CHECKING_SUBTASK")) = "PUSHING"
  /\ enter_triaging_subtask("CHECKING_SUBTASK") = "TRIAGING_SUBTASK"
<1> USE DEF Fire, Raises, Invalid, target_for_event
<1>1. \A s : ~Raises(s, "ENVIRONMENT_READY") => Fire(s, "ENVIRONMENT_READY") = "PLANNING"
  OBVIOUS
<1>2. \A s \in {"PLANNING", "PUSHING", "TRIAGING_SUBTASK"} : enter_doing_subtask(s) = "DOING_SUBTASK"
  BY DEF enter_doing_subtask
<1>3. enter_checking_subtask("DOING_SUBTASK") = "CHECKING_SUBTASK"
  BY DEF enter_checking_subtask
<1>4. enter_committing("CHECKING_SUBTASK") = "COMMITTING"
  BY DEF enter_committing
<1>5. enter_pushing("COMMITTING") = "PUSHING"
  BY DEF enter_pushing
<1>6. enter_triaging_subtask("CHECKING_SUBTASK") = "TRIAGING_SUBTASK"
  BY DEF enter_triaging_subtask
<1> QED BY <1>1, <1>2, <1>3, <1>4, <1>5, <1>6

(* A block or a recorded crash ends in a state somebody looks at.          *)
LEMMA ExitsRest ==
  ASSUME NEW s \in State
  PROVE  Rests(block_current(s)) /\ Rests(safe_crash_current(s))
<1> USE DEF Rests, State, AuditStates, ACTIVE_STATES, TERMINAL_STATES, POST_PR_STATES,
            RETRYABLE_STATES, Fire, Raises, Invalid, target_for_event
<1>1. Rests(safe_crash_current(s))
  BY DEF safe_crash_current
<1>2. Rests(block_current(s))
  <2>1. CASE s \in {"TRIAGING_SUBTASK", "FIXUP_PLANNING", "CONFLICT_RESOLVING"}
    BY <2>1 DEF block_current
  <2>2. CASE s \in ACTIVE_STATES \ {"TRIAGING_SUBTASK", "FIXUP_PLANNING", "CONFLICT_RESOLVING"}
    <3>1. block_current(s) = "BLOCKED"
      BY <2>2 DEF block_current
    <3> QED BY <3>1
  <2>3. CASE s \notin ACTIVE_STATES
    <3>1. block_current(s) = s
      BY <2>3 DEF block_current
    <3> QED BY <2>3, <3>1
  <2> QED BY <2>1, <2>2, <2>3
<1> QED BY <1>1, <1>2

LEMMA QuietRests ==
  ASSUME NEW s \in Quiet
  PROVE  Rests(s) /\ (\A t \in State : Calm(s, t) => t \in Quiet)
  BY DEF Rests, Quiet, Calm, AuditStates, ACTIVE_STATES, TERMINAL_STATES

-----------------------------------------------------------------------------
(* A step of the thread that drives the task.                              *)

LEMMA DriverKeeps ==
  ASSUME Premise, NEW w \in Workers, wk[w].pc # "idle", NEW r, Become(w, r), up' = up,
         LoopOK(r, st'), AuditOK(r, row', stale'),
         r.pc \in Resting /\ up = "up" /\ ~pr' => Rests(st')
  PROVE  PipelineInv'
<1>1. wk'[w] = r /\ \A v \in Workers : v # w => wk[v].pc = "idle" /\ wk'[v] = wk[v]
  BY DEF Premise, PublishInv, Become, TypeInv, TypeOK
<1>2. up # "down"
  BY DEF Premise, PipelineInv
<1>3. ASSUME NEW v \in Workers PROVE LoopOK(wk'[v], st') /\ AuditOK(wk'[v], row', stale')
  <2>1. CASE v = w
    BY <1>1, <2>1
  <2>2. CASE v # w
    BY <1>1, <2>2, Elsewhere DEF LoopPCs, AuditPCs
  <2> QED BY <2>1, <2>2
<1> QED BY <1>1, <1>2, <1>3 DEF PipelineInv

(* The thread goes on at a point of which the invariant says nothing.      *)
LEMMA DriverLeaves ==
  ASSUME Premise, NEW w \in Workers, wk[w].pc # "idle", NEW r, Become(w, r), up' = up,
         r.pc \notin LoopPCs \cup AuditPCs \cup Resting
  PROVE  PipelineInv'
  BY Elsewhere, DriverKeeps

LEMMA GotoLeaves ==
  ASSUME Premise, NEW w \in Workers, wk[w].pc # "idle", NEW pc, Goto(w, pc), up' = up,
         pc \notin LoopPCs \cup AuditPCs \cup Resting
  PROVE  PipelineInv'
<1> DEFINE r == [wk[w] EXCEPT !.pc = pc]
<1>1. r.pc = pc
  BY DEF Premise, TypeInv, TypeOK, WorkerRecord
<1>2. Become(w, r)
  BY DEF Goto
<1> HIDE DEF r
<1> QED BY <1>1, <1>2, DriverLeaves

(* The entry point returns.                                                *)
LEMMA DriverReturns ==
  ASSUME Premise, NEW w \in Workers, wk[w].pc # "idle", Return(w), up' = up,
         up = "up" /\ ~pr' => Rests(st')
  PROVE  PipelineInv'
<1> DEFINE r == Returned(w)
<1>1. r.pc \in {"done", "poll", "teardown"}
  BY DEF Returned, Thread
<1>2. Become(w, r)
  BY DEF Return
<1> HIDE DEF r
<1>3. LoopOK(r, st') /\ AuditOK(r, row', stale')
  BY <1>1, Elsewhere DEF LoopPCs, AuditPCs
<1> QED BY <1>2, <1>3, DriverKeeps

(* A late thread without a pull request finds and leaves the row at rest.  *)
LEMMA LateRests ==
  ASSUME Premise, NEW w \in Workers, Late(wk[w]), ~pr, Calm(st, st')
  PROVE  Rests(st')
<1>1. st \in Quiet /\ st' \in State
  BY DEF Premise, PublishInv, TypeInv, TypeOK
<1> QED BY <1>1, QuietRests

LEMMA LateReturns ==
  ASSUME Premise, NEW w \in Workers, Late(wk[w]), Return(w), up' = up, pr' = pr,
         Calm(st, st') \/ pr
  PROVE  PipelineInv'
<1>1. wk[w].pc # "idle"
  BY DEF Late
<1> QED BY <1>1, LateRests, DriverReturns

LEMMA BlockReturns ==
  ASSUME Premise, NEW w \in Workers, wk[w].pc \notin {"idle", "done"}, ReturnBlocked(w),
         up' = up, pr' = pr
  PROVE  PipelineInv'
<1>1. /\ st \in State /\ block_current(st) \in State /\ Calm(st, block_current(st))
      /\ st' = BlockedState(w) /\ Return(w)
  BY HelperTypes, CalmHelpers DEF Premise, TypeInv, TypeOK, ReturnBlocked
<1>2. CASE InResponse(w)
  <2>1. Late(wk[w])
    BY <1>2 DEF InResponse, Late
  <2>2. Calm(st, st') \/ pr
    BY <1>1, <1>2, <2>1, PendingCiFits DEF BlockedState, Premise, TypeInv
  <2> QED BY <1>1, <2>1, <2>2, LateReturns
<1>3. CASE ~InResponse(w)
  BY <1>1, <1>3, ExitsRest, DriverReturns DEF BlockedState
<1> QED BY <1>2, <1>3

LEMMA RaiseReturns ==
  ASSUME Premise, NEW w \in Workers, wk[w].pc \notin {"idle", "done"}, NEW s \in State,
         Late(wk[w]) => Calm(st, s), Raise(w, s), up' = up, pr' = pr
  PROVE  PipelineInv'
<1>1. st' = RaisedState(w, s) /\ Return(w)
  BY DEF Raise
<1>2. CASE wk[w].job = "task" /\ ~InResponse(w)
  BY <1>1, <1>2, ExitsRest, DriverReturns DEF RaisedState
<1>3. CASE ~(wk[w].job = "task" /\ ~InResponse(w))
  <2>1. Late(wk[w])
    BY <1>3 DEF InResponse, Late
  <2>2. Calm(st, st') \/ pr
    BY <1>1, <1>3, <2>1, PendingCiFits DEF RaisedState, Premise, TypeInv
  <2> QED BY <1>1, <2>1, <2>2, LateReturns
<1> QED BY <1>2, <1>3

(* Somebody else writes the row, or nobody does.                           *)
LoopStates ==
  {"PLANNING", "PUSHING", "TRIAGING_SUBTASK", "DOING_SUBTASK", "CHECKING_SUBTASK"}

LEMMA RowWritten ==
  ASSUME Premise, wk' = wk, row'.cycle = row.cycle, row'.passed = row.passed, stale' = stale,
         up' = "down" => up = "down",
         st' = st \/ st \notin LoopStates \/ (\A w \in Workers : wk[w].pc = "idle"),
         up' = "up" /\ ~pr' => Rests(st') \/ (up = "up" /\ ~pr /\ st' = st)
  PROVE  PipelineInv'
<1>1. ASSUME NEW w \in Workers PROVE LoopOK(wk'[w], st')
  <2>1. LoopOK(wk[w], st)
    BY DEF Premise, PipelineInv
  <2>2. CASE st \notin LoopStates
    BY <2>1, <2>2 DEF LoopOK, LoopStates
  <2>3. CASE wk[w].pc = "idle"
    BY <2>3 DEF LoopOK
  <2> QED BY <2>1, <2>2, <2>3
<1>2. ASSUME NEW w \in Workers PROVE AuditOK(wk'[w], row', stale')
  <2>1. AuditOK(wk[w], row, stale)
    BY DEF Premise, PipelineInv
  <2> QED BY <2>1 DEF AuditOK
<1> QED BY <1>1, <1>2 DEF Premise, PipelineInv

-----------------------------------------------------------------------------
(* Every action keeps the invariant.                                       *)

LEMMA PlanPipeline ==
  ASSUME Premise, NEW w \in Workers, PlanStep(w)
  PROVE  PipelineInv'
<1> USE DEF At, github, daemon, ghosts
<1>0. /\ st \in State /\ wk[w] \in WorkerRecord /\ LoopOK(wk[w], st) /\ AuditOK(wk[w], row, stale)
      /\ row \in Rows
  BY DEF Premise, TypeInv, TypeOK, PipelineInv
<1>a. ASSUME wk[w].pc = "plan" PROVE ~Late(wk[w])
  BY <1>a DEF Premise, PublishInv, EarlyPCs, Late, LatePCs
<1>b. ASSUME NEW n, StartSet(w, n, "commit"), st' = "PLANNING", up' = up, wk[w].pc # "idle"
      PROVE  PipelineInv'
  <2> DEFINE r == [wk[w] EXCEPT !.pc = "sub", !.left = n, !.att = 0, !.ret = "commit"]
  <2>1. r.pc = "sub" /\ r.ret = "commit"
    BY <1>0 DEF WorkerRecord
  <2>2. Become(w, r)
    BY <1>b DEF StartSet
  <2> HIDE DEF r
  <2>3. LoopOK(r, st') /\ AuditOK(r, row', stale')
    BY <1>b, <2>1 DEF LoopOK, AuditOK
  <2> QED BY <1>b, <2>1, <2>2, <2>3, DriverKeeps DEF Resting
<1>1. CASE Provision(w)
  BY <1>1, GotoLeaves DEF Provision, LoopPCs, AuditPCs, Resting
<1>2. CASE ProvisionWorktree(w)
  BY <1>2, GotoLeaves DEF ProvisionWorktree, LoopPCs, AuditPCs, Resting
<1>3. CASE PlanFresh(w)
  <2> DEFINE r == [wk[w] EXCEPT !.pc = "planner"]
  <2>1. r.pc = "planner"
    BY <1>0 DEF WorkerRecord
  <2>2. Become(w, r) /\ st' = "PLANNING" /\ up' = up /\ wk[w].pc # "idle"
    BY <1>3, LoopHelpers DEF PlanFresh, Goto
  <2> HIDE DEF r
  <2>3. LoopOK(r, st') /\ AuditOK(r, row', stale')
    BY <2>1, <2>2 DEF LoopOK, AuditOK
  <2> QED BY <2>1, <2>2, <2>3, DriverKeeps DEF Resting
<1>4. CASE PlanResumed(w)
  BY <1>4, <1>b, LoopHelpers DEF PlanResumed
<1>5. CASE PlanUnparsable(w)
  <2>1. Fire(st, "ENVIRONMENT_READY") \in State
    BY <1>0, FireType
  <2> QED BY <1>5, <1>a, <2>1, RaiseReturns DEF PlanUnparsable
<1>6. CASE PlanOutOfState(w)
  BY <1>0, <1>6, <1>a, RaiseReturns DEF PlanOutOfState
<1>7. CASE PlannerEmits(w)
  <2>1. row'.cycle = row.cycle /\ row'.passed = row.passed
    BY <1>0, <1>7 DEF PlannerEmits, Rows
  <2> QED BY <1>7, <2>1, RowWritten DEF PlannerEmits
<1>8. CASE Planned(w)
  BY <1>0, <1>8, <1>b DEF Planned, LoopOK
<1>9. CASE PlannerExhausted(w)
  <2>1. block_current(st) \in State /\ Calm(st, block_current(st))
    BY <1>0, HelperTypes, CalmHelpers
  <2> QED BY <1>9, <2>1, RaiseReturns DEF PlannerExhausted
<1> QED BY <1>1, <1>2, <1>3, <1>4, <1>5, <1>6, <1>7, <1>8, <1>9 DEF PlanStep

LEMMA SubtaskPipeline ==
  ASSUME Premise, NEW w \in Workers, SubtaskStep(w)
  PROVE  PipelineInv'
<1> USE DEF At, github, daemon, ghosts
<1>0. /\ st \in State /\ wk[w] \in WorkerRecord /\ LoopOK(wk[w], st) /\ AuditOK(wk[w], row, stale)
      /\ InControl(wk[w])
  BY DEF Premise, TypeInv, TypeOK, ControlOK, PipelineInv
<1>a. ASSUME NEW r, Become(w, r), wk[w].pc # "idle", up' = up, r.pc \in LoopPCs, LoopOK(r, st')
      PROVE  PipelineInv'
  <2>1. AuditOK(r, row', stale') /\ r.pc \notin Resting
    BY <1>a, Elsewhere DEF LoopPCs, AuditPCs, Resting
  <2> QED BY <1>a, <2>1, DriverKeeps
<1>1. CASE SubtaskDo(w)
  <2> DEFINE r == [wk[w] EXCEPT !.pc = "doing"]
  <2>1. r.pc = "doing" /\ r.ret = wk[w].ret
    BY <1>0 DEF WorkerRecord
  <2>2. Become(w, r) /\ wk[w].pc = "sub" /\ up' = up /\ st' = enter_doing_subtask(st)
    BY <1>1 DEF SubtaskDo, Goto
  <2> HIDE DEF r
  <2>3. LoopOK(r, st')
    BY <1>0, <2>1, <2>2, LoopHelpers DEF LoopOK
  <2> QED BY <1>a, <2>1, <2>2, <2>3 DEF LoopPCs
<1>2. CASE SubtaskCheck(w)
  <2> DEFINE r == [wk[w] EXCEPT !.pc = "check"]
  <2>1. r.pc = "check" /\ r.ret = wk[w].ret
    BY <1>0 DEF WorkerRecord
  <2>2. Become(w, r) /\ wk[w].pc = "doing" /\ up' = up /\ st' = enter_checking_subtask(st)
    BY <1>2 DEF SubtaskCheck, Goto
  <2> HIDE DEF r
  <2>3. LoopOK(r, st')
    BY <1>0, <2>1, <2>2, LoopHelpers DEF LoopOK
  <2> QED BY <1>a, <2>1, <2>2, <2>3 DEF LoopPCs
<1>3. CASE SubtaskPass(w)
  <2> DEFINE r == [wk[w] EXCEPT !.pc = "sub", !.left = wk[w].left - 1, !.att = 0]
  <2>1. r.pc = "sub" /\ r.ret = wk[w].ret
    BY <1>0 DEF WorkerRecord
  <2>2. /\ Become(w, r) /\ wk[w].pc = "check" /\ up' = up
        /\ st' = enter_pushing(enter_committing(st))
    BY <1>3 DEF SubtaskPass
  <2> HIDE DEF r
  <2>3. LoopOK(r, st')
    BY <1>0, <2>1, <2>2, LoopHelpers DEF LoopOK
  <2> QED BY <1>a, <2>1, <2>2, <2>3 DEF LoopPCs
<1>4. CASE SubtaskTransient(w)
  <2> DEFINE r == [wk[w] EXCEPT !.pc = "sub"]
  <2>1. r.pc = "sub" /\ r.ret = wk[w].ret /\ r.left = wk[w].left
    BY <1>0 DEF WorkerRecord
  <2>2. Become(w, r) /\ wk[w].pc = "check" /\ up' = up /\ st' = enter_triaging_subtask(st)
    BY <1>4 DEF SubtaskTransient, Goto
  <2> HIDE DEF r
  <2>3. LoopOK(r, st')
    BY <1>0, <2>1, <2>2, LoopHelpers DEF LoopOK, InControl
  <2> QED BY <1>a, <2>1, <2>2, <2>3 DEF LoopPCs
<1>5. CASE SubtaskFail(w)
  <2> DEFINE r == [wk[w] EXCEPT !.pc = "sub", !.att = wk[w].att + 1]
  <2>1. r.pc = "sub" /\ r.ret = wk[w].ret /\ r.left = wk[w].left
    BY <1>0 DEF WorkerRecord
  <2>2. Become(w, r) /\ wk[w].pc = "check" /\ up' = up /\ st' = enter_triaging_subtask(st)
    BY <1>5 DEF SubtaskFail
  <2> HIDE DEF r
  <2>3. LoopOK(r, st')
    BY <1>0, <2>1, <2>2, LoopHelpers DEF LoopOK, InControl
  <2> QED BY <1>a, <2>1, <2>2, <2>3 DEF LoopPCs
<1>6. CASE SubtaskBlocked(w)
  BY <1>6, BlockReturns DEF SubtaskBlocked
<1>7. CASE SubtaskReconciles(w)
  <2>1. Become(w, wk[w])
    BY <1>7 DEF SubtaskReconciles, Become, Premise, TypeInv, TypeOK
  <2>2. wk[w].pc = "sub" /\ UNCHANGED <<st, up>>
    BY <1>7 DEF SubtaskReconciles
  <2> QED BY <1>0, <1>a, <2>1, <2>2 DEF LoopPCs
<1>8. CASE SubtasksDone(w)
  <2> DEFINE again == [wk[w] EXCEPT !.pc = "cycle", !.cyc = wk[w].cyc + 1, !.res = {},
                                    !.ret = "commit"]
             back  == [wk[w] EXCEPT !.pc = wk[w].ret, !.ret = "commit"]
  <2>1. wk[w].pc = "sub" /\ wk[w].left = 0 /\ UNCHANGED <<st, up>>
    BY <1>8 DEF SubtasksDone
  <2>2. CASE wk[w].ret = "cycle"
    <3>1. Become(w, again)
      BY <1>8, <2>2 DEF SubtasksDone
    <3>2. again.pc = "cycle"
      BY <1>0 DEF WorkerRecord
    <3> HIDE DEF again
    <3> QED BY <2>1, <3>1, <3>2, DriverLeaves DEF LoopPCs, AuditPCs, Resting
  <2>3. CASE wk[w].ret # "cycle"
    <3>1. Become(w, back) /\ wk[w].ret \in {"commit", "audit"}
      BY <1>0, <1>8, <2>3 DEF SubtasksDone, WorkerRecord
    <3>2. back.pc = wk[w].ret
      BY <1>0 DEF WorkerRecord
    <3> HIDE DEF back
    <3>3. CASE wk[w].ret = "audit"
      BY <2>1, <3>1, <3>2, <3>3, DriverLeaves DEF LoopPCs, AuditPCs, Resting
    <3>4. CASE wk[w].ret = "commit"
      <4>1. LoopOK(back, st')
        BY <1>0, <2>1, <3>2, <3>4 DEF LoopOK
      <4> QED BY <1>a, <2>1, <3>1, <3>2, <3>4, <4>1 DEF LoopPCs
    <3> QED BY <3>1, <3>3, <3>4
  <2> QED BY <2>2, <2>3
<1>9. CASE Commit(w)
  BY <1>9, GotoLeaves DEF Commit, LoopPCs, AuditPCs, Resting
<1> QED BY <1>1, <1>2, <1>3, <1>4, <1>5, <1>6, <1>7, <1>8, <1>9 DEF SubtaskStep

LEMMA StagesOver ==
  /\ \A r : r.ran = 0 => Over(r) = {}
  /\ \A r : r.ran = 5 => Over(r) = Stages
  /\ \A r, q : r.ran \in 0..4 /\ q.ran = r.ran + 1 =>
       Over(q) = Over(r) \cup {StageOrder[r.ran + 1]}
<1>1. ASSUME NEW r, r.ran = 0 PROVE Over(r) = {}
  <2>1. 1..0 = {}
    OBVIOUS
  <2> QED BY <1>1, <2>1 DEF Over
<1>2. ASSUME NEW r, r.ran = 5 PROVE Over(r) = Stages
  <2>1. 1..5 = {1, 2, 3, 4, 5}
    OBVIOUS
  <2>2. {StageOrder[i] : i \in {1, 2, 3, 4, 5}} = Stages
    BY DEF StageOrder, Stages
  <2> QED BY <1>2, <2>1, <2>2 DEF Over
<1>3. ASSUME NEW r, NEW q, r.ran \in 0..4, q.ran = r.ran + 1
      PROVE  Over(q) = Over(r) \cup {StageOrder[r.ran + 1]}
  <2>1. 1..q.ran = (1..r.ran) \cup {r.ran + 1}
    BY <1>3
  <2> QED BY <2>1 DEF Over
<1> QED BY <1>1, <1>2, <1>3

(* A stage is over; the summary knows if it passed.                        *)
LEMMA StageKeeps ==
  ASSUME Premise, NEW w \in Workers, At(w, "stage"), up' = up,
         NEW failed \in SUBSET Stages, StageOver(w, wk[w].ran + 1, failed),
         wk[w].res = {} =>
           /\ row'.cycle = wk[w].cyc /\ ~stale'
           /\ (Over(wk[w]) \cup {StageOrder[wk[w].ran + 1]}) \ failed \subseteq row'.passed
  PROVE  PipelineInv'
<1> DEFINE pc == IF wk[w].ran + 1 = 5 THEN "settle" ELSE "stage"
           r == [wk[w] EXCEPT !.pc = pc, !.ran = wk[w].ran + 1, !.failed = failed]
<1>1. wk[w] \in WorkerRecord /\ wk[w].ran \in 0..4 /\ wk[w].pc = "stage"
  BY DEF Premise, TypeInv, TypeOK, ControlOK, InControl, WorkerRecord, At
<1>2. Become(w, r)
  BY DEF StageOver
<1>3. pc \in {"settle", "stage"} /\ (pc = "settle" => wk[w].ran + 1 = 5)
  OBVIOUS
<1> HIDE DEF pc
<1>4. /\ r.pc = pc /\ r.ran = wk[w].ran + 1 /\ r.failed = failed /\ r.res = wk[w].res
      /\ r.cyc = wk[w].cyc
  BY <1>1 DEF WorkerRecord
<1> HIDE DEF r
<1>5. Over(r) = Over(wk[w]) \cup {StageOrder[wk[w].ran + 1]}
  BY <1>1, <1>4, StagesOver
<1>6. LoopOK(r, st') /\ AuditOK(r, row', stale') /\ r.pc \notin Resting
  BY <1>3, <1>4, <1>5 DEF LoopOK, AuditOK, Resting
<1> QED BY <1>1, <1>2, <1>6, DriverKeeps

LEMMA AuditPipeline ==
  ASSUME Premise, NEW w \in Workers, AuditStep(w)
  PROVE  PipelineInv'
<1> USE DEF At, github, daemon, ghosts
<1>0. /\ st \in State /\ wk[w] \in WorkerRecord /\ LoopOK(wk[w], st) /\ AuditOK(wk[w], row, stale)
      /\ InControl(wk[w]) /\ row \in Rows /\ pr \in BOOLEAN
  BY DEF Premise, TypeInv, TypeOK, ControlOK, PipelineInv
<1>1. CASE AuditStart(w)
  <2> DEFINE resumable == row.cycle \in 1..MaxCycles /\ row.passed # {}
             r == [wk[w] EXCEPT !.pc = "cycle",
                                !.cyc = IF resumable THEN row.cycle ELSE 1,
                                !.res = IF resumable THEN row.passed ELSE {}]
  <2>1. r.pc = "cycle"
    BY <1>0 DEF WorkerRecord
  <2>2. Become(w, r) /\ wk[w].pc = "audit" /\ up' = up
    BY <1>1 DEF AuditStart
  <2> HIDE DEF r
  <2> QED BY <2>1, <2>2, DriverLeaves DEF LoopPCs, AuditPCs, Resting
<1>2. CASE CyclesExhausted(w)
  BY <1>2, BlockReturns DEF CyclesExhausted
<1>3. CASE BootstrapBlocked(w)
  BY <1>3, BlockReturns DEF BootstrapBlocked
<1>4. CASE CycleStart(w)
  <2> DEFINE r == [wk[w] EXCEPT !.pc = "stage", !.ran = 0, !.failed = {}]
  <2>1. r.pc = "stage" /\ r.ran = 0 /\ r.res = wk[w].res /\ r.cyc = wk[w].cyc
    BY <1>0 DEF WorkerRecord
  <2>2. Become(w, r) /\ wk[w].pc = "cycle" /\ up' = up
    BY <1>4 DEF CycleStart
  <2>3. wk[w].res = {} => row'.cycle = wk[w].cyc /\ ~stale'
    BY <1>0, <1>4 DEF CycleStart, Rows
  <2> HIDE DEF r
  <2>4. Over(r) = {}
    BY <2>1, StagesOver
  <2>5. LoopOK(r, st') /\ AuditOK(r, row', stale') /\ r.pc \notin Resting
    BY <2>1, <2>3, <2>4 DEF LoopOK, AuditOK, Resting
  <2> QED BY <2>2, <2>5, DriverKeeps
<1>a. ASSUME wk[w].pc = "stage"
      PROVE  /\ wk[w].failed \in SUBSET Stages /\ StageOrder[wk[w].ran + 1] \in Stages
             /\ wk[w].res = {} => /\ row.cycle = wk[w].cyc /\ ~stale
                                 /\ Over(wk[w]) \ wk[w].failed \subseteq row.passed
  <2>1. wk[w].ran \in 0..4
    BY <1>0, <1>a DEF InControl, WorkerRecord
  <2>2. \A i \in 1..5 : StageOrder[i] \in Stages
    BY DEF StageOrder, Stages
  <2> QED BY <1>0, <1>a, <2>1, <2>2 DEF AuditOK, WorkerRecord
<1>b. ASSUME NEW stage, NEW p, row.cycle = wk[w].cyc
      PROVE  /\ RecordStage(wk[w].cyc, stage, p).cycle = wk[w].cyc
             /\ RecordStage(wk[w].cyc, stage, p).passed =
                  IF p THEN row.passed \cup {stage} ELSE row.passed \ {stage}
  BY <1>0, <1>b DEF RecordStage, Rows
<1>5. CASE StageReused(w)
  <2>1. wk[w].pc = "stage" /\ wk[w].res # {} /\ StageOver(w, wk[w].ran + 1, wk[w].failed)
        /\ up' = up
    BY <1>5 DEF StageReused
  <2> QED BY <1>a, <2>1, StageKeeps
<1>6. CASE StagePasses(w)
  <2> DEFINE stage == StageOrder[wk[w].ran + 1]
  <2>1. /\ wk[w].pc = "stage" /\ StageOver(w, wk[w].ran + 1, wk[w].failed) /\ up' = up
        /\ row' = RecordStage(wk[w].cyc, stage, TRUE) /\ stale' = (stale /\ row.cycle = wk[w].cyc)
    BY <1>6 DEF StagePasses
  <2> HIDE DEF stage
  <2>2. wk[w].res = {} =>
          /\ row'.cycle = wk[w].cyc /\ ~stale'
          /\ (Over(wk[w]) \cup {stage}) \ wk[w].failed \subseteq row'.passed
    BY <1>a, <1>b, <2>1
  <2> QED BY <1>a, <2>1, <2>2, StageKeeps DEF stage
<1>7. CASE StageFails(w)
  <2> DEFINE stage == StageOrder[wk[w].ran + 1]
             failed == wk[w].failed \cup {stage}
  <2>1. /\ wk[w].pc = "stage" /\ StageOver(w, wk[w].ran + 1, failed) /\ up' = up
        /\ row' = RecordStage(wk[w].cyc, stage, FALSE) /\ stale' = (stale /\ row.cycle = wk[w].cyc)
    BY <1>7 DEF StageFails
  <2>2. failed \in SUBSET Stages
    BY <1>a, <2>1
  <2> HIDE DEF stage
  <2>3. wk[w].res = {} =>
          row'.cycle = wk[w].cyc /\ ~stale' /\ row'.passed = row.passed \ {stage}
    BY <1>a, <1>b, <2>1
  <2>4. wk[w].res = {} => (Over(wk[w]) \cup {stage}) \ failed \subseteq row'.passed
    BY <1>a, <2>1, <2>3
  <2> QED BY <2>1, <2>2, <2>3, <2>4, StageKeeps DEF stage
<1>8. CASE StageShutdown(w)
  <2>1. wk[w].pc = "stage" /\ up = "stopping" /\ up' = up
    BY <1>8 DEF StageShutdown
  <2>2. CASE InResponse(w)
    <3>1. Goto(w, "fbdone")
      BY <1>8, <2>2 DEF StageShutdown
    <3> QED BY <2>1, <3>1, GotoLeaves DEF LoopPCs, AuditPCs, Resting
  <2>3. CASE ~InResponse(w)
    <3>1. Return(w)
      BY <1>8, <2>3 DEF StageShutdown
    <3> QED BY <2>1, <3>1, DriverReturns
  <2> QED BY <2>2, <2>3
<1>c. ASSUME AuditSettled(w), wk[w].pc = "settle", UNCHANGED <<row, stale, up>>,
             wk[w].failed \subseteq DeferStages \ {"local_ci", "behavior"}
      PROVE  PipelineInv'
  <2>1. CASE InResponse(w)
    <3>1. Goto(w, "fbdone")
      BY <1>c, <2>1 DEF AuditSettled
    <3> QED BY <1>c, <3>1, GotoLeaves DEF LoopPCs, AuditPCs, Resting
  <2>2. CASE ~InResponse(w)
    <3> DEFINE r == [wk[w] EXCEPT !.pc = "openpr"]
    <3>1. Become(w, r)
      BY <1>c, <2>2 DEF AuditSettled, Goto
    <3>2. r.pc = "openpr" /\ r.res = wk[w].res /\ r.failed = wk[w].failed
      BY <1>0 DEF WorkerRecord
    <3> HIDE DEF r
    <3>3. Over(wk[w]) = Stages
      BY <1>0, <1>c, StagesOver DEF AuditOK
    <3>4. LoopOK(r, st') /\ AuditOK(r, row', stale') /\ r.pc \notin Resting
      BY <1>0, <1>c, <3>2, <3>3 DEF LoopOK, AuditOK, Resting
    <3> QED BY <1>c, <3>1, <3>4, DriverKeeps
  <2> QED BY <2>1, <2>2
<1>9. CASE SettlePassed(w)
  BY <1>9, <1>c DEF SettlePassed
<1>10. CASE SettleDeferred(w)
  BY <1>10, <1>c DEF SettleDeferred, ValveMayOpen
<1>11. CASE SettleStructural(w)
  BY <1>11, BlockReturns DEF SettleStructural
<1>12. CASE SettleFixup(w)
  <2> DEFINE r == [wk[w] EXCEPT !.pc = "fixup", !.ret = "cycle", !.res = {}, !.ran = 0,
                                !.failed = {}]
  <2>1. r.pc = "fixup" /\ r.ret = "cycle"
    BY <1>0 DEF WorkerRecord
  <2>2. Become(w, r) /\ wk[w].pc = "settle" /\ up' = up
    BY <1>12 DEF SettleFixup
  <2> HIDE DEF r
  <2>3. LoopOK(r, st') /\ AuditOK(r, row', stale') /\ r.pc \notin Resting
    BY <2>1 DEF LoopOK, AuditOK, Resting
  <2> QED BY <2>2, <2>3, DriverKeeps
<1>13. CASE FixupPlanned(w)
  <2>1. PICK n : StartSet(w, n, wk[w].ret)
    BY <1>13 DEF FixupPlanned
  <2> DEFINE r == [wk[w] EXCEPT !.pc = "sub", !.left = n, !.att = 0, !.ret = wk[w].ret]
  <2>2. r.pc = "sub" /\ r.ret = wk[w].ret
    BY <1>0 DEF WorkerRecord
  <2>3. Become(w, r) /\ wk[w].pc = "fixup" /\ up' = up
    BY <1>13, <2>1 DEF FixupPlanned, StartSet
  <2> HIDE DEF r
  <2>4. LoopOK(r, st') /\ AuditOK(r, row', stale') /\ r.pc \notin Resting
    BY <1>0, <2>2, <2>3 DEF LoopOK, AuditOK, Resting
  <2> QED BY <2>3, <2>4, DriverKeeps
<1>14. CASE FixupRejected(w)
  BY <1>14, BlockReturns DEF FixupRejected
<1> QED BY <1>1, <1>2, <1>3, <1>4, <1>5, <1>6, <1>7, <1>8, <1>9, <1>10, <1>11, <1>12, <1>13,
           <1>14 DEF AuditStep

LEMMA PrPipeline ==
  ASSUME Premise, NEW w \in Workers, PrStep(w)
  PROVE  PipelineInv'
<1> USE DEF At, github, daemon, ghosts
<1>0. /\ st \in State /\ wk[w] \in WorkerRecord /\ Calm(st, st) /\ pr \in BOOLEAN
      /\ StartTask(st) \in State /\ Calm(st, StartTask(st))
  BY HelperTypes, CalmHelpers DEF Premise, TypeInv, TypeOK
<1>a. ASSUME wk[w].pc \in LatePCs PROVE Late(wk[w])
  BY <1>a DEF Late, LatePCs
<1>b. ASSUME NEW r, Become(w, r), r.pc = "fixup", r.ret = "audit", wk[w].pc # "idle", up' = up
      PROVE  PipelineInv'
  <2>1. LoopOK(r, st') /\ AuditOK(r, row', stale') /\ r.pc \notin Resting
    BY <1>b DEF LoopOK, AuditOK, Resting
  <2> QED BY <1>b, <2>1, DriverKeeps
<1>1. CASE OpenPr(w)
  <2> DEFINE r == Thread(IF pr THEN "pollstart" ELSE "create", "task")
  <2>1. r.pc \in {"pollstart", "create"}
    BY DEF Thread
  <2>2. Become(w, r) /\ wk[w].pc = "openpr" /\ up' = up
    BY <1>1 DEF OpenPr
  <2> HIDE DEF r
  <2> QED BY <2>1, <2>2, DriverLeaves DEF LoopPCs, AuditPCs, Resting
<1>2. CASE CreatePr(w)
  BY <1>2, GotoLeaves DEF CreatePr, LoopPCs, AuditPCs, Resting
<1>3. CASE RecordPr(w)
  BY <1>3, GotoLeaves DEF RecordPr, LoopPCs, AuditPCs, Resting
<1>4. CASE PollStart(w)
  <2> DEFINE r == Thread("poll", "task")
  <2>1. r.pc = "poll"
    BY DEF Thread
  <2>2. Become(w, r) /\ wk[w].pc = "pollstart" /\ up' = up
    BY <1>4 DEF PollStart
  <2> HIDE DEF r
  <2> QED BY <2>1, <2>2, DriverLeaves DEF LoopPCs, AuditPCs, Resting
<1>5. CASE PollTerminal(w)
  <2>1. Late(wk[w])
    BY <1>5, <1>a DEF PollTerminal, LatePCs
  <2> QED BY <1>0, <1>5, <2>1, LateReturns DEF PollTerminal
<1>6. CASE PollMerged(w)
  BY <1>0, <1>6, DriverReturns DEF PollMerged, Polling
<1>7. CASE PollClosed(w)
  BY <1>0, <1>7, DriverReturns DEF PollClosed, Polling
<1>8. CASE PollConflict(w)
  BY <1>8, GotoLeaves DEF PollConflict, Polling, LoopPCs, AuditPCs, Resting
<1>9. CASE PollConflictNoContainer(w)
  BY <1>0, <1>9, DriverReturns DEF PollConflictNoContainer, Polling, Raise
<1>10. CASE PollCiFails(w)
  <2> DEFINE r == [wk[w] EXCEPT !.pc = "fixup", !.trig = "ci", !.ret = "audit",
                                !.tries = wk[w].tries + 1]
  <2>1. r.pc = "fixup" /\ r.ret = "audit"
    BY <1>0 DEF WorkerRecord
  <2>2. Become(w, r) /\ wk[w].pc = "poll" /\ up' = up
    BY <1>10 DEF PollCiFails, Polling
  <2> HIDE DEF r
  <2> QED BY <1>b, <2>1, <2>2
<1>11. CASE PollGreen(w)
  <2>1. Late(wk[w])
    BY <1>11, <1>a DEF PollGreen, Polling, LatePCs
  <2> QED BY <1>0, <1>11, <2>1, LateReturns DEF PollGreen
<1>12. CASE PollBudgetSpent(w)
  BY <1>0, <1>12, RaiseReturns DEF PollBudgetSpent, Polling
<1>13. CASE FeedbackStart(w)
  <2>1. CASE row.wt
    <3> DEFINE r == [wk[w] EXCEPT !.pc = "fixup", !.trig = wk[w].job, !.ret = "audit"]
    <3>1. r.pc = "fixup" /\ r.ret = "audit"
      BY <1>0 DEF WorkerRecord
    <3>2. Become(w, r) /\ wk[w].pc = "fbstart" /\ up' = up
      BY <1>13, <2>1 DEF FeedbackStart
    <3> HIDE DEF r
    <3> QED BY <1>b, <3>1, <3>2
  <2>2. CASE ~row.wt
    BY <1>0, <1>13, <2>2, RaiseReturns DEF FeedbackStart
  <2> QED BY <2>1, <2>2
<1>14. CASE FeedbackDone(w)
  <2>1. Late(wk[w])
    BY <1>14, <1>a DEF FeedbackDone, LatePCs
  <2>2. Calm(st, st') \/ pr
    BY <1>0, <1>14, <2>1, PendingCiFits DEF FeedbackDone, Premise, TypeInv
  <2> QED BY <1>14, <2>1, <2>2, LateReturns DEF FeedbackDone
<1> QED BY <1>1, <1>2, <1>3, <1>4, <1>5, <1>6, <1>7, <1>8, <1>9, <1>10, <1>11, <1>12, <1>13,
           <1>14 DEF PrStep

LEMMA RebasePipeline ==
  ASSUME Premise, NEW w \in Workers, RebaseStep(w)
  PROVE  PipelineInv'
<1> USE DEF At, github, daemon, ghosts
<1>0. /\ st \in State /\ Calm(st, st) /\ pr \in BOOLEAN /\ TypeOK /\ PublishInv
      /\ block_current(st) \in State /\ Calm(st, block_current(st))
      /\ StartTask(st) \in State /\ Calm(st, StartTask(st))
  BY HelperTypes, CalmHelpers DEF Premise, TypeInv, TypeOK
<1>a. Late(wk[w]) /\ wk[w].pc \in LatePCs /\ up' = up
  BY DEF RebaseStep, RebaseStart, RebaseFetchFails, RebaseClean, RebaseConflicts,
         ConflictResolved, RebaseBlocked, RebaseFinish, Rebased, Late, LatePCs
<1>b. wk[w].pc \notin {"idle", "done"}
  BY <1>a DEF LatePCs
<1>c. ASSUME NEW s \in {st, block_current(st)} PROVE Calm(st, enter_pending_ci(s)) \/ pr
  BY <1>0, <1>a, PendingCiFits
<1>d. ASSUME Rebased(w) PROVE PipelineInv'
  <2>1. Goto(w, "rbfinish") \/ Goto(w, "poll")
    BY <1>d DEF Rebased
  <2> QED BY <1>a, <1>b, <2>1, GotoLeaves DEF LoopPCs, AuditPCs, Resting
<1>1. CASE RebaseStart(w)
  <2>1. CASE row.wt
    BY <1>1, <1>a, <1>b, <2>1, GotoLeaves DEF RebaseStart, LoopPCs, AuditPCs, Resting
  <2>2. CASE ~row.wt
    BY <1>0, <1>1, <1>b, <2>2, RaiseReturns DEF RebaseStart
  <2> QED BY <2>1, <2>2
<1>2. CASE RebaseFetchFails(w)
  BY <1>0, <1>2, <1>a, <1>c, LateReturns DEF RebaseFetchFails
<1>3. CASE RebaseClean(w)
  BY <1>3, <1>d DEF RebaseClean
<1>4. CASE RebaseConflicts(w)
  BY <1>4, <1>a, <1>b, GotoLeaves DEF RebaseConflicts, LoopPCs, AuditPCs, Resting
<1>5. CASE ConflictResolved(w)
  BY <1>5, <1>d DEF ConflictResolved
<1>6. CASE RebaseBlocked(w)
  BY <1>0, <1>6, <1>a, LateReturns DEF RebaseBlocked
<1>7. CASE RebaseFinish(w)
  <2>1. CASE pr' = pr
    BY <1>7, <1>a, <1>c, <2>1, LateReturns DEF RebaseFinish
  <2>2. CASE pr' # pr
    BY <1>7, <1>a, <1>b, <2>2, DriverReturns DEF RebaseFinish
  <2> QED BY <2>1, <2>2
<1> QED BY <1>1, <1>2, <1>3, <1>4, <1>5, <1>6, <1>7 DEF RebaseStep

LEMMA WorkerPipeline ==
  ASSUME Premise, NEW w \in Workers, WorkerStep(w)
  PROVE  PipelineInv'
<1>1. CASE WorkerRaises(w)
  <2>1. st \in State /\ Calm(st, st)
    BY CalmHelpers DEF Premise, TypeInv, TypeOK
  <2> QED BY <1>1, <2>1, RaiseReturns DEF WorkerRaises, daemon
<1>2. CASE Teardown(w)
  <2> DEFINE r == Thread("done", "none")
  <2>1. r.pc = "done"
    BY DEF Thread
  <2>2. wk[w].pc = "teardown" /\ Become(w, r) /\ UNCHANGED <<st, pr, up>>
    BY <1>2 DEF Teardown, At, daemon
  <2> HIDE DEF r
  <2>3. \A v \in Workers : wk[v].pc \in Resting
    BY <2>2 DEF Premise, PublishInv, Resting
  <2>4. up = "up" /\ ~pr' => Rests(st')
    BY <2>2, <2>3 DEF Premise, PipelineInv
  <2>5. LoopOK(r, st') /\ AuditOK(r, row', stale')
    BY <2>1 DEF LoopOK, AuditOK
  <2> QED BY <2>2, <2>4, <2>5, DriverKeeps
<1> QED BY <1>1, <1>2, PlanPipeline, SubtaskPipeline, AuditPipeline, PrPipeline, RebasePipeline
        DEF WorkerStep

-----------------------------------------------------------------------------
(* The main loop, the process and the operator.                            *)

LEMMA SubmitPipeline ==
  ASSUME Premise, LoopFree, NEW w \in Workers, NEW pc, NEW job, Submit(w, pc, job), up' = up,
         pc \notin LoopPCs \cup AuditPCs \cup Resting
  PROVE  PipelineInv'
<1> DEFINE r == Thread(pc, job)
<1>1. r.pc = pc
  BY DEF Thread
<1>2. wk'[w] = r /\ \A v \in Workers : v # w => wk'[v].pc = "idle"
  BY WorkersAssumption DEF Premise, PublishInv, LoopFree, Submit, Become, TypeInv, TypeOK
<1> HIDE DEF r
<1>3. \A v \in Workers : wk'[v].pc \notin LoopPCs \cup AuditPCs
  BY <1>1, <1>2 DEF LoopPCs, AuditPCs
<1>4. \A v \in Workers : LoopOK(wk'[v], st') /\ AuditOK(wk'[v], row', stale')
  BY <1>3, Elsewhere
<1> QED BY <1>1, <1>2, <1>4 DEF PipelineInv, LoopFree

LEMMA IdlePipeline ==
  ASSUME \A w \in Workers : wk'[w].pc = "idle", up' = "up" /\ ~pr' => Rests(st')
  PROVE  PipelineInv'
<1>1. \A w \in Workers : LoopOK(wk'[w], st') /\ AuditOK(wk'[w], row', stale')
  BY Elsewhere DEF LoopPCs, AuditPCs
<1> QED BY <1>1 DEF PipelineInv

LEMMA LoopPipeline ==
  ASSUME Premise, ~StallOn, LoopStep
  PROVE  PipelineInv'
<1> USE DEF github, daemon, ghosts
<1>0. st \in State /\ pr \in BOOLEAN /\ up \in {"up", "stopping", "failed", "down"} /\ sup # "recover"
  BY DEF Premise, TypeInv, TypeOK, PublishInv
<1>a. ASSUME LoopFree PROVE \A w \in Workers : wk[w].pc = "idle"
  BY <1>a, WorkersAssumption DEF Premise, PublishInv, LoopFree
<1>b. {"prov", "rbstart", "fbstart"} \cap (LoopPCs \cup AuditPCs \cup Resting) = {}
  BY DEF LoopPCs, AuditPCs, Resting
<1>1. ASSUME NEW w \in Workers, Dispatch(w) PROVE PipelineInv'
  BY <1>1, <1>b, SubmitPipeline DEF Dispatch
<1>2. ASSUME NEW w \in Workers, Reap(w) PROVE PipelineInv'
  <2>1. \A v \in Workers : wk'[v].pc = "idle" /\ wk[v].pc \in Resting
    BY <1>2 DEF Reap, At, Become, Thread, Premise, PublishInv, TypeInv, TypeOK, Resting
  <2>2. up = "up" /\ ~pr' => Rests(st')
    BY <1>2, <2>1 DEF Reap, Premise, PipelineInv
  <2> QED BY <1>2, <2>1, <2>2, IdlePipeline DEF Reap
<1>3. ASSUME NEW w \in Workers, Forgotten(w) PROVE PipelineInv'
  BY <1>3 DEF Forgotten, At, Premise, PublishInv
<1>4. ASSUME NEW w \in Workers, WatchConflict(w) PROVE PipelineInv'
  BY <1>4, <1>b, SubmitPipeline DEF WatchConflict, Watched
<1>5. ASSUME NEW w \in Workers, WatchCiFails(w) PROVE PipelineInv'
  BY <1>5, <1>b, SubmitPipeline DEF WatchCiFails, Watched
<1>6. ASSUME NEW w \in Workers, WatchChanges(w) PROVE PipelineInv'
  BY <1>6, <1>b, SubmitPipeline DEF WatchChanges, Reviewed, Watched
<1>7. CASE WatchMerged
  BY <1>0, <1>7, <1>a, IdlePipeline DEF WatchMerged, Watched
<1>8. CASE BridgeMerged
  <2>1. st' = st \/ (st = "PENDING" /\ st' = "MERGED")
    BY <1>8 DEF BridgeMerged, Fire, Raises, Invalid, target_for_event
  <2>2. UNCHANGED <<pr, row, wk, stale>> /\ (up' = up \/ up' = "failed")
    BY <1>8 DEF BridgeMerged
  <2>3. "PENDING" \notin LoopStates /\ Rests("MERGED")
    BY DEF LoopStates, Rests, AuditStates, ACTIVE_STATES
  <2> QED BY <2>1, <2>2, <2>3, RowWritten
<1>9. CASE WatchClosed
  BY <1>0, <1>9, <1>a, IdlePipeline DEF WatchClosed, Watched
<1>10. CASE WatchCiPasses
  BY <1>0, <1>10, <1>a, IdlePipeline DEF WatchCiPasses, Watched
<1>11. CASE WatchRoundsExhausted
  BY <1>0, <1>11, <1>a, IdlePipeline DEF WatchRoundsExhausted, Reviewed, Watched
<1>12. CASE WatchApproval
  BY <1>0, <1>12, <1>a, IdlePipeline DEF WatchApproval, Reviewed, Watched
<1>13. ~StallDetect /\ ~StallRecover
  BY <1>0 DEF StallDetect, StallRecover
<1> QED BY <1>1, <1>2, <1>3, <1>4, <1>5, <1>6, <1>7, <1>8, <1>9, <1>10, <1>11, <1>12, <1>13
        DEF LoopStep

LEMMA ProcessPipeline ==
  ASSUME Premise, ProcessStep
  PROVE  PipelineInv'
<1> USE DEF github, daemon, ghosts
<1>0. st \in State /\ pr \in BOOLEAN /\ row \in Rows
  BY DEF Premise, TypeInv, TypeOK
<1>1. CASE StopRequested
  BY <1>1, RowWritten DEF StopRequested
<1>2. ASSUME ProcessGone PROVE PipelineInv'
  <2>1. \A w \in Workers : wk'[w].pc = "idle"
    BY <1>2 DEF ProcessGone, Thread
  <2> QED BY <1>2, <2>1, IdlePipeline DEF ProcessGone
<1>3. ASSUME NEW retry_failed \in BOOLEAN, Restart(retry_failed) PROVE PipelineInv'
  <2>1. \A w \in Workers : wk'[w].pc = "idle"
    BY <1>3 DEF Restart, Premise, PipelineInv
  <2>2. ~pr => st' = "PENDING" \/ (st' = st /\ st \notin ACTIVE_STATES)
    BY <1>0, <1>3 DEF Restart, recover_after_crash, Fire, Raises, Invalid, target_for_event,
         State, AuditStates, ACTIVE_STATES, TERMINAL_STATES, POST_PR_STATES, RETRYABLE_STATES
  <2>3. ~pr => Rests(st')
    BY <2>2 DEF Rests, AuditStates, ACTIVE_STATES
  <2> QED BY <1>3, <2>1, <2>3, IdlePipeline DEF Restart
<1> QED BY <1>1, <1>2, <1>3 DEF ProcessStep, Exit, Killed

LEMMA OutsidePipeline ==
  ASSUME Premise, OutsideStep
  PROVE  PipelineInv'
<1> USE DEF github, daemon, ghosts
<1>0. st \in State /\ pr \in BOOLEAN /\ row \in Rows
  BY DEF Premise, TypeInv, TypeOK
<1>a. /\ \A s \in {"PENDING", "MERGED", "ABORTED"} : Rests(s)
      /\ LoopStates \cap (RETRYABLE_STATES \cup AuditStates \cup POST_PR_STATES
           \cup {"PENDING", "REBASING_TO_MAIN", "CONFLICT_RESOLVING"}) = {}
  BY DEF Rests, LoopStates, AuditStates, ACTIVE_STATES, RETRYABLE_STATES, POST_PR_STATES
<1>b. row'.cycle = row.cycle /\ row'.passed = row.passed
  BY <1>0 DEF OutsideStep, Retry, RetryRefused, Resume, Abort, MarkMerged, MarkMergedFinish,
              SubmitReview, MergeOrClosePr, Rows
<1>1. CASE Retry
  <2>1. st \in RETRYABLE_STATES /\ st' = "PENDING"
    BY <1>1 DEF Retry, Fire, Raises, Invalid, target_for_event, AuditStates, POST_PR_STATES,
         ACTIVE_STATES, RETRYABLE_STATES
  <2> QED BY <1>1, <1>a, <1>b, <2>1, RowWritten DEF Retry
<1>2. CASE Resume
  <2>1. st \in RETRYABLE_STATES /\ st' = "PENDING"
    BY <1>2 DEF Resume, Fire, Raises, Invalid, target_for_event, AuditStates, POST_PR_STATES,
         ACTIVE_STATES, RETRYABLE_STATES
  <2> QED BY <1>2, <1>a, <1>b, <2>1, RowWritten DEF Resume
<1>3. CASE Abort
  <2>1. st = "PENDING" /\ st' = "ABORTED"
    BY <1>3 DEF Abort, Fire, Raises, Invalid, target_for_event
  <2> QED BY <1>3, <1>a, <1>b, <2>1, RowWritten DEF Abort
<1>4. CASE MarkMerged
  <2>1. /\ st \in RETRYABLE_STATES \cup AuditStates \cup POST_PR_STATES
                    \cup {"PENDING", "REBASING_TO_MAIN", "CONFLICT_RESOLVING"}
        /\ st' \in {"MERGED", "PENDING"}
    BY <1>4 DEF MarkMerged, mark_merged
  <2> QED BY <1>4, <1>a, <1>b, <2>1, RowWritten DEF MarkMerged
<1>5. CASE MarkMergedFinish
  <2>1. st' = st \/ (st = "PENDING" /\ st' = "MERGED")
    BY <1>5 DEF MarkMergedFinish, Fire, Raises, Invalid, target_for_event
  <2> QED BY <1>5, <1>a, <1>b, <2>1, RowWritten DEF MarkMergedFinish
<1>6. CASE SubmitReview
  BY <1>6, RowWritten DEF SubmitReview
<1>7. CASE MergeOrClosePr
  BY <1>7, RowWritten DEF MergeOrClosePr
<1>8. CASE RetryRefused
  BY <1>8, <1>b, RowWritten DEF RetryRefused
<1> QED BY <1>1, <1>2, <1>3, <1>4, <1>5, <1>6, <1>7, <1>8 DEF OutsideStep

LEMMA NextPipeline ==
  ASSUME Premise, ~StallOn, [Next]_vars
  PROVE  PipelineInv'
<1>1. CASE UNCHANGED vars
  BY <1>1, RowWritten DEF vars
<1> QED BY <1>1, WorkerPipeline, LoopPipeline, ProcessPipeline, OutsidePipeline DEF Next

LEMMA InitPipeline ==
  ASSUME Init
  PROVE  PipelineInv
<1>1. \A w \in Workers : wk[w].pc = "idle"
  BY DEF Init, Thread
<1>2. \A w \in Workers : LoopOK(wk[w], st) /\ AuditOK(wk[w], row, stale)
  BY <1>1, Elsewhere DEF LoopPCs, AuditPCs
<1> QED BY <1>1, <1>2 DEF Init, PipelineInv, Rests, AuditStates, ACTIVE_STATES

LEMMA PipelineInvariant ==
  ASSUME ~StallOn
  PROVE  Spec => []PipelineInv
<1>1. Init => PipelineInv
  BY InitPipeline
<1>2. SafeInv /\ SafeInv' /\ PipelineInv /\ [Next]_vars => PipelineInv'
  <2> SUFFICES ASSUME SafeInv, SafeInv', PipelineInv, [Next]_vars PROVE PipelineInv'
    OBVIOUS
  <2>1. Premise
    BY DEF Premise, SafeInv
  <2> QED BY <2>1, NextPipeline
<1> QED BY <1>1, <1>2, SafeInvariant, PTL DEF Spec

-----------------------------------------------------------------------------
(***************************************************************************)
(* However a plan was made, resumed, blocked, crashed and resumed again,   *)
(* the subtask loop hands over to _commit_push in a state that its         *)
(* fast-forward accepts: the commit and push of the whole tree after it    *)
(* never run.                                                              *)
(***************************************************************************)
THEOREM CommitIsFastForward ==
  ASSUME ~StallOn
  PROVE  Spec => []CommitFastForwards
<1>1. PipelineInv => CommitFastForwards
  BY DEF PipelineInv, LoopOK, CommitFastForwards, At
<1> QED BY <1>1, PipelineInvariant, PTL

(***************************************************************************)
(* An audit that run_audit_cycle did not resume from a stored summary      *)
(* publishes the head it audited: each of the five stages passed on it or  *)
(* was deferred by release_valve_report, for every budget of cycles.       *)
(***************************************************************************)
THEOREM PublishedHeadAudited ==
  ASSUME ~StallOn
  PROVE  Spec => []UnresumedAuditCoversHead
<1>1. PipelineInv => UnresumedAuditCoversHead
  BY DEF PipelineInv, AuditOK, UnresumedAuditCoversHead, At
<1> QED BY <1>1, PipelineInvariant, PTL

(***************************************************************************)
(* Without a pull request no return, block, crash or restart of a worker   *)
(* leaves the row, with no future for it, in an active state that neither  *)
(* pick_ready_batch nor the review watcher looks at.                       *)
(***************************************************************************)
THEOREM NeverStranded ==
  ASSUME ~StallOn
  PROVE  Spec => []PrePrNeverStranded
<1>1. SafeInv /\ PipelineInv => PrePrNeverStranded
  <2> SUFFICES ASSUME SafeInv, PipelineInv, up = "up", fut = None, ~pr
               PROVE  st \notin ACTIVE_STATES \ {"PROVISIONING"}
    BY DEF PrePrNeverStranded
  <2>1. \A w \in Workers : wk[w].pc \in Resting
    BY WorkersAssumption DEF SafeInv, PublishInv, Resting
  <2> QED BY <2>1 DEF PipelineInv, Rests
<1> QED BY <1>1, SafeInvariant, PipelineInvariant, PTL

=============================================================================
