--------------------------- MODULE TaskLifecycle ---------------------------
(***************************************************************************)
(* The life of one root task of the DAG, from PENDING to MERGED: the row   *)
(* in the SQLite store, the worker threads of the orchestrator's pool, the *)
(* main loop (picker, review watcher, stall supervisor), the operator's    *)
(* CLI running in a process of its own, the pull request on GitHub, and a  *)
(* daemon that may be stopped or killed and restarted at any moment.       *)
(*                                                                         *)
(* One action is one step that the code takes without another actor being  *)
(* able to act on the row in between: a call into the FSM helpers and the  *)
(* bookkeeping around it.  What agents, git, CI and GitHub answer is a     *)
(* nondeterministic choice.                                                *)
(***************************************************************************)
EXTENDS Fsm, Integers

CONSTANTS
  Workers,       \* threads of the orchestrator's pool that this task may use
  None,          \* no future is registered for the task
  MaxCycles,     \* cfg.pre_pr_audit_max_cycles
  ReleaseAfter,  \* cfg.release_valve_after_cycles; negative switches it off
  DeferStages,   \* cfg.release_valve_defer_stages
  RoundsMax,     \* cfg.review_rounds_max
  CiBudget,      \* cfg.triage_budget_per_phase
  MaxAttempts,   \* cfg.subtask_hard_max_attempts
  StallOn,       \* cfg.stall_warn_seconds > 0
  MayFail,       \* bound: the audit stages whose runner may report a failure
  MaxSub,        \* bound: subtasks that one planner emission adds
  MaxTodo        \* bound: subtask rows of the task that are not DONE

Stages == {"local_ci", "rubric", "standards", "architecture", "behavior"}

ASSUME WorkersAssumption == None \notin Workers
ASSUME LimitsAssumption ==
  /\ MaxCycles \in Nat \ {0}
  /\ ReleaseAfter \in Int
  /\ RoundsMax \in Nat
  /\ CiBudget \in Nat
  /\ MaxAttempts \in Nat \ {0}
  /\ MaxSub \in Nat \ {0}
  /\ MaxTodo \in Nat
ASSUME SwitchesAssumption ==
  /\ StallOn \in BOOLEAN
  /\ DeferStages \subseteq Stages
  /\ MayFail \subseteq Stages

VARIABLES
  st,     \* tasks.state
  pr,     \* tasks.pr_number is set
  row,    \* the other columns that steer control, see Rows
  gh,     \* the pull request on GitHub: of the recorded number, else of the branch
  rev,    \* newest submitted review the watcher has not marked processed
  up,     \* the orchestrator process
  fut,    \* futures[task_id]: the worker the main loop waits for, or None
  sup,    \* what the main loop still has to write in the current tick
  cli,    \* `mark-merged` has re-pended the row and not yet marked it
  wk,     \* the worker threads, see WorkerRecord
  stale,  \* ghost: the branch moved after a stage of the stored summary passed
  work,   \* ghost: the branch holds the commits of every DONE subtask row
  owed    \* ghost: this process took a CHANGES_REQUESTED review, not answered yet

vars == <<st, pr, row, gh, rev, up, fut, sup, cli, wk, stale, work, owed>>

(* Everything outside the worker threads and the row.                      *)
daemon == <<up, fut, sup, cli>>
github == <<gh, rev>>
ghosts == <<stale, work, owed>>

StageOrder == <<"local_ci", "rubric", "standards", "architecture", "behavior">>

StageState ==
  <<"AUDIT_LOCAL_CI", "AUDIT_RUBRIC", "AUDIT_STANDARDS",
    "AUDIT_ARCHITECTURE", "AUDIT_BEHAVIOR">>

(***************************************************************************)
(* resume: resume_from_existing_subtasks.  plan: plan_text is absent, does *)
(* not parse ("bad"), parses although its rows were not stored ("parsed"), *)
(* or is the plan of the stored rows ("good").  wt: branch and             *)
(* worktree_path are on record and the worktree exists.                    *)
(* todo, done: subtask rows not DONE, and whether some row is DONE.        *)
(* cycle, passed: the persisted pre_pr_audit_summary.  round: review_round.*)
(***************************************************************************)
Rows ==
  [resume : BOOLEAN, plan : {"none", "bad", "parsed", "good"}, wt : BOOLEAN,
   todo : 0..MaxTodo, done : BOOLEAN, cycle : 0..MaxCycles,
   passed : SUBSET Stages, round : 0..RoundsMax]

PCs == {"idle", "prov", "wt", "plan", "planner", "sub", "doing", "check",
        "commit", "audit", "cycle", "stage", "settle", "fixup", "openpr",
        "create", "record", "pollstart", "poll", "fbstart", "fbdone",
        "rbstart", "rebase", "resolve", "rbfinish", "teardown", "done"}

(***************************************************************************)
(* job: the entry point the thread runs (run, the two feedback responses,  *)
(* run_rebase_to_main).  trig: the AuditTriggerSource.  cyc, res, ran,     *)
(* failed: the audit cycle, the stages it reuses from the persisted        *)
(* summary, how many stages are over, and which of them failed.  left,     *)
(* att: subtasks left in the running set and attempts on the first of      *)
(* them.  tries: ci_attempts of the poll loop.  ret: where the subtask set *)
(* returns to.                                                             *)
(***************************************************************************)
WorkerRecord ==
  [pc : PCs, job : {"none", "task", "review", "ci", "rebase"},
   trig : {"initial", "ci", "review"}, cyc : 0..(MaxCycles + 1),
   res : SUBSET Stages, ran : 0..5, failed : SUBSET Stages,
   left : 0..(MaxTodo + MaxSub), att : 0..MaxAttempts, tries : 0..CiBudget,
   ret : {"commit", "cycle", "audit"}]

Thread(pc, job) ==
  [pc |-> pc, job |-> job, trig |-> "initial", cyc |-> 0, res |-> {}, ran |-> 0,
   failed |-> {}, left |-> 0, att |-> 0, tries |-> 0, ret |-> "commit"]

(* Every column, future and thread record keeps its type; the counters of  *)
(* cycles, stages, attempts and CI fixes stay within their budgets.        *)
TypeOK ==
  /\ st \in State
  /\ pr \in BOOLEAN
  /\ row \in Rows
  /\ gh \in {"none", "open", "merged", "closed"}
  /\ rev \in {"none", "changes", "approved"}
  /\ up \in {"up", "stopping", "failed", "down"}
  /\ fut \in Workers \cup {None}
  /\ sup \in {"idle", "recover", "bridge"}
  /\ cli \in BOOLEAN
  /\ wk \in [Workers -> WorkerRecord]
  /\ stale \in BOOLEAN
  /\ work \in BOOLEAN
  /\ owed \in BOOLEAN

(* Where a thread can be with its counters; what makes TypeOK inductive.   *)
InControl(r) ==
  /\ r.pc \in {"doing", "check"} => r.left > 0 /\ r.att < MaxAttempts
  /\ r.pc = "stage" => r.ran < 5
  /\ r.pc \in {"stage", "settle"} => r.cyc <= MaxCycles
  /\ r.pc \in {"fixup", "sub", "doing", "check"} /\ r.ret = "cycle" => r.cyc <= MaxCycles
  /\ r.pc = "fbstart" => r.job \in {"review", "ci"}

ControlOK == \A w \in Workers : InControl(wk[w])

Init ==
  /\ st = "PENDING"
  /\ pr = FALSE
  /\ row = [resume |-> FALSE, plan |-> "none", wt |-> FALSE, todo |-> 0,
            done |-> FALSE, cycle |-> 0, passed |-> {}, round |-> 0]
  /\ gh = "none"
  /\ rev = "none"
  /\ up = "up"
  /\ fut = None
  /\ sup = "idle"
  /\ cli = FALSE
  /\ wk = [w \in Workers |-> Thread("idle", "none")]
  /\ stale = FALSE
  /\ work = TRUE
  /\ owed = FALSE

-----------------------------------------------------------------------------
(* Control flow of a worker thread.                                        *)

At(w, pc) == wk[w].pc = pc

Become(w, r) == wk' = [wk EXCEPT ![w] = r]

Goto(w, pc) == Become(w, [wk[w] EXCEPT !.pc = pc])

(* The branch gets a new head: what the stored summary says is about an    *)
(* older one.                                                              *)
HeadMoves == stale' = (stale \/ row.passed # {})

(* The call runs inside run_ci_fix_response / run_changes_requested_response. *)
InResponse(w) == wk[w].trig # "initial"

(***************************************************************************)
(* The entry point returns.  An inline CI fix returns to the poll loop of  *)
(* its own thread, with ci_attempts kept; run() still has to tear down;    *)
(* the other entry points only drop their container.                       *)
(***************************************************************************)
Returned(w) ==
  IF wk[w].job # "task" THEN Thread("done", "none")
  ELSE IF InResponse(w) THEN [Thread("poll", "task") EXCEPT !.tries = wk[w].tries]
  ELSE Thread("teardown", "task")

Return(w) == Become(w, Returned(w))

(* run()'s finally: the worktree of a merged or aborted task is removed,   *)
(* unless the container's teardown raised first or git refused.            *)
Teardown(w) ==
  /\ At(w, "teardown")
  /\ \/ row' = row
     \/ st \in {"MERGED", "ABORTED"} /\ row' = [row EXCEPT !.wt = FALSE]
  /\ Become(w, Thread("done", "none"))
  /\ UNCHANGED <<st, pr, github, daemon, ghosts>>

(* block_current, then what the caller does with a BLOCKED outcome: the    *)
(* response entry points call enter_pending_ci, the others hand it on.     *)
BlockedState(w) ==
  IF InResponse(w) THEN enter_pending_ci(block_current(st)) ELSE block_current(st)

ReturnBlocked(w) ==
  /\ st' = BlockedState(w)
  /\ Return(w)

(* Mutant: run() does not record the crash of its pipeline.                *)
RaisedStateForgetsCrash(w, s) ==
  IF wk[w].job = "task" /\ ~InResponse(w) THEN s ELSE enter_pending_ci(s)

(* An exception reaches the entry point of the job.                        *)
RaisedState(w, s) ==
  IF wk[w].job = "task" /\ ~InResponse(w)
  THEN safe_crash_current(s)
  ELSE enter_pending_ci(s)

Raise(w, s) ==
  /\ st' = RaisedState(w, s)
  /\ Return(w)

(* Agents, docker, git and gh can make any step of a job raise.            *)
WorkerRaises(w) ==
  /\ wk[w].pc \notin {"idle", "done", "teardown"}
  /\ Raise(w, st)
  /\ UNCHANGED <<pr, row, github, daemon, ghosts>>

-----------------------------------------------------------------------------
(* TaskWorker.run: provisioning and planning.                              *)

Submit(w, pc, job) ==
  /\ At(w, "idle")
  /\ Become(w, Thread(pc, job))
  /\ fut' = w

(* Mutant: neither picker nor watcher looks at the registered futures.     *)
LoopFreeIgnoresFutures == up = "up" /\ sup = "idle"

(* The main loop is at the top of a tick and has no future for the task.   *)
LoopFree == up = "up" /\ sup = "idle" /\ fut = None

Dispatch(w) ==
  /\ LoopFree
  /\ st = "PENDING"
  /\ Submit(w, "prov", "task")
  /\ UNCHANGED <<st, pr, row, github, up, sup, cli, ghosts>>

StartTask(s) == IF s = "PENDING" THEN Fire(s, "START_TASK") ELSE s

Provision(w) ==
  /\ At(w, "prov")
  /\ st' = StartTask(st)
  /\ Goto(w, "wt")
  /\ UNCHANGED <<pr, row, github, daemon, ghosts>>

(* A recorded worktree is reused; otherwise a new branch starts off base.  *)
ProvisionWorktree(w) ==
  /\ At(w, "wt")
  /\ row' = [row EXCEPT !.wt = TRUE]
  /\ gh' = IF row.wt \/ pr THEN gh ELSE "none"
  /\ IF row.wt THEN stale' = stale ELSE HeadMoves
  /\ work' = IF row.wt THEN work ELSE ~row.done
  /\ Goto(w, "plan")
  /\ UNCHANGED <<st, pr, rev, daemon, owed>>

(* A set of n subtasks starts; the rows already DONE are skipped.  The     *)
(* retries a row has on record only bring its block nearer, and            *)
(* SubtaskBlocked does not wait for the ceiling, so att starts at 0.       *)
StartSet(w, n, ret) ==
  Become(w, [wk[w] EXCEPT !.pc = "sub", !.left = n, !.att = 0, !.ret = ret])

(* _plan up to the planner call, when the FSM is where _provision left it. *)
PlanFresh(w) ==
  /\ At(w, "plan")
  /\ ~(row.resume /\ row.plan # "none")
  /\ ~Raises(st, "ENVIRONMENT_READY")
  /\ st' = Fire(st, "ENVIRONMENT_READY")
  /\ Goto(w, "planner")
  /\ UNCHANGED <<pr, row, github, daemon, ghosts>>

PlanResumed(w) ==
  /\ At(w, "plan")
  /\ row.resume /\ row.plan \in {"parsed", "good"}
  /\ ~Raises(st, "ENVIRONMENT_READY")
  /\ st' = Fire(st, "ENVIRONMENT_READY")
  /\ row' = [row EXCEPT !.resume = FALSE]
  /\ \E n \in IF row.plan = "good" THEN {row.todo} ELSE 1..MaxSub :
       StartSet(w, n, "commit")
  /\ UNCHANGED <<pr, github, daemon, ghosts>>

(* A stored plan_text that does not parse: environment_ready was already   *)
(* fired when the code falls through and fires it again.                   *)
PlanUnparsable(w) ==
  /\ At(w, "plan")
  /\ row.resume /\ row.plan = "bad"
  /\ Raise(w, Fire(st, "ENVIRONMENT_READY"))
  /\ UNCHANGED <<pr, row, github, daemon, ghosts>>

(* The row was taken out of PROVISIONING under the worker.                 *)
PlanOutOfState(w) ==
  /\ At(w, "plan")
  /\ ~(row.resume /\ row.plan = "bad")
  /\ Raises(st, "ENVIRONMENT_READY")
  /\ Raise(w, st)
  /\ UNCHANGED <<pr, row, github, daemon, ghosts>>

(* plan_text is persisted before it is parsed, validated or stored as rows.*)
PlannerEmits(w) ==
  /\ At(w, "planner")
  /\ \E p \in {"bad", "parsed"} : row' = [row EXCEPT !.plan = p]
  /\ UNCHANGED <<st, pr, github, daemon, wk, ghosts>>

(* A valid plan; upsert_subtasks replaces every earlier row.               *)
Planned(w) ==
  /\ At(w, "planner")
  /\ \E n \in 1..MaxSub :
       /\ n <= MaxTodo
       /\ row' = [row EXCEPT !.plan = "good", !.todo = n, !.done = FALSE]
       /\ StartSet(w, n, "commit")
  /\ work' = TRUE
  /\ UNCHANGED <<st, pr, github, daemon, stale, owed>>

(* A planner budget is exhausted: block_current, then a RuntimeError.      *)
PlannerExhausted(w) ==
  /\ At(w, "planner")
  /\ Raise(w, block_current(st))
  /\ UNCHANGED <<pr, row, github, daemon, ghosts>>

-----------------------------------------------------------------------------
(* The doer/checker/triage loop of _run_subtask_set.                       *)

(* Mutant: the hard attempt ceiling is not consulted.                      *)
SubtaskDoUnlimited(w) ==
  /\ At(w, "sub")
  /\ wk[w].left > 0
  /\ st' = enter_doing_subtask(st)
  /\ Goto(w, "doing")
  /\ UNCHANGED <<pr, row, github, daemon, ghosts>>

SubtaskDo(w) ==
  /\ At(w, "sub")
  /\ wk[w].left > 0 /\ wk[w].att < MaxAttempts
  /\ st' = enter_doing_subtask(st)
  /\ Goto(w, "doing")
  /\ UNCHANGED <<pr, row, github, daemon, ghosts>>

SubtaskCheck(w) ==
  /\ At(w, "doing")
  /\ st' = enter_checking_subtask(st)
  /\ Goto(w, "check")
  /\ UNCHANGED <<pr, row, github, daemon, ghosts>>

(* Mutant: enter_pushing is forgotten after the push.                      *)
SubtaskPassStaysCommitting(w) ==
  /\ At(w, "check")
  /\ st' = enter_committing(st)
  /\ row' = IF row.todo > 0
            THEN [row EXCEPT !.todo = @ - 1, !.done = TRUE]
            ELSE row
  /\ Become(w, [wk[w] EXCEPT !.pc = "sub", !.left = @ - 1, !.att = 0])
  /\ HeadMoves
  /\ UNCHANGED <<pr, github, daemon, work, owed>>

(* PASS: the row is DONE and its commit pushed.  The subtasks of a plan    *)
(* that was never stored have no row to mark.  A pass without a diff makes *)
(* no commit; the ghost takes the head for moved all the same.             *)
SubtaskPass(w) ==
  /\ At(w, "check")
  /\ st' = enter_pushing(enter_committing(st))
  /\ row' = IF row.todo > 0
            THEN [row EXCEPT !.todo = @ - 1, !.done = TRUE]
            ELSE row
  /\ Become(w, [wk[w] EXCEPT !.pc = "sub", !.left = @ - 1, !.att = 0])
  /\ HeadMoves
  /\ UNCHANGED <<pr, github, daemon, work, owed>>

(* A transient checker or push failure is retried without being counted;   *)
(* the local commit may already exist.                                     *)
SubtaskTransient(w) ==
  /\ At(w, "check")
  /\ st' = enter_triaging_subtask(st)
  /\ Goto(w, "sub")
  /\ HeadMoves
  /\ UNCHANGED <<pr, row, github, daemon, work, owed>>

SubtaskFail(w) ==
  /\ At(w, "check")
  /\ st' = enter_triaging_subtask(st)
  /\ Become(w, [wk[w] EXCEPT !.pc = "sub", !.att = @ + 1])
  /\ UNCHANGED <<pr, row, github, daemon, ghosts>>

(* The attempt ceiling, a stop-loss, a transient or container cap, or a    *)
(* remote branch that cannot be reconciled; the last is looked at before   *)
(* every row of the set, DONE rows included.                               *)
SubtaskBlocked(w) ==
  /\ wk[w].pc \in {"sub", "check"}
  /\ ReturnBlocked(w)
  /\ owed' = (owed /\ wk[w].trig # "review")
  /\ UNCHANGED <<pr, row, github, daemon, stale, work>>

(* The boundary check before a row finds commits of others on the remote   *)
(* branch and takes them in, by a reset or a rebase.                       *)
SubtaskReconciles(w) ==
  /\ At(w, "sub")
  /\ HeadMoves
  /\ UNCHANGED <<st, pr, row, github, daemon, wk, work, owed>>

(* Mutant: a fixup round does not use up its audit cycle.                  *)
SubtasksDoneSameCycle(w) ==
  /\ At(w, "sub") /\ wk[w].left = 0
  /\ Become(w, [wk[w] EXCEPT !.pc = wk[w].ret, !.res = {}, !.ret = "commit"])
  /\ UNCHANGED <<st, pr, row, github, daemon, ghosts>>

(* Every subtask of the set has settled.  A fixup set inside an audit ends *)
(* its cycle (_AUDIT_CYCLE_CONTINUE drops the resumed summary).            *)
SubtasksDone(w) ==
  /\ At(w, "sub") /\ wk[w].left = 0
  /\ Become(w, IF wk[w].ret = "cycle"
               THEN [wk[w] EXCEPT !.pc = "cycle", !.cyc = @ + 1, !.res = {}, !.ret = "commit"]
               ELSE [wk[w] EXCEPT !.pc = wk[w].ret, !.ret = "commit"])
  /\ UNCHANGED <<st, pr, row, github, daemon, ghosts>>

(***************************************************************************)
(* _commit_push: the per-subtask flow has already committed and pushed, so *)
(* the FSM is walked forward to LOCAL_CI_CHECKING.  The monolithic commit  *)
(* that follows in the code is unreachable: see CommitFastForwards.        *)
(***************************************************************************)
FastForward(s) ==
  LET doing   == IF s = "PLANNING" THEN enter_doing_subtask(s) ELSE s
      pushing == IF doing = "DOING_SUBTASK"
                 THEN enter_pushing(enter_committing(enter_checking_subtask(doing)))
                 ELSE doing
  IN  enter_local_ci_checking(pushing)

Commit(w) ==
  /\ At(w, "commit")
  /\ st \in {"PUSHING", "PLANNING", "DOING_SUBTASK"}
  /\ st' = FastForward(st)
  /\ Goto(w, "audit")
  /\ UNCHANGED <<pr, row, github, daemon, ghosts>>

-----------------------------------------------------------------------------
(* The unified audit driver.                                               *)

(* audit_cycle_prologue and _resumable_pre_pr_audit_summary.               *)
AuditStart(w) ==
  LET resumable == row.cycle \in 1..MaxCycles /\ row.passed # {}
  IN  /\ At(w, "audit")
      /\ st' = CASE wk[w].trig = "ci"     -> enter_audit_cycle_for_ci_fixup(st)
                 [] wk[w].trig = "review" -> enter_audit_cycle_for_review_fixup(st)
                 [] OTHER                 -> st
      /\ Become(w, [wk[w] EXCEPT !.pc = "cycle",
                                 !.cyc = IF resumable THEN row.cycle ELSE 1,
                                 !.res = IF resumable THEN row.passed ELSE {}])
      /\ UNCHANGED <<pr, row, github, daemon, ghosts>>

(* The loop of run_audit_cycle is over without a clean pass.               *)
CyclesExhausted(w) ==
  /\ At(w, "cycle") /\ wk[w].cyc > MaxCycles
  /\ ReturnBlocked(w)
  /\ owed' = (owed /\ wk[w].trig # "review")
  /\ UNCHANGED <<pr, row, github, daemon, stale, work>>

(* A fresh container's bootstrap command fails, or its drift cannot land.  *)
BootstrapBlocked(w) ==
  /\ At(w, "cycle") /\ wk[w].cyc <= MaxCycles /\ wk[w].res = {}
  /\ row' = [row EXCEPT !.cycle = wk[w].cyc, !.passed = {}]
  /\ stale' = FALSE
  /\ ReturnBlocked(w)
  /\ owed' = (owed /\ wk[w].trig # "review")
  /\ UNCHANGED <<pr, github, daemon, work>>

(* Mutant: a new cycle keeps the summary of the cycle before.              *)
CycleStartKeepsSummary(w) ==
  /\ At(w, "cycle") /\ wk[w].cyc <= MaxCycles
  /\ st' = IF wk[w].trig = "initial" /\ "local_ci" \notin wk[w].res
           THEN enter_local_ci_checking(st)
           ELSE st
  /\ row' = [row EXCEPT !.cycle = wk[w].cyc]
  /\ Become(w, [wk[w] EXCEPT !.pc = "stage", !.ran = 0, !.failed = {}])
  /\ UNCHANGED <<pr, github, daemon, ghosts>>

(* A cycle that is not resumed bootstraps its container, which may commit  *)
(* drift, and reseeds the summary.                                         *)
CycleStart(w) ==
  /\ At(w, "cycle") /\ wk[w].cyc <= MaxCycles
  /\ st' = IF wk[w].trig = "initial" /\ "local_ci" \notin wk[w].res
           THEN enter_local_ci_checking(st)
           ELSE st
  /\ row' = IF wk[w].res = {}
            THEN [row EXCEPT !.cycle = wk[w].cyc, !.passed = {}]
            ELSE row
  /\ stale' = (stale /\ wk[w].res # {})
  /\ Become(w, [wk[w] EXCEPT !.pc = "stage", !.ran = 0, !.failed = {}])
  /\ UNCHANGED <<pr, github, daemon, work, owed>>

(* The FSM advance that follows stage i when it passed.                    *)
AdvanceAudit(s, i) ==
  CASE i = 1      -> audit_stage_passed(enter_audit_local_ci(s), "AUDIT_LOCAL_CI")
    [] i \in 2..4 -> audit_stage_passed(s, StageState[i])
    [] OTHER      -> s

StageOver(w, i, failed) ==
  Become(w, [wk[w] EXCEPT !.pc = IF i = 5 THEN "settle" ELSE "stage",
                          !.ran = i, !.failed = failed])

StageReused(w) ==
  LET i == wk[w].ran + 1
  IN  /\ At(w, "stage") /\ StageOrder[i] \in wk[w].res
      /\ st' = AdvanceAudit(st, i)
      /\ StageOver(w, i, wk[w].failed)
      /\ UNCHANGED <<pr, row, github, daemon, ghosts>>

(* update_pre_pr_audit_stage: a summary of another cycle is reseeded.      *)
RecordStage(cycle, stage, passed) ==
  LET before == IF row.cycle = cycle THEN row.passed ELSE {}
  IN  [row EXCEPT !.cycle = cycle,
                  !.passed = IF passed THEN before \cup {stage}
                                       ELSE before \ {stage}]

StagePasses(w) ==
  LET i == wk[w].ran + 1
      stage == StageOrder[i]
  IN  /\ At(w, "stage") /\ stage \notin wk[w].res
      /\ up # "stopping"
      /\ st' = AdvanceAudit(st, i)
      /\ row' = RecordStage(wk[w].cyc, stage, TRUE)
      /\ stale' = (stale /\ row.cycle = wk[w].cyc)
      /\ StageOver(w, i, wk[w].failed)
      /\ UNCHANGED <<pr, github, daemon, work, owed>>

(* A failed stage leaves the FSM where it is; the later stages still run.  *)
StageFails(w) ==
  LET i == wk[w].ran + 1
      stage == StageOrder[i]
  IN  /\ At(w, "stage") /\ stage \notin wk[w].res
      /\ up # "stopping" /\ stage \in MayFail
      /\ row' = RecordStage(wk[w].cyc, stage, FALSE)
      /\ stale' = (stale /\ row.cycle = wk[w].cyc)
      /\ StageOver(w, i, wk[w].failed \cup {stage})
      /\ UNCHANGED <<st, pr, github, daemon, work, owed>>

(* ShutdownRequested: the stage's result is discarded and the driver hands *)
(* back the current state, which a response takes for a completed round.   *)
StageShutdown(w) ==
  /\ At(w, "stage") /\ StageOrder[wk[w].ran + 1] \notin wk[w].res
  /\ up = "stopping"
  /\ IF InResponse(w) THEN Goto(w, "fbdone") ELSE Return(w)
  /\ UNCHANGED <<st, pr, row, github, daemon, ghosts>>

(* The driver returns None: the pipeline opens the PR, a response wraps up.*)
AuditSettled(w) ==
  /\ st' = audit_stage_passed(st, "AUDIT_BEHAVIOR")
  /\ Goto(w, IF InResponse(w) THEN "fbdone" ELSE "openpr")

SettlePassed(w) ==
  /\ At(w, "settle") /\ wk[w].failed = {}
  /\ AuditSettled(w)
  /\ UNCHANGED <<pr, row, github, daemon, ghosts>>

(* release_valve_report; whether the findings themselves are deferable is  *)
(* the auditors' answer.                                                   *)
ValveMayOpen(cycle, failed) ==
  /\ ReleaseAfter >= 0 /\ cycle >= ReleaseAfter
  /\ failed # {}
  /\ failed \cap {"local_ci", "behavior"} = {}
  /\ failed \subseteq DeferStages

SettleDeferred(w) ==
  /\ At(w, "settle") /\ ValveMayOpen(wk[w].cyc, wk[w].failed)
  /\ AuditSettled(w)
  /\ UNCHANGED <<pr, row, github, daemon, ghosts>>

SettleStructural(w) ==
  /\ At(w, "settle") /\ wk[w].failed # {}
  /\ ReturnBlocked(w)
  /\ owed' = (owed /\ wk[w].trig # "review")
  /\ UNCHANGED <<pr, row, github, daemon, stale, work>>

SettleFixup(w) ==
  /\ At(w, "settle") /\ wk[w].failed # {}
  /\ st' = enter_fixup_planning(st)
  /\ Become(w, [wk[w] EXCEPT !.pc = "fixup", !.ret = "cycle", !.res = {}, !.ran = 0,
                             !.failed = {}])
  /\ UNCHANGED <<pr, row, github, daemon, ghosts>>

(* append_subtasks adds rows and skips ids that exist, so a planner that   *)
(* repeats the ids of DONE rows leaves nothing to run.                     *)
FixupPlanned(w) ==
  /\ At(w, "fixup")
  /\ \E n \in 0..MaxSub :
       /\ row.todo + n <= MaxTodo
       /\ row' = [row EXCEPT !.todo = @ + n]
       /\ StartSet(w, n, wk[w].ret)
  /\ UNCHANGED <<st, pr, github, daemon, ghosts>>

(* An empty or invalid plan, or one that twice misses findings.            *)
FixupRejected(w) ==
  /\ At(w, "fixup")
  /\ ReturnBlocked(w)
  /\ owed' = (owed /\ wk[w].trig # "review")
  /\ UNCHANGED <<pr, row, github, daemon, stale, work>>

-----------------------------------------------------------------------------
(* Opening the pull request and polling it.                                *)

OpenPr(w) ==
  /\ At(w, "openpr")
  /\ st' = enter_pr_opening(st)
  /\ Become(w, Thread(IF pr THEN "pollstart" ELSE "create", "task"))
  /\ UNCHANGED <<pr, row, github, daemon, ghosts>>

(* gh pr create refuses a branch that already has an open pull request.    *)
CreatePr(w) ==
  /\ At(w, "create")
  /\ gh # "open"
  /\ gh' = "open"
  /\ rev' = "none"
  /\ Goto(w, "record")
  /\ UNCHANGED <<st, pr, row, daemon, ghosts>>

(* Mutant: the number of the new pull request is not stored.               *)
RecordPrForgets(w) ==
  /\ At(w, "record")
  /\ Goto(w, "pollstart")
  /\ UNCHANGED <<st, pr, row, github, daemon, ghosts>>

RecordPr(w) ==
  /\ At(w, "record")
  /\ pr' = TRUE
  /\ Goto(w, "pollstart")
  /\ UNCHANGED <<st, row, github, daemon, ghosts>>

PollStart(w) ==
  /\ At(w, "pollstart")
  /\ st' = enter_pending_ci(st)
  /\ Become(w, Thread("poll", "task"))
  /\ UNCHANGED <<pr, row, github, daemon, ghosts>>

Polling(w) == At(w, "poll") /\ st \notin {"ABORTED", "MERGED"}

PollTerminal(w) ==
  /\ At(w, "poll") /\ st \in {"ABORTED", "MERGED"}
  /\ Return(w)
  /\ UNCHANGED <<st, pr, row, github, daemon, ghosts>>

PollMerged(w) ==
  /\ Polling(w) /\ pr /\ gh = "merged"
  /\ st' = mark_merged(st)
  /\ Return(w)
  /\ UNCHANGED <<pr, row, github, daemon, ghosts>>

(* Closed unmerged: the ancestry check needs the container, which an       *)
(* inline CI fix has torn down; then PR_CLOSED.                            *)
PollClosed(w) ==
  /\ Polling(w) /\ pr /\ gh = "closed"
  /\ st' \in (IF wk[w].tries = 0 THEN {mark_merged(st)} ELSE {safe_crash_current(st)})
               \cup {IF Raises(st, "PR_CLOSED") THEN safe_crash_current(st)
                                                ELSE Fire(st, "PR_CLOSED")}
  /\ Return(w)
  /\ UNCHANGED <<pr, row, github, daemon, ghosts>>

PollConflict(w) ==
  /\ Polling(w) /\ pr /\ gh = "open" /\ wk[w].tries = 0
  /\ st' = enter_rebasing_to_main(st)
  /\ Goto(w, "rebase")
  /\ UNCHANGED <<pr, row, github, daemon, ghosts>>

(* As above, but the container is gone: the first git call asserts.        *)
PollConflictNoContainer(w) ==
  /\ Polling(w) /\ pr /\ gh = "open" /\ wk[w].tries > 0
  /\ Raise(w, enter_rebasing_to_main(st))
  /\ UNCHANGED <<pr, row, github, daemon, ghosts>>

(* run_ci_fix_response in the poll loop's own thread.                      *)
PollCiFails(w) ==
  /\ Polling(w) /\ pr /\ gh = "open" /\ wk[w].tries < CiBudget
  /\ st' = enter_fixup_planning(StartTask(st))
  /\ Become(w, [wk[w] EXCEPT !.pc = "fixup", !.trig = "ci", !.ret = "audit", !.tries = @ + 1])
  /\ UNCHANGED <<pr, row, github, daemon, ghosts>>

PollGreen(w) ==
  /\ Polling(w) /\ (pr => gh = "open") /\ wk[w].tries < CiBudget
  /\ Return(w)
  /\ UNCHANGED <<st, pr, row, github, daemon, ghosts>>

PollBudgetSpent(w) ==
  /\ Polling(w) /\ (pr => gh = "open") /\ wk[w].tries >= CiBudget
  /\ Raise(w, st)
  /\ UNCHANGED <<pr, row, github, daemon, ghosts>>

-----------------------------------------------------------------------------
(* Feedback responses dispatched by the review watcher.                    *)

(* _provision against the existing worktree, then the first fixup round.   *)
FeedbackStart(w) ==
  /\ At(w, "fbstart")
  /\ IF row.wt
     THEN /\ st' = enter_fixup_planning(StartTask(st))
          /\ Become(w, [wk[w] EXCEPT !.pc = "fixup", !.trig = wk[w].job, !.ret = "audit"])
     ELSE Raise(w, StartTask(st))
  /\ UNCHANGED <<pr, row, github, daemon, ghosts>>

FeedbackDone(w) ==
  /\ At(w, "fbdone")
  /\ st' = enter_pending_ci(st)
  /\ row' = IF wk[w].trig = "review" /\ row.round < RoundsMax
            THEN [row EXCEPT !.round = @ + 1]
            ELSE row
  /\ owed' = (owed /\ wk[w].trig # "review")
  /\ Return(w)
  /\ UNCHANGED <<pr, github, daemon, stale, work>>

-----------------------------------------------------------------------------
(* Rebasing onto main: the worker run_rebase_to_main and, with job "task", *)
(* the poll loop's _rebase_or_resolve.                                     *)

RebaseStart(w) ==
  /\ At(w, "rbstart")
  /\ IF row.wt
     THEN st' = StartTask(st) /\ Goto(w, "rebase")
     ELSE Raise(w, StartTask(st))
  /\ UNCHANGED <<pr, row, github, daemon, ghosts>>

(* git fetch fails: the worker goes back to polling, the poll loop blocks. *)
RebaseFetchFails(w) ==
  /\ At(w, "rebase")
  /\ st' = IF wk[w].job = "rebase" THEN enter_pending_ci(st) ELSE block_current(st)
  /\ Return(w)
  /\ UNCHANGED <<pr, row, github, daemon, ghosts>>

(* The rebased (or resolved) branch is on the remote.                      *)
Rebased(w) ==
  /\ HeadMoves
  /\ IF wk[w].job = "rebase"
     THEN st' = st /\ Goto(w, "rbfinish")
     ELSE st' = enter_pending_ci(st) /\ Goto(w, "poll")
  /\ UNCHANGED <<pr, row, github, daemon, work, owed>>

RebaseClean(w) == At(w, "rebase") /\ Rebased(w)

RebaseConflicts(w) ==
  /\ At(w, "rebase")
  /\ st' = enter_conflict_resolving(st)
  /\ Goto(w, "resolve")
  /\ UNCHANGED <<pr, row, github, daemon, ghosts>>

ConflictResolved(w) == At(w, "resolve") /\ Rebased(w)

(* An emptied branch, a refused push, a resolver that gives up, an         *)
(* iteration cap or a failing post-rebase CI.                              *)
RebaseBlocked(w) ==
  /\ wk[w].pc \in {"rebase", "resolve"}
  /\ st' = block_current(st)
  /\ Return(w)
  /\ UNCHANGED <<pr, row, github, daemon, ghosts>>

(* _finish_rebase: retargeting succeeds, or fails and blocks, or finds the *)
(* PR closed and opens a replacement; enter_pending_ci in every case.      *)
RebaseFinish(w) ==
  /\ At(w, "rbfinish")
  /\ \/ st' \in {enter_pending_ci(st), enter_pending_ci(block_current(st))}
        /\ UNCHANGED <<pr, gh>>
     \/ /\ gh = "closed" \/ ~pr
        /\ st' = enter_pending_ci(st)
        /\ pr' = TRUE
        /\ gh' = "open"
  /\ Return(w)
  /\ UNCHANGED <<row, rev, daemon, ghosts>>

-----------------------------------------------------------------------------
(* The main loop: reaping, the review watcher, the stall supervisor.       *)

Reap(w) ==
  /\ At(w, "done") /\ fut = w
  /\ up = "up" /\ sup = "idle"
  /\ fut' = None
  /\ Become(w, Thread("idle", "none"))
  /\ UNCHANGED <<st, pr, row, github, up, sup, cli, ghosts>>

(* A thread whose future the supervisor dropped goes back to the pool.     *)
Forgotten(w) ==
  /\ At(w, "done") /\ fut # w
  /\ Become(w, Thread("idle", "none"))
  /\ UNCHANGED <<st, pr, row, github, daemon, ghosts>>

(* tasks_needing_review_poll, and a recorded PR to ask GitHub about.       *)
Watched == LoopFree /\ pr /\ st \in POST_PR_STATES \cup {"BLOCKED"}

(* mark_merged on a BLOCKED row goes through PENDING, in a second write.   *)
WatchMerged ==
  /\ Watched /\ gh = "merged"
  /\ IF st = "BLOCKED"
     THEN st' = Fire(st, "RETRY_TASK") /\ sup' = "bridge"
     ELSE st' = mark_merged(st) /\ UNCHANGED sup
  /\ UNCHANGED <<pr, row, github, up, fut, cli, wk, ghosts>>

(* The second write; an InvalidTransition ends the orchestrator's loop.    *)
BridgeMerged ==
  /\ sup = "bridge"
  /\ sup' = "idle"
  /\ st' = Fire(st, "MARK_MERGED")
  /\ up' = IF Raises(st, "MARK_MERGED") THEN "failed" ELSE up
  /\ UNCHANGED <<pr, row, github, fut, cli, wk, ghosts>>

(* PR_CLOSED is not allowed on BLOCKED, and nothing catches the exception. *)
WatchClosed ==
  /\ Watched /\ gh = "closed"
  /\ st' = Fire(st, "PR_CLOSED")
  /\ up' = IF Raises(st, "PR_CLOSED") THEN "failed" ELSE up
  /\ UNCHANGED <<pr, row, github, fut, sup, cli, wk, ghosts>>

WatchConflict(w) ==
  /\ Watched /\ gh = "open"
  /\ st' = enter_rebasing_to_main(st)
  /\ Submit(w, "rbstart", "rebase")
  /\ UNCHANGED <<pr, row, github, up, sup, cli, ghosts>>

WatchCiFails(w) ==
  /\ Watched /\ gh = "open" /\ st # "BLOCKED"
  /\ Submit(w, "fbstart", "ci")
  /\ UNCHANGED <<st, pr, row, github, up, sup, cli, ghosts>>

WatchCiPasses ==
  /\ Watched /\ gh = "open" /\ st = "PENDING_CI"
  /\ st' = enter_awaiting_review(st)
  /\ UNCHANGED <<pr, row, github, daemon, wk, ghosts>>

Reviewed == Watched /\ gh = "open" /\ st = "AWAITING_REVIEW"

(* The review is marked processed before its worker has done anything.     *)
WatchChanges(w) ==
  /\ Reviewed /\ rev = "changes" /\ row.round < RoundsMax
  /\ rev' = "none"
  /\ owed' = TRUE
  /\ Submit(w, "fbstart", "review")
  /\ UNCHANGED <<st, pr, row, gh, up, sup, cli, stale, work>>

WatchRoundsExhausted ==
  /\ Reviewed /\ rev = "changes" /\ row.round >= RoundsMax
  /\ st' = block_current(st)
  /\ rev' = "none"
  /\ UNCHANGED <<pr, row, gh, daemon, wk, ghosts>>

(* _attempt_auto_merge merges, or does not; the approval is spent.         *)
WatchApproval ==
  /\ Reviewed /\ rev = "approved"
  /\ rev' = "none"
  /\ gh' \in {"open", "merged"}
  /\ UNCHANGED <<st, pr, row, daemon, wk, ghosts>>

(* _check_stalls reads the state, drops the future and only then writes.   *)
StallDetect ==
  /\ StallOn
  /\ up = "up" /\ sup = "idle" /\ fut # None
  /\ wk[fut].job \in {"review", "ci", "rebase"}
  /\ st \in AuditStates \cup {"FIXUP_PLANNING"}
  /\ fut' = None
  /\ sup' = "recover"
  /\ UNCHANGED <<st, pr, row, github, up, cli, wk, ghosts>>

StallRecover ==
  /\ sup = "recover"
  /\ sup' = "idle"
  /\ st' = force_recover_to_pending_ci(st)
  /\ UNCHANGED <<pr, row, github, up, fut, cli, wk, ghosts>>

-----------------------------------------------------------------------------
(* The process: shutdown, death, restart.                                  *)

StopRequested ==
  /\ up = "up"
  /\ up' = "stopping"
  /\ UNCHANGED <<st, pr, row, github, fut, sup, cli, wk, ghosts>>

ProcessGone ==
  /\ up' = "down"
  /\ fut' = None
  /\ sup' = "idle"
  /\ wk' = [w \in Workers |-> Thread("idle", "none")]
  /\ UNCHANGED <<st, pr, row, github, cli, ghosts>>

(* Leaving the ThreadPoolExecutor block waits for every thread.            *)
Exit ==
  /\ up \in {"stopping", "failed"} /\ sup = "idle"
  /\ \A w \in Workers : wk[w].pc \in {"idle", "done"}
  /\ ProcessGone

Killed == up # "down" /\ ProcessGone

(* recover_orphan_tasks, and with --retry-failed _retry_failed_tasks.      *)
Restart(retry_failed) ==
  LET recovered == IF st \in ACTIVE_STATES THEN recover_after_crash(st, pr) ELSE st
      retried   == retry_failed /\ recovered \in RETRYABLE_STATES
  IN  /\ up = "down"
      /\ up' = "up"
      /\ st' = IF retried THEN Fire(recovered, "RETRY_TASK") ELSE recovered
      /\ row' = [row EXCEPT
           !.resume = @ \/ retried \/ (st \in ACTIVE_STATES /\ recovery_sets_resume(st, pr)),
           !.wt = @ /\ st # "PROVISIONING"]
      /\ owed' = FALSE
      /\ UNCHANGED <<pr, github, fut, sup, cli, wk, stale, work>>

-----------------------------------------------------------------------------
(* The operator's CLI, and people on GitHub.                               *)

(* `retry` forgets the branch and the PR; the audit summary, the plan and  *)
(* the resume marker stay.                                                 *)
Retry ==
  /\ ~cli /\ ~Raises(st, "RETRY_TASK")
  /\ st' = Fire(st, "RETRY_TASK")
  /\ pr' = FALSE
  /\ row' = [row EXCEPT !.wt = FALSE]
  /\ gh' = "none"
  /\ rev' = "none"
  /\ owed' = FALSE
  /\ UNCHANGED <<daemon, wk, stale, work>>

(* `retry` removes worktree and branch before it asks the FSM, which here  *)
(* refuses: the row still names what is gone.                              *)
RetryRefused ==
  /\ ~cli /\ Raises(st, "RETRY_TASK")
  /\ row' = [row EXCEPT !.wt = FALSE]
  /\ UNCHANGED <<st, pr, github, daemon, wk, ghosts>>

Resume ==
  /\ ~cli /\ ~Raises(st, "RESUME_TASK")
  /\ row.plan # "none" /\ (row.todo > 0 \/ row.done)
  /\ st' = Fire(st, "RESUME_TASK")
  /\ row' = [row EXCEPT !.resume = TRUE]
  /\ UNCHANGED <<pr, github, daemon, wk, ghosts>>

Abort ==
  /\ ~cli /\ ~Raises(st, "ABORT")
  /\ st' = Fire(st, "ABORT")
  /\ UNCHANGED <<pr, row, github, daemon, wk, ghosts>>

(* mark_merged takes a side state through PENDING, visibly to the daemon.  *)
MarkMerged ==
  /\ ~cli /\ st # "MERGED" /\ mark_merged(st) = "MERGED"
  /\ IF st \in POST_PR_STATES \cup {"PENDING"}
     THEN st' = "MERGED" /\ cli' = FALSE
     ELSE st' = "PENDING" /\ cli' = TRUE
  /\ UNCHANGED <<pr, row, github, up, fut, sup, wk, ghosts>>

MarkMergedFinish ==
  /\ cli
  /\ cli' = FALSE
  /\ st' = Fire(st, "MARK_MERGED")
  /\ UNCHANGED <<pr, row, github, up, fut, sup, wk, ghosts>>

SubmitReview ==
  /\ gh = "open"
  /\ rev' \in {"changes", "approved"}
  /\ UNCHANGED <<st, pr, row, gh, daemon, wk, ghosts>>

(* The watcher reads no reviews of a pull request that is over.            *)
MergeOrClosePr ==
  /\ gh = "open"
  /\ gh' \in {"merged", "closed"}
  /\ rev' = "none"
  /\ UNCHANGED <<st, pr, row, daemon, wk, ghosts>>

-----------------------------------------------------------------------------
PlanStep(w) ==
  \/ Provision(w) \/ ProvisionWorktree(w)
  \/ PlanFresh(w) \/ PlanResumed(w) \/ PlanUnparsable(w) \/ PlanOutOfState(w)
  \/ PlannerEmits(w) \/ Planned(w) \/ PlannerExhausted(w)

SubtaskStep(w) ==
  \/ SubtaskDo(w) \/ SubtaskCheck(w)
  \/ SubtaskPass(w) \/ SubtaskTransient(w) \/ SubtaskFail(w) \/ SubtaskBlocked(w)
  \/ SubtaskReconciles(w) \/ SubtasksDone(w) \/ Commit(w)

AuditStep(w) ==
  \/ AuditStart(w) \/ CyclesExhausted(w) \/ BootstrapBlocked(w) \/ CycleStart(w)
  \/ StageReused(w) \/ StagePasses(w) \/ StageFails(w) \/ StageShutdown(w)
  \/ SettlePassed(w) \/ SettleDeferred(w) \/ SettleStructural(w) \/ SettleFixup(w)
  \/ FixupPlanned(w) \/ FixupRejected(w)

PrStep(w) ==
  \/ OpenPr(w) \/ CreatePr(w) \/ RecordPr(w) \/ PollStart(w)
  \/ PollTerminal(w) \/ PollMerged(w) \/ PollClosed(w)
  \/ PollConflict(w) \/ PollConflictNoContainer(w)
  \/ PollCiFails(w) \/ PollGreen(w) \/ PollBudgetSpent(w)
  \/ FeedbackStart(w) \/ FeedbackDone(w)

RebaseStep(w) ==
  \/ RebaseStart(w) \/ RebaseFetchFails(w) \/ RebaseClean(w) \/ RebaseConflicts(w)
  \/ ConflictResolved(w) \/ RebaseBlocked(w) \/ RebaseFinish(w)

WorkerStep(w) ==
  PlanStep(w) \/ SubtaskStep(w) \/ AuditStep(w) \/ PrStep(w) \/ RebaseStep(w)
    \/ WorkerRaises(w) \/ Teardown(w)

LoopStep ==
  \/ \E w \in Workers :
       \/ Dispatch(w) \/ Reap(w) \/ Forgotten(w)
       \/ WatchConflict(w) \/ WatchCiFails(w) \/ WatchChanges(w)
  \/ WatchMerged \/ BridgeMerged \/ WatchClosed \/ WatchCiPasses
  \/ WatchRoundsExhausted \/ WatchApproval
  \/ StallDetect \/ StallRecover

ProcessStep ==
  \/ StopRequested \/ Exit \/ Killed
  \/ \E retry_failed \in BOOLEAN : Restart(retry_failed)

OutsideStep ==
  \/ Retry \/ RetryRefused \/ Resume \/ Abort \/ MarkMerged \/ MarkMergedFinish
  \/ SubmitReview \/ MergeOrClosePr

Next ==
  (\E w \in Workers : WorkerStep(w)) \/ LoopStep \/ ProcessStep \/ OutsideStep

Spec == Init /\ [][Next]_vars

-----------------------------------------------------------------------------
(* Properties.                                                             *)

(***************************************************************************)
(* One thread at a time drives the task: while the stall supervisor is     *)
(* off, every busy pool thread is the one futures[task_id] names, whatever *)
(* the dispatches by picker and watcher, shutdowns and restarts.           *)
(***************************************************************************)
SingleDriver ==
  ~StallOn => \A w \in Workers : wk[w].pc # "idle" => fut = w

(***************************************************************************)
(* A row that the watcher polls has a pull request to poll: without one    *)
(* _process_task returns at once and the row waits for ever.               *)
(***************************************************************************)
PostPrHasPr == ~StallOn /\ st \in POST_PR_STATES => pr

(***************************************************************************)
(* _commit_push always takes its fast-forward branch.  The code after it,  *)
(* a second commit and push of the whole tree, is dead as long as the      *)
(* subtask loop and the resume path hand over in one of three states.      *)
(***************************************************************************)
CommitFastForwards ==
  \A w \in Workers :
    At(w, "commit") => st \in {"PUSHING", "PLANNING", "DOING_SUBTASK"}

(***************************************************************************)
(* A pipeline whose audit was not resumed from a stored summary opens its  *)
(* pull request on an audited head: every stage passed on the commit that  *)
(* is going out, or is one the release valve may defer.                    *)
(***************************************************************************)
UnresumedAuditCoversHead ==
  \A w \in Workers :
    At(w, "openpr") /\ wk[w].res = {} =>
      /\ ~stale
      /\ Stages \ wk[w].failed \subseteq row.passed
      /\ wk[w].failed \subseteq DeferStages \ {"local_ci", "behavior"}

(***************************************************************************)
(* Before the pull request every exit of a worker leaves the row where     *)
(* something picks it up again: with no future for the task the row is not *)
(* in an active state, which neither the picker nor the watcher looks at.  *)
(* PROVISIONING is left out: a rebase worker dispatched for a BLOCKED row  *)
(* that the operator retries meanwhile does leave the row there.           *)
(***************************************************************************)
PrePrNeverStranded ==
  up = "up" /\ sup = "idle" /\ fut = None /\ ~pr =>
    st \notin ACTIVE_STATES \ {"PROVISIONING"}

-----------------------------------------------------------------------------
(* The promise the row keeps to a reader of the task list.                 *)

Phase ==
  CASE st = "PENDING"           -> "queued"
    [] st \in ACTIVE_STATES     -> "working"
    [] st \in POST_PR_STATES    -> "review"
    [] st \in RETRYABLE_STATES  -> "stopped"
    [] OTHER                    -> "merged"

Protocol == INSTANCE TaskProtocol WITH phase <- Phase, published <- pr

(***************************************************************************)
(* Every step of worker, watcher, restart and CLI moves the task as        *)
(* TaskProtocol allows: merged is final, a task in review never returns to *)
(* the queue, a stopped one is worked on only after it was queued again,   *)
(* and only a retry forgets the pull request.                              *)
(***************************************************************************)
FollowsProtocol == Protocol!Spec

-----------------------------------------------------------------------------
(***************************************************************************)
(* Fairness.  A thread keeps running: every agent, git and gh call has a   *)
(* timeout, so each step of a job returns or raises.  The main loop ticks, *)
(* and a stopped pool is left once its threads are done.  Three things are *)
(* asked of the environment, where the code has no limit of its own: a     *)
(* push is not transiently refused for ever, planner emissions settle, and *)
(* a pull request is not found conflicting again after every rebase.       *)
(***************************************************************************)
PollSettles(w) ==
  \/ PollTerminal(w) \/ PollMerged(w) \/ PollClosed(w) \/ PollConflictNoContainer(w)
  \/ PollCiFails(w) \/ PollGreen(w) \/ PollBudgetSpent(w)

Fairness ==
  /\ WF_vars(BridgeMerged) /\ WF_vars(StallRecover) /\ WF_vars(Exit)
  /\ \A w \in Workers :
       /\ WF_vars(WorkerStep(w))
       /\ WF_vars(Reap(w))
       /\ WF_vars(Planned(w) \/ PlannerExhausted(w))
       /\ SF_vars(SubtaskPass(w) \/ SubtaskFail(w) \/ SubtaskBlocked(w))
       /\ SF_vars(PollSettles(w))

FairSpec == Spec /\ Fairness

(***************************************************************************)
(* The slot of a dispatched job is always freed: no interplay of fixup     *)
(* rounds, audit cycles, CI budgets, resumed summaries, kills, shutdowns   *)
(* and CLI commands keeps one worker on the task for ever.                 *)
(***************************************************************************)
FutureSettles == fut # None ~> fut = None

-----------------------------------------------------------------------------
(* What comments and docstrings of the code claim and the code does not do.*)

(***************************************************************************)
(* _run_audit_cycle_with_review_context: "post-PR fixup cycles re-audit    *)
(* the result": a response that was not cut short by a shutdown leaves no  *)
(* stage of the summary that passed only on an older head.                 *)
(***************************************************************************)
ResponseReaudits ==
  \A w \in Workers : At(w, "fbdone") /\ up = "up" => ~stale

(***************************************************************************)
(* run_changes_requested_response: "we just ensure PENDING_CI is reached": *)
(* a response that completes hands the row back to the watcher.  Excused:  *)
(* a shutdown, and PROVISIONING (the row was re-pended under the worker).  *)
(***************************************************************************)
ResponseReachesPendingCi ==
  [][\A w \in Workers :
       FeedbackDone(w) /\ up = "up" /\ wk[w].job = "review"
         => st' \notin ACTIVE_STATES \ {"PROVISIONING"}]_vars

(***************************************************************************)
(* _plan: "The subtask loop will skip rows already in DONE state, so work  *)
(* picks up where it left off": a pipeline that has been through its       *)
(* subtasks has the commits of the rows it skipped on its branch.          *)
(***************************************************************************)
ResumeKeepsWork ==
  \A w \in Workers : At(w, "commit") => work

(***************************************************************************)
(* recover_orphan_tasks: "addressing_feedback -> pending_ci (let daemon    *)
(* re-detect)": when a killed response is recovered to PENDING_CI, the     *)
(* review it was answering is again one that the watcher will act on.      *)
(***************************************************************************)
RecoveredReviewIsRedetected ==
  [][\A retry_failed \in BOOLEAN :
       Restart(retry_failed) /\ st \in AuditStates /\ st' = "PENDING_CI"
         /\ owed /\ gh = "open"
         => rev = "changes"]_vars

(***************************************************************************)
(* set_pre_rebase_state: the state is kept "so the rebase worker can       *)
(* restore it after a successful rebase": a rebase worker that finishes    *)
(* does not leave the row in CONFLICT_RESOLVING, which nobody polls.       *)
(***************************************************************************)
FinishedRebaseRestores ==
  [][\A w \in Workers : RebaseFinish(w) /\ up = "up" => st' # "CONFLICT_RESOLVING"]_vars

=============================================================================
