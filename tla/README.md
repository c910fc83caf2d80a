# A TLA+ model of quikode

quikode runs a DAG of coding tasks unattended: for each task a worker thread
plans, lets agents write and check subtasks, audits the branch, opens a pull
request, answers reviews and CI failures, rebases, and sees the task merged. The
state of every task is one row of a SQLite store. What is hard is not any one
of these steps but their combination: pool threads, the main loop's watchers and
a CLI in another process write the same row; the daemon may be killed anywhere
and resumes from what the row says; most FSM helpers skip silently when the row
is not where the caller thinks it is.

Paths below are relative to `src/quikode/`.

## Inventory

| component | state it keeps | operations | what makes it correct |
|---|---|---|---|
| State machine (`fsm.py`), helpers (`fsm_runtime.py`) | none; tables from state and event to state | `enter_*`, `block_current`, `mark_merged`, `recover_after_crash`, ... | an event outside the table raises; a helper fires or skips; recovery leads to a state somebody polls |
| Task store (`store_tasks.py`, `store_planning_cycle.py`, `store_review.py`) | the row: state, PR number, branch and worktree, plan, resume marker, audit summary, review round | `apply_event`, `transition`, `update_pre_pr_audit_stage`, `recover_orphan_tasks`, `mark_review_processed` | reads and writes of two processes do not undo each other; the summary is about the current head |
| Task worker (`workers/task_worker.py`) | container handle, worktree | `run`, `_provision`, `_teardown` | every exit leaves a row that something picks up |
| Planner driver (`workers/planner_driver.py`) | `plan_text`, subtask rows | invoke, validate, persist | only a validated plan is executed |
| Subtask loop (`workers/subtasks.py`, `subtask_execution.py`, `subtask_completion.py`, `worktree.py`, `git_push_recovery.py`) | attempts, rows | do, check, triage, commit, push | attempts are bounded; DONE means committed and pushed |
| Audit driver and pre-PR pipeline (`workers/audit_driver.py`, `audit_bootstrap.py`, `pre_pr*.py`) | cycle number, the five stage results | bootstrap, stages, settle, fixup round, release valve | what goes out was audited |
| PR lifecycle (`workers/pr_lifecycle.py`) | PR number, CI attempts | open, record, poll, inline CI fix, intent review | a row in review has a pull request |
| Feedback responses (`workers/feedback.py`) | - | response to CHANGES_REQUESTED and to failing CI | the row returns to the watcher |
| Rebases (`workers/rebases.py`, `rebase_conflicts.py`, `rebase_branch.py`) | - | rebase, resolve, retarget | the row returns to the watcher or is BLOCKED |
| Main loop (`orchestration/runner.py`) | `futures` | dispatch, reap, stop | one driver per task; slots are freed |
| Watchers (`orchestration/review_watch.py`, `merge_watch.py`, `rebase_watch.py`) | processed review, last poll | merged, closed, conflict, CI, review, approval | each signal is acted on once and not lost |
| Stall supervisor (`orchestration/supervision.py`) | - | detect, force-recover | does not fight a living worker |
| Orphan recovery (`store_review.py`, `cli_core.py`) | - | on start, with `--retry-failed` | interrupted work is redone, finished work kept |
| CLI (`cli_lifecycle.py`, `cli_rewind.py`, `cli_replan_cycle.py`, `cli_reset_plan.py`) | - | retry, resume, abort, mark-merged, rewind, ... | a refused command changes nothing |
| Scheduler, stacking, merge nodes (`orchestration/scheduler.py`, `candidates.py`, `workers/merge_node_worker.py`) | parent branches, merge-node rows | pick, stack, build, retire | a task starts only on parents that are there |
| Daemon (`daemon.py`, `daemon_shutdown.py`, `process_tree.py`) | pid file, backoff | spawn, respawn, stop | one orchestrator at a time |
| Agents, validators, auditors (`agents/`, `planner_validators.py`, `workers/fixup_coverage.py`, `pre_pr_audit*.py`) | `agent_calls` rows, retry budgets | call, validate, repair, fall back, grade | every call ends; what is accepted satisfies the validators; nothing passes unaudited |

The components interact through the row (all of them), through `futures` (main
loop and its watchers), through the worktree (worker, CLI `retry`) and through
the pull request on GitHub (worker, watcher, people). `PROJECT.json` lists every
component with what is and is not modelled, and under `hazards` the places where
this goes wrong in ways that tests hardly reach.

## Modules

* **`Fsm`** - the vocabulary, the transition table, the helper layer and the
  recovery table as constant operators. `Fire(s, e)` is the helpers'
  guard-or-skip, `Raises(s, e)` the `InvalidTransition` of a raw event. The five
  `AUDIT_x_PASSED` events, each valid in exactly one state, are one event here,
  and so are the five `AUDIT_x_FAILED`.
* **`TaskLifecycle`** - one root task and everybody who writes its row.
* **`SubtaskLoop`** - the subtasks of one task: rows, attempts, commits, pushes,
  and the commands that edit rows and branch of a stopped task.
* **`Stacking`** - several tasks: which one is picked, what its branch forks off,
  merge-nodes, cascades of rebases.
* **`AgentCall`** - one worker's agent calls, from the subprocess to the document
  a driver accepts, and the audit gauntlet those documents decide.
* **`Daemon`** - the processes around the orchestrator and the files, signals and
  locks between them.
* **`TaskProtocol`** - what a reader of the task list is promised: five phases
  and whether a pull request is on record. Five phases stand for the 26 states.
* **`MCTaskLifecycle`** - the instance for TLC: one or two interchangeable pool
  threads. `MCSubtaskLoop`, `MCStacking`, `MCAgentCall` and `MCDaemon` are the
  instances of the other four: plans, DAGs, documents, processes.
* **`TaskLifecycleProofs`**, **`PipelineProofs`**, **`SubtaskLoopProofs`**,
  **`StackingProofs`**, **`StackWorkProofs`**, **`AgentCallProofs`**, **`DaemonProofs`** -
  the theorems about the five components, and **`DataLemmas`**, the facts about numbers, finite sets and
  sequences that several of them need.

`TaskLifecycle` is the frame: where it says "a subtask is attempted", "the stage
passes", "a parent is there" or "the process dies", one of the other four has the
machinery behind that choice. Each of them abstracts the task's FSM to the few
states its own component tells apart, so they are checked beside the frame and
not as a product with it: the product is out of TLC's reach.

### State of `TaskLifecycle`

`st`, `pr` and `row` are the columns of the task's row that steer control;
`row.passed` and `row.cycle` are the stored `pre_pr_audit_summary`; `row.wt`
says that a worktree is on record and exists. `wk[w]` is a pool thread: its
program counter, the entry point it runs (`run`, the two responses,
`run_rebase_to_main`), and the locals of the loops it is in. `fut` is
`futures[task_id]`. `sup` is what the main loop has read and not yet written in
the current tick (the two writes of `mark_merged`, the stall recovery). `cli` is
the same for `mark-merged` in the other process. `up` is the orchestrator
process, `gh` and `rev` the pull request and the newest review that is not marked
processed. Three ghosts carry history for properties: `stale` (the branch moved
after a stored stage passed), `work` (the branch holds the commits of every DONE
row), `owed` (a review was taken and not answered).

### Actions

An action is one helper call or raw event with the bookkeeping around it: the
granularity at which another actor can see or change the row. `WorkerStep` is
one thread (planning, subtasks, audits, PR, responses, rebases, an exception
anywhere, teardown); `LoopStep` is the main loop (dispatch, reap, the watcher's
handling of one polled task, the stall supervisor); `ProcessStep` is stop, exit,
kill and restart with orphan recovery; `OutsideStep` is the CLI and people on
GitHub. `PROJECT.json` maps each definition to its lines.

Abstractions worth knowing:

* What agents, auditors, git, docker, CI and GitHub answer is a choice.
* `apply_event` is atomic. Its read and its write are two SQLite statements; the
  race of daemon and CLI inside one call is left to a module of its own.
* `mark_merged` called by a worker is one step; called by the watcher or the
  CLI on a stopped row it is two, because the row is visibly PENDING in between.
* The watcher's handling of one task in one tick is one step, except as above.
* A pass without a diff makes no commit; `stale` takes the head for moved anyway.
  No property here fails for that reason alone.
* The retries a subtask row has on record are not kept: a block for exhausted
  attempts may come at any attempt.
* The intent-gap review at the end of the poll is not modelled, nor are rebases
  onto a moved parent branch: the task is a root of the DAG.
* `_maybe_yield_at_boundary` (`workers/subtasks.py:535`) never yields in this
  version of the code and has no action.

### `SubtaskLoop`

`rows` is the subtasks table (state, retries, the newest retry signatures,
flatline count, commit, kind), `head` and `remote` the branch in the worktree and
on GitHub, `dirty` uncommitted edits, `wk` the worker: program counter, position,
attempt, the counters of transient failures and container recreations. A commit
is named by its history, the sequence of patches up to it, which makes ancestry
a prefix test and `sha~1` the front of a sequence. An attempt goes through do,
check, commit, push, record, mark and, when it fails, triage, each a step at which
the worker can be killed (`Killed`, then orphan recovery) or raise. The boundary
before a subtask compares the branch with the remote: fast-forward, rebase or
block. The operator resumes, resets retries, rewinds to a subtask and replans a
cycle; the force-push of the last two is optional and may fail. People push to
the branch. `retry`, which removes the worktree, is in `TaskLifecycle` only.

### `Stacking`

A node is the set of spec tasks it integrates: a singleton is a task, a larger set
the merge-node of these tasks, which is what the source's hash of the sorted ids
identifies. What git holds is how many commits of each task a branch contains
(`cont`), so a rebase or merge is the pointwise maximum and "forked off" a copy.
A task that is killed while provisioning loses its branch: orphan recovery clears the
column and the next provision names a new one with a random suffix, while other rows
and the pull request go on naming the old one. So a branch is a node and a number:
`gen` is the number a node's row names now, `pbr` and `mbr` the numbers its parents
and a merge-node's sources are recorded under, `head` the one the pull request is of.
`st`, `par`, `flag`, `seen` are the columns of task rows, `mst` and `msrc` those
of merge-nodes, `job` the futures, `inl` the rebase a worker does between two
subtasks, `walked` and `sched` the two coalescing windows, `track` the base
branch as the local clone last fetched it. `PickNext` follows `_pick_next`:
candidates, tiers, gates of depth, breadth and cycles, score up to ties, and the
creation of merge-nodes on the way. A scheduled rebase also runs on merge-node rows,
which it moves out of their life cycle (`stray`), and ends without a push when nothing
is left ahead of the base branch (`RebaseIsVain`). `PollOpen`, `PollMerged` and `PollClosed` are
one tick of the watcher for one task with the cascade it schedules. Faults,
responses and interventions are bounded together by `MaxTrouble`.

### `AgentCall`

The documents agents emit are names; `Plans`, `Fixups` and `Grades` give their
contents, and the validators and stage outcomes are operators over those
contents. `pc`, `round`, `prov`, `waited` and `nap` are the loops of one call:
subprocess, auth backoff, provider chain, repair prompt. `used` is what the driver
of the role has spent of its retry budgets, `stages` the outcomes of the running
cycle, `summary` the persisted one with `resume`, `row` the latest `agent_calls`
row. A subprocess answers, is refused, times out, loses its container, reports
quota or an auth race, or raises. The second coverage prompt of the fixup round
(`workers/pre_pr.py:120`) has no action: `AcceptedFixupCovers` shows that a plan
the loop accepted never triggers it, so that code is dead for audit rounds.

### `Daemon`

`sup` are the supervisors, `run` the `quikode run` processes whoever started
them, `pidf`, `opid`, `hb` and `lock` the pid files, the heartbeat and the flock,
`stop` the one `daemon stop` in progress: it tests the pid, lists `/proc`, reads
the parent of one listed process after the other, sends SIGTERM to the supervisor
and then to each descendant, and waits, each in a step of its own. Signals are
delivered by a later step; an exited child or supervisor stays a zombie until its
parent reaps it, which `kill(pid, 0)` takes for alive and `process_alive` for
dead; a dead supervisor's child becomes an orphan. There is no clock: a child grows
old, a heartbeat and a pid file age, each by a step of its own that may come at any
time it is possible.

## Runs

Deadlock is checked in the runs of `MCTaskLifecycle` and `MCDaemon`: those systems
never stop, since a process that is down can be started again. It is off in the
other three, where a task that is merged, blocked or closed is the end.

| run | what it checks | bounds |
|---|---|---|
| `pipeline` | `TypeOK`, `CommitFastForwards`, `UnresumedAuditCoversHead` | two audit cycles, so that a cycle follows a failed one; the rubric stage may fail and the valve may defer it in cycle 2; one inline CI fix; no review rounds |
| `review` | `SingleDriver`, `PostPrHasPr`, `PrePrNeverStranded`, `FollowsProtocol` | one review round and the round after it, which is refused; one audit cycle whose rubric stage may fail and be deferred; CI fixes from the watcher only; two pool threads, so that a second one is there to be dispatched wrongly |
| `liveness` | `FutureSettles` | one thread, the stall supervisor on, one audit cycle with a stage that cannot be deferred, one inline CI fix |
| `response_reaudits`, `response_reaches_pending_ci`, `resume_keeps_work`, `recovered_review`, `finished_rebase` | one claim of the code's comments each, which TLC refutes | as above, with one thread |
| `subtasks` | `TypeOK`, `DoneIsOnBranch`, `AttemptIsRetries`, `PredecessorsDone`, `SubtaskSettles` | one planned subtask, the injected stabilization gate and one fixup, so three rows in a fixed order; two attempts, one free transient retry, one recreation, stop-losses after two equal signatures; branches of up to two commits |
| `stacking` | `TypeOK`, `MergeNodeForgetsMerged`, `ReadyHoldsSources`, `RebasingIsOwned`, `ForkHoldsDependencies` | three tasks, the third depending on the other two, the first pushing twice; two slots; one fault or intervention; both coalescing windows on |
| `agents` | `TypeOK`, `QuotaWalksWholeChain`, `PlanPartitionsEvidence`, `PrOpensOnGrades`, `AcceptedFixupCovers`, `InFlightRowIsLive`, `DriveSettles` | a client-side primary with one cli-native fallback; every retry budget 1, one auth sleep, one audit cycle and its fixup round, one crash; the valve may defer one critical finding, so that one is deferred, two in one stage and three in two are not; seven plans, four fixups and two grades per auditor, right and wrong in one way each |
| `daemon` | `TypeOK`, `OneOrchestrator`, `WatchdogSparesYoung`, `StopIsComplete` | one supervisor, which may be started again after it is gone, two interchangeable orchestrator processes, which may be too; the watchdog on |

`pipeline` and `review` are two runs because the full product of audit cycles,
review rounds and CI fixes (2.1 million states) is checked more cheaply in two
parts; it was also checked as a whole once, with the same result. A plan has one
subtask and a task at most one that is not DONE (`MaxSub`, `MaxTodo`): what the
properties tell apart is whether rows are left, not how many. One attempt per
subtask (`MaxAttempts`) already separates "may try again" from "at the limit".

What the properties say:

* `SingleDriver` - while the stall supervisor is off, every busy thread is the
  one `futures` names, so no two threads share the worktree.
* `PostPrHasPr` - a row in PENDING_CI or AWAITING_REVIEW has a PR number; the
  watcher returns at once for a row without one.
* `PrePrNeverStranded` - without a PR and without a future the row is not in an
  active state, which nobody looks at before the next restart. PROVISIONING is
  excused: a rebase worker dispatched for a BLOCKED row that the operator retries
  at that moment fires START_TASK and leaves it there.
* `CommitFastForwards` - `_commit_push` always takes its early return, whatever
  resumes, crashes and commands came before.
* `UnresumedAuditCoversHead` - a pipeline whose audit was not resumed opens its
  PR on a head for which every stage passed or is one the valve may defer. The
  premise matters: for a resumed audit it is false, see the findings.
* `FollowsProtocol` - the refinement of `TaskProtocol`: merged is final, a task
  in review never goes back to the queue, a stopped task is worked on only after
  it was queued again, only a retry forgets the pull request.
* `FutureSettles` - the slot of a dispatched job is always freed.
* `DoneIsOnBranch` - a DONE row with a commit on record names one that is on the
  local and on the remote branch. The property is about the patch, not the sha:
  a rebase of the branch leaves the recorded sha stale. It holds for plans whose
  list is in the order they run; for others `rewind` goes by row order and may
  leave a later subtask DONE.
* `AttemptIsRetries` - the attempt in memory and the row's retries stay in step,
  so a restart neither costs nor grants an attempt.
* `PredecessorsDone` - a subtask is attempted only when everything before it in
  the order is DONE.
* `SubtaskSettles` - an attempted subtask is settled, or its worker ends.
* `ForkHoldsDependencies` - when a worktree is created, its branch has work of
  every dependency that is not merged or closed by then and has kept its branch.
* `ReadyHoldsSources` - a merge-node that is READY has work of every source it
  lists under its first branch. Both say "some work", not "the newest": pushes inside a coalescing window
  and during a build are not cascaded again.
* `MergeNodeForgetsMerged` - a merge-node loses a source because it merged or
  because a source was closed, and retires only when all merged.
* `RebasingIsOwned` - a row in REBASING_TO_MAIN has a rebase future.
* `QuotaWalksWholeChain` - a call that ends as `quota_exhausted` tried every
  provider: the note the transport appends makes the chain's own test succeed.
* `PlanPartitionsEvidence` - an accepted plan claims every expected evidence id
  exactly once, repetitions inside a subtask included, and can be ordered.
* `PrOpensOnGrades` - a pull request is opened only when each auditor returned a
  schema-valid document, in this process or before the crash whose summary is
  resumed; local CI and behavior passed; and the critical findings in the documents
  of the failed stages, added up, are within the allowance.
* `AcceptedFixupCovers` - the fixup planner is only asked about audits that ran,
  and a plan its loop accepts satisfies the round's second check too.
* `InFlightRowIsLive` - an `agent_calls` row in flight has a running call, unless
  that was cut off, and shows `backoff_auth` exactly while it sleeps.
* `DriveSettles` - planning, an audit cycle and a fixup round end whatever the
  agents answer.
* `OneOrchestrator` - one process at a time is between taking the lock and
  exiting, where containers are cleaned and orphans recovered.
* `WatchdogSparesYoung` - the watchdog terminates only a child older than the
  threshold, even with an earlier process's heartbeat file in place.
* `StopIsComplete` - a `daemon stop` that reports success left no supervisor; and
  when its SIGTERM found the supervisor running, it left no run that one had
  spawned, orphaned or not, except a run spawned after `/proc` was listed. `reached`
  is a history variable for that condition. Without it the claim is false: see the
  smaller disagreements.

### Larger instances

Checked by hand with the same modules and the same result: `SubtaskLoop` with
branches of three commits (12.8 million states, invariants) and with two planned
subtasks (2.7 million); `Stacking` on the chain 1 - 2 - 3 with one slot and two
pushes (2.4 million), on the chain with two slots (1.5 million), and on the fork with
one slot and two faults (5.4 million), enough for a task to be killed while provisioning
a second time and lose its branch, which the run's single fault never reaches; `AgentCall` with a chain of a single
cli-native provider (0.5 million) and with two audit cycles (2.9 million, invariants).

### Fairness

`FairSpec` assumes that a thread keeps taking steps (every agent, git, docker
and gh call in the workers has a timeout or raises), that the main loop reaps and
finishes what it began, and that a stopped pool is left when its threads are
done. The scheduler of the operating system and the loop's sleeps of 2 and 5 seconds
justify these. Three things are asked of the environment, because the code has
no limit of its own for them: a push is not transiently refused for ever
(`subtasks.py:331` does not count such an attempt), planner emissions settle,
and a PR is not found in conflict again after every rebase (strong fairness of
the poll's other outcomes). Nothing is assumed of the CLI, of people, of kills or
of restarts; a killed process frees the slot by dying.

`SubtaskLoop` assumes weak fairness of the worker's steps, for the same reason, and
strong fairness of a push that lands: `subtasks.py:331` retries a transiently
refused push without a cap. `AgentCall` assumes weak fairness of transport and
drivers together: a subprocess is ended by its timeout, a sleep by the clock.
Kills, raises and operators are not fair in either.

### Findings

* **A response audits nothing** (`ResponseReaudits`). `feedback.py:219` says that
  post-PR fixup cycles re-audit the result. The summary of the audit that led to
  the PR is still in the row, complete, so the response resumes it and reuses
  all five stages.
* **A deferred stage strands the row** (`ResponseReachesPendingCi`).
  `feedback.py:106` "just ensures PENDING_CI is reached", by a helper that skips
  in the AUDIT_x state in which the valve leaves the row.
* **Resume without the work** (`ResumeKeepsWork`). `retry` removes branch and
  worktree and keeps DONE rows and the resume marker; the resumed pipeline skips
  those rows on a branch that has none of their commits.
* **A killed response loses its review** (`RecoveredReviewIsRedetected`). The
  review is marked processed before the worker starts, so the recovery's "let
  daemon re-detect" does not happen.
* **A resolved conflict leaves the row behind** (`FinishedRebaseRestores`).
  `set_pre_rebase_state` keeps the state "so the rebase worker can restore it after
  a successful rebase" (`store_review.py:219`). When the rebase met a conflict, the
  row is in CONFLICT_RESOLVING; no code fires the event back, and the final
  `enter_pending_ci` skips in that state.

Smaller disagreements met while modelling, each noted with its hazard: the TUI
writes the pid file that makes its own child refuse to start; the docstring of
`_classify_finding_coverage` trusts `findings_addressed` only with an owner, the
code only without one; an audit document that lists no behaviors or categories
passes; `pr_lifecycle.py:58` reads a column the schema dropped, so a stacked pull
request is opened against the base branch; `daemon stop` says "clean - all processes
terminated" over a living run when its supervisor is a zombie, or dies between the
liveness test (`daemon_shutdown.py:138`) and the end of the `/proc` scan, because the
run has then changed its parent, although the scan comes early so that no orphan is
hidden (`daemon_shutdown.py:144`). TLC shows it in eleven states when `StopIsComplete`
is stated without `reached`. From the branch numbers of `Stacking`: an
inline rebase onto main blocks a child that has no commit of its own when its parent
merges, because nothing is ahead; a blocked row that is resumed while its rebase is
queued ends PROVISIONING without a worker; a row that got a new branch reuses the pull
request of the forgotten one.

## Proofs

Every invariant the runs check is a theorem, for every value of the constants. So are
the action properties and the refinement of `TaskProtocol`.

| module | theorem | states |
|---|---|---|
| `TaskLifecycleProofs` | `TypeCorrect`, `OneDriver`, `ReviewHasPr` | `TypeOK`, `SingleDriver`, `PostPrHasPr` |
| | `ImplementsProtocol` | with `~StallOn`, `Spec => Protocol!Spec` |
| `PipelineProofs` | `CommitIsFastForward`, `PublishedHeadAudited`, `NeverStranded` | with `~StallOn`: `CommitFastForwards`, `UnresumedAuditCoversHead`, `PrePrNeverStranded` |
| `SubtaskLoopProofs` | `SubtaskTypes`, `AttemptsInStep`, `NothingSkipped` | `TypeOK`, `AttemptIsRetries`, `PredecessorsDone` |
| | `DoneOnBranch` | `DoneIsOnBranch`, for plans listed in the order they run |
| `StackingProofs` | `StackTypes`, `MergeNodesForget`, `RebasingOwned` | `TypeOK`, `MergeNodeForgetsMerged`, `RebasingIsOwned` |
| `StackWorkProofs` | `ReadyMergeNodes`, `ForksHoldDependencies` | with `Settled`: `ReadyHoldsSources`, `ForkHoldsDependencies` |
| `AgentCallProofs` | `CallTypes`, `QuotaIsChainWide`, `AcceptedPlanPartitions`, `GradedPr`, `AcceptedFixup`, `RowInFlight` | `TypeOK`, `QuotaWalksWholeChain`, `PlanPartitionsEvidence`, `PrOpensOnGrades`, `AcceptedFixupCovers`, `InFlightRowIsLive` |
| `DaemonProofs` | `ProcessTypes`, `FlockExcludes`, `GracePeriod`, `CleanStop` | `TypeOK`, `OneOrchestrator`, `WatchdogSparesYoung`, `StopIsComplete` |

Each module has the same shape: an inductive invariant, checked by TLC on the
run's instance before it was proved; a lemma per helper; a lemma per group of
actions with one case per action; and the theorems read off the invariant.

### From what

* `TaskLifecycle`: `None` is no thread; the limits are natural numbers (audit cycles,
  attempts and subtasks per plan at least 1); the stage sets are sets of stages.
* `SubtaskLoop`: the plan lists positive ids without repetition, its dependencies stay
  inside it and have no loop (what `planner_validators` enforces before a row is
  stored), the ids of gate and fixup are new; budgets are natural numbers,
  `subtask_progress_check_every` an integer: the configuration asks for at least 1,
  the loop has a branch for 0 and less.
* `Stacking`: finitely many tasks, numbered along their dependencies (`dag.py` refuses
  a DAG with a loop), bounds natural, slots, depth and breadth at least 1.
* `AgentCall`: a chain of at least one provider; budgets natural as
  `config.Config` declares them; a document of a plan, a fixup or an auditor is finite
  and no name is both a plan and a fixup.
* `Daemon`: `None` is no process.

### Along which argument

**TaskLifecycle, types.** `TypeOK` is not inductive: a thread may increment `att`
or `cyc` because of where it is in its loop. `ControlOK` says which program counter
goes with which counter values, and `TypeInv == TypeOK /\ ControlOK` is inductive.

**TaskLifecycle, review.** `PostPrHasPr` and the refinement need more. A thread deep
in a response can run on while the operator retries the task, which forgets the
PR number; if it then wrote PENDING_CI, the row would be in review without a PR.
`PublishInv` says why it cannot: the only busy thread is the one in `futures`;
threads in the planning and subtask part run `run()` in its first pass; without a
PR the row is in none of the states from which review can be entered (`Exposed`);
and a thread past the point where the PR is recorded, with no PR on record, finds
the row in a state its helpers leave alone (`Quiet`). Each helper of `Fsm` is shown
once to respect these sets (`Calm`, `Moves`), and the refinement is read off the
same case analysis.

**TaskLifecycle, pipeline.** `PipelineInv` builds on `PublishInv`. `LoopOK` gives the
state of the row at each point of the first pass through the subtask loop: a set
ends in PUSHING, or in PLANNING when every row was already DONE, and never in
TRIAGING_SUBTASK, because triage leaves a subtask over. `AuditOK` says what the
summary holds after each stage of an unresumed cycle: its number, no head movement
since, and every stage that is over and did not fail; after five stages this is the
property. `PrePrNeverStranded` speaks of rows without a future; the invariant has to
speak of threads that have returned and are not reaped yet, and of a dead
process, whose threads are gone before the restart repairs the row. What an exit
writes then decides: `block_current` and `safe_crash_current` lead out of every
active state, the helpers of late threads leave a `Quiet` row alone.

**SubtaskLoop.** `IndInv` joins the program counter to the row of the current subtask
(`ControlInv`), a flatline count to the retries it is part of (`RowInv`), the
attempt to the retries, and the running set to the rest of the plan (`SetInv`:
whatever is covered and not in the set is settled, and the set respects the order).
The flatline count of a row is bounded by the attempt ceiling and not by its
own cap: a row blocked on flatlines and attempted again keeps counting.
`DoneIsOnBranch` rests on `ShaInv`: recorded commits are on both branches, and the
commit of a subtask is on top of those that ran before it, so a rewind to it, which
cuts the branch below its commit, takes away only what the rows after it
recorded. The theorem has the hypothesis `ListedInOrder` (the topological order
of the plan is its list) because `rewind` goes by row order; without it the
property fails. The order itself is a recursive function; that it lists every
subtask of the plan once and respects the dependencies is proved, not assumed.

**Stacking, rows.** `RebasingIsOwned` and `MergeNodeForgetsMerged` are part of `IndInv`,
with the types, `SourcesInv` (a merge-node lists only tasks it stands for), `BranchInv`
(a row is never recorded under a branch its node has not had; a merge-node has one) and
`RowInv` (what a row's state says of its future, worktree and pull request).
`MergeNodeForgetsMerged` says that a source was closed; a closed pull request can be
opened again by a rebase, so the invariant has the stronger `ClosedForGood`: the row has
ended and no rebase of it is left. Much of the work is in the types: the stack walks are
recursive functions over all nodes, and the scheduler chooses from sets that have to be
shown finite and not empty.

**Stacking, work.** What branches contain is `WorkInv`, in three parts.

* `OriginInv`: work spreads upwards. Tasks are numbered along their dependencies, so a
  branch of lower tasks has commits of a higher one only after those reached the base
  branch. Without it a rebase onto main could drop the task's own work as the parent's.
* `FedInv`: a task past its subtasks, or with a pull request, that kept its branch has
  work of its own on it. `Fed(s)` speaks of the first branch of `s`, which nobody resets
  once its row names another: it stays true, and a merge-node or a child that recorded
  that branch can rely on it.
* `SettledInv`, with `stacking_readiness = "settled"` only: every merge-node lists sources
  that are `Fed`, and holds their work once integrated (`Integrates`); a task that was
  picked and not provisioned yet has, for each dependency, a parent whose branch holds it
  (`LinkInv`). That is where the interleavings between pick and fork are: a parent that
  merges or closes in between takes the linkage away, and then that dependency has ended.

A lemma says what any step may do to branches, rows and merge-nodes (`Effects`), with one
case per action; only the pick and the integration go beyond it and are treated alone.
The invariant was checked before it was proved: on the fork with one commit each
exhaustively, and by simulation with up to eight faults (19 million states), where
branches are lost and replaced.

Both theorems leave out a dependency whose row lost a branch (`gen` or `mbr` above 0).
The proof asked for it: after about seven faults a task whose pull request is still of
its first branch can be polled to settled while its second branch has no commit of it.

**AgentCall.** `IndInv` ties role, phase and program counter (`RoleInv`), the call's
partial result to its reason (`CallPart`: a raw quota failure carries the flag that
makes the chain move on; a structured result is a document its role may emit) and
the stages to the persisted summary (`TaskInv`: a stage that passed names a valid
document, also when the pass was read from the summary after a crash).
`QuotaWalksWholeChain`, `AcceptedFixupCovers`, `PlanPartitionsEvidence` and
`InFlightRowIsLive` are part of it. That every expected id is claimed exactly once is
a counting argument over the claims of a plan, and that its dependencies have no
loop follows from the rank the acceptance test finds: the member of a loop with the
least rank would depend on one with a smaller rank.

**Daemon.** `HolderInv` (whoever is past the flock holds it) gives `OneOrchestrator`.
The watchdog needs `ChildInv` (a supervisor's child is its own unreaped process, so
its pid means that process) and `HeartbeatInv` (a stale heartbeat was only ever seen
by old runs). `StopIsComplete` needs `ParentInv` (a living supervisor's runs are
its children) and `SnapInv`: as long as the supervisor lives, a living run of it has
been found, is still to be looked at, or is younger than the listing; what a SIGTERM
that reaches the supervisor finds settled stays so.

**DataLemmas.** tlapm cannot instantiate the library's induction theorems, which
take an operator. Induction here is by least counterexample (`NatMinimum`), and a
recursive function is shown to exist as the union of its finite iterates (`UpTo`,
`Iterates`); `MaxIsMember` and `MinIsMember` make `CHOOSE`-based maxima of finite sets
usable.

### What is only model-checked

* Liveness: `FutureSettles`, `SubtaskSettles`, `DriveSettles`. Fairness and ENABLED are
  out of the prover's reach.
* `ReadyHoldsSources` and `ForkHoldsDependencies` with the other value of
  `stacking_readiness` are not claimed at all: it admits parents that have no commit yet.
* The five refutations, which are counterexamples.

The theorems of `PipelineProofs`, `OneDriver`, `ReviewHasPr` and the protocol are about
an orchestrator whose stall supervisor is off: with it on, a recovered row and the
thread that was given up on write at the same time. For `CommitFastForwards` TLC finds
the response that was given up on blocking the row under a resumed pipeline, for
`PrePrNeverStranded` the supervisor's late write after a retry.

## Not modelled

* The intent-gap review and replan at the end of the PR poll
  (`workers/pr_lifecycle.py:302-600`): an agent's verdict on text; its effect on
  the row is one of the poll's outcomes.
* The window between the read and the write of one `apply_event`.
* `reset`, which empties a workspace after checking that no daemon is alive, and
  `retry` inside `SubtaskLoop`.
* The merge planner's sub-loop and its conflict resolver: one step of the
  merge-node that ends in a tree or blocks.
* `net_retry`'s backoff around `gh` and `git fetch`: bounded, and inside the outcome
  of the action that calls it.
* Token and cost accounting, heartbeat contents, notifications, progress text.
* Witness runner, manual probes and the evaluation contract: what the auditors are
  shown, not what they decide.
* Text (prompts, reports, TUI), SQL migrations, docker and git I/O beyond success
  and failure, GitHub's wire formats, static configuration.

## Plan

1. `TaskLifecycle`: which guarantees of the audit survive with the stall supervisor
   on, where two threads may drive the task.
2. `SubtaskLoop`: a weaker `DoneIsOnBranch` for plans that are not listed in order.
3. Action properties of `Daemon` and `AgentCall` (what a respawn or a repair prompt may
   never undo) as theorems from the invariants above.
