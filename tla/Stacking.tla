------------------------------- MODULE Stacking -------------------------------
(***************************************************************************)
(* Stacked work: which task the scheduler may pick, which branch a task    *)
(* forks off, how merge-nodes integrate several unmerged parents, and how  *)
(* a push, a merge or a close of a parent reaches the tasks stacked on it. *)
(*                                                                         *)
(* A node is the set of the spec tasks it integrates: a singleton is a     *)
(* spec task, a larger set is the merge-node of those tasks (the source    *)
(* hashes the sorted ids; the set itself is that identity).  Git content   *)
(* is abstracted to how many of each task's commits a branch contains.  A  *)
(* branch of a node is a number: a row that loses its branch names a new   *)
(* one at its next provision, and other rows keep naming the old one.      *)
(***************************************************************************)
EXTENDS Integers, FiniteSets, FiniteSetsExt

CONSTANTS
  Specs,         \* the spec tasks of the DAG, numbers (stack_root orders ids)
  Deps,          \* depends_on of each, restricted to the DAG
  Settled,       \* cfg.stacking_readiness = "settled"
  CoalesceOn,    \* cfg.rebase_coalesce_window_s > 0
  MaxParallel,   \* cfg.max_parallel
  ExtraSlots,    \* cfg.review_response_extra_slots
  MaxDepth,      \* cfg.stacking_max_depth
  MaxBreadth,    \* cfg.stacking_max_breadth_per_root
  MaxVer,        \* bound: commits each task makes of its own
  MaxTrouble     \* bound: faults, responses and interventions in a behaviour

ASSUME SpecsAreNumbers == Specs \subseteq Nat /\ IsFiniteSet(Specs)
ASSUME DagIsAcyclic    == /\ Deps \in [Specs -> SUBSET Specs]
                          /\ \A t \in Specs : \A d \in Deps[t] : d < t
ASSUME SwitchesBoolean == Settled \in BOOLEAN /\ CoalesceOn \in BOOLEAN
ASSUME BoundsNatural   == /\ MaxVer \in [Specs -> Nat]
                          /\ {MaxParallel, MaxDepth, MaxBreadth} \subseteq Nat \ {0}
                          /\ {ExtraSlots, MaxTrouble} \subseteq Nat

Spec1(t)   == {t}
SpecNodes  == {Spec1(t) : t \in Specs}
MergeNodes == {m \in SUBSET Specs : Cardinality(m) > 1 /\ \E t \in Specs : m \subseteq Deps[t]}
Nodes      == SpecNodes \union MergeNodes

VARIABLES
  st,       \* state column of each spec task
  par,      \* parent_task_ids of each spec task: one node, or {} for none
  pbr,      \* parent_pr_branches of each spec task: which branch of that node
  flag,     \* spec tasks with needs_parent_rebase = 1
  seen,     \* last_observed_branch_tip_sha against the tip: none, same or old
  mst,      \* state column of each merge-node; "none" has no row
  msrc,     \* parent_task_ids of each merge-node
  mbr,      \* parent_pr_branches of each merge-node: which branch of each
  wt,       \* nodes whose row names a worktree and a branch git knows
  gen,      \* which of its branches a node's row names, or will name next
  job,      \* the future of each node in the orchestrator's futures dict
  inl,      \* the inline rebase a task's worker is inside of
  walked,   \* tasks whose branch was cascade-walked inside the window
  sched,    \* tasks with a rebase scheduled inside the window
  cont,     \* the commits each branch on the remote contains
  main,     \* the commits the base branch contains on the remote
  track,    \* the repository's tracking ref of the base branch
  pr,       \* each task's pull request on GitHub
  head,     \* which of the task's branches that pull request is of
  spent     \* faults, responses and interventions so far

linkVars == <<par, pbr, flag, msrc, mbr>>
rowVars == <<linkVars, st, seen, mst>>
ownVars == <<wt, gen>>
winVars == <<walked, sched>>
gitVars == <<cont, main, track, pr, head>>
vars    == <<rowVars, ownVars, winVars, gitVars, job, inl, spent>>

\* doing stands for the subtask loop, audit for the audit stages, fixup
\* planning and PR_OPENING, settled for AWAITING_REVIEW past the settle time.
States  == {"pending", "prov", "doing", "audit", "ci", "review", "settled",
            "rebasing", "resolving", "merged", "blocked", "closed"}
\* lost is PENDING without a branch, stray a row that a rebase moved out of
\* the merge-node life cycle (PROVISIONING, REBASING_TO_MAIN or PENDING_CI).
MStates == {"none", "pending", "lost", "prov", "audit", "ready", "retired", "blocked", "dead",
            "stray"}
PostPr  == {"ci", "review", "settled"}

Gens     == 0..MaxTrouble
Contents == [Specs -> 0..Max({MaxVer[t] : t \in Specs})]
Nothing  == [d \in Specs |-> 0]
Join(a, b) == [d \in Specs |-> IF a[d] > b[d] THEN a[d] ELSE b[d]]
Within(a, b) == \A d \in Specs : a[d] <= b[d]

Init ==
  /\ st = [t \in Specs |-> "pending"]
  /\ par = [t \in Specs |-> {}] /\ pbr = [t \in Specs |-> 0]
  /\ flag = {}
  /\ seen = [t \in Specs |-> "none"]
  /\ mst = [m \in MergeNodes |-> "none"]
  /\ msrc = [m \in MergeNodes |-> {}] /\ mbr = [m \in MergeNodes |-> [s \in Specs |-> 0]]
  /\ wt = {} /\ gen = [n \in Nodes |-> 0]
  /\ job = [n \in Nodes |-> "none"]
  /\ inl = [t \in Specs |-> "no"]
  /\ walked = {} /\ sched = {}
  /\ cont = [n \in Nodes |-> [g \in Gens |-> Nothing]]
  /\ main = Nothing /\ track = Nothing
  /\ pr = [t \in Specs |-> "none"] /\ head = [t \in Specs |-> 0]
  /\ spent = 0

\* Faults, responses and interventions draw on one budget, so that the model
\* is finite without limiting how they combine.
Trouble == spent < MaxTrouble /\ spent' = spent + 1

Futures == {n \in Nodes : job[n] # "none"}

\* The branch a node's row names, and those its parents are recorded under.
Tip(n)           == cont[n][gen[n]]
ParentTip(t)     == cont[par[t]][pbr[t]]
SourceTip(m, s)  == cont[Spec1(s)][mbr[m][s]]

-------------------------------------------------------------------------------
\* The stack walks over parent_task_ids

ParentsOf(n) ==
  IF n \in MergeNodes THEN {Spec1(s) : s \in msrc[n]}
  ELSE {par[CHOOSE t \in n : TRUE]} \ {{}}

Heights == 0..Cardinality(Nodes)

StackDepth(n) ==
  LET depth[k \in Heights] ==
        [x \in Nodes |-> IF k = 0 \/ ParentsOf(x) = {} THEN 1
                         ELSE 1 + Max({depth[k - 1][p] : p \in ParentsOf(x)})]
  IN depth[Cardinality(Nodes)][n]

Ancestry(n) ==
  LET up[k \in Heights] ==
        IF k = 0 THEN {n} ELSE up[k - 1] \union UNION {ParentsOf(x) : x \in up[k - 1]}
  IN up[Cardinality(Nodes)]

StackRoots(n) == {x \in Ancestry(n) : ParentsOf(x) = {}}

\* The lowest id; merge-node ids (M-...) sort before spec ids (R-...).
StackRoot(n) ==
  LET roots == StackRoots(n) IN
  IF roots \intersect MergeNodes # {} THEN CHOOSE r \in roots : r \in MergeNodes
  ELSE CHOOSE r \in roots : \A q \in roots : Min(r) <= Min(q)

StackSizeUnderRoot(r) ==
  Cardinality({x \in Nodes : /\ x \in MergeNodes => mst[x] # "none"
                             /\ StackRoot(x) = r})

WouldFormCycle(t, n) == Spec1(t) \in Ancestry(n)

-------------------------------------------------------------------------------
\* Scheduling

StackReadyStates == {"prov", "audit", "ci", "review", "settled"}

IsParentStackReady(d) == st[d] \in (IF Settled THEN {"settled"} ELSE StackReadyStates)

Unmet(t) == {d \in Deps[t] : st[d] # "merged"}

\* Rows the scheduler looks at: PENDING and not in the futures dict.
Waiting(t) == st[t] = "pending" /\ Spec1(t) \notin Futures

Stackable(t) == Unmet(t) # {} /\ \A d \in Unmet(t) : IsParentStackReady(d)

\* Multi-parent children resolve to a merge-node once every source has a
\* branch; the row is created when it does not exist.
Resolves(t) == /\ Waiting(t) /\ Stackable(t)
               /\ Cardinality(Unmet(t)) > 1
               /\ {Spec1(d) : d \in Unmet(t)} \subseteq wt

Created == {m \in MergeNodes : mst[m] = "none" /\ \E t \in Specs : Resolves(t) /\ Unmet(t) = m}

SingleParentGates(t, p) == /\ StackDepth(p) < MaxDepth
                           /\ ~WouldFormCycle(t, p)
                           /\ StackSizeUnderRoot(StackRoot(p)) < MaxBreadth

PrimaryCandidates ==
  {Spec1(t) : t \in {x \in Specs : Waiting(x) /\ Unmet(x) = {}}}
    \union {m \in MergeNodes \ Futures : mst[m] \in {"pending", "lost"}}
    \union Created

StackedCandidates ==
  {Spec1(t) : t \in {x \in Specs :
     /\ Waiting(x) /\ Stackable(x)
     /\ IF Cardinality(Unmet(x)) > 1
        THEN Resolves(x) /\ mst[Unmet(x)] = "ready"
        ELSE SingleParentGates(x, Unmet(x))}}

PickTier == IF PrimaryCandidates # {} THEN PrimaryCandidates ELSE StackedCandidates

\* score_candidate: dependents, an open pull request, and up to 25 for the
\* completed share of the subtasks, which is left open here.
Score(n) == IF n \in MergeNodes THEN 0
            ELSE 5 * Cardinality({t \in Specs : n \subseteq Deps[t]})
                 + (IF \E t \in n : pr[t] # "none" THEN 15 ELSE 0)
ProgressBoost(n) == IF n \in wt \intersect SpecNodes THEN 25 ELSE 0
MayWin(n, tier) == \A o \in tier : Score(n) + ProgressBoost(n) >= Score(o)

\* The linkage _apply_pick_side_effects leaves on the picked spec task: its
\* unmet dependencies are its parent, alone or as their merge-node.
PickedParent(t) == IF Unmet(t) \in wt \union {{}} THEN Unmet(t) ELSE par[t]
PickedBranch(t) == IF Unmet(t) \in wt THEN gen[Unmet(t)] ELSE pbr[t]

\* create_merge_node: one row per set of sources, PENDING, listing them all.
CreateMergeNodes ==
  /\ mst' = [m \in MergeNodes |-> IF m \in Created THEN "pending" ELSE mst[m]]
  /\ msrc' = [m \in MergeNodes |-> IF m \in Created THEN m ELSE msrc[m]]
  /\ mbr' = [m \in MergeNodes |-> IF m \in Created THEN [s \in Specs |-> gen[Spec1(s)]] ELSE mbr[m]]

PickNext ==
  /\ Cardinality(Futures) < MaxParallel
  /\ \E n \in PickTier :
       /\ MayWin(n, PickTier)
       /\ job' = [job EXCEPT ![n] = "task"]
       /\ IF n \in MergeNodes THEN UNCHANGED <<par, pbr, flag>>
          ELSE LET t == CHOOSE x \in n : TRUE IN
               /\ par' = [par EXCEPT ![t] = PickedParent(t)]
               /\ pbr' = [pbr EXCEPT ![t] = PickedBranch(t)]
               /\ flag' = IF Unmet(t) = {} /\ par[t] # {} THEN flag \ {t} ELSE flag
  /\ CreateMergeNodes
  /\ UNCHANGED <<st, seen, winVars, gitVars, ownVars, inl, spent>>

-------------------------------------------------------------------------------
\* The worker of a spec task

Working(t, states) == job[Spec1(t)] = "task" /\ st[t] \in states /\ inl[t] = "no"

\* The branch of t on the remote gets new content.  The tip observed for a
\* pull request of that branch, number h, is old.
Pushed(t, c, h) ==
  /\ cont' = [cont EXCEPT ![Spec1(t)][gen[Spec1(t)]] = c]
  /\ seen' = [seen EXCEPT ![t] = IF @ = "same" /\ h = gen[Spec1(t)] THEN "old" ELSE @]

StartTask(t) ==
  /\ Working(t, {"pending"})
  /\ st' = [st EXCEPT ![t] = "prov"]
  /\ UNCHANGED <<linkVars, seen, mst, winVars, gitVars, ownVars, job, inl, spent>>

\* Mutant: the parent's branch is never used as the base.
ForkedContentMain(t) == main

\* A registered worktree is reused as it is; otherwise the task branches off
\* its parent's branch, or off the base branch just fetched.
ForkedContent(t) == IF par[t] = {} THEN main ELSE ParentTip(t)

ProvisionWorktree(t) ==
  /\ Working(t, {"prov"})
  /\ st' = [st EXCEPT ![t] = "doing"]
  /\ IF Spec1(t) \in wt THEN UNCHANGED <<wt, cont, track>>
     ELSE /\ wt' = wt \union {Spec1(t)}
          /\ track' = main
          /\ cont' = [cont EXCEPT ![Spec1(t)][gen[Spec1(t)]] = ForkedContent(t)]
  /\ UNCHANGED <<linkVars, seen, mst, winVars, gen, main, pr, head, job, inl, spent>>

\* Mutant: commits are not limited to what the task's plan holds.
CommitUnplanned(t) ==
  /\ Working(t, {"doing", "audit"})
  /\ Pushed(t, [Tip(Spec1(t)) EXCEPT ![t] = @ + 1], head[t])
  /\ UNCHANGED <<st, linkVars, mst, winVars, main, track, pr, head, ownVars, job, inl, spent>>

\* A commit of the subtask loop, of a fixup round or of a review response.
Commit(t) ==
  /\ Working(t, {"doing", "audit"})
  /\ Tip(Spec1(t))[t] < MaxVer[t]
  /\ Pushed(t, [Tip(Spec1(t)) EXCEPT ![t] = @ + 1], head[t])
  /\ UNCHANGED <<st, linkVars, mst, winVars, main, track, pr, head, ownVars, job, inl, spent>>

AllSubtasksDone(t) ==
  /\ Working(t, {"doing"})
  /\ Tip(Spec1(t))[t] > 0
  /\ t \notin flag
  /\ st' = [st EXCEPT ![t] = "audit"]
  /\ UNCHANGED <<linkVars, seen, mst, winVars, gitVars, ownVars, job, inl, spent>>

\* _open_pr takes its base from a column the row no longer has: always main.
\* A pull request the row knows is reused, whatever branch it is of.
OpenPr(t) ==
  /\ Working(t, {"audit"})
  /\ t \notin flag
  /\ st' = [st EXCEPT ![t] = "ci"]
  /\ IF pr[t] = "none"
     THEN pr' = [pr EXCEPT ![t] = "open"] /\ head' = [head EXCEPT ![t] = gen[Spec1(t)]]
     ELSE UNCHANGED <<pr, head>>
  /\ UNCHANGED <<linkVars, seen, mst, winVars, cont, main, track, ownVars, job, inl, spent>>

WorkerBlocks(t) ==
  /\ Trouble
  /\ Working(t, {"prov", "doing", "audit"})
  /\ st' = [st EXCEPT ![t] = "blocked"]
  /\ job' = [job EXCEPT ![Spec1(t)] = "none"]
  /\ UNCHANGED <<linkVars, seen, mst, winVars, gitVars, ownVars, inl>>

\* The worker's own poll of its pull request: merged, closed (merged when the
\* tip is found on the base branch), or green, which ends the worker.  Neither
\* end tells the children or the merge-nodes.
WorkerPoll(t) ==
  /\ Working(t, {"ci"})
  /\ t \notin flag
  /\ \/ pr[t] = "merged" /\ st' = [st EXCEPT ![t] = "merged"] /\ UNCHANGED track
     \/ /\ pr[t] = "closed"
        /\ track' = main
        /\ st' = [st EXCEPT ![t] = IF Within(Tip(Spec1(t)), main) THEN "merged" ELSE "closed"]
     \/ pr[t] = "open" /\ UNCHANGED <<st, track>>
  /\ job' = [job EXCEPT ![Spec1(t)] = "none"]
  /\ UNCHANGED <<linkVars, seen, mst, winVars, cont, main, pr, head, ownVars, inl, spent>>

\* A worker whose row another process ended notices at its next transition.
WorkerFindsRowEnded(t) ==
  /\ Working(t, {"merged"})
  /\ job' = [job EXCEPT ![Spec1(t)] = "none"]
  /\ UNCHANGED <<rowVars, winVars, gitVars, ownVars, inl, spent>>

-------------------------------------------------------------------------------
\* The inline rebase a worker runs at a checkpoint when its row is flagged

AllParentsMerged(t) ==
  par[t] = {} \/ (par[t] \in SpecNodes /\ \A p \in par[t] : st[p] = "merged")

\* git rebase --onto base parent: what the parent's tip has stays behind.
OntoMain(t) ==
  LET own == Tip(Spec1(t))
      old == IF par[t] = {} THEN Nothing ELSE ParentTip(t)
  IN Join(main, [d \in Specs |-> IF own[d] > old[d] THEN own[d] ELSE 0])

OntoParent(t) == Join(ParentTip(t), Tip(Spec1(t)))

\* Nothing is ahead of the base branch after the rebase: it is not pushed.
Emptied(t) == Within(OntoMain(t), main)

InlineRebase(t) ==
  /\ Working(t, {"doing", "audit", "ci"})
  /\ t \in flag
  /\ LET target == IF AllParentsMerged(t) THEN "main" ELSE "tip" IN
     /\ inl' = [inl EXCEPT ![t] = target]
     /\ target = "main" => ~Emptied(t)
     /\ Pushed(t, IF target = "main" THEN OntoMain(t) ELSE OntoParent(t), head[t])
     /\ track' = IF target = "main" THEN main ELSE track
  /\ UNCHANGED <<st, linkVars, mst, winVars, main, pr, head, ownVars, job, spent>>

\* After the push: retarget, clear the linkage, then clear the flag.
InlineFinish(t) ==
  /\ inl[t] # "no"
  /\ par' = IF inl[t] = "main" THEN [par EXCEPT ![t] = {}] ELSE par
  /\ flag' = flag \ {t}
  /\ inl' = [inl EXCEPT ![t] = "no"]
  /\ UNCHANGED <<st, pbr, seen, mst, msrc, mbr, winVars, gitVars, ownVars, job, spent>>

\* The fetch, the conflict resolver or the push fails, or nothing is left.
InlineFails(t) ==
  /\ Trouble \/ (AllParentsMerged(t) /\ Emptied(t) /\ UNCHANGED spent)
  /\ Working(t, {"doing", "audit", "ci"})
  /\ t \in flag
  /\ st' = [st EXCEPT ![t] = IF @ = "ci" THEN @ ELSE "blocked"]
  /\ job' = [job EXCEPT ![Spec1(t)] = "none"]
  /\ UNCHANGED <<linkVars, seen, mst, winVars, gitVars, ownVars, inl>>

-------------------------------------------------------------------------------
\* Scheduled rebases (futures of their own)

\* The state a rebase worker leaves: only REBASING_TO_MAIN moves on.  A row
\* resumed before the worker starts is PENDING, and its start_task leaves it
\* PROVISIONING, or BLOCKED when the rebase blocks.
RebasedState(s, next) ==
  CASE s = "rebasing"                      -> next
    [] s = "pending" /\ next = "blocked"   -> "blocked"
    [] s = "pending" /\ next # "blocked"   -> "prov"
    [] OTHER                               -> s

RebasedMergeState(s, next) ==
  IF s \in {"pending", "stray"} THEN IF next = "blocked" THEN "blocked" ELSE "stray" ELSE s

\* Mutant: the rebase worker ends without the closing enter_pending_ci.
RebaseDoneForgets(n, next) ==
  /\ job' = [job EXCEPT ![n] = "none"]
  /\ st' = [t \in Specs |-> IF Spec1(t) = n /\ next = "blocked" THEN next ELSE st[t]]
  /\ UNCHANGED mst

RebaseDone(n, next) ==
  /\ job' = [job EXCEPT ![n] = "none"]
  /\ st' = [t \in Specs |-> IF Spec1(t) = n THEN RebasedState(st[t], next) ELSE st[t]]
  /\ mst' = [m \in MergeNodes |-> IF m = n THEN RebasedMergeState(mst[m], next) ELSE mst[m]]

\* A clean rebase restores PENDING_CI.  After a resolved conflict the row is
\* still CONFLICT_RESOLVING, which enter_pending_ci skips.  Retargeting the
\* pull request may fail and block, or find it closed and open another.
RebaseEnds == {"ci", "resolving", "blocked"}

RunRebaseToMain(t) ==
  /\ job[Spec1(t)] = "toMain"
  /\ Spec1(t) \in wt
  /\ ~Emptied(t)
  /\ track' = main
  /\ par' = [par EXCEPT ![t] = {}]
  /\ flag' = flag \ {t}
  /\ \E next \in RebaseEnds :
       /\ RebaseDone(Spec1(t), next)
       /\ \/ /\ Pushed(t, OntoMain(t), head[t])
             /\ UNCHANGED <<pr, head>>
          \/ /\ pr[t] = "closed" /\ next # "blocked"
             /\ Pushed(t, OntoMain(t), gen[Spec1(t)])
             /\ pr' = [pr EXCEPT ![t] = "open"]
             /\ head' = [head EXCEPT ![t] = gen[Spec1(t)]]
  /\ UNCHANGED <<pbr, msrc, mbr, winVars, main, ownVars, inl, spent>>

\* parent_branches[0] is the only parent, or a merge-node's first source.
OntoFirstParent(n) ==
  Join(IF n \in MergeNodes THEN SourceTip(n, Min(msrc[n])) ELSE ParentTip(CHOOSE t \in n : TRUE),
       Tip(n))

\* The commits ahead are counted against the tracking ref, fetched or not.
RunRebaseToParentTip(n) ==
  /\ job[n] = "toTip"
  /\ n \in wt /\ ParentsOf(n) # {}
  /\ ~Within(OntoFirstParent(n), track)
  /\ cont' = [cont EXCEPT ![n][gen[n]] = OntoFirstParent(n)]
  /\ seen' = [t \in Specs |-> IF Spec1(t) = n /\ seen[t] = "same" /\ head[t] = gen[n]
                              THEN "old" ELSE seen[t]]
  /\ \E next \in RebaseEnds \ {"blocked"} : RebaseDone(n, next)
  /\ UNCHANGED <<linkVars, winVars, main, track, pr, head, ownVars, inl, spent>>

\* A failed fetch (or an exception) restores PENDING_CI; an unresolved
\* conflict or a failed push blocks.
RebaseFails(n) ==
  /\ Trouble
  /\ job[n] \in {"toMain", "toTip"}
  /\ \E next \in {"ci", "blocked"} : RebaseDone(n, next)
  /\ UNCHANGED <<linkVars, seen, winVars, gitVars, ownVars, inl>>

\* A row without a worktree raises; no parent, or nothing ahead, blocks.
CannotRebase(n) ==
  n \in wt => IF job[n] = "toMain" THEN \A t \in n : Emptied(t)
              ELSE ParentsOf(n) # {} => Within(OntoFirstParent(n), track)

RebaseIsVain(n) ==
  /\ job[n] \in {"toMain", "toTip"}
  /\ CannotRebase(n)
  /\ RebaseDone(n, IF n \in wt THEN "blocked" ELSE "ci")
  /\ UNCHANGED <<linkVars, seen, winVars, gitVars, ownVars, inl, spent>>

-------------------------------------------------------------------------------
\* The merge-node worker

MergeWorking(m, states) == job[m] = "task" /\ mst[m] \in states

\* start_task; a row whose branch an orphan recovery cleared raises instead,
\* now and after every resume.
StartMergeNode(m) ==
  /\ MergeWorking(m, {"pending", "lost"})
  /\ mst' = [mst EXCEPT ![m] = IF @ = "lost" THEN "dead" ELSE "prov"]
  /\ job' = [job EXCEPT ![m] = IF mst[m] = "lost" THEN "none" ELSE @]
  /\ UNCHANGED <<st, linkVars, seen, winVars, gitVars, ownVars, inl, spent>>

\* Mutant: the integration stops after the first source merged cleanly.
IntegratedFirst(m, base) ==
  [d \in Specs |-> Max({base[d], SourceTip(m, Min(msrc[m]))[d]})]

\* The base branch is fetched only when the worktree is new; every build
\* resets to the tracking ref and merges the sources' branches into it.
FetchedBase(m) == IF m \in wt THEN track ELSE main

Integrated(m, base) ==
  [d \in Specs |-> Max({base[d]} \union {SourceTip(m, s)[d] : s \in msrc[m]})]

IntegrateParents(m) ==
  /\ MergeWorking(m, {"prov"})
  /\ wt' = wt \union {m}
  /\ track' = FetchedBase(m)
  /\ IF msrc[m] = {}
     THEN /\ mst' = [mst EXCEPT ![m] = "blocked"]
          /\ job' = [job EXCEPT ![m] = "none"]
          /\ UNCHANGED cont
     ELSE /\ mst' = [mst EXCEPT ![m] = "audit"]
          /\ cont' = [cont EXCEPT ![m][gen[m]] = Integrated(m, FetchedBase(m))]
          /\ UNCHANGED job
  /\ UNCHANGED <<st, linkVars, seen, winVars, gen, main, pr, head, inl, spent>>

MergeNodeBuilt(m) ==
  /\ MergeWorking(m, {"audit"})
  /\ mst' = [mst EXCEPT ![m] = "ready"]
  /\ job' = [job EXCEPT ![m] = "none"]
  /\ UNCHANGED <<st, linkVars, seen, winVars, gitVars, ownVars, inl, spent>>

\* A failed fetch, reset, merge-planner, push or audit; an exception fails it.
MergeNodeBlocks(m) ==
  /\ Trouble
  /\ MergeWorking(m, {"prov", "audit"})
  /\ mst' = [mst EXCEPT ![m] = "blocked"]
  /\ job' = [job EXCEPT ![m] = "none"]
  /\ UNCHANGED <<st, linkVars, seen, winVars, gitVars, ownVars, inl>>

-------------------------------------------------------------------------------
\* The review watcher: pushes, merges and closes reach the stack

\* children_of_parent_branch: rows that name the branch n's row names now.
\* A merge-node being built is a row like others.
Untouched == {"merged", "closed", "blocked", "pending"}

ChildrenOf(n, ms) ==
  {Spec1(c) : c \in {x \in Specs : par[x] = n /\ pbr[x] = gen[n] /\ st[x] \notin Untouched}}
    \union {m \in MergeNodes : /\ ms[m] \in {"prov", "audit", "ready", "retired", "stray"}
                               /\ \E s \in msrc[m] : Spec1(s) = n /\ mbr[m][s] = gen[n]}

DescendantsOf(n, ms) ==
  LET down[k \in Heights] ==
        IF k = 0 THEN ChildrenOf(n, ms)
        ELSE down[k - 1] \union UNION {ChildrenOf(x, ms) : x \in down[k - 1]}
  IN down[Cardinality(Nodes)]

PropagateAdvanced(t) ==
  [m \in MergeNodes |-> IF mst[m] = "ready" /\ t \in msrc[m] THEN "pending" ELSE mst[m]]

\* The merge-nodes merge_nodes_with_parent finds.
SourceOf(t) == {m \in MergeNodes : t \in msrc[m] /\ mst[m] \notin {"retired", "blocked", "dead"}}

\* Mutant: one remaining source needs no integration, so the node retires.
PropagateMergedEager(t) ==
  [m \in MergeNodes |-> IF m \in SourceOf(t) /\ mst[m] = "ready" THEN
                           IF Cardinality(msrc[m] \ {t}) <= 1 THEN "retired" ELSE "pending"
                         ELSE mst[m]]

PropagateMerged(t) ==
  [m \in MergeNodes |-> IF m \notin SourceOf(t) \/ mst[m] # "ready" THEN mst[m]
                         ELSE IF msrc[m] = {t} THEN "retired" ELSE "pending"]

PruneParent(t) == [m \in MergeNodes |-> IF m \in SourceOf(t) THEN msrc[m] \ {t} ELSE msrc[m]]

\* _begin_scheduled_rebase for the nodes of S that have no future and no
\* rebase inside the window.  A BLOCKED row or a merge-node keeps its state.
Begun(S) == S \ (Futures \union sched)
ScheduledJobs(S, kind) == [n \in Nodes |-> IF n \in Begun(S) THEN kind ELSE job[n]]
ScheduledStates(S) ==
  [c \in Specs |-> IF Spec1(c) \in Begun(S) /\ st[c] # "blocked" THEN "rebasing" ELSE st[c]]
ScheduledWindow(S) == IF CoalesceOn THEN sched \union Begun(S) ELSE sched

Polled(t) == /\ Spec1(t) \notin Futures
             /\ pr[t] # "none"
             /\ st[t] \in PostPr \union {"blocked"}

\* What the poll of an open pull request does after the cascade.
PollEffects(t) ==
  {"nothing"}
    \union (IF Spec1(t) \notin sched THEN {"conflict"} ELSE {})
    \union (IF st[t] = "ci" THEN {"ci_pass"} ELSE {})
    \union (IF /\ st[t] \in PostPr /\ Spec1(t) \in wt
               /\ Cardinality(Futures) < MaxParallel + ExtraSlots
            THEN {"respond"} ELSE {})

PollOpen(t) ==
  /\ Polled(t) /\ pr[t] = "open"
  /\ LET walk == Spec1(t) \in wt /\ seen[t] = "old" /\ t \notin walked
         hit  == IF walk THEN DescendantsOf(Spec1(t), PropagateAdvanced(t)) ELSE {}
         jobs == ScheduledJobs(hit, "toTip")
         sts  == ScheduledStates(hit)
     IN \E e \in PollEffects(t) :
        /\ IF e \in {"conflict", "respond"} THEN Trouble ELSE UNCHANGED spent
        /\ mst' = IF walk THEN PropagateAdvanced(t) ELSE mst
        /\ flag' = flag \union {c \in Specs : Spec1(c) \in hit}
        /\ walked' = IF walk /\ CoalesceOn THEN walked \union {t} ELSE walked
        /\ sched' = ScheduledWindow(hit \union (IF e = "conflict" THEN {Spec1(t)} ELSE {}))
        /\ job' = [jobs EXCEPT ![Spec1(t)] = CASE e = "conflict" -> "toMain"
                                               [] e = "respond"  -> "task"
                                               [] OTHER          -> @]
        /\ st' = [sts EXCEPT ![t] = CASE e = "conflict" /\ @ # "blocked" -> "rebasing"
                                      [] e = "respond"                   -> "audit"
                                      [] e = "ci_pass"                   -> "review"
                                      [] OTHER                           -> @]
  /\ seen' = IF Spec1(t) \in wt THEN [seen EXCEPT ![t] = "same"] ELSE seen
  /\ UNCHANGED <<par, pbr, msrc, mbr, gitVars, ownVars, inl>>

\* The settle time passes.
Settle(t) ==
  /\ st[t] = "review"
  /\ st' = [st EXCEPT ![t] = "settled"]
  /\ UNCHANGED <<linkVars, seen, mst, winVars, gitVars, ownVars, job, inl, spent>>

\* _schedule_rebases_for_merged_parent: a child whose pull request is still
\* mergeable on an intact base only loses its linkage.  A row without a branch
\* is marked merged and tells nobody.
PollMerged(t) ==
  /\ Polled(t) /\ pr[t] = "merged"
  /\ LET kids == {c \in Specs : Spec1(c) \in ChildrenOf(Spec1(t), mst)} IN
     \E skip \in SUBSET {c \in kids : pr[c] = "open"} :
       /\ par' = [c \in Specs |-> IF c \in skip THEN {} ELSE par[c]]
       /\ flag' = (flag \union kids) \ skip
       /\ LET go == {Spec1(c) : c \in kids \ skip} IN
          /\ sched' = ScheduledWindow(go)
          /\ job' = ScheduledJobs(go, "toMain")
          /\ st' = [ScheduledStates(go) EXCEPT ![t] = "merged"]
  /\ IF Spec1(t) \in wt THEN mst' = PropagateMerged(t) /\ msrc' = PruneParent(t)
     ELSE UNCHANGED <<mst, msrc>>
  /\ UNCHANGED <<pbr, mbr, seen, walked, gitVars, ownVars, inl, spent>>

\* children_with_parent_branch, which leaves out ended and BLOCKED rows.
StrandedChildren(t) ==
  {c \in Specs : /\ par[c] = Spec1(t) /\ pbr[c] = gen[Spec1(t)]
                  /\ st[c] \notin {"merged", "closed", "blocked"}}

\* Closed without a merge: rows that list the branch lose their linkage,
\* merge-nodes their whole source set.  (On a BLOCKED row PR_CLOSED raises.)
PollClosed(t) ==
  /\ Polled(t) /\ pr[t] = "closed" /\ st[t] # "blocked"
  /\ par' = [c \in Specs |-> IF c \in StrandedChildren(t) THEN {} ELSE par[c]]
  /\ flag' = flag \ StrandedChildren(t)
  /\ st' = [st EXCEPT ![t] = "closed"]
  /\ msrc' = [m \in MergeNodes |->
                IF t \in msrc[m] /\ mbr[m][t] = gen[Spec1(t)] /\ mst[m] # "blocked" THEN {}
                ELSE msrc[m]]
  /\ UNCHANGED <<pbr, mbr, seen, mst, winVars, gitVars, ownVars, job, inl, spent>>

WalkWindowEnds(t) ==
  /\ t \in walked
  /\ walked' = walked \ {t}
  /\ UNCHANGED <<rowVars, sched, gitVars, ownVars, job, inl, spent>>

RebaseWindowEnds(n) ==
  /\ n \in sched
  /\ sched' = sched \ {n}
  /\ UNCHANGED <<rowVars, walked, gitVars, ownVars, job, inl, spent>>

-------------------------------------------------------------------------------
\* GitHub, the operator and restarts

MergePr(t) ==
  /\ pr[t] = "open"
  /\ pr' = [pr EXCEPT ![t] = "merged"]
  /\ main' = Join(main, cont[Spec1(t)][head[t]])
  /\ UNCHANGED <<rowVars, winVars, cont, track, head, ownVars, job, inl, spent>>

\* Closed, after an integration branch with the work was pushed or without.
ClosePr(t) ==
  /\ Trouble
  /\ pr[t] = "open"
  /\ pr' = [pr EXCEPT ![t] = "closed"]
  /\ main' \in {main, Join(main, cont[Spec1(t)][head[t]])}
  /\ UNCHANGED <<rowVars, winVars, cont, track, head, ownVars, job, inl>>

\* qk resume
Resume(t) ==
  /\ Trouble
  /\ st[t] = "blocked"
  /\ st' = [st EXCEPT ![t] = "pending"]
  /\ UNCHANGED <<linkVars, seen, mst, winVars, gitVars, ownVars, job, inl>>

ResumeMergeNode(m) ==
  /\ Trouble
  /\ mst[m] = "blocked"
  /\ mst' = [mst EXCEPT ![m] = "pending"]
  /\ UNCHANGED <<st, linkVars, seen, winVars, gitVars, ownVars, job, inl>>

\* qk detect-merged --apply on the states mark_merged can bridge.  A tip on
\* the base branch has nothing the base branch lacks.
DetectMerged(t) ==
  /\ Trouble
  /\ Spec1(t) \in wt
  /\ st[t] \in PostPr \union {"audit", "rebasing", "resolving", "blocked", "closed"}
  /\ Within(Tip(Spec1(t)), main)
  /\ st' = [st EXCEPT ![t] = "merged"]
  /\ track' = main
  /\ UNCHANGED <<linkVars, seen, mst, winVars, cont, main, pr, head, ownVars, job, inl>>

\* recover_orphan_tasks, once, when the orchestrator starts again.
Active == States \ (PostPr \union {"pending", "merged", "blocked", "closed"})
Recovered(t) ==
  IF st[t] \notin Active THEN st[t]
  ELSE IF st[t] \in {"audit", "rebasing", "resolving"} /\ pr[t] # "none" THEN "ci"
  ELSE "pending"

Strays == {m \in MergeNodes : mst[m] = "stray"}

RecoveredMergeNode(m, back) ==
  CASE mst[m] = "prov"  -> "lost"
    [] mst[m] = "audit" -> "pending"
    [] mst[m] = "stray" -> back[m]
    [] OTHER            -> mst[m]

Restart ==
  /\ Trouble
  /\ st' = [t \in Specs |-> Recovered(t)]
  /\ flag' = {t \in flag : st[t] \notin Active}
  /\ \E back \in [Strays -> {"lost", "pending", "stray"}] :
       mst' = [m \in MergeNodes |-> RecoveredMergeNode(m, back)]
  /\ wt' = {n \in wt : IF n \in MergeNodes THEN mst'[n] # "lost" ELSE \A t \in n : st[t] # "prov"}
  /\ gen' = [n \in Nodes |-> IF n \in SpecNodes /\ n \in wt \ wt' THEN gen[n] + 1 ELSE gen[n]]
  /\ job' = [n \in Nodes |-> "none"]
  /\ inl' = [t \in Specs |-> "no"]
  /\ walked' = {}
  /\ UNCHANGED <<par, pbr, seen, msrc, mbr, sched, gitVars>>

-------------------------------------------------------------------------------
WorkerStep(t) ==
  \/ StartTask(t) \/ ProvisionWorktree(t) \/ Commit(t) \/ AllSubtasksDone(t)
  \/ OpenPr(t) \/ WorkerBlocks(t) \/ WorkerPoll(t)
  \/ WorkerFindsRowEnded(t) \/ InlineRebase(t) \/ InlineFinish(t) \/ InlineFails(t)
  \/ RunRebaseToMain(t)

MergeNodeStep(m) ==
  \/ StartMergeNode(m) \/ IntegrateParents(m) \/ MergeNodeBuilt(m)
  \/ MergeNodeBlocks(m) \/ ResumeMergeNode(m)

WatcherStep(t) ==
  \/ PollOpen(t) \/ PollMerged(t) \/ PollClosed(t) \/ Settle(t) \/ WalkWindowEnds(t)

OutsideStep(t) == MergePr(t) \/ ClosePr(t) \/ Resume(t) \/ DetectMerged(t)

Next ==
  \/ PickNext \/ Restart
  \/ \E t \in Specs : WorkerStep(t) \/ WatcherStep(t) \/ OutsideStep(t)
  \/ \E m \in MergeNodes : MergeNodeStep(m)
  \/ \E n \in Nodes : \/ RunRebaseToParentTip(n) \/ RebaseFails(n)
                      \/ RebaseIsVain(n) \/ RebaseWindowEnds(n)

Spec == Init /\ [][Next]_vars

-------------------------------------------------------------------------------
(* Properties                                                              *)

\* Every variable has its type.
TypeOK ==
  /\ st \in [Specs -> States]
  /\ par \in [Specs -> Nodes \union {{}}] /\ pbr \in [Specs -> Gens]
  /\ flag \subseteq Specs
  /\ seen \in [Specs -> {"none", "same", "old"}]
  /\ mst \in [MergeNodes -> MStates]
  /\ msrc \in [MergeNodes -> SUBSET Specs] /\ mbr \in [MergeNodes -> [Specs -> Gens]]
  /\ wt \subseteq Nodes /\ gen \in [Nodes -> Gens]
  /\ job \in [Nodes -> {"none", "task", "toMain", "toTip"}]
  /\ inl \in [Specs -> {"no", "main", "tip"}]
  /\ walked \subseteq Specs /\ sched \subseteq Nodes
  /\ cont \in [Nodes -> [Gens -> Contents]] /\ {main, track} \subseteq Contents
  /\ pr \in [Specs -> {"none", "open", "merged", "closed"}] /\ head \in [Specs -> Gens]
  /\ spent \in 0..MaxTrouble

\* A merge-node stops listing a source only because that source merged, or
\* because one of its sources was closed unmerged; it is retired only when
\* every one of them merged (propagate_parent_merged, clear_parent_branch).
MergeNodeForgetsMerged ==
  \A m \in MergeNodes : mst[m] # "none" =>
    /\ \/ \A s \in m \ msrc[m] : st[s] = "merged"
       \/ msrc[m] = {} /\ \E s \in m : pr[s] = "closed"
    /\ mst[m] = "retired" => \A s \in m : st[s] = "merged"

\* The branch of a merge-node that children may fork off contains work of
\* every source it still lists, whatever was pushed, merged, closed, restarted
\* or provisioned again while it was being built.  A source is left out when
\* its row had already lost a branch to orphan recovery as it was listed.
ReadyHoldsSources ==
  \A m \in MergeNodes : mst[m] = "ready" =>
    \A s \in msrc[m] : mbr[m][s] = 0 => Tip(m)[s] > 0

\* When a task's worktree is created its branch contains work of every task
\* it depends on, apart from those already merged or closed and those whose
\* row lost a branch to orphan recovery: whatever the parent, the merge-node
\* or the linkage went through since the pick.
ForkHoldsDependencies ==
  [][\A t \in Specs : Spec1(t) \in wt' \ wt =>
       \A d \in Deps[t] : st[d] \notin {"merged", "closed"} /\ gen[Spec1(d)] = 0
                           => Tip(Spec1(t))'[d] > 0]_vars

\* A row in REBASING_TO_MAIN always has the rebase future that will move it
\* on: nothing else polls, picks or times out a row in that state.
RebasingIsOwned ==
  \A t \in Specs : st[t] = "rebasing" => job[Spec1(t)] \in {"toMain", "toTip"}

===============================================================================
