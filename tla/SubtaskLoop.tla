---------------------------- MODULE SubtaskLoop ----------------------------
(***************************************************************************)
(* The subtasks of one task: the rows of the subtasks table, the worker's  *)
(* do / check / triage loop with its budgets and stop-losses, the commits  *)
(* it makes on the task's branch and pushes, and the operator's commands   *)
(* that edit rows and branch of a stopped task: resume, reset-retries,     *)
(* rewind and replan-cycle.                                                *)
(*                                                                         *)
(* A subtask's id is a number; ids sort like the strings of the code.  A   *)
(* commit is named by its history: the sha of a commit is the sequence of  *)
(* patches up to it, so that `sha~1` is Front(sha) and a push is a         *)
(* fast-forward when the remote branch is a prefix of the local one.       *)
(***************************************************************************)
EXTENDS Integers, SequencesExt, FiniteSetsExt

CONSTANTS
  Plan,          \* the planner's subtasks, in the order it lists them
  Deps,          \* depends_on of the planner's subtasks
  GateId,        \* STABILIZATION_SUBTASK_ID, injected after the planner's subtasks
  FixupId,       \* the subtask that a fixup planner emits
  HardMax,       \* cfg.subtask_hard_max_attempts
  TransientMax,  \* cfg.subtask_transient_max_retries
  ReprovMax,     \* container recreations in a row that are tolerated, 3 in the code
  CapCr,         \* cfg.subtask_cannot_reproduce_stop_loss_count
  CapTr,         \* cfg.subtask_transport_stop_loss_count
  CapSs,         \* cfg.subtask_same_signature_block_count
  ProgressAfter, \* cfg.subtask_progress_check_after
  ProgressEvery, \* cfg.subtask_progress_check_every
  FlatMax,       \* cfg.subtask_flatline_block_count
  MaxHist        \* bound: length of a branch beyond which nobody adds patches

Specs == Range(Plan) \cup {GateId}
Subs == Specs \cup {FixupId}

(* Plan._check_unique_and_acyclic: the last conjunct rules a loop out.     *)
ASSUME PlanAssumption ==
  /\ Plan \in Seq(Nat \ {0}) /\ IsInjective(Plan)
  /\ GateId \in Nat \ {0} /\ GateId \notin Range(Plan)
  /\ FixupId \in Nat \ {0} /\ FixupId \notin Specs
  /\ Deps \in [Range(Plan) -> SUBSET Range(Plan)]
  /\ \A S \in (SUBSET Range(Plan)) \ {{}} : \E s \in S : Deps[s] \cap S = {}
ASSUME BudgetAssumption ==
  /\ {HardMax, TransientMax, ReprovMax, FlatMax, MaxHist} \subseteq Nat
  /\ {CapCr, CapTr, CapSs, ProgressAfter} \subseteq Nat
  /\ ProgressEvery \in Int

VARIABLES
  task,    \* tasks.state; "stopped" is BLOCKED or FAILED, which resume and rewind treat alike
  marker,  \* resume_from_existing_subtasks
  text,    \* plan_text is stored
  rows,    \* the subtasks table, see Row
  head,    \* HEAD of the worktree: the patches on the branch
  remote,  \* the branch on GitHub
  dirty,   \* the worktree has uncommitted edits
  wk       \* the worker thread, see Worker

vars == <<task, marker, text, rows, head, remote, dirty, wk>>
branch == <<head, remote, dirty>>

Human == 0
Patch == [sub : Subs \cup {Human}, n : Nat]
Layers == {"cr", "tr", "a", "b"}
Sha == Seq(Patch)
NoSha == <<>>
SigsKept == Max({CapCr, CapTr, CapSs})

(***************************************************************************)
(* sigs: the last non-transient retry signatures, newest first; "cr" and   *)
(* "tr" carry the layers cannot_reproduce and transport, "a" and "b" are   *)
(* two others.  flat: flatline_count, which may pass FlatMax when a rewind *)
(* of a later row lets a row blocked on its flatlines run again.  kind:    *)
(* what a fixup is for.  "absent" stands for a row not in the table.       *)
(***************************************************************************)
Row ==
  [state : {"absent", "pending", "doing", "checking", "triaging", "done", "blocked"},
   retries : 0..HardMax, sigs : BoundedSeq(Layers, SigsKept), flat : 0..HardMax,
   sha : Sha, kind : {"spec", "fixup-ci", "fixup-review"}]

(***************************************************************************)
(* set: the subtasks the running set still has to settle.  fixing: the     *)
(* plan's own subtasks are settled.  att, trans, reprov: the counters of   *)
(* _attempt_subtask_until_settled.  sig: what the failed attempt is        *)
(* recorded as.  sha: HEAD as it was read after the commit.                *)
(***************************************************************************)
Worker ==
  [pc : {"none", "plan", "planned", "next", "try", "check", "commit", "push", "record",
         "mark", "triage", "audit"},
   set : Seq(Subs), fixing : BOOLEAN, att : 0..HardMax,
   trans : 0..TransientMax, reprov : 0..ReprovMax, sig : Layers, sha : Sha]

Idle ==
  [pc |-> "none", set |-> <<>>, fixing |-> FALSE, att |-> 0, trans |-> 0, reprov |-> 0,
   sig |-> "a", sha |-> NoSha]

FreshRow(kind) ==
  [state |-> "pending", retries |-> 0, sigs |-> <<>>, flat |-> 0, sha |-> NoSha, kind |-> kind]

Forgiven(r) == [r EXCEPT !.retries = 0, !.sigs = <<>>, !.flat = 0]

(* The counters of a DONE row are read by reports only: they are forgotten.*)
DoneRow(r) == [Forgiven(r) EXCEPT !.state = "done"]

NoRow == [FreshRow("spec") EXCEPT !.state = "absent"]

(* Rows, branch and worker keep their types; no counter passes its budget. *)
TypeOK ==
  /\ task \in {"pending", "running", "stopped", "passed"}
  /\ {marker, text, dirty} \subseteq BOOLEAN
  /\ rows \in [Subs -> Row]
  /\ head \in Sha /\ remote \in Sha
  /\ wk \in Worker

Init ==
  /\ task = "pending" /\ marker = FALSE /\ text = FALSE
  /\ rows = [s \in Subs |-> NoRow]
  /\ head = <<>> /\ remote = <<>> /\ dirty = FALSE
  /\ wk = Idle

-----------------------------------------------------------------------------
(* Orders and rows.                                                        *)

(* Plan.topo_order: the smallest subtask that is ready comes next.         *)
Ready(out) == {s \in Range(Plan) \ out : Deps[s] \subseteq out}

TopoPrefix[n \in 0..Len(Plan)] ==
  IF n = 0 THEN <<>>
  ELSE Append(TopoPrefix[n - 1], Min(Ready(Range(TopoPrefix[n - 1]))))

TopoOrder == TopoPrefix[Len(Plan)]

(* The order of the rows' primary key: as inserted.                        *)
RowOrder == Plan \o <<GateId, FixupId>>
RowsFrom(s) == {RowOrder[i] : i \in {j \in DOMAIN RowOrder : \E k \in 1..j : RowOrder[k] = s}}

RunOrder == TopoOrder \o <<GateId, FixupId>>
Before(s) == {RunOrder[i] : i \in {j \in DOMAIN RunOrder : \A k \in 1..j : RunOrder[k] # s}}

(* The members of a sequence that are in S, in their order.                *)
Kept(seq, S) ==
  LET kept[n \in 0..Len(seq)] ==
        IF n = 0 THEN <<>>
        ELSE IF seq[n] \in S THEN Append(kept[n - 1], seq[n]) ELSE kept[n - 1]
  IN  kept[Len(seq)]

Present(s) == rows[s].state # "absent"

(* An UPDATE of a row that is not there changes nothing.                   *)
UpdateRow(s, r) == rows' = IF Present(s) THEN [rows EXCEPT ![s] = r] ELSE rows

cur == Head(wk.set)

(* The running attempt moves on; the row keeps what it has.                *)
Goto(pc) == wk' = [wk EXCEPT !.pc = pc]

(* The subtask is settled and the loop takes the next one.                 *)
Settle ==
  wk' = [wk EXCEPT !.pc = "next", !.set = Tail(@), !.att = 0, !.trans = 0, !.reprov = 0,
                   !.sig = "a", !.sha = NoSha]

(* A free retry: the attempt is not counted.                               *)
FreeRetry(trans) == wk' = [wk EXCEPT !.pc = "try", !.att = @ - 1, !.trans = trans, !.sha = NoSha]

(* The attempt failed for real; consecutive transients start over.         *)
ToTriage(sig) == wk' = [wk EXCEPT !.pc = "triage", !.sig = sig, !.trans = 0, !.sha = NoSha]

(* Mutant: the loop goes on after a subtask that blocked.                  *)
BlockGoesOn(r) ==
  /\ UpdateRow(cur, [r EXCEPT !.state = "blocked"])
  /\ Settle
  /\ UNCHANGED task

(* _block_subtask_set: the row and the task are BLOCKED, the worker ends.  *)
Block(r) ==
  /\ UpdateRow(cur, [r EXCEPT !.state = "blocked"])
  /\ task' = "stopped"
  /\ wk' = Idle

(* A block for a reason that is not the subtask's.                         *)
BlockTask ==
  /\ task' = "stopped"
  /\ wk' = Idle
  /\ UNCHANGED <<marker, text, rows>>

-----------------------------------------------------------------------------
(* Planning.                                                               *)

(* A free slot; the worktree of an earlier attempt is used as it is.       *)
Pick ==
  /\ task = "pending" /\ wk.pc = "none"
  /\ task' = "running"
  /\ Goto("plan")
  /\ UNCHANGED <<marker, text, rows, branch>>

(* With fixup rows in the table the stabilization subtask is not injected  *)
(* again; its row, if not done, is a leftover.                             *)
PlanSet == IF rows[FixupId].kind # "spec" THEN TopoOrder ELSE Append(TopoOrder, GateId)

PlanResumed ==
  /\ wk.pc = "plan" /\ marker /\ text
  /\ marker' = FALSE
  /\ wk' = [wk EXCEPT !.pc = "next", !.set = PlanSet]
  /\ UNCHANGED <<task, text, rows, branch>>

(* plan_text is stored before the validators have seen it.                 *)
PlannerEmits ==
  /\ wk.pc = "plan" /\ ~(marker /\ text)
  /\ text' = TRUE
  /\ Goto("planned")
  /\ UNCHANGED <<task, marker, rows, branch>>

(* upsert_subtasks replaces whatever rows there were.                      *)
Planned ==
  /\ wk.pc = "planned"
  /\ rows' = [s \in Subs |-> IF s \in Specs THEN FreshRow("spec") ELSE NoRow]
  /\ wk' = [wk EXCEPT !.pc = "next", !.set = Append(TopoOrder, GateId)]
  /\ UNCHANGED <<task, marker, text, branch>>

PlanRejected ==
  /\ wk.pc = "planned"
  /\ BlockTask /\ UNCHANGED branch

-----------------------------------------------------------------------------
(* The boundary before a subtask: _handle_branch_divergence_if_needed.     *)

AtBoundary == wk.pc = "next" /\ wk.set # <<>>

(* A review fixup that was interrupted switches the check off.             *)
Checked ==
  /\ AtBoundary
  /\ ~\E s \in Subs : /\ rows[s].kind = "fixup-review"
                      /\ rows[s].state \in {"doing", "checking", "triaging"}

(* git rebase origin/branch: patches that are upstream already are skipped.*)
Rebased == remote \o Kept(head, Range(head) \ Range(remote))

Behind == ~IsPrefix(remote, head)

UpstreamFastForward ==
  /\ Checked /\ Behind /\ IsPrefix(head, remote)
  /\ head' = remote /\ dirty' = FALSE
  /\ UNCHANGED <<task, marker, text, rows, remote, wk>>

(* The reset, a rebase over uncommitted edits, or the resolver fails.      *)
BoundaryBlocks ==
  /\ Checked /\ Behind
  /\ BlockTask /\ UNCHANGED branch

(* Whether the push that follows succeeds is not looked at.                *)
RebaseDiverged ==
  /\ Checked /\ Behind /\ ~IsPrefix(head, remote) /\ ~dirty
  /\ head' = Rebased
  /\ remote' \in {remote, head'}
  /\ UNCHANGED <<task, marker, text, rows, dirty, wk>>

SkipDone ==
  /\ AtBoundary /\ rows[cur].state = "done"
  /\ Settle
  /\ UNCHANGED <<task, marker, text, rows, branch>>

(* The fetch of the check may fail: then nothing was compared.             *)
EnterSubtask ==
  /\ AtBoundary /\ rows[cur].state # "done"
  /\ wk' = [wk EXCEPT !.pc = "try", !.att = rows[cur].retries]
  /\ UNCHANGED <<task, marker, text, rows, branch>>

-----------------------------------------------------------------------------
(* One attempt.                                                            *)

(* Uncommitted edits are a patch to come.                                  *)
Room == Cardinality(Range(head) \cup Range(remote)) + (IF dirty THEN 1 ELSE 0) < MaxHist

(* The container is recreated, or runs; the doer edits the worktree.       *)
DoSubtask ==
  /\ wk.pc = "try" /\ wk.att < HardMax
  /\ \E recreated \in {0, wk.reprov + 1} :
       /\ recreated <= ReprovMax
       /\ wk' = [wk EXCEPT !.pc = "check", !.att = @ + 1, !.reprov = recreated]
  /\ UpdateRow(cur, [rows[cur] EXCEPT !.state = "doing"])
  /\ dirty' \in {dirty, dirty \/ Room}
  /\ UNCHANGED <<task, marker, text, head, remote>>

(* One recreation too many, or no attempt left.                            *)
NoAttempt ==
  /\ wk.pc = "try"
  /\ wk.att >= HardMax \/ wk.reprov = ReprovMax
  /\ Block(rows[cur])
  /\ UNCHANGED <<marker, text, branch>>

Checking == UpdateRow(cur, [rows[cur] EXCEPT !.state = "checking"])

(* Mutant: a transient failure uses up an attempt.                         *)
CheckTransientCounts ==
  /\ wk.pc = "check" /\ wk.trans < TransientMax
  /\ Checking
  /\ wk' = [wk EXCEPT !.pc = "try", !.trans = @ + 1]
  /\ UNCHANGED <<task, marker, text, branch>>

(* Mutant: one transient too many is free.                                 *)
CheckTransientOneMore ==
  /\ wk.pc = "check" /\ wk.trans <= TransientMax
  /\ Checking
  /\ FreeRetry(wk.trans + 1)
  /\ UNCHANGED <<task, marker, text, branch>>

(* Mutant: consecutive transients are not counted.                         *)
CheckTransientUncounted ==
  /\ wk.pc = "check" /\ wk.trans < TransientMax
  /\ Checking
  /\ FreeRetry(wk.trans)
  /\ UNCHANGED <<task, marker, text, branch>>

CheckTransient ==
  /\ wk.pc = "check" /\ wk.trans < TransientMax
  /\ Checking
  /\ FreeRetry(wk.trans + 1)
  /\ UNCHANGED <<task, marker, text, branch>>

TransientCapped ==
  /\ wk.pc = "check" /\ wk.trans = TransientMax
  /\ Block(rows[cur])
  /\ UNCHANGED <<marker, text, branch>>

(* The objective check, the LLM checker or the pre-commit gate.            *)
CheckFails ==
  /\ wk.pc = "check"
  /\ Checking
  /\ \E sig \in {"a", "b"} : ToTriage(sig)
  /\ UNCHANGED <<task, marker, text, branch>>

CheckPasses ==
  /\ wk.pc = "check" /\ dirty
  /\ Checking
  /\ wk' = [wk EXCEPT !.pc = "commit", !.trans = 0]
  /\ UNCHANGED <<task, marker, text, branch>>

(* No diff, and the witnesses fail: a transport failure.                   *)
EmptyDiffFails ==
  /\ wk.pc = "check" /\ ~dirty
  /\ Checking
  /\ ToTriage("tr")
  /\ UNCHANGED <<task, marker, text, branch>>

(* No diff although everything is green: what CI saw is not reproduced.    *)
CannotReproduce ==
  /\ wk.pc = "check" /\ ~dirty /\ rows[cur].kind = "fixup-ci"
  /\ Checking
  /\ ToTriage("cr")
  /\ UNCHANGED <<task, marker, text, branch>>

(* No diff, everything green: done without a commit.                       *)
NoOpDone ==
  /\ wk.pc = "check" /\ ~dirty /\ rows[cur].kind # "fixup-ci"
  /\ UpdateRow(cur, DoneRow(rows[cur]))
  /\ Settle
  /\ UNCHANGED <<task, marker, text, branch>>

-----------------------------------------------------------------------------
(* Commit and push.                                                        *)

(* A patch of the subtask that no branch and no row knows.                 *)
NewPatch(s) ==
  LET known == UNION {Range(h) : h \in {head, remote} \cup {rows[q].sha : q \in Subs}}
      free == {n \in 0..Cardinality(known) : [sub |-> s, n |-> n] \notin known}
  IN  [sub |-> s, n |-> Min(free)]

CommitSubtask ==
  /\ wk.pc = "commit"
  /\ head' = Append(head, NewPatch(cur)) /\ dirty' = FALSE
  /\ wk' = [wk EXCEPT !.pc = "push", !.sha = head']
  /\ UNCHANGED <<task, marker, text, rows, remote>>

CommitFails ==
  /\ wk.pc = "commit"
  /\ \E sig \in {"a", "b"} : ToTriage(sig)
  /\ UNCHANGED <<task, marker, text, rows, branch>>

PushLands ==
  /\ wk.pc = "push" /\ ~Behind
  /\ remote' = head
  /\ Goto("record")
  /\ UNCHANGED <<task, marker, text, rows, head, dirty>>

(* A network error: the commit stays, the attempt is free.                 *)
PushBlip ==
  /\ wk.pc = "push"
  /\ FreeRetry(0)
  /\ UNCHANGED <<task, marker, text, rows, branch>>

(* Another error, or a rebase that conflicts and is aborted.               *)
PushFails ==
  /\ wk.pc = "push"
  /\ \E sig \in {"a", "b"} : ToTriage(sig)
  /\ UNCHANGED <<task, marker, text, rows, branch>>

(* Rejected as no fast-forward: rebase onto the remote branch, push again. *)
PushRecovers ==
  /\ wk.pc = "push" /\ Behind
  /\ head' = Rebased /\ remote' = head'
  /\ Goto("record")
  /\ UNCHANGED <<task, marker, text, rows, dirty>>

(* The second push fails as the first may.                                 *)
PushRecoveryFails ==
  /\ wk.pc = "push" /\ Behind
  /\ head' = Rebased
  /\ \/ FreeRetry(0)
     \/ \E sig \in {"a", "b"} : ToTriage(sig)
  /\ UNCHANGED <<task, marker, text, rows, remote, dirty>>

(* commit_sha is HEAD from before the push.                                *)
RecordSha ==
  /\ wk.pc = "record"
  /\ UpdateRow(cur, [rows[cur] EXCEPT !.sha = wk.sha])
  /\ Goto("mark")
  /\ UNCHANGED <<task, marker, text, branch>>

MarkDone ==
  /\ wk.pc = "mark"
  /\ UpdateRow(cur, DoneRow(rows[cur]))
  /\ Settle
  /\ UNCHANGED <<task, marker, text, branch>>

-----------------------------------------------------------------------------
(* Triage, stop-losses and the progress check.                             *)

AllOf(sigs, k, S) == k >= 2 /\ Len(sigs) >= k /\ \A i \in 1..k : sigs[i] \in S

StopLoss(sigs) ==
  \/ AllOf(sigs, CapCr, {"cr"})
  \/ AllOf(sigs, CapTr, {"tr"})
  \/ \E sig \in Layers : AllOf(sigs, CapSs, {sig})

ShouldRunProgressCheck(att) ==
  /\ att >= ProgressAfter
  /\ IF ProgressEvery <= 0 THEN att = ProgressAfter
                           ELSE (att - ProgressAfter) % ProgressEvery = 0

Triaged ==
  LET r == rows[cur]
      sigs == <<wk.sig>> \o r.sigs
  IN  [r EXCEPT !.state = "triaging", !.retries = @ + 1,
                !.sigs = SubSeq(sigs, 1, Min({Len(sigs), SigsKept}))]

Retry == Goto("try") /\ UNCHANGED task

(* The history of an absent row is empty and stays so.                     *)
TriageStops ==
  /\ wk.pc = "triage" /\ Present(cur) /\ StopLoss(Triaged.sigs)
  /\ Block(Triaged)
  /\ UNCHANGED <<marker, text, branch>>

TriageRetries ==
  /\ wk.pc = "triage" /\ ~(Present(cur) /\ StopLoss(Triaged.sigs))
  /\ ~ShouldRunProgressCheck(wk.att)
  /\ UpdateRow(cur, Triaged)
  /\ Retry
  /\ UNCHANGED <<marker, text, branch>>

TriageProgress(flatlined) ==
  /\ wk.pc = "triage" /\ ~(Present(cur) /\ StopLoss(Triaged.sigs))
  /\ ShouldRunProgressCheck(wk.att)
  /\ LET flat == IF flatlined /\ Present(cur) THEN rows[cur].flat + 1 ELSE 0
         r == [Triaged EXCEPT !.flat = flat]
     IN  IF flatlined /\ flat >= FlatMax
         THEN Block(r)
         ELSE UpdateRow(cur, r) /\ Retry
  /\ UNCHANGED <<marker, text, branch>>

-----------------------------------------------------------------------------
(* The end of a set, and the audit that may ask for fixups.                *)

Leftover == Kept(RowOrder, {s \in Subs : rows[s].state \notin {"absent", "done"}})

SetDone ==
  /\ wk.pc = "next" /\ wk.set = <<>>
  /\ wk' = IF wk.fixing \/ Leftover = <<>>
           THEN [wk EXCEPT !.pc = "audit", !.fixing = TRUE]
           ELSE [wk EXCEPT !.set = Leftover, !.fixing = TRUE]
  /\ UNCHANGED <<task, marker, text, rows, branch>>

(* append_subtasks skips an id that the table has.                         *)
FixupRound(kind) ==
  /\ wk.pc = "audit"
  /\ rows' = IF Present(FixupId) THEN rows ELSE [rows EXCEPT ![FixupId] = FreshRow(kind)]
  /\ wk' = [wk EXCEPT !.pc = "next", !.set = <<FixupId>>]
  /\ UNCHANGED <<task, marker, text, branch>>

AuditPasses ==
  /\ wk.pc = "audit"
  /\ task' = "passed" /\ wk' = Idle
  /\ UNCHANGED <<marker, text, rows, branch>>

AuditBlocks ==
  /\ wk.pc = "audit"
  /\ BlockTask /\ UNCHANGED branch

-----------------------------------------------------------------------------
(* Faults, and people.                                                     *)

(* The daemon is killed; its restart recovers the orphaned task.           *)
Killed ==
  /\ wk.pc # "none"
  /\ wk' = Idle /\ task' = "pending" /\ marker' = TRUE
  /\ UNCHANGED <<text, rows, branch>>

WorkerRaises ==
  /\ wk.pc # "none"
  /\ wk' = Idle /\ task' = "stopped"
  /\ UNCHANGED <<marker, text, rows, branch>>

HumanPush ==
  /\ Room /\ remote # <<>>
  /\ remote' = Append(remote, NewPatch(Human))
  /\ UNCHANGED <<task, marker, text, rows, head, dirty, wk>>

Stopped == task = "stopped"

Resume ==
  /\ Stopped /\ text /\ \E s \in Subs : Present(s)
  /\ task' = "pending" /\ marker' = TRUE
  /\ rows' = [s \in Subs |->
       CASE rows[s].state \in {"absent", "done"} -> rows[s]
         [] rows[s].state = "blocked"            -> [Forgiven(rows[s]) EXCEPT !.state = "pending"]
         [] OTHER                                -> [rows[s] EXCEPT !.state = "pending"]]
  /\ UNCHANGED <<text, branch, wk>>

(* With a subtask named, that row; else every blocked row.                 *)
ResetRetries(targets) ==
  /\ Stopped
  /\ targets \in {{s \in Subs : rows[s].state = "blocked"}} \cup {{s} : s \in Subs}
  /\ targets # {} /\ \A s \in targets : Present(s)
  /\ rows' = [s \in Subs |->
       IF s \notin targets THEN rows[s]
       ELSE [Forgiven(rows[s]) EXCEPT !.state = IF @ = "blocked" THEN "pending" ELSE @]]
  /\ UNCHANGED <<task, marker, text, branch, wk>>

(* git reset --hard, then a force-push that may be skipped or fail.        *)
ResetBranch(sha) ==
  /\ head' = IF sha = NoSha THEN head ELSE Front(sha)
  /\ dirty' = FALSE
  /\ remote' \in {remote, head'}

Repend == task' = "pending" /\ marker' = TRUE /\ UNCHANGED <<text, wk>>

(* Mutant: only the named row is reset, the branch loses the later ones.   *)
RewindOneRow(s) ==
  /\ Stopped /\ Present(s)
  /\ ResetBranch(rows[s].sha)
  /\ rows' = [rows EXCEPT ![s] = FreshRow(rows[s].kind)]
  /\ Repend

Rewind(s) ==
  /\ Stopped /\ Present(s)
  /\ ResetBranch(rows[s].sha)
  /\ rows' = [q \in Subs |-> IF q \in RowsFrom(s) /\ Present(q)
                             THEN FreshRow(rows[q].kind) ELSE rows[q]]
  /\ Repend

(* Only a cycle after the initial one can be replanned.                    *)
ReplanCycle ==
  /\ Stopped /\ Present(FixupId)
  /\ ResetBranch(rows[FixupId].sha)
  /\ rows' = [rows EXCEPT ![FixupId] = NoRow]
  /\ Repend

-----------------------------------------------------------------------------
PlanStep == Pick \/ PlanResumed \/ PlannerEmits \/ Planned \/ PlanRejected

BoundaryStep ==
  UpstreamFastForward \/ BoundaryBlocks \/ RebaseDiverged \/ SkipDone \/ EnterSubtask

AttemptStep ==
  \/ DoSubtask \/ NoAttempt \/ CheckTransient \/ TransientCapped \/ CheckFails
  \/ CheckPasses \/ EmptyDiffFails \/ CannotReproduce \/ NoOpDone

CommitStep ==
  \/ CommitSubtask \/ CommitFails \/ PushLands \/ PushBlip \/ PushFails \/ PushRecovers
  \/ PushRecoveryFails \/ RecordSha \/ MarkDone

TriageStep ==
  \/ TriageStops \/ TriageRetries
  \/ \E flatlined \in BOOLEAN : TriageProgress(flatlined)

SetStep ==
  \/ SetDone \/ AuditPasses \/ AuditBlocks
  \/ \E kind \in {"fixup-ci", "fixup-review"} : FixupRound(kind)

WorkerStep ==
  PlanStep \/ BoundaryStep \/ AttemptStep \/ CommitStep \/ TriageStep \/ SetStep

OperatorStep ==
  \/ Resume \/ ReplanCycle
  \/ \E s \in Subs : Rewind(s)
  \/ \E targets \in SUBSET Subs : ResetRetries(targets)

Next == WorkerStep \/ OperatorStep \/ Killed \/ WorkerRaises \/ HumanPush

Spec == Init /\ [][Next]_vars

-----------------------------------------------------------------------------
(* Properties.                                                             *)

Attempting == wk.pc \in {"try", "check", "commit", "push", "record", "mark", "triage"}

(***************************************************************************)
(* Database and git agree: the commit on record for a DONE subtask is on   *)
(* the local branch and on GitHub, whatever was killed, rebased, rewound   *)
(* or replanned since (plans listed in the order they run).                *)
(***************************************************************************)
DoneIsOnBranch ==
  \A s \in Subs : rows[s].state = "done" /\ rows[s].sha # NoSha =>
    Last(rows[s].sha) \in Range(head) \cap Range(remote)

(***************************************************************************)
(* A kill, a transient failure or a lost push never costs or grants an     *)
(* attempt: the counter in memory and the one in the row stay in step.     *)
(***************************************************************************)
AttemptIsRetries ==
  Attempting /\ Present(cur) =>
    wk.att = rows[cur].retries + IF wk.pc = "try" THEN 0 ELSE 1

(***************************************************************************)
(* "Continuing past a BLOCKED subtask just builds on broken foundation":   *)
(* whoever edited the rows in between, a subtask is only attempted when    *)
(* everything that runs before it is DONE.                                 *)
(***************************************************************************)
PredecessorsDone ==
  Attempting => \A s \in Before(cur) : rows[s].state \in {"absent", "done"}

-----------------------------------------------------------------------------
(***************************************************************************)
(* The worker's thread runs; a push that is tried again and again lands.   *)
(***************************************************************************)
Fairness == WF_vars(WorkerStep) /\ SF_vars(PushLands \/ PushRecovers)

FairSpec == Spec /\ Fairness

(***************************************************************************)
(* Free retries, recreations, stop-losses and the progress check together  *)
(* leave no endless loop: an attempted subtask is settled or blocked, or   *)
(* its worker ends.                                                        *)
(***************************************************************************)
SubtaskSettles == wk.pc = "try" ~> wk.pc \in {"next", "none"}

=============================================================================
