------------------------------- MODULE AgentCall -------------------------------
(***************************************************************************)
(* One worker's calls of its agents: the command-line subprocess and its   *)
(* retry loop, the chain of providers behind a model, the schema           *)
(* validation with its single repair prompt, and the drivers that call     *)
(* the roles: the planner, the doer, the progress check, the audit         *)
(* gauntlet and the fixup planner.  What an agent writes is a name; Plans, *)
(* Fixups and Grades say what the validated document of that name holds.   *)
(***************************************************************************)
EXTENDS Integers, Sequences, FiniteSets, Functions

CONSTANTS
  Chain,             \* schema tiers of the model and its quota_fallbacks
  AuthInitial, AuthMax, AuthTotal,  \* the auth backoff, in seconds
  PlannerTransient,  \* cfg.planner_retries_on_transient
  PlannerParse,      \* _MAX_PARSE_ERROR_RETRIES
  PlannerValidator,  \* _MAX_VALIDATOR_RETRIES
  FixupTransient,    \* cfg.fixup_planner_retries_on_transient
  FixupOutput,       \* cfg.fixup_planner_output_retries
  AuditOutput,       \* cfg.pre_pr_audit_output_retries
  MaxCycles,         \* cfg.pre_pr_audit_max_cycles
  ValveAfter,        \* cfg.release_valve_after_cycles
  Budget,            \* findings a quality stage may have, by severity
  MaxDeferred,       \* cfg.release_valve_max_critical_findings
  Categories,        \* cfg.pre_pr_rubric_categories
  Evidence,          \* the ids of a node's expected_evidence
  Plans, Fixups, Grades,  \* documents, by the name the agent emits
  MaxCrashes         \* bound on process deaths

ASSUME ChainAssumption ==
  /\ Chain \in Seq({"cli_native", "client_side"})
  /\ Len(Chain) >= 1
ASSUME BackoffAssumption ==
  /\ AuthInitial \in Nat \ {0}
  /\ AuthMax \in Nat \ {0}
  /\ AuthTotal \in Nat
(* The bounds of config.Config's fields.                                   *)
ASSUME BudgetAssumption ==
  /\ {PlannerTransient, PlannerParse, PlannerValidator} \subseteq Nat
  /\ {FixupTransient, FixupOutput, AuditOutput} \subseteq Nat
  /\ {MaxDeferred, MaxCrashes} \subseteq Nat
  /\ MaxCycles \in Nat \ {0}

Stages    == <<"local_ci", "rubric", "standards", "architecture", "behavior">>
Quality   == {"rubric", "standards", "architecture"}
Auditors  == Quality \cup {"behavior"}
Roles     == Auditors \cup {"planner", "fixup", "doer", "progress"}

VARIABLES
  phase,     \* where the worker is in the life of its task
  expected,  \* node.expected_evidence
  planned,   \* the subtasks of an accepted plan are in the store
  cycle,     \* the audit cycle
  stages,    \* the outcomes of this cycle's stages, in order
  summary,   \* pre_pr_audit_summary: its cycle and the grades of its passed stages
  resume,    \* this cycle resumes that summary
  found,     \* the finding ids handed to the fixup planner
  accepted,  \* the document a driver accepted last
  role,      \* the role being called, or none
  pc,        \* idle, exec, sleep, raw or result
  used,      \* the driver's retries used up
  round,     \* 1, or 2 after the repair prompt
  prov,      \* the provider of Chain being tried
  waited, nap,  \* _BackoffState: waited_s and next_s
  raw,       \* the RawTransportResult of that provider
  res,       \* the JsonAgentResult the driver got
  row,       \* the task's latest agent_calls row
  cut,       \* that row's call was cut off by a raise or a process death
  lost,      \* a write of the running call's status failed and was ignored
  crashes

audit == <<stages, summary, resume>>
task == <<phase, expected, planned, cycle, audit, found, accepted, crashes>>
call == <<role, pc, used, round, prov, waited, nap, raw, res>>
vars == <<task, call, row, cut, lost>>

Documents == DOMAIN Plans \cup DOMAIN Fixups
             \cup UNION {DOMAIN Grades[s] : s \in Auditors}

(***************************************************************************)
(* A document is finite.  The names tell plans from fixup plans; "none"    *)
(* names no document.                                                      *)
(***************************************************************************)
ASSUME DocumentAssumption ==
  /\ "none" \notin Documents /\ DOMAIN Plans \cap DOMAIN Fixups = {}
  /\ IsFiniteSet(Evidence)
  /\ \A p \in DOMAIN Fixups : IsFiniteSet(DOMAIN Fixups[p].own)
  /\ \A s \in {"standards", "architecture"} :
       \A d \in DOMAIN Grades[s] : IsFiniteSet(DOMAIN Grades[s][d])

-----------------------------------------------------------------------------
(***************************************************************************)
(* One subprocess of the agent's command line and how _run_with_retry      *)
(* classifies its end.  quota: the failed call's text matches the quota    *)
(* patterns, which is what the walk down the chain tests.                  *)
(***************************************************************************)
Failed(rc, transient, category, quota) ==
  [rc |-> rc, transient |-> transient, category |-> category, quota |-> quota,
   text |-> "none", structured |-> "none"]

(* TimeoutExpired: the partial output may say anything.                    *)
TimedOut == {Failed(124, TRUE, "none", q) : q \in BOOLEAN}

(* Recognised before the quota patterns are looked at.                     *)
ContainerVanished == {Failed(124, TRUE, "container_vanished", q) : q \in BOOLEAN}

(* Mutant: no note; the excerpt may have lost the matching line.           *)
QuotaExhaustedUnmarked == {Failed(1, FALSE, "quota_exhausted", q) : q \in BOOLEAN}

(* The original rc, and a note at the end of stderr that matches the quota *)
(* patterns itself, whatever the excerpt keeps of the rest.                *)
QuotaExhausted == {Failed(1, FALSE, "quota_exhausted", TRUE)}

AuthGivenUp == Failed(124, TRUE, "auth_refresh", FALSE)

Refused == Failed(1, FALSE, "none", FALSE)

Answered(text, structured) ==
  [rc |-> 0, transient |-> FALSE, category |-> "none", quota |-> FALSE,
   text |-> text, structured |-> structured]

(* What the role's schema accepts.                                         *)
Emits(r) ==
  CASE r = "planner"    -> DOMAIN Plans
    [] r = "fixup"      -> DOMAIN Fixups
    [] r \in Auditors   -> DOMAIN Grades[r]
    [] OTHER            -> {}

(* A clean exit.  A client-side shim returns the text as it is; a          *)
(* cli-native one returns an object, or the text of an answer without one, *)
(* or nothing.                                                             *)
ClientSideAnswers(r) == {Answered(t, "none") : t \in Emits(r) \cup {"bad"}}

CliNativeAnswers(r) ==
  {Answered("none", s) : s \in Emits(r) \cup {"bad", "none"}}
  \cup {Answered(t, "none") : t \in Emits(r) \cup {"bad"}}

Answers(r, tier) ==
  IF tier = "client_side" THEN ClientSideAnswers(r) ELSE CliNativeAnswers(r)

(* Which roles keep an agent_calls row; the auditors and the progress      *)
(* check call their agent without one.                                     *)
Recorded(r) == r \in {"planner", "fixup", "doer"}

(* The doer has no output schema: WritesFilesAgent takes invoke_raw.       *)
Schemaless(r) == r = "doer"

-----------------------------------------------------------------------------
(***************************************************************************)
(* Starting and ending calls.                                              *)
(***************************************************************************)
(* record_agent_call_started, then agent.invoke on the first provider.     *)
Invoke(r) ==
  /\ role' = r
  /\ pc' = "exec" /\ round' = 1 /\ prov' = 1
  /\ waited' = 0 /\ nap' = AuthInitial
  /\ raw' = Refused /\ res' = Refused
  /\ IF Recorded(r)
     THEN row' = [live |-> TRUE, status |-> "running"] /\ cut' = FALSE /\ lost' = FALSE
     ELSE UNCHANGED <<row, cut, lost>>

NoRetries == [transient |-> 0, parse |-> 0, valid |-> 0]

(* The driver of a role calls it for the first time, or once more.         *)
Begin(r)    == Invoke(r) /\ used' = NoRetries
Again(kind) == Invoke(role) /\ used' = [used EXCEPT ![kind] = @ + 1]

(* record_agent_call_finished sets rc; nobody reads the status of a        *)
(* finished row.                                                           *)
Finish ==
  /\ pc' = "idle" /\ used' = NoRetries /\ round' = 1 /\ prov' = 1
  /\ waited' = 0 /\ nap' = AuthInitial /\ raw' = Refused /\ res' = Refused
  /\ IF Recorded(role)
     THEN row' = [live |-> FALSE, status |-> "running"] /\ lost' = FALSE
     ELSE UNCHANGED <<row, lost>>
  /\ role' = "none" /\ UNCHANGED cut

(* The call ends by an exception or with its process: nobody finishes the  *)
(* row.                                                                    *)
CutOff ==
  /\ pc' = "idle" /\ used' = NoRetries /\ round' = 1 /\ prov' = 1
  /\ waited' = 0 /\ nap' = AuthInitial /\ raw' = Refused /\ res' = Refused
  /\ cut' = (cut \/ row.live) /\ lost' = FALSE
  /\ role' = "none" /\ UNCHANGED row

-----------------------------------------------------------------------------
(***************************************************************************)
(* _run_with_retry.                                                        *)
(***************************************************************************)
Ended(o) ==
  /\ pc = "exec"
  /\ raw' = o /\ pc' = "raw"
  /\ UNCHANGED <<task, role, used, round, prov, waited, nap, res, row, cut, lost>>

ExecTimesOut      == \E o \in TimedOut : Ended(o)
ExecContainerLost == \E o \in ContainerVanished : Ended(o)
ExecQuota         == \E o \in QuotaExhausted : Ended(o)
ExecRefused       == Ended(Refused)
ExecAnswers       == \E o \in Answers(role, Chain[prov]) : Ended(o)

(* _emit_status: the callback of the row's scope, whose failures are       *)
(* logged and ignored.                                                     *)
EmitStatus(s) ==
  \/ row' = [row EXCEPT !.status = IF Recorded(role) THEN s ELSE @]
     /\ UNCHANGED lost
  \/ Recorded(role) /\ lost' = TRUE /\ UNCHANGED row

(* _handle_agent_auth_retry: a credential race within the cap is slept on. *)
AuthRace ==
  /\ pc = "exec" /\ waited < AuthTotal
  /\ pc' = "sleep"
  /\ EmitStatus("backoff_auth")
  /\ UNCHANGED <<task, role, used, round, prov, waited, nap, raw, res, cut>>

AuthRaceLasts == waited >= AuthTotal /\ Ended(AuthGivenUp)

(* Mutant: the sleep is not added to waited_s.                             *)
AuthWakesUncounted ==
  /\ pc = "sleep"
  /\ pc' = "exec"
  /\ EmitStatus("running")
  /\ nap' = IF 2 * nap < AuthMax THEN 2 * nap ELSE AuthMax
  /\ UNCHANGED <<task, role, used, round, prov, waited, raw, res, cut>>

(* Mutant: the row is not set back to running.                             *)
AuthWakesSilently ==
  /\ pc = "sleep"
  /\ pc' = "exec"
  /\ waited' = waited + nap
  /\ nap' = IF 2 * nap < AuthMax THEN 2 * nap ELSE AuthMax
  /\ UNCHANGED <<task, role, used, round, prov, raw, res, row, cut, lost>>

AuthWakes ==
  /\ pc = "sleep"
  /\ pc' = "exec"
  /\ EmitStatus("running")
  /\ waited' = waited + nap
  /\ nap' = IF 2 * nap < AuthMax THEN 2 * nap ELSE AuthMax
  /\ UNCHANGED <<task, role, used, round, prov, raw, res, cut>>

(* exec_in raises anything but a timeout.  ProgressAgent.check swallows    *)
(* it; every other driver lets it out of the worker, which fails the task. *)
InvokeRaises ==
  /\ pc = "exec"
  /\ CutOff
  /\ phase' = IF role = "progress" THEN phase ELSE "failed"
  /\ UNCHANGED <<expected, planned, cycle, audit, found, accepted, crashes>>

-----------------------------------------------------------------------------
(***************************************************************************)
(* QuotaFallbackJsonAgent and invoke_with_validation.                      *)
(***************************************************************************)
(* The wrapper shows the tier of its primary: an object a fallback         *)
(* returned becomes text behind a client-side primary.                     *)
Normalized(o) ==
  IF Chain[1] = "client_side" /\ o.text = "none"
  THEN [o EXCEPT !.text = o.structured, !.structured = "none"]
  ELSE o

Payload(o) ==
  IF Chain[1] = "client_side" THEN Normalized(o).text ELSE o.structured

WalkIsOver == ~raw.quota \/ prov = Len(Chain)

FallBack ==
  /\ pc = "raw" /\ ~WalkIsOver
  /\ prov' = prov + 1 /\ pc' = "exec"
  /\ waited' = 0 /\ nap' = AuthInitial /\ raw' = Refused
  /\ UNCHANGED <<task, role, used, round, res, row, cut, lost>>

Validates(o) == Payload(o) \in Emits(role)

(* A clean exit without a valid document is answered by one repair prompt, *)
(* which walks the chain from its first provider again.                    *)
Reprompt ==
  /\ pc = "raw" /\ WalkIsOver
  /\ raw.rc = 0 /\ ~Schemaless(role) /\ ~Validates(raw) /\ round = 1
  /\ round' = 2 /\ prov' = 1 /\ pc' = "exec"
  /\ waited' = 0 /\ nap' = AuthInitial /\ raw' = Refused
  /\ UNCHANGED <<task, role, used, res, row, cut, lost>>

(* _result_from_raw, _result_from_two_raw: rc, transient and category of   *)
(* the last transport; no document unless it validated.                    *)
InvokeReturns ==
  /\ pc = "raw" /\ WalkIsOver
  /\ raw.rc # 0 \/ Schemaless(role) \/ Validates(raw) \/ round = 2
  /\ pc' = "result"
  /\ res' = [raw EXCEPT !.structured = IF raw.rc = 0 /\ Validates(raw) THEN Payload(raw) ELSE "none",
                        !.text = "none"]
  /\ raw' = Refused
  /\ UNCHANGED <<task, role, used, round, prov, waited, nap, row, cut, lost>>

Transient == res.rc # 0 /\ res.transient
Parsed    == res.rc = 0 /\ res.structured # "none"
Unparsed  == res.rc = 0 /\ res.structured = "none"
Result(r) == pc = "result" /\ role = r

-----------------------------------------------------------------------------
(***************************************************************************)
(* The planner and its validators.  A plan maps its subtasks to what each  *)
(* depends on, targets and claims; evidence is a sequence because a claim  *)
(* may be repeated.                                                        *)
(***************************************************************************)
(* Plan._check_unique_and_acyclic: known dependencies, no cycle.           *)
Acyclic(sub) ==
  /\ \A s \in DOMAIN sub : sub[s].deps \subseteq DOMAIN sub
  /\ \E rank \in [DOMAIN sub -> 1..Cardinality(DOMAIN sub)] :
       \A s \in DOMAIN sub : \A d \in sub[s].deps : rank[d] < rank[s]

(* The stabilization subtask targets every category and claims nothing.    *)
Stabilization(sub) ==
  [deps |-> DOMAIN sub, rubric |-> Categories, evidence |-> <<>>, refs |-> TRUE]

(* A plan that brings it along keeps its own.                              *)
WithStabilization(sub) ==
  IF "Z-99" \in DOMAIN sub THEN sub
  ELSE [s \in DOMAIN sub \cup {"Z-99"} |->
          IF s = "Z-99" THEN Stabilization(sub) ELSE sub[s]]

(* _wire_to_runtime_plan succeeds.                                         *)
Builds(p) == p.node /\ Acyclic(p.sub)

RubricCoverage(sub) ==
  /\ Categories # {}
  /\ UNION {sub[s].rubric : s \in DOMAIN sub} = Categories

(* A claim is a place in a subtask's evidence.  holders[evid] has one      *)
(* entry per claim, so one repeated inside a subtask counts twice.         *)
Claims(sub) == UNION {{s} \X DOMAIN sub[s].evidence : s \in DOMAIN sub}

(* A plan is finite.                                                       *)
ASSUME PlanAssumption ==
  \A p \in DOMAIN Plans : IsFiniteSet(DOMAIN Plans[p].sub) /\ IsFiniteSet(Claims(Plans[p].sub))

Claimed(sub, h) == sub[h[1]].evidence[h[2]]

Holders(sub, e) == {h \in Claims(sub) : Claimed(sub, h) = e}

(* Mutant: counts the subtasks that claim an id, not the claims.           *)
EvidencePartitionBySubtask(sub) ==
  /\ \A e \in expected : Cardinality({h[1] : h \in Holders(sub, e)}) = 1
  /\ \A h \in Claims(sub) : Claimed(sub, h) \in expected

EvidencePartition(sub) ==
  /\ \A e \in expected : Cardinality(Holders(sub, e)) = 1
  /\ \A h \in Claims(sub) : Claimed(sub, h) \in expected

RefsResolve(sub) == \A s \in DOMAIN sub : sub[s].refs

PlanValid(p) ==
  LET sub == WithStabilization(p.sub)
  IN  RubricCoverage(sub) /\ EvidencePartition(sub) /\ RefsResolve(sub) /\ p.strategy

Idle == pc = "idle"

StartPlanner ==
  /\ phase = "plan" /\ Idle
  /\ Begin("planner")
  /\ accepted' = "none"
  /\ UNCHANGED <<phase, expected, planned, cycle, audit, found, crashes>>

PlannerRetries(kind, budget) ==
  /\ used[kind] < budget
  /\ Again(kind)
  /\ UNCHANGED task

PlannerStops(end) ==
  /\ Finish
  /\ phase' = end
  /\ UNCHANGED <<expected, planned, cycle, audit, found, accepted, crashes>>

PlannerTransientFailure ==
  /\ Result("planner") /\ Transient
  /\ \/ PlannerRetries("transient", PlannerTransient)
     \/ used.transient >= PlannerTransient /\ PlannerStops("blocked")

(* A plain failure raises at once, a chain out of quota included.          *)
PlannerFails ==
  /\ Result("planner") /\ res.rc # 0 /\ ~res.transient
  /\ PlannerStops("failed")

(* No valid document, or one that does not build, shares one budget.       *)
PlannerParseFailure ==
  /\ Result("planner")
  /\ Unparsed \/ (Parsed /\ ~Builds(Plans[res.structured]))
  /\ \/ PlannerRetries("parse", PlannerParse)
     \/ used.parse >= PlannerParse /\ PlannerStops("blocked")

PlannerInvalid ==
  /\ Result("planner") /\ Parsed
  /\ Builds(Plans[res.structured]) /\ ~PlanValid(Plans[res.structured])
  /\ \/ PlannerRetries("valid", PlannerValidator)
     \/ used.valid >= PlannerValidator /\ PlannerStops("blocked")

PlannerAccepts ==
  /\ Result("planner") /\ Parsed
  /\ Builds(Plans[res.structured]) /\ PlanValid(Plans[res.structured])
  /\ Finish
  /\ phase' = "build" /\ planned' = TRUE
  /\ accepted' = res.structured
  /\ UNCHANGED <<expected, cycle, audit, found, crashes>>

-----------------------------------------------------------------------------
(***************************************************************************)
(* The doer and the progress check, called from the subtask loop (module   *)
(* SubtaskLoop).  Neither reports a failure of its agent: the diff is what *)
(* counts, and a failed progress check is "uncertain".                     *)
(***************************************************************************)
StartDoer ==
  /\ phase = "build" /\ Idle
  /\ Begin("doer")
  /\ UNCHANGED task

StartProgress ==
  /\ phase = "build" /\ Idle
  /\ Begin("progress")
  /\ UNCHANGED task

DoerReturns     == Result("doer") /\ Finish /\ UNCHANGED task
ProgressReturns == Result("progress") /\ Finish /\ UNCHANGED task

-----------------------------------------------------------------------------
(***************************************************************************)
(* The audit gauntlet: every stage runs, whatever the ones before it found.*)
(* A finding's id is its stage, its kind and its name; doc is the document *)
(* a stage was graded by.                                                  *)
(***************************************************************************)
Outcome(passed, ids, critical) ==
  [passed |-> passed, structural |-> FALSE, ids |-> ids, critical |-> critical,
   doc |-> "none"]

(* parse_failure, infra and config_error outcomes: the audit did not run.  *)
Structural(s) ==
  [passed |-> FALSE, structural |-> TRUE, ids |-> {<<s, "structural", "">>}, critical |-> 0,
   doc |-> "none"]

NoGrades == [s \in {} |-> "none"]

(* run_local_ci_gate: a failing command has output but no findings.        *)
LocalCiOutcomes == {Outcome(TRUE, {}, 0), Outcome(FALSE, {}, 0), Structural("local_ci")}

(* _enter_audit_cycle: a cycle that resumes no summary seeds a new one.    *)
StartCycle ==
  /\ phase = "build" /\ Idle /\ cycle <= MaxCycles
  /\ phase' = "audit"
  /\ summary' = IF resume THEN summary ELSE [cycle |-> cycle, passed |-> NoGrades]
  /\ accepted' = "none"
  /\ UNCHANGED <<expected, planned, cycle, stages, resume, found, crashes, call, row, cut, lost>>

CyclesExhausted ==
  /\ phase = "build" /\ Idle /\ cycle > MaxCycles
  /\ phase' = "blocked"
  /\ UNCHANGED <<expected, planned, cycle, audit, found, accepted, crashes, call, row, cut, lost>>

NextStage  == Stages[Len(stages) + 1]
StageReady == phase = "audit" /\ Idle /\ Len(stages) < Len(Stages)
StageKept  == resume /\ NextStage \in DOMAIN summary.passed
StageDue   == StageReady /\ ~StageKept

(* update_pre_pr_audit_stage, for a stage that was run.                    *)
Keeps(o) ==
  [s \in (DOMAIN summary.passed \ {NextStage}) \cup (IF o.passed THEN {NextStage} ELSE {}) |->
     IF s = NextStage THEN o.doc ELSE summary.passed[s]]

StageEnds(o) ==
  /\ stages' = Append(stages, o)
  /\ summary' = [summary EXCEPT !.passed = Keeps(o)]
  /\ UNCHANGED <<phase, expected, planned, cycle, resume, found, accepted, crashes>>

(* _stage_outcome_from_summary: a pass of the resumed summary is reused.   *)
StageReused ==
  /\ StageReady /\ StageKept
  /\ stages' = Append(stages, [Outcome(TRUE, {}, 0) EXCEPT !.doc = summary.passed[NextStage]])
  /\ UNCHANGED <<phase, expected, planned, cycle, summary, resume, found, accepted, crashes>>
  /\ UNCHANGED <<call, row, cut, lost>>

StageLocalCi ==
  /\ StageDue /\ NextStage = "local_ci"
  /\ \E o \in LocalCiOutcomes : StageEnds(o)
  /\ UNCHANGED <<call, row, cut, lost>>

(* No standards or architecture documents, or a prompt that fails to       *)
(* render: a failed stage without a call.                                  *)
StageCannotRun ==
  /\ StageDue /\ NextStage # "local_ci"
  /\ StageEnds(Structural(NextStage))
  /\ UNCHANGED <<call, row, cut, lost>>

(* A node without expected evidence passes the behavior stage unasked.     *)
StageSkipped ==
  /\ StageDue /\ NextStage = "behavior" /\ expected = {}
  /\ StageEnds(Outcome(TRUE, {}, 0))
  /\ UNCHANGED <<call, row, cut, lost>>

StartStage ==
  /\ StageDue /\ NextStage # "local_ci"
  /\ NextStage = "behavior" => expected # {}
  /\ Begin(NextStage)
  /\ UNCHANGED task

(* _build_rubric_outcome: with a category below the minimum, the others'   *)
(* gaps are findings too.                                                  *)
RubricOutcome(g) ==
  IF g.below = {} THEN Outcome(TRUE, {}, 0)
  ELSE Outcome(FALSE,
         {<<"rubric", "category", c>> : c \in g.below}
         \cup {<<"rubric", "reach-ten", c>> : c \in g.gaps \ g.below}
         \cup {<<"rubric", "gap", c>> : c \in g.gaps}, 0)

SeverityCount(g, sev) == Cardinality({f \in DOMAIN g : g[f] = sev})

SeverityBudgetViolations(g) ==
  {sev \in {"medium", "high", "critical"} : SeverityCount(g, sev) > Budget[sev]}

(* The standards and the architecture stage differ in name only.           *)
StandardsOutcome(s, g) ==
  Outcome(SeverityBudgetViolations(g) = {}, {<<s, "finding", f>> : f \in DOMAIN g},
          SeverityCount(g, "critical"))

(* Only the behaviors the audit names are looked at.  gaps: the            *)
(* completeness_gaps of those that are not verified.                       *)
BehaviorOutcome(g) ==
  IF g.unverified = {} THEN Outcome(TRUE, {}, 0)
  ELSE Outcome(FALSE, {<<"behavior", "evidence", e>> : e \in g.unverified}
                      \cup {<<"behavior", "gap", c>> : c \in g.gaps}, 0)

StageOutcome(s, g) ==
  CASE s = "rubric"   -> RubricOutcome(g)
    [] s = "behavior" -> BehaviorOutcome(g)
    [] OTHER          -> StandardsOutcome(s, g)

Auditing == pc = "result" /\ role \in Auditors

(* Mutant: one retry too many.                                             *)
AuditRetriesOneMore ==
  /\ Auditing /\ Unparsed /\ used.parse <= AuditOutput
  /\ Again("parse")
  /\ UNCHANGED task

AuditRetries ==
  /\ Auditing /\ Unparsed /\ used.parse < AuditOutput
  /\ Again("parse")
  /\ UNCHANGED task

(* Mutant: an unusable answer is taken for one without findings.           *)
AuditFailsOpen ==
  /\ Auditing
  /\ res.rc # 0 \/ (Unparsed /\ used.parse >= AuditOutput)
  /\ Finish
  /\ StageEnds(IF res.rc # 0 THEN Structural(role) ELSE Outcome(TRUE, {}, 0))

(* A transport failure ends the stage at once, an unusable answer when the *)
(* retries are spent: both fail closed.                                    *)
AuditFails ==
  /\ Auditing
  /\ res.rc # 0 \/ (Unparsed /\ used.parse >= AuditOutput)
  /\ Finish
  /\ StageEnds(Structural(role))

AuditGrades ==
  /\ Auditing /\ Parsed
  /\ Finish
  /\ StageEnds([StageOutcome(role, Grades[role][res.structured])
                  EXCEPT !.doc = res.structured])

-----------------------------------------------------------------------------
(***************************************************************************)
(* _settle_pre_pr_cycle and the fixup round.                               *)
(***************************************************************************)
CycleOver    == phase = "audit" /\ Idle /\ Len(stages) = Len(Stages)
FailedStages == {i \in DOMAIN stages : ~stages[i].passed}
NoCall       == UNCHANGED <<call, row, cut, lost>>

(* Only findings of the quality stages have a severity.                    *)
CriticalCount ==
  LET count(i) == IF stages[i].passed THEN 0 ELSE stages[i].critical
  IN  count(2) + count(3) + count(4)

ReleaseValveOpens ==
  /\ ValveAfter >= 0 /\ cycle >= ValveAfter
  /\ \A i \in FailedStages :
       Stages[i] \in Quality /\ stages[i].ids # {} /\ ~stages[i].structural
  /\ CriticalCount <= MaxDeferred

StructuralFailure == \E i \in FailedStages : stages[i].structural

SettlePassed ==
  /\ CycleOver /\ FailedStages = {}
  /\ phase' = "passed"
  /\ NoCall /\ UNCHANGED <<expected, planned, cycle, audit, found, accepted, crashes>>

SettleDeferred ==
  /\ CycleOver /\ FailedStages # {} /\ ReleaseValveOpens
  /\ phase' = "deferred"
  /\ NoCall /\ UNCHANGED <<expected, planned, cycle, audit, found, accepted, crashes>>

SettleStructural ==
  /\ CycleOver /\ ~ReleaseValveOpens /\ StructuralFailure
  /\ phase' = "blocked"
  /\ NoCall /\ UNCHANGED <<expected, planned, cycle, audit, found, accepted, crashes>>

(* collect_finding_ids over the failed stages.                             *)
SettleFixup ==
  /\ CycleOver /\ FailedStages # {} /\ ~ReleaseValveOpens /\ ~StructuralFailure
  /\ phase' = "fixup"
  /\ found' = UNION {stages[i].ids : i \in FailedStages}
  /\ stages' = <<>>
  /\ NoCall /\ UNCHANGED <<expected, planned, cycle, summary, resume, accepted, crashes>>

(* validate_finding_coverage: the fields of a subtask own ids; an id       *)
(* nobody owns must be listed in findings_addressed.                       *)
Owners(p, f) == {s \in DOMAIN p.own : f \in p.own[s]}

(* Mutant: several subtasks may own one finding.                           *)
FindingCoverageShared(p, ids) ==
  \A f \in ids : f[2] = "structural" \/ f \in p.addressed \/ Owners(p, f) # {}

FindingCoverage(p, ids) ==
  \A f \in ids : \/ f[2] = "structural"
                 \/ Owners(p, f) = {} /\ f \in p.addressed
                 \/ Cardinality(Owners(p, f)) = 1

FixupValid(p, ids) == p.builds /\ FindingCoverage(p, ids) /\ p.refs

(* missing_finding_coverage, the round's own check of an accepted plan:    *)
(* any field of the stage will do, except for behavior.                    *)
MissingFindingCoverage(p, ids) ==
  {f \in ids \ p.addressed :
     /\ f \notin p.notes
     /\ IF f[1] = "behavior"
        THEN Owners(p, f) = {}
        ELSE \A s \in DOMAIN p.own : \A k \in p.own[s] : k[1] # f[1]}

StartFixup ==
  /\ phase = "fixup" /\ Idle
  /\ Begin("fixup")
  /\ accepted' = "none"
  /\ UNCHANGED <<phase, expected, planned, cycle, audit, found, crashes>>

FixupTransientRetry ==
  /\ Result("fixup") /\ Transient /\ used.transient < FixupTransient
  /\ Again("transient")
  /\ UNCHANGED task

FixupAccepted == Parsed /\ FixupValid(Fixups[res.structured], found)

(* Schema and validator failures share one budget.                         *)
FixupOutputRetry ==
  /\ Result("fixup") /\ res.rc = 0 /\ ~FixupAccepted /\ used.parse < FixupOutput
  /\ Again("parse")
  /\ UNCHANGED task

(* run_fixup_planner_loop returns None and the round blocks the task.      *)
FixupBlocks ==
  /\ Result("fixup")
  /\ \/ res.rc # 0 /\ (res.transient => used.transient >= FixupTransient)
     \/ res.rc = 0 /\ ~FixupAccepted /\ used.parse >= FixupOutput
  /\ Finish
  /\ phase' = "blocked"
  /\ UNCHANGED <<expected, planned, cycle, audit, found, accepted, crashes>>

(* The fixup subtasks are appended and run, then the next cycle starts.    *)
(* The round's second prompt, for an accepted plan that misses findings,   *)
(* is not an action: AcceptedFixupCovers shows that it never happens.      *)
FixupAccepts ==
  /\ Result("fixup") /\ FixupAccepted
  /\ Finish
  /\ phase' = "build" /\ cycle' = cycle + 1 /\ resume' = FALSE
  /\ accepted' = res.structured
  /\ UNCHANGED <<expected, planned, stages, summary, found, crashes>>

-----------------------------------------------------------------------------
(***************************************************************************)
(* The process dies and comes back.                                        *)
(***************************************************************************)
Alive == {"plan", "build", "audit", "fixup"}

Crash ==
  /\ phase \in Alive /\ crashes < MaxCrashes
  /\ CutOff
  /\ phase' = "down" /\ crashes' = crashes + 1
  /\ stages' = <<>> /\ resume' = FALSE /\ cycle' = 1
  /\ found' = {} /\ accepted' = "none"
  /\ UNCHANGED <<expected, planned, summary>>

(* _resumable_pre_pr_audit_summary: one with a passed stage is resumed.    *)
Restart ==
  /\ phase = "down"
  /\ phase' = IF planned THEN "build" ELSE "plan"
  /\ resume' = (summary.passed # NoGrades)
  /\ cycle' = IF resume' THEN summary.cycle ELSE 1
  /\ UNCHANGED <<expected, planned, stages, summary, found, accepted, crashes, call, row, cut, lost>>

Init ==
  /\ phase = "plan"
  /\ expected \in {{}, Evidence}
  /\ planned = FALSE /\ cycle = 1 /\ stages = <<>> /\ found = {}
  /\ summary = [cycle |-> 0, passed |-> NoGrades] /\ resume = FALSE
  /\ accepted = "none" /\ crashes = 0
  /\ role = "none" /\ pc = "idle" /\ used = NoRetries /\ round = 1 /\ prov = 1
  /\ waited = 0 /\ nap = AuthInitial /\ raw = Refused /\ res = Refused
  /\ row = [live |-> FALSE, status |-> "running"]
  /\ cut = FALSE /\ lost = FALSE

(* One subprocess and what the transport makes of its end.                 *)
Transport ==
  \/ ExecTimesOut \/ ExecContainerLost \/ ExecQuota \/ ExecRefused \/ ExecAnswers
  \/ AuthRace \/ AuthRaceLasts \/ AuthWakes \/ InvokeRaises
  \/ FallBack \/ Reprompt \/ InvokeReturns

Drivers ==
  \/ StartPlanner \/ PlannerTransientFailure \/ PlannerFails \/ PlannerParseFailure
  \/ PlannerInvalid \/ PlannerAccepts
  \/ StartDoer \/ DoerReturns \/ StartProgress \/ ProgressReturns
  \/ StartCycle \/ CyclesExhausted \/ StageReused \/ StageLocalCi
  \/ StageCannotRun \/ StageSkipped \/ StartStage
  \/ AuditRetries \/ AuditFails \/ AuditGrades
  \/ SettlePassed \/ SettleDeferred \/ SettleStructural \/ SettleFixup
  \/ StartFixup \/ FixupTransientRetry \/ FixupOutputRetry \/ FixupBlocks \/ FixupAccepts

Next == Transport \/ Drivers \/ Crash \/ Restart

Spec     == Init /\ [][Next]_vars
FairSpec == Spec /\ WF_vars(Transport \/ Drivers)

-----------------------------------------------------------------------------
(***************************************************************************)
(* Properties.                                                             *)
(***************************************************************************)
Raws == [rc : {0, 1, 124}, transient : BOOLEAN,
         category : {"none", "quota_exhausted", "container_vanished", "auth_refresh"},
         quota : BOOLEAN, text : Documents \cup {"none", "bad"},
         structured : Documents \cup {"none", "bad"}]

LongestNap == IF AuthInitial > AuthMax THEN AuthInitial ELSE AuthMax

(* Every variable keeps its type: no driver spends more retries than its   *)
(* budget, one repair prompt follows a call, the walk stays on the chain,  *)
(* and the sum of the auth sleeps exceeds its cap by less than one sleep.  *)
TypeOK ==
  /\ phase \in Alive \cup {"passed", "deferred", "blocked", "failed", "down"}
  /\ expected \in {{}, Evidence} /\ planned \in BOOLEAN
  /\ cycle \in 1..(MaxCycles + 1) /\ Len(stages) <= Len(Stages)
  /\ summary.cycle \in 0..MaxCycles /\ DOMAIN summary.passed \subseteq Range(Stages)
  /\ resume \in BOOLEAN /\ accepted \in Documents \cup {"none"}
  /\ role \in Roles \cup {"none"} /\ pc \in {"idle", "exec", "sleep", "raw", "result"}
  /\ used.transient <= IF role = "fixup" THEN FixupTransient ELSE PlannerTransient
  /\ used.parse <= CASE role = "fixup" -> FixupOutput
                     [] role = "planner" -> PlannerParse
                     [] OTHER -> AuditOutput
  /\ used.valid <= PlannerValidator
  /\ round \in {1, 2} /\ prov \in 1..Len(Chain)
  /\ waited \in 0..(AuthTotal + LongestNap - 1) /\ nap \in 1..LongestNap
  /\ raw \in Raws /\ res \in Raws
  /\ row \in [live : BOOLEAN, status : {"running", "backoff_auth"}]
  /\ cut \in BOOLEAN /\ lost \in BOOLEAN /\ crashes \in 0..MaxCrashes

(* json_fallback: a call that reports quota_exhausted has tried every      *)
(* provider of the chain, so the worker's long quota sleep is never taken  *)
(* while a fallback was left untried.                                      *)
QuotaWalksWholeChain ==
  pc = "result" /\ res.category = "quota_exhausted" => prov = Len(Chain)

(* planner_driver: a plan the driver accepted, with the stabilization      *)
(* subtask it injects, lists every expected evidence id once, counting     *)
(* repetitions, and no other, and its dependencies can be ordered.         *)
PlanPartitionsEvidence ==
  planned /\ accepted \in DOMAIN Plans =>
    LET sub == Plans[accepted].sub
    IN  /\ Cardinality(Claims(sub)) = Cardinality(expected)
        /\ {Claimed(sub, h) : h \in Claims(sub)} = expected
        /\ ~\E loop \in (SUBSET DOMAIN sub) \ {{}} :
              \A s \in loop : sub[s].deps \cap loop # {}

(* pre_pr: a pull request is opened only on graded stages: every auditor   *)
(* returned a document that validated against its schema, whatever its     *)
(* calls went through; local CI and the behavior stage passed; and the     *)
(* critical findings listed by the documents of the failed stages, taken   *)
(* together, stay within the valve's allowance.  A rubric has no severity. *)
PrOpensOnGrades ==
  phase \in {"passed", "deferred"} =>
    /\ Len(stages) = Len(Stages) /\ stages[1].passed /\ stages[5].passed
    /\ \A i \in 2..5 : \/ stages[i].doc \in DOMAIN Grades[Stages[i]]
                       \/ i = 5 /\ expected = {}
    /\ LET deferred(i) ==
             IF stages[i].passed THEN 0
             ELSE SeverityCount(Grades[Stages[i]][stages[i].doc], "critical")
       IN  deferred(3) + deferred(4) <= MaxDeferred

(* fixup_coverage: the fixup planner is never asked to repair an audit     *)
(* that did not run; and a plan its loop accepted leaves no finding for    *)
(* the round's own coverage check to miss, with at most one owner each.    *)
AcceptedFixupCovers ==
  /\ \A f \in found : f[2] # "structural"
  /\ accepted \in DOMAIN Fixups =>
       /\ MissingFindingCoverage(Fixups[accepted], found) = {}
       /\ \A f \in found : Cardinality(Owners(Fixups[accepted], f)) <= 1

(* store_tasks: the latest agent_calls row is in flight only while its     *)
(* call runs, unless that call was cut off; and unless a status write was  *)
(* lost it shows backoff_auth exactly while the call sleeps.               *)
InFlightRowIsLive ==
  /\ row.live => cut \/ (pc # "idle" /\ Recorded(role))
  /\ row.live /\ ~cut /\ ~lost => (row.status = "backoff_auth" <=> pc = "sleep")

(* Whatever the agents answer, planning, an audit cycle and a fixup round  *)
(* come to an end: every retry has a budget and the auth backoff a cap.    *)
DriveSettles ==
  (phase \in {"plan", "audit", "fixup"}) ~> (phase \notin {"plan", "audit", "fixup"})
=============================================================================
