--------------------------- MODULE AgentCallProofs ---------------------------
(***************************************************************************)
(* Theorems about AgentCall, for every chain of providers, every budget    *)
(* and every set of documents the agents may write.                        *)
(***************************************************************************)
EXTENDS AgentCall, DataLemmas

-----------------------------------------------------------------------------
(* The inductive invariant.                                                *)

(* Which document may stand behind a pass of stage i.                      *)
Docs(i) ==
  IF i = 1 THEN {"none"}
  ELSE DOMAIN Grades[Stages[i]]
       \cup (IF i = 5 /\ expected = {} THEN {"none"} ELSE {})

Pass(d) == [Outcome(TRUE, {}, 0) EXCEPT !.doc = d]

Graded(s, d) == [StageOutcome(s, Grades[s][d]) EXCEPT !.doc = d]

(* Every way in which stage i may end.                                     *)
Outcomes(i) ==
  {Structural(Stages[i])} \cup {Pass(d) : d \in Docs(i)}
  \cup IF i = 1 THEN {Outcome(FALSE, {}, 0)}
       ELSE {Graded(Stages[i], d) : d \in DOMAIN Grades[Stages[i]]}

StageInv ==
  /\ phase \in {"audit", "fixup"} => cycle <= MaxCycles
  /\ stages \in Seq(UNION {Outcomes(i) : i \in 1..5})
  /\ Len(stages) <= 5
  /\ \A i \in 1..Len(stages) : stages[i] \in Outcomes(i)

(* The persisted summary holds passes only, each with its document; one    *)
(* that was never seeded holds none.                                       *)
SummaryInv ==
  /\ summary = [cycle |-> summary.cycle, passed |-> summary.passed]
  /\ summary.passed \in [DOMAIN summary.passed -> Documents \cup {"none"}]
  /\ \A i \in 1..5 : Stages[i] \in DOMAIN summary.passed
                     => summary.passed[Stages[i]] \in Docs(i)
  /\ summary.cycle = 0 => summary.passed = NoGrades /\ phase # "audit" /\ ~resume

(* Who may be called in which phase.                                       *)
RoleInv ==
  /\ pc = "idle" <=> role = "none"
  /\ role = "planner" => phase = "plan"
  /\ role \in {"doer", "progress"} => phase = "build"
  /\ role \in Auditors => phase = "audit" /\ Len(stages) < 5 /\ role = NextStage
                          /\ (role = "behavior" => expected # {})
  /\ role = "fixup" => phase = "fixup"
  /\ phase \in {"plan", "audit", "fixup", "down"} => accepted = "none"

(* What a call has in hand between its steps.                              *)
CallInv ==
  /\ used \in [transient : Nat, parse : Nat, valid : Nat]
  /\ pc = "sleep" => waited < AuthTotal
  /\ pc = "raw" /\ raw.category = "quota_exhausted" => raw.quota
  /\ pc = "result" => res.structured \in Emits(role) \cup {"none"}

(* The pull request is only opened when the last cycle is over.            *)
OpenInv ==
  phase \in {"passed", "deferred"} =>
    /\ Len(stages) = 5
    /\ phase = "passed" => FailedStages = {}
    /\ phase = "deferred" => FailedStages # {} /\ ReleaseValveOpens

(* TypeOK, by halves: the task's variables and the call's.                 *)
TaskType ==
  /\ phase \in Alive \cup {"passed", "deferred", "blocked", "failed", "down"}
  /\ expected \in {{}, Evidence} /\ planned \in BOOLEAN
  /\ cycle \in 1..(MaxCycles + 1) /\ Len(stages) <= Len(Stages)
  /\ summary.cycle \in 0..MaxCycles /\ DOMAIN summary.passed \subseteq Range(Stages)
  /\ resume \in BOOLEAN /\ accepted \in Documents \cup {"none"}
  /\ crashes \in 0..MaxCrashes

UsedType ==
  /\ used.transient <= IF role = "fixup" THEN FixupTransient ELSE PlannerTransient
  /\ used.parse <= CASE role = "fixup" -> FixupOutput
                     [] role = "planner" -> PlannerParse
                     [] OTHER -> AuditOutput
  /\ used.valid <= PlannerValidator

CallType ==
  /\ role \in Roles \cup {"none"} /\ pc \in {"idle", "exec", "sleep", "raw", "result"}
  /\ UsedType
  /\ round \in {1, 2} /\ prov \in 1..Len(Chain)
  /\ waited \in 0..(AuthTotal + LongestNap - 1) /\ nap \in 1..LongestNap
  /\ raw \in Raws /\ res \in Raws
  /\ row \in [live : BOOLEAN, status : {"running", "backoff_auth"}]
  /\ cut \in BOOLEAN /\ lost \in BOOLEAN

(* What only the task's variables decide, and what only the call's do.     *)
TaskInv == TaskType /\ StageInv /\ SummaryInv /\ OpenInv
           /\ AcceptedFixupCovers /\ PlanPartitionsEvidence
CallPart == CallType /\ CallInv /\ QuotaWalksWholeChain /\ InFlightRowIsLive

IndInv == TaskInv /\ CallPart /\ RoleInv

LEMMA TypeHalves == TypeOK <=> TaskType /\ CallType
  BY DEF TypeOK, TaskType, CallType, UsedType

-----------------------------------------------------------------------------
(* A call of an agent.                                                     *)

LEMMA Naps ==
  /\ LongestNap \in Nat \ {0}
  /\ AuthInitial \in 1..LongestNap
  /\ 0 \in 0..(AuthTotal + LongestNap - 1)
  BY BackoffAssumption DEF LongestNap

LEMMA ChainType == Len(Chain) \in Nat \ {0} /\ 1 \in 1..Len(Chain)
  BY ChainAssumption

LEMMA RowType ==
  ASSUME NEW b \in BOOLEAN, NEW s \in {"running", "backoff_auth"}
  PROVE  [live |-> b, status |-> s] \in [live : BOOLEAN, status : {"running", "backoff_auth"}]
  OBVIOUS

LEMMA FailedType ==
  ASSUME NEW rc \in {1, 124}, NEW t \in BOOLEAN, NEW q \in BOOLEAN,
         NEW c \in {"none", "quota_exhausted", "container_vanished", "auth_refresh"}
  PROVE  Failed(rc, t, c, q) \in Raws
  BY DEF Failed, Raws

LEMMA RefusedType == Refused \in Raws
  BY FailedType DEF Refused

LEMMA EmitsType == \A r : Emits(r) \subseteq Documents
  BY DEF Emits, Documents

LEMMA DriverEmits == Emits("planner") = DOMAIN Plans /\ Emits("fixup") = DOMAIN Fixups
  BY DEF Emits, Auditors, Quality

LEMMA AnsweredType ==
  ASSUME NEW t \in Documents \cup {"none", "bad"}, NEW s \in Documents \cup {"none", "bad"}
  PROVE  Answered(t, s) \in Raws
<1>1. ASSUME NEW b \in BOOLEAN, NEW n \in {0, 1, 124}
      PROVE  [rc |-> n, transient |-> b, category |-> "none", quota |-> b, text |-> t,
              structured |-> s] \in Raws
  BY DEF Raws
<1> QED BY <1>1 DEF Answered

(* A new attempt at a call, whichever driver makes it.                     *)
LEMMA InvokeKeeps ==
  ASSUME CallPart, NEW r \in Roles, Invoke(r),
         pc = "idle" \/ role = r,
         used' \in [transient : Nat, parse : Nat, valid : Nat], UsedType'
  PROVE  CallPart'
<1>1. CallType'
  <2>1. row' \in [live : BOOLEAN, status : {"running", "backoff_auth"}]
        /\ cut' \in BOOLEAN /\ lost' \in BOOLEAN
    BY RowType DEF CallPart, CallType, Invoke
  <2>2. round' \in {1, 2} /\ prov' \in 1..Len(Chain) /\ raw' \in Raws /\ res' \in Raws
    BY RefusedType, ChainType DEF Invoke
  <2>3. waited' \in 0..(AuthTotal + LongestNap - 1) /\ nap' \in 1..LongestNap
    BY Naps DEF Invoke
  <2> QED BY <2>1, <2>2, <2>3 DEF CallType, Invoke
<1>2. CallInv'
  BY DEF CallInv, Invoke
<1>3. QuotaWalksWholeChain'
  BY DEF QuotaWalksWholeChain, Invoke
<1>4. InFlightRowIsLive'
  BY DEF CallPart, InFlightRowIsLive, Invoke, Recorded, CallType
<1> QED BY <1>1, <1>2, <1>3, <1>4 DEF CallPart

LEMMA NoRetriesType ==
  /\ NoRetries \in [transient : Nat, parse : Nat, valid : Nat]
  /\ used' = NoRetries => UsedType'
  BY BudgetAssumption DEF NoRetries, UsedType

LEMMA BeginKeeps ==
  ASSUME CallPart, pc = "idle", NEW r \in Roles, Begin(r)
  PROVE  CallPart'
  BY InvokeKeeps, NoRetriesType DEF Begin

LEMMA FinishKeeps ==
  ASSUME CallPart, Finish
  PROVE  CallPart'
<1>1. CallType'
  <2>1. row' \in [live : BOOLEAN, status : {"running", "backoff_auth"}]
        /\ cut' \in BOOLEAN /\ lost' \in BOOLEAN
    BY RowType DEF CallPart, CallType, Finish
  <2>2. round' \in {1, 2} /\ prov' \in 1..Len(Chain) /\ raw' \in Raws /\ res' \in Raws
    BY RefusedType, ChainType DEF Finish
  <2>3. waited' \in 0..(AuthTotal + LongestNap - 1) /\ nap' \in 1..LongestNap
    BY Naps DEF Finish
  <2> QED BY <2>1, <2>2, <2>3, NoRetriesType DEF CallType, Finish
<1>2. CallInv'
  BY NoRetriesType DEF CallInv, Finish
<1>3. QuotaWalksWholeChain'
  BY DEF QuotaWalksWholeChain, Finish
<1>4. InFlightRowIsLive'
  BY DEF CallPart, InFlightRowIsLive, Finish, Recorded, CallType
<1> QED BY <1>1, <1>2, <1>3, <1>4 DEF CallPart

LEMMA CutOffKeeps ==
  ASSUME CallPart, CutOff
  PROVE  CallPart'
<1>1. CallType'
  <2>1. row' \in [live : BOOLEAN, status : {"running", "backoff_auth"}]
        /\ cut' \in BOOLEAN /\ lost' \in BOOLEAN
    BY RowType DEF CallPart, CallType, CutOff
  <2>2. round' \in {1, 2} /\ prov' \in 1..Len(Chain) /\ raw' \in Raws /\ res' \in Raws
    BY RefusedType, ChainType DEF CutOff
  <2>3. waited' \in 0..(AuthTotal + LongestNap - 1) /\ nap' \in 1..LongestNap
    BY Naps DEF CutOff
  <2> QED BY <2>1, <2>2, <2>3, NoRetriesType DEF CallType, CutOff
<1>2. CallInv'
  BY NoRetriesType DEF CallInv, CutOff
<1>3. QuotaWalksWholeChain'
  BY DEF QuotaWalksWholeChain, CutOff
<1>4. InFlightRowIsLive'
  BY DEF CallPart, InFlightRowIsLive, CutOff, Recorded, CallType
<1> QED BY <1>1, <1>2, <1>3, <1>4 DEF CallPart

(* A subprocess that ended, however it did.                                *)
LEMMA EndedKeeps ==
  ASSUME CallPart, NEW o \in Raws, o.category = "quota_exhausted" => o.quota, Ended(o)
  PROVE  CallPart'
<1>1. CallType'
  BY DEF CallPart, CallType, UsedType, Ended
<1>2. CallInv'
  BY DEF CallPart, CallInv, Ended
<1>3. QuotaWalksWholeChain'
  BY DEF QuotaWalksWholeChain, Ended
<1>4. InFlightRowIsLive'
  BY DEF CallPart, InFlightRowIsLive, Ended, Recorded
<1> QED BY <1>1, <1>2, <1>3, <1>4 DEF CallPart

LEMMA AnswersType ==
  ASSUME NEW r, NEW tier, NEW o \in Answers(r, tier)
  PROVE  o \in Raws /\ o.category = "none"
<1>1. PICK t \in Documents \cup {"none", "bad"}, s \in Documents \cup {"none", "bad"} :
        o = Answered(t, s)
  BY EmitsType DEF Answers, ClientSideAnswers, CliNativeAnswers
<1>2. o.category = "none"
  BY <1>1 DEF Answered
<1> QED BY <1>1, <1>2, AnsweredType

LEMMA ExecKeeps ==
  ASSUME CallPart,
         \/ ExecTimesOut \/ ExecContainerLost \/ ExecQuota \/ ExecRefused \/ ExecAnswers
         \/ AuthRaceLasts
  PROVE  CallPart'
<1>1. CASE ExecTimesOut
  <2>1. PICK q \in BOOLEAN : Ended(Failed(124, TRUE, "none", q))
    BY <1>1 DEF ExecTimesOut, TimedOut
  <2> QED BY <2>1, FailedType, EndedKeeps DEF Failed
<1>2. CASE ExecContainerLost
  <2>1. PICK q \in BOOLEAN : Ended(Failed(124, TRUE, "container_vanished", q))
    BY <1>2 DEF ExecContainerLost, ContainerVanished
  <2> QED BY <2>1, FailedType, EndedKeeps DEF Failed
<1>3. CASE ExecQuota
  BY <1>3, FailedType, EndedKeeps DEF ExecQuota, QuotaExhausted, Failed
<1>4. CASE ExecRefused
  BY <1>4, RefusedType, EndedKeeps DEF ExecRefused, Refused, Failed
<1>5. CASE ExecAnswers
  BY <1>5, AnswersType, EndedKeeps DEF ExecAnswers
<1>6. CASE AuthRaceLasts
  BY <1>6, FailedType, EndedKeeps DEF AuthRaceLasts, AuthGivenUp, Failed
<1> QED BY <1>1, <1>2, <1>3, <1>4, <1>5, <1>6

(* The status of the row while the credential race is slept on.            *)
LEMMA StatusType ==
  ASSUME CallPart, NEW s \in {"running", "backoff_auth"}, EmitStatus(s)
  PROVE  /\ row' \in [live : BOOLEAN, status : {"running", "backoff_auth"}]
         /\ lost' \in BOOLEAN
         /\ row'.live = row.live
         /\ Recorded(role) /\ ~lost' => row'.status = s /\ ~lost
<1> USE DEF CallPart, CallType
<1>1. CASE /\ row' = [row EXCEPT !.status = IF Recorded(role) THEN s ELSE @]
           /\ UNCHANGED lost
  BY <1>1
<1>2. CASE Recorded(role) /\ lost' = TRUE /\ UNCHANGED row
  BY <1>2
<1> QED BY <1>1, <1>2 DEF EmitStatus

LEMMA SleepKeeps ==
  ASSUME CallPart, AuthRace \/ AuthWakes
  PROVE  CallPart'
<1>1. CASE AuthRace
  <2>1. CallType'
    BY <1>1, StatusType DEF CallPart, CallType, UsedType, AuthRace
  <2>2. CallInv'
    BY <1>1 DEF CallPart, CallInv, AuthRace
  <2>3. QuotaWalksWholeChain'
    BY <1>1 DEF QuotaWalksWholeChain, AuthRace
  <2>4. InFlightRowIsLive'
    BY <1>1, StatusType DEF CallPart, InFlightRowIsLive, AuthRace, Recorded
  <2> QED BY <2>1, <2>2, <2>3, <2>4 DEF CallPart
<1>2. CASE AuthWakes
  <2>1. /\ waited' \in 0..(AuthTotal + LongestNap - 1)
        /\ nap' \in 1..LongestNap
    BY <1>2, BackoffAssumption, Naps DEF CallPart, CallType, CallInv, AuthWakes, LongestNap
  <2>2. CallType'
    BY <1>2, <2>1, StatusType DEF CallPart, CallType, UsedType, AuthWakes
  <2>3. CallInv'
    BY <1>2 DEF CallPart, CallInv, AuthWakes
  <2>4. QuotaWalksWholeChain'
    BY <1>2 DEF QuotaWalksWholeChain, AuthWakes
  <2>5. InFlightRowIsLive'
    BY <1>2, StatusType DEF CallPart, InFlightRowIsLive, AuthWakes, Recorded
  <2> QED BY <2>2, <2>3, <2>4, <2>5 DEF CallPart
<1> QED BY <1>1, <1>2

(* The walk down the chain and the validation.                             *)
LEMMA WalkKeeps ==
  ASSUME CallPart, FallBack \/ Reprompt \/ InvokeReturns
  PROVE  CallPart'
<1>1. CASE FallBack
  <2>1. prov' \in 1..Len(Chain)
    BY <1>1, ChainType DEF CallPart, CallType, FallBack, WalkIsOver
  <2>2. CallType'
    BY <1>1, <2>1, Naps, RefusedType DEF CallPart, CallType, UsedType, FallBack
  <2>3. CallInv'
    BY <1>1 DEF CallPart, CallInv, FallBack
  <2>4. QuotaWalksWholeChain'
    BY <1>1 DEF QuotaWalksWholeChain, FallBack
  <2>5. InFlightRowIsLive'
    BY <1>1 DEF CallPart, InFlightRowIsLive, FallBack, Recorded
  <2> QED BY <2>2, <2>3, <2>4, <2>5 DEF CallPart
<1>2. CASE Reprompt
  <2>1. CallType'
    BY <1>2, Naps, RefusedType, ChainType DEF CallPart, CallType, UsedType, Reprompt
  <2>2. CallInv'
    BY <1>2 DEF CallPart, CallInv, Reprompt
  <2>3. QuotaWalksWholeChain'
    BY <1>2 DEF QuotaWalksWholeChain, Reprompt
  <2>4. InFlightRowIsLive'
    BY <1>2 DEF CallPart, InFlightRowIsLive, Reprompt, Recorded
  <2> QED BY <2>1, <2>2, <2>3, <2>4 DEF CallPart
<1>3. CASE InvokeReturns
  <2> DEFINE d == IF raw.rc = 0 /\ Validates(raw) THEN Payload(raw) ELSE "none"
  <2>1. d \in Emits(role) \cup {"none"}
    BY DEF Validates
  <2> HIDE DEF d
  <2>2. res' = [raw EXCEPT !.structured = d, !.text = "none"]
    BY <1>3 DEF InvokeReturns, d
  <2>3. res' \in Raws /\ res'.structured = d /\ res'.category = raw.category
    BY <2>1, <2>2, EmitsType DEF CallPart, CallType, Raws
  <2>4. CallType'
    BY <1>3, <2>3, RefusedType DEF CallPart, CallType, UsedType, InvokeReturns
  <2>5. CallInv'
    BY <1>3, <2>1, <2>3 DEF CallPart, CallInv, InvokeReturns
  <2>6. QuotaWalksWholeChain'
    BY <1>3, <2>3 DEF CallPart, CallInv, QuotaWalksWholeChain, InvokeReturns, WalkIsOver
  <2>7. InFlightRowIsLive'
    BY <1>3 DEF CallPart, InFlightRowIsLive, InvokeReturns, Recorded
  <2> QED BY <2>4, <2>5, <2>6, <2>7 DEF CallPart
<1> QED BY <1>1, <1>2, <1>3

(* A retry that the driver's budget for its kind allows.                   *)
LEMMA AgainKeeps ==
  ASSUME CallPart, role \in Roles, NEW kind \in {"transient", "parse", "valid"}, Again(kind),
         kind = "transient" => used.transient < IF role = "fixup" THEN FixupTransient
                                                ELSE PlannerTransient,
         kind = "parse" => used.parse < CASE role = "fixup" -> FixupOutput
                                          [] role = "planner" -> PlannerParse
                                          [] OTHER -> AuditOutput,
         kind = "valid" => used.valid < PlannerValidator
  PROVE  CallPart'
<1>1. used' \in [transient : Nat, parse : Nat, valid : Nat]
  BY DEF Again, CallPart, CallInv
<1>2. role' = role
  BY DEF Again, Invoke
<1>3. UsedType'
  BY <1>2, BudgetAssumption DEF Again, CallPart, CallInv, CallType, UsedType
<1> QED BY <1>1, <1>3, InvokeKeeps DEF Again

-----------------------------------------------------------------------------
(* The outcomes of the stages.                                             *)

LEMMA StageNames ==
  /\ Len(Stages) = 5
  /\ Stages[1] = "local_ci" /\ Stages[2] = "rubric" /\ Stages[3] = "standards"
  /\ Stages[4] = "architecture" /\ Stages[5] = "behavior"
  /\ \A i \in 1..5 : Stages[i] \in Range(Stages)
  /\ \A i \in 2..5 : Stages[i] \in Auditors
  /\ \A i, j \in 1..5 : Stages[i] = Stages[j] => i = j
  BY DEF Stages, Auditors, Quality, Range

LEMMA SeverityNat ==
  ASSUME NEW s \in {"standards", "architecture"}, NEW d \in DOMAIN Grades[s], NEW sev
  PROVE  SeverityCount(Grades[s][d], sev) \in Nat
<1> DEFINE g == Grades[s][d]
<1>1. IsFiniteSet(DOMAIN g)
  BY DocumentAssumption
<1>2. {f \in DOMAIN g : g[f] = sev} \subseteq DOMAIN g
  OBVIOUS
<1>3. IsFiniteSet({f \in DOMAIN g : g[f] = sev})
  BY <1>1, <1>2, FS_Subset
<1> QED BY <1>3, FS_CardinalityType DEF SeverityCount

(* A stage that did run has findings of its own kinds only.                *)
LEMMA GradedFacts ==
  ASSUME NEW i \in 2..5, NEW d \in DOMAIN Grades[Stages[i]]
  PROVE  /\ Graded(Stages[i], d).passed \in BOOLEAN
         /\ Graded(Stages[i], d).structural = FALSE
         /\ Graded(Stages[i], d).critical \in Nat
         /\ Graded(Stages[i], d).doc = d
         /\ \A f \in Graded(Stages[i], d).ids : f[2] # "structural"
<1> DEFINE s == Stages[i]
           g == Grades[s][d]
           b == StageOutcome(s, g)
<1>1. CASE i = 2
  <2>1. b = RubricOutcome(g)
    BY <1>1, StageNames DEF StageOutcome
  <2> QED BY <2>1 DEF RubricOutcome, Outcome, Graded
<1>2. CASE i \in {3, 4}
  <2>1. s \in {"standards", "architecture"} /\ b = StandardsOutcome(s, g)
    BY <1>2, StageNames DEF StageOutcome
  <2>2. SeverityCount(g, "critical") \in Nat
    BY <2>1, SeverityNat
  <2> QED BY <2>1, <2>2 DEF StandardsOutcome, Outcome, Graded
<1>3. CASE i = 5
  <2>1. b = BehaviorOutcome(g)
    BY <1>3, StageNames DEF StageOutcome
  <2> QED BY <2>1 DEF BehaviorOutcome, Outcome, Graded
<1>4. i = 2 \/ i \in {3, 4} \/ i = 5
  OBVIOUS
<1> QED BY <1>1, <1>2, <1>3, <1>4, Zenon

LEMMA OutcomeFacts ==
  ASSUME NEW i \in 1..5, NEW o \in Outcomes(i)
  PROVE  /\ o.passed \in BOOLEAN /\ o.structural \in BOOLEAN /\ o.critical \in Nat
         /\ o.structural => ~o.passed
         /\ ~o.structural => \A f \in o.ids : f[2] # "structural"
         /\ o.passed \/ (i # 1 /\ ~o.structural) => o.doc \in Docs(i)
<1>1. CASE o = Structural(Stages[i])
  BY <1>1 DEF Structural
<1>2. CASE \E d \in Docs(i) : o = Pass(d)
  BY <1>2 DEF Pass, Outcome
<1>3. CASE i = 1 /\ o = Outcome(FALSE, {}, 0)
  BY <1>3 DEF Outcome
<1>4. CASE i # 1 /\ \E d \in DOMAIN Grades[Stages[i]] : o = Graded(Stages[i], d)
  <2>1. PICK d \in DOMAIN Grades[Stages[i]] : o = Graded(Stages[i], d)
    BY <1>4
  <2>2. i \in 2..5 /\ d \in Docs(i)
    BY <1>4 DEF Docs
  <2> QED BY <2>1, <2>2, GradedFacts
<1> QED BY <1>1, <1>2, <1>3, <1>4 DEF Outcomes

LEMMA SameDocs ==
  ASSUME expected' = expected
  PROVE  \A i : Docs(i)' = Docs(i) /\ Outcomes(i)' = Outcomes(i)
  BY DEF Docs, Outcomes

LEMMA DocsType == \A i \in 1..5 : Docs(i) \subseteq Documents \cup {"none"}
  BY StageNames DEF Docs, Documents

-----------------------------------------------------------------------------
(* What the planner's validators establish.                                *)

(* Dependencies that can be ranked contain no loop.                        *)
LEMMA RankedHasNoLoop ==
  ASSUME NEW sub, IsFiniteSet(DOMAIN sub), Acyclic(sub),
         NEW loop \in (SUBSET DOMAIN sub) \ {{}}
  PROVE  \E s \in loop : sub[s].deps \cap loop = {}
<1> DEFINE n == Cardinality(DOMAIN sub)
<1>1. n \in Nat
  BY FS_CardinalityType
<1> HIDE DEF n
<1>2. PICK rank \in [DOMAIN sub -> 1..n] :
        \A s \in DOMAIN sub : \A d \in sub[s].deps : rank[d] < rank[s]
  BY DEF Acyclic, n
<1> DEFINE ranks == {rank[s] : s \in loop}
<1>3. ranks \in SUBSET Nat /\ ranks # {}
  BY <1>1, <1>2
<1>4. PICK m \in ranks : \A k \in ranks : m <= k
  BY <1>3, NatMinimum
<1>5. PICK s \in loop : m = rank[s]
  BY <1>4
<1>6. ASSUME NEW d \in sub[s].deps \cap loop PROVE FALSE
  <2>1. rank[d] \in ranks /\ rank[d] \in Nat /\ rank[s] \in Nat
    BY <1>1, <1>2
  <2>2. rank[s] <= rank[d]
    BY <1>4, <1>5, <2>1
  <2>3. rank[d] < rank[s]
    BY <1>2
  <2> QED BY <2>1, <2>2, <2>3
<1> QED BY <1>6

(* The stabilization subtask that is injected claims nothing.              *)
LEMMA InjectionClaimsNothing ==
  ASSUME NEW sub
  PROVE  /\ Claims(WithStabilization(sub)) = Claims(sub)
         /\ \A h \in Claims(sub) : Claimed(WithStabilization(sub), h) = Claimed(sub, h)
<1> DEFINE full == WithStabilization(sub)
<1>1. CASE "Z-99" \in DOMAIN sub
  BY <1>1 DEF WithStabilization
<1>2. CASE "Z-99" \notin DOMAIN sub
  <2>1. /\ DOMAIN full = DOMAIN sub \cup {"Z-99"}
        /\ full["Z-99"].evidence = <<>>
        /\ \A s \in DOMAIN sub : full[s] = sub[s]
    BY <1>2 DEF WithStabilization, Stabilization
  <2>2. DOMAIN (full["Z-99"].evidence) = {}
    BY <2>1
  <2> HIDE DEF full
  <2>3. Claims(full) = Claims(sub)
    BY <2>1, <2>2 DEF Claims
  <2>4. ASSUME NEW h \in Claims(sub) PROVE h[1] \in DOMAIN sub
    BY DEF Claims
  <2>5. \A h \in Claims(sub) : Claimed(full, h) = Claimed(sub, h)
    BY <2>1, <2>4 DEF Claimed
  <2> QED BY <2>3, <2>5 DEF full
<1> QED BY <1>1, <1>2

LEMMA ValidPlanPartitions ==
  ASSUME NEW p \in DOMAIN Plans, Builds(Plans[p]), PlanValid(Plans[p])
  PROVE  /\ Cardinality(Claims(Plans[p].sub)) = Cardinality(expected)
         /\ {Claimed(Plans[p].sub, h) : h \in Claims(Plans[p].sub)} = expected
         /\ ~\E loop \in (SUBSET DOMAIN Plans[p].sub) \ {{}} :
               \A s \in loop : Plans[p].sub[s].deps \cap loop # {}
<1> DEFINE sub  == Plans[p].sub
           full == WithStabilization(sub)
           f    == [h \in Claims(sub) |-> Claimed(sub, h)]
<1>1. EvidencePartition(full) /\ Acyclic(sub)
  BY DEF PlanValid, Builds
<1>2. IsFiniteSet(DOMAIN sub) /\ IsFiniteSet(Claims(sub))
  BY PlanAssumption
<1>3. Claims(full) = Claims(sub) /\ \A h \in Claims(sub) : Claimed(full, h) = Claimed(sub, h)
  BY InjectionClaimsNothing
<1> HIDE DEF sub, full
<1>4. ASSUME NEW e \in expected PROVE \E h : Holders(sub, e) = {h}
  <2>1. Holders(full, e) = Holders(sub, e)
    BY <1>3 DEF Holders
  <2>2. Holders(sub, e) \in SUBSET Claims(sub)
    BY DEF Holders
  <2>3. IsFiniteSet(Holders(sub, e))
    BY <1>2, <2>2, FS_Subset
  <2>4. Cardinality(Holders(sub, e)) = 1
    BY <1>1, <2>1 DEF EvidencePartition
  <2> QED BY <2>3, <2>4, FS_Singleton
<1>5. \A h \in Claims(sub) : Claimed(sub, h) \in expected
  BY <1>1, <1>3 DEF EvidencePartition
<1>6. f \in [Claims(sub) -> expected]
  BY <1>5
<1>7. ASSUME NEW g \in Claims(sub), NEW h \in Claims(sub), f[g] = f[h] PROVE g = h
  <2>1. g \in Holders(sub, f[g]) /\ h \in Holders(sub, f[g]) /\ f[g] \in expected
    BY <1>6, <1>7 DEF Holders
  <2> QED BY <1>4, <2>1
<1>8. ASSUME NEW e \in expected PROVE \E h \in Claims(sub) : f[h] = e
  <2>1. PICK h : h \in Holders(sub, e)
    BY <1>4
  <2> QED BY <2>1 DEF Holders
<1>9. Cardinality(Claims(sub)) = Cardinality(expected)
  <2>1. f \in Bijection(Claims(sub), expected)
    BY <1>6, <1>7, <1>8, Fun_IsBij
  <2> QED BY <1>2, <2>1, FS_Bijection DEF ExistsBijection
<1>10. {Claimed(sub, h) : h \in Claims(sub)} = expected
  BY <1>5, <1>8
<1>11. ASSUME NEW loop \in (SUBSET DOMAIN sub) \ {{}}
       PROVE  \E s \in loop : sub[s].deps \cap loop = {}
  BY <1>1, <1>2, RankedHasNoLoop
<1> QED BY <1>9, <1>10, <1>11 DEF sub

-----------------------------------------------------------------------------
(* What a step does to the task.                                           *)

LEMMA Summary ==
  ASSUME NEW c, NEW g
  PROVE  LET s == [cycle |-> c, passed |-> g]
         IN  s.cycle = c /\ s.passed = g /\ s = [cycle |-> s.cycle, passed |-> s.passed]
  OBVIOUS

LEMMA NoGradesType ==
  DOMAIN NoGrades = {} /\ NoGrades \in [DOMAIN NoGrades -> Documents \cup {"none"}]
  BY DEF NoGrades

(* Nothing but the phase changes, and no pull request is opened.           *)
LEMMA PhaseKeeps ==
  ASSUME TaskInv, UNCHANGED <<expected, planned, cycle, audit, found, accepted, crashes>>,
         phase' = phase \/ phase' \in {"blocked", "failed"}
  PROVE  TaskInv'
<1> USE DEF TaskInv, audit
<1>1. TaskType'
  BY DEF TaskType
<1>2. StageInv'
  BY SameDocs DEF StageInv
<1>3. SummaryInv'
  BY SameDocs DEF SummaryInv
<1>4. OpenInv'
  BY DEF OpenInv, FailedStages, ReleaseValveOpens, CriticalCount
<1>5. AcceptedFixupCovers' /\ PlanPartitionsEvidence'
  BY DEF AcceptedFixupCovers, PlanPartitionsEvidence
<1> QED BY <1>1, <1>2, <1>3, <1>4, <1>5

(* A stage's outcome joins the cycle's.                                    *)
LEMMA StageJoins ==
  ASSUME StageInv, phase = "audit", Len(stages) < 5, NEW o \in Outcomes(Len(stages) + 1),
         stages' = Append(stages, o), UNCHANGED <<phase, expected, cycle>>
  PROVE  StageInv' /\ Len(stages') = Len(stages) + 1
<1> DEFINE All == UNION {Outcomes(i) : i \in 1..5}
           n == Len(stages) + 1
<1>1. stages \in Seq(All) /\ Len(stages) \in Nat
  BY DEF StageInv
<1>2. n \in 1..5 /\ o \in All
  BY <1>1
<1>3. All' = All
  BY SameDocs
<1>4. \A i \in 1..Len(stages) : stages[i] \in Outcomes(i)
  BY DEF StageInv
<1> HIDE DEF All
<1>5. /\ stages' \in Seq(All) /\ Len(stages') = n /\ stages'[n] = o
      /\ \A i \in 1..Len(stages) : stages'[i] = stages[i]
  BY <1>1, <1>2
<1>6. \A i \in 1..Len(stages') : stages'[i] \in Outcomes(i)
  BY <1>1, <1>4, <1>5
<1>7. \A i \in 1..Len(stages') : stages'[i] \in Outcomes(i)'
  BY <1>6, SameDocs
<1> QED BY <1>1, <1>2, <1>3, <1>5, <1>7 DEF StageInv, All

LEMMA StageEndsKeeps ==
  ASSUME TaskInv, phase = "audit", Len(stages) < 5, NEW o \in Outcomes(Len(stages) + 1),
         StageEnds(o)
  PROVE  TaskInv'
<1> DEFINE n == Len(stages) + 1
<1>1. n \in 1..5 /\ NextStage = Stages[n] /\ NextStage \in Range(Stages)
  BY StageNames DEF TaskInv, StageInv, NextStage
<1>2. StageInv' /\ Len(stages') = n
  BY StageJoins DEF TaskInv, StageEnds
<1>3. o.passed => o.doc \in Docs(n)
  BY <1>1, OutcomeFacts
<1>4. summary' = [cycle |-> summary.cycle, passed |-> Keeps(o)]
  BY Summary DEF TaskInv, SummaryInv, StageEnds
<1>5. /\ Keeps(o) \in [DOMAIN Keeps(o) -> Documents \cup {"none"}]
      /\ DOMAIN Keeps(o) \subseteq DOMAIN summary.passed \cup {NextStage}
      /\ \A i \in 1..5 : Stages[i] \in DOMAIN Keeps(o) => Keeps(o)[Stages[i]] \in Docs(i)
  <2>1. ASSUME NEW s \in DOMAIN Keeps(o)
        PROVE  /\ s \in DOMAIN summary.passed \cup {NextStage}
               /\ s # NextStage => s \in DOMAIN summary.passed /\ Keeps(o)[s] = summary.passed[s]
               /\ s = NextStage => o.passed /\ Keeps(o)[s] = o.doc
    BY DEF Keeps
  <2>2. ASSUME NEW s \in DOMAIN Keeps(o) PROVE Keeps(o)[s] \in Documents \cup {"none"}
    BY <1>1, <1>3, <2>1, DocsType DEF TaskInv, SummaryInv
  <2>3. Keeps(o) = [s \in DOMAIN Keeps(o) |-> Keeps(o)[s]]
    BY DEF Keeps
  <2>4. ASSUME NEW i \in 1..5, Stages[i] \in DOMAIN Keeps(o)
        PROVE  Keeps(o)[Stages[i]] \in Docs(i)
    BY <1>1, <1>3, <2>1, <2>4, StageNames DEF TaskInv, SummaryInv
  <2> QED BY <2>1, <2>2, <2>3, <2>4
<1> HIDE DEF n
<1>6. SummaryInv'
  BY <1>4, <1>5, Summary, SameDocs DEF TaskInv, SummaryInv, StageEnds
<1>7. TaskType'
  BY <1>1, <1>2, <1>4, <1>5, Summary, StageNames DEF TaskInv, TaskType, StageEnds
<1>8. OpenInv'
  BY DEF OpenInv, StageEnds
<1>9. AcceptedFixupCovers' /\ PlanPartitionsEvidence'
  BY DEF TaskInv, AcceptedFixupCovers, PlanPartitionsEvidence, StageEnds
<1> QED BY <1>2, <1>6, <1>7, <1>8, <1>9 DEF TaskInv

(* Which of them a stage may end with.                                     *)
LEMMA StageKeeps ==
  ASSUME TaskInv, CallPart, RoleInv,
         StageLocalCi \/ StageCannotRun \/ StageSkipped \/ AuditFails \/ AuditGrades
  PROVE  TaskInv'
<1> DEFINE n == Len(stages) + 1
<1>1. CASE StageLocalCi \/ StageCannotRun \/ StageSkipped
  <2>1. phase = "audit" /\ Len(stages) < 5
    BY <1>1, StageNames DEF StageLocalCi, StageCannotRun, StageSkipped, StageDue, StageReady
  <2>2. n \in 1..5 /\ NextStage = Stages[n]
    BY <2>1 DEF TaskInv, StageInv, NextStage
  <2>3. CASE StageLocalCi
    <3> HIDE DEF n
    <3>1. n = 1
      <4>1. Stages[n] = Stages[1] /\ 1 \in 1..5
        BY <2>2, <2>3, StageNames DEF StageLocalCi
      <4> QED BY <2>2, <4>1, StageNames
    <3>2. LocalCiOutcomes \subseteq Outcomes(1)
      BY StageNames DEF LocalCiOutcomes, Outcomes, Docs, Pass, Outcome
    <3> QED BY <2>1, <2>3, <3>1, <3>2, StageEndsKeeps DEF StageLocalCi, n
  <2>4. CASE StageCannotRun
    BY <2>1, <2>2, <2>4, StageEndsKeeps DEF StageCannotRun, Outcomes
  <2>5. CASE StageSkipped
    <3> HIDE DEF n
    <3>1. n = 5 /\ expected = {}
      <4>1. Stages[n] = Stages[5] /\ 5 \in 1..5
        BY <2>2, <2>5, StageNames DEF StageSkipped
      <4> QED BY <2>2, <2>5, <4>1, StageNames DEF StageSkipped
    <3>2. "none" \in Docs(n) /\ Pass("none") = Outcome(TRUE, {}, 0)
      BY <3>1 DEF Docs, Pass, Outcome
    <3>3. Outcome(TRUE, {}, 0) \in Outcomes(n)
      BY <3>2 DEF Outcomes
    <3> QED BY <2>1, <2>5, <3>3, StageEndsKeeps DEF StageSkipped, n
  <2> QED BY <1>1, <2>3, <2>4, <2>5
<1>2. CASE AuditFails \/ AuditGrades
  <2>1. role \in Auditors /\ phase = "audit" /\ Len(stages) < 5 /\ role = NextStage
    BY <1>2 DEF RoleInv, AuditFails, AuditGrades, Auditing
  <2>2. n \in 1..5 /\ role = Stages[n]
    BY <2>1 DEF TaskInv, StageInv, NextStage
  <2>3. CASE AuditFails
    BY <2>1, <2>2, <2>3, StageEndsKeeps DEF AuditFails, Outcomes
  <2>4. CASE AuditGrades
    <3>1. res.structured \in Emits(role)
      BY <2>4 DEF AuditGrades, Auditing, Parsed, CallPart, CallInv
    <3>2. res.structured \in DOMAIN Grades[Stages[n]]
      BY <2>1, <2>2, <3>1 DEF Emits, Auditors, Quality
    <3>3. n # 1
      BY <2>1, <2>2, StageNames DEF Auditors, Quality
    <3>4. Graded(Stages[n], res.structured) \in Outcomes(n)
      BY <3>2, <3>3 DEF Outcomes
    <3> QED BY <2>1, <2>2, <2>4, <3>4, StageEndsKeeps DEF AuditGrades, Graded
  <2> QED BY <1>2, <2>3, <2>4
<1> QED BY <1>1, <1>2

LEMMA StageReusedKeeps ==
  ASSUME TaskInv, StageReused
  PROVE  TaskInv'
<1> DEFINE n == Len(stages) + 1
<1>1. phase = "audit" /\ Len(stages) < 5 /\ NextStage \in DOMAIN summary.passed
  BY StageNames DEF StageReused, StageReady, StageKept
<1>2. n \in 1..5 /\ NextStage = Stages[n]
  BY <1>1 DEF TaskInv, StageInv, NextStage
<1>3. summary.passed[NextStage] \in Docs(n)
  BY <1>1, <1>2 DEF TaskInv, SummaryInv
<1>4. Pass(summary.passed[NextStage]) \in Outcomes(n)
  BY <1>3 DEF Outcomes
<1>5. StageInv' /\ Len(stages') = n
  BY <1>1, <1>4, StageJoins DEF TaskInv, StageReused, Pass
<1> HIDE DEF n
<1>6. SummaryInv'
  BY SameDocs DEF TaskInv, SummaryInv, StageReused
<1>7. TaskType'
  BY <1>2, <1>5, StageNames DEF TaskInv, TaskType, StageReused
<1>8. OpenInv'
  BY <1>1 DEF OpenInv, StageReused
<1>9. AcceptedFixupCovers' /\ PlanPartitionsEvidence'
  BY DEF TaskInv, AcceptedFixupCovers, PlanPartitionsEvidence, StageReused
<1> QED BY <1>5, <1>6, <1>7, <1>8, <1>9 DEF TaskInv

(* A cycle starts; one that resumes keeps the summary it found.            *)
LEMMA StartCycleKeeps ==
  ASSUME TaskInv, StartCycle
  PROVE  TaskInv'
<1>1. StageInv'
  BY SameDocs DEF TaskInv, StageInv, StartCycle
<1>2. TaskType' /\ SummaryInv'
  <2>1. CASE resume
    BY <2>1, SameDocs DEF TaskInv, TaskType, SummaryInv, StartCycle, Alive
  <2>2. CASE ~resume
    <3>1. summary' = [cycle |-> cycle, passed |-> NoGrades] /\ cycle \in 1..MaxCycles
      BY <2>2, BudgetAssumption DEF StartCycle, TaskInv, TaskType
    <3>2. summary'.cycle = cycle /\ summary'.passed = NoGrades
      BY <3>1, Summary
    <3>3. TaskType'
      BY <3>1, <3>2, NoGradesType, BudgetAssumption DEF TaskInv, TaskType, StartCycle, Alive
    <3>4. SummaryInv'
      BY <3>1, <3>2, NoGradesType, Summary DEF SummaryInv
    <3> QED BY <3>3, <3>4
  <2> QED BY <2>1, <2>2
<1>3. OpenInv'
  BY DEF OpenInv, StartCycle
<1>4. AcceptedFixupCovers' /\ PlanPartitionsEvidence'
  BY DocumentAssumption DEF TaskInv, AcceptedFixupCovers, PlanPartitionsEvidence, StartCycle, Documents
<1> QED BY <1>1, <1>2, <1>3, <1>4 DEF TaskInv

(* A cycle ends.                                                           *)
LEMMA SettleKeeps ==
  ASSUME TaskInv, RoleInv, SettlePassed \/ SettleDeferred \/ SettleStructural \/ SettleFixup
  PROVE  TaskInv'
<1> USE DEF CycleOver
<1>1. CASE SettlePassed \/ SettleDeferred
  <2> USE DEF SettlePassed, SettleDeferred, audit
  <2>1. TaskType'
    BY <1>1 DEF TaskInv, TaskType
  <2>2. StageInv'
    BY <1>1, SameDocs DEF TaskInv, StageInv
  <2>3. SummaryInv'
    BY <1>1, SameDocs DEF TaskInv, SummaryInv
  <2>4. OpenInv'
    BY <1>1, StageNames DEF OpenInv, FailedStages, ReleaseValveOpens, CriticalCount
  <2>5. AcceptedFixupCovers' /\ PlanPartitionsEvidence'
    BY <1>1 DEF TaskInv, AcceptedFixupCovers, PlanPartitionsEvidence
  <2> QED BY <2>1, <2>2, <2>3, <2>4, <2>5 DEF TaskInv
<1>2. CASE SettleStructural
  BY <1>2, PhaseKeeps DEF SettleStructural
<1>3. CASE SettleFixup
  <2> USE <1>3 DEF SettleFixup
  <2>1. TaskType'
    BY StageNames DEF TaskInv, TaskType, Alive
  <2>2. StageInv'
    BY DEF TaskInv, StageInv
  <2>3. SummaryInv'
    BY SameDocs DEF TaskInv, SummaryInv
  <2>4. OpenInv'
    BY DEF OpenInv
  <2>5. ASSUME NEW f \in found' PROVE f[2] # "structural"
    <3>1. PICK i \in FailedStages : f \in stages[i].ids
      OBVIOUS
    <3>2. i \in 1..5 /\ stages[i] \in Outcomes(i)
      BY DEF FailedStages, TaskInv, StageInv
    <3>3. ~stages[i].structural
      BY DEF StructuralFailure
    <3> QED BY <3>1, <3>2, <3>3, OutcomeFacts
  <2>6. AcceptedFixupCovers' /\ PlanPartitionsEvidence'
    BY <2>5, DocumentAssumption
       DEF TaskInv, AcceptedFixupCovers, PlanPartitionsEvidence, RoleInv, Documents
  <2> QED BY <2>1, <2>2, <2>3, <2>4, <2>6 DEF TaskInv
<1> QED BY <1>1, <1>2, <1>3

(* A plan that the planner's validators let through.                       *)
LEMMA PlannerKeeps ==
  ASSUME TaskInv, CallPart, RoleInv, StartPlanner \/ PlannerAccepts
  PROVE  TaskInv'
<1>1. phase \in {"plan"}
  BY DEF StartPlanner, PlannerAccepts, Result, RoleInv
<1>2. UNCHANGED <<expected, cycle, audit, found, crashes>> /\ phase' \in {"plan", "build"}
  BY <1>1 DEF StartPlanner, PlannerAccepts
<1>3. StageInv'
  BY <1>2, SameDocs DEF TaskInv, StageInv, audit
<1>4. SummaryInv'
  BY <1>2, SameDocs DEF TaskInv, SummaryInv, audit
<1>5. OpenInv'
  BY <1>2 DEF OpenInv
<1>6. CASE StartPlanner
  <2>1. TaskType'
    BY <1>2, <1>6 DEF TaskInv, TaskType, StartPlanner, audit, Alive
  <2>2. AcceptedFixupCovers' /\ PlanPartitionsEvidence'
    BY <1>2, <1>6, DocumentAssumption
       DEF TaskInv, AcceptedFixupCovers, PlanPartitionsEvidence, StartPlanner, Documents
  <2> QED BY <1>3, <1>4, <1>5, <2>1, <2>2 DEF TaskInv
<1>7. CASE PlannerAccepts
  <2>1. res.structured \in DOMAIN Plans
    BY <1>7, DriverEmits DEF PlannerAccepts, Result, Parsed, CallPart, CallInv
  <2>2. TaskType'
    BY <1>2, <1>7, <2>1 DEF TaskInv, TaskType, PlannerAccepts, audit, Alive, Documents
  <2>3. AcceptedFixupCovers'
    BY <1>2, <1>7, <2>1, DocumentAssumption DEF TaskInv, AcceptedFixupCovers, PlannerAccepts
  <2>4. PlanPartitionsEvidence'
    BY <1>2, <1>7, <2>1, ValidPlanPartitions DEF PlanPartitionsEvidence, PlannerAccepts
  <2> QED BY <1>3, <1>4, <1>5, <2>2, <2>3, <2>4 DEF TaskInv
<1> QED BY <1>6, <1>7

(* A fixup plan that the coverage validator let through.                   *)
LEMMA ValidFixupCovers ==
  ASSUME NEW p \in DOMAIN Fixups, NEW ids, FindingCoverage(Fixups[p], ids),
         \A f \in ids : f[2] # "structural"
  PROVE  /\ MissingFindingCoverage(Fixups[p], ids) = {}
         /\ \A f \in ids : Cardinality(Owners(Fixups[p], f)) <= 1
<1> DEFINE d == Fixups[p]
<1>1. ASSUME NEW f \in ids
      PROVE  \/ Owners(d, f) = {} /\ f \in d.addressed
             \/ \E s \in DOMAIN d.own : Owners(d, f) = {s}
  <2>1. Owners(d, f) \subseteq DOMAIN d.own /\ IsFiniteSet(DOMAIN d.own)
    BY DocumentAssumption DEF Owners
  <2>2. IsFiniteSet(Owners(d, f))
    BY <2>1, FS_Subset
  <2>3. Cardinality(Owners(d, f)) = 1 => \E s : Owners(d, f) = {s}
    BY <2>2, FS_Singleton
  <2> QED BY <2>1, <2>3 DEF FindingCoverage
<1>2. ASSUME NEW f \in ids PROVE Cardinality(Owners(d, f)) <= 1
  <2>1. CASE Owners(d, f) = {}
    BY <2>1, FS_EmptySet
  <2>2. CASE \E s : Owners(d, f) = {s}
    <3>1. PICK s : Owners(d, f) = {s}
      BY <2>2
    <3>2. Cardinality({s}) = 1
      BY FS_Singleton
    <3> QED BY <3>1, <3>2
  <2> QED BY <1>1, <2>1, <2>2
<1>3. ASSUME NEW f \in ids, f \notin d.addressed
      PROVE  \E s \in DOMAIN d.own : f \in d.own[s]
  BY <1>1, <1>3 DEF Owners
<1>4. MissingFindingCoverage(d, ids) = {}
  BY <1>3 DEF MissingFindingCoverage, Owners
<1> QED BY <1>2, <1>4

LEMMA FixupKeeps ==
  ASSUME TaskInv, CallPart, RoleInv, StartFixup \/ FixupAccepts
  PROVE  TaskInv'
<1>1. phase = "fixup" /\ phase' \in {"fixup", "build"}
  BY DEF StartFixup, FixupAccepts, Result, RoleInv
<1>2. UNCHANGED <<expected, planned, stages, summary, found, crashes>>
  BY DEF StartFixup, FixupAccepts, audit
<1>3. OpenInv'
  BY <1>1 DEF OpenInv
<1>4. CASE StartFixup
  <2>1. TaskType'
    BY <1>1, <1>2, <1>4 DEF TaskInv, TaskType, StartFixup, audit, Alive
  <2>2. StageInv'
    BY <1>1, <1>2, <1>4, SameDocs DEF TaskInv, StageInv, StartFixup
  <2>3. SummaryInv'
    BY <1>1, <1>2, <1>4, SameDocs DEF TaskInv, SummaryInv, StartFixup, audit
  <2>4. AcceptedFixupCovers' /\ PlanPartitionsEvidence'
    BY <1>2, <1>4, DocumentAssumption
       DEF TaskInv, AcceptedFixupCovers, PlanPartitionsEvidence, StartFixup, Documents
  <2> QED BY <1>3, <2>1, <2>2, <2>3, <2>4 DEF TaskInv
<1>5. CASE FixupAccepts
  <2>1. res.structured \in DOMAIN Fixups
    BY <1>5, DriverEmits DEF FixupAccepts, FixupAccepted, Result, Parsed, CallPart, CallInv
  <2>2. TaskType'
    <3>1. cycle' \in 1..(MaxCycles + 1)
      BY <1>1, <1>5, BudgetAssumption DEF TaskInv, TaskType, StageInv, FixupAccepts
    <3>2. accepted' \in Documents /\ resume' \in BOOLEAN
      BY <1>5, <2>1 DEF FixupAccepts, Documents
    <3> QED BY <1>1, <1>2, <3>1, <3>2 DEF TaskInv, TaskType, Alive
  <2>3. StageInv'
    BY <1>2, <1>5, SameDocs DEF TaskInv, StageInv, FixupAccepts
  <2>4. SummaryInv'
    BY <1>2, <1>5, SameDocs DEF TaskInv, SummaryInv, FixupAccepts
  <2>5. AcceptedFixupCovers'
    <3>1. FindingCoverage(Fixups[res.structured], found)
      BY <1>5 DEF FixupAccepts, FixupAccepted, FixupValid
    <3> QED BY <1>2, <1>5, <2>1, <3>1, ValidFixupCovers
            DEF TaskInv, AcceptedFixupCovers, FixupAccepts
  <2>6. PlanPartitionsEvidence'
    BY <1>5, <2>1, DocumentAssumption DEF PlanPartitionsEvidence, FixupAccepts
  <2> QED BY <1>3, <2>2, <2>3, <2>4, <2>5, <2>6 DEF TaskInv
<1> QED BY <1>4, <1>5

LEMMA DeathKeeps ==
  ASSUME TaskInv, RoleInv, Crash \/ Restart
  PROVE  TaskInv'
<1>1. /\ UNCHANGED <<expected, planned, summary>>
      /\ phase' \in {"down", "build", "plan"} /\ accepted' = "none"
  BY DEF Crash, Restart, RoleInv
<1>2. TaskType'
  <2>1. CASE Crash
    <3>1. crashes' \in 0..MaxCrashes /\ cycle' \in 1..(MaxCycles + 1)
      BY <2>1, BudgetAssumption DEF TaskInv, TaskType, Crash
    <3>2. stages' = <<>> /\ resume' = FALSE
      BY <2>1 DEF Crash
    <3>3. Len(stages') <= Len(Stages)
      BY <3>2, StageNames
    <3> QED BY <1>1, <3>1, <3>2, <3>3 DEF TaskInv, TaskType, Alive
  <2>2. CASE Restart
    <3>1. cycle' \in 1..(MaxCycles + 1) /\ resume' \in BOOLEAN
      <4>1. summary.passed # NoGrades => summary.cycle \in 1..MaxCycles
        BY BudgetAssumption DEF TaskInv, TaskType, SummaryInv
      <4>2. resume' = (summary.passed # NoGrades)
        BY <2>2 DEF Restart
      <4>3. cycle' = IF resume' THEN summary.cycle ELSE 1
        BY <2>2 DEF Restart
      <4>4. cycle' = 1 \/ cycle' \in 1..MaxCycles
        <5>1. CASE summary.passed # NoGrades
          BY <4>1, <4>2, <4>3, <5>1, Zenon
        <5>2. CASE summary.passed = NoGrades
          BY <4>2, <4>3, <5>2, Zenon
        <5> QED BY <5>1, <5>2
      <4>5. resume' \in BOOLEAN
        BY <4>2, Zenon
      <4> QED BY <4>4, <4>5, BudgetAssumption
    <3>2. UNCHANGED <<stages, crashes>>
      BY <2>2 DEF Restart
    <3> QED BY <1>1, <3>1, <3>2 DEF TaskInv, TaskType, Alive
  <2> QED BY <2>1, <2>2
<1>3. StageInv'
  <2>1. CASE Crash
    BY <1>1, <2>1 DEF StageInv, Crash
  <2>2. CASE Restart
    BY <1>1, <2>2, SameDocs DEF TaskInv, StageInv, Restart
  <2> QED BY <2>1, <2>2
<1>4. SummaryInv'
  BY <1>1, SameDocs DEF TaskInv, SummaryInv, Crash, Restart
<1>5. OpenInv'
  BY <1>1 DEF OpenInv
<1>6. AcceptedFixupCovers'
  BY <1>1, DocumentAssumption DEF TaskInv, AcceptedFixupCovers, Documents, Crash, Restart
<1>7. PlanPartitionsEvidence'
  BY <1>1, DocumentAssumption DEF PlanPartitionsEvidence, Documents
<1> QED BY <1>2, <1>3, <1>4, <1>5, <1>6, <1>7 DEF TaskInv

-----------------------------------------------------------------------------
(* Who is called in which phase.                                           *)

LEMMA RoleStays ==
  ASSUME RoleInv, UNCHANGED task, role' = role, pc # "idle", pc' # "idle"
  PROVE  RoleInv'
  BY DEF RoleInv, task, audit, NextStage

LEMMA RoleEnds ==
  ASSUME role' = "none", pc' = "idle",
         phase' \in {"plan", "audit", "fixup", "down"} => accepted' = "none"
  PROVE  RoleInv'
  BY DEF RoleInv, Auditors, Quality

LEMMA NoCallKeeps ==
  ASSUME CallPart, UNCHANGED <<call, row, cut, lost>>
  PROVE  CallPart'
<1> USE DEF call
<1>1. CallType'
  BY DEF CallPart, CallType, UsedType
<1>2. CallInv'
  BY DEF CallPart, CallInv
<1>3. QuotaWalksWholeChain' /\ InFlightRowIsLive'
  BY DEF CallPart, QuotaWalksWholeChain, InFlightRowIsLive
<1> QED BY <1>1, <1>2, <1>3 DEF CallPart

LEMMA UnchangedTask == UNCHANGED task /\ TaskInv => TaskInv'
<1> SUFFICES ASSUME UNCHANGED task, TaskInv PROVE TaskInv'
  OBVIOUS
<1> QED BY PhaseKeeps DEF task, audit

-----------------------------------------------------------------------------
(* The inductive step.                                                     *)

LEMMA InitHolds == Init => IndInv
<1> SUFFICES ASSUME Init PROVE IndInv
  OBVIOUS
<1> USE DEF Init
<1>1. TaskType
  <2>1. summary.cycle = 0 /\ summary.passed = NoGrades /\ Len(stages) = 0
    BY Summary
  <2>2. /\ cycle \in 1..(MaxCycles + 1) /\ crashes \in 0..MaxCrashes
        /\ summary.cycle \in 0..MaxCycles /\ Len(stages) <= Len(Stages)
    BY <2>1, StageNames, BudgetAssumption
  <2>3. DOMAIN summary.passed \subseteq Range(Stages)
    BY <2>1, NoGradesType
  <2> QED BY <2>2, <2>3 DEF TaskType, Alive
<1>2. StageInv
  BY BudgetAssumption DEF StageInv
<1>3. SummaryInv
  BY NoGradesType, Summary DEF SummaryInv
<1>4. OpenInv /\ AcceptedFixupCovers /\ PlanPartitionsEvidence
  BY DocumentAssumption DEF OpenInv, AcceptedFixupCovers, PlanPartitionsEvidence, Documents
<1>5. CallType
  <2>1. UsedType
    BY BudgetAssumption DEF UsedType, NoRetries
  <2> QED BY <2>1, RowType, RefusedType, ChainType, Naps DEF CallType
<1>6. CallInv
  BY NoRetriesType DEF CallInv
<1>7. QuotaWalksWholeChain /\ InFlightRowIsLive
  BY DEF QuotaWalksWholeChain, InFlightRowIsLive
<1>8. RoleInv
  BY DEF RoleInv, Auditors, Quality
<1> QED BY <1>1, <1>2, <1>3, <1>4, <1>5, <1>6, <1>7, <1>8 DEF IndInv, TaskInv, CallPart

LEMMA TransportKeeps ==
  ASSUME IndInv, Transport
  PROVE  IndInv'
<1> USE DEF IndInv
<1>1. CASE InvokeRaises
  <2>1. TaskInv'
    BY <1>1, PhaseKeeps DEF InvokeRaises
  <2>2. CallPart'
    BY <1>1, CutOffKeeps DEF InvokeRaises
  <2>3. RoleInv'
    BY <1>1, RoleEnds DEF InvokeRaises, CutOff, RoleInv
  <2> QED BY <2>1, <2>2, <2>3
<1>2. CASE ~InvokeRaises
  <2>1. UNCHANGED task /\ role' = role /\ pc # "idle" /\ pc' # "idle"
    BY <1>2 DEF Transport, ExecTimesOut, ExecContainerLost, ExecQuota, ExecRefused, ExecAnswers,
                AuthRace, AuthRaceLasts, AuthWakes, FallBack, Reprompt, InvokeReturns, Ended
  <2>2. CallPart'
    BY <1>2, ExecKeeps, SleepKeeps, WalkKeeps DEF Transport
  <2> QED BY <2>1, <2>2, UnchangedTask, RoleStays
<1> QED BY <1>1, <1>2

(* The drivers' retries: the task waits.                                   *)
LEMMA RetriesKeep ==
  ASSUME IndInv, role \in Roles, pc = "result", UNCHANGED task, NEW kind, Again(kind), CallPart'
  PROVE  IndInv'
<1>1. role' = role /\ pc' = "exec"
  BY DEF Again, Invoke
<1> QED BY <1>1, UnchangedTask, RoleStays DEF IndInv

LEMMA PlannerSteps ==
  ASSUME IndInv,
         \/ StartPlanner \/ PlannerTransientFailure \/ PlannerFails \/ PlannerParseFailure
         \/ PlannerInvalid \/ PlannerAccepts
  PROVE  IndInv'
<1> USE DEF IndInv, Roles
<1>1. CASE StartPlanner
  <2>1. TaskInv' /\ CallPart'
    BY <1>1, PlannerKeeps, BeginKeeps DEF StartPlanner, Idle
  <2>2. RoleInv'
    BY <1>1 DEF RoleInv, StartPlanner, Begin, Invoke, Auditors, Quality
  <2> QED BY <2>1, <2>2
<1>2. CASE PlannerAccepts
  <2>1. TaskInv' /\ CallPart'
    BY <1>2, PlannerKeeps, FinishKeeps DEF PlannerAccepts
  <2>2. RoleInv'
    BY <1>2, RoleEnds DEF PlannerAccepts, Finish
  <2> QED BY <2>1, <2>2
<1>3. ASSUME NEW end \in {"blocked", "failed"}, PlannerStops(end) PROVE IndInv'
  <2>1. TaskInv' /\ CallPart'
    BY <1>3, PhaseKeeps, FinishKeeps DEF PlannerStops
  <2>2. RoleInv'
    BY <1>3, RoleEnds DEF PlannerStops, Finish
  <2> QED BY <2>1, <2>2
<1>4. ASSUME NEW kind \in {"transient", "parse", "valid"}, NEW budget, Result("planner"),
             PlannerRetries(kind, budget),
             kind = "transient" => budget = PlannerTransient,
             kind = "parse" => budget = PlannerParse,
             kind = "valid" => budget = PlannerValidator
      PROVE  IndInv'
  <2>1. CallPart'
    BY <1>4, AgainKeeps DEF PlannerRetries, Result
  <2> QED BY <1>4, <2>1, RetriesKeep DEF PlannerRetries, Result
<1>5. CASE PlannerTransientFailure
  BY <1>3, <1>4, <1>5 DEF PlannerTransientFailure
<1>6. CASE PlannerParseFailure
  BY <1>3, <1>4, <1>6 DEF PlannerParseFailure
<1>7. CASE PlannerInvalid
  BY <1>3, <1>4, <1>7 DEF PlannerInvalid
<1>8. CASE PlannerFails
  BY <1>3, <1>8 DEF PlannerFails
<1> QED BY <1>1, <1>2, <1>5, <1>6, <1>7, <1>8

LEMMA BuildSteps ==
  ASSUME IndInv, StartDoer \/ DoerReturns \/ StartProgress \/ ProgressReturns
  PROVE  IndInv'
<1> USE DEF IndInv, Roles
<1>1. UNCHANGED task
  BY DEF StartDoer, DoerReturns, StartProgress, ProgressReturns
<1>2. CASE StartDoer \/ StartProgress
  <2>1. CallPart'
    BY <1>2, BeginKeeps DEF StartDoer, StartProgress, Idle
  <2>2. RoleInv'
    BY <1>1, <1>2 DEF RoleInv, StartDoer, StartProgress, Begin, Invoke, Auditors, Quality, task
  <2> QED BY <1>1, <2>1, <2>2, UnchangedTask
<1>3. CASE DoerReturns \/ ProgressReturns
  <2>1. CallPart'
    BY <1>3, FinishKeeps DEF DoerReturns, ProgressReturns
  <2>2. RoleInv'
    BY <1>1, <1>3, RoleEnds DEF RoleInv, DoerReturns, ProgressReturns, Finish, task
  <2> QED BY <1>1, <2>1, <2>2, UnchangedTask
<1> QED BY <1>2, <1>3

LEMMA StageSteps ==
  ASSUME IndInv,
         \/ StageReused \/ StageLocalCi \/ StageCannotRun \/ StageSkipped \/ StartStage
         \/ AuditRetries \/ AuditFails \/ AuditGrades
  PROVE  IndInv'
<1> USE DEF IndInv
<1>1. CASE StageReused \/ StageLocalCi \/ StageCannotRun \/ StageSkipped
  <2>1. UNCHANGED <<call, row, cut, lost>> /\ pc = "idle" /\ UNCHANGED <<phase, accepted>>
    BY <1>1 DEF StageReused, StageLocalCi, StageCannotRun, StageSkipped, StageDue, StageReady,
                Idle, StageEnds
  <2>2. RoleInv'
    BY <2>1, RoleEnds DEF RoleInv, call
  <2> QED BY <1>1, <2>1, <2>2, NoCallKeeps, StageKeeps, StageReusedKeeps
<1>2. CASE AuditFails \/ AuditGrades
  <2>1. TaskInv' /\ CallPart'
    BY <1>2, StageKeeps, FinishKeeps DEF AuditFails, AuditGrades
  <2>2. RoleInv'
    BY <1>2, RoleEnds DEF RoleInv, AuditFails, AuditGrades, Finish, StageEnds
  <2> QED BY <2>1, <2>2
<1>3. CASE StartStage
  <2>1. phase = "audit" /\ Idle /\ Len(stages) < 5
    BY <1>3, StageNames DEF StartStage, StageDue, StageReady
  <2>2. Len(stages) + 1 \in 2..5
    BY <1>3, <2>1, StageNames DEF StartStage, NextStage, TaskInv, StageInv
  <2>3. NextStage \in Auditors
    BY <2>2, StageNames DEF NextStage
  <2>4. UNCHANGED task /\ role' = NextStage /\ pc' = "exec" /\ UNCHANGED <<stages, expected>>
    BY <1>3 DEF StartStage, Begin, Invoke, task, audit
  <2>5. RoleInv'
    BY <1>3, <2>1, <2>3, <2>4 DEF RoleInv, StartStage, task, Auditors, Quality, NextStage
  <2>6. CallPart'
    BY <1>3, <2>1, <2>3, BeginKeeps DEF StartStage, Idle, Roles
  <2> QED BY <2>4, <2>5, <2>6, UnchangedTask
<1>4. CASE AuditRetries
  <2>1. role \in Auditors /\ role # "fixup" /\ role # "planner" /\ pc = "result"
    BY <1>4 DEF AuditRetries, Auditing, Auditors, Quality
  <2>2. CallPart'
    BY <1>4, <2>1, AgainKeeps DEF AuditRetries, Roles
  <2> QED BY <1>4, <2>1, <2>2, RetriesKeep DEF AuditRetries, Roles
<1> QED BY <1>1, <1>2, <1>3, <1>4

LEMMA CycleSteps ==
  ASSUME IndInv,
         \/ StartCycle \/ CyclesExhausted
         \/ SettlePassed \/ SettleDeferred \/ SettleStructural \/ SettleFixup
  PROVE  IndInv'
<1> USE DEF IndInv
<1>1. UNCHANGED <<call, row, cut, lost>> /\ pc = "idle"
  BY DEF StartCycle, CyclesExhausted, SettlePassed, SettleDeferred, SettleStructural,
         SettleFixup, NoCall, CycleOver, Idle
<1>2. RoleInv'
  <2>1. phase' \in {"plan", "audit", "fixup", "down"} => accepted' = "none"
    BY DEF StartCycle, CyclesExhausted, SettlePassed, SettleDeferred, SettleStructural,
           SettleFixup, CycleOver, RoleInv
  <2> QED BY <1>1, <2>1, RoleEnds DEF RoleInv, call
<1>3. TaskInv'
  <2>1. CASE CyclesExhausted
    BY <2>1, PhaseKeeps DEF CyclesExhausted
  <2> QED BY <2>1, StartCycleKeeps, SettleKeeps
<1> QED BY <1>1, <1>2, <1>3, NoCallKeeps

LEMMA FixupSteps ==
  ASSUME IndInv,
         \/ StartFixup \/ FixupTransientRetry \/ FixupOutputRetry \/ FixupBlocks \/ FixupAccepts
  PROVE  IndInv'
<1> USE DEF IndInv, Roles
<1>1. CASE StartFixup
  <2>1. TaskInv' /\ CallPart'
    BY <1>1, FixupKeeps, BeginKeeps DEF StartFixup, Idle
  <2>2. RoleInv'
    BY <1>1 DEF RoleInv, StartFixup, Begin, Invoke, Auditors, Quality
  <2> QED BY <2>1, <2>2
<1>2. CASE FixupAccepts
  <2>1. TaskInv' /\ CallPart'
    BY <1>2, FixupKeeps, FinishKeeps DEF FixupAccepts
  <2>2. RoleInv'
    BY <1>2, RoleEnds DEF FixupAccepts, Finish
  <2> QED BY <2>1, <2>2
<1>3. CASE FixupBlocks
  <2>1. TaskInv' /\ CallPart'
    BY <1>3, PhaseKeeps, FinishKeeps DEF FixupBlocks
  <2>2. RoleInv'
    BY <1>3, RoleEnds DEF FixupBlocks, Finish
  <2> QED BY <2>1, <2>2
<1>4. CASE FixupTransientRetry
  <2>1. CallPart'
    BY <1>4, AgainKeeps DEF FixupTransientRetry, Result
  <2> QED BY <1>4, <2>1, RetriesKeep DEF FixupTransientRetry, Result
<1>5. CASE FixupOutputRetry
  <2>1. CallPart'
    BY <1>5, AgainKeeps DEF FixupOutputRetry, Result
  <2> QED BY <1>5, <2>1, RetriesKeep DEF FixupOutputRetry, Result
<1> QED BY <1>1, <1>2, <1>3, <1>4, <1>5

LEMMA DeathSteps ==
  ASSUME IndInv, Crash \/ Restart
  PROVE  IndInv'
<1> USE DEF IndInv
<1>1. TaskInv'
  BY DeathKeeps
<1>2. CASE Crash
  BY <1>1, <1>2, CutOffKeeps, RoleEnds DEF Crash, CutOff
<1>3. CASE Restart
  <2>1. RoleInv'
    BY <1>3 DEF RoleInv, Restart, call, Auditors, Quality
  <2> QED BY <1>1, <1>3, <2>1, NoCallKeeps DEF Restart
<1> QED BY <1>2, <1>3

LEMMA StepHolds == IndInv /\ [Next]_vars => IndInv'
<1> SUFFICES ASSUME IndInv, [Next]_vars PROVE IndInv'
  OBVIOUS
<1>1. CASE Transport
  BY <1>1, TransportKeeps
<1>2. CASE Drivers
  BY <1>2, PlannerSteps, BuildSteps, StageSteps, CycleSteps, FixupSteps DEF Drivers
<1>3. CASE Crash \/ Restart
  BY <1>3, DeathSteps
<1>4. CASE UNCHANGED vars
  <2>1. UNCHANGED task /\ UNCHANGED <<call, row, cut, lost>>
    BY <1>4 DEF vars
  <2>2. RoleInv'
    BY <2>1 DEF IndInv, RoleInv, task, audit, call, NextStage
  <2> QED BY <2>1, <2>2, UnchangedTask, NoCallKeeps DEF IndInv
<1> QED BY <1>1, <1>2, <1>3, <1>4 DEF Next

LEMMA Invariance == Spec => []IndInv
  BY InitHolds, StepHolds, PTL DEF Spec

-----------------------------------------------------------------------------
(* A failed stage that graded carries the number of critical findings its  *)
(* document lists.                                                         *)
LEMMA GradedCriticals ==
  ASSUME NEW i \in {3, 4}, NEW o \in Outcomes(i), ~o.passed, ~o.structural
  PROVE  o.critical = SeverityCount(Grades[Stages[i]][o.doc], "critical")
<1>1. \E d \in DOMAIN Grades[Stages[i]] : o = Graded(Stages[i], d)
  <2>1. Structural(Stages[i]).structural
    BY DEF Structural
  <2>2. o # Structural(Stages[i])
    BY <2>1
  <2>3. \A d \in Docs(i) : o # Pass(d)
    BY DEF Pass, Outcome
  <2>4. i # 1
    OBVIOUS
  <2>5. Outcomes(i) = {Structural(Stages[i])} \cup {Pass(d) : d \in Docs(i)}
                      \cup {Graded(Stages[i], d) : d \in DOMAIN Grades[Stages[i]]}
    BY <2>4, Zenon DEF Outcomes
  <2> QED BY <2>2, <2>3, <2>5
<1>2. PICK d \in DOMAIN Grades[Stages[i]] : o = Graded(Stages[i], d)
  BY <1>1
<1>3. Stages[i] \notin {"rubric", "behavior"}
  BY StageNames
<1>4. StageOutcome(Stages[i], Grades[Stages[i]][d])
        = StandardsOutcome(Stages[i], Grades[Stages[i]][d])
  BY <1>3 DEF StageOutcome
<1>5. o.doc = d /\ o.critical = SeverityCount(Grades[Stages[i]][d], "critical")
  BY <1>2, <1>4 DEF Graded, StandardsOutcome, Outcome
<1> QED BY <1>5

LEMMA OpensOnGrades == IndInv => PrOpensOnGrades
<1> SUFFICES ASSUME IndInv, phase \in {"passed", "deferred"}
             PROVE  /\ Len(stages) = Len(Stages) /\ stages[1].passed /\ stages[5].passed
                    /\ \A i \in 2..5 : \/ stages[i].doc \in DOMAIN Grades[Stages[i]]
                                       \/ i = 5 /\ expected = {}
                    /\ LET deferred(i) ==
                             IF stages[i].passed THEN 0
                             ELSE SeverityCount(Grades[Stages[i]][stages[i].doc], "critical")
                       IN  deferred(3) + deferred(4) <= MaxDeferred
  BY DEF PrOpensOnGrades
<1>1. StageInv /\ Len(stages) = 5 /\ DOMAIN stages = 1..5
  BY DEF IndInv, TaskInv, OpenInv, StageInv
<1>2. \A i \in 1..5 : stages[i] \in Outcomes(i)
  BY <1>1 DEF StageInv
<1>3. \A i \in 1..5 : ~stages[i].passed =>
        phase = "deferred" /\ Stages[i] \in Quality /\ ~stages[i].structural
  BY <1>1 DEF IndInv, TaskInv, OpenInv, FailedStages, ReleaseValveOpens
<1>4. stages[1].passed /\ stages[5].passed
  BY <1>3, StageNames DEF Quality
<1>5. ASSUME NEW i \in 2..5
      PROVE  stages[i].doc \in DOMAIN Grades[Stages[i]] \/ (i = 5 /\ expected = {})
  <2>1. i \in 1..5 /\ i # 1 /\ stages[i] \in Outcomes(i)
    BY <1>2
  <2>2. stages[i].doc \in Docs(i)
    BY <1>3, <2>1, OutcomeFacts
  <2> QED BY <2>1, <2>2 DEF Docs
<1>6. LET deferred(i) ==
            IF stages[i].passed THEN 0
            ELSE SeverityCount(Grades[Stages[i]][stages[i].doc], "critical")
      IN  deferred(3) + deferred(4) <= MaxDeferred
  <2> DEFINE deferred(i) ==
               IF stages[i].passed THEN 0
               ELSE SeverityCount(Grades[Stages[i]][stages[i].doc], "critical")
  <2>1. CASE phase = "passed"
    <3>1. deferred(3) = 0 /\ deferred(4) = 0
      BY <1>3, <2>1
    <3>2. MaxDeferred \in Nat
      BY BudgetAssumption
    <3> HIDE DEF deferred
    <3>3. deferred(3) + deferred(4) <= MaxDeferred
      BY <3>1, <3>2
    <3> QED BY <3>3 DEF deferred
  <2>2. CASE phase = "deferred"
    <3> DEFINE count(i) == IF stages[i].passed THEN 0 ELSE stages[i].critical
    <3>1. count(2) + count(3) + count(4) <= MaxDeferred
      BY <2>2 DEF IndInv, TaskInv, OpenInv, ReleaseValveOpens, CriticalCount
    <3>2. count(2) \in Nat /\ count(3) \in Nat /\ count(4) \in Nat
      BY <1>2, OutcomeFacts
    <3>3. ASSUME NEW i \in {3, 4} PROVE deferred(i) = count(i)
      BY <1>2, <1>3, GradedCriticals
    <3>4. MaxDeferred \in Nat
      BY BudgetAssumption
    <3> HIDE DEF count, deferred
    <3>5. deferred(3) + deferred(4) <= MaxDeferred
      BY <3>1, <3>2, <3>3, <3>4
    <3> QED BY <3>5 DEF deferred
  <2> QED BY <2>1, <2>2
<1> QED BY <1>1, <1>4, <1>5, <1>6, StageNames

(* json_protocol and the drivers: types, which includes that no driver     *)
(* spends more retries than its budget, and that the auth sleeps exceed    *)
(* their cap by less than one sleep, for every configuration.              *)
THEOREM CallTypes == Spec => []TypeOK
<1>1. IndInv => TypeOK
  BY TypeHalves DEF IndInv, TaskInv, CallPart
<1> QED BY <1>1, Invariance, PTL

(* json_fallback: a call reports quota_exhausted only after the last       *)
(* provider of the chain, however long the chain and whatever the          *)
(* providers before it answered.                                           *)
THEOREM QuotaIsChainWide == Spec => []QuotaWalksWholeChain
<1>1. IndInv => QuotaWalksWholeChain
  BY DEF IndInv, CallPart
<1> QED BY <1>1, Invariance, PTL

(* planner_driver: an accepted plan lists every expected evidence id once  *)
(* and has no dependency loop, for every document the planner may write.   *)
THEOREM AcceptedPlanPartitions == Spec => []PlanPartitionsEvidence
<1>1. IndInv => PlanPartitionsEvidence
  BY DEF IndInv, TaskInv
<1> QED BY <1>1, Invariance, PTL

(* pre_pr: a pull request is opened only on graded stages, and with no     *)
(* more critical findings than the release valve may defer, through every  *)
(* crash, resumed summary and fixup round.                                 *)
THEOREM GradedPr == Spec => []PrOpensOnGrades
  BY OpensOnGrades, Invariance, PTL

(* fixup_coverage: an accepted fixup plan leaves no finding to the round's *)
(* own coverage check, and the fixup planner never sees a structural one.  *)
THEOREM AcceptedFixup == Spec => []AcceptedFixupCovers
<1>1. IndInv => AcceptedFixupCovers
  BY DEF IndInv, TaskInv
<1> QED BY <1>1, Invariance, PTL

(* store_tasks: a row in flight belongs to the running call unless that    *)
(* call was cut off, and its status follows the call's sleeps.             *)
THEOREM RowInFlight == Spec => []InFlightRowIsLive
<1>1. IndInv => InFlightRowIsLive
  BY DEF IndInv, CallPart
<1> QED BY <1>1, Invariance, PTL
=============================================================================
