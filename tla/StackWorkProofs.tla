---------------------------- MODULE StackWorkProofs ----------------------------
(***************************************************************************)
(* Theorems about what the branches of a stack contain: with settled       *)
(* parents a merge-node that is ready holds work of its sources, and a     *)
(* task's new branch holds work of the tasks it depends on.                *)
(***************************************************************************)
EXTENDS StackingProofs

-----------------------------------------------------------------------------
(* The inductive invariant.                                                *)

Below(n, d) == \A x \in n : x < d

(* Work spreads upwards: a branch of lower tasks has commits of a higher   *)
(* task only after those reached the base branch.  So what a rebase leaves *)
(* behind with the parent is never the task's own work.                    *)
OriginInv ==
  /\ \A t \in Specs : Below(par[t], t)
  /\ Within(track, main)
  /\ \A n \in Nodes : \A g \in Gens : \A d \in Specs :
       Below(n, d) /\ cont[n][g][d] > 0 => main[d] > 0

(* The first branch of s exists, or did, and has commits of s.             *)
Fed(s) == cont[Spec1(s)][0][s] > 0 /\ (Spec1(s) \in wt \/ gen[Spec1(s)] > 0)

(* A task past its subtasks that kept its branch has work on it.           *)
FedInv == \A t \in Specs : (pr[t] # "none" \/ st[t] = "audit") /\ gen[Spec1(t)] = 0 => Fed(t)

(* A merge-node lists sources with work, and once integrated has it.       *)
Integrates(m) ==
  /\ mst[m] # "none" => \A s \in msrc[m] : mbr[m][s] = 0 => Fed(s)
  /\ mst[m] \in {"audit", "ready"} =>
       m \in wt /\ \A s \in msrc[m] : mbr[m][s] = 0 => cont[m][0][s] > 0

(* The branch that t will fork off has work of d.                          *)
Holds(t, d) ==
  /\ pbr[t] = 0
  /\ \/ par[t] = Spec1(d) /\ Fed(d)
     \/ par[t] \in MergeNodes /\ d \in par[t] /\ mst[par[t]] # "none" /\ cont[par[t]][0][d] > 0

(* A task picked and not provisioned yet.                                  *)
Picked(t) == job[Spec1(t)] = "task" /\ st[t] \in {"pending", "prov"}

LinkInv(t) == Picked(t) => \A d \in Deps[t] : Gone(d) \/ gen[Spec1(d)] > 0 \/ Holds(t, d)

SettledInv == (\A m \in MergeNodes : Integrates(m)) /\ \A t \in Specs : LinkInv(t)

WorkInv == OriginInv /\ FedInv /\ (Settled => SettledInv)

-----------------------------------------------------------------------------
(* What a branch is given is grounded: work of a task above it comes from  *)
(* the base branch.                                                        *)

Grounded(n, c) == \A d \in Specs : Below(n, d) /\ c[d] > 0 => main[d] > 0

LEMMA JoinFacts ==
  ASSUME NEW a \in Contents, NEW b \in Contents, NEW d \in Specs
  PROVE  /\ Join(a, b)[d] \in {a[d], b[d]} /\ a[d] <= Join(a, b)[d] /\ b[d] <= Join(a, b)[d]
         /\ a[d] > 0 \/ b[d] > 0 => Join(a, b)[d] > 0
<1>1. a[d] \in Nat /\ b[d] \in Nat
  BY ContentFacts
<1> QED BY <1>1 DEF Join

LEMMA TipsAreGrounded ==
  ASSUME IndInv, OriginInv
  PROVE  /\ \A n \in Nodes : Grounded(n, Tip(n))
         /\ \A t \in Specs : par[t] # {} => Grounded(Spec1(t), ParentTip(t)) /\ ~(ParentTip(t)[t] > 0 /\ main[t] = 0)
         /\ \A m \in MergeNodes : \A s \in msrc[m] : Grounded(m, SourceTip(m, s))
<1>0. TypeOK /\ \A n \in Nodes : \A g \in Gens : Grounded(n, cont[n][g])
  BY DEF IndInv, OriginInv, Grounded
<1>1. \A n \in Nodes : Grounded(n, Tip(n))
  BY <1>0, TipTypes DEF Tip
<1>2. ASSUME NEW t \in Specs, par[t] # {}
      PROVE  Grounded(Spec1(t), ParentTip(t)) /\ ~(ParentTip(t)[t] > 0 /\ main[t] = 0)
  <2>1. par[t] \in Nodes /\ pbr[t] \in Gens /\ par[t] \subseteq Specs /\ Below(par[t], t)
    BY <1>0, <1>2 DEF TypeOK, OriginInv, Nodes, SpecNodes, MergeNodes, Spec1
  <2>2. \A d \in Specs : Below(Spec1(t), d) => Below(par[t], d)
    BY <2>1, SpecsAreNumbers DEF Below, Spec1
  <2>3. Grounded(par[t], ParentTip(t))
    BY <1>0, <2>1 DEF ParentTip
  <2> QED BY <2>1, <2>2, <2>3 DEF Grounded
<1>3. ASSUME NEW m \in MergeNodes, NEW s \in msrc[m] PROVE Grounded(m, SourceTip(m, s))
  <2>1. s \in m /\ s \in Specs /\ Spec1(s) \in Nodes /\ mbr[m][s] \in Gens
    BY <1>0, NodeFacts DEF IndInv, SourcesInv, TypeOK
  <2>2. \A d \in Specs : Below(m, d) => Below(Spec1(s), d)
    BY <2>1 DEF Below, Spec1
  <2>3. Grounded(Spec1(s), SourceTip(m, s))
    BY <1>0, <2>1 DEF SourceTip
  <2> QED BY <2>2, <2>3 DEF Grounded
<1> QED BY <1>1, <1>2, <1>3

LEMMA BasesAreGrounded ==
  ASSUME IndInv, OriginInv, NEW n
  PROVE  Grounded(n, main) /\ Grounded(n, track)
<1>1. main \in Contents /\ track \in Contents /\ Within(track, main)
  BY DEF IndInv, TypeOK, OriginInv
<1>2. \A d \in Specs : main[d] \in Nat /\ track[d] \in Nat /\ track[d] <= main[d]
  BY <1>1, ContentFacts DEF Within
<1> QED BY <1>2 DEF Grounded

LEMMA JoinIsGrounded ==
  ASSUME NEW n, NEW a \in Contents, NEW b \in Contents, Grounded(n, a), Grounded(n, b)
  PROVE  Grounded(n, Join(a, b))
  BY JoinFacts DEF Grounded

(* A rebase keeps the task's own work, on the branch or on the base.       *)
LEMMA OntoIsGrounded ==
  ASSUME IndInv, OriginInv, NEW t \in Specs
  PROVE  /\ Grounded(Spec1(t), OntoMain(t)) /\ (Tip(Spec1(t))[t] > 0 => OntoMain(t)[t] > 0)
         /\ par[t] # {} => /\ Grounded(Spec1(t), OntoParent(t))
                           /\ Tip(Spec1(t))[t] > 0 => OntoParent(t)[t] > 0
         /\ Grounded(Spec1(t), ForkedContent(t))
<1>0. /\ TypeOK /\ main \in Contents /\ Spec1(t) \in Nodes
      /\ Tip(Spec1(t)) \in Contents /\ (par[t] # {} => ParentTip(t) \in Contents)
  BY NodeFacts, TipTypes DEF IndInv, TypeOK
<1> DEFINE own == Tip(Spec1(t))
           old == IF par[t] = {} THEN Nothing ELSE ParentTip(t)
           left == [d \in Specs |-> IF own[d] > old[d] THEN own[d] ELSE 0]
<1>1. OntoMain(t) = Join(main, left)
  BY DEF OntoMain
<1>2. own \in Contents /\ old \in Contents /\ Grounded(Spec1(t), own)
  BY <1>0, NothingType, TipsAreGrounded
<1>3. old[t] > 0 => main[t] > 0
  <2>1. CASE par[t] = {}
    BY <2>1 DEF Nothing
  <2>2. CASE par[t] # {}
    <3>1. main[t] \in Nat
      BY <1>0, ContentFacts
    <3> QED BY <2>2, <3>1, TipsAreGrounded
  <2> QED BY <2>1, <2>2
<1> HIDE DEF own, old
<1>4. \A d \in Specs : own[d] \in Nat /\ old[d] \in Nat /\ own[d] \in 0..MostCommits /\ 0 \in 0..MostCommits
  BY <1>2, ContentFacts, ContentBound
<1>5. left \in Contents
  <2>1. \A d \in Specs : (IF own[d] > old[d] THEN own[d] ELSE 0) \in 0..MostCommits
    BY <1>4
  <2> QED BY <2>1, ContentFacts
<1>6. Grounded(Spec1(t), left)
  BY <1>2, <1>4 DEF Grounded
<1>7. own[t] > 0 => left[t] > 0 \/ main[t] > 0
  BY <1>3, <1>4
<1> HIDE DEF left
<1>8. Grounded(Spec1(t), OntoMain(t)) /\ (own[t] > 0 => OntoMain(t)[t] > 0)
  BY <1>0, <1>1, <1>5, <1>6, <1>7, BasesAreGrounded, JoinIsGrounded, JoinFacts
<1>9. par[t] # {} => Grounded(Spec1(t), OntoParent(t)) /\ (own[t] > 0 => OntoParent(t)[t] > 0)
  BY <1>0, <1>2, TipsAreGrounded, JoinIsGrounded, JoinFacts DEF OntoParent, own
<1>10. Grounded(Spec1(t), ForkedContent(t))
  BY BasesAreGrounded, TipsAreGrounded DEF ForkedContent
<1> QED BY <1>8, <1>9, <1>10 DEF own

LEMMA OntoFirstIsGrounded ==
  ASSUME IndInv, OriginInv, NEW n \in Nodes, ParentsOf(n) # {}
  PROVE  /\ OntoFirstParent(n) \in Contents /\ Grounded(n, OntoFirstParent(n))
         /\ \A d \in Specs : Tip(n)[d] > 0 => OntoFirstParent(n)[d] > 0
<1>0. TypeOK /\ Tip(n) \in Contents /\ Grounded(n, Tip(n))
  BY TipTypes, TipsAreGrounded DEF IndInv
<1>1. ASSUME NEW a \in Contents, Grounded(n, a)
      PROVE  /\ Join(a, Tip(n)) \in Contents /\ Grounded(n, Join(a, Tip(n)))
             /\ \A d \in Specs : Tip(n)[d] > 0 => Join(a, Tip(n))[d] > 0
  <2>1. Join(a, Tip(n)) \in Contents /\ Grounded(n, Join(a, Tip(n)))
    BY <1>0, <1>1, JoinType, JoinIsGrounded
  <2>2. \A d \in Specs : Tip(n)[d] > 0 => Join(a, Tip(n))[d] > 0
    BY <1>0, JoinFacts
  <2> QED BY <2>1, <2>2
<1>2. CASE n \in MergeNodes
  <2> DEFINE s == Min(msrc[n])
  <2>1. s \in msrc[n] /\ s \in Specs
    BY <1>0, <1>2, FirstParentType
  <2>2. SourceTip(n, s) \in Contents /\ Grounded(n, SourceTip(n, s))
    BY <1>0, <1>2, <2>1, TipTypes, TipsAreGrounded
  <2>3. OntoFirstParent(n) = Join(SourceTip(n, s), Tip(n))
    BY <1>2 DEF OntoFirstParent
  <2> HIDE DEF s
  <2> QED BY <1>0, <1>1, <2>2, <2>3
<1>3. CASE n \notin MergeNodes
  <2>1. PICK t \in Specs : n = Spec1(t) /\ par[t] # {} /\ OntoFirstParent(n) = Join(ParentTip(t), Tip(n))
    BY <1>0, <1>3, FirstParentType
  <2>2. ParentTip(t) \in Contents /\ Grounded(n, ParentTip(t))
    BY <1>0, <2>1, TipTypes, TipsAreGrounded
  <2> QED BY <1>0, <1>1, <2>1, <2>2
<1> QED BY <1>2, <1>3

LEMMA IntegratedIsGrounded ==
  ASSUME IndInv, OriginInv, NEW m \in MergeNodes
  PROVE  Grounded(m, Integrated(m, FetchedBase(m)))
<1> DEFINE base == FetchedBase(m)
<1>1. TypeOK /\ base \in Contents /\ Grounded(m, base)
  BY BasesAreGrounded DEF FetchedBase, IndInv, TypeOK
<1>2. \A s \in msrc[m] : Grounded(m, SourceTip(m, s))
  BY TipsAreGrounded
<1> HIDE DEF base
<1>3. \A d \in Specs : \/ Integrated(m, base)[d] = base[d]
                       \/ \E s \in msrc[m] : Integrated(m, base)[d] = SourceTip(m, s)[d]
  BY <1>1, IntegratedType
<1>4. Grounded(m, Integrated(m, base))
  BY <1>1, <1>2, <1>3 DEF Grounded
<1> QED BY <1>4 DEF base

-----------------------------------------------------------------------------
(* What a step may do, whichever it is.                                    *)

(* The branch of one node is written, and keeps the node's own work.       *)
Wrote(n, c) ==
  /\ cont' = [cont EXCEPT ![n][gen[n]] = c]
  /\ wt \subseteq wt' /\ UNCHANGED <<gen, main>> /\ track' \in {track, main}
  /\ Grounded(n, c)
  /\ \A t \in Specs : n = Spec1(t) /\ n \in wt /\ Tip(n)[t] > 0 => c[t] > 0

GitStep ==
  \/ /\ UNCHANGED <<cont, gen>> /\ wt \subseteq wt'
     /\ track' \in {track, main} /\ Within(main, main')
  \/ \E n \in Nodes : \E c \in Contents : Wrote(n, c)
  \/ Restart

RowStep(s) ==
  /\ pr'[s] # "none" => pr[s] # "none" \/ st[s] = "audit"
  /\ st'[s] = "audit" => \/ st[s] = "audit" \/ pr[s] # "none"
                         \/ Spec1(s) \in wt /\ Tip(Spec1(s))[s] > 0
  /\ Gone(s) => Gone(s)'
  /\ par'[s] \in {par[s], {}}
  /\ Picked(s)' => /\ Picked(s) /\ pbr'[s] = pbr[s]
                   /\ par'[s] = par[s] \/ \E p \in Specs : par[s] = Spec1(p) /\ Gone(p)'

MergeStep(m) ==
  /\ msrc'[m] \subseteq msrc[m] /\ mbr'[m] = mbr[m]
  /\ mst'[m] = "none" <=> mst[m] = "none"
  /\ mst'[m] \in {"audit", "ready"} => mst[m] \in {"audit", "ready"} /\ (m \in wt => m \in wt')
  /\ \A d \in Specs : cont[m][0][d] > 0 => cont'[m][0][d] > 0

Effects == GitStep /\ (\A s \in Specs : RowStep(s)) /\ \A m \in MergeNodes : MergeStep(m)

LEMMA MainStays == ASSUME TypeOK PROVE Within(main, main)
<1>1. \A d \in Specs : main[d] \in Nat
  BY ContentFacts DEF TypeOK
<1> QED BY <1>1 DEF Within

(* Rows move, or windows, and no branch does.                              *)
LEMMA RowsMove ==
  ASSUME IndInv, UNCHANGED <<msrc, mbr, cont, wt, gen, main>>, track' \in {track, main},
         \A m \in MergeNodes : /\ mst'[m] = "none" <=> mst[m] = "none"
                               /\ mst'[m] \in {"audit", "ready"} => mst[m] \in {"audit", "ready"},
         \A s \in Specs : RowStep(s)
  PROVE  Effects
<1>1. GitStep
  BY MainStays DEF GitStep, IndInv
<1>2. \A m \in MergeNodes : MergeStep(m)
  BY DEF MergeStep
<1> QED BY <1>1, <1>2 DEF Effects

(* One task moves, and no branch does.                                     *)
LEMMA TaskOnly ==
  ASSUME IndInv, NEW t \in Specs, UNCHANGED <<mst, msrc, mbr, cont, wt, gen, main>>,
         track' \in {track, main}, RowStep(t),
         \A s \in Specs \ {t} : /\ st'[s] = st[s] /\ pr'[s] = pr[s]
                                /\ par'[s] = par[s] /\ pbr'[s] = pbr[s],
         \A k \in Nodes \ {Spec1(t)} : job'[k] = job[k]
  PROVE  Effects
<1>1. \A s \in Specs \ {t} : job'[Spec1(s)] = job[Spec1(s)]
  BY NodeFacts
<1>2. \A s \in Specs \ {t} : RowStep(s)
  BY <1>1 DEF RowStep, Picked, Gone
<1>3. \A s \in Specs : RowStep(s)
  BY <1>2
<1> QED BY <1>3, RowsMove

(* The branch of one task is written.                                      *)
LEMMA TaskWrites ==
  ASSUME IndInv, NEW t \in Specs, UNCHANGED <<mst, msrc, mbr>>, NEW c \in Contents,
         Wrote(Spec1(t), c), RowStep(t),
         \A s \in Specs \ {t} : /\ st'[s] = st[s] /\ pr'[s] = pr[s]
                                /\ par'[s] = par[s] /\ pbr'[s] = pbr[s],
         \A k \in Nodes \ {Spec1(t)} : job'[k] = job[k]
  PROVE  Effects
<1>1. \A s \in Specs \ {t} : job'[Spec1(s)] = job[Spec1(s)]
  BY NodeFacts
<1>2. \A s \in Specs \ {t} : RowStep(s)
  BY <1>1 DEF RowStep, Picked, Gone
<1>3. GitStep
  BY NodeFacts DEF GitStep
<1>4. ASSUME NEW m \in MergeNodes PROVE MergeStep(m)
  <2>1. m \in Nodes /\ m # Spec1(t) /\ Spec1(t) \in Nodes /\ 0 \in Gens
    BY NodeFacts, GensAreNatural
  <2>2. cont'[m][0] = cont[m][0]
    BY <2>1, BranchWritten DEF Wrote, IndInv
  <2> QED BY <2>2 DEF MergeStep, Wrote
<1> QED BY <1>2, <1>3, <1>4 DEF Effects

LEMMA WorkerEffects ==
  ASSUME IndInv, OriginInv, NEW t \in Specs, WorkerStep(t), ~RunRebaseToMain(t)
  PROVE  Effects
<1>0. TypeOK /\ RowInv(t) /\ Spec1(t) \in Nodes /\ Tip(Spec1(t)) \in Contents
  BY NodeFacts, TipTypes DEF IndInv, RowsInv
<1> USE DEF linkVars, gitVars, ownVars
<1>1. CASE StartTask(t)
  <2>1. RowStep(t)
    BY <1>0, <1>1 DEF StartTask, Working, RowStep, Picked, Gone, TypeOK
  <2> QED BY <1>0, <1>1, <2>1, TaskOnly DEF StartTask, TypeOK
<1>2. CASE ProvisionWorktree(t)
  <2>1. RowStep(t)
    BY <1>0, <1>2 DEF ProvisionWorktree, Working, RowStep, Picked, Gone, TypeOK
  <2>2. /\ UNCHANGED <<par, pbr, mst, msrc, mbr, gen, main, pr, job>>
        /\ \A s \in Specs \ {t} : st'[s] = st[s]
    BY <1>0, <1>2 DEF ProvisionWorktree, TypeOK
  <2>3. CASE Spec1(t) \in wt
    BY <1>2, <2>1, <2>2, <2>3, TaskOnly DEF ProvisionWorktree
  <2>4. CASE Spec1(t) \notin wt
    <3>1. Wrote(Spec1(t), ForkedContent(t))
      BY <1>2, <2>2, <2>4, OntoIsGrounded DEF ProvisionWorktree, Wrote
    <3>2. ForkedContent(t) \in Contents
      BY <1>0, OntoTypes
    <3> QED BY <2>1, <2>2, <3>1, <3>2, TaskWrites
  <2> QED BY <2>3, <2>4
<1>3. CASE Commit(t)
  <2> DEFINE own == Tip(Spec1(t))
             c == [own EXCEPT ![t] = own[t] + 1]
  <2>1. RowStep(t)
    BY <1>0, <1>3 DEF Commit, Working, RowStep, Picked, Gone
  <2>2. own \in Contents /\ own[t] < MaxVer[t] /\ own[t] \in Nat
    BY <1>0, <1>3, ContentFacts DEF Commit
  <2>3. Grounded(Spec1(t), own)
    BY <1>0, TipsAreGrounded
  <2>4. UNCHANGED <<st, par, pbr, mst, msrc, mbr, wt, gen, main, track, pr, job>>
    BY <1>3 DEF Commit
  <2>5. cont' = [cont EXCEPT ![Spec1(t)][gen[Spec1(t)]] = c]
    BY <1>3 DEF Commit, Pushed
  <2> HIDE DEF own
  <2>6. c \in Contents /\ c[t] > 0
    <3>1. own[t] + 1 \in 0..MostCommits
      BY <2>2, ContentBound, ContentFacts
    <3> QED BY <2>2, <3>1, ContentFacts
  <2>7. Grounded(Spec1(t), c)
    <3>1. ASSUME NEW d \in Specs, Below(Spec1(t), d) PROVE d # t
      BY <3>1, SpecsAreNumbers DEF Below, Spec1
    <3>2. \A d \in Specs \ {t} : c[d] = own[d]
      BY <2>2, ContentFacts
    <3> QED BY <2>3, <3>1, <3>2 DEF Grounded
  <2>8. Wrote(Spec1(t), c)
    <3> HIDE DEF c
    <3> QED BY <2>4, <2>5, <2>6, <2>7, NodeFacts DEF Wrote
  <2> HIDE DEF c
  <2> QED BY <2>1, <2>4, <2>6, <2>8, TaskWrites
<1>4. CASE AllSubtasksDone(t)
  <2>1. RowStep(t)
    BY <1>0, <1>4 DEF AllSubtasksDone, Working, RowStep, RowInv, Picked, Gone, TypeOK
  <2> QED BY <1>0, <1>4, <2>1, TaskOnly DEF AllSubtasksDone, TypeOK
<1>5. CASE OpenPr(t)
  <2>1. RowStep(t) /\ \A s \in Specs \ {t} : pr'[s] = pr[s]
    BY <1>0, <1>5 DEF OpenPr, Working, RowStep, Picked, Gone, TypeOK
  <2> QED BY <1>0, <1>5, <2>1, TaskOnly DEF OpenPr, TypeOK
<1>6. CASE WorkerBlocks(t)
  <2>1. RowStep(t)
    BY <1>0, <1>6 DEF WorkerBlocks, Working, RowStep, Picked, Gone, TypeOK
  <2> QED BY <1>0, <1>6, <2>1, TaskOnly DEF WorkerBlocks, TypeOK
<1>7. CASE WorkerPoll(t)
  <2>1. /\ st[t] = "ci" /\ track' \in {track, main}
        /\ \/ st' = [st EXCEPT ![t] = "merged"]
           \/ st' = [st EXCEPT ![t] = "closed"]
           \/ st' = st
    BY <1>7 DEF WorkerPoll, Working
  <2>2. /\ job' = [job EXCEPT ![Spec1(t)] = "none"]
        /\ UNCHANGED <<par, pbr, mst, msrc, mbr, cont, wt, gen, main, pr>>
    BY <1>7 DEF WorkerPoll
  <2>3. RowStep(t)
    BY <1>0, <2>1, <2>2 DEF RowStep, Picked, Gone, TypeOK
  <2> QED BY <1>0, <2>1, <2>2, <2>3, TaskOnly DEF TypeOK
<1>8. CASE WorkerFindsRowEnded(t)
  <2>1. RowStep(t)
    BY <1>0, <1>8 DEF WorkerFindsRowEnded, rowVars, RowStep, Picked, Gone, TypeOK
  <2> QED BY <1>0, <1>8, <2>1, TaskOnly DEF WorkerFindsRowEnded, rowVars, TypeOK
<1>9. CASE InlineRebase(t)
  <2> DEFINE target == IF AllParentsMerged(t) THEN "main" ELSE "tip"
             c == IF target = "main" THEN OntoMain(t) ELSE OntoParent(t)
  <2>1. /\ cont' = [cont EXCEPT ![Spec1(t)][gen[Spec1(t)]] = c] /\ track' \in {track, main}
        /\ UNCHANGED <<st, par, pbr, mst, msrc, mbr, wt, gen, main, pr, job>>
    BY <1>9 DEF InlineRebase, Pushed
  <2>2. ~AllParentsMerged(t) => par[t] # {}
    BY DEF AllParentsMerged
  <2>3. /\ c \in Contents /\ Grounded(Spec1(t), c)
        /\ Tip(Spec1(t))[t] > 0 => c[t] > 0
    BY <1>0, <2>2, OntoTypes, OntoIsGrounded
  <2> HIDE DEF c
  <2>4. Wrote(Spec1(t), c)
    BY <2>1, <2>3, NodeFacts DEF Wrote
  <2>5. RowStep(t)
    BY <2>1 DEF RowStep, Picked, Gone
  <2> QED BY <2>1, <2>3, <2>4, <2>5, TaskWrites
<1>10. CASE InlineFinish(t)
  <2>1. st[t] \notin {"pending", "prov"} /\ par'[t] \in {par[t], {}}
        /\ \A s \in Specs \ {t} : par'[s] = par[s]
    BY <1>0, <1>10 DEF InlineFinish, RowInv, TypeOK
  <2>2. RowStep(t)
    BY <1>0, <1>10, <2>1 DEF InlineFinish, RowStep, Picked, Gone
  <2> QED BY <1>10, <2>1, <2>2, TaskOnly DEF InlineFinish
<1>11. CASE InlineFails(t)
  <2>1. RowStep(t)
    BY <1>0, <1>11 DEF InlineFails, Working, RowStep, Picked, Gone, TypeOK
  <2> QED BY <1>0, <1>11, <2>1, TaskOnly DEF InlineFails, TypeOK
<1> QED BY <1>1, <1>2, <1>3, <1>4, <1>5, <1>6, <1>7, <1>8, <1>9, <1>10, <1>11 DEF WorkerStep

LEMMA RebaseEffects ==
  ASSUME IndInv, OriginInv, NEW n \in Nodes,
         \/ \E t \in Specs : n = Spec1(t) /\ RunRebaseToMain(t)
         \/ RunRebaseToParentTip(n) \/ RebaseFails(n) \/ RebaseIsVain(n) \/ RebaseWindowEnds(n)
  PROVE  Effects
<1>0. TypeOK
  BY DEF IndInv
<1> USE DEF linkVars, gitVars, ownVars
(* The row of a rebase that ends was not in audit, and has no future left. *)
<1>1. ASSUME NEW next \in {"ci", "resolving", "blocked"}, RebaseDone(n, next),
             job[n] \in {"toMain", "toTip"},
             \A s \in Specs : /\ pr'[s] # "none" => pr[s] # "none"
                              /\ Spec1(s) # n => par'[s] = par[s]
                              /\ par'[s] \in {par[s], {}} /\ pbr'[s] = pbr[s]
      PROVE  /\ \A s \in Specs : RowStep(s)
             /\ \A m \in MergeNodes : /\ mst'[m] = "none" <=> mst[m] = "none"
                                      /\ mst'[m] \in {"audit", "ready"} => mst'[m] = mst[m]
  <2>1. ASSUME NEW s \in Specs, Spec1(s) = n PROVE RowStep(s)
    <3>1. job'[Spec1(s)] = "none"
      BY <1>0, <1>1, <2>1, RebaseDoneFacts DEF TypeOK
    <3>2. st'[s] = "audit" => st[s] = "audit"
      BY <1>0, <1>1, <2>1, RebaseDoneFacts
    <3>3. Gone(s) => Gone(s)'
      BY <1>0, <1>1, <2>1, RebaseDoneFacts DEF Gone
    <3> QED BY <1>1, <3>1, <3>2, <3>3 DEF RowStep, Picked
  <2>2. ASSUME NEW s \in Specs, Spec1(s) # n PROVE RowStep(s)
    <3>1. st'[s] = st[s] /\ job'[Spec1(s)] = job[Spec1(s)]
      BY <1>0, <1>1, <2>2, RebaseDoneFacts, NodeFacts DEF TypeOK
    <3> QED BY <1>1, <2>2, <3>1 DEF RowStep, Picked, Gone
  <2>3. \A m \in MergeNodes : /\ mst'[m] = "none" <=> mst[m] = "none"
                              /\ mst'[m] \in {"audit", "ready"} => mst'[m] = mst[m]
    BY <1>0, <1>1, RebaseDoneFacts
  <2> QED BY <2>1, <2>2, <2>3
<1>2. ASSUME NEW t \in Specs, n = Spec1(t), RunRebaseToMain(t) PROVE Effects
  <2>1. PICK next \in RebaseEnds :
          /\ RebaseDone(n, next)
          /\ \/ UNCHANGED pr
             \/ pr[t] = "closed" /\ pr' = [pr EXCEPT ![t] = "open"]
    BY <1>2 DEF RunRebaseToMain
  <2>2. /\ cont' = [cont EXCEPT ![n][gen[n]] = OntoMain(t)] /\ track' = main
        /\ par' = [par EXCEPT ![t] = {}] /\ job[n] = "toMain"
        /\ UNCHANGED <<pbr, msrc, mbr, wt, gen, main>>
    BY <1>2 DEF RunRebaseToMain, Pushed
  <2>3. \A s \in Specs : /\ pr'[s] # "none" => pr[s] # "none"
                         /\ Spec1(s) # n => par'[s] = par[s]
                         /\ par'[s] \in {par[s], {}} /\ pbr'[s] = pbr[s]
    BY <1>0, <1>2, <2>1, <2>2 DEF TypeOK
  <2>4. /\ \A s \in Specs : RowStep(s)
        /\ \A m \in MergeNodes : /\ mst'[m] = "none" <=> mst[m] = "none"
                                 /\ mst'[m] \in {"audit", "ready"} => mst'[m] = mst[m]
    BY <1>1, <2>1, <2>2, <2>3 DEF RebaseEnds
  <2>5. OntoMain(t) \in Contents /\ Wrote(n, OntoMain(t))
    BY <1>0, <1>2, <2>2, OntoTypes, OntoIsGrounded, NodeFacts DEF Wrote
  <2>6. \A m \in MergeNodes : cont'[m][0] = cont[m][0]
    <3>1. \A m \in MergeNodes : m \in Nodes /\ m # n
      BY <1>2, NodeFacts
    <3> QED BY <1>0, <2>2, <2>5, <3>1, BranchWritten, GensAreNatural
  <2>7. \A m \in MergeNodes : MergeStep(m)
    BY <2>2, <2>4, <2>6 DEF MergeStep
  <2>8. GitStep
    BY <2>5 DEF GitStep
  <2> QED BY <2>4, <2>7, <2>8 DEF Effects
<1>3. CASE RunRebaseToParentTip(n)
  <2> DEFINE c == OntoFirstParent(n)
  <2>1. PICK next \in RebaseEnds \ {"blocked"} : RebaseDone(n, next)
    BY <1>3 DEF RunRebaseToParentTip
  <2>2. /\ cont' = [cont EXCEPT ![n][gen[n]] = c] /\ ParentsOf(n) # {} /\ job[n] = "toTip"
        /\ UNCHANGED <<par, pbr, msrc, mbr, wt, gen, main, track, pr>>
    BY <1>3 DEF RunRebaseToParentTip
  <2>3. /\ \A s \in Specs : RowStep(s)
        /\ \A m \in MergeNodes : /\ mst'[m] = "none" <=> mst[m] = "none"
                                 /\ mst'[m] \in {"audit", "ready"} => mst'[m] = mst[m]
    BY <1>1, <2>1, <2>2 DEF RebaseEnds
  <2>4. c \in Contents /\ Grounded(n, c) /\ \A d \in Specs : Tip(n)[d] > 0 => c[d] > 0
    BY <2>2, OntoFirstIsGrounded
  <2> HIDE DEF c
  <2>5. Wrote(n, c)
    BY <2>2, <2>4 DEF Wrote
  <2>6. ASSUME NEW m \in MergeNodes, NEW d \in Specs, cont[m][0][d] > 0 PROVE cont'[m][0][d] > 0
    <3>1. m \in Nodes /\ gen[m] = 0 /\ 0 \in Gens
      BY NodeFacts, GensAreNatural DEF IndInv, BranchInv
    <3>2. /\ cont'[n][gen[n]] = c
          /\ \A k \in Nodes : \A g \in Gens : k # n \/ g # gen[n] => cont'[k][g] = cont[k][g]
      BY <1>0, <2>2, <2>4, BranchWritten
    <3>3. CASE m = n
      BY <2>4, <2>6, <3>1, <3>2, <3>3 DEF Tip
    <3>4. CASE m # n
      BY <2>6, <3>1, <3>2, <3>4
    <3> QED BY <3>3, <3>4
  <2>7. \A m \in MergeNodes : MergeStep(m)
    BY <2>2, <2>3, <2>6 DEF MergeStep
  <2>8. GitStep
    BY <2>4, <2>5 DEF GitStep
  <2> QED BY <2>3, <2>7, <2>8 DEF Effects
<1>4. CASE RebaseFails(n) \/ RebaseIsVain(n)
  <2>1. PICK next \in {"ci", "blocked"} : RebaseDone(n, next)
    BY <1>4 DEF RebaseFails, RebaseIsVain
  <2>2. /\ job[n] \in {"toMain", "toTip"}
        /\ UNCHANGED <<par, pbr, msrc, mbr, wt, gen, cont, main, track, pr>>
    BY <1>4 DEF RebaseFails, RebaseIsVain
  <2>3. /\ \A s \in Specs : RowStep(s)
        /\ \A m \in MergeNodes : /\ mst'[m] = "none" <=> mst[m] = "none"
                                 /\ mst'[m] \in {"audit", "ready"} => mst'[m] = mst[m]
    BY <1>1, <2>1, <2>2
  <2> QED BY <2>2, <2>3, RowsMove
<1>5. CASE RebaseWindowEnds(n)
  <2>1. \A s \in Specs : RowStep(s)
    BY <1>5 DEF RebaseWindowEnds, rowVars, RowStep, Picked, Gone
  <2> QED BY <1>5, <2>1, RowsMove DEF RebaseWindowEnds, rowVars
<1> QED BY <1>2, <1>3, <1>4, <1>5

LEMMA MergeNodeEffects ==
  ASSUME IndInv, NEW m \in MergeNodes, MergeNodeStep(m), ~IntegrateParents(m)
  PROVE  Effects
<1>0. TypeOK /\ m \in Nodes /\ \A s \in Specs : Spec1(s) # m /\ Spec1(s) \in Nodes
  BY NodeFacts DEF IndInv
<1> USE DEF linkVars, gitVars, ownVars
<1>1. UNCHANGED <<st, par, pbr, msrc, mbr, cont, wt, gen, main, track, pr>>
  BY DEF MergeNodeStep, StartMergeNode, MergeNodeBuilt, MergeNodeBlocks, ResumeMergeNode
<1>2. \A s \in Specs : job'[Spec1(s)] = job[Spec1(s)]
  BY <1>0
     DEF MergeNodeStep, StartMergeNode, MergeNodeBuilt, MergeNodeBlocks, ResumeMergeNode, TypeOK
<1>3. \A k \in MergeNodes : /\ mst'[k] = "none" <=> mst[k] = "none"
                            /\ mst'[k] \in {"audit", "ready"} => mst[k] \in {"audit", "ready"}
  BY <1>0 DEF MergeNodeStep, MergeWorking, StartMergeNode, MergeNodeBuilt, MergeNodeBlocks,
              ResumeMergeNode, TypeOK
<1>4. \A s \in Specs : RowStep(s)
  BY <1>1, <1>2 DEF RowStep, Picked, Gone
<1> QED BY <1>1, <1>3, <1>4, RowsMove

LEMMA WatcherEffects ==
  ASSUME IndInv, NEW t \in Specs, WatcherStep(t)
  PROVE  Effects
<1>0. TypeOK /\ Spec1(t) \in Nodes
  BY NodeFacts DEF IndInv
<1> USE DEF linkVars, gitVars, ownVars
<1>1. CASE PollOpen(t)
  <2>1. /\ UNCHANGED <<par, pbr, msrc, mbr, cont, wt, gen, main, track, pr>>
        /\ \A m \in MergeNodes : /\ mst'[m] \in {mst[m], "pending"}
                                 /\ mst[m] = "none" => mst'[m] = "none"
    BY <1>1, PollOpenFacts
  <2>2. ASSUME NEW s \in Specs PROVE RowStep(s)
    <3>1. \/ st'[s] = st[s] /\ job'[Spec1(s)] = job[Spec1(s)]
          \/ /\ st[s] \notin {"merged", "closed", "pending"} /\ pr[s] # "none"
             /\ st'[s] \in {"rebasing", "blocked", "audit", "review"}
      BY <1>1, PollOpenFacts
    <3> QED BY <2>1, <3>1 DEF RowStep, Picked, Gone
  <2> QED BY <2>1, <2>2, RowsMove
<1>2. CASE PollMerged(t)
  <2>1. /\ UNCHANGED <<pbr, mbr, cont, wt, gen, main, track, pr>> /\ Gone(t)'
        /\ \A m \in MergeNodes :
              /\ msrc'[m] \subseteq msrc[m]
              /\ mst'[m] \in {mst[m], "pending", "retired"} /\ (mst[m] = "none" => mst'[m] = "none")
    BY <1>2, PollMergedFacts DEF Gone
  <2>2. ASSUME NEW s \in Specs PROVE RowStep(s)
    <3>1. \/ st'[s] = st[s] /\ job'[Spec1(s)] = job[Spec1(s)]
          \/ st'[s] = "merged"
          \/ st[s] \notin Untouched /\ st'[s] = "rebasing"
      BY <1>2, PollMergedFacts
    <3>2. par'[s] = par[s] \/ (par'[s] = {} /\ par[s] = Spec1(t))
      BY <1>2, PollMergedFacts
    <3> QED BY <2>1, <3>1, <3>2 DEF RowStep, Picked, Gone, Untouched
  <2>3. GitStep
    BY <1>0, <2>1, MainStays DEF GitStep
  <2>4. \A m \in MergeNodes : MergeStep(m)
    BY <2>1 DEF MergeStep
  <2> QED BY <2>2, <2>3, <2>4 DEF Effects
<1>3. CASE PollClosed(t)
  <2>1. /\ UNCHANGED <<pbr, mbr, mst, cont, wt, gen, main, track, pr, job>>
        /\ st' = [st EXCEPT ![t] = "closed"]
        /\ par' = [c \in Specs |-> IF c \in StrandedChildren(t) THEN {} ELSE par[c]]
        /\ \A m \in MergeNodes : msrc'[m] \subseteq msrc[m]
    BY <1>3 DEF PollClosed
  <2>2. ASSUME NEW s \in Specs PROVE RowStep(s)
    <3>1. par'[s] = par[s] \/ (par'[s] = {} /\ par[s] = Spec1(t))
      BY <2>1 DEF StrandedChildren
    <3>2. (st'[s] = st[s] \/ st'[s] = "closed") /\ Gone(t)'
      BY <1>0, <2>1 DEF TypeOK, Gone
    <3> QED BY <2>1, <3>1, <3>2 DEF RowStep, Picked, Gone
  <2>3. GitStep
    BY <1>0, <2>1, MainStays DEF GitStep
  <2>4. \A m \in MergeNodes : MergeStep(m)
    BY <2>1 DEF MergeStep
  <2> QED BY <2>2, <2>3, <2>4 DEF Effects
<1>4. CASE Settle(t)
  <2>1. RowStep(t)
    BY <1>0, <1>4 DEF Settle, RowStep, Picked, Gone, TypeOK
  <2> QED BY <1>0, <1>4, <2>1, TaskOnly DEF Settle, TypeOK
<1>5. CASE WalkWindowEnds(t)
  <2>1. \A s \in Specs : RowStep(s)
    BY <1>5 DEF WalkWindowEnds, rowVars, RowStep, Picked, Gone
  <2> QED BY <1>5, <2>1, RowsMove DEF WalkWindowEnds, rowVars
<1> QED BY <1>1, <1>2, <1>3, <1>4, <1>5 DEF WatcherStep

LEMMA OutsideEffects ==
  ASSUME IndInv, NEW t \in Specs, OutsideStep(t)
  PROVE  Effects
<1>0. TypeOK /\ RowInv(t) /\ Spec1(t) \in Nodes
  BY NodeFacts DEF IndInv, RowsInv
<1> USE DEF linkVars, gitVars, ownVars
<1>1. CASE MergePr(t) \/ ClosePr(t)
  <2>1. /\ UNCHANGED <<st, par, pbr, mst, msrc, mbr, cont, wt, gen, track, job>>
        /\ main' \in {main, Join(main, cont[Spec1(t)][head[t]])}
        /\ pr[t] = "open" /\ \A s \in Specs : pr'[s] # "none" => pr[s] # "none"
    BY <1>0, <1>1 DEF MergePr, ClosePr, rowVars, TypeOK
  <2>2. \A s \in Specs : RowStep(s)
    BY <2>1 DEF RowStep, Picked, Gone
  <2>3. Within(main, main')
    <3>1. main \in Contents /\ cont[Spec1(t)][head[t]] \in Contents
      BY <1>0, TipTypes DEF TypeOK
    <3>2. Within(main, Join(main, cont[Spec1(t)][head[t]]))
      BY <3>1, JoinFacts DEF Within
    <3> QED BY <1>0, <2>1, <3>2, MainStays
  <2>4. GitStep
    BY <2>1, <2>3 DEF GitStep
  <2>5. \A m \in MergeNodes : MergeStep(m)
    BY <2>1 DEF MergeStep
  <2> QED BY <2>2, <2>4, <2>5 DEF Effects
<1>2. CASE Resume(t)
  <2>1. RowStep(t)
    BY <1>0, <1>2 DEF Resume, RowStep, RowInv, Picked, Gone, TypeOK
  <2> QED BY <1>0, <1>2, <2>1, TaskOnly DEF Resume, TypeOK
<1>3. CASE DetectMerged(t)
  <2>1. RowStep(t)
    BY <1>0, <1>3 DEF DetectMerged, RowStep, Picked, Gone, TypeOK
  <2> QED BY <1>0, <1>3, <2>1, TaskOnly DEF DetectMerged, TypeOK
<1> QED BY <1>1, <1>2, <1>3 DEF OutsideStep

LEMMA RestartEffects ==
  ASSUME IndInv, Restart
  PROVE  Effects
<1>1. /\ UNCHANGED <<par, pbr, msrc, mbr, cont, main, track, pr>>
      /\ \A s \in Specs : job'[Spec1(s)] = "none"
  BY RestartFacts, NodeFacts DEF gitVars
<1>2. ASSUME NEW s \in Specs PROVE RowStep(s)
  <2>1. st'[s] # "audit" /\ (Gone(s) => st'[s] = st[s])
    BY RestartFacts
  <2> QED BY <1>1, <2>1 DEF RowStep, Picked, Gone
<1>3. ASSUME NEW m \in MergeNodes PROVE MergeStep(m)
  <2>1. /\ mst'[m] \in {mst[m], "lost", "pending", "stray"}
        /\ mst[m] = "none" => mst'[m] = "none"
        /\ mst'[m] \in {"ready", "audit"} => mst'[m] = mst[m]
        /\ m \in wt /\ m \notin wt' => mst'[m] = "lost"
    BY RestartFacts
  <2> QED BY <1>1, <2>1 DEF MergeStep
<1> QED BY <1>2, <1>3 DEF Effects, GitStep

(* Every step but a pick and an integration.                               *)
LEMMA OtherEffects ==
  ASSUME IndInv, OriginInv, [Next]_vars, ~PickNext, \A m \in MergeNodes : ~IntegrateParents(m)
  PROVE  Effects
<1>1. CASE UNCHANGED vars
  <2>1. \A s \in Specs : RowStep(s)
    BY <1>1 DEF vars, rowVars, linkVars, gitVars, RowStep, Picked, Gone
  <2> QED BY <1>1, <2>1, RowsMove DEF vars, rowVars, linkVars, gitVars, ownVars
<1>2. CASE Restart
  BY <1>2, RestartEffects
<1>3. ASSUME NEW t \in Specs, WorkerStep(t) \/ WatcherStep(t) \/ OutsideStep(t) PROVE Effects
  <2>1. CASE RunRebaseToMain(t)
    BY <2>1, NodeFacts, RebaseEffects
  <2> QED BY <1>3, <2>1, WorkerEffects, WatcherEffects, OutsideEffects
<1>4. ASSUME NEW m \in MergeNodes, MergeNodeStep(m) PROVE Effects
  BY <1>4, MergeNodeEffects
<1>5. ASSUME NEW n \in Nodes,
             \/ RunRebaseToParentTip(n) \/ RebaseFails(n)
             \/ RebaseIsVain(n) \/ RebaseWindowEnds(n)
      PROVE  Effects
  BY <1>5, RebaseEffects
<1> QED BY <1>1, <1>2, <1>3, <1>4, <1>5 DEF Next

-----------------------------------------------------------------------------
(* What follows from the effects of a step.                                *)

(* Where the branches were, and what one of them may have become.          *)
LEMMA ContentStep ==
  ASSUME IndInv, GitStep, NEW n \in Nodes, NEW g \in Gens
  PROVE  \/ cont'[n][g] = cont[n][g]
         \/ /\ g = gen[n] /\ Grounded(n, cont'[n][g])
            /\ \A t \in Specs : n = Spec1(t) /\ n \in wt /\ cont[n][g][t] > 0 => cont'[n][g][t] > 0
<1>0. TypeOK
  BY DEF IndInv
<1>1. CASE UNCHANGED cont
  BY <1>1
<1>2. ASSUME NEW k \in Nodes, NEW c \in Contents, Wrote(k, c)
      PROVE  \/ cont'[n][g] = cont[n][g]
             \/ /\ g = gen[n] /\ Grounded(n, cont'[n][g])
                /\ \A t \in Specs : n = Spec1(t) /\ n \in wt /\ cont[n][g][t] > 0 => cont'[n][g][t] > 0
  <2>1. /\ cont'[k][gen[k]] = c
        /\ \A i \in Nodes : \A h \in Gens : i # k \/ h # gen[k] => cont'[i][h] = cont[i][h]
    BY <1>0, <1>2, BranchWritten DEF Wrote
  <2>2. CASE n # k \/ g # gen[k]
    BY <2>1, <2>2
  <2>3. CASE n = k /\ g = gen[k]
    BY <1>2, <2>1, <2>3 DEF Wrote, Tip
  <2> QED BY <2>2, <2>3
<1>3. CASE Restart
  BY <1>3, RestartFacts DEF gitVars
<1> QED BY <1>1, <1>2, <1>3 DEF GitStep

LEMMA BranchStep ==
  ASSUME IndInv, TypeOK', GitStep
  PROVE  /\ \A n \in Nodes : gen[n] \in Nat /\ gen'[n] \in Nat /\ gen[n] <= gen'[n]
         /\ \A s \in Specs : Spec1(s) \in wt => Spec1(s) \in wt' \/ gen'[Spec1(s)] > 0
         /\ Within(main, main') /\ track' \in {track, main}
<1>0. TypeOK
  BY DEF IndInv
<1>1. \A n \in Nodes : gen[n] \in Nat /\ gen'[n] \in Nat
  <2>1. gen \in [Nodes -> Gens] /\ gen' \in [Nodes -> Gens]
    BY <1>0 DEF TypeOK
  <2> QED BY <2>1, GensAreNatural
<1>2. CASE UNCHANGED gen /\ wt \subseteq wt' /\ track' \in {track, main} /\ Within(main, main')
  BY <1>1, <1>2
<1>3. ASSUME NEW n \in Nodes, NEW c \in Contents, Wrote(n, c)
      PROVE  UNCHANGED <<gen, main>> /\ wt \subseteq wt' /\ track' \in {track, main}
  BY <1>3 DEF Wrote
<1>4. CASE Restart
  <2>1. UNCHANGED <<main, track>>
    BY <1>4, RestartFacts DEF gitVars
  <2>2. \A n \in Nodes : gen'[n] \in {gen[n], gen[n] + 1}
    BY <1>4, RestartFacts
  <2>3. \A s \in Specs : Spec1(s) \in wt => Spec1(s) \in wt' \/ gen'[Spec1(s)] = gen[Spec1(s)] + 1
    BY <1>4, RestartFacts, NodeFacts
  <2>4. \A s \in Specs : Spec1(s) \in Nodes
    BY NodeFacts
  <2> QED BY <1>0, <1>1, <2>1, <2>2, <2>3, <2>4, MainStays
<1> QED BY <1>0, <1>1, <1>2, <1>3, <1>4, MainStays DEF GitStep

LEMMA OriginKeeps ==
  ASSUME IndInv, TypeOK', OriginInv, GitStep,
         \A t \in Specs : par'[t] \in {par[t], {}} \/ Below(par'[t], t)
  PROVE  OriginInv'
<1>0. /\ TypeOK /\ main \in Contents /\ main' \in Contents /\ track \in Contents
      /\ Within(track, main) /\ Within(main, main') /\ track' \in {track, main}
  BY BranchStep DEF IndInv, TypeOK, OriginInv
<1>1. \A d \in Specs : /\ main[d] \in Nat /\ main'[d] \in Nat /\ main[d] <= main'[d]
                       /\ track[d] \in Nat /\ track[d] <= main[d]
  BY <1>0, ContentFacts DEF Within
<1>2. \A t \in Specs : Below(par'[t], t)
  BY DEF OriginInv, Below
<1>3. Within(track', main')
  BY <1>0, <1>1 DEF Within
<1>4. ASSUME NEW n \in Nodes, NEW g \in Gens, NEW d \in Specs, Below(n, d), cont'[n][g][d] > 0
      PROVE  main'[d] > 0
  <2>1. main[d] > 0
    BY <1>4, ContentStep DEF OriginInv, Grounded
  <2> QED BY <1>1, <2>1
<1>5. \A t \in Specs : Below(par[t], t)'
  BY <1>2 DEF Below
<1> QED BY <1>3, <1>4, <1>5 DEF OriginInv, Below

(* Once a task's first branch has work, it keeps it.                       *)
LEMMA FedStays ==
  ASSUME IndInv, TypeOK', GitStep, NEW s \in Specs, Fed(s)
  PROVE  Fed(s)'
<1>1. /\ Spec1(s) \in Nodes /\ 0 \in Gens /\ gen[Spec1(s)] \in Nat /\ gen'[Spec1(s)] \in Nat
      /\ gen[Spec1(s)] <= gen'[Spec1(s)]
      /\ Spec1(s) \in wt => Spec1(s) \in wt' \/ gen'[Spec1(s)] > 0
  BY NodeFacts, GensAreNatural, BranchStep
<1>2. cont'[Spec1(s)][0][s] > 0
  <2>1. CASE cont'[Spec1(s)][0] = cont[Spec1(s)][0]
    BY <2>1 DEF Fed
  <2>2. CASE cont'[Spec1(s)][0] # cont[Spec1(s)][0]
    <3>1. gen[Spec1(s)] = 0 /\ (Spec1(s) \in wt /\ cont[Spec1(s)][0][s] > 0 => cont'[Spec1(s)][0][s] > 0)
      BY <1>1, <2>2, ContentStep
    <3> QED BY <3>1 DEF Fed
  <2> QED BY <2>1, <2>2
<1> QED BY <1>1, <1>2 DEF Fed

LEMMA FedKeeps ==
  ASSUME IndInv, TypeOK', FedInv, GitStep,
         \A s \in Specs :
           /\ pr'[s] # "none" => pr[s] # "none" \/ st[s] = "audit"
           /\ st'[s] = "audit" => \/ st[s] = "audit" \/ pr[s] # "none"
                                  \/ Spec1(s) \in wt /\ Tip(Spec1(s))[s] > 0
  PROVE  FedInv'
<1>1. ASSUME NEW t \in Specs, pr'[t] # "none" \/ st'[t] = "audit", gen'[Spec1(t)] = 0 PROVE Fed(t)'
  <2>1. Spec1(t) \in Nodes /\ gen[Spec1(t)] = 0
    BY <1>1, NodeFacts, BranchStep
  <2>2. Fed(t)
    BY <1>1, <2>1 DEF FedInv, Fed, Tip
  <2> QED BY <2>2, FedStays
<1> QED BY <1>1 DEF FedInv

(* The rest of the invariant, when no task is picked and no merge-node is  *)
(* integrated or created.                                                  *)
LEMMA HoldsStays ==
  ASSUME IndInv, TypeOK', GitStep, NEW t \in Specs, NEW d \in Specs, Holds(t, d),
         par'[t] = par[t], pbr'[t] = pbr[t],
         \A m \in MergeNodes : /\ mst[m] # "none" => mst'[m] # "none"
                               /\ m = par[t] /\ cont[m][0][d] > 0 => cont'[m][0][d] > 0
  PROVE  Holds(t, d)'
<1>1. Fed(d) => Fed(d)'
  BY FedStays
<1> QED BY <1>1 DEF Holds

LEMMA IntegratesStays ==
  ASSUME IndInv, TypeOK', GitStep, NEW m \in MergeNodes, Integrates(m), MergeStep(m)
  PROVE  Integrates(m)'
<1>1. msrc[m] \subseteq Specs
  BY DEF IndInv, TypeOK
<1>2. \A s \in Specs : Fed(s) => Fed(s)'
  BY FedStays
<1>3. mst'[m] # "none" => \A s \in msrc'[m] : mbr'[m][s] = 0 => Fed(s)'
  BY <1>1, <1>2 DEF Integrates, MergeStep
<1>4. mst'[m] \in {"audit", "ready"} =>
        m \in wt' /\ \A s \in msrc'[m] : mbr'[m][s] = 0 => cont'[m][0][s] > 0
  BY <1>1 DEF Integrates, MergeStep
<1> QED BY <1>3, <1>4 DEF Integrates

LEMMA LinkStays ==
  ASSUME IndInv, TypeOK', GitStep, NEW t \in Specs, LinkInv(t), RowStep(t),
         \A s \in Specs : Gone(s) => Gone(s)',
         \A d \in Deps[t] : \A m \in MergeNodes :
           /\ mst[m] # "none" => mst'[m] # "none"
           /\ m = par[t] /\ Holds(t, d) /\ cont[m][0][d] > 0
                => cont'[m][0][d] > 0 \/ Gone(d)' \/ gen[Spec1(d)] > 0
  PROVE  LinkInv(t)'
<1> SUFFICES ASSUME Picked(t)', NEW d \in Deps[t]
             PROVE  Gone(d)' \/ gen'[Spec1(d)] > 0 \/ Holds(t, d)'
  BY DEF LinkInv
<1>1. d \in Specs /\ Spec1(d) \in Nodes
  BY DagIsAcyclic, NodeFacts
<1>2. gen[Spec1(d)] > 0 => gen'[Spec1(d)] > 0
  BY <1>1, BranchStep
<1>3. /\ Picked(t) /\ pbr'[t] = pbr[t]
      /\ par'[t] = par[t] \/ \E p \in Specs : par[t] = Spec1(p) /\ Gone(p)'
  BY DEF RowStep
<1>4. Gone(d) \/ gen[Spec1(d)] > 0 \/ Holds(t, d)
  BY <1>3 DEF LinkInv
<1>5. CASE Gone(d) \/ gen[Spec1(d)] > 0
  BY <1>1, <1>2, <1>5
<1>6. CASE Holds(t, d) /\ par'[t] = par[t]
  <2>1. CASE \E m \in MergeNodes : m = par[t] /\ cont[m][0][d] > 0 /\ ~(cont'[m][0][d] > 0)
    BY <1>2, <1>6, <2>1
  <2>2. CASE ~\E m \in MergeNodes : m = par[t] /\ cont[m][0][d] > 0 /\ ~(cont'[m][0][d] > 0)
    BY <1>1, <1>3, <1>6, <2>2, HoldsStays
  <2> QED BY <2>1, <2>2
<1>7. CASE Holds(t, d) /\ \E p \in Specs : par[t] = Spec1(p) /\ Gone(p)'
  <2>1. PICK p \in Specs : par[t] = Spec1(p) /\ Gone(p)'
    BY <1>7
  <2>2. Spec1(d) = Spec1(p)
    BY <1>7, <2>1, NodeFacts DEF Holds
  <2> QED BY <1>1, <2>1, <2>2, NodeFacts
<1> QED BY <1>3, <1>4, <1>5, <1>6, <1>7

LEMMA OtherKeeps ==
  ASSUME IndInv, TypeOK', WorkInv, Effects
  PROVE  WorkInv'
<1>1. OriginInv'
  BY OriginKeeps DEF WorkInv, Effects, RowStep
<1>2. FedInv'
  BY FedKeeps DEF WorkInv, Effects, RowStep
<1>3. ASSUME Settled, NEW m \in MergeNodes PROVE Integrates(m)'
  BY <1>3, IntegratesStays DEF WorkInv, SettledInv, Effects
<1>4. ASSUME Settled, NEW t \in Specs PROVE LinkInv(t)'
  <2>1. /\ \A s \in Specs : Gone(s) => Gone(s)'
        /\ \A m \in MergeNodes : /\ mst[m] # "none" => mst'[m] # "none"
                                 /\ \A d \in Specs : cont[m][0][d] > 0 => cont'[m][0][d] > 0
    BY DEF Effects, RowStep, MergeStep
  <2>2. Deps[t] \subseteq Specs
    BY DagIsAcyclic
  <2> QED BY <1>4, <2>1, <2>2, LinkStays DEF WorkInv, SettledInv, Effects
<1> QED BY <1>1, <1>2, <1>3, <1>4 DEF WorkInv, SettledInv

(* An integration writes what the sources it lists have, so only work of   *)
(* sources that merged may go.                                             *)
LEMMA IntegrateKeeps ==
  ASSUME IndInv, TypeOK', WorkInv, NEW m \in MergeNodes, IntegrateParents(m)
  PROVE  WorkInv'
<1> DEFINE c == Integrated(m, FetchedBase(m))
<1>0. TypeOK /\ m \in Nodes /\ gen[m] = 0 /\ 0 \in Gens /\ OriginInv /\ FedInv
  BY NodeFacts, GensAreNatural DEF IndInv, BranchInv, WorkInv
<1>1. /\ mst[m] = "prov" /\ wt' = wt \union {m} /\ track' \in {track, main}
      /\ UNCHANGED <<st, par, pbr, msrc, mbr, gen, main, pr>>
      /\ \/ msrc[m] = {} /\ mst' = [mst EXCEPT ![m] = "blocked"] /\ UNCHANGED cont
         \/ /\ msrc[m] # {} /\ mst' = [mst EXCEPT ![m] = "audit"]
            /\ cont' = [cont EXCEPT ![m][gen[m]] = c]
  BY DEF IntegrateParents, MergeWorking, FetchedBase, linkVars
<1>2. \A s \in Specs : job'[Spec1(s)] = job[Spec1(s)]
  BY <1>0, NodeFacts DEF IntegrateParents, TypeOK
<1>3. /\ c \in Contents /\ Grounded(m, c)
      /\ \A s \in msrc[m] : \A d \in Specs : SourceTip(m, s)[d] <= c[d]
  <2>1. FetchedBase(m) \in Contents
    BY <1>0 DEF FetchedBase, TypeOK
  <2> QED BY <1>0, <2>1, IntegratedType, IntegratedIsGrounded
<1> HIDE DEF c
<1>4. GitStep
  <2>1. CASE UNCHANGED cont
    BY <1>0, <1>1, <2>1, MainStays DEF GitStep
  <2>2. CASE cont' = [cont EXCEPT ![m][gen[m]] = c]
    <3>1. Wrote(m, c)
      BY <1>1, <1>3, <2>2, NodeFacts DEF Wrote
    <3> QED BY <1>0, <1>3, <3>1 DEF GitStep
  <2> QED BY <1>1, <2>1, <2>2
<1>5. \A s \in Specs : RowStep(s)
  BY <1>1, <1>2 DEF RowStep, Picked, Gone
<1>6. OriginInv'
  BY <1>0, <1>4, <1>5, OriginKeeps DEF RowStep
<1>7. FedInv'
  BY <1>0, <1>4, <1>5, FedKeeps DEF RowStep
<1>8. ASSUME NEW k \in MergeNodes, k # m PROVE MergeStep(k) /\ cont'[k][0] = cont[k][0]
  <2>1. cont'[k][0] = cont[k][0]
    BY <1>0, <1>1, <1>3, <1>8, NodeFacts, BranchWritten
  <2>2. mst'[k] = mst[k]
    BY <1>0, <1>1, <1>8 DEF TypeOK
  <2> QED BY <1>1, <2>1, <2>2 DEF MergeStep
<1>9. ASSUME Settled, NEW s \in msrc[m], mbr[m][s] = 0, msrc[m] # {} PROVE cont'[m][0][s] > 0
  <2>1. s \in Specs /\ Spec1(s) \in Nodes
    BY <1>0, NodeFacts DEF TypeOK
  <2>2. cont[Spec1(s)][0][s] > 0
    BY <1>1, <1>9 DEF WorkInv, SettledInv, Integrates, Fed
  <2>3. SourceTip(m, s) = cont[Spec1(s)][0] /\ SourceTip(m, s) \in Contents
    BY <1>0, <1>9, <2>1, TipTypes DEF SourceTip
  <2>4. cont'[m][0] = c
    BY <1>0, <1>1, <1>3, <1>9, BranchWritten
  <2>5. SourceTip(m, s)[s] <= c[s] /\ c[s] \in Nat /\ SourceTip(m, s)[s] \in Nat
    BY <1>3, <2>1, <2>3, ContentFacts
  <2> QED BY <2>2, <2>3, <2>4, <2>5
<1>10. ASSUME Settled, NEW k \in MergeNodes PROVE Integrates(k)'
  <2>1. CASE k # m
    BY <1>4, <1>8, <1>10, <2>1, IntegratesStays DEF WorkInv, SettledInv
  <2>2. CASE k = m
    <3>1. \A s \in msrc[m] : mbr[m][s] = 0 => Fed(s)'
      <4>1. \A s \in msrc[m] : s \in Specs /\ (mbr[m][s] = 0 => Fed(s))
        BY <1>0, <1>1, <1>10 DEF WorkInv, SettledInv, Integrates, TypeOK
      <4> QED BY <1>4, <4>1, FedStays
    <3>2. mst'[m] \in {"audit", "ready"} => msrc[m] # {}
      BY <1>0, <1>1 DEF TypeOK
    <3> QED BY <1>1, <1>9, <1>10, <2>2, <3>1, <3>2 DEF Integrates
  <2> QED BY <2>1, <2>2
<1>11. ASSUME Settled, NEW t \in Specs PROVE LinkInv(t)'
  <2>1. ASSUME NEW d \in Deps[t], m = par[t], Holds(t, d), cont[m][0][d] > 0
        PROVE  cont'[m][0][d] > 0 \/ Gone(d)' \/ gen[Spec1(d)] > 0
    <3>1. d \in Specs /\ d \in m /\ Spec1(d) \in Nodes
      BY <2>1, DagIsAcyclic, NodeFacts DEF Holds
    <3>2. CASE msrc[m] = {}
      BY <1>1, <2>1, <3>2
    <3>3. CASE d \in msrc[m] /\ mbr[m][d] = 0
      BY <1>9, <1>11, <3>3
    <3>4. CASE mbr[m][d] # 0
      <4>1. mbr[m][d] \in Nat /\ gen[Spec1(d)] \in Nat /\ mbr[m][d] <= gen[Spec1(d)]
        <5>1. mbr[m] \in [Specs -> Gens] /\ gen[Spec1(d)] \in Gens
          BY <1>0, <3>1 DEF TypeOK
        <5> QED BY <3>1, <5>1, GensAreNatural DEF IndInv, BranchInv
      <4> QED BY <3>4, <4>1
    <3>5. CASE msrc[m] # {} /\ d \notin msrc[m]
      <4>1. st[d] = "merged"
        BY <1>1, <3>1, <3>5 DEF IndInv, ForgetInv
      <4> QED BY <1>1, <4>1 DEF Gone
    <3> QED BY <3>2, <3>3, <3>4, <3>5
  <2>2. \A k \in MergeNodes : /\ mst[k] # "none" => mst'[k] # "none"
                              /\ k # m => cont'[k][0] = cont[k][0]
    BY <1>0, <1>1, <1>8 DEF TypeOK
  <2>3. \A s \in Specs : Gone(s) => Gone(s)'
    BY <1>1 DEF Gone
  <2>4. \A d \in Deps[t] : \A k \in MergeNodes :
          /\ mst[k] # "none" => mst'[k] # "none"
          /\ k = par[t] /\ Holds(t, d) /\ cont[k][0][d] > 0
               => cont'[k][0][d] > 0 \/ Gone(d)' \/ gen[Spec1(d)] > 0
    BY <2>1, <2>2
  <2> QED BY <1>4, <1>5, <1>11, <2>3, <2>4, LinkStays DEF WorkInv, SettledInv
<1> QED BY <1>6, <1>7, <1>10, <1>11 DEF WorkInv, SettledInv

(* With settled parents, a dependency that lets a task be stacked has a    *)
(* pull request, so work on its branch unless it lost its first one.       *)
LEMMA StackableFacts ==
  ASSUME IndInv, FedInv, Settled, NEW t \in Specs, Stackable(t), NEW d \in Unmet(t)
  PROVE  /\ d \in Specs /\ d \in Deps[t] /\ ~Gone(d)
         /\ gen[Spec1(d)] = 0 => Fed(d) /\ Spec1(d) \in wt
<1>1. d \in Specs /\ d \in Deps[t]
  BY DagIsAcyclic DEF Unmet
<1>2. st[d] = "settled"
  BY DEF Stackable, IsParentStackReady
<1>3. pr[d] # "none"
  BY <1>1, <1>2 DEF IndInv, RowsInv, RowInv
<1>4. gen[Spec1(d)] = 0 => Fed(d)
  BY <1>1, <1>3 DEF FedInv
<1>5. gen[Spec1(d)] = 0 /\ Fed(d) => Spec1(d) \in wt
  BY DEF Fed
<1> QED BY <1>1, <1>2, <1>4, <1>5 DEF Gone

LEMMA SingleUnmet ==
  ASSUME NEW t \in Specs, Unmet(t) # {}, ~(Cardinality(Unmet(t)) > 1)
  PROVE  \E d \in Unmet(t) : Unmet(t) = Spec1(d)
<1>1. IsFiniteSet(Unmet(t))
  <2>1. Unmet(t) \in SUBSET Specs
    BY UnmetFacts
  <2> QED BY <2>1, SpecsAreNumbers, FS_Subset
<1>2. Cardinality(Unmet(t)) \in Nat /\ Cardinality(Unmet(t)) # 0
  BY <1>1, FS_CardinalityType, FS_EmptySet
<1>3. Cardinality(Unmet(t)) = 1
  BY <1>2
<1> QED BY <1>1, <1>3, FS_Singleton DEF Spec1

(* The pick links a task to a branch with work of its unmet dependencies.  *)
LEMMA PickLinks ==
  ASSUME IndInv, WorkInv, Settled, NEW t \in Specs, Spec1(t) \in PickTier, NEW d \in Deps[t]
  PROVE  \/ Gone(d) \/ gen[Spec1(d)] > 0
         \/ PickedParent(t) = Spec1(d) /\ PickedBranch(t) = 0 /\ Fed(d)
         \/ /\ PickedParent(t) \in MergeNodes /\ d \in PickedParent(t) /\ PickedBranch(t) = 0
            /\ mst[PickedParent(t)] = "ready" /\ cont[PickedParent(t)][0][d] > 0
<1>0. TypeOK /\ FedInv /\ SettledInv /\ d \in Specs /\ Spec1(d) \in Nodes
  BY DagIsAcyclic, NodeFacts DEF IndInv, WorkInv
<1>1. \/ Unmet(t) = {}
      \/ /\ Stackable(t)
         /\ Cardinality(Unmet(t)) > 1 => mst[Unmet(t)] = "ready"
  <2>1. Spec1(t) \notin MergeNodes /\ \A s \in Specs : Spec1(s) = Spec1(t) => s = t
    BY NodeFacts
  <2>2. Spec1(t) \in PrimaryCandidates \union StackedCandidates
    BY DEF PickTier
  <2>3. CASE Spec1(t) \in PrimaryCandidates
    BY <2>1, <2>3 DEF PrimaryCandidates, Created
  <2>4. CASE Spec1(t) \in StackedCandidates
    <3>1. PICK x \in Specs : /\ Spec1(x) = Spec1(t) /\ Stackable(x)
                             /\ Cardinality(Unmet(x)) > 1 => mst[Unmet(x)] = "ready"
      BY <2>4 DEF StackedCandidates
    <3>2. x = t
      BY <2>1, <3>1
    <3> QED BY <3>1, <3>2
  <2> QED BY <2>2, <2>3, <2>4
<1>2. CASE d \notin Unmet(t)
  BY <1>2 DEF Unmet, Gone
<1>3. CASE d \in Unmet(t) /\ gen[Spec1(d)] = 0
  <2>1. Stackable(t) /\ Unmet(t) # {}
    BY <1>1, <1>3
  <2>2. Fed(d) /\ Spec1(d) \in wt /\ ~Gone(d)
    BY <1>0, <1>3, <2>1, StackableFacts
  <2>3. CASE ~(Cardinality(Unmet(t)) > 1)
    <3>1. Unmet(t) = Spec1(d)
      BY <1>3, <2>1, <2>3, SingleUnmet DEF Spec1
    <3> QED BY <1>3, <2>2, <3>1 DEF PickedParent, PickedBranch
  <2>4. CASE Cardinality(Unmet(t)) > 1
    <3> DEFINE m == Unmet(t)
    <3>1. m \in MergeNodes /\ mst[m] = "ready" /\ gen[m] = 0
      BY <1>1, <2>1, <2>4, UnmetFacts DEF IndInv, BranchInv
    <3>2. m \in wt /\ \A s \in msrc[m] : mbr[m][s] = 0 => cont[m][0][s] > 0
      BY <1>0, <3>1 DEF SettledInv, Integrates
    <3>3. PickedParent(t) = m /\ PickedBranch(t) = 0
      BY <3>1, <3>2 DEF PickedParent, PickedBranch
    <3>4. d \in msrc[m]
      <4>1. \A s \in m : ~Gone(s)
        BY <1>0, <2>1, StackableFacts
      <4>2. \/ \A s \in m \ msrc[m] : st[s] = "merged"
            \/ \E s \in m : Gone(s)
        BY <3>1 DEF IndInv, ForgetInv, ClosedForGood
      <4> QED BY <1>3, <4>1, <4>2 DEF Gone
    <3>5. mbr[m][d] = 0
      <4>1. mbr[m] \in [Specs -> Gens] /\ mbr[m][d] <= gen[Spec1(d)]
        BY <1>0, <3>1 DEF TypeOK, IndInv, BranchInv
      <4>2. mbr[m][d] \in Nat
        BY <1>0, <4>1, GensAreNatural
      <4> QED BY <1>3, <4>1, <4>2
    <3> HIDE DEF m
    <3>6. PickedParent(t) \in MergeNodes /\ d \in PickedParent(t)
      BY <1>3, <3>1, <3>3 DEF m
    <3> QED BY <3>1, <3>2, <3>3, <3>4, <3>5, <3>6
  <2> QED BY <2>3, <2>4
<1>4. CASE gen[Spec1(d)] # 0
  <2>1. gen[Spec1(d)] \in Nat
    BY <1>0, TipTypes, GensAreNatural
  <2> QED BY <1>4, <2>1
<1> QED BY <1>2, <1>3, <1>4

LEMMA PickKeeps ==
  ASSUME IndInv, TypeOK', WorkInv, PickNext
  PROVE  WorkInv'
<1>0. /\ TypeOK /\ OriginInv /\ FedInv
      /\ UNCHANGED <<st, cont, main, track, pr, wt, gen>>
      /\ mst' = [m \in MergeNodes |-> IF m \in Created THEN "pending" ELSE mst[m]]
      /\ msrc' = [m \in MergeNodes |-> IF m \in Created THEN m ELSE msrc[m]]
      /\ mbr' = [m \in MergeNodes |-> IF m \in Created THEN [s \in Specs |-> gen[Spec1(s)]] ELSE mbr[m]]
  BY PickNextFacts DEF IndInv, WorkInv, CreateMergeNodes, gitVars, ownVars
<1>1. PICK n \in PickTier :
        /\ n \in Nodes /\ job' = [job EXCEPT ![n] = "task"]
        /\ n \in MergeNodes => UNCHANGED <<par, pbr>>
        /\ \A t \in Specs : Spec1(t) = n =>
             /\ par' = [par EXCEPT ![t] = PickedParent(t)]
             /\ pbr' = [pbr EXCEPT ![t] = PickedBranch(t)]
  BY PickNextFacts
<1>2. GitStep
  BY <1>0, MainStays DEF GitStep
<1>3. ASSUME NEW t \in Specs, Spec1(t) # n
      PROVE  par'[t] = par[t] /\ pbr'[t] = pbr[t] /\ job'[Spec1(t)] = job[Spec1(t)]
  <2>1. job'[Spec1(t)] = job[Spec1(t)]
    BY <1>0, <1>1, <1>3, NodeFacts DEF TypeOK
  <2>2. CASE n \in MergeNodes
    BY <1>1, <2>1, <2>2
  <2>3. CASE n \notin MergeNodes
    <3>1. PICK s \in Specs : n = Spec1(s)
      BY <1>1, <2>3, NodeFacts DEF Nodes
    <3>2. s # t
      BY <1>3, <3>1
    <3> QED BY <1>0, <1>1, <2>1, <3>1, <3>2 DEF TypeOK
  <2> QED BY <2>2, <2>3
<1>4. OriginInv'
  <2>1. ASSUME NEW t \in Specs, Spec1(t) = n PROVE par'[t] = par[t] \/ Below(par'[t], t)
    <3>1. par'[t] = PickedParent(t)
      BY <1>0, <1>1, <2>1 DEF TypeOK
    <3>2. Below(Unmet(t), t)
      BY DagIsAcyclic DEF Unmet, Below
    <3> QED BY <3>1, <3>2 DEF PickedParent
  <2>2. \A t \in Specs : par'[t] \in {par[t], {}} \/ Below(par'[t], t)
    BY <1>3, <2>1
  <2> QED BY <1>0, <1>2, <2>2, OriginKeeps
<1>5. FedInv'
  BY <1>0, <1>2, FedKeeps
<1>6. ASSUME Settled, NEW m \in MergeNodes PROVE Integrates(m)'
  <2>1. CASE m \in Created
    <3>1. PICK t \in Specs : Stackable(t) /\ Unmet(t) = m
      BY <2>1 DEF Created, Resolves
    <3>2. \A s \in m : s \in Specs /\ (gen[Spec1(s)] = 0 => Fed(s))
      BY <1>0, <1>6, <3>1, StackableFacts
    <3>3. \A s \in m : gen[Spec1(s)] = 0 => Fed(s)'
      BY <1>2, <3>2, FedStays
    <3>4. mst'[m] = "pending" /\ msrc'[m] = m /\ \A s \in m : mbr'[m][s] = gen[Spec1(s)]
      BY <1>0, <2>1, <3>2
    <3> QED BY <3>3, <3>4 DEF Integrates
  <2>2. CASE m \notin Created
    <3>1. mst'[m] = mst[m] /\ msrc'[m] = msrc[m] /\ mbr'[m] = mbr[m]
      BY <1>0, <2>2
    <3>2. MergeStep(m)
      BY <1>0, <3>1 DEF MergeStep
    <3> QED BY <1>2, <1>6, <3>2, IntegratesStays DEF WorkInv, SettledInv
  <2> QED BY <2>1, <2>2
<1>7. \A m \in MergeNodes : mst[m] # "none" => mst'[m] = mst[m]
  BY <1>0 DEF Created
<1>8. ASSUME Settled, NEW t \in Specs PROVE LinkInv(t)'
  <2>1. CASE Spec1(t) # n
    <3>1. RowStep(t)
      BY <1>0, <1>3, <2>1 DEF RowStep, Picked, Gone
    <3>2. \A s \in Specs : Gone(s) => Gone(s)'
      BY <1>0 DEF Gone
    <3>3. LinkInv(t)
      BY <1>8 DEF WorkInv, SettledInv
    <3>4. \A d \in Deps[t] : \A m \in MergeNodes :
            /\ mst[m] # "none" => mst'[m] # "none"
            /\ m = par[t] /\ Holds(t, d) /\ cont[m][0][d] > 0
                 => cont'[m][0][d] > 0 \/ Gone(d)' \/ gen[Spec1(d)] > 0
      BY <1>0, <1>7
    <3> QED BY <1>2, <3>1, <3>2, <3>3, <3>4, LinkStays
  <2>2. CASE Spec1(t) = n
    <3>1. par'[t] = PickedParent(t) /\ pbr'[t] = PickedBranch(t)
      BY <1>0, <1>1, <2>2 DEF TypeOK
    <3>2. ASSUME NEW d \in Deps[t] PROVE Gone(d)' \/ gen'[Spec1(d)] > 0 \/ Holds(t, d)'
      <4>1. d \in Specs /\ (Fed(d) => Fed(d)') /\ (Gone(d) => Gone(d)')
        BY <1>0, <1>2, DagIsAcyclic, FedStays DEF Gone
      <4>2. \/ Gone(d) \/ gen[Spec1(d)] > 0
            \/ par'[t] = Spec1(d) /\ pbr'[t] = 0 /\ Fed(d)
            \/ /\ par'[t] \in MergeNodes /\ d \in par'[t] /\ pbr'[t] = 0
               /\ mst[par'[t]] = "ready" /\ cont[par'[t]][0][d] > 0
        BY <1>1, <1>8, <2>2, <3>1, PickLinks
      <4>3. CASE par'[t] \in MergeNodes /\ d \in par'[t] /\ pbr'[t] = 0
                 /\ mst[par'[t]] = "ready" /\ cont[par'[t]][0][d] > 0
        <5>1. mst'[par'[t]] # "none"
          BY <1>7, <4>3
        <5> QED BY <1>0, <4>3, <5>1 DEF Holds
      <4>4. CASE par'[t] = Spec1(d) /\ pbr'[t] = 0 /\ Fed(d)
        BY <4>1, <4>4 DEF Holds
      <4> QED BY <1>0, <4>1, <4>2, <4>3, <4>4
    <3> QED BY <3>2 DEF LinkInv
  <2> QED BY <2>1, <2>2
<1> QED BY <1>4, <1>5, <1>6, <1>8 DEF WorkInv, SettledInv

-----------------------------------------------------------------------------
(* The theorems.                                                           *)

LEMMA WorkInit == Init => WorkInv
<1> SUFFICES ASSUME Init PROVE WorkInv
  OBVIOUS
<1>1. Nothing \in Contents /\ \A d \in Specs : Nothing[d] = 0
  BY NothingType DEF Nothing
<1>2. OriginInv
  BY <1>1 DEF Init, OriginInv, Below, Within
<1>3. FedInv
  BY DEF Init, FedInv
<1>4. SettledInv
  BY NodeFacts DEF Init, SettledInv, Integrates, LinkInv, Picked
<1> QED BY <1>2, <1>3, <1>4 DEF WorkInv

LEMMA WorkNext == IndInv /\ WorkInv /\ [Next]_vars => WorkInv'
<1> SUFFICES ASSUME IndInv, WorkInv, [Next]_vars PROVE WorkInv'
  OBVIOUS
<1>1. TypeOK'
  BY NextKeeps DEF IndInv
<1>2. CASE PickNext
  BY <1>1, <1>2, PickKeeps
<1>3. ASSUME NEW m \in MergeNodes, IntegrateParents(m) PROVE WorkInv'
  BY <1>1, <1>3, IntegrateKeeps
<1>4. CASE ~PickNext /\ \A m \in MergeNodes : ~IntegrateParents(m)
  <2>1. Effects
    BY <1>4, OtherEffects DEF WorkInv
  <2> QED BY <1>1, <2>1, OtherKeeps
<1> QED BY <1>2, <1>3, <1>4

LEMMA WorkInvariance == Spec => [](IndInv /\ WorkInv)
<1>1. Init => IndInv /\ WorkInv
  BY InitHolds, WorkInit
<1>2. (IndInv /\ WorkInv) /\ [Next]_vars => (IndInv /\ WorkInv)'
  BY NextKeeps, WorkNext
<1> QED BY <1>1, <1>2, PTL DEF Spec

(* With settled parents, the branch of a merge-node that children may fork *)
(* off has work of every source the node still lists (_integrate_parents,  *)
(* at the first build and at every rebuild), whatever was pushed, rebased, *)
(* merged, closed, resumed or restarted since the node was created.        *)
THEOREM ReadyMergeNodes == Settled => (Spec => []ReadyHoldsSources)
<1> SUFFICES ASSUME Settled PROVE Spec => []ReadyHoldsSources
  OBVIOUS
<1>1. IndInv /\ WorkInv => ReadyHoldsSources
  <2> SUFFICES ASSUME IndInv, WorkInv, NEW m \in MergeNodes, mst[m] = "ready",
                      NEW s \in msrc[m], mbr[m][s] = 0
               PROVE  Tip(m)[s] > 0
    BY DEF ReadyHoldsSources
  <2>1. gen[m] = 0 /\ Integrates(m)
    BY DEF IndInv, BranchInv, WorkInv, SettledInv
  <2> QED BY <2>1 DEF Integrates, Tip
<1> QED BY <1>1, WorkInvariance, PTL

(* Only the worker that provisions a task creates its worktree.            *)
LEMMA WhoForks ==
  ASSUME Next, NEW t \in Specs, Spec1(t) \in wt' \ wt
  PROVE  ProvisionWorktree(t)
<1>0. ~(UNCHANGED wt)
  OBVIOUS
<1>1. ~PickNext
  BY <1>0 DEF PickNext, ownVars
<1>2. ~Restart
  BY DEF Restart
<1>3. ASSUME NEW u \in Specs, WorkerStep(u) PROVE ProvisionWorktree(t)
  <2>1. ProvisionWorktree(u)
    BY <1>0, <1>3 DEF WorkerStep, StartTask, Commit, AllSubtasksDone, OpenPr, WorkerBlocks,
       WorkerPoll, WorkerFindsRowEnded, InlineRebase, InlineFinish, InlineFails,
       RunRebaseToMain, ownVars
  <2>2. Spec1(t) \in {Spec1(u)}
    BY <1>0, <2>1 DEF ProvisionWorktree
  <2>3. u = t
    BY <2>2 DEF Spec1
  <2> QED BY <2>1, <2>3
<1>4. ASSUME NEW u \in Specs, WatcherStep(u) \/ OutsideStep(u) PROVE FALSE
  BY <1>0, <1>4 DEF WatcherStep, PollOpen, PollMerged, PollClosed, Settle, WalkWindowEnds,
     OutsideStep, MergePr, ClosePr, Resume, DetectMerged, ownVars
<1>5. ASSUME NEW m \in MergeNodes, MergeNodeStep(m) PROVE FALSE
  <2>1. IntegrateParents(m)
    BY <1>0, <1>5 DEF MergeNodeStep, StartMergeNode, MergeNodeBuilt, MergeNodeBlocks,
       ResumeMergeNode, ownVars
  <2>2. Spec1(t) = m
    BY <2>1 DEF IntegrateParents
  <2> QED BY <2>2, NodeFacts
<1>6. ASSUME NEW n \in Nodes,
             \/ RunRebaseToParentTip(n) \/ RebaseFails(n)
             \/ RebaseIsVain(n) \/ RebaseWindowEnds(n)
      PROVE  FALSE
  BY <1>0, <1>6 DEF RunRebaseToParentTip, RebaseFails, RebaseIsVain, RebaseWindowEnds, ownVars
<1> QED BY <1>1, <1>2, <1>3, <1>4, <1>5, <1>6 DEF Next

LEMMA ForkStep ==
  ASSUME IndInv, WorkInv, Settled, Next, NEW t \in Specs, Spec1(t) \in wt' \ wt,
         NEW d \in Deps[t], ~Gone(d), gen[Spec1(d)] = 0
  PROVE  Tip(Spec1(t))'[d] > 0
<1>1. ProvisionWorktree(t)
  BY WhoForks
<1>2. /\ Picked(t) /\ UNCHANGED gen
      /\ cont' = [cont EXCEPT ![Spec1(t)][gen[Spec1(t)]] = ForkedContent(t)]
  BY <1>1 DEF ProvisionWorktree, Working, Picked
<1>3. Holds(t, d)
  BY <1>2 DEF WorkInv, SettledInv, LinkInv
<1>4. cont'[Spec1(t)][gen'[Spec1(t)]] = ForkedContent(t)
  <2>1. /\ cont \in [Nodes -> [Gens -> Contents]] /\ gen \in [Nodes -> Gens] /\ Spec1(t) \in Nodes
    BY NodeFacts DEF IndInv, TypeOK
  <2> QED BY <1>2, <2>1
<1>5. ForkedContent(t)[d] > 0
  <2>1. par[t] # {} /\ pbr[t] = 0
    BY <1>3, NodeFacts DEF Holds, Spec1
  <2> QED BY <1>3, <2>1 DEF Holds, Fed, ForkedContent, ParentTip
<1> QED BY <1>4, <1>5 DEF Tip

(* With settled parents, the branch a task's provisioning creates has work *)
(* of every dependency that has neither ended nor lost its branch: no pick, *)
(* merge, close, rebase or rebuild between the pick and the fork leaves a  *)
(* task on a base without its dependencies (_provision_worktree).          *)
THEOREM ForksHoldDependencies == Settled => (Spec => ForkHoldsDependencies)
<1> SUFFICES ASSUME Settled PROVE Spec => ForkHoldsDependencies
  OBVIOUS
<1> DEFINE Fork == \A t \in Specs : Spec1(t) \in wt' \ wt =>
                     \A d \in Deps[t] : st[d] \notin {"merged", "closed"} /\ gen[Spec1(d)] = 0
                                         => Tip(Spec1(t))'[d] > 0
<1>1. IndInv /\ WorkInv /\ [Next]_vars => [Fork]_vars
  BY ForkStep DEF Gone
<1> QED BY <1>1, WorkInvariance, PTL DEF Spec, ForkHoldsDependencies

=============================================================================
