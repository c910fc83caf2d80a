----------------------------- MODULE StackingProofs -----------------------------
(***************************************************************************)
(* Theorems about Stacking, for every DAG, every budget and every number   *)
(* of faults, responses and interventions.                                 *)
(***************************************************************************)
EXTENDS Stacking, DataLemmas

-----------------------------------------------------------------------------
(* The inductive invariant.                                                *)

(* A merge-node lists sources it was created for, and no others.           *)
SourcesInv == \A m \in MergeNodes : msrc[m] \subseteq m

(* A row loses a branch only to a restart, a merge-node keeps one name, and *)
(* a merge-node names branches its sources' rows have or had.              *)
BranchInv ==
  /\ \A n \in Nodes : gen[n] <= spent
  /\ \A m \in MergeNodes : gen[m] = 0
  /\ \A m \in MergeNodes : \A s \in Specs : mbr[m][s] <= gen[Spec1(s)]

Gone(s) == st[s] \in {"merged", "closed"}

(* The close that made a merge-node forget all its sources is final: that  *)
(* source has ended and no rebase is left that would reopen it.            *)
ClosedForGood(s) == Gone(s) /\ pr[s] = "closed" /\ job[Spec1(s)] = "none"

ForgetInv ==
  \A m \in MergeNodes : mst[m] # "none" =>
    /\ \/ \A s \in m \ msrc[m] : st[s] = "merged"
       \/ msrc[m] = {} /\ \E s \in m : ClosedForGood(s)
    /\ mst[m] = "retired" => \A s \in m : st[s] = "merged"

(* What the state of a row says of its future, its worktree and its pull   *)
(* request.                                                                *)
RowInv(t) ==
  /\ st[t] \in {"doing", "audit"} => job[Spec1(t)] = "task" /\ Spec1(t) \in wt
  /\ st[t] = "blocked" => job[Spec1(t)] # "task"
  /\ inl[t] # "no" => job[Spec1(t)] = "task" /\ st[t] \in {"doing", "audit", "ci", "merged"}
  /\ st[t] = "rebasing" => job[Spec1(t)] \in {"toMain", "toTip"}
  /\ \/ st[t] \in {"ci", "review", "settled", "rebasing", "resolving"}
     \/ job[Spec1(t)] \in {"toMain", "toTip"}
     \/ st[t] = "prov" /\ job[Spec1(t)] # "task"
     => pr[t] # "none"

RowsInv == \A t \in Specs : RowInv(t)

IndInv == TypeOK /\ SourcesInv /\ BranchInv /\ ForgetInv /\ RowsInv

-----------------------------------------------------------------------------
(* Nodes.                                                                  *)

LEMMA NodeFacts ==
  /\ \A t \in Specs : Spec1(t) \in Nodes /\ Spec1(t) \in SpecNodes /\ Spec1(t) \notin MergeNodes
  /\ \A s, t \in Specs : Spec1(s) = Spec1(t) => s = t
  /\ \A n \in SpecNodes : \E t \in Specs : n = Spec1(t)
  /\ MergeNodes \subseteq Nodes /\ MergeNodes \subseteq SUBSET Specs
<1>1. ASSUME NEW t \in Specs PROVE Spec1(t) \notin MergeNodes
  <2>1. Cardinality({t}) = 1
    BY FS_Singleton
  <2> QED BY <2>1 DEF MergeNodes, Spec1
<1>2. \A t \in Specs : Spec1(t) \in SpecNodes /\ Spec1(t) \in Nodes
  BY DEF SpecNodes, Nodes
<1>3. \A s, t \in Specs : Spec1(s) = Spec1(t) => s = t
  BY DEF Spec1
<1> QED BY <1>1, <1>2, <1>3 DEF SpecNodes, Nodes, MergeNodes

LEMMA NodesAreFinite == IsFiniteSet(Nodes) /\ Cardinality(Nodes) \in Nat
<1>1. IsFiniteSet(SUBSET Specs)
  BY SpecsAreNumbers, FS_SUBSET
<1>2. Nodes \in SUBSET (SUBSET Specs)
  BY DEF Nodes, SpecNodes, MergeNodes, Spec1
<1>3. IsFiniteSet(Nodes)
  BY <1>1, <1>2, FS_Subset
<1> QED BY <1>3, FS_CardinalityType

LEMMA UnmetFacts ==
  ASSUME NEW t \in Specs
  PROVE  Unmet(t) \subseteq Specs /\ (Cardinality(Unmet(t)) > 1 => Unmet(t) \in MergeNodes)
<1>1. Unmet(t) \subseteq Deps[t] /\ Deps[t] \subseteq Specs
  BY DagIsAcyclic DEF Unmet
<1> QED BY <1>1 DEF MergeNodes

-----------------------------------------------------------------------------
(* Contents.                                                               *)

MostCommits == Max({MaxVer[t] : t \in Specs})

LEMMA ContentBound ==
  ASSUME NEW d \in Specs
  PROVE  MostCommits \in Nat /\ MaxVer[d] \in Nat /\ MaxVer[d] <= MostCommits
<1> DEFINE S == {MaxVer[t] : t \in Specs}
<1>1. MaxVer \in [Specs -> Nat] /\ IsFiniteSet(Specs)
  BY BoundsNatural, SpecsAreNumbers
<1>2. S \in SUBSET Nat /\ S # {} /\ MaxVer[d] \in S
  BY <1>1
<1>3. IsFiniteSet(S)
  BY <1>1, ImageIsFinite
<1> HIDE DEF S
<1>4. Max(S) \in S /\ \A y \in S : y <= Max(S)
  BY <1>2, <1>3, MaxIsMember
<1>5. Max(S) = MostCommits
  BY DEF S, MostCommits
<1> QED BY <1>2, <1>4, <1>5

LEMMA ContentFacts ==
  /\ Contents = [Specs -> 0..MostCommits]
  /\ \A c \in Contents : \A d \in Specs : c[d] \in 0..MostCommits /\ c[d] \in Nat
<1>1. Contents = [Specs -> 0..MostCommits]
  BY DEF Contents, MostCommits
<1>2. ASSUME NEW c \in Contents, NEW d \in Specs PROVE c[d] \in 0..MostCommits /\ c[d] \in Nat
  <2>1. MostCommits \in Nat
    BY ContentBound
  <2>2. c[d] \in 0..MostCommits
    BY <1>1
  <2> QED BY <2>1, <2>2
<1> QED BY <1>1, <1>2

LEMMA GensAreNatural == Gens \subseteq Nat /\ 0 \in Gens
  BY BoundsNatural DEF Gens

LEMMA NothingType == Nothing \in Contents
<1>1. \A d \in Specs : 0 \in 0..MostCommits
  BY ContentBound
<1> QED BY <1>1, ContentFacts DEF Nothing

LEMMA JoinType ==
  ASSUME NEW a \in Contents, NEW b \in Contents
  PROVE  Join(a, b) \in Contents
<1>1. \A d \in Specs : a[d] \in 0..MostCommits /\ b[d] \in 0..MostCommits
  BY ContentFacts
<1>2. \A d \in Specs : (IF a[d] > b[d] THEN a[d] ELSE b[d]) \in 0..MostCommits
  BY <1>1
<1> QED BY <1>2, ContentFacts DEF Join

(* What the rows name are branches of the right contents.                  *)
LEMMA TipTypes ==
  ASSUME TypeOK
  PROVE  /\ \A n \in Nodes : gen[n] \in Gens /\ Tip(n) \in Contents
         /\ \A t \in Specs : par[t] # {} => ParentTip(t) \in Contents
         /\ \A m \in MergeNodes : \A s \in Specs : SourceTip(m, s) \in Contents
         /\ \A n \in Nodes : \A g \in Gens : cont[n][g] \in Contents
<1>1. /\ cont \in [Nodes -> [Gens -> Contents]] /\ gen \in [Nodes -> Gens]
      /\ par \in [Specs -> Nodes \union {{}}] /\ pbr \in [Specs -> Gens]
      /\ mbr \in [MergeNodes -> [Specs -> Gens]]
  BY DEF TypeOK
<1>2. \A n \in Nodes : \A g \in Gens : cont[n][g] \in Contents
  BY <1>1
<1>3. \A m \in MergeNodes : \A s \in Specs : mbr[m][s] \in Gens /\ Spec1(s) \in Nodes
  BY <1>1, NodeFacts
<1>4. \A t \in Specs : par[t] # {} => par[t] \in Nodes
  BY <1>1
<1> QED BY <1>1, <1>2, <1>3, <1>4 DEF Tip, ParentTip, SourceTip

LEMMA OntoTypes ==
  ASSUME TypeOK, NEW t \in Specs
  PROVE  /\ OntoMain(t) \in Contents
         /\ par[t] # {} => OntoParent(t) \in Contents
         /\ ForkedContent(t) \in Contents
<1>1. /\ main \in Contents /\ Spec1(t) \in Nodes
      /\ par[t] # {} => par[t] \in Nodes /\ ParentTip(t) \in Contents
  BY NodeFacts, TipTypes DEF TypeOK
<1> DEFINE own == Tip(Spec1(t))
           old == IF par[t] = {} THEN Nothing ELSE ParentTip(t)
           left == [d \in Specs |-> IF own[d] > old[d] THEN own[d] ELSE 0]
<1>2. own \in Contents /\ old \in Contents
  BY <1>1, NothingType, TipTypes
<1>3. left \in Contents
  <2>1. \A d \in Specs : own[d] \in 0..MostCommits /\ 0 \in 0..MostCommits
    BY <1>2, ContentFacts, ContentBound
  <2> HIDE DEF own, old
  <2>2. \A d \in Specs : (IF own[d] > old[d] THEN own[d] ELSE 0) \in 0..MostCommits
    BY <2>1
  <2> QED BY <2>2, ContentFacts
<1>4. OntoMain(t) = Join(main, left)
  BY DEF OntoMain
<1> HIDE DEF left, own, old
<1>5. OntoMain(t) \in Contents
  BY <1>1, <1>3, <1>4, JoinType
<1>6. par[t] # {} => OntoParent(t) \in Contents
  BY <1>1, <1>2, JoinType DEF OntoParent, own
<1>7. ForkedContent(t) \in Contents
  BY <1>1 DEF ForkedContent
<1> QED BY <1>5, <1>6, <1>7

(* The integration has what each listed source's branch has, and nothing   *)
(* that neither the base nor one of them has.                              *)
LEMMA IntegratedType ==
  ASSUME TypeOK, NEW m \in MergeNodes, NEW base \in Contents
  PROVE  /\ Integrated(m, base) \in Contents
         /\ \A s \in msrc[m] : \A d \in Specs : SourceTip(m, s)[d] <= Integrated(m, base)[d]
         /\ \A d \in Specs : \/ Integrated(m, base)[d] = base[d]
                             \/ \E s \in msrc[m] : Integrated(m, base)[d] = SourceTip(m, s)[d]
<1>1. msrc[m] \subseteq Specs /\ IsFiniteSet(msrc[m])
  <2>1. msrc[m] \in SUBSET Specs
    BY DEF TypeOK
  <2> QED BY <2>1, SpecsAreNumbers, FS_Subset
<1>2. ASSUME NEW d \in Specs
      PROVE  /\ Max({base[d]} \union {SourceTip(m, s)[d] : s \in msrc[m]}) \in 0..MostCommits
             /\ \A s \in msrc[m] :
                  SourceTip(m, s)[d] <= Max({base[d]} \union {SourceTip(m, r)[d] : r \in msrc[m]})
             /\ \/ Max({base[d]} \union {SourceTip(m, s)[d] : s \in msrc[m]}) = base[d]
                \/ \E s \in msrc[m] :
                     Max({base[d]} \union {SourceTip(m, r)[d] : r \in msrc[m]}) = SourceTip(m, s)[d]
  <2> DEFINE of == [s \in msrc[m] |-> SourceTip(m, s)[d]]
             A == {of[s] : s \in msrc[m]}
             S == A \union {base[d]}
  <2>1. \A s \in msrc[m] : of[s] \in 0..MostCommits
    BY <1>1, TipTypes, ContentFacts
  <2>2. base[d] \in 0..MostCommits /\ MostCommits \in Nat
    BY ContentFacts, ContentBound
  <2>3. IsFiniteSet(A)
    BY <1>1, ImageIsFinite
  <2>4. IsFiniteSet(S)
    <3> HIDE DEF A
    <3> QED BY <2>3, FS_AddElement
  <2>5. S = {base[d]} \union {SourceTip(m, s)[d] : s \in msrc[m]}
    OBVIOUS
  <2>6. S \subseteq 0..MostCommits /\ S # {}
    BY <2>1, <2>2
  <2>7. /\ \A s \in msrc[m] : SourceTip(m, s)[d] \in S
        /\ \A k \in S : k = base[d] \/ \E s \in msrc[m] : k = SourceTip(m, s)[d]
    OBVIOUS
  <2> HIDE DEF S
  <2>8. Max(S) \in S /\ \A k \in S : k <= Max(S)
    <3>1. S \in SUBSET Nat
      BY <2>2, <2>6
    <3> QED BY <2>4, <2>6, <3>1, MaxIsMember
  <2> QED BY <2>5, <2>6, <2>7, <2>8
<1> QED BY <1>2, ContentFacts DEF Integrated

-----------------------------------------------------------------------------
(* The walks of the cascade.                                               *)

(* Nodes that a cascade may touch: no ended, blocked or pending task.      *)
Touchable == {Spec1(c) : c \in {x \in Specs : st[x] \notin Untouched}} \union MergeNodes

LEMMA TouchableFacts ==
  /\ Touchable \subseteq Nodes
  /\ \A c \in Specs : Spec1(c) \in Touchable => st[c] \notin Untouched
  /\ \A n, ms : ChildrenOf(n, ms) \subseteq Touchable
<1>1. Touchable \subseteq Nodes
  BY NodeFacts DEF Touchable
<1>2. ASSUME NEW c \in Specs, Spec1(c) \in Touchable PROVE st[c] \notin Untouched
  <2>1. Spec1(c) \notin MergeNodes
    BY NodeFacts
  <2>2. PICK x \in Specs : st[x] \notin Untouched /\ Spec1(x) = Spec1(c)
    BY <1>2, <2>1 DEF Touchable
  <2> QED BY <2>2, NodeFacts
<1>3. \A n, ms : ChildrenOf(n, ms) \subseteq Touchable
  BY DEF ChildrenOf, Touchable
<1> QED BY <1>1, <1>2, <1>3

LEMMA DescendantsAreTouchable ==
  ASSUME NEW n, NEW ms
  PROVE  DescendantsOf(n, ms) \subseteq Touchable
<1> DEFINE L == Cardinality(Nodes)
           V == SUBSET Touchable
           kids == ChildrenOf(n, ms)
           step(u) == u \union UNION {ChildrenOf(x, ms) : x \in u}
           G == [k \in 1..L |-> [u \in V |-> step(u)]]
           body(f) == [k \in Heights |-> IF k = 0 THEN ChildrenOf(n, ms)
                         ELSE f[k - 1] \union UNION {ChildrenOf(x, ms) : x \in f[k - 1]}]
<1>1. L \in Nat /\ Heights = 0..L
  BY NodesAreFinite DEF Heights
<1>2. kids \in V /\ \A u \in V : step(u) \in V
  BY TouchableFacts
<1>3. G \in [1..L -> [V -> V]]
  <2> HIDE DEF V, step
  <2> QED BY <1>2
<1>4. PICK g \in [0..L -> V] : g[0] = kids /\ \A k \in 1..L : g[k] = G[k][g[k - 1]]
  <2> HIDE DEF G, L, V, kids
  <2>1. Iterations(L, V, kids, G) # {}
    BY <1>1, <1>2, <1>3, Iterates
  <2> QED BY <2>1 DEF Iterations
<1>5. g = body(g)
  <2>1. ASSUME NEW k \in 1..L PROVE g[k] = step(g[k - 1])
    <3>1. k - 1 \in 0..L
      BY <1>1
    <3> HIDE DEF step, V
    <3> QED BY <1>4, <3>1
  <2>2. ASSUME NEW k \in 0..L PROVE g[k] = body(g)[k]
    <3>1. k = 0 \/ k \in 1..L
      BY <1>1
    <3> HIDE DEF G
    <3> QED BY <1>1, <1>4, <2>1, <3>1
  <2> HIDE DEF L, V
  <2> QED BY <1>1, <1>4, <2>2
<1> DEFINE down == CHOOSE f : f = body(f)
<1>6. down = body(down)
  <2> HIDE DEF body
  <2> QED BY <1>5, Zenon
<1>7. DescendantsOf(n, ms) = down[L]
  BY DEF DescendantsOf
<1> HIDE DEF down
<1>8. ASSUME NEW k \in 0..L
      PROVE  down[k] = IF k = 0 THEN kids ELSE step(down[k - 1])
  <2>1. down[k] = body(down)[k]
    <3> HIDE DEF body
    <3> QED BY <1>6, Zenon
  <2>2. \A f : body(f)[k] = IF k = 0 THEN kids ELSE step(f[k - 1])
    BY <1>1
  <2> HIDE DEF body, step, kids
  <2> QED BY <2>1, <2>2
<1> DEFINE Good == {k \in 0..L : down[k] \in V}
<1>9. 0 \in Good
  <2>1. 0 \in 0..L
    BY <1>1
  <2> HIDE DEF V, step, kids
  <2> QED BY <1>2, <1>8, <2>1
<1>10. ASSUME NEW k \in 1..L, k - 1 \in Good PROVE k \in Good
  <2>1. k \in 0..L /\ k # 0
    BY <1>1
  <2> HIDE DEF V, step, kids
  <2> QED BY <1>2, <1>8, <1>10, <2>1
<1>11. \A k \in 0..L : k \in Good
  <2>1. \A k \in 1..L : k - 1 \in Good => k \in Good
    BY <1>10
  <2> HIDE DEF Good, L
  <2> QED BY <1>1, <1>9, <2>1, UpTo
<1> QED BY <1>1, <1>7, <1>11

-----------------------------------------------------------------------------
(* What the steps have in common.                                          *)

(* A merge-node is not created, retired or robbed of a source.             *)
LEMMA LinkFrame ==
  ASSUME IndInv, TypeOK', UNCHANGED <<msrc, mbr, gen>>, spent <= spent',
         \A s \in Specs : /\ st[s] = "merged" => st'[s] = "merged"
                          /\ ClosedForGood(s) => ClosedForGood(s)',
         \A m \in MergeNodes : /\ mst'[m] # "none" => mst[m] # "none"
                               /\ mst'[m] = "retired" => mst[m] = "retired"
  PROVE  SourcesInv' /\ BranchInv' /\ ForgetInv'
<1>1. SourcesInv'
  BY DEF IndInv, SourcesInv
<1>2. BranchInv'
  <2>1. \A n \in Nodes : gen[n] \in Nat /\ gen[n] <= spent
    BY GensAreNatural DEF IndInv, BranchInv, TypeOK
  <2>2. spent \in Nat /\ spent' \in Nat
    BY BoundsNatural DEF IndInv, TypeOK
  <2> QED BY <2>1, <2>2 DEF IndInv, BranchInv
<1>3. ASSUME NEW m \in MergeNodes, mst'[m] # "none"
      PROVE  /\ \/ \A s \in m \ msrc'[m] : st'[s] = "merged"
                \/ msrc'[m] = {} /\ \E s \in m : ClosedForGood(s)'
             /\ mst'[m] = "retired" => \A s \in m : st'[s] = "merged"
  <2>1. m \subseteq Specs /\ mst[m] # "none"
    BY <1>3, NodeFacts
  <2>2. \/ \A s \in m \ msrc[m] : st[s] = "merged"
        \/ msrc[m] = {} /\ \E s \in m : ClosedForGood(s)
    BY <2>1 DEF IndInv, ForgetInv
  <2>3. mst[m] = "retired" => \A s \in m : st[s] = "merged"
    BY <2>1 DEF IndInv, ForgetInv
  <2> QED BY <2>1, <2>2, <2>3
<1> QED BY <1>1, <1>2, <1>3 DEF ForgetInv

(* One node moves; every other row, future, worktree and pull request is   *)
(* left alone.                                                             *)
LEMMA NodeMoves ==
  ASSUME IndInv, TypeOK', NEW n \in Nodes, UNCHANGED <<msrc, mbr, gen>>,
         spent <= spent', wt \subseteq wt',
         \A s \in Specs : Spec1(s) # n => st'[s] = st[s] /\ inl'[s] = inl[s] /\ pr'[s] = pr[s],
         \A k \in Nodes \ {n} : job'[k] = job[k],
         \A m \in MergeNodes : /\ mst'[m] # "none" => mst[m] # "none"
                               /\ mst'[m] = "retired" => mst[m] = "retired",
         \A s \in Specs : Spec1(s) = n =>
           /\ RowInv(s)'
           /\ st[s] = "merged" => st'[s] = "merged"
           /\ ClosedForGood(s) => ClosedForGood(s)'
  PROVE  IndInv'
<1>1. ASSUME NEW s \in Specs, Spec1(s) # n
      PROVE  RowInv(s)' /\ (ClosedForGood(s) => ClosedForGood(s)')
  <2>1. job'[Spec1(s)] = job[Spec1(s)]
    BY <1>1, NodeFacts
  <2>2. RowInv(s)
    BY DEF IndInv, RowsInv
  <2> QED BY <1>1, <2>1, <2>2 DEF RowInv, ClosedForGood, Gone
<1>2. RowsInv'
  BY <1>1 DEF RowsInv
<1>3. SourcesInv' /\ BranchInv' /\ ForgetInv'
  BY <1>1, LinkFrame
<1> QED BY <1>2, <1>3 DEF IndInv

(* A task moves that has not ended, and no merge-node does.                *)
LEMMA TaskMoves ==
  ASSUME IndInv, TypeOK', NEW t \in Specs, UNCHANGED <<mst, msrc, mbr, gen>>,
         spent <= spent', wt \subseteq wt',
         \A s \in Specs \ {t} : st'[s] = st[s] /\ inl'[s] = inl[s] /\ pr'[s] = pr[s],
         \A k \in Nodes \ {Spec1(t)} : job'[k] = job[k],
         RowInv(t)', st[t] = "merged" => st'[t] = "merged",
         ClosedForGood(t) => ClosedForGood(t)'
  PROVE  IndInv'
<1>1. Spec1(t) \in Nodes /\ \A s \in Specs : Spec1(s) = Spec1(t) => s = t
  BY NodeFacts
<1> QED BY <1>1, NodeMoves

(* No row, future, worktree or pull request changes.                       *)
LEMMA Stands ==
  ASSUME IndInv, TypeOK', UNCHANGED <<st, mst, msrc, mbr, gen, wt, inl, job, pr>>, spent <= spent'
  PROVE  IndInv'
<1>1. SourcesInv' /\ BranchInv' /\ ForgetInv'
  BY LinkFrame DEF ClosedForGood, Gone
<1> QED BY <1>1 DEF IndInv, RowsInv, RowInv

LEMMA TroubleType ==
  ASSUME TypeOK
  PROVE  /\ spent <= spent
         /\ Trouble => spent' \in 0..MaxTrouble /\ spent <= spent'
<1>1. MaxTrouble \in Nat /\ spent \in 0..MaxTrouble
  BY BoundsNatural DEF TypeOK
<1> QED BY <1>1 DEF Trouble

LEMMA BranchWritten ==
  ASSUME TypeOK, NEW n \in Nodes, NEW c \in Contents, cont' = [cont EXCEPT ![n][gen[n]] = c]
  PROVE  /\ cont' \in [Nodes -> [Gens -> Contents]]
         /\ cont'[n][gen[n]] = c
         /\ \A k \in Nodes : \A g \in Gens : k # n \/ g # gen[n] => cont'[k][g] = cont[k][g]
<1>1. gen[n] \in Gens /\ cont \in [Nodes -> [Gens -> Contents]]
  BY DEF TypeOK
<1> DEFINE b == [cont[n] EXCEPT ![gen[n]] = c]
<1>2. cont' = [cont EXCEPT ![n] = b]
  OBVIOUS
<1>3. b \in [Gens -> Contents] /\ b[gen[n]] = c /\ \A g \in Gens \ {gen[n]} : b[g] = cont[n][g]
  BY <1>1
<1> HIDE DEF b
<1> QED BY <1>1, <1>2, <1>3

LEMMA PushedTypes ==
  ASSUME TypeOK, NEW t \in Specs, NEW c \in Contents, NEW h, Pushed(t, c, h)
  PROVE  cont' \in [Nodes -> [Gens -> Contents]] /\ seen' \in [Specs -> {"none", "same", "old"}]
<1>1. seen[t] \in {"none", "same", "old"} /\ Spec1(t) \in Nodes
  BY NodeFacts DEF TypeOK
<1>2. \/ seen' = [seen EXCEPT ![t] = "old"]
      \/ seen' = [seen EXCEPT ![t] = seen[t]]
  BY DEF Pushed
<1>3. cont' \in [Nodes -> [Gens -> Contents]]
  BY <1>1, BranchWritten DEF Pushed
<1> QED BY <1>1, <1>2, <1>3 DEF TypeOK

-----------------------------------------------------------------------------
(* Every step keeps the invariant.                                         *)

LEMMA WorkerStepKeeps ==
  ASSUME IndInv, NEW t \in Specs, WorkerStep(t), ~InlineFinish(t), ~RunRebaseToMain(t)
  PROVE  IndInv'
<1>0. /\ TypeOK /\ RowInv(t) /\ Spec1(t) \in Nodes /\ spent <= spent
      /\ Trouble => spent' \in 0..MaxTrouble /\ spent <= spent'
      /\ \A k \in Nodes : job[k] \in {"none", "task", "toMain", "toTip"}
  BY NodeFacts, TroubleType DEF IndInv, RowsInv, TypeOK
<1>1. CASE StartTask(t)
  <2>1. TypeOK'
    BY <1>0, <1>1 DEF StartTask, TypeOK, States, linkVars, winVars, gitVars, ownVars
  <2>2. RowInv(t)' /\ ~ClosedForGood(t)
    BY <1>0, <1>1
       DEF StartTask, Working, RowInv, ClosedForGood, Gone, TypeOK, linkVars,
           winVars, gitVars, ownVars
  <2> QED BY <1>0, <1>1, <2>1, <2>2, TaskMoves
          DEF StartTask, Working, TypeOK, linkVars, winVars, gitVars, ownVars
<1>2. CASE ProvisionWorktree(t)
  <2>1. /\ cont' \in [Nodes -> [Gens -> Contents]] /\ track' \in Contents
        /\ wt' \subseteq Nodes /\ wt \subseteq wt' /\ Spec1(t) \in wt'
    <3>1. CASE Spec1(t) \in wt
      BY <1>0, <1>2, <3>1 DEF ProvisionWorktree, TypeOK
    <3>2. CASE Spec1(t) \notin wt
      <4>1. cont' = [cont EXCEPT ![Spec1(t)][gen[Spec1(t)]] = ForkedContent(t)]
        BY <1>2, <3>2 DEF ProvisionWorktree
      <4>2. cont' \in [Nodes -> [Gens -> Contents]]
        BY <1>0, <4>1, OntoTypes, BranchWritten
      <4> QED BY <1>0, <1>2, <3>2, <4>2 DEF ProvisionWorktree, TypeOK
    <3> QED BY <3>1, <3>2
  <2>2. TypeOK'
    BY <1>0, <1>2, <2>1 DEF ProvisionWorktree, TypeOK, States, linkVars, winVars, gitVars, ownVars
  <2>3. RowInv(t)' /\ ~ClosedForGood(t)
    BY <1>0, <1>2, <2>1
       DEF ProvisionWorktree, Working, RowInv, ClosedForGood, Gone, TypeOK,
           linkVars, winVars, gitVars, ownVars
  <2> QED BY <1>0, <1>2, <2>1, <2>2, <2>3, TaskMoves
          DEF ProvisionWorktree, Working, TypeOK, linkVars, winVars, gitVars, ownVars
<1>3. CASE Commit(t)
  <2> DEFINE own == Tip(Spec1(t))
             c == [own EXCEPT ![t] = own[t] + 1]
  <2>1. own \in Contents /\ own[t] < MaxVer[t]
    BY <1>0, <1>3, TipTypes DEF Commit
  <2>2. c \in Contents
    <3> HIDE DEF own
    <3>1. own[t] + 1 \in 0..MostCommits
      BY <2>1, ContentBound, ContentFacts
    <3> QED BY <2>1, <3>1, ContentFacts
  <2>3. Pushed(t, c, head[t])
    BY <1>3 DEF Commit
  <2> HIDE DEF c, own
  <2>4. cont' \in [Nodes -> [Gens -> Contents]] /\ seen' \in [Specs -> {"none", "same", "old"}]
    BY <1>0, <2>2, <2>3, PushedTypes
  <2>5. TypeOK'
    BY <1>0, <1>3, <2>1, <2>2, <2>3, <2>4
       DEF Commit, TypeOK, States, linkVars, winVars, gitVars, ownVars
  <2>6. RowInv(t)' /\ ~ClosedForGood(t)
    BY <1>0, <1>3, <2>1, <2>2, <2>3, <2>4
       DEF Commit, Working, RowInv, ClosedForGood, Gone, TypeOK, linkVars, winVars, gitVars, ownVars
  <2> QED BY <1>0, <1>3, <2>1, <2>2, <2>3, <2>4, <2>5, <2>6, TaskMoves
          DEF Commit, Working, TypeOK, linkVars, winVars, gitVars, ownVars
<1>4. CASE AllSubtasksDone(t)
  <2>1. TypeOK'
    BY <1>0, <1>4 DEF AllSubtasksDone, TypeOK, States, linkVars, winVars, gitVars, ownVars
  <2>2. RowInv(t)' /\ ~ClosedForGood(t)
    BY <1>0, <1>4
       DEF AllSubtasksDone, Working, RowInv, ClosedForGood, Gone, TypeOK,
           linkVars, winVars, gitVars, ownVars
  <2> QED BY <1>0, <1>4, <2>1, <2>2, TaskMoves
          DEF AllSubtasksDone, Working, TypeOK, linkVars, winVars, gitVars, ownVars
<1>5. CASE OpenPr(t)
  <2>1. /\ pr' \in [Specs -> {"none", "open", "merged", "closed"}] /\ head' \in [Specs -> Gens]
        /\ pr'[t] # "none" /\ \A s \in Specs \ {t} : pr'[s] = pr[s]
    <3>1. pr \in [Specs -> {"none", "open", "merged", "closed"}] /\ head \in [Specs -> Gens]
          /\ gen[Spec1(t)] \in Gens
      BY <1>0, TipTypes DEF TypeOK
    <3>2. \/ /\ pr' = [pr EXCEPT ![t] = "open"]
             /\ head' = [head EXCEPT ![t] = gen[Spec1(t)]]
          \/ pr[t] # "none" /\ pr' = pr /\ head' = head
      BY <1>5 DEF OpenPr
    <3> QED BY <3>1, <3>2
  <2>2. TypeOK'
    BY <1>0, <1>5, <2>1 DEF OpenPr, TypeOK, States, linkVars, winVars, gitVars, ownVars
  <2>3. RowInv(t)' /\ ~ClosedForGood(t)
    BY <1>0, <1>5, <2>1
       DEF OpenPr, Working, RowInv, ClosedForGood, Gone, TypeOK, linkVars, winVars, gitVars, ownVars
  <2> QED BY <1>0, <1>5, <2>1, <2>2, <2>3, TaskMoves
          DEF OpenPr, Working, TypeOK, linkVars, winVars, gitVars, ownVars
<1>6. CASE WorkerBlocks(t)
  <2>1. TypeOK'
    BY <1>0, <1>6 DEF WorkerBlocks, TypeOK, States, linkVars, winVars, gitVars, ownVars
  <2>2. RowInv(t)' /\ ~ClosedForGood(t)
    BY <1>0, <1>6
       DEF WorkerBlocks, Working, RowInv, ClosedForGood, Gone, TypeOK, linkVars,
           winVars, gitVars, ownVars
  <2> QED BY <1>0, <1>6, <2>1, <2>2, TaskMoves
          DEF WorkerBlocks, Working, TypeOK, linkVars, winVars, gitVars, ownVars
<1>7. CASE WorkerPoll(t)
  <2>1. /\ st' \in [Specs -> States] /\ track' \in Contents
        /\ \A s \in Specs \ {t} : st'[s] = st[s]
        /\ st'[t] \in {"ci", "merged", "closed"} /\ st[t] = "ci"
    <3>1. st \in [Specs -> States] /\ st[t] = "ci" /\ main \in Contents /\ track \in Contents
      BY <1>0, <1>7 DEF WorkerPoll, Working, TypeOK
    <3>2. \/ st' = [st EXCEPT ![t] = "merged"]
          \/ st' = [st EXCEPT ![t] = "closed"]
          \/ st' = st
      BY <1>7 DEF WorkerPoll
    <3>3. track' \in {main, track}
      BY <1>7 DEF WorkerPoll
    <3> QED BY <3>1, <3>2, <3>3 DEF States
  <2>2. TypeOK'
    BY <1>0, <1>7, <2>1 DEF WorkerPoll, TypeOK, States, linkVars, winVars, gitVars, ownVars
  <2>3. RowInv(t)' /\ ~ClosedForGood(t)
    BY <1>0, <1>7, <2>1
       DEF WorkerPoll, Working, RowInv, ClosedForGood, Gone, TypeOK, linkVars,
           winVars, gitVars, ownVars
  <2> QED BY <1>0, <1>7, <2>1, <2>2, <2>3, TaskMoves
          DEF WorkerPoll, Working, TypeOK, linkVars, winVars, gitVars, ownVars
<1>8. CASE WorkerFindsRowEnded(t)
  <2>1. TypeOK'
    BY <1>0, <1>8
       DEF WorkerFindsRowEnded, TypeOK, States, linkVars, winVars, gitVars, ownVars, rowVars
  <2>2. RowInv(t)' /\ ~ClosedForGood(t)
    BY <1>0, <1>8
       DEF WorkerFindsRowEnded, Working, RowInv, ClosedForGood, Gone, TypeOK,
           linkVars, winVars, gitVars, ownVars, rowVars
  <2> QED BY <1>0, <1>8, <2>1, <2>2, TaskMoves
          DEF WorkerFindsRowEnded, Working, TypeOK, linkVars, winVars, gitVars, ownVars, rowVars
<1>9. CASE InlineRebase(t)
  <2> DEFINE target == IF AllParentsMerged(t) THEN "main" ELSE "tip"
             c == IF target = "main" THEN OntoMain(t) ELSE OntoParent(t)
  <2>1. c \in Contents /\ Pushed(t, c, head[t])
    <3>1. ~AllParentsMerged(t) => par[t] # {}
      BY DEF AllParentsMerged
    <3> QED BY <1>0, <1>9, <3>1, OntoTypes DEF InlineRebase
  <2>2. /\ inl' = [inl EXCEPT ![t] = target] /\ track' \in {main, track}
        /\ target \in {"no", "main", "tip"}
    BY <1>9 DEF InlineRebase
  <2> HIDE DEF c, target
  <2>3. cont' \in [Nodes -> [Gens -> Contents]] /\ seen' \in [Specs -> {"none", "same", "old"}]
    BY <1>0, <2>1, PushedTypes
  <2>4. /\ Working(t, {"doing", "audit", "ci"})
        /\ UNCHANGED <<st, linkVars, mst, winVars, main, pr, head, ownVars, job, spent>>
    BY <1>9 DEF InlineRebase
  <2>5. TypeOK'
    BY <1>0, <2>2, <2>3, <2>4 DEF TypeOK, linkVars, winVars, ownVars
  <2>6. RowInv(t)' /\ ~ClosedForGood(t)
    BY <1>0, <2>2, <2>4 DEF Working, RowInv, ClosedForGood, Gone, TypeOK, ownVars
  <2> QED BY <1>0, <2>2, <2>4, <2>5, <2>6, TaskMoves DEF TypeOK, linkVars, ownVars
<1>10. CASE InlineFails(t)
  <2>1. spent' \in 0..MaxTrouble /\ spent <= spent'
    BY <1>0, <1>10 DEF InlineFails, TypeOK
  <2>2. TypeOK'
    BY <1>0, <1>10, <2>1 DEF InlineFails, TypeOK, States, linkVars, winVars, gitVars, ownVars
  <2>3. RowInv(t)' /\ ~ClosedForGood(t)
    BY <1>0, <1>10, <2>1
       DEF InlineFails, Working, RowInv, ClosedForGood, Gone, TypeOK, linkVars,
           winVars, gitVars, ownVars
  <2> QED BY <1>0, <1>10, <2>1, <2>2, <2>3, TaskMoves
          DEF InlineFails, Working, TypeOK, linkVars, winVars, gitVars, ownVars
<1> QED BY <1>1, <1>2, <1>3, <1>4, <1>5, <1>6, <1>7, <1>8, <1>9, <1>10 DEF WorkerStep

(* A scheduled rebase ends: the row leaves REBASING_TO_MAIN, or becomes     *)
(* PROVISIONING when the task was resumed meanwhile.                       *)
LEMMA RebaseDoneFacts ==
  ASSUME TypeOK, NEW n \in Nodes, NEW next \in {"ci", "resolving", "blocked"}, RebaseDone(n, next)
  PROVE  /\ job' = [job EXCEPT ![n] = "none"]
         /\ st' \in [Specs -> States] /\ mst' \in [MergeNodes -> MStates]
         /\ \A s \in Specs : Spec1(s) # n => st'[s] = st[s]
         /\ \A s \in Specs : Spec1(s) = n =>
              \/ st[s] = "rebasing" /\ st'[s] \in {"ci", "resolving", "blocked"}
              \/ st[s] = "pending" /\ st'[s] \in {"prov", "blocked"}
              \/ st[s] \notin {"rebasing", "pending"} /\ st'[s] = st[s]
         /\ \A m \in MergeNodes : /\ mst'[m] \in {mst[m], "stray", "blocked"}
                                  /\ mst[m] = "none" => mst'[m] = "none"
<1>1. /\ job' = [job EXCEPT ![n] = "none"]
      /\ st' = [t \in Specs |-> IF Spec1(t) = n THEN RebasedState(st[t], next) ELSE st[t]]
      /\ mst' = [m \in MergeNodes |-> IF m = n THEN RebasedMergeState(mst[m], next) ELSE mst[m]]
  BY DEF RebaseDone
<1>2. ASSUME NEW s \in States
      PROVE  LET r == RebasedState(s, next) IN
             /\ r \in States
             /\ \/ s = "rebasing" /\ r \in {"ci", "resolving", "blocked"}
                \/ s = "pending" /\ r \in {"prov", "blocked"}
                \/ s \notin {"rebasing", "pending"} /\ r = s
  <2>1. CASE s = "rebasing"
    BY <2>1 DEF RebasedState, States
  <2>2. CASE s = "pending" /\ next = "blocked"
    BY <2>2 DEF RebasedState, States
  <2>3. CASE s = "pending" /\ next # "blocked"
    BY <2>3 DEF RebasedState, States
  <2>4. CASE s \notin {"rebasing", "pending"}
    BY <2>4 DEF RebasedState
  <2> QED BY <2>1, <2>2, <2>3, <2>4
<1>3. \A m \in MergeNodes : mst'[m] \in MStates /\ mst'[m] \in {mst[m], "stray", "blocked"}
                            /\ (mst[m] = "none" => mst'[m] = "none")
  BY <1>1 DEF RebasedMergeState, TypeOK, MStates
<1>4. st' \in [Specs -> States]
  BY <1>1, <1>2 DEF TypeOK
<1>5. mst' \in [MergeNodes -> MStates]
  BY <1>1, <1>3
<1> QED BY <1>1, <1>2, <1>3, <1>4, <1>5 DEF TypeOK

LEMMA RebaseDoneKeeps ==
  ASSUME IndInv, NEW n \in Nodes, job[n] \in {"toMain", "toTip"},
         NEW next \in {"ci", "resolving", "blocked"},
         RebaseDone(n, next), UNCHANGED <<msrc, mbr, ownVars, inl>>, spent <= spent',
         \A s \in Specs : (Spec1(s) # n => pr'[s] = pr[s]) /\ (pr[s] # "none" => pr'[s] # "none"),
         /\ job' \in [Nodes -> {"none", "task", "toMain", "toTip"}]
         /\ st' \in [Specs -> States] /\ mst' \in [MergeNodes -> MStates]
         => TypeOK'
  PROVE  IndInv'
<1>1. TypeOK /\ job' = [job EXCEPT ![n] = "none"]
  BY RebaseDoneFacts DEF IndInv
<1>2. TypeOK'
  <2>1. job' \in [Nodes -> {"none", "task", "toMain", "toTip"}]
    BY <1>1 DEF TypeOK
  <2> QED BY <1>1, <2>1, RebaseDoneFacts
<1>3. ASSUME NEW s \in Specs, Spec1(s) = n
      PROVE  /\ RowInv(s)' /\ ~ClosedForGood(s)
             /\ st[s] = "merged" => st'[s] = "merged"
  <2>1. RowInv(s) /\ job'[n] = "none"
    BY <1>1 DEF IndInv, RowsInv, TypeOK
  <2>2. pr[s] # "none" /\ inl[s] = "no" /\ st[s] \notin {"doing", "audit"}
    BY <1>3, <2>1 DEF RowInv
  <2>3. \/ st[s] # "merged" /\ st'[s] \in {"ci", "resolving", "blocked", "prov"}
        \/ st'[s] = st[s] /\ st[s] # "rebasing"
    BY <1>1, <1>3, RebaseDoneFacts
  <2> QED BY <1>3, <2>1, <2>2, <2>3 DEF RowInv, ClosedForGood
<1>4. \A k \in Nodes \ {n} : job'[k] = job[k]
  BY <1>1 DEF TypeOK
<1>5. \A s \in Specs : Spec1(s) # n => st'[s] = st[s] /\ inl'[s] = inl[s]
  BY <1>1, RebaseDoneFacts
<1>6. \A m \in MergeNodes : /\ mst'[m] # "none" => mst[m] # "none"
                            /\ mst'[m] = "retired" => mst[m] = "retired"
  BY <1>1, RebaseDoneFacts
<1>7. wt \subseteq wt' /\ gen' = gen
  BY DEF ownVars
<1> QED BY <1>2, <1>3, <1>4, <1>5, <1>6, <1>7, NodeMoves

LEMMA FirstParentType ==
  ASSUME TypeOK, NEW n \in Nodes, ParentsOf(n) # {}
  PROVE  /\ OntoFirstParent(n) \in Contents
         /\ n \in MergeNodes => Min(msrc[n]) \in msrc[n] /\ msrc[n] \subseteq Specs
         /\ n \notin MergeNodes => \E t \in Specs :
              /\ n = Spec1(t) /\ par[t] # {}
              /\ OntoFirstParent(n) = Join(ParentTip(t), Tip(n))
<1>1. CASE n \in MergeNodes
  <2>1. msrc[n] # {} /\ msrc[n] \in SUBSET Specs
    BY <1>1 DEF ParentsOf, TypeOK
  <2>2. Min(msrc[n]) \in msrc[n]
    BY <2>1, SpecsAreNumbers, MinIsMember
  <2>3. SourceTip(n, Min(msrc[n])) \in Contents /\ Tip(n) \in Contents
    BY <1>1, <2>1, <2>2, TipTypes
  <2> QED BY <1>1, <2>1, <2>2, <2>3, JoinType DEF OntoFirstParent
<1>2. CASE n \notin MergeNodes
  <2>1. PICK t \in Specs : n = Spec1(t)
    BY <1>2, NodeFacts DEF Nodes
  <2>2. (CHOOSE x \in n : TRUE) = t
    BY <2>1 DEF Spec1
  <2>3. par[t] # {}
    BY <1>2, <2>2 DEF ParentsOf
  <2>4. OntoFirstParent(n) = Join(ParentTip(t), Tip(n))
    BY <1>2, <2>2 DEF OntoFirstParent
  <2> QED BY <1>2, <2>1, <2>3, <2>4, TipTypes, JoinType
<1> QED BY <1>1, <1>2

LEMMA RebaseStepKeeps ==
  ASSUME IndInv, NEW n \in Nodes,
         \/ \E t \in Specs : n = Spec1(t) /\ RunRebaseToMain(t)
         \/ RunRebaseToParentTip(n) \/ RebaseFails(n) \/ RebaseIsVain(n) \/ RebaseWindowEnds(n)
  PROVE  IndInv'
<1> DEFINE Typed == /\ job' \in [Nodes -> {"none", "task", "toMain", "toTip"}]
                    /\ st' \in [Specs -> States] /\ mst' \in [MergeNodes -> MStates]
<1>0. TypeOK /\ spent <= spent
  BY TroubleType DEF IndInv
<1>1. ASSUME NEW t \in Specs, n = Spec1(t), RunRebaseToMain(t) PROVE IndInv'
  <2>1. PICK next \in RebaseEnds :
          /\ RebaseDone(n, next)
          /\ \/ /\ Pushed(t, OntoMain(t), head[t])
                /\ UNCHANGED <<pr, head>>
             \/ /\ Pushed(t, OntoMain(t), gen[Spec1(t)])
                /\ pr' = [pr EXCEPT ![t] = "open"]
                /\ head' = [head EXCEPT ![t] = gen[Spec1(t)]]
    BY <1>1 DEF RunRebaseToMain
  <2>2. cont' \in [Nodes -> [Gens -> Contents]] /\ seen' \in [Specs -> {"none", "same", "old"}]
    BY <1>0, <1>1, <2>1, OntoTypes, PushedTypes
  <2>3. /\ pr' \in [Specs -> {"none", "open", "merged", "closed"}] /\ head' \in [Specs -> Gens]
        /\ \A s \in Specs : /\ Spec1(s) # n => pr'[s] = pr[s]
                            /\ pr[s] # "none" => pr'[s] # "none"
    <3>1. /\ pr \in [Specs -> {"none", "open", "merged", "closed"}] /\ head \in [Specs -> Gens]
          /\ gen[Spec1(t)] \in Gens
      BY <1>0, <1>1, TipTypes DEF TypeOK
    <3> QED BY <1>1, <2>1, <3>1
  <2>4. ASSUME Typed PROVE TypeOK'
    <3>1. par' \in [Specs -> Nodes \union {{}}] /\ flag' \subseteq Specs
      BY <1>0, <1>1 DEF RunRebaseToMain, TypeOK
    <3>2. track' = main /\ UNCHANGED <<pbr, msrc, mbr, winVars, main, ownVars, inl, spent>>
      BY <1>1 DEF RunRebaseToMain
    <3> QED BY <1>0, <2>2, <2>3, <2>4, <3>1, <3>2 DEF TypeOK, winVars, ownVars
  <2>5. job[n] = "toMain" /\ UNCHANGED <<msrc, mbr, ownVars, inl, spent>>
    BY <1>1 DEF RunRebaseToMain
  <2> QED BY <1>0, <2>1, <2>3, <2>4, <2>5, RebaseDoneKeeps DEF RebaseEnds
<1>2. CASE RunRebaseToParentTip(n)
  <2>1. PICK next \in RebaseEnds \ {"blocked"} : RebaseDone(n, next)
    BY <1>2 DEF RunRebaseToParentTip
  <2>2. OntoFirstParent(n) \in Contents
    BY <1>0, <1>2, FirstParentType DEF RunRebaseToParentTip
  <2>3. cont' \in [Nodes -> [Gens -> Contents]]
    BY <1>0, <1>2, <2>2, BranchWritten DEF RunRebaseToParentTip
  <2>4. seen' \in [Specs -> {"none", "same", "old"}]
    BY <1>0, <1>2 DEF RunRebaseToParentTip, TypeOK
  <2>5. /\ job[n] = "toTip"
        /\ UNCHANGED <<linkVars, winVars, main, track, pr, head, ownVars, inl, spent>>
    BY <1>2 DEF RunRebaseToParentTip
  <2>6. ASSUME Typed PROVE TypeOK'
    BY <1>0, <2>3, <2>4, <2>5, <2>6 DEF TypeOK, linkVars, winVars, ownVars
  <2> QED BY <1>0, <2>1, <2>5, <2>6, RebaseDoneKeeps DEF RebaseEnds, linkVars
<1>3. CASE RebaseFails(n)
  <2>1. PICK next \in {"ci", "blocked"} : RebaseDone(n, next)
    BY <1>3 DEF RebaseFails
  <2>2. /\ job[n] \in {"toMain", "toTip"} /\ spent' \in 0..MaxTrouble /\ spent <= spent'
        /\ UNCHANGED <<linkVars, seen, winVars, gitVars, ownVars, inl>>
    BY <1>0, <1>3, TroubleType DEF RebaseFails
  <2>3. ASSUME Typed PROVE TypeOK'
    BY <1>0, <2>2, <2>3 DEF TypeOK, linkVars, winVars, gitVars, ownVars
  <2> QED BY <2>1, <2>2, <2>3, RebaseDoneKeeps DEF linkVars, gitVars
<1>4. CASE RebaseIsVain(n)
  <2>1. PICK next \in {"ci", "blocked"} : RebaseDone(n, next)
    BY <1>4 DEF RebaseIsVain
  <2>2. /\ job[n] \in {"toMain", "toTip"} /\ spent' = spent
        /\ UNCHANGED <<linkVars, seen, winVars, gitVars, ownVars, inl>>
    BY <1>4 DEF RebaseIsVain
  <2>3. ASSUME Typed PROVE TypeOK'
    BY <1>0, <2>2, <2>3 DEF TypeOK, linkVars, winVars, gitVars, ownVars
  <2> QED BY <1>0, <2>1, <2>2, <2>3, RebaseDoneKeeps DEF linkVars, gitVars
<1>5. CASE RebaseWindowEnds(n)
  <2>1. TypeOK'
    BY <1>0, <1>5 DEF RebaseWindowEnds, TypeOK, rowVars, linkVars, gitVars, ownVars
  <2> QED BY <1>0, <1>5, <2>1, Stands
          DEF RebaseWindowEnds, rowVars, linkVars, gitVars, ownVars
<1> QED BY <1>1, <1>2, <1>3, <1>4, <1>5

LEMMA InlineFinishKeeps ==
  ASSUME IndInv, NEW t \in Specs, InlineFinish(t)
  PROVE  IndInv'
<1>0. TypeOK /\ RowInv(t) /\ spent <= spent
  BY TroubleType DEF IndInv, RowsInv
<1>1. par' \in [Specs -> Nodes \union {{}}]
  BY <1>0 DEF InlineFinish, TypeOK
<1>2. TypeOK'
  BY <1>0, <1>1 DEF InlineFinish, TypeOK, winVars, gitVars, ownVars
<1>3. RowInv(t)' /\ ~ClosedForGood(t)
  BY <1>0 DEF InlineFinish, RowInv, ClosedForGood, TypeOK, gitVars, ownVars
<1> QED BY <1>0, <1>2, <1>3, TaskMoves DEF InlineFinish, TypeOK, gitVars, ownVars

LEMMA MergeNodeStepKeeps ==
  ASSUME IndInv, NEW m \in MergeNodes, MergeNodeStep(m)
  PROVE  IndInv'
<1>0. /\ TypeOK /\ m \in Nodes /\ \A s \in Specs : Spec1(s) # m /\ Spec1(s) \in Nodes
      /\ spent <= spent /\ (Trouble => spent' \in 0..MaxTrouble /\ spent <= spent')
  BY NodeFacts, TroubleType DEF IndInv
(* No spec task's row or future changes.                                   *)
<1>1. ASSUME TypeOK', UNCHANGED <<st, inl, msrc, mbr, gen, pr>>, spent <= spent', wt \subseteq wt',
             \A n \in Nodes \ {m} : job'[n] = job[n],
             \A k \in MergeNodes : /\ mst'[k] # "none" => mst[k] # "none"
                                   /\ mst'[k] = "retired" => mst[k] = "retired"
      PROVE  IndInv'
  BY <1>0, <1>1, NodeMoves
<1>2. CASE StartMergeNode(m)
  <2>1. TypeOK'
    BY <1>0, <1>2 DEF StartMergeNode, TypeOK, MStates, linkVars, winVars, gitVars, ownVars
  <2> QED BY <1>0, <1>1, <1>2, <2>1
          DEF StartMergeNode, MergeWorking, TypeOK, linkVars, gitVars, ownVars
<1>3. CASE IntegrateParents(m)
  <2>1. FetchedBase(m) \in Contents
    BY <1>0 DEF FetchedBase, TypeOK
  <2>2. Integrated(m, FetchedBase(m)) \in Contents
    BY <1>0, <2>1, IntegratedType
  <2>3. cont' \in [Nodes -> [Gens -> Contents]]
    <3>1. \/ cont' = cont
          \/ cont' = [cont EXCEPT ![m][gen[m]] = Integrated(m, FetchedBase(m))]
      BY <1>3 DEF IntegrateParents
    <3> QED BY <1>0, <2>2, <3>1, BranchWritten DEF TypeOK
  <2>4. /\ mst' \in [MergeNodes -> MStates]
        /\ job' \in [Nodes -> {"none", "task", "toMain", "toTip"}]
        /\ \A n \in Nodes \ {m} : job'[n] = job[n]
        /\ \A k \in MergeNodes : /\ mst'[k] # "none" => mst[k] # "none"
                                 /\ mst'[k] = "retired" => mst[k] = "retired"
    BY <1>0, <1>3 DEF IntegrateParents, MergeWorking, TypeOK, MStates
  <2>5. /\ wt' = wt \union {m} /\ track' = FetchedBase(m)
        /\ UNCHANGED <<st, linkVars, seen, winVars, gen, main, pr, head, inl, spent>>
    BY <1>3 DEF IntegrateParents
  <2>6. TypeOK'
    BY <1>0, <2>1, <2>3, <2>4, <2>5 DEF TypeOK, linkVars, winVars
  <2> QED BY <1>0, <1>1, <2>4, <2>5, <2>6 DEF linkVars
<1>4. CASE MergeNodeBuilt(m)
  <2>1. TypeOK'
    BY <1>0, <1>4 DEF MergeNodeBuilt, TypeOK, MStates, linkVars, winVars, gitVars, ownVars
  <2> QED BY <1>0, <1>1, <1>4, <2>1
          DEF MergeNodeBuilt, MergeWorking, TypeOK, linkVars, gitVars, ownVars
<1>5. CASE MergeNodeBlocks(m)
  <2>1. TypeOK'
    BY <1>0, <1>5 DEF MergeNodeBlocks, TypeOK, MStates, linkVars, winVars, gitVars, ownVars
  <2> QED BY <1>0, <1>1, <1>5, <2>1
          DEF MergeNodeBlocks, MergeWorking, TypeOK, linkVars, gitVars, ownVars
<1>6. CASE ResumeMergeNode(m)
  <2>1. TypeOK'
    BY <1>0, <1>6 DEF ResumeMergeNode, TypeOK, MStates, linkVars, winVars, gitVars, ownVars
  <2> QED BY <1>0, <1>1, <1>6, <2>1
          DEF ResumeMergeNode, TypeOK, linkVars, gitVars, ownVars
<1> QED BY <1>2, <1>3, <1>4, <1>5, <1>6 DEF MergeNodeStep

LEMMA OutsideStepKeeps ==
  ASSUME IndInv, NEW t \in Specs, OutsideStep(t)
  PROVE  IndInv'
<1>0. /\ TypeOK /\ RowInv(t) /\ Spec1(t) \in Nodes /\ spent <= spent
      /\ Trouble => spent' \in 0..MaxTrouble /\ spent <= spent'
  BY NodeFacts, TroubleType DEF IndInv, RowsInv
<1>1. main \in Contents /\ Join(main, cont[Spec1(t)][head[t]]) \in Contents
  <2>1. main \in Contents /\ head[t] \in Gens
    BY <1>0 DEF TypeOK
  <2> QED BY <1>0, <2>1, TipTypes, JoinType
<1>2. CASE MergePr(t)
  <2>1. TypeOK'
    BY <1>0, <1>1, <1>2 DEF MergePr, TypeOK, rowVars, linkVars, winVars, ownVars
  <2>2. RowInv(t)' /\ ~ClosedForGood(t)
    BY <1>0, <1>2 DEF MergePr, RowInv, ClosedForGood, TypeOK, rowVars, ownVars
  <2> QED BY <1>0, <1>2, <2>1, <2>2, TaskMoves DEF MergePr, TypeOK, rowVars, linkVars, ownVars
<1>3. CASE ClosePr(t)
  <2>1. TypeOK'
    BY <1>0, <1>1, <1>3 DEF ClosePr, TypeOK, rowVars, linkVars, winVars, ownVars
  <2>2. RowInv(t)' /\ ~ClosedForGood(t)
    BY <1>0, <1>3 DEF ClosePr, RowInv, ClosedForGood, TypeOK, rowVars, ownVars
  <2> QED BY <1>0, <1>3, <2>1, <2>2, TaskMoves DEF ClosePr, TypeOK, rowVars, linkVars, ownVars
<1>4. CASE Resume(t)
  <2>1. TypeOK'
    BY <1>0, <1>4 DEF Resume, TypeOK, States, linkVars, winVars, gitVars, ownVars
  <2>2. RowInv(t)' /\ ~ClosedForGood(t)
    BY <1>0, <1>4 DEF Resume, RowInv, ClosedForGood, Gone, TypeOK, gitVars, ownVars
  <2> QED BY <1>0, <1>4, <2>1, <2>2, TaskMoves DEF Resume, TypeOK, linkVars, gitVars, ownVars
<1>5. CASE DetectMerged(t)
  <2>1. TypeOK'
    BY <1>0, <1>5 DEF DetectMerged, TypeOK, States, linkVars, winVars, ownVars
  <2>2. RowInv(t)' /\ (ClosedForGood(t) => ClosedForGood(t)')
    BY <1>0, <1>5 DEF DetectMerged, RowInv, ClosedForGood, Gone, TypeOK, ownVars
  <2> QED BY <1>0, <1>5, <2>1, <2>2, TaskMoves DEF DetectMerged, TypeOK, linkVars, ownVars
<1> QED BY <1>2, <1>3, <1>4, <1>5 DEF OutsideStep

(* Rebases are scheduled for nodes that may be touched: a task whose rebase *)
(* begins has no future and a pull request, and gets its future together   *)
(* with the state; the other tasks are left alone.                         *)
LEMMA ScheduledFacts ==
  ASSUME IndInv, NEW S \in SUBSET Touchable, NEW kind \in {"toMain", "toTip"}
  PROVE  /\ ScheduledJobs(S, kind) \in [Nodes -> {"none", "task", "toMain", "toTip"}]
         /\ ScheduledStates(S) \in [Specs -> States]
         /\ \A c \in Specs :
              \/ /\ ScheduledStates(S)[c] = st[c]
                 /\ ScheduledJobs(S, kind)[Spec1(c)] = job[Spec1(c)]
              \/ /\ ScheduledStates(S)[c] = "rebasing"
                 /\ ScheduledJobs(S, kind)[Spec1(c)] = kind
                 /\ job[Spec1(c)] = "none" /\ inl[c] = "no"
                 /\ pr[c] # "none" /\ st[c] \notin Untouched
         /\ \A n \in Nodes : ScheduledJobs(S, kind)[n] \in {job[n], kind}
         /\ ScheduledWindow(S) \subseteq Nodes
<1>0. TypeOK
  BY DEF IndInv
<1>1. ScheduledJobs(S, kind) \in [Nodes -> {"none", "task", "toMain", "toTip"}]
  BY <1>0 DEF ScheduledJobs, TypeOK
<1>2. ScheduledStates(S) \in [Specs -> States]
  BY <1>0 DEF ScheduledStates, TypeOK, States
<1>3. ASSUME NEW c \in Specs
      PROVE  \/ /\ ScheduledStates(S)[c] = st[c]
                /\ ScheduledJobs(S, kind)[Spec1(c)] = job[Spec1(c)]
             \/ /\ ScheduledStates(S)[c] = "rebasing"
                /\ ScheduledJobs(S, kind)[Spec1(c)] = kind
                /\ job[Spec1(c)] = "none" /\ inl[c] = "no"
                /\ pr[c] # "none" /\ st[c] \notin Untouched
  <2>1. Spec1(c) \in Nodes
    BY NodeFacts
  <2>2. CASE Spec1(c) \in Begun(S)
    <3>1. st[c] \notin Untouched
      BY <2>2, TouchableFacts DEF Begun
    <3>2. job[Spec1(c)] = "none"
      BY <2>1, <2>2 DEF Begun, Futures
    <3>3. RowInv(c) /\ st[c] \in States
      BY <1>0 DEF IndInv, RowsInv, TypeOK
    <3>4. inl[c] = "no" /\ pr[c] # "none"
      BY <3>1, <3>2, <3>3 DEF RowInv, Untouched, States
    <3> QED BY <2>1, <2>2, <3>1, <3>2, <3>4 DEF ScheduledStates, ScheduledJobs, Untouched
  <2>3. CASE Spec1(c) \notin Begun(S)
    BY <2>1, <2>3 DEF ScheduledStates, ScheduledJobs
  <2> QED BY <2>2, <2>3
<1>4. ScheduledWindow(S) \subseteq Nodes
  BY <1>0, TouchableFacts DEF ScheduledWindow, Begun, TypeOK
<1> QED BY <1>1, <1>2, <1>3, <1>4 DEF ScheduledJobs

(* What a poll of an open pull request does to the polled task and to the  *)
(* rest of the stack.                                                      *)
LEMMA PollOpenFacts ==
  ASSUME IndInv, NEW t \in Specs, PollOpen(t)
  PROVE  /\ TypeOK' /\ spent <= spent'
         /\ UNCHANGED <<par, pbr, msrc, mbr, gitVars, ownVars, inl>>
         /\ \A m \in MergeNodes : mst'[m] \in {mst[m], "pending"} /\ (mst[m] = "none" => mst'[m] = "none")
         /\ \A s \in Specs :
              \/ st'[s] = st[s] /\ job'[Spec1(s)] = job[Spec1(s)]
              \/ /\ st[s] \notin {"merged", "closed", "pending"} /\ job[Spec1(s)] = "none"
                 /\ pr[s] # "none" /\ inl[s] = "no"
                 /\ \/ st'[s] = "rebasing" /\ job'[Spec1(s)] \in {"toMain", "toTip"}
                    \/ s = t /\ st[s] = "blocked" /\ st'[s] = "blocked" /\ job'[Spec1(s)] = "toMain"
                    \/ s = t /\ st'[s] = "audit" /\ job'[Spec1(s)] = "task" /\ Spec1(s) \in wt
                    \/ s = t /\ st'[s] = "review" /\ job'[Spec1(s)] # "task"
<1> DEFINE walk == Spec1(t) \in wt /\ seen[t] = "old" /\ t \notin walked
           hit  == IF walk THEN DescendantsOf(Spec1(t), PropagateAdvanced(t)) ELSE {}
           jobs == ScheduledJobs(hit, "toTip")
           sts  == ScheduledStates(hit)
           own(e) == IF e = "conflict" THEN {Spec1(t)} ELSE {}
<1>0. /\ TypeOK /\ RowInv(t) /\ Spec1(t) \in Nodes /\ st[t] \in PostPr \union {"blocked"}
      /\ pr[t] = "open" /\ job[Spec1(t)] = "none" /\ inl[t] = "no"
  BY NodeFacts DEF IndInv, RowsInv, RowInv, PollOpen, Polled, Futures
<1>1. hit \in SUBSET Touchable
  BY DescendantsAreTouchable
<1>2. PICK e \in PollEffects(t) :
        /\ IF e \in {"conflict", "respond"} THEN Trouble ELSE UNCHANGED spent
        /\ mst' = IF walk THEN PropagateAdvanced(t) ELSE mst
        /\ flag' = flag \union {c \in Specs : Spec1(c) \in hit}
        /\ walked' = IF walk /\ CoalesceOn THEN walked \union {t} ELSE walked
        /\ sched' = ScheduledWindow(hit \union own(e))
        /\ job' = [jobs EXCEPT ![Spec1(t)] = CASE e = "conflict" -> "toMain"
                                               [] e = "respond"  -> "task"
                                               [] OTHER          -> jobs[Spec1(t)]]
        /\ st' = [sts EXCEPT ![t] = CASE e = "conflict" /\ sts[t] # "blocked" -> "rebasing"
                                      [] e = "respond"                        -> "audit"
                                      [] e = "ci_pass"                        -> "review"
                                      [] OTHER                                -> sts[t]]
  BY DEF PollOpen
<1>3. /\ seen' = IF Spec1(t) \in wt THEN [seen EXCEPT ![t] = "same"] ELSE seen
      /\ UNCHANGED <<par, pbr, msrc, mbr, gitVars, ownVars, inl>>
  BY DEF PollOpen
<1>4. e = "respond" => Spec1(t) \in wt
  BY <1>2 DEF PollEffects
<1> HIDE DEF hit, walk
<1>5. /\ jobs \in [Nodes -> {"none", "task", "toMain", "toTip"}]
      /\ sts \in [Specs -> States]
      /\ \A c \in Specs :
           \/ sts[c] = st[c] /\ jobs[Spec1(c)] = job[Spec1(c)]
           \/ /\ sts[c] = "rebasing" /\ jobs[Spec1(c)] = "toTip"
              /\ job[Spec1(c)] = "none" /\ inl[c] = "no"
              /\ pr[c] # "none" /\ st[c] \notin Untouched
  BY <1>1, ScheduledFacts
<1> HIDE DEF jobs, sts
<1>6. sched' \subseteq Nodes
  BY <1>0, <1>1, <1>2, TouchableFacts DEF ScheduledWindow, Begun, TypeOK
<1>7. spent' \in 0..MaxTrouble /\ spent <= spent'
  BY <1>0, <1>2, TroubleType DEF TypeOK
<1>8. /\ mst' \in [MergeNodes -> MStates]
      /\ \A m \in MergeNodes : mst'[m] \in {mst[m], "pending"} /\ (mst[m] = "none" => mst'[m] = "none")
  <2>1. CASE walk
    BY <1>0, <1>2, <2>1 DEF PropagateAdvanced, TypeOK, MStates
  <2>2. CASE ~walk
    BY <1>0, <1>2, <2>2 DEF TypeOK
  <2> QED BY <2>1, <2>2
<1>9. /\ job' \in [Nodes -> {"none", "task", "toMain", "toTip"}]
      /\ \A s \in Specs \ {t} : job'[Spec1(s)] = jobs[Spec1(s)]
      /\ e = "conflict" => job'[Spec1(t)] = "toMain"
      /\ e = "respond" => job'[Spec1(t)] = "task"
      /\ e \notin {"conflict", "respond"} => job'[Spec1(t)] = jobs[Spec1(t)]
  <2> DEFINE j == CASE e = "conflict" -> "toMain"
                    [] e = "respond"  -> "task"
                    [] OTHER          -> jobs[Spec1(t)]
  <2>1. /\ j \in {"none", "task", "toMain", "toTip"} /\ (e = "conflict" => j = "toMain")
        /\ e = "respond" => j = "task"
        /\ e \notin {"conflict", "respond"} => j = jobs[Spec1(t)]
    BY <1>0, <1>5
  <2>2. job' = [jobs EXCEPT ![Spec1(t)] = j]
    BY <1>2
  <2> HIDE DEF j
  <2>3. \A s \in Specs \ {t} : Spec1(s) \in Nodes /\ Spec1(s) # Spec1(t)
    BY NodeFacts
  <2> QED BY <1>0, <1>5, <2>1, <2>2, <2>3
<1>10. /\ st' \in [Specs -> States]
       /\ \A s \in Specs \ {t} : st'[s] = sts[s]
       /\ \/ e = "conflict" /\ sts[t] # "blocked" /\ st'[t] = "rebasing"
          \/ e = "respond" /\ st'[t] = "audit"
          \/ e = "ci_pass" /\ st'[t] = "review"
          \/ e \notin {"respond", "ci_pass"} /\ (e = "conflict" => sts[t] = "blocked") /\ st'[t] = sts[t]
  <2> DEFINE x == CASE e = "conflict" /\ sts[t] # "blocked" -> "rebasing"
                    [] e = "respond"                        -> "audit"
                    [] e = "ci_pass"                        -> "review"
                    [] OTHER                                -> sts[t]
  <2>1. \/ e = "conflict" /\ sts[t] # "blocked" /\ x = "rebasing"
        \/ e = "respond" /\ x = "audit"
        \/ e = "ci_pass" /\ x = "review"
        \/ e \notin {"respond", "ci_pass"} /\ (e = "conflict" => sts[t] = "blocked") /\ x = sts[t]
    <3>1. CASE e = "conflict" /\ sts[t] # "blocked"
      BY <3>1
    <3>2. CASE e = "respond"
      BY <3>2
    <3>3. CASE e = "ci_pass"
      BY <3>3
    <3>4. CASE ~(e = "conflict" /\ sts[t] # "blocked") /\ e # "respond" /\ e # "ci_pass"
      BY <3>4
    <3> QED BY <3>1, <3>2, <3>3, <3>4
  <2>2. st' = [sts EXCEPT ![t] = x]
    BY <1>2
  <2> HIDE DEF x
  <2>3. x \in States
    BY <1>5, <2>1 DEF States
  <2> QED BY <1>5, <2>1, <2>2, <2>3
<1>11. seen' \in [Specs -> {"none", "same", "old"}]
  BY <1>0, <1>3 DEF TypeOK
<1>12. TypeOK'
  <2>1. flag' \subseteq Specs /\ walked' \subseteq Specs
    BY <1>0, <1>2 DEF TypeOK
  <2> QED BY <1>0, <1>3, <1>6, <1>7, <1>8, <1>9, <1>10, <1>11, <2>1 DEF TypeOK, gitVars, ownVars
<1>13. ASSUME NEW s \in Specs \ {t}
       PROVE  \/ st'[s] = st[s] /\ job'[Spec1(s)] = job[Spec1(s)]
              \/ /\ st[s] \notin {"merged", "closed", "pending"} /\ job[Spec1(s)] = "none"
                 /\ pr[s] # "none" /\ inl[s] = "no"
                 /\ st'[s] = "rebasing" /\ job'[Spec1(s)] \in {"toMain", "toTip"}
  BY <1>5, <1>9, <1>10 DEF Untouched
<1>14. \/ st'[t] = st[t] /\ job'[Spec1(t)] = job[Spec1(t)]
       \/ /\ st[t] \notin {"merged", "closed", "pending"} /\ job[Spec1(t)] = "none"
          /\ pr[t] # "none" /\ inl[t] = "no"
          /\ \/ st'[t] = "rebasing" /\ job'[Spec1(t)] \in {"toMain", "toTip"}
             \/ st[t] = "blocked" /\ st'[t] = "blocked" /\ job'[Spec1(t)] = "toMain"
             \/ st'[t] = "audit" /\ job'[Spec1(t)] = "task" /\ Spec1(t) \in wt
             \/ st'[t] = "review" /\ job'[Spec1(t)] # "task"
  <2>1. st[t] \notin {"merged", "closed", "pending"} /\ pr[t] # "none"
    BY <1>0 DEF PostPr
  <2>2. \/ sts[t] = st[t] /\ jobs[Spec1(t)] = "none"
        \/ sts[t] = "rebasing" /\ jobs[Spec1(t)] = "toTip"
    BY <1>0, <1>5
  <2> QED BY <1>0, <1>4, <1>9, <1>10, <2>1, <2>2
<1> QED BY <1>3, <1>7, <1>8, <1>12, <1>13, <1>14

LEMMA PollOpenKeeps ==
  ASSUME IndInv, NEW t \in Specs, PollOpen(t)
  PROVE  IndInv'
<1>1. TypeOK' /\ spent <= spent' /\ UNCHANGED <<msrc, mbr, pr, wt, gen, inl>>
  BY PollOpenFacts DEF gitVars, ownVars
<1>2. ASSUME NEW s \in Specs
      PROVE  /\ RowInv(s)' /\ (st[s] = "merged" => st'[s] = "merged")
             /\ ClosedForGood(s) => ClosedForGood(s)'
  <2>1. RowInv(s)
    BY DEF IndInv, RowsInv
  <2>2. CASE st'[s] = st[s] /\ job'[Spec1(s)] = job[Spec1(s)]
    BY <1>1, <2>1, <2>2 DEF RowInv, ClosedForGood, Gone
  <2>3. CASE ~(st'[s] = st[s] /\ job'[Spec1(s)] = job[Spec1(s)])
    <3>1. /\ st[s] \notin {"merged", "closed", "pending"} /\ pr[s] # "none" /\ inl[s] = "no"
          /\ \/ st'[s] = "rebasing" /\ job'[Spec1(s)] \in {"toMain", "toTip"}
             \/ st'[s] = "blocked" /\ job'[Spec1(s)] = "toMain"
             \/ st'[s] = "audit" /\ job'[Spec1(s)] = "task" /\ Spec1(s) \in wt
             \/ st'[s] = "review" /\ job'[Spec1(s)] # "task"
      BY <2>3, PollOpenFacts
    <3> QED BY <1>1, <3>1 DEF RowInv, ClosedForGood, Gone
  <2> QED BY <2>2, <2>3
<1>3. \A m \in MergeNodes : /\ mst'[m] # "none" => mst[m] # "none"
                            /\ mst'[m] = "retired" => mst[m] = "retired"
  BY PollOpenFacts
<1>4. SourcesInv' /\ BranchInv' /\ ForgetInv'
  BY <1>1, <1>2, <1>3, LinkFrame
<1> QED BY <1>1, <1>2, <1>4 DEF IndInv, RowsInv

(* A merged parent is taken out of the merge-nodes that list it; its       *)
(* children either lose their linkage or get a rebase.                     *)
LEMMA PollMergedFacts ==
  ASSUME IndInv, NEW t \in Specs, PollMerged(t)
  PROVE  /\ TypeOK' /\ st'[t] = "merged"
         /\ UNCHANGED <<pbr, mbr, gitVars, ownVars, inl, spent>>
         /\ \A c \in Specs : par'[c] = par[c] \/ (par'[c] = {} /\ par[c] = Spec1(t))
         /\ \A m \in MergeNodes :
              /\ msrc'[m] \in {msrc[m], msrc[m] \ {t}}
              /\ mst'[m] \in {mst[m], "pending", "retired"} /\ (mst[m] = "none" => mst'[m] = "none")
              /\ mst'[m] = "retired" => mst[m] = "retired" \/ msrc[m] = {t}
         /\ \A s \in Specs :
              \/ (st'[s] = st[s] \/ s = t) /\ job'[Spec1(s)] = job[Spec1(s)]
              \/ /\ st[s] \notin Untouched /\ job[Spec1(s)] = "none"
                 /\ pr[s] # "none" /\ inl[s] = "no"
                 /\ (st'[s] = "rebasing" \/ s = t) /\ job'[Spec1(s)] = "toMain"
<1> DEFINE kids == {c \in Specs : Spec1(c) \in ChildrenOf(Spec1(t), mst)}
<1>0. TypeOK /\ Spec1(t) \in Nodes
  BY NodeFacts DEF IndInv
<1>1. PICK skip \in SUBSET {c \in kids : pr[c] = "open"} :
        /\ par' = [c \in Specs |-> IF c \in skip THEN {} ELSE par[c]]
        /\ flag' = (flag \union kids) \ skip
        /\ LET go == {Spec1(c) : c \in kids \ skip} IN
           /\ sched' = ScheduledWindow(go)
           /\ job' = ScheduledJobs(go, "toMain")
           /\ st' = [ScheduledStates(go) EXCEPT ![t] = "merged"]
  BY DEF PollMerged
<1>2. /\ \/ mst' = PropagateMerged(t) /\ msrc' = PruneParent(t)
         \/ UNCHANGED <<mst, msrc>>
      /\ UNCHANGED <<pbr, mbr, seen, walked, gitVars, ownVars, inl, spent>>
  BY DEF PollMerged
<1>3. ASSUME NEW c \in kids PROVE par[c] = Spec1(t)
  <2>1. c \in Specs /\ Spec1(c) \notin MergeNodes /\ Spec1(c) \in ChildrenOf(Spec1(t), mst)
    BY NodeFacts
  <2>2. PICK x \in Specs : Spec1(x) = Spec1(c) /\ par[x] = Spec1(t)
    BY <2>1 DEF ChildrenOf
  <2> QED BY <2>1, <2>2, NodeFacts
<1> DEFINE go == {Spec1(c) : c \in kids \ skip}
<1>4. go \in SUBSET Touchable
  BY TouchableFacts
<1> DEFINE jobs == ScheduledJobs(go, "toMain")
           sts == ScheduledStates(go)
<1>5. sched' = ScheduledWindow(go) /\ job' = jobs /\ st' = [sts EXCEPT ![t] = "merged"]
  BY <1>1
<1>6. \A c \in Specs : par'[c] = par[c] \/ (par'[c] = {} /\ par[c] = Spec1(t))
  BY <1>1, <1>3
<1> HIDE DEF go
<1>7. /\ jobs \in [Nodes -> {"none", "task", "toMain", "toTip"}]
      /\ sts \in [Specs -> States]
      /\ \A c \in Specs :
           \/ sts[c] = st[c] /\ jobs[Spec1(c)] = job[Spec1(c)]
           \/ /\ sts[c] = "rebasing" /\ jobs[Spec1(c)] = "toMain"
              /\ job[Spec1(c)] = "none" /\ inl[c] = "no"
              /\ pr[c] # "none" /\ st[c] \notin Untouched
      /\ ScheduledWindow(go) \subseteq Nodes
  BY <1>4, ScheduledFacts
<1> HIDE DEF jobs, sts
<1>8. /\ st' \in [Specs -> States] /\ st'[t] = "merged"
      /\ \A s \in Specs \ {t} : st'[s] = sts[s]
  BY <1>5, <1>7 DEF States
<1>9. /\ mst' \in [MergeNodes -> MStates] /\ msrc' \in [MergeNodes -> SUBSET Specs]
      /\ par' \in [Specs -> Nodes \union {{}}] /\ flag' \subseteq Specs
  <2>1. par' \in [Specs -> Nodes \union {{}}]
    BY <1>0, <1>1 DEF TypeOK
  <2>2. flag' \subseteq Specs
    BY <1>0, <1>1 DEF TypeOK
  <2>3. CASE mst' = PropagateMerged(t) /\ msrc' = PruneParent(t)
    <3>1. msrc' \in [MergeNodes -> SUBSET Specs]
      BY <1>0, <2>3 DEF TypeOK, PruneParent
    <3>2. mst' \in [MergeNodes -> MStates]
      BY <1>0, <2>3 DEF TypeOK, PropagateMerged, MStates
    <3> QED BY <2>1, <2>2, <3>1, <3>2
  <2>4. CASE UNCHANGED <<mst, msrc>>
    BY <1>0, <2>1, <2>2, <2>4 DEF TypeOK
  <2> QED BY <1>2, <2>3, <2>4
<1>10. TypeOK'
  BY <1>0, <1>2, <1>5, <1>7, <1>8, <1>9 DEF TypeOK, gitVars, ownVars
<1>11. \A m \in MergeNodes :
         /\ msrc'[m] \in {msrc[m], msrc[m] \ {t}}
         /\ mst'[m] \in {mst[m], "pending", "retired"} /\ (mst[m] = "none" => mst'[m] = "none")
         /\ mst'[m] = "retired" => mst[m] = "retired" \/ msrc[m] = {t}
  BY <1>2 DEF PropagateMerged, PruneParent
<1>12. ASSUME NEW s \in Specs
       PROVE  \/ (st'[s] = st[s] \/ s = t) /\ job'[Spec1(s)] = job[Spec1(s)]
              \/ /\ st[s] \notin Untouched /\ job[Spec1(s)] = "none"
                 /\ pr[s] # "none" /\ inl[s] = "no"
                 /\ (st'[s] = "rebasing" \/ s = t) /\ job'[Spec1(s)] = "toMain"
  BY <1>5, <1>7, <1>8
<1> QED BY <1>2, <1>6, <1>8, <1>10, <1>11, <1>12

LEMMA PollMergedKeeps ==
  ASSUME IndInv, NEW t \in Specs, PollMerged(t)
  PROVE  IndInv'
<1>1. /\ TypeOK' /\ UNCHANGED <<mbr, pr, wt, gen, inl, spent>> /\ st'[t] = "merged"
      /\ st[t] \in PostPr \union {"blocked"} /\ pr[t] # "none" /\ job[Spec1(t)] = "none"
  BY PollMergedFacts, NodeFacts DEF gitVars, ownVars, PollMerged, Polled, Futures
<1>2. ASSUME NEW s \in Specs
      PROVE  /\ RowInv(s)' /\ (st[s] = "merged" => st'[s] = "merged")
             /\ ClosedForGood(s) => ClosedForGood(s)'
  <2>1. RowInv(s)
    BY DEF IndInv, RowsInv
  <2>2. \/ (st'[s] = st[s] \/ s = t) /\ job'[Spec1(s)] = job[Spec1(s)]
        \/ /\ st[s] \notin Untouched /\ pr[s] # "none" /\ inl[s] = "no"
           /\ (st'[s] = "rebasing" \/ s = t) /\ job'[Spec1(s)] = "toMain"
    BY PollMergedFacts
  <2>3. CASE s = t
    BY <1>1, <2>1, <2>2, <2>3 DEF RowInv, ClosedForGood, Gone, PostPr
  <2>4. CASE s # t /\ st'[s] = st[s] /\ job'[Spec1(s)] = job[Spec1(s)]
    BY <1>1, <2>1, <2>4 DEF RowInv, ClosedForGood, Gone
  <2>5. CASE s # t /\ st[s] \notin Untouched /\ pr[s] # "none" /\ inl[s] = "no"
             /\ st'[s] = "rebasing" /\ job'[Spec1(s)] = "toMain"
    BY <1>1, <2>5 DEF RowInv, ClosedForGood, Gone, Untouched
  <2> QED BY <2>2, <2>3, <2>4, <2>5
<1>3. ASSUME NEW m \in MergeNodes
      PROVE  /\ m \subseteq Specs /\ msrc[m] \subseteq m /\ msrc'[m] \in {msrc[m], msrc[m] \ {t}}
             /\ mst'[m] # "none" => mst[m] # "none"
             /\ mst'[m] = "retired" => mst[m] = "retired" \/ msrc[m] = {t}
  BY PollMergedFacts, NodeFacts DEF IndInv, SourcesInv
<1>4. SourcesInv'
  BY <1>3 DEF SourcesInv
<1>5. BranchInv'
  BY <1>1 DEF IndInv, BranchInv
<1>6. ASSUME NEW m \in MergeNodes, mst'[m] # "none"
      PROVE  /\ \/ \A s \in m \ msrc'[m] : st'[s] = "merged"
                \/ msrc'[m] = {} /\ \E s \in m : ClosedForGood(s)'
             /\ mst'[m] = "retired" => \A s \in m : st'[s] = "merged"
  <2>1. /\ \/ \A s \in m \ msrc[m] : st[s] = "merged"
           \/ msrc[m] = {} /\ \E s \in m : ClosedForGood(s)
        /\ mst[m] = "retired" => \A s \in m : st[s] = "merged"
    BY <1>3, <1>6 DEF IndInv, ForgetInv
  <2>2. ASSUME ~(\A s \in m \ msrc'[m] : st'[s] = "merged")
        PROVE  msrc'[m] = {} /\ \E s \in m : ClosedForGood(s)'
    <3>1. ~(\A s \in m \ msrc[m] : st[s] = "merged")
      BY <1>1, <1>2, <1>3, <2>2
    <3> QED BY <1>2, <1>3, <2>1, <3>1
  <2>3. ASSUME mst'[m] = "retired", NEW s \in m PROVE st'[s] = "merged"
    <3>1. CASE mst[m] = "retired"
      BY <1>2, <1>3, <2>1, <3>1
    <3>2. CASE msrc[m] = {t}
      BY <1>1, <1>2, <1>3, <2>1, <3>2
    <3> QED BY <1>3, <2>3, <3>1, <3>2
  <2> QED BY <2>2, <2>3
<1> QED BY <1>1, <1>2, <1>4, <1>5, <1>6 DEF IndInv, ForgetInv, RowsInv

LEMMA WatcherStepKeeps ==
  ASSUME IndInv, NEW t \in Specs, WatcherStep(t)
  PROVE  IndInv'
<1>0. TypeOK /\ RowInv(t) /\ Spec1(t) \in Nodes /\ spent <= spent
  BY NodeFacts, TroubleType DEF IndInv, RowsInv
<1>1. CASE PollClosed(t)
  <2>1. /\ pr[t] = "closed" /\ job[Spec1(t)] = "none" /\ st[t] \in PostPr
        /\ st' = [st EXCEPT ![t] = "closed"]
        /\ msrc' = [m \in MergeNodes |->
                      IF t \in msrc[m] /\ mbr[m][t] = gen[Spec1(t)] /\ mst[m] # "blocked" THEN {}
                      ELSE msrc[m]]
        /\ UNCHANGED <<pbr, mbr, seen, mst, winVars, gitVars, ownVars, job, inl, spent>>
    BY <1>0, <1>1 DEF PollClosed, Polled, Futures
  <2>2. par' \in [Specs -> Nodes \union {{}}] /\ flag' \subseteq Specs
    BY <1>0, <1>1 DEF PollClosed, TypeOK
  <2>3. msrc' \in [MergeNodes -> SUBSET Specs] /\ st' \in [Specs -> States]
    BY <1>0, <2>1 DEF TypeOK, States
  <2>4. TypeOK'
    BY <1>0, <2>1, <2>2, <2>3 DEF TypeOK, winVars, gitVars, ownVars
  <2>5. /\ \A s \in Specs : st[s] = "merged" => st'[s] = "merged"
        /\ \A s \in Specs : ClosedForGood(s) => ClosedForGood(s)'
        /\ ClosedForGood(t)'
    BY <1>0, <2>1 DEF PostPr, TypeOK, ClosedForGood, Gone, gitVars
  <2>6. SourcesInv' /\ BranchInv'
    BY <2>1 DEF IndInv, SourcesInv, BranchInv, ownVars
  <2>7. ASSUME NEW m \in MergeNodes, mst[m] # "none"
        PROVE  /\ \/ \A s \in m \ msrc'[m] : st'[s] = "merged"
                  \/ msrc'[m] = {} /\ \E s \in m : ClosedForGood(s)'
               /\ mst[m] = "retired" => \A s \in m : st'[s] = "merged"
    <3>1. /\ \/ \A s \in m \ msrc[m] : st[s] = "merged"
             \/ msrc[m] = {} /\ \E s \in m : ClosedForGood(s)
          /\ mst[m] = "retired" => \A s \in m : st[s] = "merged"
          /\ m \subseteq Specs /\ msrc[m] \subseteq m
      BY <2>7, NodeFacts DEF IndInv, ForgetInv, SourcesInv
    <3>2. CASE msrc'[m] = {} /\ t \in msrc[m]
      BY <2>5, <3>1, <3>2
    <3>3. CASE msrc'[m] = msrc[m]
      BY <2>5, <3>1, <3>3
    <3> QED BY <2>1, <3>2, <3>3
  <2>8. RowsInv'
    <3>1. ASSUME NEW s \in Specs PROVE RowInv(s)'
      <4>1. RowInv(s) /\ (s # t => st'[s] = st[s]) /\ st'[t] = "closed"
        BY <1>0, <2>1 DEF IndInv, RowsInv, TypeOK
      <4> QED BY <2>1, <4>1 DEF RowInv, gitVars, ownVars
    <3> QED BY <3>1 DEF RowsInv
  <2> QED BY <2>1, <2>4, <2>6, <2>7, <2>8 DEF IndInv, ForgetInv
<1>2. CASE Settle(t)
  <2>1. TypeOK'
    BY <1>0, <1>2 DEF Settle, TypeOK, States, linkVars, winVars, gitVars, ownVars
  <2>2. RowInv(t)' /\ ~ClosedForGood(t)
    BY <1>0, <1>2 DEF Settle, RowInv, ClosedForGood, Gone, TypeOK, gitVars, ownVars
  <2> QED BY <1>0, <1>2, <2>1, <2>2, TaskMoves DEF Settle, TypeOK, linkVars, gitVars, ownVars
<1>3. CASE WalkWindowEnds(t)
  <2>1. TypeOK'
    BY <1>0, <1>3 DEF WalkWindowEnds, TypeOK, rowVars, linkVars, gitVars, ownVars
  <2> QED BY <1>0, <1>3, <2>1, Stands DEF WalkWindowEnds, rowVars, linkVars, gitVars, ownVars
<1> QED BY <1>1, <1>2, <1>3, PollOpenKeeps, PollMergedKeeps DEF WatcherStep

LEMMA PickTierFacts ==
  ASSUME NEW n \in PickTier
  PROVE  n \in MergeNodes \/ \E t \in Specs : n = Spec1(t) /\ Waiting(t)
<1>1. \A k \in PrimaryCandidates \union StackedCandidates :
         k \in MergeNodes \/ \E t \in Specs : k = Spec1(t) /\ Waiting(t)
  BY DEF PrimaryCandidates, StackedCandidates, Created
<1> QED BY <1>1 DEF PickTier

LEMMA PickedTypes ==
  ASSUME TypeOK, NEW t \in Specs
  PROVE  PickedParent(t) \in Nodes \union {{}} /\ PickedBranch(t) \in Gens
<1>1. wt \subseteq Nodes /\ par[t] \in Nodes \union {{}} /\ pbr[t] \in Gens
      /\ gen \in [Nodes -> Gens]
  BY DEF TypeOK
<1>2. Unmet(t) \in wt => gen[Unmet(t)] \in Gens
  BY <1>1
<1> QED BY <1>1, <1>2 DEF PickedParent, PickedBranch

(* A pick of a spec task sets its linkage and its future; a pick of a      *)
(* merge-node its future only.                                             *)
LEMMA PickNextFacts ==
  ASSUME IndInv, PickNext
  PROVE  /\ TypeOK' /\ CreateMergeNodes
         /\ UNCHANGED <<st, seen, winVars, gitVars, ownVars, inl, spent>>
         /\ \E n \in PickTier :
              /\ n \in Nodes /\ job' = [job EXCEPT ![n] = "task"]
              /\ n \in MergeNodes => UNCHANGED <<par, pbr>>
              /\ \A t \in Specs : Spec1(t) = n =>
                   /\ Waiting(t)
                   /\ par' = [par EXCEPT ![t] = PickedParent(t)]
                   /\ pbr' = [pbr EXCEPT ![t] = PickedBranch(t)]
<1>0. TypeOK
  BY DEF IndInv
<1>1. PICK n \in PickTier :
        /\ job' = [job EXCEPT ![n] = "task"]
        /\ IF n \in MergeNodes THEN UNCHANGED <<par, pbr, flag>>
           ELSE LET t == CHOOSE x \in n : TRUE IN
                /\ par' = [par EXCEPT ![t] = PickedParent(t)]
                /\ pbr' = [pbr EXCEPT ![t] = PickedBranch(t)]
                /\ flag' = IF Unmet(t) = {} /\ par[t] # {} THEN flag \ {t} ELSE flag
  BY DEF PickNext
<1>2. /\ CreateMergeNodes
      /\ UNCHANGED <<st, seen, winVars, gitVars, ownVars, inl, spent>>
  BY DEF PickNext
<1>3. n \in Nodes /\ \A s \in Specs : Spec1(s) = n => Waiting(s)
  BY <1>1, PickTierFacts, NodeFacts
<1>4. /\ \A s \in Specs : Spec1(s) = n =>
            /\ par' = [par EXCEPT ![s] = PickedParent(s)]
            /\ pbr' = [pbr EXCEPT ![s] = PickedBranch(s)]
      /\ par' \in [Specs -> Nodes \union {{}}] /\ pbr' \in [Specs -> Gens] /\ flag' \subseteq Specs
  <2>1. CASE n \in MergeNodes
    BY <1>0, <1>1, <2>1, NodeFacts DEF TypeOK
  <2>2. CASE n \notin MergeNodes
    <3>1. PICK s \in Specs : n = Spec1(s)
      BY <2>2, PickTierFacts
    <3>2. (CHOOSE x \in n : TRUE) = s /\ \A r \in Specs : Spec1(r) = n => r = s
      BY <3>1, NodeFacts DEF Spec1
    <3>3. /\ par' = [par EXCEPT ![s] = PickedParent(s)]
          /\ pbr' = [pbr EXCEPT ![s] = PickedBranch(s)]
          /\ flag' = IF Unmet(s) = {} /\ par[s] # {} THEN flag \ {s} ELSE flag
      BY <1>1, <2>2, <3>2
    <3>4. PickedParent(s) \in Nodes \union {{}} /\ PickedBranch(s) \in Gens
      BY <1>0, PickedTypes
    <3> QED BY <1>0, <3>2, <3>3, <3>4 DEF TypeOK
  <2> QED BY <2>1, <2>2
<1>5. /\ mst' \in [MergeNodes -> MStates] /\ msrc' \in [MergeNodes -> SUBSET Specs]
      /\ job' \in [Nodes -> {"none", "task", "toMain", "toTip"}]
  BY <1>0, <1>1, <1>2, NodeFacts DEF TypeOK, MStates, CreateMergeNodes
<1>6. mbr' \in [MergeNodes -> [Specs -> Gens]]
  <2>1. \A s \in Specs : gen[Spec1(s)] \in Gens
    BY <1>0, NodeFacts, TipTypes
  <2>2. [s \in Specs |-> gen[Spec1(s)]] \in [Specs -> Gens]
    BY <2>1
  <2> QED BY <1>0, <1>2, <2>2 DEF TypeOK, CreateMergeNodes
<1>7. TypeOK'
  BY <1>0, <1>2, <1>4, <1>5, <1>6 DEF TypeOK, winVars, gitVars, ownVars
<1> QED BY <1>1, <1>2, <1>3, <1>4, <1>7

(* A picked task is pending, so its new future takes no rebase's place; a   *)
(* merge-node created with the pick lists all it was created for.          *)
LEMMA PickNextKeeps ==
  ASSUME IndInv, PickNext
  PROVE  IndInv'
<1>1. /\ TypeOK /\ TypeOK' /\ UNCHANGED <<st, pr, wt, gen, inl, spent>>
      /\ mst' = [m \in MergeNodes |-> IF m \in Created THEN "pending" ELSE mst[m]]
      /\ msrc' = [m \in MergeNodes |-> IF m \in Created THEN m ELSE msrc[m]]
      /\ mbr' = [m \in MergeNodes |-> IF m \in Created THEN [s \in Specs |-> gen[Spec1(s)]] ELSE mbr[m]]
  BY PickNextFacts DEF IndInv, CreateMergeNodes, gitVars, ownVars
<1>2. PICK n \in Nodes : /\ job' = [job EXCEPT ![n] = "task"]
                         /\ \A s \in Specs : Spec1(s) = n => Waiting(s)
  BY PickNextFacts
<1>3. ASSUME NEW s \in Specs
      PROVE  \/ job'[Spec1(s)] = job[Spec1(s)]
             \/ job'[Spec1(s)] = "task" /\ st[s] = "pending" /\ job[Spec1(s)] = "none"
  BY <1>1, <1>2, NodeFacts DEF TypeOK, Waiting, Futures
<1>4. ASSUME NEW s \in Specs PROVE RowInv(s)' /\ (ClosedForGood(s) => ClosedForGood(s)')
  <2>1. RowInv(s)
    BY DEF IndInv, RowsInv
  <2> QED BY <1>1, <1>3, <2>1 DEF RowInv, ClosedForGood, Gone
<1>5. SourcesInv'
  BY <1>1 DEF IndInv, SourcesInv
<1>6. BranchInv'
  <2>1. \A s \in Specs : gen[Spec1(s)] \in Nat
    BY <1>1, NodeFacts, TipTypes, GensAreNatural
  <2> QED BY <1>1, <2>1 DEF IndInv, BranchInv
<1>7. ForgetInv'
  <2>1. ASSUME NEW m \in MergeNodes, mst'[m] # "none"
        PROVE  /\ \/ \A s \in m \ msrc'[m] : st'[s] = "merged"
                  \/ msrc'[m] = {} /\ \E s \in m : ClosedForGood(s)'
               /\ mst'[m] = "retired" => \A s \in m : st'[s] = "merged"
    <3>1. CASE m \in Created
      BY <1>1, <3>1
    <3>2. CASE m \notin Created
      <4>1. mst'[m] = mst[m] /\ msrc'[m] = msrc[m] /\ m \subseteq Specs
        BY <1>1, <3>2, NodeFacts
      <4> QED BY <1>1, <1>4, <2>1, <4>1 DEF IndInv, ForgetInv
    <3> QED BY <3>1, <3>2
  <2> QED BY <2>1 DEF ForgetInv
<1> QED BY <1>1, <1>4, <1>5, <1>6, <1>7 DEF IndInv, RowsInv

(* Orphan recovery takes every row out of its active states, since no      *)
(* future survives a restart, and brings no merged row back.               *)
LEMMA RestartFacts ==
  ASSUME IndInv, Restart
  PROVE  /\ TypeOK' /\ spent' = spent + 1 /\ UNCHANGED <<par, pbr, msrc, mbr, gitVars>>
         /\ job' = [n \in Nodes |-> "none"] /\ inl' = [t \in Specs |-> "no"]
         /\ \A t \in Specs : /\ st'[t] \notin {"prov", "doing", "audit", "rebasing", "resolving"}
                             /\ st'[t] = st[t] \/ st'[t] = "pending" \/ (st'[t] = "ci" /\ pr[t] # "none")
                             /\ Gone(t) => st'[t] = st[t]
         /\ \A m \in MergeNodes : /\ mst'[m] \in {mst[m], "lost", "pending", "stray"}
                                  /\ mst[m] = "none" => mst'[m] = "none"
                                  /\ mst'[m] \in {"ready", "audit"} => mst'[m] = mst[m]
         /\ wt' \subseteq wt /\ \A n \in wt \ wt' : n \in MergeNodes => mst'[n] = "lost"
         /\ \A n \in Nodes : /\ n \in MergeNodes => gen'[n] = gen[n]
                             /\ n \notin MergeNodes /\ n \in wt \ wt' => gen'[n] = gen[n] + 1
                             /\ n \notin wt \ wt' => gen'[n] = gen[n]
<1>0. TypeOK
  BY DEF IndInv
<1>1. /\ st' = [t \in Specs |-> Recovered(t)]
      /\ flag' = {t \in flag : st[t] \notin Active}
      /\ wt' = {n \in wt : IF n \in MergeNodes THEN mst'[n] # "lost" ELSE \A t \in n : st[t] # "prov"}
      /\ gen' = [n \in Nodes |-> IF n \in SpecNodes /\ n \in wt \ wt' THEN gen[n] + 1 ELSE gen[n]]
      /\ job' = [n \in Nodes |-> "none"] /\ inl' = [t \in Specs |-> "no"] /\ walked' = {}
      /\ UNCHANGED <<par, pbr, seen, msrc, mbr, sched, gitVars>>
  BY DEF Restart
<1>2. ASSUME NEW t \in Specs
      PROVE  /\ st'[t] \in States /\ st'[t] \notin {"prov", "doing", "audit", "rebasing", "resolving"}
             /\ st'[t] = st[t] \/ st'[t] = "pending" \/ (st'[t] = "ci" /\ pr[t] # "none")
             /\ Gone(t) => st'[t] = st[t]
  BY <1>0, <1>1 DEF Recovered, TypeOK, Active, States, PostPr, Gone
<1>3. PICK back \in [Strays -> {"lost", "pending", "stray"}] :
        mst' = [m \in MergeNodes |-> RecoveredMergeNode(m, back)]
  BY DEF Restart
<1>4. ASSUME NEW m \in MergeNodes
      PROVE  /\ mst'[m] \in MStates
             /\ mst'[m] \in {mst[m], "lost", "pending", "stray"}
             /\ mst[m] = "none" => mst'[m] = "none"
             /\ mst'[m] \in {"ready", "audit"} => mst'[m] = mst[m]
  <2>1. mst'[m] = RecoveredMergeNode(m, back) /\ mst[m] \in MStates
    BY <1>0, <1>3 DEF TypeOK
  <2>2. mst[m] = "stray" => back[m] \in {"lost", "pending", "stray"}
    BY DEF Strays
  <2>3. \/ mst[m] = "prov" /\ mst'[m] = "lost"
        \/ mst[m] = "audit" /\ mst'[m] = "pending"
        \/ mst[m] = "stray" /\ mst'[m] \in {"lost", "pending", "stray"}
        \/ mst'[m] = mst[m]
    BY <2>1, <2>2 DEF RecoveredMergeNode
  <2> QED BY <2>1, <2>3 DEF MStates
<1>5. st' \in [Specs -> States] /\ mst' \in [MergeNodes -> MStates]
  BY <1>1, <1>2, <1>3, <1>4
<1>6. spent' \in 0..MaxTrouble /\ spent' = spent + 1 /\ MaxTrouble \in Nat
  BY <1>0, TroubleType, BoundsNatural DEF Restart, Trouble
<1>7. gen' \in [Nodes -> Gens]
  <2>1. \A n \in Nodes : gen[n] \in 0..MaxTrouble /\ gen[n] + 1 <= spent'
    BY <1>0, <1>6, BoundsNatural DEF IndInv, BranchInv, TypeOK, Gens
  <2>2. \A n \in Nodes : gen[n] + 1 \in 0..MaxTrouble
    BY <1>6, <2>1
  <2> QED BY <1>1, <2>1, <2>2 DEF Gens
<1>8. TypeOK'
  BY <1>0, <1>1, <1>5, <1>6, <1>7 DEF TypeOK, gitVars
<1>9. wt' \subseteq wt /\ \A n \in wt \ wt' : n \in MergeNodes => mst'[n] = "lost"
  BY <1>1
<1>10. \A n \in Nodes : /\ n \in MergeNodes => gen'[n] = gen[n]
                        /\ n \notin MergeNodes /\ n \in wt \ wt' => gen'[n] = gen[n] + 1
                        /\ n \notin wt \ wt' => gen'[n] = gen[n]
  BY <1>1, NodeFacts DEF Nodes
<1> QED BY <1>1, <1>2, <1>4, <1>6, <1>8, <1>9, <1>10

LEMMA RestartKeeps ==
  ASSUME IndInv, Restart
  PROVE  IndInv'
<1>1. /\ TypeOK /\ TypeOK' /\ spent' = spent + 1 /\ UNCHANGED <<msrc, mbr, pr>>
      /\ job' = [n \in Nodes |-> "none"] /\ inl' = [t \in Specs |-> "no"]
  BY RestartFacts DEF IndInv, gitVars
<1>2. ASSUME NEW s \in Specs
      PROVE  RowInv(s)' /\ (st[s] = "merged" => st'[s] = "merged")
             /\ (ClosedForGood(s) => ClosedForGood(s)')
  <2>1. RowInv(s) /\ job'[Spec1(s)] = "none" /\ inl'[s] = "no" /\ st[s] \in States
    BY <1>1, NodeFacts DEF IndInv, RowsInv, TypeOK
  <2>2. /\ st'[s] \notin {"prov", "doing", "audit", "rebasing", "resolving"}
        /\ st'[s] = st[s] \/ st'[s] = "pending" \/ (st'[s] = "ci" /\ pr[s] # "none")
        /\ Gone(s) => st'[s] = st[s]
    BY RestartFacts
  <2> QED BY <1>1, <2>1, <2>2 DEF RowInv, ClosedForGood, Gone
<1>3. \A m \in MergeNodes : /\ mst'[m] # "none" => mst[m] # "none"
                            /\ mst'[m] = "retired" => mst[m] = "retired"
  BY RestartFacts
<1>4. BranchInv'
  <2>1. \A n \in Nodes : gen[n] \in Nat /\ gen'[n] \in Nat /\ gen'[n] \in {gen[n], gen[n] + 1}
    <3>1. gen \in [Nodes -> Gens] /\ gen' \in [Nodes -> Gens]
      BY <1>1 DEF TypeOK
    <3>2. \A n \in Nodes : gen'[n] \in {gen[n], gen[n] + 1}
      BY RestartFacts
    <3> QED BY <3>1, <3>2, GensAreNatural
  <2>2. spent \in Nat
    BY <1>1, BoundsNatural DEF TypeOK
  <2>3. \A m \in MergeNodes : \A s \in Specs : mbr[m][s] \in Nat /\ Spec1(s) \in Nodes
    <3>1. mbr \in [MergeNodes -> [Specs -> Gens]]
      BY <1>1 DEF TypeOK
    <3>2. \A m \in MergeNodes : \A s \in Specs : mbr[m][s] \in Gens
      BY <3>1
    <3> QED BY <3>2, NodeFacts, GensAreNatural
  <2>4. \A m \in MergeNodes : gen'[m] = gen[m]
    BY RestartFacts, NodeFacts
  <2> QED BY <1>1, <2>1, <2>2, <2>3, <2>4 DEF IndInv, BranchInv
<1>5. SourcesInv'
  BY <1>1 DEF IndInv, SourcesInv
<1>6. ForgetInv'
  <2>1. ASSUME NEW m \in MergeNodes, mst'[m] # "none"
        PROVE  /\ \/ \A s \in m \ msrc'[m] : st'[s] = "merged"
                  \/ msrc'[m] = {} /\ \E s \in m : ClosedForGood(s)'
               /\ mst'[m] = "retired" => \A s \in m : st'[s] = "merged"
    <3>1. mst[m] # "none" /\ m \subseteq Specs
      BY <1>3, <2>1, NodeFacts
    <3> QED BY <1>1, <1>2, <1>3, <3>1 DEF IndInv, ForgetInv
  <2> QED BY <2>1 DEF ForgetInv
<1> QED BY <1>1, <1>2, <1>4, <1>5, <1>6 DEF IndInv, RowsInv

-----------------------------------------------------------------------------
(* The theorems.                                                           *)

LEMMA InitHolds == Init => IndInv
<1> SUFFICES ASSUME Init PROVE IndInv
  OBVIOUS
<1>1. TypeOK
  <2>1. [g \in Gens |-> Nothing] \in [Gens -> Contents] /\ [s \in Specs |-> 0] \in [Specs -> Gens]
    BY NothingType, GensAreNatural
  <2> QED BY <2>1, NothingType, BoundsNatural, GensAreNatural DEF Init, TypeOK, States, MStates
<1>2. SourcesInv /\ ForgetInv /\ RowsInv
  BY NodeFacts DEF Init, SourcesInv, ForgetInv, RowsInv, RowInv
<1>3. BranchInv
  BY NodeFacts DEF Init, BranchInv
<1> QED BY <1>1, <1>2, <1>3 DEF IndInv

LEMMA NextKeeps == IndInv /\ [Next]_vars => IndInv'
<1> SUFFICES ASSUME IndInv, [Next]_vars PROVE IndInv'
  OBVIOUS
<1>1. CASE UNCHANGED vars
  <2>1. TypeOK' /\ spent <= spent'
    BY <1>1, TroubleType
       DEF IndInv, TypeOK, vars, rowVars, linkVars, winVars, gitVars, ownVars
  <2> QED BY <1>1, <2>1, Stands DEF vars, rowVars, linkVars, gitVars, ownVars
<1>2. CASE PickNext
  BY <1>2, PickNextKeeps
<1>3. CASE Restart
  BY <1>3, RestartKeeps
<1>4. ASSUME NEW t \in Specs, WorkerStep(t) \/ WatcherStep(t) \/ OutsideStep(t) PROVE IndInv'
  <2>1. CASE RunRebaseToMain(t)
    BY <2>1, NodeFacts, RebaseStepKeeps
  <2>2. CASE InlineFinish(t)
    BY <2>2, InlineFinishKeeps
  <2> QED BY <1>4, <2>1, <2>2, WorkerStepKeeps, WatcherStepKeeps, OutsideStepKeeps
<1>5. ASSUME NEW m \in MergeNodes, MergeNodeStep(m) PROVE IndInv'
  BY <1>5, MergeNodeStepKeeps
<1>6. ASSUME NEW n \in Nodes,
             \/ RunRebaseToParentTip(n) \/ RebaseFails(n)
             \/ RebaseIsVain(n) \/ RebaseWindowEnds(n)
      PROVE  IndInv'
  BY <1>6, RebaseStepKeeps
<1> QED BY <1>1, <1>2, <1>3, <1>4, <1>5, <1>6 DEF Next

LEMMA Invariance == Spec => []IndInv
  BY InitHolds, NextKeeps, PTL DEF Spec

(* The scheduler, the workers, the watcher, the cascade and recovery keep   *)
(* every column, branch and future well typed: a parent is always a node   *)
(* of the DAG, and no branch holds commits nobody made.                    *)
THEOREM StackTypes == Spec => []TypeOK
<1>1. IndInv => TypeOK
  BY DEF IndInv
<1> QED BY <1>1, Invariance, PTL

(* A merge-node forgets a source only once that source merged or when one  *)
(* of its sources was closed, and retires only when all of them merged.    *)
THEOREM MergeNodesForget == Spec => []MergeNodeForgetsMerged
<1>1. IndInv => MergeNodeForgetsMerged
  BY DEF IndInv, ForgetInv, ClosedForGood, MergeNodeForgetsMerged
<1> QED BY <1>1, Invariance, PTL

(* A row in REBASING_TO_MAIN always has the rebase future that moves it on, *)
(* whatever cascades, polls, picks, faults and restarts happen around it.  *)
THEOREM RebasingOwned == Spec => []RebasingIsOwned
<1>1. IndInv => RebasingIsOwned
  BY DEF IndInv, RowsInv, RowInv, RebasingIsOwned
<1> QED BY <1>1, Invariance, PTL

=============================================================================
