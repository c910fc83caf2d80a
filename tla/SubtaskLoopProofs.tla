-------------------------- MODULE SubtaskLoopProofs --------------------------
(***************************************************************************)
(* Theorems about SubtaskLoop, for every plan, every budget and every      *)
(* length of the branches.                                                 *)
(***************************************************************************)
EXTENDS SubtaskLoop, DataLemmas

-----------------------------------------------------------------------------
(* The inductive invariant.                                                *)

Settled(s) == rows[s].state \in {"absent", "done"}

InSet == wk.pc \in {"next", "audit"} \/ Attempting

(* Between the worker's steps: what its program counter says of the rest.  *)
ControlInv ==
  /\ wk.pc = "none" <=> task # "running"
  /\ wk.pc \in {"none", "plan", "planned"} => wk = [Idle EXCEPT !.pc = wk.pc]
  /\ wk.pc = "audit" => wk.fixing /\ wk.set = <<>>
  /\ Attempting => wk.set # <<>> /\ rows[cur].state # "done"
  /\ Attempting /\ wk.pc # "try" => wk.att >= 1

(* A row never counts more flatlines than failed attempts, and a row that  *)
(* is not there has nothing on record.                                     *)
RowInv ==
  \A s \in Subs : /\ rows[s].flat <= rows[s].retries
                  /\ ~Present(s) => rows[s] = NoRow

(* The subtasks that the running set answers for.                          *)
Covered ==
  IF wk.fixing THEN Subs
  ELSE IF rows[FixupId].kind # "spec" THEN Range(Plan) ELSE Specs

(* The set holds what is left of them, in the order of the run.            *)
SetInv ==
  /\ InSet => /\ Range(wk.set) \subseteq Covered
              /\ \A s \in Covered \ Range(wk.set) : Settled(s)
  /\ \A i, j \in DOMAIN wk.set : i <= j => wk.set[j] \notin Before(wk.set[i])

(* Commits on record: on both branches, each one on top of those of the    *)
(* subtasks that run before, which are settled.                            *)
Recorded(s) == rows[s].sha # NoSha

ShaInv ==
  /\ \A s \in Subs : Recorded(s) =>
       /\ Last(rows[s].sha) \in Range(head) \cap Range(remote)
       /\ \A q \in Before(s) : Settled(q)
       /\ \A q \in Before(s) : Recorded(q) => Last(rows[q].sha) \in Range(Front(rows[s].sha))
  /\ wk.pc \in {"push", "record"} =>
       /\ wk.sha # NoSha /\ Last(wk.sha) \in Range(head)
       /\ wk.pc = "record" => Last(wk.sha) \in Range(remote)
       /\ \A q \in Before(cur) : Recorded(q) => Last(rows[q].sha) \in Range(Front(wk.sha))

(* The rows are in the order of the run.                                   *)
ListedInOrder == TopoOrder = Plan

IndInv == TypeOK /\ ControlInv /\ RowInv /\ AttemptIsRetries /\ SetInv
          /\ (ListedInOrder => ShaInv)

-----------------------------------------------------------------------------
(* What the recursive definitions compute.                                 *)

(* The members of q that are in S; those of a prefix without any are none. *)
Keepings(q, S, T) ==
  {f \in [0..Len(q) -> Seq(T)] :
     /\ f[0] = <<>> /\ Kept(q, S) = f[Len(q)]
     /\ \A k \in 1..Len(q) :
          f[k] = IF q[k] \in S THEN Append(f[k - 1], q[k]) ELSE f[k - 1]}

LEMMA KeptFacts ==
  ASSUME NEW T, NEW q \in Seq(T), NEW S
  PROVE  Keepings(q, S, T) # {}
<1> DEFINE L == Len(q)
           step(k, u) == IF q[k] \in S THEN Append(u, q[k]) ELSE u
           G == [k \in 1..L |-> [u \in Seq(T) |-> step(k, u)]]
           body(f) == [n \in 0..L |-> IF n = 0 THEN <<>>
                                      ELSE IF q[n] \in S THEN Append(f[n - 1], q[n])
                                                         ELSE f[n - 1]]
<1>1. L \in Nat /\ \A k \in 1..L : q[k] \in T
  OBVIOUS
<1>2. \A k \in 1..L : \A u \in Seq(T) : step(k, u) \in Seq(T)
  BY <1>1
<1>3. G \in [1..L -> [Seq(T) -> Seq(T)]]
  BY <1>2
<1>4. <<>> \in Seq(T)
  OBVIOUS
<1>5. PICK g \in [0..L -> Seq(T)] : g[0] = <<>> /\ \A k \in 1..L : g[k] = G[k][g[k - 1]]
  <2> DEFINE U == Seq(T)
             e == <<>>
  <2>1. L \in Nat /\ e \in U /\ G \in [1..L -> [U -> U]]
    BY <1>1, <1>3, <1>4
  <2> HIDE DEF G, L, U, e
  <2>2. Iterations(L, U, e, G) # {}
    BY <2>1, Iterates
  <2> QED BY <2>2 DEF U, e, Iterations
<1>6. g = body(g)
  <2>1. ASSUME NEW k \in 1..L PROVE g[k] = step(k, g[k - 1])
    <3>1. k - 1 \in 0..L
      BY <1>1
    <3> QED BY <1>5, <3>1
  <2>2. ASSUME NEW k \in 0..L PROVE g[k] = body(g)[k]
    <3>1. k = 0 \/ k \in 1..L
      BY <1>1
    <3> HIDE DEF G
    <3> QED BY <1>5, <2>1, <3>1
  <2> HIDE DEF L
  <2> QED BY <1>5, <2>2
<1> DEFINE kept == CHOOSE f : f = body(f)
<1>7. kept = body(kept)
  <2> HIDE DEF body
  <2> QED BY <1>6, Zenon
<1>8. Kept(q, S) = kept[L]
  BY DEF Kept
<1> HIDE DEF kept
<1>9. ASSUME NEW k \in 0..L
       PROVE  kept[k] = IF k = 0 THEN <<>> ELSE step(k, kept[k - 1])
  <2>1. kept[k] = body(kept)[k]
    <3> HIDE DEF body
    <3> QED BY <1>7, Zenon
  <2>2. \A f : body(f)[k] = IF k = 0 THEN <<>> ELSE step(k, f[k - 1])
    OBVIOUS
  <2> HIDE DEF body, step
  <2> QED BY <2>1, <2>2
<1>10. \A k \in 0..L : kept[k] \in Seq(T)
  <2> DEFINE Good == {k \in 0..L : kept[k] \in Seq(T)}
  <2>1. 0 \in Good
    <3>1. 0 \in 0..L
      BY <1>1
    <3>2. kept[0] = <<>>
      BY <1>9, <3>1
    <3> QED BY <3>1, <3>2
  <2>2. ASSUME NEW k \in 1..L, k - 1 \in Good PROVE k \in Good
    <3>1. kept[k] = step(k, kept[k - 1])
      <4> HIDE DEF step
      <4> QED BY <1>1, <1>9
    <3> QED BY <1>1, <2>2, <3>1
  <2>3. \A k \in 1..L : k - 1 \in Good => k \in Good
    BY <2>2
  <2> HIDE DEF Good, L
  <2>4. \A k \in 0..L : k \in Good
    BY <1>1, <2>1, <2>3, UpTo
  <2> QED BY <2>4 DEF Good
<1>11. kept \in [0..L -> Seq(T)]
  BY <1>7, <1>10
<1>12. kept[0] = <<>> /\ \A k \in 1..L : kept[k] = step(k, kept[k - 1])
  <2> HIDE DEF step
  <2> QED BY <1>1, <1>9
<1>13. kept \in Keepings(q, S, T)
  BY <1>8, <1>11, <1>12 DEF Keepings
<1> QED BY <1>13

LEMMA KeptRange ==
  ASSUME NEW T, NEW q \in Seq(T), NEW S
  PROVE  Kept(q, S) \in Seq(T) /\ Range(Kept(q, S)) = Range(q) \cap S
<1> DEFINE L == Len(q)
<1>1. PICK f \in [0..L -> Seq(T)] :
        /\ f[0] = <<>> /\ Kept(q, S) = f[L]
        /\ \A k \in 1..L : f[k] = IF q[k] \in S THEN Append(f[k - 1], q[k]) ELSE f[k - 1]
  BY KeptFacts DEF Keepings
<1>2. L \in Nat /\ DOMAIN q = 1..L /\ \A k \in 1..L : q[k] \in T
  OBVIOUS
<1> HIDE DEF L
<1> DEFINE Good == {k \in 0..L : Range(f[k]) = {q[i] : i \in 1..k} \cap S}
<1>3. 0 \in Good
  BY <1>1, <1>2 DEF Range
<1>4. ASSUME NEW k \in 1..L, k - 1 \in Good PROVE k \in Good
  <2>1. f[k - 1] \in Seq(T) /\ Range(f[k - 1]) = {q[i] : i \in 1..(k - 1)} \cap S
    BY <1>1, <1>2, <1>4
  <2>2. {q[i] : i \in 1..k} = {q[i] : i \in 1..(k - 1)} \cup {q[k]}
    <3>1. 1..k = (1..(k - 1)) \cup {k}
      BY <1>2
    <3> QED BY <3>1
  <2>3. CASE q[k] \in S
    BY <1>1, <1>2, <2>1, <2>2, <2>3, AppendFacts
  <2>4. CASE q[k] \notin S
    BY <1>1, <2>1, <2>2, <2>4
  <2> QED BY <2>3, <2>4
<1>5. \A k \in 0..L : k \in Good
  <2>1. \A k \in 1..L : k - 1 \in Good => k \in Good
    BY <1>4
  <2> HIDE DEF Good
  <2> QED BY <1>2, <1>3, <2>1, UpTo
<1>6. L \in Good
  BY <1>2, <1>5
<1>7. {q[i] : i \in 1..L} = Range(q)
  BY <1>2 DEF Range
<1>8. f[L] \in Seq(T)
  BY <1>1, <1>2
<1> QED BY <1>1, <1>6, <1>7, <1>8

(* Nothing but the last two members may be kept.                           *)
LEMMA KeptTail ==
  ASSUME NEW T, NEW q \in Seq(T), NEW a \in T, NEW b \in T, NEW S, Range(q) \cap S = {}
  PROVE  Kept(q \o <<a, b>>, S) \in {<<>>, <<a>>, <<b>>, <<a, b>>}
<1> DEFINE r == q \o <<a, b>>
           L == Len(q)
<1>1. /\ r \in Seq(T) /\ L \in Nat /\ Len(r) = L + 2 /\ r[L + 1] = a /\ r[L + 2] = b
      /\ \A i \in 1..L : r[i] = q[i] /\ q[i] \notin S
  BY DEF Range
<1>0. r \in Seq(T)
  OBVIOUS
<1> HIDE DEF r, L
<1>2. PICK f \in [0..Len(r) -> Seq(T)] :
        /\ f[0] = <<>> /\ Kept(r, S) = f[Len(r)]
        /\ \A k \in 1..Len(r) : f[k] = IF r[k] \in S THEN Append(f[k - 1], r[k]) ELSE f[k - 1]
  <2>1. Keepings(r, S, T) # {}
    BY <1>0, KeptFacts
  <2> QED BY <2>1 DEF Keepings
<1> DEFINE Good == {k \in 0..L : f[k] = <<>>}
<1>3. \A k \in 0..L : k \in Good
  <2>1. 0 \in Good
    BY <1>1, <1>2
  <2>2. ASSUME NEW k \in 1..L, k - 1 \in Good PROVE k \in Good
    <3>0. f[k - 1] = <<>>
      BY <2>2
    <3>1. k \in 1..Len(r) /\ r[k] \notin S /\ f[k - 1] = <<>>
      BY <1>1, <3>0, r[k] = q[k]
    <3>2. f[k] = f[k - 1]
      BY <1>2, <3>1
    <3> QED BY <1>1, <3>1, <3>2
  <2>3. \A k \in 1..L : k - 1 \in Good => k \in Good
    BY <2>2
  <2> HIDE DEF Good
  <2> QED BY <1>1, <2>1, <2>3, UpTo
<1>4. f[L] = <<>>
  BY <1>1, <1>3
<1>5. f[L + 1] = IF a \in S THEN Append(f[L], a) ELSE f[L]
  <2>1. L + 1 \in 1..Len(r) /\ (L + 1) - 1 = L
    BY <1>1
  <2>2. f[L + 1] = IF r[L + 1] \in S THEN Append(f[(L + 1) - 1], r[L + 1]) ELSE f[(L + 1) - 1]
    BY <1>2, <2>1
  <2> QED BY <1>1, <2>1, <2>2
<1>6. f[L + 2] = IF b \in S THEN Append(f[L + 1], b) ELSE f[L + 1]
  <2>1. L + 2 \in 1..Len(r) /\ (L + 2) - 1 = L + 1
    BY <1>1
  <2>2. f[L + 2] = IF r[L + 2] \in S THEN Append(f[(L + 2) - 1], r[L + 2]) ELSE f[(L + 2) - 1]
    BY <1>2, <2>1
  <2> QED BY <1>1, <2>1, <2>2
<1>7. Append(<<>>, a) = <<a>> /\ Append(<<>>, b) = <<b>> /\ Append(<<a>>, b) = <<a, b>>
  OBVIOUS
<1>8. f[L + 2] \in {<<>>, <<a>>, <<b>>, <<a, b>>}
  BY <1>4, <1>5, <1>6, <1>7
<1> QED BY <1>1, <1>2, <1>8 DEF r

(* The order of the run lists every planned subtask once.                  *)
LEMMA TopoFacts ==
  /\ TopoOrder \in Seq(Range(Plan)) /\ IsInjective(TopoOrder)
  /\ Range(TopoOrder) = Range(Plan) /\ Len(TopoOrder) = Len(Plan)
<1> DEFINE L == Len(Plan)
           P == Range(Plan)
           V == {u \in Seq(P) : IsInjective(u) /\ Len(u) <= L}
           add(u) == IF Ready(Range(u)) # {} /\ Len(u) < L THEN Append(u, Min(Ready(Range(u)))) ELSE u
           G == [k \in 1..L |-> [u \in V |-> add(u)]]
           body(f) == [n \in 0..L |-> IF n = 0 THEN <<>>
                                      ELSE Append(f[n - 1], Min(Ready(Range(f[n - 1]))))]
<1>1. L \in Nat /\ P \subseteq Nat /\ DOMAIN Plan = 1..L
  BY PlanAssumption DEF Range
<1>2. ASSUME NEW out \in SUBSET P, Ready(out) # {}
      PROVE  Min(Ready(out)) \in P \ out
  <2>1. Ready(out) \in SUBSET Nat
    BY <1>1 DEF Ready
  <2> QED BY <1>2, <2>1, MinIsMember DEF Ready
<1>3. ASSUME NEW u \in V, Ready(Range(u)) # {}, Len(u) < L
      PROVE  Append(u, Min(Ready(Range(u)))) \in V
  <2> DEFINE e == Min(Ready(Range(u)))
  <2>1. u \in Seq(P) /\ Range(u) \in SUBSET P
    BY RangeIsFinite
  <2>2. e \in P /\ e \notin Range(u)
    BY <1>2, <1>3, <2>1
  <2> HIDE DEF e, P
  <2>3. /\ Append(u, e) \in Seq(P) /\ Len(Append(u, e)) = Len(u) + 1 /\ Len(u) \in Nat
        /\ Append(u, e)[Len(u) + 1] = e /\ \A i \in 1..Len(u) : Append(u, e)[i] = u[i]
        /\ DOMAIN Append(u, e) = 1..(Len(u) + 1) /\ DOMAIN u = 1..Len(u)
    BY <2>1, <2>2
  <2>4. \A i \in 1..Len(u) : u[i] # e
    BY <2>2, <2>3 DEF Range
  <2>5. \A i, j \in 1..Len(u) : u[i] = u[j] => i = j
    BY <2>3 DEF IsInjective
  <2>6. IsInjective(Append(u, e))
    BY <2>3, <2>4, <2>5 DEF IsInjective
  <2> QED BY <1>1, <1>3, <2>3, <2>6 DEF e
<1>4. G \in [1..L -> [V -> V]]
  <2>1. \A u \in V : add(u) \in V
    BY <1>3
  <2> HIDE DEF V, add
  <2> QED BY <2>1
<1>5. <<>> \in V
  BY <1>1 DEF IsInjective
<1>6. PICK g \in [0..L -> V] : g[0] = <<>> /\ \A k \in 1..L : g[k] = G[k][g[k - 1]]
  <2> DEFINE e == <<>>
  <2>1. L \in Nat /\ e \in V /\ G \in [1..L -> [V -> V]]
    BY <1>1, <1>4, <1>5
  <2> HIDE DEF G, L, V, e
  <2>2. Iterations(L, V, e, G) # {}
    BY <2>1, Iterates
  <2> QED BY <2>2 DEF e, Iterations
<1>7. ASSUME NEW k \in 1..L PROVE g[k] = add(g[k - 1])
  <2>1. k - 1 \in 0..L
    BY <1>1
  <2> HIDE DEF add, V
  <2> QED BY <1>6, <2>1
<1>8. IsFiniteSet(P) /\ Cardinality(P) = L
  <2>1. Plan \in Bijection(1..L, P)
    <3>1. Plan \in [1..L -> P] /\ \A x \in P : \E i \in 1..L : Plan[i] = x
      BY <1>1, PlanAssumption DEF Range
    <3>2. \A i, j \in 1..L : Plan[i] = Plan[j] => i = j
      BY <1>1, PlanAssumption DEF IsInjective
    <3> HIDE DEF L, P
    <3> QED BY <3>1, <3>2, Fun_IsBij
  <2>2. IsFiniteSet(1..L) /\ Cardinality(1..L) = L
    BY <1>1, IntervalSize
  <2> HIDE DEF P
  <2> QED BY <2>1, <2>2, FS_Bijection DEF ExistsBijection
<1>9. ASSUME NEW u \in V
      PROVE  /\ u \in Seq(P) /\ Range(u) \subseteq P /\ Len(u) \in Nat
             /\ IsFiniteSet(Range(u)) /\ Cardinality(Range(u)) = Len(u)
  <2>1. u \in Seq(P) /\ Range(u) \subseteq P /\ Len(u) \in Nat
    BY RangeIsFinite
  <2>2. DOMAIN u = 1..Len(u) /\ u \in [1..Len(u) -> Range(u)]
    BY <2>1 DEF Range
  <2>3. u \in Bijection(1..Len(u), Range(u))
    BY <2>2, Fun_IsBij DEF Range, IsInjective
  <2>4. IsFiniteSet(1..Len(u)) /\ Cardinality(1..Len(u)) = Len(u)
    BY <2>1, IntervalSize
  <2> QED BY <2>1, <2>3, <2>4, FS_Bijection DEF ExistsBijection
(* As long as something is left, some subtask is ready.                    *)
<1>10. ASSUME NEW u \in V, Len(u) < L PROVE Ready(Range(u)) # {}
  <2>1. P \ Range(u) # {}
    <3>1. P # Range(u)
      BY <1>1, <1>8, <1>9, <1>10
    <3> QED BY <1>9, <3>1
  <2>2. PICK s \in P \ Range(u) : Deps[s] \cap (P \ Range(u)) = {}
    BY <2>1, PlanAssumption
  <2>3. Deps[s] \subseteq Range(u)
    BY <2>2, PlanAssumption
  <2> QED BY <2>2, <2>3 DEF Ready
<1> DEFINE grown(u) == Append(u, Min(Ready(Range(u))))
           Good == {k \in 0..L : Len(g[k]) = k /\ TopoPrefix[k] = g[k]}
<1>11. ASSUME NEW k \in 1..L, Len(g[k - 1]) = k - 1
       PROVE  g[k] = grown(g[k - 1]) /\ Len(g[k]) = k
  <2>1. g[k - 1] \in V /\ k - 1 < L /\ g[k] \in V
    <3>1. k - 1 \in 0..L /\ k \in 0..L /\ k - 1 < L
      BY <1>1
    <3> HIDE DEF V, G, L
    <3> QED BY <1>6, <3>1
  <2>2. Ready(Range(g[k - 1])) # {}
    BY <1>10, <1>11, <2>1
  <2>3. g[k] = grown(g[k - 1])
    BY <1>7, <1>11, <2>1, <2>2
  <2>4. Len(g[k]) = Len(g[k - 1]) + 1
    <3>1. g[k - 1] \in Seq(P) /\ Len(g[k - 1]) \in Nat
      BY <1>9, <2>1
    <3> QED BY <2>3, <3>1
  <2> QED BY <1>11, <2>3, <2>4
<1>12. \A k \in 0..L : Len(g[k]) = k
  <2> DEFINE H == {k \in 0..L : Len(g[k]) = k}
  <2>1. 0 \in H
    BY <1>1, <1>6
  <2>2. ASSUME NEW k \in 1..L, k - 1 \in H PROVE k \in H
    <3>1. Len(g[k]) = k
      BY <1>11, <2>2
    <3> QED BY <1>1, <3>1
  <2>3. \A k \in 1..L : k - 1 \in H => k \in H
    BY <2>2
  <2> HIDE DEF H, L
  <2>4. \A k \in 0..L : k \in H
    BY <1>1, <2>1, <2>3, UpTo
  <2> QED BY <2>4 DEF H
<1>13. g = body(g)
  <2>1. ASSUME NEW k \in 0..L PROVE g[k] = body(g)[k]
    <3>1. k = 0 \/ (k \in 1..L /\ k - 1 \in 0..L)
      BY <1>1
    <3> QED BY <1>6, <1>11, <1>12, <3>1
  <2> HIDE DEF L, V
  <2> QED BY <1>6, <2>1
<1>14. TopoPrefix = CHOOSE f : f = body(f)
  BY DEF TopoPrefix
<1>15. TopoPrefix = body(TopoPrefix)
  <2> HIDE DEF body
  <2> QED BY <1>13, <1>14, Zenon
<1>16. ASSUME NEW k \in 0..L
       PROVE  TopoPrefix[k] = IF k = 0 THEN <<>> ELSE grown(TopoPrefix[k - 1])
  <2>1. TopoPrefix[k] = body(TopoPrefix)[k]
    <3> HIDE DEF body
    <3> QED BY <1>15, Zenon
  <2>2. \A f : body(f)[k] = IF k = 0 THEN <<>> ELSE grown(f[k - 1])
    OBVIOUS
  <2> HIDE DEF body, grown
  <2> QED BY <2>1, <2>2
<1>17. \A k \in 0..L : k \in Good
  <2> HIDE DEF grown
  <2>1. 0 \in Good
    <3>1. 0 \in 0..L
      BY <1>1
    <3> QED BY <1>6, <1>12, <1>16, <3>1
  <2>2. ASSUME NEW k \in 1..L, k - 1 \in Good PROVE k \in Good
    <3>1. k \in 0..L /\ k - 1 \in 0..L /\ k # 0
      BY <1>1
    <3> QED BY <1>11, <1>12, <1>16, <2>2, <3>1
  <2>3. \A k \in 1..L : k - 1 \in Good => k \in Good
    BY <2>2
  <2> HIDE DEF Good, L
  <2> QED BY <1>1, <2>1, <2>3, UpTo
<1>18. L \in 0..L
  BY <1>1
<1>19. TopoOrder = g[L] /\ g[L] \in V /\ Len(g[L]) = L
  BY <1>6, <1>17, <1>18 DEF TopoOrder
<1>20. Range(g[L]) = P
  <2>1. Range(g[L]) \subseteq P /\ Cardinality(Range(g[L])) = Cardinality(P) /\ IsFiniteSet(P)
    BY <1>8, <1>9, <1>19
  <2> HIDE DEF P
  <2> QED BY <2>1, FS_Subset
<1> QED BY <1>9, <1>19, <1>20

(* The run takes the planned subtasks, the gate and the fixup, each once.  *)
LEMMA RunFacts ==
  LET N == Len(Plan) + 2
  IN  /\ N \in Nat /\ RunOrder \in Seq(Subs) /\ Len(RunOrder) = N /\ DOMAIN RunOrder = 1..N
      /\ \A i, j \in 1..N : RunOrder[i] = RunOrder[j] => i = j
      /\ \A s \in Subs : \E i \in 1..N : RunOrder[i] = s
      /\ RunOrder[N - 1] = GateId /\ RunOrder[N] = FixupId
      /\ Len(TopoOrder) = N - 2 /\ \A i \in 1..(N - 2) : RunOrder[i] = TopoOrder[i]
<1> DEFINE L == Len(Plan)
           P == Range(Plan)
           R == RunOrder
<1>1. L \in Nat /\ GateId \notin P /\ FixupId \notin P /\ FixupId # GateId
  BY PlanAssumption DEF Specs
<1>2. TopoOrder \in Seq(P) /\ Len(TopoOrder) \in Nat /\ DOMAIN TopoOrder = 1..Len(TopoOrder)
  BY TopoFacts
<1>3. Len(TopoOrder) = L
  BY TopoFacts
<1>4. /\ R \in Seq(Subs) /\ Len(R) = L + 2 /\ DOMAIN R = 1..(L + 2)
      /\ \A i \in 1..L : R[i] = TopoOrder[i] /\ R[i] \in P
      /\ R[L + 1] = GateId /\ R[L + 2] = FixupId
  <2> HIDE DEF L, P
  <2>1. GateId \in Subs /\ FixupId \in Subs /\ P \subseteq Subs
    BY DEF Subs, Specs, P
  <2>2. TopoOrder \in Seq(Subs)
    BY <1>2, <2>1
  <2> QED BY <1>1, <1>2, <1>3, <2>1, <2>2 DEF RunOrder
<1>5. \A i, j \in 1..L : TopoOrder[i] = TopoOrder[j] => i = j
  BY <1>2, <1>3, TopoFacts DEF IsInjective
<1>6. \A i, j \in 1..(L + 2) : R[i] = R[j] => i = j
  <2> HIDE DEF L, P, R
  <2>1. \A i \in 1..(L + 2) : i \in 1..L \/ i = L + 1 \/ i = L + 2
    BY <1>1
  <2> QED BY <1>1, <1>4, <1>5, <2>1
<1>7. ASSUME NEW s \in Subs PROVE \E i \in 1..(L + 2) : R[i] = s
  <2>1. CASE s \in P
    <3>1. PICK i \in 1..L : TopoOrder[i] = s
      BY <1>2, <1>3, <2>1, TopoFacts DEF Range
    <3>2. i \in 1..(L + 2)
      BY <1>1
    <3> QED BY <1>4, <3>1, <3>2
  <2>2. CASE s = GateId
    BY <1>1, <1>4, <2>2
  <2>3. CASE s = FixupId
    BY <1>1, <1>4, <2>3
  <2> QED BY <2>1, <2>2, <2>3 DEF Subs, Specs
<1> HIDE DEF L, R
<1>8. L + 2 \in Nat /\ (L + 2) - 1 = L + 1 /\ (L + 2) - 2 = L
  BY <1>1
<1> QED BY <1>3, <1>4, <1>6, <1>7, <1>8 DEF L, R

(* What runs before a subtask.                                             *)
LEMMA BeforeAt ==
  ASSUME NEW i \in 1..(Len(Plan) + 2), NEW j \in 1..(Len(Plan) + 2)
  PROVE  RunOrder[j] \in Before(RunOrder[i]) <=> j < i
<1> DEFINE N == Len(Plan) + 2
<1>1. /\ N \in Nat /\ DOMAIN RunOrder = 1..N
      /\ \A a, b \in 1..N : RunOrder[a] = RunOrder[b] => a = b
  BY RunFacts
<1> HIDE DEF N
<1>2. i \in 1..N /\ j \in 1..N
  BY DEF N
<1>3. ASSUME RunOrder[j] \in Before(RunOrder[i]) PROVE j < i
  <2>1. PICK m \in 1..N : RunOrder[m] = RunOrder[j] /\ \A k \in 1..m : RunOrder[k] # RunOrder[i]
    BY <1>1, <1>3 DEF Before
  <2>2. m = j
    BY <1>1, <1>2, <2>1
  <2> QED BY <1>1, <1>2, <2>1, <2>2
<1>4. ASSUME j < i PROVE RunOrder[j] \in Before(RunOrder[i])
  <2>1. \A k \in 1..j : RunOrder[k] # RunOrder[i]
    BY <1>1, <1>2, <1>4
  <2> QED BY <1>1, <1>2, <2>1 DEF Before
<1> QED BY <1>3, <1>4

LEMMA BeforeFacts ==
  /\ \A s \in Subs : Before(s) \subseteq Subs /\ s \notin Before(s) /\ FixupId \notin Before(s)
  /\ \A s \in Range(Plan) : Before(s) \subseteq Range(Plan)
  /\ Before(GateId) \subseteq Range(Plan)
  /\ Before(FixupId) = Specs
  /\ \A s, t, q \in Subs : t \in Before(s) /\ q \in Before(t) => q \in Before(s)
  /\ \A i, j \in DOMAIN TopoOrder : i <= j => TopoOrder[j] \notin Before(TopoOrder[i])
<1> DEFINE N == Len(Plan) + 2
           R == RunOrder
<1>1. /\ N \in Nat /\ N >= 2 /\ DOMAIN R = 1..N
      /\ \A s \in Subs : \E i \in 1..N : R[i] = s
      /\ \A i \in 1..N : R[i] \in Subs
      /\ R[N - 1] = GateId /\ R[N] = FixupId
      /\ DOMAIN TopoOrder = 1..(N - 2) /\ \A i \in 1..(N - 2) : R[i] = TopoOrder[i]
  <2>1. Len(Plan) \in Nat
    BY PlanAssumption
  <2>2. Len(TopoOrder) = N - 2 /\ TopoOrder \in Seq(Range(Plan))
    BY RunFacts, TopoFacts
  <2> QED BY <2>1, <2>2, RunFacts
<1>2. \A i, j \in 1..N : R[j] \in Before(R[i]) <=> j < i
  BY BeforeAt
<1>3. ASSUME NEW s PROVE Before(s) \subseteq {R[i] : i \in 1..N}
  BY <1>1 DEF Before
<1> HIDE DEF N, R
<1>4. \A s \in Subs : Before(s) \subseteq Subs /\ s \notin Before(s) /\ FixupId \notin Before(s)
  <2> SUFFICES ASSUME NEW s \in Subs
               PROVE  Before(s) \subseteq Subs /\ s \notin Before(s) /\ FixupId \notin Before(s)
    OBVIOUS
  <2>1. PICK i \in 1..N : R[i] = s
    BY <1>1
  <2>2. N \in 1..N /\ ~(N < i) /\ ~(i < i)
    BY <1>1
  <2>3. s \notin Before(s) /\ FixupId \notin Before(s)
    BY <1>1, <1>2, <2>1, <2>2
  <2> QED BY <1>1, <1>3, <2>3
<1>5. ASSUME NEW i \in 1..(N - 1) PROVE Before(R[i]) \subseteq Range(Plan)
  <2> SUFFICES ASSUME NEW q \in Before(R[i]) PROVE q \in Range(Plan)
    OBVIOUS
  <2>1. PICK j \in 1..N : R[j] = q
    BY <1>3
  <2>2. j < i
    <3>1. i \in 1..N
      BY <1>1
    <3> QED BY <1>2, <2>1, <3>1
  <2>3. j \in 1..(N - 2) /\ q = TopoOrder[j]
    BY <1>1, <2>1, <2>2
  <2> QED BY <1>1, <2>3, TopoFacts DEF Range
<1>6. \A s \in Range(Plan) : Before(s) \subseteq Range(Plan)
  <2> SUFFICES ASSUME NEW s \in Range(Plan) PROVE Before(s) \subseteq Range(Plan)
    OBVIOUS
  <2>1. PICK i \in 1..(N - 2) : TopoOrder[i] = s
    BY <1>1, TopoFacts DEF Range
  <2>2. i \in 1..(N - 1) /\ R[i] = s
    BY <1>1, <2>1
  <2> QED BY <1>5, <2>2
<1>7. Before(GateId) \subseteq Range(Plan)
  <2>1. N - 1 \in 1..(N - 1)
    BY <1>1
  <2> QED BY <1>1, <1>5, <2>1
<1>8. Before(FixupId) = Specs
  <2>1. ASSUME NEW q \in Specs PROVE q \in Before(FixupId)
    <3>1. q \in Subs /\ q # FixupId
      BY PlanAssumption DEF Subs
    <3>2. PICK j \in 1..N : R[j] = q
      BY <1>1, <3>1
    <3>3. j < N /\ N \in 1..N
      BY <1>1, <3>1, <3>2
    <3> QED BY <1>1, <1>2, <3>2, <3>3
  <2>2. FixupId \in Subs
    BY DEF Subs
  <2> QED BY <1>4, <2>1, <2>2 DEF Subs
<1>9. \A s, t, q \in Subs : t \in Before(s) /\ q \in Before(t) => q \in Before(s)
  <2> SUFFICES ASSUME NEW s \in Subs, NEW t \in Subs, NEW q \in Subs,
                      t \in Before(s), q \in Before(t)
               PROVE  q \in Before(s)
    OBVIOUS
  <2>1. PICK i \in 1..N, j \in 1..N, k \in 1..N : R[i] = s /\ R[j] = t /\ R[k] = q
    BY <1>1
  <2>2. j < i /\ k < j
    BY <1>2, <2>1
  <2>3. k < i
    BY <1>1, <2>2
  <2> QED BY <1>2, <2>1, <2>3
<1>10. \A i, j \in DOMAIN TopoOrder : i <= j => TopoOrder[j] \notin Before(TopoOrder[i])
  <2> SUFFICES ASSUME NEW i \in 1..(N - 2), NEW j \in 1..(N - 2), i <= j
               PROVE  TopoOrder[j] \notin Before(TopoOrder[i])
    BY <1>1
  <2>1. i \in 1..N /\ j \in 1..N /\ ~(j < i)
    BY <1>1
  <2> QED BY <1>1, <1>2, <2>1
<1> QED BY <1>4, <1>6, <1>7, <1>8, <1>9, <1>10

(* A rewind in the order of the run resets what does not run before.       *)
LEMMA RewoundRows ==
  ASSUME ListedInOrder, NEW s \in Subs
  PROVE  \A q \in Subs : q \in RowsFrom(s) <=> q \notin Before(s)
<1> DEFINE N == Len(Plan) + 2
           R == RunOrder
<1>1. RowOrder = R
  BY DEF RowOrder, RunOrder, ListedInOrder
<1>2. /\ N \in Nat /\ DOMAIN R = 1..N /\ \A q \in Subs : \E i \in 1..N : R[i] = q
      /\ \A i, j \in 1..N : R[i] = R[j] => i = j
  BY RunFacts
<1>3. \A i, j \in 1..N : R[j] \in Before(R[i]) <=> j < i
  BY BeforeAt
<1> HIDE DEF N, R
<1>4. PICK i \in 1..N : R[i] = s
  BY <1>2
<1>5. ASSUME NEW q \in Subs PROVE q \in RowsFrom(s) <=> q \notin Before(s)
  <2>1. PICK j \in 1..N : R[j] = q
    BY <1>2
  <2>2. q \in RowsFrom(s) <=> i <= j
    <3>1. q \in RowsFrom(s) <=> \E m \in 1..N : R[m] = q /\ \E k \in 1..m : R[k] = s
      BY <1>1, <1>2 DEF RowsFrom
    <3>2. ASSUME NEW m \in 1..N, R[m] = q, NEW k \in 1..m, R[k] = s PROVE i <= j
      <4>1. m = j /\ k \in 1..N
        BY <1>2, <2>1, <3>2
      <4>2. k = i
        BY <1>2, <1>4, <3>2, <4>1
      <4> QED BY <1>2, <3>2, <4>1, <4>2
    <3>3. ASSUME i <= j PROVE i \in 1..j
      BY <1>2, <3>3
    <3> QED BY <1>4, <2>1, <3>1, <3>2, <3>3
  <2>3. i <= j <=> ~(j < i)
    BY <1>2
  <2> QED BY <1>3, <1>4, <2>1, <2>2, <2>3
<1> QED BY <1>5

-----------------------------------------------------------------------------
(* Types.                                                                  *)

LEMMA SubsFacts ==
  /\ IsFiniteSet(Subs) /\ GateId \in Subs /\ FixupId \in Subs /\ Range(Plan) \subseteq Subs
  /\ Specs \subseteq Subs /\ GateId \in Specs /\ FixupId \notin Specs /\ Range(Plan) \subseteq Specs
<1>1. IsFiniteSet(Range(Plan))
  BY PlanAssumption, RangeIsFinite
<1>2. IsFiniteSet(Specs)
  BY <1>1, FS_AddElement DEF Specs
<1>3. IsFiniteSet(Subs)
  BY <1>2, FS_AddElement DEF Subs
<1> QED BY <1>3, PlanAssumption DEF Subs, Specs

(* A subtask can always name its next patch: among k + 1 numbers one is    *)
(* not taken by k known patches.                                           *)
LEMMA NewPatchType ==
  ASSUME TypeOK, NEW s \in Subs \cup {Human}
  PROVE  NewPatch(s) \in Patch
<1> DEFINE shas  == {rows[q].sha : q \in Subs}
           hists == {head, remote} \cup shas
           known == UNION {Range(h) : h \in hists}
           k     == Cardinality(known)
           free  == {n \in 0..k : [sub |-> s, n |-> n] \notin known}
<1>1. hists \subseteq Sha
  BY DEF TypeOK, Row
<1>2. IsFiniteSet(hists)
  <2>1. [q \in Subs |-> rows[q].sha] \in Surjection(Subs, shas)
    BY Fun_IsSurj
  <2>2. IsFiniteSet(shas)
    BY <2>1, SubsFacts, FS_Surjection
  <2>3. IsFiniteSet(shas \cup {head})
    BY <2>2, FS_AddElement
  <2>4. IsFiniteSet((shas \cup {head}) \cup {remote})
    BY <2>3, FS_AddElement
  <2>5. hists = (shas \cup {head}) \cup {remote}
    OBVIOUS
  <2> QED BY <2>4, <2>5
<1>3. IsFiniteSet(known)
  <2> HIDE DEF hists
  <2>1. [h \in hists |-> Range(h)] \in Surjection(hists, {Range(h) : h \in hists})
    BY Fun_IsSurj
  <2>2. IsFiniteSet({Range(h) : h \in hists})
    BY <1>2, <2>1, FS_Surjection
  <2>3. \A R \in {Range(h) : h \in hists} : IsFiniteSet(R)
    BY <1>1, RangeIsFinite DEF Sha
  <2> QED BY <2>2, <2>3, FS_UNION
<1>4. k \in Nat
  BY <1>3, FS_CardinalityType
<1> HIDE DEF known, k
<1>5. free # {}
  <2> SUFFICES ASSUME free = {} PROVE FALSE
    OBVIOUS
  <2> DEFINE name == [n \in 0..k |-> [sub |-> s, n |-> n]]
  <2>1. name \in [0..k -> known]
    OBVIOUS
  <2>2. \A a, b \in 0..k : name[a] = name[b] => a = b
    <3>1. \A a \in 0..k : name[a].n = a
      OBVIOUS
    <3> HIDE DEF name
    <3> QED BY <3>1
  <2> HIDE DEF name
  <2>3. name \in Injection(0..k, known)
    BY <2>1, <2>2, Fun_IsInj
  <2>4. Cardinality(0..k) <= Cardinality(known)
    BY <1>3, <2>3, FS_Injection DEF ExistsInjection
  <2>5. 0 \in Int /\ k \in Int
    BY <1>4
  <2>6. Cardinality(0..k) = IF 0 > k THEN 0 ELSE k - 0 + 1
    BY <2>5, FS_Interval, Zenon
  <2> QED BY <1>4, <2>4, <2>6 DEF k
<1>6. Min(free) \in Nat
  <2>1. free \in SUBSET Nat
    BY <1>4
  <2> HIDE DEF free
  <2> QED BY <1>5, <2>1, MinIsMember
<1>7. NewPatch(s) = [sub |-> s, n |-> Min(free)]
  BY DEF NewPatch, known, k
<1> HIDE DEF free
<1> QED BY <1>6, <1>7 DEF Patch

LEMMA SigsKeptType == SigsKept \in Nat
<1> DEFINE S == {CapCr, CapTr, CapSs}
<1>1. S \subseteq Nat
  BY BudgetAssumption
<1>2. \E x \in S : \A y \in S : x >= y
  BY <1>1
<1>3. Max(S) \in S
  BY <1>2 DEF Max
<1> QED BY <1>1, <1>3 DEF SigsKept

LEMMA FreshTypes ==
  ASSUME NEW kind \in {"spec", "fixup-ci", "fixup-review"}
  PROVE  /\ FreshRow(kind) \in Row /\ FreshRow(kind).state = "pending"
         /\ FreshRow(kind).kind = kind /\ FreshRow(kind).sha = NoSha
         /\ FreshRow(kind).flat <= FreshRow(kind).retries
         /\ NoRow \in Row /\ NoRow.state = "absent" /\ NoRow.kind = "spec" /\ NoRow.sha = NoSha
         /\ NoRow.flat <= NoRow.retries
         /\ Idle \in Worker
<1>1. 0 \in 0..HardMax /\ 0 \in 0..TransientMax /\ 0 \in 0..ReprovMax
  BY BudgetAssumption
<1>2. <<>> \in BoundedSeq(Layers, SigsKept)
  <2>1. <<>> \in [1..0 -> Layers] /\ 0 \in 0..SigsKept
    BY SigsKeptType
  <2> QED BY <2>1 DEF BoundedSeq, SeqOf
<1>3. NoSha \in Sha /\ <<>> \in Seq(Subs)
  BY DEF NoSha, Sha
<1>4. FreshRow(kind) \in Row /\ FreshRow(kind).state = "pending" /\ FreshRow(kind).kind = kind
      /\ FreshRow(kind).sha = NoSha /\ FreshRow(kind).flat <= FreshRow(kind).retries
  BY <1>1, <1>2, <1>3 DEF FreshRow, Row
<1>5. NoRow = [state |-> "absent", retries |-> 0, sigs |-> <<>>, flat |-> 0, sha |-> NoSha,
               kind |-> "spec"]
  BY DEF NoRow, FreshRow
<1>6. NoRow \in Row /\ NoRow.state = "absent" /\ NoRow.kind = "spec" /\ NoRow.sha = NoSha
      /\ NoRow.flat <= NoRow.retries
  BY <1>1, <1>2, <1>3, <1>5 DEF Row
<1>7. Idle \in Worker
  BY <1>1, <1>3 DEF Idle, Worker, Layers
<1> QED BY <1>4, <1>6, <1>7

LEMMA ForgivenFacts ==
  ASSUME NEW r \in Row
  PROVE  /\ Forgiven(r) \in Row /\ Forgiven(r).state = r.state /\ Forgiven(r).kind = r.kind
         /\ Forgiven(r).sha = r.sha /\ Forgiven(r).flat <= Forgiven(r).retries
<1>1. 0 \in 0..HardMax
  BY BudgetAssumption
<1>2. <<>> \in BoundedSeq(Layers, SigsKept)
  <2>1. <<>> \in [1..0 -> Layers] /\ 0 \in 0..SigsKept
    BY SigsKeptType
  <2> QED BY <2>1 DEF BoundedSeq, SeqOf
<1>3. ASSUME NEW n \in 0..HardMax, NEW g \in BoundedSeq(Layers, SigsKept)
      PROVE  LET u == [r EXCEPT !.retries = n, !.sigs = g, !.flat = n]
             IN  /\ u \in Row /\ u.state = r.state /\ u.kind = r.kind /\ u.sha = r.sha
                 /\ u.flat = n /\ u.retries = n
  BY DEF Row
<1> DEFINE u == [r EXCEPT !.retries = 0, !.sigs = <<>>, !.flat = 0]
<1>4. /\ u \in Row /\ u.state = r.state /\ u.kind = r.kind /\ u.sha = r.sha
      /\ u.flat = 0 /\ u.retries = 0
  BY <1>1, <1>2, <1>3
<1>5. Forgiven(r) = u
  BY DEF Forgiven
<1> HIDE DEF u
<1> QED BY <1>4, <1>5

LEMMA StateUpdate ==
  ASSUME NEW r \in Row,
         NEW st \in {"absent", "pending", "doing", "checking", "triaging", "done", "blocked"}
  PROVE  LET u == [r EXCEPT !.state = st]
         IN  /\ u \in Row /\ u.state = st /\ u.kind = r.kind /\ u.sha = r.sha
             /\ u.flat = r.flat /\ u.retries = r.retries
  BY DEF Row

-----------------------------------------------------------------------------
(* What the actions have in common.                                        *)

LEMMA UpdateRowFacts ==
  ASSUME TypeOK, NEW s \in Subs, NEW r \in Row, UpdateRow(s, r)
  PROVE  /\ rows' \in [Subs -> Row]
         /\ \A q \in Subs \ {s} : rows'[q] = rows[q]
         /\ rows'[s] = IF Present(s) THEN r ELSE rows[s]
  BY DEF TypeOK, UpdateRow

LEMMA CurFacts ==
  ASSUME TypeOK, wk.set # <<>>
  PROVE  /\ wk.set \in Seq(Subs) /\ cur \in Subs /\ rows[cur] \in Row /\ cur \in Range(wk.set)
         /\ cur = wk.set[1] /\ 1 \in DOMAIN wk.set
         /\ Range(wk.set) = {cur} \cup Range(Tail(wk.set)) /\ Tail(wk.set) \in Seq(Subs)
         /\ \A i \in DOMAIN Tail(wk.set) : i + 1 \in DOMAIN wk.set
                                           /\ Tail(wk.set)[i] = wk.set[i + 1]
<1>1. wk.set \in Seq(Subs)
  BY DEF TypeOK, Worker
<1> QED BY <1>1, TailRange DEF cur, TypeOK

(* The row of the current subtask changes, if it is there, and no other.   *)
RowMoves ==
  /\ rows' \in [Subs -> Row]
  /\ \A q \in Subs \ {cur} : rows'[q] = rows[q]
  /\ rows'[cur].kind = rows[cur].kind
  /\ rows'[cur].flat <= rows'[cur].retries
  /\ Present(cur) => rows'[cur].state # "absent"
  /\ ~Present(cur) => rows'[cur] = rows[cur]

LEMMA RowMovesKeeps ==
  ASSUME IndInv, wk.set # <<>>, RowMoves
  PROVE  /\ RowInv'
         /\ \A s \in Subs : rows'[s].kind = rows[s].kind
         /\ \A s \in Subs \ {cur} : Settled(s)' <=> Settled(s)
<1>1. cur \in Subs
  BY CurFacts DEF IndInv
<1>2. ASSUME NEW s \in Subs
      PROVE  rows'[s].flat <= rows'[s].retries /\ (rows'[s].state = "absent" => rows'[s] = NoRow)
  <2>1. CASE s = cur
    BY <1>1, <2>1 DEF IndInv, RowInv, RowMoves, Present
  <2>2. CASE s # cur
    BY <2>2 DEF IndInv, RowInv, RowMoves, Present
  <2> QED BY <2>1, <2>2
<1>3. RowInv'
  BY <1>2 DEF RowInv, Present
<1>4. \A s \in Subs : rows'[s].kind = rows[s].kind
  BY <1>1 DEF RowMoves
<1> QED BY <1>3, <1>4 DEF RowMoves, Settled

(* UpdateRow, with a row that keeps what RowMoves asks for.                *)
LEMMA UpdateMoves ==
  ASSUME IndInv, wk.set # <<>>, NEW r \in Row, UpdateRow(cur, r),
         r.kind = rows[cur].kind, r.flat <= r.retries, r.state # "absent"
  PROVE  RowMoves /\ rows'[cur] = IF Present(cur) THEN r ELSE rows[cur]
<1>1. cur \in Subs /\ rows[cur] \in Row /\ TypeOK
  BY CurFacts DEF IndInv
<1>2. rows[cur].flat <= rows[cur].retries
  BY <1>1 DEF IndInv, RowInv
<1>3. /\ rows' \in [Subs -> Row]
      /\ \A q \in Subs \ {cur} : rows'[q] = rows[q]
      /\ rows'[cur] = IF Present(cur) THEN r ELSE rows[cur]
  BY <1>1, UpdateRowFacts
<1> QED BY <1>1, <1>2, <1>3 DEF RowMoves

LEMMA SameRowsMove ==
  ASSUME IndInv, wk.set # <<>>, rows' = rows
  PROVE  RowMoves
<1>1. cur \in Subs /\ TypeOK
  BY CurFacts DEF IndInv
<1> QED BY <1>1 DEF RowMoves, IndInv, RowInv, TypeOK, Present

(* Nothing is recorded, no commit is lost, and what is settled stays so.   *)
LEMMA ShaFrame ==
  ASSUME ShaInv, Range(head) \subseteq Range(head'), Range(remote) \subseteq Range(remote'),
         \A s \in Subs : rows'[s].sha = rows[s].sha /\ (Settled(s) => Settled(s)'),
         wk'.pc \notin {"push", "record"}
  PROVE  ShaInv'
<1>1. ASSUME NEW s \in Subs, rows'[s].sha # NoSha
      PROVE  /\ Last(rows'[s].sha) \in Range(head') \cap Range(remote')
             /\ \A q \in Before(s) : Settled(q)'
             /\ \A q \in Before(s) : rows'[q].sha # NoSha
                                       => Last(rows'[q].sha) \in Range(Front(rows'[s].sha))
  <2>1. Recorded(s) /\ rows'[s].sha = rows[s].sha /\ Before(s) \subseteq Subs
    BY <1>1, BeforeFacts DEF Recorded
  <2> QED BY <2>1 DEF ShaInv, Recorded
<1> QED BY <1>1 DEF ShaInv, Recorded

(* The attempt goes on.                                                    *)
LEMMA AttemptKeeps ==
  ASSUME IndInv, Attempting, RowMoves, rows'[cur].state # "done",
         wk' \in Worker, wk'.set = wk.set, wk'.fixing = wk.fixing, Attempting',
         UNCHANGED <<task, marker, text>>, head' \in Sha, remote' \in Sha, dirty' \in BOOLEAN,
         Present(cur) => wk'.att = rows'[cur].retries + IF wk'.pc = "try" THEN 0 ELSE 1,
         wk'.pc # "try" => wk'.att >= 1,
         ListedInOrder => ShaInv'
  PROVE  IndInv'
<1>1. wk.set # <<>> /\ cur' = cur /\ cur \in Subs /\ cur \in Range(wk.set)
  BY CurFacts DEF IndInv, ControlInv, cur
<1>2. TypeOK'
  BY DEF IndInv, TypeOK, RowMoves
<1>3. ControlInv'
  BY <1>1 DEF IndInv, ControlInv, Attempting
<1>4. RowInv' /\ Covered' = Covered
  BY <1>1, RowMovesKeeps, SubsFacts DEF Covered
<1>5. AttemptIsRetries'
  BY <1>1 DEF AttemptIsRetries, Present, RowMoves
<1>6. SetInv'
  <2>1. \A s \in Covered \ Range(wk.set) : s \in Subs /\ s # cur
    BY <1>1, SubsFacts DEF Covered
  <2>2. \A s \in Covered \ Range(wk.set) : Settled(s)'
    BY <1>1, <2>1, RowMovesKeeps DEF IndInv, SetInv, InSet
  <2>3. Range(wk.set) \subseteq Covered
    BY DEF IndInv, SetInv, InSet
  <2> QED BY <1>4, <2>2, <2>3 DEF IndInv, SetInv
<1> QED BY <1>2, <1>3, <1>4, <1>5, <1>6 DEF IndInv

(* The current subtask is settled.                                         *)
LEMMA SettleKeeps ==
  ASSUME IndInv, AtBoundary \/ Attempting, RowMoves,
         rows'[cur].state \in {"absent", "done"},
         rows'[cur].sha = rows[cur].sha, Settle, UNCHANGED <<task, marker, text, branch>>
  PROVE  IndInv'
<1>1. /\ wk.set # <<>> /\ wk \in Worker /\ TypeOK
  BY DEF AtBoundary, IndInv, ControlInv, TypeOK
<1>2. /\ cur \in Subs /\ Range(wk.set) = {cur} \cup Range(Tail(wk.set))
      /\ Tail(wk.set) \in Seq(Subs)
      /\ \A i \in DOMAIN Tail(wk.set) : i + 1 \in DOMAIN wk.set /\ Tail(wk.set)[i] = wk.set[i + 1]
  BY <1>1, CurFacts
<1>3. /\ wk' \in Worker /\ wk'.pc = "next" /\ wk'.set = Tail(wk.set) /\ wk'.fixing = wk.fixing
  <2>1. 0 \in 0..HardMax /\ 0 \in 0..TransientMax /\ 0 \in 0..ReprovMax /\ NoSha \in Sha
    BY BudgetAssumption DEF NoSha, Sha
  <2> QED BY <1>1, <1>2, <2>1 DEF Settle, Worker, Layers
<1>4. TypeOK'
  BY <1>1, <1>3 DEF TypeOK, RowMoves, branch
<1>5. ControlInv'
  BY <1>3 DEF IndInv, ControlInv, AtBoundary, Attempting
<1>6. RowInv' /\ Covered' = Covered
  BY <1>1, <1>3, RowMovesKeeps, SubsFacts DEF Covered
<1>7. AttemptIsRetries'
  BY <1>3 DEF AttemptIsRetries, Attempting
<1>8. SetInv'
  <2>1. Range(wk.set) \subseteq Covered /\ \A s \in Covered \ Range(wk.set) : Settled(s)
    BY DEF IndInv, SetInv, InSet, AtBoundary
  <2>2. ASSUME NEW s \in Covered \ Range(wk'.set) PROVE Settled(s)'
    <3>1. s \in Subs
      BY SubsFacts DEF Covered
    <3>2. CASE s = cur
      BY <3>2 DEF Settled
    <3>3. CASE s # cur
      <4>1. Settled(s)
        BY <1>2, <1>3, <2>1, <3>3
      <4> QED BY <1>1, <3>1, <3>3, <4>1, RowMovesKeeps
    <3> QED BY <3>2, <3>3
  <2>3. ASSUME NEW i \in DOMAIN wk'.set, NEW j \in DOMAIN wk'.set, i <= j
        PROVE  wk'.set[j] \notin Before(wk'.set[i])
    <3>1. i \in Int /\ j \in Int
      BY <1>2, <1>3
    <3>2. i + 1 \in DOMAIN wk.set /\ j + 1 \in DOMAIN wk.set /\ i + 1 <= j + 1
      BY <1>2, <1>3, <2>3, <3>1
    <3> QED BY <1>2, <1>3, <3>2 DEF IndInv, SetInv
  <2> QED BY <1>2, <1>3, <1>6, <2>1, <2>2, <2>3 DEF SetInv
<1>9. ListedInOrder => ShaInv'
  <2>1. ASSUME NEW s \in Subs
        PROVE  rows'[s].sha = rows[s].sha /\ (Settled(s) => Settled(s)')
    <3>1. CASE s = cur
      BY <3>1 DEF Settled
    <3>2. CASE s # cur
      BY <3>2 DEF Settled, RowMoves
    <3> QED BY <3>1, <3>2
  <2> QED BY <1>3, <2>1, ShaFrame DEF IndInv, branch
<1> QED BY <1>4, <1>5, <1>6, <1>7, <1>8, <1>9 DEF IndInv

(* The worker is gone, or was.                                             *)
LEMMA StopKeeps ==
  ASSUME IndInv, wk' = Idle, task' \in {"pending", "stopped", "passed"},
         marker' \in BOOLEAN, text' \in BOOLEAN, dirty' \in BOOLEAN,
         head' \in Sha, remote' \in Sha, rows' \in [Subs -> Row], RowInv',
         ListedInOrder => ShaInv'
  PROVE  IndInv'
<1>1. Idle \in Worker /\ Idle.pc = "none" /\ Idle.set = <<>>
  BY FreshTypes DEF Idle
<1>2. TypeOK'
  BY <1>1 DEF TypeOK
<1>3. [Idle EXCEPT !.pc = "none"] = Idle
  <2>1. ASSUME NEW w \in Worker PROVE [w EXCEPT !.pc = w.pc] = w
    BY DEF Worker
  <2> QED BY <1>1, <2>1
<1>4. ControlInv'
  BY <1>1, <1>3 DEF ControlInv, Attempting
<1>5. AttemptIsRetries'
  BY <1>1 DEF AttemptIsRetries, Attempting
<1>6. SetInv'
  BY <1>1 DEF SetInv, InSet, Attempting
<1> QED BY <1>2, <1>4, <1>5, <1>6 DEF IndInv

LEMMA IdleWorker ==
  ASSUME IndInv, wk.pc \in {"none", "plan", "planned"}
  PROVE  /\ wk \in Worker /\ wk.set = <<>> /\ wk.fixing = FALSE
         /\ wk.pc = "none" => wk = Idle
         /\ [wk EXCEPT !.pc = "plan"] = [Idle EXCEPT !.pc = "plan"]
         /\ [wk EXCEPT !.pc = "planned"] = [Idle EXCEPT !.pc = "planned"]
<1>1. wk = [Idle EXCEPT !.pc = wk.pc] /\ wk \in Worker
  BY DEF IndInv, ControlInv, TypeOK
<1>2. Idle \in Worker /\ Idle.pc = "none" /\ Idle.set = <<>> /\ Idle.fixing = FALSE
  BY FreshTypes DEF Idle
<1> HIDE DEF Idle
<1>3. wk.set = <<>> /\ wk.fixing = FALSE
  BY <1>1, <1>2 DEF Worker
<1>4. ASSUME NEW w \in Worker, NEW p, NEW q PROVE [[w EXCEPT !.pc = p] EXCEPT !.pc = q] = [w EXCEPT !.pc = q]
  BY DEF Worker
<1>5. ASSUME NEW w \in Worker PROVE [w EXCEPT !.pc = w.pc] = w
  BY DEF Worker
<1>6. [wk EXCEPT !.pc = "plan"] = [Idle EXCEPT !.pc = "plan"]
  BY <1>1, <1>2, <1>4
<1>7. [wk EXCEPT !.pc = "planned"] = [Idle EXCEPT !.pc = "planned"]
  BY <1>1, <1>2, <1>4
<1>8. wk.pc = "none" => wk = Idle
  BY <1>1, <1>2, <1>5
<1> QED BY <1>1, <1>3, <1>6, <1>7, <1>8

(* The worker plans.                                                       *)
LEMMA PlanKeeps ==
  ASSUME IndInv, wk.pc \in {"none", "plan"}, NEW pc \in {"plan", "planned"}, Goto(pc),
         task' = "running", text' \in BOOLEAN, UNCHANGED <<marker, rows, branch>>
  PROVE  IndInv'
<1>1. wk' = [Idle EXCEPT !.pc = pc]
  BY IdleWorker DEF Goto
<1>2. Idle \in Worker /\ Idle.set = <<>>
  BY FreshTypes DEF Idle
<1> HIDE DEF Idle
<1>3. wk' \in Worker /\ wk'.pc = pc /\ wk'.set = <<>>
  BY <1>1, <1>2 DEF Worker
<1>4. TypeOK'
  BY <1>3 DEF IndInv, TypeOK, branch
<1>5. ControlInv'
  BY <1>1, <1>3 DEF ControlInv, Attempting
<1>6. RowInv' /\ AttemptIsRetries'
  BY <1>3 DEF IndInv, RowInv, AttemptIsRetries, Attempting, Present
<1>7. SetInv'
  BY <1>3 DEF SetInv, InSet, Attempting
<1>8. ListedInOrder => ShaInv'
  <2>1. \A s \in Subs : rows'[s].sha = rows[s].sha /\ (Settled(s) => Settled(s)')
    BY DEF Settled
  <2> QED BY <1>3, <2>1, ShaFrame DEF IndInv, branch
<1> QED BY <1>4, <1>5, <1>6, <1>7, <1>8 DEF IndInv

(* A set starts, or is over.                                               *)
LEMMA SetKeeps ==
  ASSUME IndInv, wk.pc # "none", wk' \in Worker, wk'.pc \in {"next", "audit"},
         wk'.pc = "audit" => wk'.fixing /\ wk'.set = <<>>,
         marker' \in BOOLEAN, UNCHANGED <<task, text, branch>>,
         rows' \in [Subs -> Row], RowInv', SetInv', ListedInOrder => ShaInv'
  PROVE  IndInv'
<1>1. TypeOK'
  BY DEF IndInv, TypeOK, branch
<1>2. ControlInv'
  BY DEF IndInv, ControlInv, Attempting
<1>3. AttemptIsRetries'
  BY DEF AttemptIsRetries, Attempting
<1> QED BY <1>1, <1>2, <1>3 DEF IndInv

(* The branches gain patches and lose none.                                *)
LEMMA BranchKeeps ==
  ASSUME IndInv, head' \in Sha, remote' \in Sha, dirty' \in BOOLEAN,
         Range(head) \subseteq Range(head'), Range(remote) \subseteq Range(remote'),
         UNCHANGED <<task, marker, text, rows, wk>>
  PROVE  IndInv'
<1>1. TypeOK'
  BY DEF IndInv, TypeOK
<1>2. ControlInv' /\ RowInv' /\ AttemptIsRetries'
  BY DEF IndInv, ControlInv, RowInv, AttemptIsRetries, Attempting, Present, cur
<1>3. SetInv'
  BY DEF IndInv, SetInv, InSet, Attempting, Covered, Settled
<1>4. ASSUME ShaInv PROVE ShaInv'
  <2>1. ASSUME NEW s \in Subs, rows[s].sha # NoSha
        PROVE  Last(rows[s].sha) \in Range(head') \cap Range(remote')
    BY <1>4, <2>1 DEF ShaInv, Recorded
  <2>2. ASSUME wk.pc \in {"push", "record"}
        PROVE  /\ Last(wk.sha) \in Range(head')
               /\ wk.pc = "record" => Last(wk.sha) \in Range(remote')
    BY <1>4, <2>2 DEF ShaInv
  <2> QED BY <1>4, <2>1, <2>2 DEF ShaInv, Recorded, Settled, cur
<1> QED BY <1>1, <1>2, <1>3, <1>4 DEF IndInv

LEMMA RebasedFacts ==
  ASSUME TypeOK
  PROVE  Rebased \in Sha /\ Range(Rebased) = Range(head) \cup Range(remote)
<1> DEFINE k == Kept(head, Range(head) \ Range(remote))
<1>1. head \in Seq(Patch) /\ remote \in Seq(Patch)
  BY DEF TypeOK, Sha
<1>2. k \in Seq(Patch) /\ Range(k) = Range(head) \cap (Range(head) \ Range(remote))
  BY <1>1, KeptRange
<1> HIDE DEF k
<1>3. remote \o k \in Seq(Patch) /\ Range(remote \o k) = Range(remote) \cup Range(k)
  BY <1>1, <1>2, ConcatRange
<1> QED BY <1>2, <1>3 DEF Rebased, Sha, k

(* Everything that runs before the attempted subtask is settled.           *)
LEMMA PredecessorsSettled ==
  ASSUME IndInv, Attempting
  PROVE  \A s \in Before(cur) : Settled(s)
<1>1. wk.set # <<>> /\ cur \in Subs /\ cur = wk.set[1] /\ 1 \in DOMAIN wk.set
      /\ wk.set \in Seq(Subs) /\ cur \in Range(wk.set)
  BY CurFacts DEF IndInv, ControlInv
<1>2. cur \in Covered /\ \A s \in Covered \ Range(wk.set) : Settled(s)
  BY <1>1 DEF IndInv, SetInv, InSet
<1> SUFFICES ASSUME NEW s \in Before(cur) PROVE Settled(s)
  OBVIOUS
<1>3. s \in Covered
  <2>1. s \in Subs /\ cur \in Subs
    BY <1>1, BeforeFacts
  <2>2. CASE wk.fixing
    BY <2>1, <2>2 DEF Covered
  <2>3. CASE ~wk.fixing
    <3>1. cur \in Range(Plan) \/ cur = GateId
      BY <1>2, <2>3 DEF Covered, Specs
    <3>2. s \in Range(Plan)
      BY <3>1, BeforeFacts
    <3> QED BY <2>3, <3>2 DEF Covered, Specs
  <2> QED BY <2>2, <2>3
<1>4. s \notin Range(wk.set)
  <2>1. ASSUME NEW j \in DOMAIN wk.set PROVE wk.set[j] \notin Before(cur)
    <3>1. 1 <= j
      BY <1>1
    <3> QED BY <1>1, <3>1 DEF IndInv, SetInv
  <2> QED BY <2>1 DEF Range
<1> QED BY <1>2, <1>3, <1>4

-----------------------------------------------------------------------------
(* Every step keeps the invariant.                                         *)

(* What is on record stays as it is while no row and no branch changes.    *)
LEMMA SameRowsSha ==
  ASSUME IndInv, UNCHANGED <<rows, branch>>, wk'.pc \notin {"push", "record"}
  PROVE  ListedInOrder => ShaInv'
<1>1. \A s \in Subs : rows'[s].sha = rows[s].sha /\ (Settled(s) => Settled(s)')
  BY DEF Settled
<1> QED BY <1>1, ShaFrame DEF IndInv, branch

(* A worker that ends and touches no row.                                  *)
LEMMA EndKeeps ==
  ASSUME IndInv, wk' = Idle, task' \in {"pending", "stopped", "passed"}, marker' \in BOOLEAN,
         UNCHANGED <<text, rows, branch>>
  PROVE  IndInv'
<1>1. Idle.pc = "none"
  BY DEF Idle
<1>2. ListedInOrder => ShaInv'
  BY <1>1, SameRowsSha
<1>3. RowInv'
  BY DEF IndInv, RowInv, Present
<1> QED BY <1>2, <1>3, StopKeeps DEF IndInv, TypeOK, branch

(* A plan's subtasks and what follows them run in the order of the run.    *)
LEMMA PlanSets ==
  /\ TopoOrder \in Seq(Subs) /\ Append(TopoOrder, GateId) \in Seq(Subs)
  /\ Range(TopoOrder) = Range(Plan) /\ Range(Append(TopoOrder, GateId)) = Specs
  /\ LET q == Append(TopoOrder, GateId)
     IN  \A i, j \in DOMAIN q : i <= j => q[j] \notin Before(q[i])
<1> DEFINE q == Append(TopoOrder, GateId)
           L == Len(TopoOrder)
<1>1. TopoOrder \in Seq(Subs) /\ GateId \in Subs /\ Range(TopoOrder) = Range(Plan) /\ L \in Nat
      /\ DOMAIN TopoOrder = 1..L
  BY TopoFacts, SubsFacts
<1>2. /\ q \in Seq(Subs) /\ Len(q) = L + 1 /\ Range(q) = Range(TopoOrder) \cup {GateId}
      /\ q[L + 1] = GateId /\ \A i \in 1..L : q[i] = TopoOrder[i]
  BY <1>1, AppendFacts
<1> HIDE DEF q, L
<1>3. ASSUME NEW i \in DOMAIN q, NEW j \in DOMAIN q, i <= j PROVE q[j] \notin Before(q[i])
  <2>1. i \in 1..(L + 1) /\ j \in 1..(L + 1)
    BY <1>2
  <2>2. CASE j \in 1..L
    <3>1. i \in 1..L
      BY <1>1, <1>3, <2>1, <2>2
    <3> QED BY <1>1, <1>2, <1>3, <2>2, <3>1, BeforeFacts
  <2>3. CASE j = L + 1
    <3>1. GateId \notin Range(Plan) /\ q[j] = GateId
      BY <1>2, <2>3, PlanAssumption
    <3>2. q[i] \in Range(Plan) \/ q[i] = GateId
      <4>1. q[i] \in Range(q)
        BY DEF Range
      <4> QED BY <1>1, <1>2, <4>1
    <3> QED BY <3>1, <3>2, BeforeFacts
  <2> QED BY <1>1, <2>1, <2>2, <2>3
<1> QED BY <1>1, <1>2, <1>3 DEF q, Specs

LEMMA PlanStepKeeps ==
  ASSUME IndInv, PlanStep
  PROVE  IndInv'
<1>1. CASE Pick
  BY <1>1, PlanKeeps DEF Pick, IndInv, TypeOK
<1>2. CASE PlanResumed
  <2>1. wk \in Worker /\ wk.fixing = FALSE
    BY <1>2, IdleWorker DEF PlanResumed
  <2>2. PlanSet \in Seq(Subs)
    BY PlanSets DEF PlanSet
  <2>3. wk' \in Worker /\ wk'.pc = "next" /\ wk'.set = PlanSet /\ wk'.fixing = FALSE
    BY <1>2, <2>1, <2>2 DEF PlanResumed, Worker
  <2>4. rows' = rows
    BY <1>2 DEF PlanResumed
  <2>5. SetInv'
    <3>1. Covered' = Range(PlanSet)
      BY <2>3, <2>4, PlanSets DEF Covered, PlanSet
    <3>2. \A i, j \in DOMAIN PlanSet : i <= j => PlanSet[j] \notin Before(PlanSet[i])
      BY PlanSets, BeforeFacts DEF PlanSet
    <3> QED BY <2>3, <3>1, <3>2 DEF SetInv
  <2>6. RowInv'
    BY <2>4 DEF IndInv, RowInv, Present
  <2>7. ListedInOrder => ShaInv'
    BY <1>2, <2>3, SameRowsSha DEF PlanResumed
  <2> QED BY <1>2, <2>3, <2>4, <2>5, <2>6, <2>7, SetKeeps DEF PlanResumed, IndInv, TypeOK
<1>3. CASE PlannerEmits
  <2>1. task = "running"
    BY <1>3 DEF PlannerEmits, IndInv, ControlInv
  <2> QED BY <1>3, <2>1, PlanKeeps DEF PlannerEmits, IndInv, TypeOK
<1>4. CASE Planned
  <2> DEFINE q == Append(TopoOrder, GateId)
  <2>1. wk \in Worker /\ wk.fixing = FALSE
    BY <1>4, IdleWorker DEF Planned
  <2>2. q \in Seq(Subs) /\ Range(q) = Specs /\ \A i, j \in DOMAIN q : i <= j => q[j] \notin Before(q[i])
    BY PlanSets
  <2> HIDE DEF q
  <2>3. wk' \in Worker /\ wk'.pc = "next" /\ wk'.set = q /\ wk'.fixing = FALSE
    BY <1>4, <2>1, <2>2 DEF Planned, Worker, q
  <2>4. \A s \in Subs : rows'[s] = IF s \in Specs THEN FreshRow("spec") ELSE NoRow
    BY <1>4 DEF Planned
  <2>5. rows' \in [Subs -> Row]
    BY <1>4, FreshTypes DEF Planned
  <2>6. RowInv'
    BY <2>4, FreshTypes DEF RowInv, Present
  <2>7. SetInv'
    <3>1. rows'[FixupId].kind = "spec"
      BY <2>4, SubsFacts, FreshTypes
    <3>2. Covered' = Specs
      BY <2>3, <3>1 DEF Covered
    <3> QED BY <2>2, <2>3, <3>2 DEF SetInv
  <2>8. ShaInv'
    <3>1. \A s \in Subs : rows'[s].sha = NoSha
      BY <2>4, FreshTypes
    <3> QED BY <2>3, <3>1 DEF ShaInv, Recorded
  <2> QED BY <1>4, <2>3, <2>5, <2>6, <2>7, <2>8, SetKeeps DEF Planned, IndInv, TypeOK
<1>5. CASE PlanRejected
  BY <1>5, EndKeeps DEF PlanRejected, BlockTask, IndInv, TypeOK
<1> QED BY <1>1, <1>2, <1>3, <1>4, <1>5 DEF PlanStep

LEMMA BoundaryStepKeeps ==
  ASSUME IndInv, BoundaryStep
  PROVE  IndInv'
<1>0. TypeOK /\ head \in Seq(Patch) /\ remote \in Seq(Patch)
  BY DEF IndInv, TypeOK, Sha
<1>1. CASE UpstreamFastForward
  <2>1. Range(head) \subseteq Range(remote)
    BY <1>0, <1>1, PrefixRange DEF UpstreamFastForward
  <2> QED BY <1>0, <1>1, <2>1, BranchKeeps DEF UpstreamFastForward, Sha
<1>2. CASE BoundaryBlocks
  BY <1>2, EndKeeps DEF BoundaryBlocks, BlockTask, IndInv, TypeOK
<1>3. CASE RebaseDiverged
  <2>1. Rebased \in Sha /\ Range(Rebased) = Range(head) \cup Range(remote)
    BY <1>0, RebasedFacts
  <2>2. head' = Rebased /\ (remote' = remote \/ remote' = Rebased)
    BY <1>3 DEF RebaseDiverged
  <2> QED BY <1>0, <1>3, <2>1, <2>2, BranchKeeps DEF RebaseDiverged, Sha, TypeOK
<1>4. CASE SkipDone
  <2>1. AtBoundary /\ wk.set # <<>> /\ rows' = rows
    BY <1>4 DEF SkipDone, AtBoundary
  <2>2. RowMoves
    BY <2>1, SameRowsMove
  <2> QED BY <1>4, <2>1, <2>2, SettleKeeps DEF SkipDone
<1>5. CASE EnterSubtask
  <2>1. wk.set # <<>> /\ wk.pc = "next" /\ wk \in Worker /\ rows' = rows
    BY <1>0, <1>5 DEF EnterSubtask, AtBoundary, TypeOK
  <2>2. rows[cur] \in Row /\ cur \in Subs
    BY <1>0, <2>1, CurFacts
  <2>3. rows[cur].retries \in 0..HardMax
    BY <2>2 DEF Row
  <2>4. /\ wk' \in Worker /\ wk'.pc = "try" /\ wk'.att = rows[cur].retries /\ wk'.set = wk.set
        /\ wk'.fixing = wk.fixing
    BY <1>5, <2>1, <2>3 DEF EnterSubtask, Worker
  <2>5. cur' = cur
    BY <2>4 DEF cur
  <2>6. TypeOK'
    BY <1>5, <2>4 DEF EnterSubtask, IndInv, TypeOK, branch
  <2>7. ControlInv'
    BY <1>5, <2>1, <2>4, <2>5 DEF EnterSubtask, IndInv, ControlInv, Attempting
  <2>8. AttemptIsRetries'
    <3>1. rows[cur].retries \in Int
      BY <2>3, BudgetAssumption
    <3> QED BY <2>1, <2>4, <2>5, <3>1 DEF AttemptIsRetries
  <2>9. RowInv'
    BY <2>1 DEF IndInv, RowInv, Present
  <2>10. SetInv'
    BY <2>1, <2>4 DEF IndInv, SetInv, InSet, Covered, Settled
  <2>11. ListedInOrder => ShaInv'
    BY <1>5, <2>4, SameRowsSha DEF EnterSubtask
  <2> QED BY <2>6, <2>7, <2>8, <2>9, <2>10, <2>11 DEF IndInv
<1> QED BY <1>1, <1>2, <1>3, <1>4, <1>5 DEF BoundaryStep

(* What an attempt can rely on.                                            *)
LEMMA AttemptFacts ==
  ASSUME IndInv, Attempting
  PROVE  /\ TypeOK /\ wk \in Worker /\ wk.set # <<>> /\ cur \in Subs /\ rows[cur] \in Row
         /\ rows[cur].flat <= rows[cur].retries /\ rows[cur].state # "done"
         /\ wk.att \in 0..HardMax /\ wk.att \in Int /\ rows[cur].retries \in Int
         /\ Present(cur) => wk.att = rows[cur].retries + IF wk.pc = "try" THEN 0 ELSE 1
         /\ wk.pc # "try" => wk.att >= 1 /\ wk.att - 1 \in 0..HardMax
<1>1. TypeOK /\ wk \in Worker /\ wk.set # <<>> /\ rows[cur].state # "done"
  BY DEF IndInv, TypeOK, ControlInv
<1>2. cur \in Subs /\ rows[cur] \in Row
  BY <1>1, CurFacts
<1>3. rows[cur].flat <= rows[cur].retries
  BY <1>2 DEF IndInv, RowInv
<1>4. wk.att \in 0..HardMax /\ HardMax \in Nat /\ rows[cur].retries \in 0..HardMax
  BY <1>1, <1>2, BudgetAssumption DEF Worker, Row
<1>5. Present(cur) => wk.att = rows[cur].retries + IF wk.pc = "try" THEN 0 ELSE 1
  BY DEF IndInv, AttemptIsRetries
<1>6. wk.pc # "try" => wk.att >= 1
  BY DEF IndInv, ControlInv
<1> QED BY <1>1, <1>2, <1>3, <1>4, <1>5, <1>6

(* The attempt changes its row but not the commit on record.               *)
LEMMA MoveSha ==
  ASSUME IndInv, Attempting, RowMoves, rows'[cur].sha = rows[cur].sha,
         Range(head) \subseteq Range(head'), Range(remote) \subseteq Range(remote'),
         wk'.pc \notin {"push", "record"}
  PROVE  ListedInOrder => ShaInv'
<1>1. rows[cur].state # "done"
  BY AttemptFacts
<1>2. ASSUME NEW s \in Subs PROVE rows'[s].sha = rows[s].sha /\ (Settled(s) => Settled(s)')
  <2>1. CASE s = cur
    BY <1>1, <2>1 DEF Settled, RowMoves, Present
  <2>2. CASE s # cur
    BY <2>2 DEF Settled, RowMoves
  <2> QED BY <2>1, <2>2
<1> QED BY <1>2, ShaFrame DEF IndInv

(* The state of the current row changes.                                   *)
LEMMA StateMoves ==
  ASSUME IndInv, Attempting, NEW st \in {"doing", "checking", "triaging", "blocked"},
         UpdateRow(cur, [rows[cur] EXCEPT !.state = st])
  PROVE  /\ RowMoves /\ rows'[cur].sha = rows[cur].sha /\ rows'[cur].retries = rows[cur].retries
         /\ rows'[cur].state # "done"
<1> DEFINE r == [rows[cur] EXCEPT !.state = st]
<1>1. /\ wk.set # <<>> /\ rows[cur] \in Row /\ rows[cur].flat <= rows[cur].retries
      /\ rows[cur].state # "done"
  BY AttemptFacts
<1>2. /\ r \in Row /\ r.state = st /\ r.kind = rows[cur].kind /\ r.sha = rows[cur].sha
      /\ r.flat = rows[cur].flat /\ r.retries = rows[cur].retries
  BY <1>1 DEF Row
<1>3. UpdateRow(cur, r)
  OBVIOUS
<1> HIDE DEF r
<1>4. RowMoves /\ rows'[cur] = IF Present(cur) THEN r ELSE rows[cur]
  BY <1>1, <1>2, <1>3, UpdateMoves
<1> QED BY <1>1, <1>2, <1>4

(* The row and the task are blocked.                                       *)
LEMMA BlockKeeps ==
  ASSUME IndInv, Attempting, NEW r \in Row, Block(r), r.kind = rows[cur].kind,
         r.sha = rows[cur].sha, r.flat <= r.retries, UNCHANGED <<marker, text, branch>>
  PROVE  IndInv'
<1> DEFINE u == [r EXCEPT !.state = "blocked"]
<1>1. /\ u \in Row /\ u.state = "blocked" /\ u.kind = r.kind /\ u.sha = r.sha
      /\ u.flat = r.flat /\ u.retries = r.retries
  BY StateUpdate
<1>2. UpdateRow(cur, u) /\ task' = "stopped" /\ wk' = Idle
  BY DEF Block
<1> HIDE DEF u
<1>3. wk.set # <<>>
  BY AttemptFacts
<1>4. RowMoves /\ rows'[cur].sha = rows[cur].sha
  BY <1>1, <1>2, <1>3, UpdateMoves
<1>5. wk'.pc = "none"
  BY <1>2 DEF Idle
<1>6. ListedInOrder => ShaInv'
  BY <1>4, <1>5, MoveSha DEF branch
<1>7. RowInv' /\ rows' \in [Subs -> Row]
  BY <1>3, <1>4, RowMovesKeeps DEF RowMoves
<1> QED BY <1>2, <1>6, <1>7, StopKeeps DEF IndInv, TypeOK, branch

(* How the worker moves on.                                                *)
LEMMA GotoMoves ==
  ASSUME IndInv, Attempting,
         NEW pc \in {"try", "check", "commit", "push", "record", "mark", "triage"}, Goto(pc)
  PROVE  /\ wk' \in Worker /\ wk'.pc = pc /\ wk'.set = wk.set /\ wk'.fixing = wk.fixing
         /\ wk'.att = wk.att /\ wk'.sha = wk.sha
  BY AttemptFacts DEF Goto, Worker

LEMMA FreeRetryMoves ==
  ASSUME IndInv, Attempting, wk.pc # "try", NEW trans \in 0..TransientMax, FreeRetry(trans)
  PROVE  /\ wk' \in Worker /\ wk'.pc = "try" /\ wk'.set = wk.set /\ wk'.fixing = wk.fixing
         /\ wk'.att = wk.att - 1
<1>1. wk \in Worker /\ wk.att - 1 \in 0..HardMax
  BY AttemptFacts
<1>2. NoSha \in Sha
  BY DEF NoSha, Sha
<1> DEFINE a == wk.att - 1
<1>3. wk' = [wk EXCEPT !.pc = "try", !.att = a, !.trans = trans, !.sha = NoSha]
  BY DEF FreeRetry
<1>4. a \in 0..HardMax
  BY <1>1
<1> HIDE DEF a
<1>5. /\ wk' \in Worker /\ wk'.pc = "try" /\ wk'.set = wk.set /\ wk'.fixing = wk.fixing
      /\ wk'.att = a
  BY <1>1, <1>2, <1>3, <1>4 DEF Worker
<1> QED BY <1>5 DEF a

LEMMA ToTriageMoves ==
  ASSUME IndInv, Attempting, NEW sig \in Layers, ToTriage(sig)
  PROVE  /\ wk' \in Worker /\ wk'.pc = "triage" /\ wk'.set = wk.set /\ wk'.fixing = wk.fixing
         /\ wk'.att = wk.att
<1>1. wk \in Worker
  BY AttemptFacts
<1>2. NoSha \in Sha /\ 0 \in 0..TransientMax
  BY BudgetAssumption DEF NoSha, Sha
<1> QED BY <1>1, <1>2 DEF ToTriage, Worker

(* The attempt goes on after the check, the commit or the push.            *)
LEMMA OnwardKeeps ==
  ASSUME IndInv, Attempting, wk.pc # "try", RowMoves, rows'[cur].sha = rows[cur].sha,
         rows'[cur].retries = rows[cur].retries, rows'[cur].state # "done",
         wk' \in Worker, wk'.set = wk.set, wk'.fixing = wk.fixing,
         wk'.pc \in {"try", "check", "commit", "mark", "triage"},
         wk'.att = wk.att - IF wk'.pc = "try" THEN 1 ELSE 0,
         UNCHANGED <<task, marker, text>>, head' \in Sha, remote' \in Sha, dirty' \in BOOLEAN,
         Range(head) \subseteq Range(head'), Range(remote) \subseteq Range(remote')
  PROVE  IndInv'
<1>1. ListedInOrder => ShaInv'
  BY MoveSha
<1>2. /\ Present(cur) => wk'.att = rows'[cur].retries + IF wk'.pc = "try" THEN 0 ELSE 1
      /\ wk'.pc # "try" => wk'.att >= 1
  BY AttemptFacts
<1>3. Attempting'
  BY DEF Attempting
<1> QED BY <1>1, <1>2, <1>3, AttemptKeeps

(* The subtask is DONE.                                                    *)
LEMMA DoneSettles ==
  ASSUME IndInv, Attempting, UpdateRow(cur, DoneRow(rows[cur])), Settle,
         UNCHANGED <<task, marker, text, branch>>
  PROVE  IndInv'
<1> DEFINE f == Forgiven(rows[cur])
           r == DoneRow(rows[cur])
<1>1. wk.set # <<>> /\ rows[cur] \in Row
  BY AttemptFacts
<1>2. /\ f \in Row /\ f.kind = rows[cur].kind /\ f.sha = rows[cur].sha /\ f.flat <= f.retries
  BY <1>1, ForgivenFacts
<1>3. r = [f EXCEPT !.state = "done"]
  BY DEF DoneRow
<1> HIDE DEF f, r
<1>4. /\ r \in Row /\ r.kind = rows[cur].kind /\ r.sha = rows[cur].sha /\ r.flat <= r.retries
      /\ r.state = "done"
  BY <1>2, <1>3 DEF Row
<1>5. UpdateRow(cur, r)
  BY DEF r
<1>6. RowMoves /\ rows'[cur] = IF Present(cur) THEN r ELSE rows[cur]
  BY <1>1, <1>4, <1>5, UpdateMoves
<1>7. rows'[cur].state \in {"absent", "done"} /\ rows'[cur].sha = rows[cur].sha
  BY <1>4, <1>6 DEF Present
<1> QED BY <1>6, <1>7, SettleKeeps

LEMMA AttemptStepKeeps ==
  ASSUME IndInv, AttemptStep
  PROVE  IndInv'
<1>0. /\ Attempting /\ TypeOK /\ wk \in Worker /\ wk.set # <<>> /\ rows[cur] \in Row
      /\ rows[cur].flat <= rows[cur].retries /\ cur \in Subs
  <2>1. Attempting
    BY DEF AttemptStep, DoSubtask, NoAttempt, CheckTransient, TransientCapped, CheckFails,
           CheckPasses, EmptyDiffFails, CannotReproduce, NoOpDone, Attempting
  <2> QED BY <2>1, AttemptFacts
<1>00. head \in Sha /\ remote \in Sha /\ dirty \in BOOLEAN
  BY <1>0 DEF TypeOK
(* The row is CHECKING, the branches stay as they are.                     *)
<1>01. ASSUME Checking, wk.pc = "check", UNCHANGED <<task, marker, text, branch>>,
              wk' \in Worker, wk'.set = wk.set, wk'.fixing = wk.fixing,
              wk'.pc \in {"try", "check", "commit", "mark", "triage"},
              wk'.att = wk.att - IF wk'.pc = "try" THEN 1 ELSE 0
       PROVE  IndInv'
  <2>1. /\ RowMoves /\ rows'[cur].sha = rows[cur].sha /\ rows'[cur].retries = rows[cur].retries
        /\ rows'[cur].state # "done"
    BY <1>0, <1>01, StateMoves DEF Checking
  <2> QED BY <1>0, <1>00, <1>01, <2>1, OnwardKeeps DEF branch
<1>02. wk.att \in Int
  BY <1>0, AttemptFacts
<1>1. CASE DoSubtask
  <2>1. /\ RowMoves /\ rows'[cur].sha = rows[cur].sha /\ rows'[cur].retries = rows[cur].retries
        /\ rows'[cur].state # "done"
    BY <1>0, <1>1, StateMoves DEF DoSubtask
  <2>2. PICK recreated \in {0, wk.reprov + 1} :
          /\ recreated <= ReprovMax
          /\ wk' = [wk EXCEPT !.pc = "check", !.att = @ + 1, !.reprov = recreated]
    BY <1>1 DEF DoSubtask
  <2>3. wk.reprov \in 0..ReprovMax /\ ReprovMax \in Nat /\ HardMax \in Nat
    BY <1>0, BudgetAssumption DEF Worker
  <2>4. recreated \in 0..ReprovMax /\ wk.att + 1 \in 0..HardMax
    BY <1>0, <1>1, <2>2, <2>3, AttemptFacts DEF DoSubtask
  <2> DEFINE a == wk.att + 1
  <2>5. wk' = [wk EXCEPT !.pc = "check", !.att = a, !.reprov = recreated] /\ a \in 0..HardMax
    BY <2>2, <2>4
  <2> HIDE DEF a
  <2>6. /\ wk' \in Worker /\ wk'.pc = "check" /\ wk'.set = wk.set /\ wk'.fixing = wk.fixing
        /\ wk'.att = a
    BY <1>0, <2>4, <2>5 DEF Worker
  <2>7. wk.pc = "try" /\ dirty' \in BOOLEAN /\ UNCHANGED <<task, marker, text, head, remote>>
    BY <1>00, <1>1 DEF DoSubtask
  <2>8. ListedInOrder => ShaInv'
    BY <1>0, <2>1, <2>6, <2>7, MoveSha
  <2>9. Present(cur) => wk'.att = rows'[cur].retries + 1
    BY <1>0, <2>1, <2>6, <2>7, AttemptFacts DEF a
  <2>10. wk'.att >= 1
    BY <2>3, <2>6, <1>0, AttemptFacts DEF a
  <2>11. Attempting'
    BY <2>6 DEF Attempting
  <2> QED BY <1>0, <1>00, <2>1, <2>6, <2>7, <2>8, <2>9, <2>10, <2>11, AttemptKeeps
<1>2. CASE NoAttempt
  BY <1>0, <1>2, BlockKeeps DEF NoAttempt
<1>3. CASE CheckTransient
  <2>1. wk.trans + 1 \in 0..TransientMax
    BY <1>0, <1>3, BudgetAssumption DEF CheckTransient, Worker
  <2>2. /\ wk' \in Worker /\ wk'.pc = "try" /\ wk'.set = wk.set /\ wk'.fixing = wk.fixing
        /\ wk'.att = wk.att - 1
    BY <1>0, <1>3, <2>1, FreeRetryMoves DEF CheckTransient
  <2> QED BY <1>01, <1>3, <2>2 DEF CheckTransient
<1>4. CASE TransientCapped
  BY <1>0, <1>4, BlockKeeps DEF TransientCapped
<1>5. ASSUME Checking, wk.pc = "check", NEW sig \in Layers, ToTriage(sig),
             UNCHANGED <<task, marker, text, branch>>
      PROVE  IndInv'
  <2>1. /\ wk' \in Worker /\ wk'.pc = "triage" /\ wk'.set = wk.set /\ wk'.fixing = wk.fixing
        /\ wk'.att = wk.att
    BY <1>0, <1>5, ToTriageMoves
  <2> QED BY <1>01, <1>02, <1>5, <2>1
<1>6. CASE CheckFails
  BY <1>5, <1>6 DEF CheckFails, Layers
<1>7. CASE CheckPasses
  <2>1. /\ wk' \in Worker /\ wk'.pc = "commit" /\ wk'.set = wk.set /\ wk'.fixing = wk.fixing
        /\ wk'.att = wk.att
    <3>1. 0 \in 0..TransientMax
      BY BudgetAssumption
    <3> QED BY <1>0, <1>7, <3>1 DEF CheckPasses, Worker
  <2> QED BY <1>01, <1>02, <1>7, <2>1 DEF CheckPasses
<1>8. CASE EmptyDiffFails
  BY <1>5, <1>8 DEF EmptyDiffFails, Layers
<1>9. CASE CannotReproduce
  BY <1>5, <1>9 DEF CannotReproduce, Layers
<1>10. CASE NoOpDone
  BY <1>0, <1>10, DoneSettles DEF NoOpDone
<1> QED BY <1>1, <1>2, <1>3, <1>4, <1>6, <1>7, <1>8, <1>9, <1>10 DEF AttemptStep

LEMMA CommitStepKeeps ==
  ASSUME IndInv, CommitStep
  PROVE  IndInv'
<1>0. /\ Attempting /\ TypeOK /\ wk \in Worker /\ wk.set # <<>> /\ rows[cur] \in Row
      /\ rows[cur].flat <= rows[cur].retries /\ cur \in Subs /\ wk.pc # "try"
      /\ rows[cur].state # "done"
  <2>1. Attempting /\ wk.pc # "try"
    BY DEF CommitStep, CommitSubtask, CommitFails, PushLands, PushBlip, PushFails, PushRecovers,
           PushRecoveryFails, RecordSha, MarkDone, Attempting
  <2> QED BY <2>1, AttemptFacts
<1>00. head \in Sha /\ remote \in Sha /\ dirty \in BOOLEAN /\ wk.att \in Int /\ wk.sha \in Sha
  BY <1>0, AttemptFacts DEF TypeOK, Worker
(* No row changes, the branches may grow, and the attempt fails.           *)
<1>01. ASSUME NEW sig \in Layers, ToTriage(sig), UNCHANGED <<task, marker, text, rows>>,
              head' \in Sha, remote' \in Sha, dirty' \in BOOLEAN,
              Range(head) \subseteq Range(head'), Range(remote) \subseteq Range(remote')
       PROVE  IndInv'
  <2>1. /\ wk' \in Worker /\ wk'.pc = "triage" /\ wk'.set = wk.set /\ wk'.fixing = wk.fixing
        /\ wk'.att = wk.att
    BY <1>0, <1>01, ToTriageMoves
  <2>2. RowMoves
    BY <1>0, <1>01, SameRowsMove
  <2> QED BY <1>0, <1>00, <1>01, <2>1, <2>2, OnwardKeeps
<1>02. ASSUME FreeRetry(0), UNCHANGED <<task, marker, text, rows>>,
              head' \in Sha, remote' \in Sha, dirty' \in BOOLEAN,
              Range(head) \subseteq Range(head'), Range(remote) \subseteq Range(remote')
       PROVE  IndInv'
  <2>1. 0 \in 0..TransientMax
    BY BudgetAssumption
  <2>2. /\ wk' \in Worker /\ wk'.pc = "try" /\ wk'.set = wk.set /\ wk'.fixing = wk.fixing
        /\ wk'.att = wk.att - 1
    BY <1>0, <1>02, <2>1, FreeRetryMoves
  <2>3. RowMoves
    BY <1>0, <1>02, SameRowsMove
  <2> QED BY <1>0, <1>00, <1>02, <2>2, <2>3, OnwardKeeps
(* On the way to the record: rows as they are, and the commit on top.      *)
<1>03. ASSUME wk' \in Worker, wk'.pc \in {"push", "record"}, wk'.set = wk.set,
              wk'.fixing = wk.fixing, wk'.att = wk.att, UNCHANGED <<task, marker, text, rows>>,
              head' \in Sha, remote' \in Sha, dirty' \in BOOLEAN,
              Range(head) \subseteq Range(head'), Range(remote) \subseteq Range(remote'),
              ShaInv => /\ wk'.sha # NoSha /\ Last(wk'.sha) \in Range(head')
                        /\ wk'.pc = "record" => Last(wk'.sha) \in Range(remote')
                        /\ \A q \in Before(cur) : Recorded(q)
                             => Last(rows[q].sha) \in Range(Front(wk'.sha))
       PROVE  IndInv'
  <2>1. RowMoves
    BY <1>0, <1>03, SameRowsMove
  <2>2. Attempting' /\ cur' = cur
    BY <1>03 DEF Attempting, cur
  <2>3. /\ Present(cur) => wk'.att = rows'[cur].retries + 1
        /\ wk'.att >= 1
    BY <1>0, <1>03, AttemptFacts
  <2>4. ASSUME ShaInv PROVE ShaInv'
    <3>1. ASSUME NEW s \in Subs, rows[s].sha # NoSha
          PROVE  Last(rows[s].sha) \in Range(head') \cap Range(remote')
      BY <1>03, <2>4, <3>1 DEF ShaInv, Recorded
    <3> QED BY <1>03, <2>2, <2>4, <3>1 DEF ShaInv, Recorded, Settled
  <2>5. ListedInOrder => ShaInv'
    BY <2>4 DEF IndInv
  <2> QED BY <1>0, <1>03, <2>1, <2>2, <2>3, <2>5, AttemptKeeps
<1>04. Rebased \in Sha /\ Range(Rebased) = Range(head) \cup Range(remote)
  BY <1>0, RebasedFacts
<1>1. CASE CommitSubtask
  <2> DEFINE p == NewPatch(cur)
  <2>1. p \in Patch /\ head \in Seq(Patch)
    BY <1>0, <1>00, NewPatchType DEF Sha
  <2> HIDE DEF p
  <2>2. head' = Append(head, p)
    BY <1>1 DEF CommitSubtask, p
  <2>3. /\ head' \in Seq(Patch) /\ Range(head') = Range(head) \cup {p}
        /\ Front(head') = head /\ Last(head') = p /\ head' # <<>>
    BY <2>1, <2>2, AppendFacts
  <2> DEFINE h == head'
  <2>4. wk' = [wk EXCEPT !.pc = "push", !.sha = h] /\ h \in Sha
    BY <1>1, <2>3 DEF CommitSubtask, Sha
  <2> HIDE DEF h
  <2>5. /\ wk' \in Worker /\ wk'.pc = "push" /\ wk'.set = wk.set /\ wk'.fixing = wk.fixing
        /\ wk'.att = wk.att /\ wk'.sha = h
    BY <1>0, <2>4 DEF Worker
  <2>6. UNCHANGED <<task, marker, text, rows, remote>> /\ dirty' \in BOOLEAN
    BY <1>1 DEF CommitSubtask
  <2>7. ASSUME ShaInv, NEW q \in Before(cur), Recorded(q)
        PROVE  Last(rows[q].sha) \in Range(head)
    BY <1>0, <2>7, BeforeFacts DEF ShaInv
  <2>8. h # NoSha /\ Last(h) \in Range(head') /\ Front(h) = head
    BY <2>3 DEF h, NoSha
  <2>9. head' \in Sha /\ remote' \in Sha /\ Range(head) \subseteq Range(head') /\ remote' = remote
    BY <1>00, <2>3, <2>6 DEF Sha
  <2> QED BY <1>03, <2>5, <2>6, <2>7, <2>8, <2>9
<1>2. CASE CommitFails
  BY <1>00, <1>01, <1>2 DEF CommitFails, Layers, branch
<1>3. CASE PushLands
  <2>1. /\ wk' \in Worker /\ wk'.pc = "record" /\ wk'.set = wk.set /\ wk'.fixing = wk.fixing
        /\ wk'.att = wk.att /\ wk'.sha = wk.sha
    BY <1>0, <1>3, GotoMoves DEF PushLands
  <2>2. /\ UNCHANGED <<task, marker, text, rows>> /\ head' = head /\ remote' = head
        /\ dirty' = dirty /\ wk.pc = "push"
    BY <1>3 DEF PushLands
  <2>3. Range(remote) \subseteq Range(head)
    BY <1>00, <1>3, PrefixRange DEF PushLands, Behind, Sha
  <2>4. ShaInv => /\ wk.sha # NoSha /\ Last(wk.sha) \in Range(head)
                  /\ \A q \in Before(cur) : Recorded(q)
                             => Last(rows[q].sha) \in Range(Front(wk.sha))
    BY <2>2 DEF ShaInv
  <2> QED BY <1>00, <1>03, <2>1, <2>2, <2>3, <2>4
<1>4. CASE PushBlip
  BY <1>00, <1>02, <1>4 DEF PushBlip, branch
<1>5. CASE PushFails
  BY <1>00, <1>01, <1>5 DEF PushFails, Layers, branch
<1>6. CASE PushRecovers
  <2>1. /\ wk' \in Worker /\ wk'.pc = "record" /\ wk'.set = wk.set /\ wk'.fixing = wk.fixing
        /\ wk'.att = wk.att /\ wk'.sha = wk.sha
    BY <1>0, <1>6, GotoMoves DEF PushRecovers
  <2>2. /\ UNCHANGED <<task, marker, text, rows>> /\ head' = Rebased /\ remote' = Rebased
        /\ dirty' = dirty /\ wk.pc = "push"
    BY <1>6 DEF PushRecovers
  <2>3. ShaInv => /\ wk.sha # NoSha /\ Last(wk.sha) \in Range(head)
                  /\ \A q \in Before(cur) : Recorded(q)
                             => Last(rows[q].sha) \in Range(Front(wk.sha))
    BY <2>2 DEF ShaInv
  <2> QED BY <1>00, <1>03, <1>04, <2>1, <2>2, <2>3
<1>7. CASE PushRecoveryFails
  <2>1. /\ UNCHANGED <<task, marker, text, rows>> /\ head' = Rebased /\ remote' = remote
        /\ dirty' = dirty
    BY <1>7 DEF PushRecoveryFails
  <2>2. CASE FreeRetry(0)
    BY <1>00, <1>02, <1>04, <2>1, <2>2
  <2>3. CASE \E sig \in {"a", "b"} : ToTriage(sig)
    BY <1>00, <1>01, <1>04, <2>1, <2>3 DEF Layers
  <2> QED BY <1>7, <2>2, <2>3 DEF PushRecoveryFails
<1>8. CASE RecordSha
  <2> DEFINE r == [rows[cur] EXCEPT !.sha = wk.sha]
  <2>1. /\ r \in Row /\ r.kind = rows[cur].kind /\ r.flat = rows[cur].flat
        /\ r.retries = rows[cur].retries /\ r.state = rows[cur].state /\ r.sha = wk.sha
    BY <1>0, <1>00 DEF Row
  <2>2. UpdateRow(cur, r) /\ wk.pc = "record" /\ UNCHANGED <<task, marker, text, branch>>
    BY <1>8 DEF RecordSha
  <2> HIDE DEF r
  <2>3. /\ wk' \in Worker /\ wk'.pc = "mark" /\ wk'.set = wk.set /\ wk'.fixing = wk.fixing
        /\ wk'.att = wk.att
    BY <1>0, <1>8, GotoMoves DEF RecordSha
  <2>4. RowMoves /\ rows'[cur] = IF Present(cur) THEN r ELSE rows[cur]
    <3>1. /\ rows' \in [Subs -> Row]
          /\ \A q \in Subs \ {cur} : rows'[q] = rows[q]
          /\ rows'[cur] = IF Present(cur) THEN r ELSE rows[cur]
      BY <1>0, <2>1, <2>2, UpdateRowFacts
    <3> QED BY <1>0, <2>1, <3>1 DEF RowMoves, Present
  <2>5. rows'[cur].state = rows[cur].state /\ rows'[cur].retries = rows[cur].retries
    BY <2>1, <2>4
  <2>6. Attempting'
    BY <2>3 DEF Attempting
  <2>7. /\ Present(cur) => wk'.att = rows'[cur].retries + 1
        /\ wk'.att >= 1
    BY <1>0, <2>3, <2>5, AttemptFacts
  <2>8. \A s \in Subs : Settled(s)' <=> Settled(s)
    <3>1. ASSUME NEW s \in Subs PROVE rows'[s].state = rows[s].state
      BY <2>4, <2>5 DEF RowMoves
    <3> QED BY <3>1 DEF Settled
  <2>9. ASSUME ShaInv PROVE ShaInv'
    <3>1. CASE ~Present(cur)
      <4>1. \A s \in Subs : rows'[s].sha = rows[s].sha
        BY <2>4, <3>1 DEF RowMoves
      <4> QED BY <2>2, <2>3, <2>8, <2>9, <4>1, ShaFrame DEF branch
    <3>2. CASE Present(cur)
      <4>1. rows'[cur].sha = wk.sha /\ ~Settled(cur)
        BY <1>0, <2>1, <2>4, <3>2 DEF Settled, Present
      <4>2. ASSUME NEW s \in Subs, rows'[s].sha # NoSha
            PROVE  /\ Last(rows'[s].sha) \in Range(head') \cap Range(remote')
                   /\ \A q \in Before(s) : Settled(q)'
                   /\ \A q \in Before(s) : rows'[q].sha # NoSha
                                             => Last(rows'[q].sha) \in Range(Front(rows'[s].sha))
        <5>0. Before(s) \subseteq Subs /\ s \notin Before(s)
          BY BeforeFacts
        <5>1. CASE s = cur
          <6>1. \A q \in Before(cur) : Settled(q)
            BY <1>0, PredecessorsSettled
          <6>2. ASSUME NEW q \in Before(cur) PROVE rows'[q] = rows[q]
            BY <2>4, <5>0, <5>1 DEF RowMoves
          <6> QED BY <2>2, <2>8, <2>9, <4>1, <5>0, <5>1, <6>1, <6>2 DEF ShaInv, Recorded, branch
        <5>2. CASE s # cur
          <6>1. rows'[s] = rows[s] /\ Recorded(s)
            BY <2>4, <4>2, <5>2 DEF RowMoves, Recorded
          <6>2. cur \notin Before(s)
            BY <2>9, <4>1, <6>1 DEF ShaInv
          <6>3. ASSUME NEW q \in Before(s) PROVE rows'[q] = rows[q]
            BY <2>4, <5>0, <6>2 DEF RowMoves
          <6> QED BY <2>2, <2>8, <2>9, <5>0, <6>1, <6>3 DEF ShaInv, Recorded, branch
        <5> QED BY <5>1, <5>2
      <4> QED BY <2>3, <4>2 DEF ShaInv, Recorded
    <3> QED BY <3>1, <3>2
  <2>10. ListedInOrder => ShaInv'
    BY <2>9 DEF IndInv
  <2>11. head' \in Sha /\ remote' \in Sha /\ dirty' \in BOOLEAN
    BY <1>00, <2>2 DEF branch
  <2> QED BY <1>0, <2>2, <2>3, <2>4, <2>5, <2>6, <2>7, <2>10, <2>11, AttemptKeeps
<1>9. CASE MarkDone
  BY <1>0, <1>9, DoneSettles DEF MarkDone
<1> QED BY <1>1, <1>2, <1>3, <1>4, <1>5, <1>6, <1>7, <1>8, <1>9 DEF CommitStep

(* A failed attempt leaves a row that is within its budget.                *)
LEMMA TriagedFacts ==
  ASSUME IndInv, wk.pc = "triage"
  PROVE  /\ Triaged \in Row /\ Triaged.kind = rows[cur].kind /\ Triaged.sha = rows[cur].sha
         /\ Triaged.flat = rows[cur].flat /\ Triaged.retries = rows[cur].retries + 1
         /\ Triaged.state = "triaging"
         /\ rows[cur].flat + 1 \in 0..HardMax /\ rows[cur].flat + 1 <= Triaged.retries
<1> DEFINE r == rows[cur]
           sigs == <<wk.sig>> \o r.sigs
           m == Min({Len(sigs), SigsKept})
           n == r.retries + 1
           g == SubSeq(sigs, 1, m)
<1>1. Attempting
  BY DEF Attempting
<1>2. /\ r \in Row /\ cur \in Subs /\ r.flat <= r.retries /\ wk.att \in 0..HardMax /\ wk \in Worker
      /\ Present(cur) => wk.att = r.retries + 1
      /\ wk.att >= 1
  BY <1>1, AttemptFacts
<1>3. HardMax \in Nat /\ r.retries \in 0..HardMax /\ r.flat \in 0..HardMax /\ wk.sig \in Layers
  BY <1>2, BudgetAssumption DEF Row, Worker
<1>4. n \in 0..HardMax /\ r.flat + 1 \in 0..HardMax /\ r.flat + 1 <= n
  <2>1. CASE Present(cur)
    BY <1>2, <1>3, <2>1
  <2>2. CASE ~Present(cur)
    <3>1. r = NoRow
      BY <1>2, <2>2 DEF IndInv, RowInv
    <3>2. NoRow.retries = 0 /\ NoRow.flat = 0
      BY DEF NoRow, FreshRow
    <3> QED BY <1>2, <1>3, <3>1, <3>2
  <2> QED BY <2>1, <2>2
<1>5. g \in BoundedSeq(Layers, SigsKept)
  <2>1. PICK k \in 0..SigsKept : r.sigs \in [1..k -> Layers]
    <3>1. r.sigs \in BoundedSeq(Layers, SigsKept)
      BY <1>2 DEF Row
    <3> QED BY <3>1 DEF BoundedSeq, SeqOf
  <2>2. k \in Nat /\ SigsKept \in Nat
    BY SigsKeptType
  <2>3. r.sigs \in Seq(Layers)
    BY <2>1, <2>2
  <2>4. sigs \in Seq(Layers) /\ Len(sigs) \in Nat
    BY <1>3, <2>3
  <2> HIDE DEF sigs
  <2>5. m \in {Len(sigs), SigsKept} /\ m <= Len(sigs) /\ m <= SigsKept
    <3> DEFINE S == {Len(sigs), SigsKept}
    <3>1. \E x \in S : \A y \in S : x <= y
      BY <2>2, <2>4
    <3>2. Min(S) \in S /\ \A y \in S : Min(S) <= y
      BY <3>1 DEF Min
    <3> QED BY <3>2
  <2>6. m \in 0..SigsKept /\ m \in 0..Len(sigs)
    BY <2>2, <2>4, <2>5
  <2> HIDE DEF m
  <2>7. g \in [1..m -> Layers]
    <3>1. m \in Nat /\ \A i \in 1..m : i \in 1..Len(sigs) /\ sigs[i] \in Layers
      BY <2>2, <2>4, <2>6
    <3>2. SubSeq(sigs, 1, m) = [i \in 1..m |-> sigs[i]]
      <4>1. \A i \in 1..m : 1 + i - 1 = i
        BY <3>1
      <4> QED BY <2>4, <2>6, <3>1, <4>1
    <3> QED BY <3>1, <3>2
  <2> HIDE DEF g
  <2> QED BY <2>6, <2>7 DEF BoundedSeq, SeqOf
<1>6. Triaged = [r EXCEPT !.state = "triaging", !.retries = n, !.sigs = g]
  BY DEF Triaged
<1> HIDE DEF r, n, g
<1>7. /\ Triaged \in Row /\ Triaged.kind = r.kind /\ Triaged.sha = r.sha /\ Triaged.flat = r.flat
      /\ Triaged.retries = n /\ Triaged.state = "triaging"
  BY <1>2, <1>4, <1>5, <1>6 DEF Row
<1> QED BY <1>4, <1>7 DEF r, n

LEMMA TriageStepKeeps ==
  ASSUME IndInv, TriageStep
  PROVE  IndInv'
<1>0. wk.pc = "triage" /\ Attempting
  BY DEF TriageStep, TriageStops, TriageRetries, TriageProgress, Attempting
<1>1. /\ TypeOK /\ wk.set # <<>> /\ cur \in Subs /\ rows[cur] \in Row /\ rows[cur].retries \in Int
      /\ rows[cur].state # "done"
      /\ wk.att \in Int /\ (Present(cur) => wk.att = rows[cur].retries + 1)
  BY <1>0, AttemptFacts
<1>2. /\ Triaged \in Row /\ Triaged.kind = rows[cur].kind /\ Triaged.sha = rows[cur].sha
      /\ Triaged.flat = rows[cur].flat /\ Triaged.retries = rows[cur].retries + 1
      /\ Triaged.state = "triaging"
      /\ rows[cur].flat + 1 \in 0..HardMax /\ rows[cur].flat + 1 <= Triaged.retries
  BY <1>0, TriagedFacts
<1>3. Triaged.flat <= Triaged.retries /\ 0 <= Triaged.retries /\ 0 \in 0..HardMax
  BY <1>2, BudgetAssumption DEF Row
<1> HIDE DEF Triaged
(* Another attempt, with a row that counts this one.                       *)
<1>4. ASSUME NEW r \in Row, UpdateRow(cur, r), r.kind = rows[cur].kind, r.sha = rows[cur].sha,
             r.flat <= r.retries, r.retries = rows[cur].retries + 1, r.state = "triaging",
             Retry, UNCHANGED <<marker, text, branch>>
      PROVE  IndInv'
  <2>1. RowMoves /\ rows'[cur] = IF Present(cur) THEN r ELSE rows[cur]
    BY <1>1, <1>4, UpdateMoves
  <2>2. /\ wk' \in Worker /\ wk'.pc = "try" /\ wk'.set = wk.set /\ wk'.fixing = wk.fixing
        /\ wk'.att = wk.att
    BY <1>0, <1>4, GotoMoves DEF Retry
  <2>3. rows'[cur].sha = rows[cur].sha /\ rows'[cur].state # "done"
    BY <1>1, <1>4, <2>1
  <2>4. ListedInOrder => ShaInv'
    BY <1>0, <1>4, <2>1, <2>2, <2>3, MoveSha DEF branch
  <2>5. Present(cur) => wk'.att = rows'[cur].retries + 0
    BY <1>1, <1>4, <2>1, <2>2
  <2>6. Attempting' /\ head' \in Sha /\ remote' \in Sha /\ dirty' \in BOOLEAN /\ task' = task
    BY <1>1, <1>4, <2>2 DEF Attempting, TypeOK, branch, Retry
  <2> QED BY <1>0, <1>4, <2>1, <2>2, <2>3, <2>4, <2>5, <2>6, AttemptKeeps
<1>5. CASE TriageStops
  BY <1>0, <1>2, <1>3, <1>5, BlockKeeps DEF TriageStops
<1>6. CASE TriageRetries
  BY <1>2, <1>3, <1>4, <1>6 DEF TriageRetries
<1>7. ASSUME NEW flatlined \in BOOLEAN, TriageProgress(flatlined) PROVE IndInv'
  <2> DEFINE flat == IF flatlined /\ Present(cur) THEN rows[cur].flat + 1 ELSE 0
             r == [Triaged EXCEPT !.flat = flat]
  <2>1. flat \in 0..HardMax /\ flat <= Triaged.retries
    BY <1>2, <1>3
  <2>2. /\ \/ Block(r)
           \/ UpdateRow(cur, r) /\ Retry
        /\ UNCHANGED <<marker, text, branch>>
    BY <1>7 DEF TriageProgress
  <2> HIDE DEF flat
  <2>3. /\ r \in Row /\ r.kind = Triaged.kind /\ r.sha = Triaged.sha /\ r.flat = flat
        /\ r.retries = Triaged.retries /\ r.state = "triaging"
    BY <1>2, <2>1 DEF Row
  <2> HIDE DEF r
  <2>4. CASE Block(r)
    BY <1>0, <1>2, <2>1, <2>2, <2>3, <2>4, BlockKeeps
  <2>5. CASE UpdateRow(cur, r) /\ Retry
    BY <1>2, <1>4, <2>1, <2>2, <2>3, <2>5
  <2> QED BY <2>2, <2>4, <2>5
<1> QED BY <1>5, <1>6, <1>7 DEF TriageStep

(* The leftovers of a plan that is settled: the gate, then the fixup.      *)
LEMMA LeftoverFacts ==
  ASSUME TypeOK, \A s \in Range(Plan) : Settled(s)
  PROVE  /\ Leftover \in {<<>>, <<GateId>>, <<FixupId>>, <<GateId, FixupId>>}
         /\ \A s \in Subs \ Range(Leftover) : Settled(s)
<1> DEFINE S == {s \in Subs : rows[s].state \notin {"absent", "done"}}
<1>1. Plan \in Seq(Subs) /\ GateId \in Subs /\ FixupId \in Subs
  BY PlanAssumption, SubsFacts DEF Range
<1>2. Range(Plan) \cap S = {}
  BY DEF Settled
<1>3. Leftover = Kept(Plan \o <<GateId, FixupId>>, S)
  BY DEF Leftover, RowOrder
<1>4. \A s \in Subs \ S : Settled(s)
  BY DEF Settled
<1> HIDE DEF S
<1>5. Leftover \in {<<>>, <<GateId>>, <<FixupId>>, <<GateId, FixupId>>}
  BY <1>1, <1>2, <1>3, KeptTail
<1>6. <<GateId, FixupId>> \in Seq(Subs) /\ Range(<<GateId, FixupId>>) = {GateId, FixupId}
  BY <1>1 DEF Range
<1>7. /\ Plan \o <<GateId, FixupId>> \in Seq(Subs)
      /\ Range(Plan \o <<GateId, FixupId>>) = Range(Plan) \cup Range(<<GateId, FixupId>>)
  BY <1>1, <1>6, ConcatRange
<1>8. Range(Leftover) = Range(Plan \o <<GateId, FixupId>>) \cap S
  BY <1>3, <1>7, KeptRange
<1>9. Subs = Range(Plan) \cup {GateId, FixupId}
  BY DEF Subs, Specs
<1>10. Range(Leftover) = Subs \cap S
  BY <1>6, <1>7, <1>8, <1>9
<1> QED BY <1>4, <1>5, <1>10

LEMMA SetStepKeeps ==
  ASSUME IndInv, SetStep
  PROVE  IndInv'
<1>0. TypeOK /\ wk \in Worker /\ wk.fixing \in BOOLEAN
  BY DEF IndInv, TypeOK, Worker
<1>1. CASE SetDone
  <2>1. wk.pc = "next" /\ wk.set = <<>> /\ UNCHANGED <<task, marker, text, rows, branch>>
    BY <1>1 DEF SetDone
  <2>2. \A s \in Covered : Settled(s)
    BY <2>1 DEF IndInv, SetInv, InSet, Range
  <2>3. \A s \in Range(Plan) : Settled(s)
    BY <2>2, SubsFacts DEF Covered
  <2>4. /\ Leftover \in {<<>>, <<GateId>>, <<FixupId>>, <<GateId, FixupId>>}
        /\ \A s \in Subs \ Range(Leftover) : Settled(s)
    BY <1>0, <2>3, LeftoverFacts
  <2>5. RowInv' /\ rows' \in [Subs -> Row]
    BY <1>0, <2>1 DEF IndInv, RowInv, Present, TypeOK
  <2>6. CASE wk.fixing \/ Leftover = <<>>
    <3>1. wk' = [wk EXCEPT !.pc = "audit", !.fixing = TRUE]
      BY <1>1, <2>6 DEF SetDone
    <3>2. wk' \in Worker /\ wk'.pc = "audit" /\ wk'.set = <<>> /\ wk'.fixing
      BY <1>0, <2>1, <3>1 DEF Worker
    <3>3. \A s \in Subs : Settled(s)
      <4>1. CASE wk.fixing
        BY <2>2, <4>1 DEF Covered
      <4>2. CASE Leftover = <<>>
        BY <2>4, <4>2 DEF Range
      <4> QED BY <2>6, <4>1, <4>2
    <3>4. SetInv'
      BY <2>1, <3>2, <3>3 DEF SetInv, Covered, Settled, Range
    <3>5. ListedInOrder => ShaInv'
      BY <2>1, <3>2, SameRowsSha
    <3> QED BY <1>0, <2>1, <2>5, <3>2, <3>4, <3>5, SetKeeps DEF TypeOK
  <2>7. CASE ~(wk.fixing \/ Leftover = <<>>)
    <3>1. wk' = [wk EXCEPT !.set = Leftover, !.fixing = TRUE]
      BY <1>1, <2>7 DEF SetDone
    <3> DEFINE q == Leftover
    <3> HIDE DEF q
    <3>2. q \in {<<GateId>>, <<FixupId>>, <<GateId, FixupId>>}
      BY <2>4, <2>7 DEF q
    <3>3. q \in Seq(Subs)
      <4>1. <<GateId>> \in Seq(Subs) /\ <<FixupId>> \in Seq(Subs) /\ <<GateId, FixupId>> \in Seq(Subs)
        BY SubsFacts
      <4> QED BY <3>2, <4>1
    <3>4. wk' \in Worker /\ wk'.pc = "next" /\ wk'.set = q /\ wk'.fixing
      BY <1>0, <2>1, <3>1, <3>3 DEF Worker, q
    <3>5. ASSUME NEW i \in DOMAIN q, NEW j \in DOMAIN q, i <= j PROVE q[j] \notin Before(q[i])
      <4>1. q[i] \in Subs
        BY <3>3
      <4>2. q[j] = FixupId \/ (q[i] = GateId /\ q[j] = GateId)
        BY <3>2, <3>5
      <4> QED BY <4>1, <4>2, BeforeFacts, SubsFacts
    <3>6. SetInv'
      <4>1. Covered' = Subs
        BY <3>4 DEF Covered
      <4>2. Range(q) \subseteq Subs
        BY <3>3, RangeIsFinite
      <4>3. \A s \in Subs \ Range(q) : Settled(s)'
        BY <2>1, <2>4 DEF Settled, q
      <4> QED BY <3>4, <3>5, <4>1, <4>2, <4>3 DEF SetInv
    <3>7. ListedInOrder => ShaInv'
      BY <2>1, <3>4, SameRowsSha
    <3> QED BY <1>0, <2>1, <2>5, <3>4, <3>6, <3>7, SetKeeps DEF TypeOK
  <2> QED BY <2>6, <2>7
<1>2. CASE AuditPasses
  BY <1>2, EndKeeps DEF AuditPasses, IndInv, TypeOK
<1>3. CASE AuditBlocks
  BY <1>3, EndKeeps DEF AuditBlocks, BlockTask, IndInv, TypeOK
<1>4. ASSUME NEW kind \in {"fixup-ci", "fixup-review"}, FixupRound(kind) PROVE IndInv'
  <2>1. wk.pc = "audit" /\ wk.fixing /\ wk.set = <<>> /\ UNCHANGED <<task, marker, text, branch>>
    BY <1>4 DEF FixupRound, IndInv, ControlInv
  <2>2. wk' = [wk EXCEPT !.pc = "next", !.set = <<FixupId>>]
    BY <1>4 DEF FixupRound
  <2>3. <<FixupId>> \in Seq(Subs) /\ FixupId \in Subs /\ Range(<<FixupId>>) = {FixupId}
    BY SubsFacts DEF Range
  <2> DEFINE q == <<FixupId>>
  <2>4. \A i, j \in DOMAIN q : q[j] \notin Before(q[i])
    BY <2>3, BeforeFacts
  <2> HIDE DEF q
  <2>5. wk' \in Worker /\ wk'.pc = "next" /\ wk'.set = q /\ wk'.fixing
    BY <1>0, <2>1, <2>2, <2>3 DEF Worker, q
  <2>6. /\ rows' \in [Subs -> Row] /\ \A s \in Subs \ {FixupId} : rows'[s] = rows[s]
        /\ rows'[FixupId] = IF Present(FixupId) THEN rows[FixupId] ELSE FreshRow(kind)
    BY <1>0, <1>4, <2>3, FreshTypes DEF FixupRound, TypeOK
  <2>7. RowInv'
    <3>1. FreshRow(kind).flat <= FreshRow(kind).retries /\ FreshRow(kind).state = "pending"
      BY FreshTypes
    <3>2. ASSUME NEW s \in Subs
          PROVE  rows'[s].flat <= rows'[s].retries
                 /\ (rows'[s].state = "absent" => rows'[s] = NoRow)
      BY <2>6, <3>1 DEF IndInv, RowInv, Present
    <3> QED BY <3>2 DEF RowInv, Present
  <2>8. SetInv'
    <3>1. Covered' = Subs /\ Covered = Subs
      BY <2>1, <2>5 DEF Covered
    <3>2. \A s \in Subs : Settled(s)
      BY <2>1, <3>1 DEF IndInv, SetInv, InSet, Range
    <3>3. \A s \in Subs \ {FixupId} : Settled(s)'
      BY <2>6, <3>2 DEF Settled
    <3> QED BY <2>3, <2>4, <2>5, <3>1, <3>3 DEF SetInv, q
  <2>9. ASSUME ShaInv PROVE ShaInv'
    <3>1. CASE Present(FixupId)
      BY <2>5, <2>6, <2>1, <2>9, <3>1, ShaFrame DEF branch, Settled
    <3>2. CASE ~Present(FixupId)
      <4>1. rows[FixupId].sha = NoSha /\ rows'[FixupId].sha = NoSha
        BY <2>3, <2>6, <3>2, FreshTypes DEF IndInv, RowInv
      <4>2. ASSUME NEW s \in Subs, rows'[s].sha # NoSha
            PROVE  /\ Last(rows'[s].sha) \in Range(head') \cap Range(remote')
                   /\ \A q1 \in Before(s) : Settled(q1)'
                   /\ \A q1 \in Before(s) : rows'[q1].sha # NoSha
                                             => Last(rows'[q1].sha) \in Range(Front(rows'[s].sha))
        <5>1. rows'[s] = rows[s] /\ Recorded(s) /\ Before(s) \subseteq Subs /\ FixupId \notin Before(s)
          BY <2>6, <4>1, <4>2, BeforeFacts DEF Recorded
        <5>2. \A q1 \in Before(s) : rows'[q1] = rows[q1]
          BY <2>6, <5>1
        <5> QED BY <2>1, <2>9, <5>1, <5>2 DEF ShaInv, Recorded, Settled, branch
      <4> QED BY <2>5, <4>2 DEF ShaInv, Recorded
    <3> QED BY <3>1, <3>2
  <2> QED BY <1>0, <2>1, <2>5, <2>6, <2>7, <2>8, <2>9, SetKeeps DEF TypeOK, IndInv
<1> QED BY <1>1, <1>2, <1>3, <1>4 DEF SetStep

LEMMA FrontIsSha ==
  ASSUME NEW q \in Sha, q # NoSha
  PROVE  Front(q) \in Sha
  BY DEF Sha, NoSha, Front

(* What a rewind leaves of the record: the rows in Kpt, all before s.      *)
LEMMA RewindSha ==
  ASSUME IndInv, ShaInv, NEW s \in Subs, ResetBranch(rows[s].sha), wk'.pc = "none",
         \A q \in Before(s) : rows'[q] = rows[q],
         \A q \in Subs \ Before(s) : rows'[q].sha = NoSha
  PROVE  ShaInv'
<1>1. ASSUME NEW q \in Subs, rows'[q].sha # NoSha
      PROVE  /\ Last(rows'[q].sha) \in Range(head') \cap Range(remote')
             /\ \A p \in Before(q) : Settled(p)'
             /\ \A p \in Before(q) : rows'[p].sha # NoSha
                                       => Last(rows'[p].sha) \in Range(Front(rows'[q].sha))
  <2>1. q \in Before(s) /\ rows'[q] = rows[q] /\ Recorded(q)
    BY <1>1 DEF Recorded
  <2>2. \A p \in Before(q) : p \in Subs /\ p \in Before(s) /\ rows'[p] = rows[p]
    BY <2>1, BeforeFacts
  <2>3. Last(rows[q].sha) \in Range(head) \cap Range(remote)
    BY <2>1 DEF ShaInv
  <2>4. Last(rows[q].sha) \in Range(head')
    <3>1. CASE rows[s].sha = NoSha
      BY <2>3, <3>1 DEF ResetBranch
    <3>2. CASE rows[s].sha # NoSha
      BY <2>1, <3>2 DEF ResetBranch, ShaInv, Recorded
    <3> QED BY <3>1, <3>2
  <2>5. Last(rows[q].sha) \in Range(remote')
    BY <2>3, <2>4 DEF ResetBranch
  <2> QED BY <2>1, <2>2, <2>4, <2>5 DEF ShaInv, Recorded, Settled
<1> QED BY <1>1 DEF ShaInv, Recorded

LEMMA OperatorStepKeeps ==
  ASSUME IndInv, OperatorStep
  PROVE  IndInv'
<1>0. /\ TypeOK /\ Stopped /\ rows \in [Subs -> Row] /\ head \in Sha /\ remote \in Sha
      /\ dirty \in BOOLEAN /\ text \in BOOLEAN /\ marker \in BOOLEAN
  BY DEF IndInv, TypeOK, OperatorStep, Resume, ReplanCycle, Rewind, ResetRetries
<1>1. wk = Idle /\ wk.pc = "none"
  <2>1. wk.pc = "none"
    BY <1>0 DEF Stopped, IndInv, ControlInv
  <2> QED BY <2>1, IdleWorker
<1>2. ASSUME NEW q \in Subs
      PROVE  /\ rows[q] \in Row /\ rows[q].flat <= rows[q].retries
             /\ ~Present(q) => rows[q] = NoRow
             /\ Forgiven(rows[q]) \in Row /\ Forgiven(rows[q]).state = rows[q].state
             /\ Forgiven(rows[q]).sha = rows[q].sha
             /\ Forgiven(rows[q]).flat <= Forgiven(rows[q]).retries
             /\ rows[q].kind \in {"spec", "fixup-ci", "fixup-review"}
  <2>1. rows[q] \in Row
    BY <1>0
  <2> QED BY <2>1, ForgivenFacts DEF IndInv, RowInv, Row
(* Rows that keep their commit and whether they are settled.               *)
<1>3. ASSUME UNCHANGED <<text, branch, wk>>, task' \in {"pending", "stopped"}, marker' \in BOOLEAN,
             rows' \in [Subs -> Row],
             \A q \in Subs : /\ rows'[q].flat <= rows'[q].retries
                             /\ rows'[q].sha = rows[q].sha
                             /\ Present(q) => rows'[q].state # "absent"
                             /\ ~Present(q) => rows'[q] = rows[q]
                             /\ rows[q].state = "done" => rows'[q].state = "done"
      PROVE  IndInv'
  <2>1. RowInv'
    <3>1. ASSUME NEW q \in Subs, rows'[q].state = "absent" PROVE rows'[q] = NoRow
      BY <1>2, <1>3, <3>1
    <3> QED BY <1>3, <3>1 DEF RowInv, Present
  <2>2. ASSUME NEW q \in Subs PROVE rows'[q].sha = rows[q].sha /\ (Settled(q) => Settled(q)')
    BY <1>3 DEF Settled, Present
  <2>3. ListedInOrder => ShaInv'
    BY <1>1, <1>3, <2>2, ShaFrame DEF IndInv, branch
  <2> QED BY <1>0, <1>1, <1>3, <2>1, <2>3, StopKeeps DEF branch
<1>4. ASSUME NEW q \in Subs
      PROVE  LET u == [Forgiven(rows[q]) EXCEPT !.state = "pending"]
             IN  u \in Row /\ u.sha = rows[q].sha /\ u.flat <= u.retries /\ u.state = "pending"
  <2> DEFINE f == Forgiven(rows[q])
  <2>1. f \in Row /\ f.sha = rows[q].sha /\ f.flat <= f.retries
    BY <1>2
  <2> HIDE DEF f
  <2>2. LET u == [f EXCEPT !.state = "pending"]
        IN  u \in Row /\ u.sha = rows[q].sha /\ u.flat <= u.retries /\ u.state = "pending"
    BY <2>1 DEF Row
  <2> QED BY <2>2 DEF f
<1>5. CASE Resume
  <2>1. ASSUME NEW q \in Subs
        PROVE  LET u == [rows[q] EXCEPT !.state = "pending"]
               IN  u \in Row /\ u.sha = rows[q].sha /\ u.flat <= u.retries /\ u.state = "pending"
    BY <1>2 DEF Row
  <2> DEFINE new(q) == CASE rows[q].state \in {"absent", "done"} -> rows[q]
               [] rows[q].state = "blocked" -> [Forgiven(rows[q]) EXCEPT !.state = "pending"]
               [] OTHER -> [rows[q] EXCEPT !.state = "pending"]
  <2>2. rows' = [q \in Subs |-> new(q)]
    BY <1>5 DEF Resume
  <2>3. ASSUME NEW q \in Subs
        PROVE  /\ new(q) \in Row /\ new(q).flat <= new(q).retries /\ new(q).sha = rows[q].sha
               /\ Present(q) => new(q).state # "absent"
               /\ ~Present(q) => new(q) = rows[q]
               /\ rows[q].state = "done" => new(q).state = "done"
    <3>1. CASE rows[q].state \in {"absent", "done"}
      BY <1>2, <3>1 DEF Present
    <3>2. CASE rows[q].state = "blocked"
      <4>1. new(q) = [Forgiven(rows[q]) EXCEPT !.state = "pending"]
        BY <3>2
      <4> HIDE DEF new
      <4> QED BY <1>4, <3>2, <4>1 DEF Present
    <3>3. CASE rows[q].state \notin {"absent", "done", "blocked"}
      <4>1. new(q) = [rows[q] EXCEPT !.state = "pending"]
        BY <3>3
      <4> HIDE DEF new
      <4> QED BY <2>1, <3>3, <4>1 DEF Present
    <3> QED BY <3>1, <3>2, <3>3
  <2> HIDE DEF new
  <2>4. rows' \in [Subs -> Row] /\ \A q \in Subs : rows'[q] = new(q)
    BY <2>2, <2>3
  <2>5. UNCHANGED <<text, branch, wk>> /\ task' = "pending" /\ marker' = TRUE
    BY <1>5 DEF Resume
  <2> QED BY <1>3, <2>3, <2>4, <2>5
<1>6. ASSUME NEW targets \in SUBSET Subs, ResetRetries(targets) PROVE IndInv'
  <2> DEFINE new(q) == IF q \notin targets THEN rows[q]
               ELSE [Forgiven(rows[q]) EXCEPT !.state = IF @ = "blocked" THEN "pending" ELSE @]
  <2>1. rows' = [q \in Subs |-> new(q)]
    BY <1>6 DEF ResetRetries
  <2>2. ASSUME NEW q \in Subs
        PROVE  /\ new(q) \in Row /\ new(q).flat <= new(q).retries /\ new(q).sha = rows[q].sha
               /\ Present(q) => new(q).state # "absent"
               /\ ~Present(q) => new(q) = rows[q]
               /\ rows[q].state = "done" => new(q).state = "done"
    <3>1. CASE q \notin targets
      BY <1>2, <3>1 DEF Present
    <3>2. CASE q \in targets
      <4> DEFINE f == Forgiven(rows[q])
      <4>1. /\ f \in Row /\ f.state = rows[q].state /\ f.sha = rows[q].sha /\ f.flat <= f.retries
            /\ Present(q)
        BY <1>2, <1>6, <3>2 DEF ResetRetries
      <4>2. new(q) = [f EXCEPT !.state = IF f.state = "blocked" THEN "pending" ELSE f.state]
        BY <3>2, <4>1
      <4> HIDE DEF f, new
      <4>3. CASE f.state = "blocked"
        <5>1. new(q) = [f EXCEPT !.state = "pending"]
          BY <4>2, <4>3
        <5> QED BY <4>1, <4>3, <5>1 DEF Row, Present
      <4>4. CASE f.state # "blocked"
        <5>1. new(q) = f
          BY <4>1, <4>2, <4>4 DEF Row
        <5> QED BY <4>1, <5>1 DEF Present
      <4> QED BY <4>3, <4>4
    <3> QED BY <3>1, <3>2
  <2> HIDE DEF new
  <2>3. rows' \in [Subs -> Row] /\ \A q \in Subs : rows'[q] = new(q)
    BY <2>1, <2>2
  <2>4. UNCHANGED <<task, marker, text, branch, wk>>
    BY <1>6 DEF ResetRetries
  <2> QED BY <1>0, <1>3, <2>2, <2>3, <2>4 DEF Stopped
(* The branch is reset to just before a commit on record.                  *)
<1>7. ASSUME NEW s \in Subs, ResetBranch(rows[s].sha)
      PROVE  head' \in Sha /\ remote' \in Sha /\ dirty' \in BOOLEAN
  <2>1. rows[s].sha \in Sha
    BY <1>2, <1>7 DEF Row
  <2>2. head' \in Sha
    BY <1>0, <1>7, <2>1, FrontIsSha DEF ResetBranch
  <2> QED BY <1>0, <1>7, <2>2 DEF ResetBranch
<1>8. ASSUME NEW s \in Subs, Rewind(s) PROVE IndInv'
  <2>1. /\ ResetBranch(rows[s].sha) /\ task' = "pending" /\ marker' = TRUE /\ text' = text
        /\ wk' = wk
    BY <1>8 DEF Rewind, Repend
  <2>2. \A q \in Subs : rows'[q] = IF q \in RowsFrom(s) /\ Present(q)
                                   THEN FreshRow(rows[q].kind) ELSE rows[q]
    BY <1>8 DEF Rewind
  <2>3. ASSUME NEW q \in Subs
        PROVE  /\ FreshRow(rows[q].kind) \in Row /\ FreshRow(rows[q].kind).state = "pending"
               /\ FreshRow(rows[q].kind).flat <= FreshRow(rows[q].kind).retries
               /\ FreshRow(rows[q].kind).sha = NoSha
    BY <1>2, FreshTypes
  <2>4. rows' \in [Subs -> Row]
    <3>1. rows' = [q \in Subs |-> IF q \in RowsFrom(s) /\ Present(q)
                                  THEN FreshRow(rows[q].kind) ELSE rows[q]]
      BY <1>8 DEF Rewind
    <3> QED BY <1>2, <2>3, <3>1
  <2>5. RowInv'
    <3>1. ASSUME NEW q \in Subs
          PROVE  rows'[q].flat <= rows'[q].retries
                 /\ (rows'[q].state = "absent" => rows'[q] = NoRow)
      BY <1>2, <2>2, <2>3 DEF Present
    <3> QED BY <3>1 DEF RowInv, Present
  <2>6. ASSUME ListedInOrder PROVE ShaInv'
    <3>1. \A q \in Before(s) : rows'[q] = rows[q]
      BY <2>2, <2>6, RewoundRows, BeforeFacts
    <3>2. ASSUME NEW q \in Subs \ Before(s) PROVE rows'[q].sha = NoSha
      <4>1. q \in RowsFrom(s)
        BY <2>6, RewoundRows
      <4>2. NoRow.sha = NoSha
        BY FreshTypes
      <4> QED BY <1>2, <2>2, <2>3, <4>1, <4>2
    <3>3. ShaInv /\ wk'.pc = "none"
      BY <1>1, <2>1, <2>6 DEF IndInv
    <3> QED BY <2>1, <3>1, <3>2, <3>3, RewindSha
  <2> QED BY <1>0, <1>1, <1>7, <2>1, <2>4, <2>5, <2>6, StopKeeps
<1>9. CASE ReplanCycle
  <2>1. /\ ResetBranch(rows[FixupId].sha) /\ task' = "pending" /\ marker' = TRUE /\ text' = text
        /\ wk' = wk /\ FixupId \in Subs
    BY <1>9, SubsFacts DEF ReplanCycle, Repend
  <2>2. NoRow \in Row /\ NoRow.sha = NoSha /\ NoRow.flat <= NoRow.retries
    BY FreshTypes
  <2>3. /\ rows' \in [Subs -> Row] /\ rows'[FixupId] = NoRow
        /\ \A q \in Subs \ {FixupId} : rows'[q] = rows[q]
    BY <1>0, <1>9, <2>1, <2>2 DEF ReplanCycle
  <2>4. RowInv'
    <3>1. ASSUME NEW q \in Subs
          PROVE  rows'[q].flat <= rows'[q].retries
                 /\ (rows'[q].state = "absent" => rows'[q] = NoRow)
      BY <1>2, <2>2, <2>3 DEF Present
    <3> QED BY <3>1 DEF RowInv, Present
  <2>5. ASSUME ListedInOrder PROVE ShaInv'
    <3>1. Before(FixupId) = Specs /\ FixupId \notin Specs /\ Subs = Specs \cup {FixupId}
      BY BeforeFacts, SubsFacts DEF Subs
    <3>2. \A q \in Before(FixupId) : rows'[q] = rows[q]
      BY <2>3, <3>1
    <3>3. \A q \in Subs \ Before(FixupId) : rows'[q].sha = NoSha
      BY <2>2, <2>3, <3>1
    <3>4. ShaInv /\ wk'.pc = "none"
      BY <1>1, <2>1, <2>5 DEF IndInv
    <3> QED BY <2>1, <3>2, <3>3, <3>4, RewindSha
  <2> QED BY <1>0, <1>1, <1>7, <2>1, <2>3, <2>4, <2>5, StopKeeps
<1> QED BY <1>5, <1>6, <1>8, <1>9 DEF OperatorStep

-----------------------------------------------------------------------------
(* The theorems.                                                           *)

LEMMA InitEstablishes == Init => IndInv
<1> SUFFICES ASSUME Init PROVE IndInv
  OBVIOUS
<1>1. Idle \in Worker /\ NoRow \in Row /\ NoRow.sha = NoSha /\ NoRow.flat <= NoRow.retries
  BY FreshTypes
<1>2. Idle.pc = "none" /\ Idle.set = <<>>
  BY DEF Idle
<1>3. [Idle EXCEPT !.pc = "none"] = Idle
  <2>1. ASSUME NEW w \in Worker PROVE [w EXCEPT !.pc = w.pc] = w
    BY DEF Worker
  <2> QED BY <1>1, <1>2, <2>1
<1>4. TypeOK
  <2>1. rows \in [Subs -> Row] /\ wk \in Worker
    <3> HIDE DEF Idle, NoRow
    <3> QED BY <1>1 DEF Init
  <2>2. <<>> \in Sha
    BY DEF Sha
  <2> QED BY <2>1, <2>2 DEF Init, TypeOK
<1>5. ControlInv /\ AttemptIsRetries
  BY <1>2, <1>3 DEF Init, ControlInv, AttemptIsRetries, Attempting
<1>6. RowInv
  BY <1>1 DEF Init, RowInv
<1>7. SetInv
  BY <1>2 DEF Init, SetInv, InSet, Attempting
<1>8. ShaInv
  BY <1>1, <1>2 DEF Init, ShaInv, Recorded
<1> QED BY <1>4, <1>5, <1>6, <1>7, <1>8 DEF IndInv

LEMMA NextKeeps == IndInv /\ [Next]_vars => IndInv'
<1> SUFFICES ASSUME IndInv, [Next]_vars PROVE IndInv'
  OBVIOUS
<1>0. TypeOK /\ head \in Seq(Patch) /\ remote \in Seq(Patch)
  BY DEF IndInv, TypeOK, Sha
<1>1. CASE WorkerStep
  BY <1>1, PlanStepKeeps, BoundaryStepKeeps, AttemptStepKeeps, CommitStepKeeps, TriageStepKeeps,
     SetStepKeeps DEF WorkerStep
<1>2. CASE OperatorStep
  BY <1>2, OperatorStepKeeps
<1>3. CASE Killed
  BY <1>3, EndKeeps DEF Killed
<1>4. CASE WorkerRaises
  BY <1>4, EndKeeps DEF WorkerRaises, IndInv, TypeOK
<1>5. CASE HumanPush
  <2> DEFINE p == NewPatch(Human)
  <2>1. p \in Patch
    BY <1>0, NewPatchType
  <2> HIDE DEF p
  <2>2. remote' = Append(remote, p) /\ UNCHANGED <<task, marker, text, rows, head, dirty, wk>>
    BY <1>5 DEF HumanPush, p
  <2>3. remote' \in Seq(Patch) /\ Range(remote') = Range(remote) \cup {p}
    BY <1>0, <2>1, <2>2, AppendFacts
  <2> QED BY <1>0, <2>2, <2>3, BranchKeeps DEF Sha, TypeOK
<1>6. CASE UNCHANGED vars
  BY <1>0, <1>6, BranchKeeps DEF vars, TypeOK, Sha
<1> QED BY <1>1, <1>2, <1>3, <1>4, <1>5, <1>6 DEF Next

LEMMA Invariance == Spec => []IndInv
  BY InitEstablishes, NextKeeps, PTL DEF Spec

(***************************************************************************)
(* Rows, branches and worker keep their types, and no counter passes its   *)
(* budget, for every plan and all budgets.  A flatline count is bounded by *)
(* the attempts, not by FlatMax: a row that blocked on its flatlines and   *)
(* is attempted again keeps its count.                                     *)
(***************************************************************************)
THEOREM SubtaskTypes == Spec => []TypeOK
  BY Invariance, PTL DEF IndInv

(***************************************************************************)
(* The attempt counter in memory and retries in the row stay in step,      *)
(* whatever is killed, retried for free, rewound or reset in between.      *)
(***************************************************************************)
THEOREM AttemptsInStep == Spec => []AttemptIsRetries
  BY Invariance, PTL DEF IndInv

(***************************************************************************)
(* No subtask is attempted while one that runs before it is not DONE: the  *)
(* set that a worker runs is what is left, in order, of what it covers.    *)
(***************************************************************************)
THEOREM NothingSkipped == Spec => []PredecessorsDone
<1>1. IndInv => PredecessorsDone
  BY PredecessorsSettled DEF PredecessorsDone, Settled
<1> QED BY <1>1, Invariance, PTL

(***************************************************************************)
(* For a plan listed in the order it runs, the commit on record for a DONE *)
(* subtask is on the local branch and on GitHub: every recorded commit     *)
(* lies on top of those of the subtasks before it, and a rewind drops the  *)
(* record of whatever the reset may take off the branch.                   *)
(***************************************************************************)
THEOREM DoneOnBranch == Spec => [](ListedInOrder => DoneIsOnBranch)
<1>1. IndInv => (ListedInOrder => DoneIsOnBranch)
  BY DEF IndInv, ShaInv, Recorded, DoneIsOnBranch
<1> QED BY <1>1, Invariance, PTL

=============================================================================
