------------------------------ MODULE DataLemmas ------------------------------
(***************************************************************************)
(* Facts about numbers and sequences that the proofs about the components  *)
(* share.  Induction is by least counterexample: a set of naturals that is *)
(* not empty has a least member.                                           *)
(***************************************************************************)
EXTENDS Integers, SequencesExt, FiniteSetsExt, FiniteSetTheorems, FunctionTheorems,
        WellFoundedInduction, TLAPS

LEMMA NatMinimum ==
  ASSUME NEW S \in SUBSET Nat, S # {}
  PROVE  \E m \in S : \A n \in S : m <= n
<1> DEFINE R == OpToRel(<, Nat)
<1>1. IsWellFoundedOn(R, Nat)
  BY NatLessThanWellFounded
<1>2. \A a, b \in Nat : a < b => <<a, b>> \in R
  BY DEF OpToRel
<1> HIDE DEF R
<1>3. PICK x \in S : \A y \in S : <<y, x>> \notin R
  BY <1>1, WFMin
<1>4. ASSUME NEW y \in S PROVE x <= y
  <2>1. x \in Nat /\ y \in Nat
    OBVIOUS
  <2>2. ~(y < x)
    BY <1>2, <1>3, <2>1
  <2> QED BY <2>1, <2>2
<1> QED BY <1>4

LEMMA MinIsMember ==
  ASSUME NEW S \in SUBSET Nat, S # {}
  PROVE  Min(S) \in S
  BY NatMinimum DEF Min

(* Induction up to n, as a statement about a set.                          *)
LEMMA UpTo ==
  ASSUME NEW n \in Nat, NEW S, 0 \in S, \A k \in 1..n : k - 1 \in S => k \in S
  PROVE  \A k \in 0..n : k \in S
<1> DEFINE Bad == (0..n) \ S
<1>1. ASSUME Bad # {} PROVE FALSE
  <2>1. PICK m \in Bad : \A k \in Bad : m <= k
    <3>1. Bad \in SUBSET Nat
      OBVIOUS
    <3> QED BY <1>1, <3>1, NatMinimum
  <2>2. m \in 1..n
    BY <2>1
  <2>3. m - 1 \in 0..n /\ m - 1 \notin Bad
    BY <2>1, <2>2
  <2> QED BY <2>1, <2>2, <2>3
<1> QED BY <1>1

(* The recursive functions over 0..n that start at v and whose every value *)
(* follows from the one before by G.                                       *)
Iterations(n, V, v, G) ==
  {f \in [0..n -> V] : f[0] = v /\ \A k \in 1..n : f[k] = G[k][f[k - 1]]}

LEMMA Iterates ==
  ASSUME NEW n \in Nat, NEW V, NEW v \in V, NEW G \in [1..n -> [V -> V]]
  PROVE  Iterations(n, V, v, G) # {}
<1> DEFINE Up(m) == Iterations(m, V, v, G)
           S == {m \in 0..n : Up(m) # {}}
<1>1. 0 \in S
  <2>1. [k \in 0..0 |-> v] \in Up(0)
    BY DEF Iterations
  <2> QED BY <2>1
<1>2. ASSUME NEW m \in 1..n, m - 1 \in S PROVE m \in S
  <2>1. PICK f \in Up(m - 1) : TRUE
    BY <1>2
  <2> DEFINE g == [k \in 0..m |-> IF k = m THEN G[m][f[m - 1]] ELSE f[k]]
  <2>2. f \in [0..(m - 1) -> V] /\ f[0] = v /\ \A k \in 1..(m - 1) : f[k] = G[k][f[k - 1]]
    BY <2>1 DEF Iterations
  <2>3. G[m] \in [V -> V] /\ f[m - 1] \in V
    BY <2>2
  <2>4. g \in [0..m -> V]
    BY <2>2, <2>3
  <2>5. g[0] = v
    BY <2>2
  <2>6. ASSUME NEW k \in 1..m PROVE g[k] = G[k][g[k - 1]]
    BY <2>2
  <2>7. g \in Up(m)
    BY <2>4, <2>5, <2>6 DEF Iterations
  <2> HIDE DEF Up
  <2> QED BY <2>7
<1>3. n \in S
  <2> HIDE DEF S
  <2>1. \A m \in 1..n : m - 1 \in S => m \in S
    BY <1>2
  <2>2. \A k \in 0..n : k \in S
    BY <1>1, <2>1, UpTo
  <2> QED BY <2>2
<1> QED BY <1>3

LEMMA IntervalSize ==
  ASSUME NEW n \in Nat
  PROVE  IsFiniteSet(1..n) /\ Cardinality(1..n) = n
<1>1. 1 \in Int /\ n \in Int
  OBVIOUS
<1>2. IsFiniteSet(1..n) /\ Cardinality(1..n) = IF 1 > n THEN 0 ELSE n - 1 + 1
  BY <1>1, FS_Interval, Zenon
<1> QED BY <1>2

(* A finite set of numbers has a largest one.                              *)
LEMMA MaxIsMember ==
  ASSUME NEW S \in SUBSET Nat, S # {}, IsFiniteSet(S)
  PROVE  Max(S) \in S /\ \A y \in S : y <= Max(S)
<1>1. PICK n \in Nat : ExistsBijection(1..n, S)
  BY FS_NatBijection
<1>2. PICK f \in [1..n -> S] : \A y \in S : \E i \in 1..n : f[i] = y
  BY <1>1 DEF ExistsBijection, Bijection, Injection, Surjection
<1>0. \A i \in 1..n : f[i] \in Nat
  <2>1. \A i \in 1..n : f[i] \in S
    BY <1>2
  <2> QED BY <2>1
<1> DEFINE Good == {k \in 0..n : \E b \in Nat : \A i \in 1..k : f[i] <= b}
<1>3. 0 \in Good
  <2>1. 0 \in 0..n /\ 0 \in Nat /\ 1..0 = {}
    OBVIOUS
  <2> QED BY <2>1
<1>4. ASSUME NEW k \in 1..n, k - 1 \in Good PROVE k \in Good
  <2>1. PICK b \in Nat : \A i \in 1..(k - 1) : f[i] <= b
    BY <1>4
  <2>2. f[k] \in Nat /\ k \in 0..n
    BY <1>0
  <2>3. ASSUME NEW i \in 1..k PROVE f[i] <= b + f[k]
    <3>1. i = k \/ i \in 1..(k - 1)
      OBVIOUS
    <3>2. f[i] \in Nat
      <4>1. i \in 1..n
        OBVIOUS
      <4> QED BY <1>0, <4>1
    <3> QED BY <2>1, <2>2, <3>1, <3>2
  <2>4. b + f[k] \in Nat
    BY <2>2
  <2> QED BY <2>2, <2>3, <2>4
<1>5. n \in Good
  <2>1. \A k \in 1..n : k - 1 \in Good => k \in Good
    BY <1>4
  <2> HIDE DEF Good
  <2>2. \A k \in 0..n : k \in Good
    BY <1>3, <2>1, UpTo
  <2> QED BY <2>2
<1> DEFINE Bounds == {b \in Nat : \A y \in S : y <= b}
<1>6. Bounds # {}
  <2>1. PICK b \in Nat : \A i \in 1..n : f[i] <= b
    BY <1>5
  <2>2. \A y \in S : y <= b
    BY <1>2, <2>1
  <2> QED BY <2>2
<1>7. PICK m \in Bounds : \A b \in Bounds : m <= b
  <2>1. Bounds \in SUBSET Nat
    OBVIOUS
  <2> HIDE DEF Bounds
  <2> QED BY <1>6, <2>1, NatMinimum
<1>8. m \in S
  <2> SUFFICES ASSUME m \notin S PROVE FALSE
    OBVIOUS
  <2>1. PICK y \in S : TRUE
    OBVIOUS
  <2>2. m \in Nat /\ \A z \in S : z <= m /\ z # m /\ z \in Nat
    OBVIOUS
  <2>3. m - 1 \in Nat
    BY <2>1, <2>2
  <2>4. \A z \in S : z <= m - 1
    BY <2>2
  <2>5. m - 1 \in Bounds
    BY <2>3, <2>4
  <2>6. m <= m - 1
    BY <1>7, <2>5
  <2> QED BY <2>2, <2>6
<1>9. \E x \in S : \A y \in S : x >= y
  BY <1>7, <1>8
<1>10. Max(S) \in S /\ \A y \in S : Max(S) >= y
  BY <1>9 DEF Max
<1> QED BY <1>10

(* The values of a function on a finite set.                               *)
LEMMA ImageIsFinite ==
  ASSUME NEW S, IsFiniteSet(S), NEW f, DOMAIN f = S
  PROVE  IsFiniteSet({f[x] : x \in S})
<1>1. [x \in S |-> f[x]] \in Surjection(S, {f[x] : x \in S})
  BY Fun_IsSurj
<1> QED BY <1>1, FS_Surjection

LEMMA RangeIsFinite ==
  ASSUME NEW T, NEW q \in Seq(T)
  PROVE  IsFiniteSet(Range(q)) /\ Range(q) \subseteq T
<1>1. Len(q) \in Nat /\ DOMAIN q = 1..Len(q) /\ q \in [1..Len(q) -> T]
  OBVIOUS
<1>2. IsFiniteSet(1..Len(q))
  BY <1>1, FS_Interval
<1>3. q \in Surjection(1..Len(q), Range(q))
  BY <1>1 DEF Surjection, Range
<1> QED BY <1>1, <1>2, <1>3, FS_Surjection DEF Range

LEMMA AppendFacts ==
  ASSUME NEW T, NEW q \in Seq(T), NEW e \in T
  PROVE  /\ Append(q, e) \in Seq(T) /\ Len(Append(q, e)) = Len(q) + 1
         /\ Range(Append(q, e)) = Range(q) \cup {e}
         /\ Append(q, e)[Len(q) + 1] = e
         /\ \A i \in 1..Len(q) : Append(q, e)[i] = q[i]
         /\ Front(Append(q, e)) = q /\ Last(Append(q, e)) = e
<1>1. /\ Append(q, e) \in Seq(T) /\ Len(Append(q, e)) = Len(q) + 1
      /\ Append(q, e)[Len(q) + 1] = e
      /\ \A i \in 1..Len(q) : Append(q, e)[i] = q[i]
      /\ Len(q) \in Nat
  OBVIOUS
<1>2. Range(Append(q, e)) = Range(q) \cup {e}
  <2>1. DOMAIN Append(q, e) = 1..(Len(q) + 1) /\ DOMAIN q = 1..Len(q)
    BY <1>1
  <2>2. ASSUME NEW x \in Range(Append(q, e)) PROVE x \in Range(q) \cup {e}
    BY <1>1, <2>1 DEF Range
  <2>3. ASSUME NEW x \in Range(q) PROVE x \in Range(Append(q, e))
    <3>1. PICK i \in 1..Len(q) : x = q[i]
      BY <2>1 DEF Range
    <3>2. i \in DOMAIN Append(q, e) /\ Append(q, e)[i] = x
      BY <1>1, <2>1, <3>1
    <3> QED BY <3>2 DEF Range
  <2>4. e \in Range(Append(q, e))
    BY <1>1, <2>1 DEF Range
  <2> QED BY <2>2, <2>3, <2>4
<1>3. Last(Append(q, e)) = e
  BY <1>1 DEF Last
<1>4. Front(Append(q, e)) = q
  BY <1>1 DEF Front
<1> QED BY <1>1, <1>2, <1>3, <1>4

LEMMA ConcatRange ==
  ASSUME NEW T, NEW p \in Seq(T), NEW q \in Seq(T)
  PROVE  p \o q \in Seq(T) /\ Range(p \o q) = Range(p) \cup Range(q)
<1>1. /\ p \o q \in Seq(T) /\ DOMAIN (p \o q) = 1..(Len(p) + Len(q))
      /\ Len(p) \in Nat /\ Len(q) \in Nat /\ DOMAIN p = 1..Len(p) /\ DOMAIN q = 1..Len(q)
      /\ \A i \in 1..Len(p) : (p \o q)[i] = p[i]
      /\ \A i \in 1..Len(q) : (p \o q)[Len(p) + i] = q[i]
  OBVIOUS
<1>2. ASSUME NEW x \in Range(p \o q) PROVE x \in Range(p) \cup Range(q)
  <2>1. PICK i \in 1..(Len(p) + Len(q)) : x = (p \o q)[i]
    BY <1>1 DEF Range
  <2>2. CASE i <= Len(p)
    BY <1>1, <2>1, <2>2 DEF Range
  <2>3. CASE i > Len(p)
    <3>1. i - Len(p) \in 1..Len(q) /\ (p \o q)[Len(p) + (i - Len(p))] = q[i - Len(p)]
      BY <1>1, <2>3
    <3>2. Len(p) + (i - Len(p)) = i
      BY <1>1
    <3> QED BY <1>1, <2>1, <3>1, <3>2 DEF Range
  <2> QED BY <1>1, <2>2, <2>3
<1>3. ASSUME NEW x \in Range(p) PROVE x \in Range(p \o q)
  <2>1. PICK i \in 1..Len(p) : x = p[i]
    BY <1>1 DEF Range
  <2>2. i \in 1..(Len(p) + Len(q)) /\ (p \o q)[i] = x
    BY <1>1, <2>1
  <2> QED BY <1>1, <2>2 DEF Range
<1>4. ASSUME NEW x \in Range(q) PROVE x \in Range(p \o q)
  <2>1. PICK i \in 1..Len(q) : x = q[i]
    BY <1>1 DEF Range
  <2>2. Len(p) + i \in 1..(Len(p) + Len(q)) /\ (p \o q)[Len(p) + i] = x
    BY <1>1, <2>1
  <2> QED BY <1>1, <2>2 DEF Range
<1> QED BY <1>1, <1>2, <1>3, <1>4

LEMMA PrefixRange ==
  ASSUME NEW T, NEW p \in Seq(T), NEW q \in Seq(T), IsPrefix(p, q)
  PROVE  Range(p) \subseteq Range(q)
<1>1. /\ Len(p) \in Nat /\ Len(q) \in Nat /\ DOMAIN p = 1..Len(p) /\ DOMAIN q = 1..Len(q)
      /\ Len(p) <= Len(q) /\ SubSeq(p, 1, Len(p)) = SubSeq(q, 1, Len(p))
  BY DEF IsPrefix
<1>2. ASSUME NEW i \in 1..Len(p) PROVE p[i] = q[i] /\ i \in 1..Len(q)
  <2>1. SubSeq(p, 1, Len(p))[i] = p[i] /\ SubSeq(q, 1, Len(p))[i] = q[i]
    BY <1>1
  <2> QED BY <1>1, <2>1
<1> QED BY <1>1, <1>2 DEF Range

LEMMA TailRange ==
  ASSUME NEW T, NEW q \in Seq(T), q # <<>>
  PROVE  /\ Head(q) \in T /\ Tail(q) \in Seq(T) /\ Head(q) = q[1] /\ 1 \in DOMAIN q
         /\ Range(q) = {Head(q)} \cup Range(Tail(q))
         /\ \A i \in DOMAIN Tail(q) : i + 1 \in DOMAIN q /\ Tail(q)[i] = q[i + 1]
<1>1. /\ Len(q) \in Nat \ {0} /\ DOMAIN q = 1..Len(q) /\ Head(q) = q[1] /\ Head(q) \in T
      /\ Tail(q) \in Seq(T) /\ DOMAIN Tail(q) = 1..(Len(q) - 1)
      /\ \A i \in 1..(Len(q) - 1) : Tail(q)[i] = q[i + 1]
  OBVIOUS
<1>2. \A i \in DOMAIN Tail(q) : i + 1 \in DOMAIN q /\ Tail(q)[i] = q[i + 1]
  BY <1>1
<1>3. ASSUME NEW x \in Range(q) PROVE x \in {Head(q)} \cup Range(Tail(q))
  <2>1. PICK i \in 1..Len(q) : x = q[i]
    BY <1>1 DEF Range
  <2>2. CASE i = 1
    BY <1>1, <2>1, <2>2
  <2>3. CASE i # 1
    <3>1. i - 1 \in 1..(Len(q) - 1) /\ (i - 1) + 1 = i
      BY <1>1, <2>3
    <3>2. Tail(q)[i - 1] = x
      BY <1>1, <2>1, <3>1
    <3> QED BY <1>1, <3>1, <3>2 DEF Range
  <2> QED BY <2>2, <2>3
<1>4. {Head(q)} \cup Range(Tail(q)) \subseteq Range(q)
  BY <1>1, <1>2 DEF Range
<1> QED BY <1>1, <1>2, <1>3, <1>4
=============================================================================
