--------------------------- MODULE VerdictProofs ---------------------------
(***************************************************************************)
(* What the correction of the p-values computes and what a GO rests on,    *)
(* for all scores, p-values, ablations and controls, wherever the budget   *)
(* cuts the confirmation and the ablations.                                *)
(***************************************************************************)
EXTENDS Verdict, FiniteSetTheorems, TLAPS

-----------------------------------------------------------------------------
(* Least and greatest *)

(* The naturals are well founded.                                          *)
LEMMA NatWellFounded == IsWellFoundedOn({q \in Nat \X Nat : q[1] < q[2]}, Nat)
  BY NatLessThanWellFounded, Zenon DEF OpToRel

(* Every set of naturals that is not empty has a least element.            *)
LEMMA LeastNumber ==
  ASSUME NEW T, T \subseteq Nat, T # {}
  PROVE  \E m \in T : \A n \in T : m <= n
<1> DEFINE R == {q \in Nat \X Nat : q[1] < q[2]}
<1>1. PICK m \in T : \A n \in T : <<n, m>> \notin R
  BY NatWellFounded, WFMin
<1>2. \A n \in T : ~(n < m)
  BY <1>1
<1> QED BY <1>2

(* Induction over the naturals, for a set of them.                         *)
LEMMA Induction ==
  ASSUME NEW T, 0 \in T, \A n \in Nat : n \in T => n + 1 \in T
  PROVE  Nat \subseteq T
<1> SUFFICES ASSUME Nat \ T # {} PROVE FALSE
  OBVIOUS
<1>1. PICK m \in Nat \ T : \A n \in Nat \ T : m <= n
  BY LeastNumber
<1>2. m # 0 /\ m - 1 \in Nat /\ m - 1 \in T
  BY <1>1
<1>3. (m - 1) + 1 = m
  BY <1>1
<1> QED BY <1>1, <1>2, <1>3

(* Of finitely many positions one has the greatest value.                  *)
LEMMA GreatestValue ==
  ASSUME NEW n \in Nat, NEW f, \A i \in 1 .. n : f[i] \in Int,
         NEW S \in SUBSET (1 .. n), S # {}
  PROVE  \E t \in S : \A u \in S : f[u] <= f[t]
<1> DEFINE Has(A) == \E t \in A : \A u \in A : f[u] <= f[t]
           T == {k \in Nat : \A A \in SUBSET (1 .. n) :
                               A \subseteq 1 .. k /\ A # {} => Has(A)}
<1>1. 0 \in T
  <2>1. 1 .. 0 = {}
    OBVIOUS
  <2>2. QED BY <2>1
<1>2. ASSUME NEW k \in Nat, k \in T PROVE k + 1 \in T
  <2>1. ASSUME NEW A \in SUBSET (1 .. n), A \subseteq 1 .. k + 1, A # {}
        PROVE  Has(A)
    <3> DEFINE B == A \ {k + 1}
    <3>1. B \in SUBSET (1 .. n) /\ B \subseteq 1 .. k
      BY <2>1
    <3>2. CASE B = {}
      <4>1. A = {k + 1} /\ f[k + 1] \in Int
        BY <2>1, <3>2
      <4>2. QED BY <4>1
    <3>3. CASE B # {}
      <4>1. PICK t \in B : \A u \in B : f[u] <= f[t]
        BY <1>2, <3>1, <3>3
      <4>2. CASE k + 1 \in A /\ f[t] < f[k + 1]
        <5>1. \A u \in A : f[u] \in Int /\ f[t] \in Int
          BY <2>1, <4>1
        <5>2. \A u \in A : f[u] <= f[k + 1]
          BY <4>1, <4>2, <5>1
        <5>3. QED BY <4>2, <5>2
      <4>3. CASE ~(k + 1 \in A /\ f[t] < f[k + 1])
        <5>1. \A u \in A : f[u] \in Int /\ f[t] \in Int
          BY <2>1, <4>1
        <5>2. \A u \in A : f[u] <= f[t]
          BY <4>1, <4>3, <5>1
        <5>3. QED BY <4>1, <5>2
      <4>4. QED BY <4>2, <4>3
    <3>4. QED BY <3>2, <3>3
  <2>2. QED BY <2>1
<1> HIDE DEF T
<1>3. n \in T
  BY <1>1, <1>2, Induction
<1>4. QED BY <1>3 DEF T

-----------------------------------------------------------------------------
(* The order of the p-values *)

(* j comes before i in the stable sort, or is i.                           *)
Before(ps, j, i) == ps[j] < ps[i] \/ (ps[j] = ps[i] /\ j <= i)

(* Rank counts what comes before.                                          *)
LEMMA RankCounts ==
  ASSUME NEW m \in Nat, NEW ps \in [1 .. m -> Nat], NEW i \in 1 .. m
  PROVE  /\ Rank(ps, i) = Cardinality({j \in 1 .. m : Before(ps, j, i)})
         /\ IsFiniteSet({j \in 1 .. m : Before(ps, j, i)})
         /\ Rank(ps, i) \in 1 .. m
<1> DEFINE B == {j \in 1 .. m : Before(ps, j, i)}
<1>1. Rank(ps, i) = Cardinality(B)
  BY DEF Rank, Before
<1>2. IsFiniteSet(1 .. m) /\ Cardinality(1 .. m) = m
  BY FS_Interval
<1>3. IsFiniteSet(B) /\ Cardinality(B) <= m
  BY <1>2, FS_Subset
<1>4. Cardinality(B) \in Nat
  BY <1>3, FS_CardinalityType
<1>5. i \in B
  BY DEF Before
<1>6. Cardinality(B) # 0
  BY <1>3, <1>5, FS_EmptySet
<1> HIDE DEF B
<1>7. Rank(ps, i) \in 1 .. m
  BY <1>1, <1>3, <1>4, <1>6
<1>8. QED BY <1>1, <1>3, <1>7 DEF B

(* Ranks are in the order of the sort.                                     *)
LEMMA RankOrders ==
  ASSUME NEW m \in Nat, NEW ps \in [1 .. m -> Nat], NEW i \in 1 .. m, NEW j \in 1 .. m
  PROVE  /\ Before(ps, j, i) => Rank(ps, j) <= Rank(ps, i)
         /\ Before(ps, j, i) /\ j # i => Rank(ps, j) < Rank(ps, i)
         /\ Before(ps, i, j) \/ Before(ps, j, i)
<1> DEFINE B(x) == {k \in 1 .. m : Before(ps, k, x)}
<1>0. ASSUME NEW x \in 1 .. m
      PROVE  /\ Rank(ps, x) = Cardinality(B(x)) /\ Rank(ps, x) \in Nat
             /\ IsFiniteSet(B(x))
  <2>1. /\ Rank(ps, x) = Cardinality(B(x)) /\ Rank(ps, x) \in 1 .. m
        /\ IsFiniteSet(B(x))
    BY RankCounts, Zenon
  <2> HIDE DEF B
  <2>2. QED BY <2>1
<1>1. Before(ps, i, j) \/ Before(ps, j, i)
  BY DEF Before
<1>2. ASSUME Before(ps, j, i), j # i PROVE Rank(ps, j) < Rank(ps, i)
  <2>1. B(j) \subseteq B(i)
    BY <1>2 DEF Before
  <2>2. i \in B(i) /\ i \notin B(j)
    BY <1>2 DEF Before
  <2>3. /\ Rank(ps, j) = Cardinality(B(j)) /\ Rank(ps, i) = Cardinality(B(i))
        /\ Rank(ps, j) \in Nat /\ Rank(ps, i) \in Nat /\ IsFiniteSet(B(i))
    BY <1>0
  <2>4. Cardinality(B(j)) <= Cardinality(B(i)) /\ Cardinality(B(j)) # Cardinality(B(i))
    <3> HIDE DEF B
    <3>1. QED BY <2>1, <2>2, <2>3, FS_Subset
  <2> HIDE DEF B
  <2>5. QED BY <2>3, <2>4
<1>3. Rank(ps, i) \in Nat /\ Rank(ps, j) \in Nat
  BY <1>0
<1>4. QED BY <1>1, <1>2, <1>3

(* Every rank is taken once.                                               *)
LEMMA RanksAreTaken ==
  ASSUME NEW m \in Nat, NEW ps \in [1 .. m -> Nat]
  PROVE  /\ \A r \in 1 .. m : AtRank(ps, r) \in 1 .. m /\ Rank(ps, AtRank(ps, r)) = r
         /\ \A i \in 1 .. m : AtRank(ps, Rank(ps, i)) = i
<1> DEFINE f == [i \in 1 .. m |-> Rank(ps, i)]
<1>1. \A i, j \in 1 .. m : Rank(ps, i) = Rank(ps, j) => i = j
  <2>1. SUFFICES ASSUME NEW i \in 1 .. m, NEW j \in 1 .. m, i # j
                 PROVE  Rank(ps, i) # Rank(ps, j)
    OBVIOUS
  <2>2. /\ Rank(ps, i) \in Nat /\ Rank(ps, j) \in Nat
        /\ Rank(ps, i) < Rank(ps, j) \/ Rank(ps, j) < Rank(ps, i)
    <3>1. Rank(ps, i) \in 1 .. m /\ Rank(ps, j) \in 1 .. m
      BY RankCounts, Zenon
    <3>2. Rank(ps, i) < Rank(ps, j) \/ Rank(ps, j) < Rank(ps, i)
      BY <2>1, RankOrders, Zenon
    <3>3. QED BY <3>1, <3>2
  <2>3. QED BY <2>2
<1>2. f \in Injection(1 .. m, 1 .. m)
  <2>1. f \in [1 .. m -> 1 .. m]
    BY RankCounts
  <2>2. QED BY <1>1, <2>1 DEF Injection, IsInjective
<1>3. IsFiniteSet(1 .. m)
  BY FS_Interval
<1>4. f \in Surjection(1 .. m, 1 .. m)
  <2> HIDE DEF f
  <2>1. QED BY <1>2, <1>3, FS_Injection
<1>5. \A r \in 1 .. m : \E i \in 1 .. m : Rank(ps, i) = r
  BY <1>4 DEF Surjection
<1>6. ASSUME NEW r \in 1 .. m
      PROVE  AtRank(ps, r) \in 1 .. m /\ Rank(ps, AtRank(ps, r)) = r
  <2>1. DOMAIN ps = 1 .. m
    OBVIOUS
  <2>2. AtRank(ps, r) = CHOOSE i \in 1 .. m : Rank(ps, i) = r
    BY <2>1 DEF AtRank
  <2>3. QED BY <1>5, <2>2
<1>7. ASSUME NEW i \in 1 .. m PROVE AtRank(ps, Rank(ps, i)) = i
  BY <1>1, <1>6, RankCounts
<1>8. QED BY <1>6, <1>7

(* The last of some tied p-values has as many before it as are no greater. *)
LEMMA LastOfTied ==
  ASSUME NEW m \in Nat, NEW ps \in [1 .. m -> Nat], NEW j \in 1 .. m
  PROVE  \E l \in 1 .. m :
           /\ ps[l] = ps[j]
           /\ Rank(ps, l) = Cardinality({k \in 1 .. m : ps[k] <= ps[j]})
           /\ \A i \in 1 .. m : ps[i] <= ps[j] => Before(ps, i, l)
<1> DEFINE Tied == {k \in 1 .. m : ps[k] = ps[j]}
           f == [k \in 1 .. m |-> k]
<1>1. PICK l \in Tied : \A k \in Tied : f[k] <= f[l]
  <2>1. \A k \in 1 .. m : f[k] \in Int
    OBVIOUS
  <2>2. Tied \in SUBSET (1 .. m) /\ Tied # {}
    OBVIOUS
  <2> HIDE DEF f, Tied
  <2>3. QED BY <2>1, <2>2, GreatestValue
<1>2. \A k \in 1 .. m : ps[k] <= ps[j] <=> Before(ps, k, l)
  BY <1>1 DEF Before
<1>3. {k \in 1 .. m : ps[k] <= ps[j]} = {k \in 1 .. m : Before(ps, k, l)}
  BY <1>2
<1>4. Rank(ps, l) = Cardinality({k \in 1 .. m : Before(ps, k, l)})
  BY <1>1, RankCounts
<1>5. QED BY <1>1, <1>2, <1>3, <1>4

(* A p-value has no rank above the number of those that are no greater.    *)
LEMMA RankUnderCount ==
  ASSUME NEW m \in Nat, NEW ps \in [1 .. m -> Nat], NEW j \in 1 .. m
  PROVE  /\ Rank(ps, j) <= Cardinality({k \in 1 .. m : ps[k] <= ps[j]})
         /\ Cardinality({k \in 1 .. m : ps[k] <= ps[j]}) \in 1 .. m
<1>1. PICK l \in 1 .. m :
        /\ Rank(ps, l) = Cardinality({k \in 1 .. m : ps[k] <= ps[j]})
        /\ \A i \in 1 .. m : ps[i] <= ps[j] => Before(ps, i, l)
  BY LastOfTied, Zenon
<1>2. ps[j] <= ps[j]
  OBVIOUS
<1>3. Before(ps, j, l)
  BY <1>1, <1>2
<1>4. Rank(ps, j) <= Rank(ps, l)
  BY <1>3, RankOrders, Zenon
<1>5. Rank(ps, l) \in 1 .. m
  BY RankCounts, Zenon
<1>6. QED BY <1>1, <1>4, <1>5, Zenon

-----------------------------------------------------------------------------
(* The running minimum *)

(* g is the running minimum of s from m down.                              *)
RunsDown(g, s, m) ==
  g = [r \in 1 .. m |-> IF r = m THEN s[m] ELSE Lower(s[r], g[r + 1])]

(* There is one: the least of what is still to come.                       *)
LEMMA RunningMinExists ==
  ASSUME NEW m \in Nat, NEW s \in [1 .. m -> Nat]
  PROVE  \E g : RunsDown(g, s, m)
<1> DEFINE Tail(r) == {s[q] : q \in r .. m}
           Least(T) == CHOOSE v \in T : \A w \in T : v <= w
           g == [r \in 1 .. m |-> Least(Tail(r))]
<1>1. ASSUME NEW r \in 1 .. m
      PROVE  /\ Least(Tail(r)) \in Tail(r) /\ Tail(r) \subseteq Nat
             /\ \A v \in Tail(r) : Least(Tail(r)) <= v
  <2>1. \A q \in r .. m : s[q] \in Nat
    OBVIOUS
  <2>2. r \in r .. m
    OBVIOUS
  <2>3. Tail(r) \subseteq Nat /\ Tail(r) # {}
    BY <2>1, <2>2
  <2> HIDE DEF Tail
  <2>4. \E v \in Tail(r) : \A w \in Tail(r) : v <= w
    BY <2>3, LeastNumber
  <2>5. QED BY <2>3, <2>4
<1>2. ASSUME NEW r \in 1 .. m
      PROVE  g[r] = IF r = m THEN s[m] ELSE Lower(s[r], g[r + 1])
  <2>1. CASE r = m
    <3>1. r .. m = {m}
      BY <2>1
    <3>2. Tail(r) = {s[m]}
      BY <3>1
    <3>3. g[r] = Least(Tail(r))
      OBVIOUS
    <3> HIDE DEF g, Least, Tail
    <3>4. QED BY <1>1, <2>1, <3>2, <3>3
  <2>2. CASE r # m
    <3>1. r + 1 \in 1 .. m /\ r .. m = {r} \cup (r + 1 .. m)
      BY <2>2
    <3>2. Tail(r) = {s[r]} \cup Tail(r + 1)
      BY <3>1
    <3>3. g[r] = Least(Tail(r)) /\ g[r + 1] = Least(Tail(r + 1))
      BY <3>1
    <3> HIDE DEF g, Least, Tail
    <3>4. /\ g[r + 1] \in Tail(r + 1) /\ \A v \in Tail(r + 1) : g[r + 1] <= v
          /\ g[r] \in Tail(r) /\ \A v \in Tail(r) : g[r] <= v
          /\ Tail(r) \subseteq Nat
      BY <1>1, <3>1, <3>3
    <3>5. /\ g[r] <= s[r] /\ g[r] <= g[r + 1]
          /\ g[r] = s[r] \/ g[r + 1] <= g[r]
          /\ g[r] \in Nat /\ s[r] \in Nat /\ g[r + 1] \in Nat
      BY <3>2, <3>4
    <3>6. QED BY <2>2, <3>5 DEF Lower
  <2>3. QED BY <2>1, <2>2
<1>3. g = [r \in 1 .. m |-> IF r = m THEN s[m] ELSE Lower(s[r], g[r + 1])]
  <2>1. g = [r \in 1 .. m |-> g[r]]
    <3> HIDE DEF Least, Tail
    <3>1. QED OBVIOUS
  <2> HIDE DEF g
  <2>2. QED BY <1>2, <2>1
<1>4. QED BY <1>3 DEF RunsDown

(* It is at most a where something still to come is.                       *)
LEMMA RunningMinBounds ==
  ASSUME NEW m \in Nat, NEW s \in [1 .. m -> Nat], NEW g, RunsDown(g, s, m),
         NEW a \in Nat, NEW r \in 1 .. m
  PROVE  g[r] <= a <=> \E q \in r .. m : s[q] <= a
<1> DEFINE Fine(x) == g[x] \in Nat /\ (g[x] <= a <=> \E q \in x .. m : s[q] <= a)
           Bad == {d \in Nat : d < m /\ ~Fine(m - d)}
<1>1. \A x \in 1 .. m : g[x] = IF x = m THEN s[m] ELSE Lower(s[x], g[x + 1])
  BY DEF RunsDown
<1>2. ASSUME NEW x \in 1 .. m, x # m => Fine(x + 1) PROVE Fine(x)
  <2>1. CASE x = m
    <3>1. x .. m = {m} /\ g[x] = s[m]
      BY <1>1, <2>1
    <3>2. s[m] \in Nat
      BY <2>1
    <3>3. QED BY <3>1, <3>2
  <2>2. CASE x # m
    <3>1. x .. m = {x} \cup (x + 1 .. m) /\ x + 1 \in 1 .. m
      BY <2>2
    <3>2. g[x] = Lower(s[x], g[x + 1])
      BY <1>1, <2>2
    <3>3. s[x] \in Nat /\ g[x + 1] \in Nat
      BY <1>2, <2>2
    <3>4. g[x] \in Nat /\ (g[x] <= a <=> s[x] <= a \/ g[x + 1] <= a)
      BY <3>2, <3>3 DEF Lower
    <3>5. QED BY <1>2, <2>2, <3>1, <3>4
  <2>3. QED BY <2>1, <2>2
<1> HIDE DEF Fine
<1>3. Bad = {}
  <2>1. SUFFICES ASSUME Bad # {} PROVE FALSE
    OBVIOUS
  <2>2. PICK d \in Bad : \A e \in Bad : d <= e
    BY <2>1, LeastNumber
  <2>3. d \in Nat /\ d < m /\ ~Fine(m - d)
    BY <2>2
  <2>4. m - d \in 1 .. m
    BY <2>3
  <2>5. CASE d = 0
    BY <1>2, <2>3, <2>4, <2>5
  <2>6. CASE d # 0
    <3>1. d - 1 \in Nat /\ d - 1 < m /\ d - 1 \notin Bad
      BY <2>2, <2>3, <2>6
    <3>2. Fine(m - (d - 1))
      BY <3>1
    <3>3. m - (d - 1) = (m - d) + 1
      BY <2>3
    <3>4. Fine((m - d) + 1)
      BY <3>2, <3>3
    <3>5. QED BY <1>2, <2>3, <2>4, <3>4
  <2>7. QED BY <2>5, <2>6
<1>4. Fine(r)
  <2>1. m - r \in Nat /\ m - r < m /\ m - (m - r) = r
    OBVIOUS
  <2>2. QED BY <1>3, <2>1
<1>5. QED BY <1>4 DEF Fine

-----------------------------------------------------------------------------
(* Products *)

LEMMA ProductOfNat == \A x, y \in Nat : x * y \in Nat
  OBVIOUS

LEMMA ProductOrder ==
  ASSUME NEW x \in Nat, NEW y \in Nat, NEW k \in Nat
  PROVE  x <= y => x * k <= y * k
  OBVIOUS

LEMMA ProductCancel ==
  ASSUME NEW x \in Nat, NEW y \in Nat, NEW k \in Nat \ {0}
  PROVE  k * x <= k * y <=> x <= y
<1>1. CASE x <= y
  BY <1>1
<1>2. CASE y + 1 <= x
  <2>1. k * (y + 1) <= k * x
    BY <1>2
  <2>2. k * (y + 1) = k * y + k
    OBVIOUS
  <2>3. QED BY <1>2, <2>1, <2>2
<1>3. QED BY <1>1, <1>2

(* Without a remainder a quotient compares as a product does.              *)
LEMMA DivideWhole ==
  ASSUME NEW x \in Nat, NEW M \in Nat, NEW r \in Nat \ {0}, M % r = 0, NEW a \in Nat
  PROVE  /\ (x * M) \div r \in Nat
         /\ (x * M) \div r <= a <=> x * M <= a * r
<1>1. PICK k \in Nat : M = r * k
  <2>1. M = r * (M \div r) + (M % r) /\ M \div r \in Nat
    OBVIOUS
  <2>2. QED BY <2>1
<1>2. x * k \in Nat /\ x * M = r * (x * k)
  BY <1>1
<1>3. \A y \in Nat : (r * y) \div r = y
  OBVIOUS
<1>4. (x * M) \div r = x * k
  BY <1>2, <1>3
<1>5. r * (x * k) <= r * a <=> x * k <= a
  BY <1>2, ProductCancel
<1>6. r * a = a * r
  OBVIOUS
<1>7. QED BY <1>2, <1>4, <1>5, <1>6

-----------------------------------------------------------------------------
(* benjamini_hochberg_adjust *)

(* The p-values no greater than that of j.                                 *)
UpTo(ps, j) == {k \in DOMAIN ps : ps[k] <= ps[j]}

(* j and the p-values up to it meet the level a of the step-up procedure.  *)
Meets(ps, j, a) ==
  ps[j] * Multiple * Cardinality(DOMAIN ps) <= a * Cardinality(UpTo(ps, j))

LEMMA Constants ==
  /\ TopK \in Nat \ {0} /\ One \in Nat \ {0} /\ Multiple \in Nat \ {0}
  /\ One * Multiple \in Nat
  /\ \A r \in 1 .. TopK : Multiple % r = 0
<1>1. TopK \in Nat \ {0} /\ One \in Nat \ {0} /\ Multiple \in Nat \ {0}
  BY VerdictAssumption
<1>2. \A r \in 1 .. TopK : Multiple % r = 0
  BY VerdictAssumption
<1>3. One * Multiple \in Nat
  BY <1>1, ProductOfNat
<1>4. QED BY <1>1, <1>2, <1>3

LEMMA Family ==
  ASSUME NEW m \in Nat \ {0}, NEW ps \in [1 .. m -> 1 .. One]
  PROVE  /\ ps \in [1 .. m -> Nat] /\ DOMAIN ps = 1 .. m
         /\ Cardinality(DOMAIN ps) = m
<1>1. DOMAIN ps = 1 .. m /\ ps \in [1 .. m -> Nat]
  BY Constants
<1>2. Cardinality(1 .. m) = m
  BY FS_Interval
<1>3. QED BY <1>1, <1>2

(* The level at which the p-value of rank r is rejected by itself.         *)
LEMMA ScaledBounds ==
  ASSUME NEW m \in Nat \ {0}, m <= TopK, NEW ps \in [1 .. m -> 1 .. One],
         NEW a \in 0 .. One * Multiple, NEW r \in 1 .. m
  PROVE  /\ Scaled(ps, r) \in Nat
         /\ Scaled(ps, r) <= a
              <=> a = One * Multiple \/ (ps[AtRank(ps, r)] * m) * Multiple <= a * r
<1> DEFINE v == ps[AtRank(ps, r)] * m
           whole == One * Multiple
           q == (v * Multiple) \div r
<1>1. AtRank(ps, r) \in 1 .. m
  BY Family, RanksAreTaken
<1>2. ps[AtRank(ps, r)] \in Nat
  BY <1>1, Family
<1>3. v \in Nat
  BY <1>2, ProductOfNat
<1>4. r \in Nat \ {0} /\ r \in 1 .. TopK /\ a \in Nat /\ a <= whole /\ whole \in Nat
  BY Constants
<1>5. Multiple \in Nat /\ Multiple % r = 0
  BY <1>4, Constants
<1>6. Scaled(ps, r) = Lower(whole, q)
  BY Family DEF Scaled
<1> HIDE DEF v
<1>7. q \in Nat /\ (q <= a <=> v * Multiple <= a * r)
  BY <1>3, <1>4, <1>5, DivideWhole
<1> HIDE DEF q, whole
<1>8. Lower(whole, q) \in Nat /\ (Lower(whole, q) <= a <=> a = whole \/ q <= a)
  BY <1>4, <1>7 DEF Lower
<1>9. QED BY <1>6, <1>7, <1>8 DEF v, whole

(* What is adjusted is the running minimum at the rank.                    *)
LEMMA AdjustBounds ==
  ASSUME NEW m \in Nat \ {0}, m <= TopK, NEW ps \in [1 .. m -> 1 .. One],
         NEW a \in 0 .. One * Multiple, NEW i \in 1 .. m
  PROVE  Adjust(ps)[i] <= a <=> \E r \in Rank(ps, i) .. m : Scaled(ps, r) <= a
<1> DEFINE s == [r \in 1 .. m |-> Scaled(ps, r)]
           Runs(g) == g = [r \in 1 .. m |->
                             IF r = m THEN Scaled(ps, m)
                             ELSE Lower(Scaled(ps, r), g[r + 1])]
           RunningMin == CHOOSE g : Runs(g)
<1>1. DOMAIN ps = 1 .. m /\ Cardinality(DOMAIN ps) = m
  BY Family, Zenon
<1>2. Adjust(ps) = [x \in 1 .. m |-> RunningMin[Rank(ps, x)]]
  <2> DEFINE R(n) == CHOOSE g : g = [r \in 1 .. n |->
                                       IF r = n THEN Scaled(ps, n)
                                       ELSE Lower(Scaled(ps, r), g[r + 1])]
  <2>1. Adjust(ps) = [x \in DOMAIN ps |-> R(Cardinality(DOMAIN ps))[Rank(ps, x)]]
    BY Zenon DEF Adjust
  <2>2. R(m) = RunningMin
    OBVIOUS
  <2> HIDE DEF R, RunningMin
  <2>3. QED BY <1>1, <2>1, <2>2
<1>3. s \in [1 .. m -> Nat]
  BY ScaledBounds
<1>4. \A g : RunsDown(g, s, m) <=> Runs(g)
  BY DEF RunsDown
<1> HIDE DEF Runs
<1>5. \E g : Runs(g)
  <2>1. \E g : RunsDown(g, s, m)
    <3> HIDE DEF s
    <3>1. QED BY <1>3, RunningMinExists
  <2>2. QED BY <2>1, <1>4
<1>6. RunsDown(RunningMin, s, m)
  BY <1>4, <1>5
<1>7. Rank(ps, i) \in 1 .. m
  BY Family, RankCounts
<1>8. RunningMin[Rank(ps, i)] <= a <=> \E r \in Rank(ps, i) .. m : s[r] <= a
  <2>1. a \in Nat
    BY Constants
  <2> HIDE DEF s, RunningMin
  <2>2. QED BY <1>3, <1>6, <1>7, <2>1, RunningMinBounds
<1>9. \A r \in Rank(ps, i) .. m : s[r] = Scaled(ps, r)
  BY <1>7
<1> HIDE DEF s, RunningMin
<1>10. QED BY <1>2, <1>8, <1>9

(* At the level of the value 1 everything is rejected.                     *)
LEMMA AllAtTheTop ==
  ASSUME NEW m \in Nat \ {0}, NEW ps \in [1 .. m -> 1 .. One], NEW i \in 1 .. m
  PROVE  \E j \in 1 .. m : ps[i] <= ps[j] /\ Meets(ps, j, One * Multiple)
<1>1. \A k \in 1 .. m : ps[k] \in Int
  BY Constants
<1>2. PICK j \in 1 .. m : \A k \in 1 .. m : ps[k] <= ps[j]
  <2>1. 1 .. m \in SUBSET (1 .. m) /\ 1 .. m # {}
    OBVIOUS
  <2>2. QED BY <1>1, <2>1, GreatestValue
<1>3. UpTo(ps, j) = DOMAIN ps
  BY <1>2, Family DEF UpTo
<1>4. Cardinality(DOMAIN ps) = m
  BY Family
<1>5. ps[j] \in Nat /\ ps[j] <= One /\ One \in Nat /\ Multiple \in Nat
  BY Constants
<1>6. ps[j] * Multiple <= One * Multiple
  BY <1>5, ProductOrder
<1>7. ps[j] * Multiple \in Nat /\ One * Multiple \in Nat
  BY <1>5, ProductOfNat
<1>8. ps[j] * Multiple * m <= One * Multiple * m
  BY <1>6, <1>7, ProductOrder
<1>9. QED BY <1>2, <1>3, <1>4, <1>8 DEF Meets

(* The adjusted p-values reject what the step-up procedure rejects.        *)
LEMMA AdjustStepsUp ==
  ASSUME NEW m \in Nat \ {0}, m <= TopK, NEW ps \in [1 .. m -> 1 .. One],
         NEW a \in 0 .. One * Multiple, NEW i \in 1 .. m
  PROVE  Adjust(ps)[i] <= a <=> \E j \in 1 .. m : ps[i] <= ps[j] /\ Meets(ps, j, a)
<1>1. /\ ps \in [1 .. m -> Nat] /\ DOMAIN ps = 1 .. m
      /\ Cardinality(DOMAIN ps) = m
  BY Family
<1>2. a \in Nat /\ Multiple \in Nat
  BY Constants
<1>3. ASSUME NEW j \in 1 .. m, NEW r \in Nat
      PROVE  (ps[j] * m) * Multiple <= a * r <=> ps[j] * Multiple * m <= a * r
  <2>1. ps[j] \in Nat
    BY <1>1
  <2>2. (ps[j] * m) * Multiple = ps[j] * Multiple * m
    BY <1>2, <2>1
  <2>3. QED BY <2>2
<1>4. ASSUME NEW r \in Rank(ps, i) .. m, Scaled(ps, r) <= a
      PROVE  \E j \in 1 .. m : ps[i] <= ps[j] /\ Meets(ps, j, a)
  <2>1. Rank(ps, i) \in 1 .. m
    BY <1>1, RankCounts
  <2>2. r \in 1 .. m /\ Rank(ps, i) <= r
    BY <2>1
  <2>3. CASE a = One * Multiple
    BY <2>3, AllAtTheTop
  <2>4. CASE a # One * Multiple
    <3> DEFINE j == AtRank(ps, r)
    <3>1. j \in 1 .. m /\ Rank(ps, j) = r
      BY <1>1, <2>2, RanksAreTaken
    <3>2. (ps[j] * m) * Multiple <= a * r
      BY <1>4, <2>2, <2>4, ScaledBounds
    <3> HIDE DEF j
    <3>3. ps[j] * Multiple * m <= a * r
      BY <1>3, <2>2, <3>1, <3>2
    <3>4. ps[i] <= ps[j]
      <4>1. Before(ps, i, j) \/ (Before(ps, j, i) /\ j # i)
        <5>1. Before(ps, i, j) \/ Before(ps, j, i)
          BY <1>1, <3>1, RankOrders
        <5>2. QED BY <1>1, <5>1, <3>1 DEF Before
      <4>2. Before(ps, j, i) /\ j # i => r < Rank(ps, i)
        BY <1>1, <3>1, RankOrders
      <4>3. QED BY <1>1, <2>1, <2>2, <3>1, <4>1, <4>2 DEF Before
    <3>5. /\ r <= Cardinality(UpTo(ps, j)) /\ Cardinality(UpTo(ps, j)) \in Nat
      <4>1. m \in Nat /\ ps \in [1 .. m -> Nat] /\ j \in 1 .. m
        BY <1>1, <3>1
      <4>2. /\ Rank(ps, j) <= Cardinality({k \in 1 .. m : ps[k] <= ps[j]})
            /\ Cardinality({k \in 1 .. m : ps[k] <= ps[j]}) \in 1 .. m
        BY <4>1, RankUnderCount, Zenon
      <4>3. UpTo(ps, j) = {k \in 1 .. m : ps[k] <= ps[j]}
        BY <1>1, Zenon DEF UpTo
      <4>4. /\ Rank(ps, j) <= Cardinality(UpTo(ps, j))
            /\ Cardinality(UpTo(ps, j)) \in 1 .. m
        BY <4>2, <4>3, Zenon
      <4>5. QED BY <3>1, <4>4
    <3>6. r * a <= Cardinality(UpTo(ps, j)) * a
      <4> DEFINE c == Cardinality(UpTo(ps, j))
      <4>1. r \in Nat /\ c \in Nat /\ r <= c
        BY <2>2, <3>5
      <4> HIDE DEF c
      <4>2. r * a <= c * a
        BY <1>2, <4>1, ProductOrder
      <4>3. QED BY <4>2 DEF c
    <3>7. a * r <= a * Cardinality(UpTo(ps, j))
      BY <1>2, <2>2, <3>5, <3>6
    <3>8. ps[j] * Multiple * m \in Nat /\ a * r \in Nat
          /\ a * Cardinality(UpTo(ps, j)) \in Nat
      BY <1>1, <1>2, <2>2, <3>1, <3>5, ProductOfNat
    <3>9. ps[j] * Multiple * m <= a * Cardinality(UpTo(ps, j))
      BY <3>3, <3>7, <3>8
    <3>10. Meets(ps, j, a)
      BY <1>1, <3>9 DEF Meets
    <3>11. QED BY <3>1, <3>4, <3>10
  <2>5. QED BY <2>3, <2>4
<1>5. ASSUME NEW j \in 1 .. m, ps[i] <= ps[j], Meets(ps, j, a)
      PROVE  \E r \in Rank(ps, i) .. m : Scaled(ps, r) <= a
  <2>1. PICK l \in 1 .. m : /\ ps[l] = ps[j]
                            /\ Rank(ps, l) = Cardinality(UpTo(ps, j))
                            /\ Before(ps, i, l)
    BY <1>1, <1>5, LastOfTied DEF UpTo
  <2>2. /\ Rank(ps, l) \in 1 .. m /\ Rank(ps, i) \in 1 .. m
        /\ Rank(ps, i) <= Rank(ps, l)
    BY <1>1, <2>1, RankCounts, RankOrders
  <2>3. AtRank(ps, Rank(ps, l)) = l
    BY <1>1, RanksAreTaken
  <2>4. ps[l] * Multiple * m <= a * Rank(ps, l)
    BY <1>1, <1>5, <2>1 DEF Meets
  <2>5. (ps[l] * m) * Multiple <= a * Rank(ps, l)
    <3>1. Rank(ps, l) \in Nat
      BY <2>2
    <3>2. QED BY <1>3, <2>4, <3>1
  <2>6. Scaled(ps, Rank(ps, l)) <= a
    BY <2>2, <2>3, <2>5, ScaledBounds
  <2>7. QED BY <2>2, <2>6
<1>6. QED BY <1>4, <1>5, AdjustBounds

-----------------------------------------------------------------------------
(* The run *)

Stages == {"confirm", "raised", "correct", "ablate", "pilot", "done"}

TypeInv ==
  /\ score \in [1 .. TopK -> Scores]
  /\ drop \in Drops
  /\ controls \in SUBSET (1 .. TopK)
  /\ stage \in Stages
  /\ confirmed \in 0 .. TopK
  /\ stage \in {"correct", "ablate", "pilot", "done"} => confirmed # 0
  /\ ablated \in 0 .. Ablations

LEMMA AblationsIsNat == Ablations \in Nat
  BY VerdictAssumption DEF Ablations

LEMMA TypeInit == Init => TypeInv
  BY Constants, AblationsIsNat DEF Init, TypeInv, Stages

LEMMA TypeNext == TypeInv /\ [Next]_vars => TypeInv'
<1> SUFFICES ASSUME TypeInv, [Next]_vars PROVE TypeInv'
  OBVIOUS
<1> USE Constants, AblationsIsNat DEF TypeInv, Stages, data
<1>1. CASE Confirm
  BY <1>1 DEF Confirm
<1>2. CASE ConfirmEnd
  BY <1>2 DEF ConfirmEnd
<1>3. CASE Correct
  BY <1>3 DEF Correct
<1>4. CASE Ablate
  BY <1>4 DEF Ablate
<1>5. CASE Guard
  BY <1>5 DEF Guard
<1>6. CASE Pilot
  BY <1>6 DEF Pilot
<1>7. CASE UNCHANGED vars
  BY <1>7 DEF vars
<1>8. QED BY <1>1, <1>2, <1>3, <1>4, <1>5, <1>6, <1>7 DEF Next

-----------------------------------------------------------------------------
(* The corrected p-values *)

CorrectInv ==
  stage = "ablate" =>
    /\ p \in [1 .. confirmed -> 1 .. One]
    /\ Corrected => adjusted = Adjust(p)

LEMMA CorrectCorrects == TypeInv /\ Correct => CorrectInv'
<1> SUFFICES ASSUME TypeInv, Correct PROVE CorrectInv'
  OBVIOUS
<1>1. PICK ps \in PValues : p' = [s \in 1 .. confirmed |-> ps[s]]
  BY DEF Correct
<1>2. ps \in [1 .. TopK -> 1 .. One]
  BY VerdictAssumption
<1>3. 1 .. confirmed \subseteq 1 .. TopK
  BY Constants DEF TypeInv
<1>4. p' \in [1 .. confirmed -> 1 .. One] /\ confirmed' = confirmed
  BY <1>1, <1>2, <1>3 DEF Correct
<1>5. Corrected => adjusted' = Adjust(p')
  BY DEF Correct
<1>6. QED BY <1>4, <1>5 DEF CorrectInv

LEMMA CorrectNext == TypeInv /\ CorrectInv /\ [Next]_vars => CorrectInv'
<1> SUFFICES ASSUME TypeInv, CorrectInv, [Next]_vars PROVE CorrectInv'
  OBVIOUS
<1>1. CASE Correct
  BY <1>1, CorrectCorrects
<1>2. CASE Ablate
  BY <1>2 DEF Ablate, CorrectInv
<1>3. CASE Confirm \/ ConfirmEnd \/ Guard \/ Pilot
  <2>1. stage' # "ablate"
    BY <1>3 DEF Confirm, ConfirmEnd, Guard, Pilot
  <2>2. QED BY <2>1 DEF CorrectInv
<1>4. CASE UNCHANGED vars
  BY <1>4 DEF vars, CorrectInv
<1>5. QED BY <1>1, <1>2, <1>3, <1>4 DEF Next

(* At every level the correction rejects what the step-up procedure does,  *)
(* for every family of p-values, their order and ties included.            *)
THEOREM CorrectionIsStepUp == Spec => []AdjustedIsStepUp
<1>1. Init => CorrectInv
  BY DEF Init, CorrectInv
<1>2. TypeInv /\ CorrectInv => AdjustedIsStepUp
  <2> SUFFICES ASSUME TypeInv, CorrectInv, Corrected, stage = "ablate",
                      NEW a \in 0 .. One * Multiple
               PROVE  {i \in DOMAIN adjusted : adjusted[i] <= a} = StepUp(a)
    BY DEF AdjustedIsStepUp
  <2>1. confirmed \in Nat \ {0} /\ confirmed <= TopK
    BY Constants DEF TypeInv
  <2>2. p \in [1 .. confirmed -> 1 .. One] /\ adjusted = Adjust(p)
    BY DEF CorrectInv
  <2>3. DOMAIN p = 1 .. confirmed
    BY <2>2
  <2>4. DOMAIN adjusted = 1 .. confirmed
    BY <2>2, <2>3, Zenon DEF Adjust
  <2>5. ASSUME NEW i \in 1 .. confirmed
        PROVE  adjusted[i] <= a
                 <=> \E j \in 1 .. confirmed : p[i] <= p[j] /\ Meets(p, j, a)
    BY <2>1, <2>2, AdjustStepsUp
  <2>6. StepUp(a) = {i \in 1 .. confirmed :
                       \E j \in 1 .. confirmed : p[i] <= p[j] /\ Meets(p, j, a)}
    BY <2>3 DEF StepUp, Meets, UpTo
  <2>7. QED BY <2>4, <2>5, <2>6
<1>3. QED
  BY <1>1, <1>2, TypeInit, TypeNext, CorrectNext, PTL DEF Spec

-----------------------------------------------------------------------------
(* What ablations support *)

Found(done, kinds) == {drop[a] : a \in {b \in 1 .. done : Kind(b) \in kinds}}

(* A drop that counts is one of those found, and the greatest of them.     *)
LEMMA MaxDropIsGreatest ==
  ASSUME TypeInv, NEW done \in 0 .. Ablations, NEW kinds
  PROVE  /\ Found(done, kinds) # {} =>
              /\ MaxDrop(done, kinds) \in Found(done, kinds)
              /\ \A d \in Found(done, kinds) : d <= MaxDrop(done, kinds)
         /\ Found(done, kinds) = {} => MaxDrop(done, kinds) = 0
         /\ MaxDrop(done, kinds) \in Int /\ Found(done, kinds) \subseteq Int
<1> DEFINE S == {b \in 1 .. done : Kind(b) \in kinds}
           F == Found(done, kinds)
<1>1. done \in Nat /\ \A a \in 1 .. done : drop[a] \in Int
  BY AblationsIsNat, DropsAssumption DEF TypeInv
<1>2. F = {drop[a] : a \in S} /\ F \subseteq Int
  BY <1>1 DEF Found
<1>3. MaxDrop(done, kinds) =
        IF F = {} THEN 0 ELSE CHOOSE d \in F : \A e \in F : e <= d
  BY DEF MaxDrop, Found
<1>4. ASSUME F # {} PROVE \E d \in F : \A e \in F : e <= d
  <2>1. S # {} /\ S \in SUBSET (1 .. done)
    BY <1>2, <1>4
  <2> HIDE DEF S, F
  <2>2. PICK t \in S : \A u \in S : drop[u] <= drop[t]
    BY <1>1, <2>1, GreatestValue
  <2>3. QED BY <1>2, <2>2
<1>5. ASSUME F # {}
      PROVE  /\ MaxDrop(done, kinds) \in F
             /\ \A d \in F : d <= MaxDrop(done, kinds)
  <2> HIDE DEF F, S
  <2>1. QED BY <1>3, <1>4, <1>5
<1>6. F = {} => MaxDrop(done, kinds) = 0
  BY <1>3
<1> HIDE DEF F, S
<1>7. MaxDrop(done, kinds) \in Int /\ F \subseteq Int
  BY <1>2, <1>5, <1>6
<1>8. QED BY <1>5, <1>6, <1>7 DEF F

(* A drop that counts stays and only grows with more ablations.            *)
LEMMA MaxDropGrows ==
  ASSUME TypeInv, NEW done \in 0 .. Ablations, NEW kinds, MaxDrop(done, kinds) > 0
  PROVE  /\ MaxDrop(Ablations, kinds) >= MaxDrop(done, kinds)
         /\ \E a \in 1 .. done : Kind(a) \in kinds /\ drop[a] = MaxDrop(done, kinds)
<1>1. Ablations \in 0 .. Ablations /\ 1 .. done \subseteq 1 .. Ablations
  BY AblationsIsNat
<1>2. Found(done, kinds) \subseteq Found(Ablations, kinds)
  BY <1>1 DEF Found
<1>3. MaxDrop(done, kinds) \in Found(done, kinds)
  BY MaxDropIsGreatest
<1>4. MaxDrop(done, kinds) <= MaxDrop(Ablations, kinds)
  BY <1>1, <1>2, <1>3, MaxDropIsGreatest
<1>5. MaxDrop(done, kinds) \in Int /\ MaxDrop(Ablations, kinds) \in Int
  BY <1>1, MaxDropIsGreatest
<1>6. QED BY <1>3, <1>4, <1>5 DEF Found

(* The gain of the primary is a number.                                    *)
LEMMA DeltaIsInt ==
  ASSUME TypeInv
  PROVE  /\ score[Primary] \in Int /\ BaseScore \in Int /\ Delta \in Int
         /\ Delta > 0 => score[Primary] > BaseScore
         /\ MinDrop \in Nat \ {0}
<1>1. Primary \in 1 .. TopK
  BY Constants DEF Primary
<1>2. score[Primary] \in Scores
  BY <1>1 DEF TypeInv
<1>3. score[Primary] \in Int /\ BaseScore \in Int /\ MinDrop \in Nat \ {0}
  BY <1>2, VerdictAssumption
<1>4. QED BY <1>3 DEF Delta

(* Support needs an ablation that took something, and more ablations never *)
(* withdraw it.                                                            *)
LEMMA SupportIsEarned ==
  ASSUME TypeInv, NEW done \in 0 .. Ablations, Supports(done)
  PROVE  /\ \E a \in 1 .. done : Kind(a) \in {"mask", "shuffle"} /\ drop[a] > 0
         /\ Supports(Ablations)
<1> DEFINE M(n) == MaxDrop(n, {"mask"})
           S(n) == MaxDrop(n, {"shuffle"})
<1>1. Ablations \in 0 .. Ablations
  BY AblationsIsNat
<1>2. /\ M(done) \in Int /\ S(done) \in Int
      /\ M(Ablations) \in Int /\ S(Ablations) \in Int
  BY <1>1, MaxDropIsGreatest
<1>3. Delta \in Int /\ MinDrop \in Nat \ {0}
  BY DeltaIsInt
<1>4. /\ M(done) > 0 => /\ M(Ablations) >= M(done)
                        /\ \E a \in 1 .. done : Kind(a) = "mask" /\ drop[a] = M(done)
      /\ S(done) > 0 => /\ S(Ablations) >= S(done)
                        /\ \E a \in 1 .. done : Kind(a) = "shuffle" /\ drop[a] = S(done)
  BY MaxDropGrows
<1>5. \A n : CausalDrop(n) = IF M(n) < S(n) THEN S(n) ELSE M(n)
  BY DEF CausalDrop
<1> HIDE DEF M, S
<1>6. /\ CausalDrop(done) \in Int /\ CausalDrop(Ablations) \in Int
      /\ CausalDrop(done) = M(done) \/ CausalDrop(done) = S(done)
      /\ CausalDrop(Ablations) >= M(Ablations)
      /\ CausalDrop(Ablations) >= S(Ablations)
  BY <1>2, <1>5
<1>7. Delta > 0 /\ Primary \notin controls
  BY DEF Supports
<1>8. CausalDrop(done) > 0
  BY <1>3, <1>6, <1>7 DEF Supports
<1>9. CausalDrop(Ablations) >= CausalDrop(done)
  BY <1>2, <1>4, <1>6, <1>8
<1>10. Supports(Ablations)
  BY <1>3, <1>6, <1>7, <1>9 DEF Supports
<1>11. \E a \in 1 .. done : Kind(a) \in {"mask", "shuffle"} /\ drop[a] > 0
  BY <1>4, <1>6, <1>8
<1>12. QED BY <1>10, <1>11

-----------------------------------------------------------------------------
(* The guardrail and the report *)

(* The guardrail and the report say what they were made from.              *)
ReportInv ==
  /\ stage \in {"pilot", "done"} =>
       guardrail = [warning          |-> Warns,
                    primaryIsControl |-> Primary \in controls,
                    bestControl      |-> Best(ConfirmedControls)]
  /\ stage = "done" =>
       report = [go |-> Reasons = {}, status |-> Status,
                 warning |-> guardrail.warning]

LEMMA ReportNext == ReportInv /\ [Next]_vars => ReportInv'
<1> SUFFICES ASSUME ReportInv, [Next]_vars PROVE ReportInv'
  OBVIOUS
<1>1. CASE Guard
  <2>1. Warns' = Warns /\ Best(ConfirmedControls)' = Best(ConfirmedControls)
    BY <1>1 DEF Guard, data, Warns, Best, ConfirmedControls
  <2>2. QED BY <1>1, <2>1 DEF Guard, data, ReportInv
<1>2. CASE Pilot
  <2>1. /\ Warns' = Warns /\ Best(ConfirmedControls)' = Best(ConfirmedControls)
        /\ Status' = Status /\ Reasons' = Reasons
    BY <1>2 DEF Pilot, data, Warns, Best, ConfirmedControls, Status, Reasons,
                Matched, Delta, Supports, CausalDrop, MaxDrop
  <2>2. QED BY <1>2, <2>1 DEF Pilot, data, ReportInv
<1>3. CASE Confirm \/ ConfirmEnd \/ Correct \/ Ablate
  <2>1. stage' \notin {"pilot", "done"}
    BY <1>3 DEF Confirm, ConfirmEnd, Correct, Ablate
  <2>2. QED BY <2>1 DEF ReportInv
<1>4. CASE UNCHANGED vars
  <2>1. /\ Warns' = Warns /\ Best(ConfirmedControls)' = Best(ConfirmedControls)
        /\ Status' = Status /\ Reasons' = Reasons
    BY <1>4 DEF vars, data, Warns, Best, ConfirmedControls, Status, Reasons,
                Matched, Delta, Supports, CausalDrop, MaxDrop
  <2>2. QED BY <1>4, <2>1 DEF vars, data, ReportInv
<1>5. QED BY <1>1, <1>2, <1>3, <1>4 DEF Next

(* No confirmed control reaches the primary unless the best of them does.  *)
LEMMA MatchedByTheBest ==
  ASSUME TypeInv, NEW s \in ConfirmedControls, ~(score[s] < score[Primary]),
         guardrail.bestControl = Best(ConfirmedControls)
  PROVE  Matched
<1>1. \A t \in 1 .. TopK : score[t] \in Int
  BY VerdictAssumption DEF TypeInv
<1>2. ConfirmedControls \in SUBSET (1 .. TopK) /\ Primary \in 1 .. TopK
  BY Constants DEF TypeInv, ConfirmedControls, Primary
<1>3. PICK t \in ConfirmedControls :
        \A u \in ConfirmedControls : score[u] <= score[t]
  BY <1>1, <1>2, GreatestValue, Constants
<1>4. score[t] \in guardrail.bestControl
  BY <1>3 DEF Best
<1>5. score[s] <= score[t] /\ score[t] >= score[Primary]
  BY <1>1, <1>2, <1>3
<1>6. QED BY <1>4, <1>5 DEF Matched

(* A GO is earned, the two verdicts agree, and the rest of a run that the  *)
(* budget cut takes a GO back only where the report warned of controls.    *)
THEOREM GoesAreEarned == Spec => []GoIsEarned
<1>1. Init => ReportInv
  BY DEF Init, ReportInv
<1>2. TypeInv /\ ReportInv => GoIsEarned
  <2> SUFFICES ASSUME TypeInv, ReportInv, stage = "done" PROVE GoIsEarned
    BY DEF GoIsEarned
  <2>1. /\ guardrail.warning = Warns
        /\ guardrail.primaryIsControl = (Primary \in controls)
        /\ guardrail.bestControl = Best(ConfirmedControls)
    BY DEF ReportInv
  <2>2. /\ report.go = (Reasons = {})
        /\ report.status = Status /\ report.warning = Warns
    BY <2>1 DEF ReportInv
  <2>3. Supports(ablated) => ablated # 0
    <3>1. SUFFICES ASSUME Supports(ablated), ablated = 0 PROVE FALSE
      OBVIOUS
    <3>2. \E a \in 1 .. ablated : TRUE
      BY <3>1, SupportIsEarned DEF TypeInv
    <3>3. QED BY <3>1, <3>2
  <2> DEFINE Earned == /\ Primary \notin controls /\ Delta > 0
                       /\ ~Matched /\ Supports(ablated)
  <2>4. Delta \in Int
    BY DeltaIsInt
  <2>5. report.go <=> Earned
    <3>1. Reasons = {} <=>
            /\ ~guardrail.primaryIsControl
            /\ ~(Delta <= 0)
            /\ ~(Delta > 0 /\ ~Supports(ablated))
            /\ ~(~guardrail.primaryIsControl /\ ablated = 0)
            /\ ~(~guardrail.primaryIsControl /\ Matched)
      BY DEF Reasons
    <3>2. report.go <=> Reasons = {}
      BY <2>2
    <3>3. guardrail.primaryIsControl <=> Primary \in controls
      BY <2>1
    <3>4. ~(Delta <= 0) <=> Delta > 0
      BY <2>4
    <3>5. QED BY <2>3, <3>1, <3>2, <3>3, <3>4
  <2>6. report.status = "positive_schema_signal" <=> Earned
    <3>1. Status = "positive_schema_signal" <=>
            /\ ~guardrail.primaryIsControl
            /\ ~(Delta <= 0) /\ ~Matched /\ Supports(ablated)
      BY DEF Status
    <3>2. guardrail.primaryIsControl <=> Primary \in controls
      BY <2>1
    <3>3. ~(Delta <= 0) <=> Delta > 0
      BY <2>4
    <3>4. QED BY <2>2, <3>1, <3>2, <3>3
  <2>7. ASSUME Earned
        PROVE  /\ Primary \notin controls
               /\ score[Primary] > BaseScore
               /\ \A s \in ConfirmedControls : score[s] < score[Primary]
               /\ \E a \in 1 .. ablated : Kind(a) \in {"mask", "shuffle"} /\ drop[a] > 0
               /\ Supports(Ablations)
               /\ report.warning \/ \A s \in controls : score[s] < score[Primary]
    <3>1. score[Primary] > BaseScore
      BY <2>7, DeltaIsInt
    <3>2. \A s \in ConfirmedControls : score[s] < score[Primary]
      BY <2>1, <2>7, MatchedByTheBest
    <3>3. /\ \E a \in 1 .. ablated : Kind(a) \in {"mask", "shuffle"} /\ drop[a] > 0
          /\ Supports(Ablations)
      BY <2>7, SupportIsEarned DEF TypeInv
    <3>4. report.warning \/ controls = {}
      BY <2>2 DEF Warns
    <3>5. QED BY <2>7, <3>1, <3>2, <3>3, <3>4
  <2> HIDE DEF Earned
  <2>8. QED BY <2>5, <2>6, <2>7 DEF GoIsEarned
<1>3. QED
  BY <1>1, <1>2, TypeInit, TypeNext, ReportNext, PTL DEF Spec
=============================================================================
