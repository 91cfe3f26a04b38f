---------------------------- MODULE SchemaProofs ----------------------------
(***************************************************************************)
(* Results about what makes schemas and what changes them, for every       *)
(* module list, grammar, population, response of the API and number of     *)
(* steps.                                                                  *)
(*                                                                         *)
(* The proposer (Proposals): the tokens of schema proposals reach the      *)
(* budget once and completely, and what is returned are the first usable   *)
(* proposals: Build makes of a list of fields a schema whose only possible *)
(* fault is a clash of names, and so Kept, which looks at the schema, says *)
(* the same as Usable, which looks at the proposal.                        *)
(*                                                                         *)
(* The search (SchemaSearch): every schema it holds is sound - fields,     *)
(* rules and validators speak of the same names, each once -, a child is   *)
(* near its parent, a merge means what its parents meant, and pruning      *)
(* takes the last optional fields and no more of them than it must.  The   *)
(* inductive invariant is SearchInv.                                       *)
(***************************************************************************)
EXTENDS Proposals, SchemaSearch, TLAPS, FiniteSetTheorems, SequenceTheorems

-----------------------------------------------------------------------------
(* Sets of numbers and lists: ranks, what Picked takes, what is appended   *)
(* and joined.                                                             *)

(* The ranks of the numbers of a finite set grow with them.                *)
LEMMA RankGrows ==
  ASSUME NEW S \in SUBSET Nat, IsFiniteSet(S), NEW i \in S, NEW j \in S, i < j
  PROVE  Rank(S, i) < Rank(S, j)
<1> DEFINE A == {h \in S : h < i}
           B == {h \in S : h < j}
<1>1. A \in SUBSET B /\ i \in B /\ i \notin A
  <2>1. \A h \in S : h \in Nat
    OBVIOUS
  <2>2. i < j /\ ~(i < i)
    BY <2>1
  <2>3. \A h \in S : h < i => h < j
    BY <2>1
  <2> QED BY <2>2, <2>3
<1>2. IsFiniteSet(B)
  BY FS_Subset
<1>3. /\ Cardinality(A) <= Cardinality(B)
      /\ Cardinality(B) = Cardinality(A) => B = A
      /\ Cardinality(A) \in Nat /\ Cardinality(B) \in Nat
  BY <1>1, <1>2, FS_Subset, FS_CardinalityType
<1>4. Cardinality(A) < Cardinality(B)
  <2> HIDE DEF A, B
  <2> QED BY <1>1, <1>3
<1> QED BY <1>4 DEF Rank

(* A rank is below the size of the set.                                    *)
LEMMA RankBound ==
  ASSUME NEW S \in SUBSET Nat, IsFiniteSet(S), NEW i \in S
  PROVE  Rank(S, i) \in 0 .. Cardinality(S) - 1
<1> DEFINE A == {h \in S : h < i}
<1>1. A \in SUBSET S /\ i \notin A
  OBVIOUS
<1>2. /\ Cardinality(A) <= Cardinality(S)
      /\ Cardinality(S) = Cardinality(A) => S = A
      /\ Cardinality(A) \in Nat /\ Cardinality(S) \in Nat
  BY <1>1, FS_Subset, FS_CardinalityType
<1>3. Cardinality(A) \in 0 .. Cardinality(S) - 1
  <2> HIDE DEF A
  <2> QED BY <1>1, <1>2
<1> QED BY <1>3 DEF Rank

(* No rank comes twice.                                                    *)
LEMMA RankIsOneToOne ==
  ASSUME NEW S \in SUBSET Nat, IsFiniteSet(S), NEW i \in S, NEW j \in S,
         Rank(S, i) = Rank(S, j)
  PROVE  i = j
<1>1. CASE i < j
  <2>1. Rank(S, i) < Rank(S, j) BY <1>1, RankGrows
  <2>2. Rank(S, i) \in Nat BY RankBound
  <2> QED BY <2>1, <2>2
<1>2. CASE j < i
  <2>1. Rank(S, j) < Rank(S, i) BY <1>2, RankGrows
  <2>2. Rank(S, i) \in Nat BY RankBound
  <2> QED BY <2>1, <2>2
<1> QED BY <1>1, <1>2

(* Every rank below the size is taken.                                     *)
LEMMA RankIsTaken ==
  ASSUME NEW S \in SUBSET Nat, IsFiniteSet(S),
         NEW n \in 0 .. Cardinality(S) - 1
  PROVE  \E i \in S : Rank(S, i) = n
<1> DEFINE T == 0 .. Cardinality(S) - 1
           f == [i \in S |-> Rank(S, i)]
<1>1. Cardinality(S) \in Nat
  BY FS_CardinalityType
<1>2. IsFiniteSet(T) /\ Cardinality(T) = Cardinality(S)
  BY <1>1, FS_Interval
<1>3. f \in Injection(S, T)
  <2>1. f \in [S -> T] BY RankBound
  <2>2. \A i, j \in S : f[i] = f[j] => i = j BY RankIsOneToOne
  <2> QED BY <2>1, <2>2 DEF Injection, IsInjective
<1>4. f \in Surjection(S, T)
  BY <1>2, <1>3, FS_Injection
<1> QED BY <1>4 DEF Surjection

(* Nth finds them all, in their order.                                     *)
LEMMA NthIsThere ==
  ASSUME NEW S \in SUBSET Nat, IsFiniteSet(S), NEW j \in 1 .. Cardinality(S)
  PROVE  Nth(S, j) \in S /\ Rank(S, Nth(S, j)) = j - 1
<1>1. Cardinality(S) \in Nat
  BY FS_CardinalityType
<1>2. \E i \in S : Rank(S, i) = j - 1
  <2>1. j - 1 \in 0 .. Cardinality(S) - 1 BY <1>1
  <2> QED BY <2>1, RankIsTaken
<1> QED BY <1>2 DEF Nth

(* Every number is the one at its rank.                                    *)
LEMMA NthIsEvery ==
  ASSUME NEW S \in SUBSET Nat, IsFiniteSet(S), NEW i \in S
  PROVE  Rank(S, i) + 1 \in 1 .. Cardinality(S) /\ Nth(S, Rank(S, i) + 1) = i
<1>1. Cardinality(S) \in Nat
  BY FS_CardinalityType
<1>2. Rank(S, i) \in 0 .. Cardinality(S) - 1
  BY RankBound
<1>3. Rank(S, i) + 1 \in 1 .. Cardinality(S)
  BY <1>1, <1>2
<1>4. PICK j \in 1 .. Cardinality(S) : j = Rank(S, i) + 1
  BY <1>3
<1>5. Nth(S, j) \in S /\ Rank(S, Nth(S, j)) = j - 1
  BY NthIsThere
<1>6. Rank(S, Nth(S, j)) = Rank(S, i)
  BY <1>2, <1>4, <1>5
<1>7. Nth(S, j) = i
  BY <1>5, <1>6, RankIsOneToOne
<1> QED BY <1>3, <1>4, <1>7

(* No number comes twice.                                                  *)
LEMMA NthIsOneToOne ==
  ASSUME NEW S \in SUBSET Nat, IsFiniteSet(S),
         NEW j \in 1 .. Cardinality(S), NEW k \in 1 .. Cardinality(S),
         Nth(S, j) = Nth(S, k)
  PROVE  j = k
<1>1. Rank(S, Nth(S, j)) = j - 1 /\ Rank(S, Nth(S, k)) = k - 1
  BY NthIsThere
<1>2. j \in Int /\ k \in Int
  OBVIOUS
<1>3. j - 1 = k - 1
  BY <1>1
<1> QED BY <1>2, <1>3

(* The numbers up to n.                                                    *)
LEMMA IntervalFacts ==
  ASSUME NEW n \in Nat
  PROVE  IsFiniteSet(1 .. n) /\ Cardinality(1 .. n) = n
<1>1. 1 \in Int /\ n \in Int /\ (IF 1 > n THEN 0 ELSE n - 1 + 1) = n
  OBVIOUS
<1> QED BY <1>1, FS_Interval

(* Positions of a list.                                                    *)
LEMMA ListFacts ==
  ASSUME NEW seq, IsList(seq)
  PROVE  /\ Len(seq) \in Nat /\ DOMAIN seq = 1 .. Len(seq)
         /\ DOMAIN seq \in SUBSET Nat /\ IsFiniteSet(DOMAIN seq)
         /\ Cardinality(DOMAIN seq) = Len(seq)
<1>1. Len(seq) \in Nat /\ DOMAIN seq = 1 .. Len(seq)
  BY LenProperties DEF IsList
<1>2. IsFiniteSet(1 .. Len(seq)) /\ Cardinality(1 .. Len(seq)) = Len(seq)
  BY <1>1, IntervalFacts
<1> QED BY <1>1, <1>2

(* A function on the numbers up to n is a list.                            *)
LEMMA ListMade ==
  ASSUME NEW seq, NEW n \in Nat, NEW X, seq \in [1 .. n -> X]
  PROVE  IsList(seq) /\ Len(seq) = n /\ DOMAIN seq = 1 .. n
<1>1. seq \in [1 .. n -> ToSet(seq)]
  BY DEF ToSet
<1>2. seq \in Seq(ToSet(seq))
  BY <1>1, SeqDef
<1>3. IsList(seq)
  BY <1>2 DEF IsList
<1>4. DOMAIN seq = 1 .. n
  OBVIOUS
<1>5. Cardinality(1 .. n) = n /\ Cardinality(DOMAIN seq) = Len(seq)
  BY <1>3, ListFacts, IntervalFacts
<1> QED BY <1>3, <1>4, <1>5

(* What Picked takes.                                                      *)
LEMMA PickedFacts ==
  ASSUME NEW seq, IsList(seq), NEW S \in SUBSET (DOMAIN seq)
  PROVE  /\ S \in SUBSET Nat /\ IsFiniteSet(S) /\ Cardinality(S) \in Nat
         /\ IsList(Picked(seq, S)) /\ Len(Picked(seq, S)) = Cardinality(S)
         /\ DOMAIN Picked(seq, S) = 1 .. Cardinality(S)
         /\ \A j \in 1 .. Cardinality(S) :
              Nth(S, j) \in S /\ Picked(seq, S)[j] = seq[Nth(S, j)]
         /\ ToSet(Picked(seq, S)) = {seq[i] : i \in S}
<1> DEFINE P == Picked(seq, S)
<1>1. S \in SUBSET Nat /\ IsFiniteSet(S) /\ Cardinality(S) \in Nat
  BY ListFacts, FS_Subset, FS_CardinalityType
<1>2. \A j \in 1 .. Cardinality(S) : Nth(S, j) \in S /\ P[j] = seq[Nth(S, j)]
  BY <1>1, NthIsThere DEF Picked
<1>3. P \in [1 .. Cardinality(S) -> {seq[i] : i \in S}]
  BY <1>1, NthIsThere DEF Picked
<1>4. IsList(P) /\ Len(P) = Cardinality(S) /\ DOMAIN P = 1 .. Cardinality(S)
  <2> HIDE DEF P
  <2> QED BY <1>1, <1>3, ListMade
<1>5. \A i \in S : \E j \in 1 .. Cardinality(S) : P[j] = seq[i]
  BY <1>1, <1>2, NthIsEvery
<1>6. ToSet(P) = {seq[i] : i \in S}
  <2> HIDE DEF P
  <2> QED BY <1>2, <1>4, <1>5 DEF ToSet
<1> QED BY <1>1, <1>2, <1>4, <1>6

(* Sets between which there is a one-to-one function onto.                 *)
LEMMA SameSize ==
  ASSUME NEW S, NEW T, IsFiniteSet(S), NEW f \in [S -> T],
         \A x, y \in S : f[x] = f[y] => x = y,
         \A t \in T : \E x \in S : f[x] = t
  PROVE  IsFiniteSet(T) /\ Cardinality(T) = Cardinality(S)
<1>1. f \in Injection(S, T)
  BY DEF Injection, IsInjective
<1>2. f \in Surjection(S, T)
  BY DEF Surjection
<1>3. ExistsBijection(S, T)
  BY <1>1, <1>2 DEF ExistsBijection, Bijection
<1> QED BY <1>3, FS_Bijection

(* A list has finitely many items.                                         *)
LEMMA ListSetFinite ==
  ASSUME NEW seq, IsList(seq)
  PROVE  IsFiniteSet(ToSet(seq))
<1>1. IsFiniteSet(DOMAIN seq) /\ seq \in [DOMAIN seq -> ToSet(seq)]
  <2>1. seq \in [1 .. Len(seq) -> ToSet(seq)] /\ DOMAIN seq = 1 .. Len(seq)
    BY LenProperties DEF IsList
  <2> QED BY <2>1, ListFacts
<1>2. seq \in Surjection(DOMAIN seq, ToSet(seq))
  BY <1>1 DEF Surjection, ToSet
<1> QED BY <1>1, <1>2, FS_Surjection

(* A set's sequence has each of its elements at one place.                 *)
LEMMA SetToSeqFacts ==
  ASSUME NEW S, IsFiniteSet(S)
  PROVE  /\ IsList(SetToSeq(S)) /\ Len(SetToSeq(S)) = Cardinality(S)
         /\ DOMAIN SetToSeq(S) = 1 .. Cardinality(S)
         /\ IsInjective(SetToSeq(S))
         /\ \A j \in 1 .. Cardinality(S) : SetToSeq(S)[j] \in S
         /\ \A x \in S : \E j \in 1 .. Cardinality(S) : SetToSeq(S)[j] = x
<1> DEFINE s == SetToSeq(S)
<1>1. Cardinality(S) \in Nat /\ ExistsBijection(1 .. Cardinality(S), S)
  BY FS_CardinalityType
<1>2. \E f \in [1 .. Cardinality(S) -> S] : IsInjective(f)
  <2>1. PICK f \in Injection(1 .. Cardinality(S), S) : TRUE
    BY <1>1 DEF ExistsBijection, Bijection
  <2>2. f \in [1 .. Cardinality(S) -> S] /\ IsInjective(f)
    BY <2>1 DEF Injection
  <2> QED BY <2>2
<1>3. s \in [1 .. Cardinality(S) -> S] /\ IsInjective(s)
  BY <1>2 DEF SetToSeq
<1>4. s \in Injection(1 .. Cardinality(S), S)
  BY <1>3 DEF Injection
<1>5. Cardinality(1 .. Cardinality(S)) = Cardinality(S)
  BY <1>1, IntervalFacts
<1>6. s \in Surjection(1 .. Cardinality(S), S)
  BY <1>4, <1>5, FS_Injection
<1>7. \A x \in S : \E j \in 1 .. Cardinality(S) : s[j] = x
  BY <1>6 DEF Surjection
<1>8. IsList(s) /\ Len(s) = Cardinality(S) /\ DOMAIN s = 1 .. Cardinality(S)
  BY <1>1, <1>3, ListMade
<1> QED BY <1>3, <1>7, <1>8

(* In 1 .. n the j-th number is j.                                         *)
LEMMA NthOfInterval ==
  ASSUME NEW n \in Nat, NEW j \in 1 .. n
  PROVE  Nth(1 .. n, j) = j
<1>1. {h \in 1 .. n : h < j} = 1 .. (j - 1)
  OBVIOUS
<1>2. j - 1 \in Nat
  OBVIOUS
<1>3. Rank(1 .. n, j) = j - 1
  BY <1>1, <1>2, IntervalFacts DEF Rank
<1>4. PICK S \in SUBSET Nat : S = 1 .. n
  OBVIOUS
<1>5. IsFiniteSet(S) /\ j \in S
  BY <1>4, IntervalFacts
<1>6. Nth(S, Rank(S, j) + 1) = j
  BY <1>5, NthIsEvery
<1>7. Rank(S, j) + 1 = j
  BY <1>3, <1>4
<1> QED BY <1>4, <1>6, <1>7

(* Nothing is left out of a list that has no repetitions.                  *)
LEMMA DistinctIsAll ==
  ASSUME NEW seq, IsList(seq),
         \A h, i \in DOMAIN seq : h # i => seq[h] # seq[i]
  PROVE  Distinct(seq) = seq
<1> DEFINE n == Len(seq)
<1>1. n \in Nat /\ DOMAIN seq = 1 .. n /\ Cardinality(1 .. n) = n
  BY ListFacts
<1>2. \A i \in DOMAIN seq : \A h \in 1 .. i - 1 : seq[h] # seq[i]
  <2> SUFFICES ASSUME NEW i \in DOMAIN seq, NEW h \in 1 .. i - 1
               PROVE  seq[h] # seq[i]
    OBVIOUS
  <2>1. i \in 1 .. n
    BY <1>1
  <2>2. h \in 1 .. n /\ h # i
    BY <1>1, <2>1
  <2> QED BY <1>1, <2>2
<1>3. Distinct(seq) = Picked(seq, 1 .. n)
  BY <1>1, <1>2 DEF Distinct
<1>4. Picked(seq, 1 .. n) = [j \in 1 .. n |-> seq[Nth(1 .. n, j)]]
  BY <1>1 DEF Picked
<1>5. \A j \in 1 .. n : Nth(1 .. n, j) = j
  BY <1>1, NthOfInterval
<1>6. seq = [j \in 1 .. n |-> seq[j]]
  BY <1>1, LenProperties DEF IsList
<1>7. [j \in 1 .. n |-> seq[Nth(1 .. n, j)]] = [j \in 1 .. n |-> seq[j]]
  BY <1>5
<1> QED BY <1>3, <1>4, <1>6, <1>7

(* A sequence is a list, and what is appended to lists.                    *)
LEMMA SeqIsList ==
  ASSUME NEW X, NEW seq \in Seq(X)
  PROVE  IsList(seq)
<1>1. Len(seq) \in Nat /\ seq \in [1 .. Len(seq) -> X]
  BY LenProperties
<1> QED BY <1>1, ListMade

(* One item more.                                                          *)
LEMMA AppendedList ==
  ASSUME NEW seq, IsList(seq), NEW x
  PROVE  /\ IsList(Append(seq, x))
         /\ DOMAIN Append(seq, x) = 1 .. Len(seq) + 1
         /\ \A i \in DOMAIN seq : Append(seq, x)[i] = seq[i]
         /\ Append(seq, x)[Len(seq) + 1] = x
         /\ ToSet(Append(seq, x)) = ToSet(seq) \cup {x}
<1> DEFINE X == ToSet(seq) \cup {x}
           new == Append(seq, x)
<1>1. seq \in Seq(X)
  <2>1. seq \in Seq(ToSet(seq)) /\ ToSet(seq) \subseteq X
    BY DEF IsList
  <2> HIDE DEF X
  <2> QED BY <2>1, SeqMonotonic
<1>2. Len(seq) \in Nat /\ DOMAIN seq = 1 .. Len(seq)
  BY ListFacts
<1>3. /\ new \in Seq(X) /\ Len(new) = Len(seq) + 1
      /\ \A i \in 1 .. Len(seq) : new[i] = seq[i]
      /\ new[Len(seq) + 1] = x
  <2>1. x \in X
    OBVIOUS
  <2> HIDE DEF X
  <2> QED BY <1>1, <2>1, AppendProperties
<1>4. IsList(new)
  <2> HIDE DEF X, new
  <2> QED BY <1>3, SeqIsList
<1>5. DOMAIN new = 1 .. Len(seq) + 1
  BY <1>3, <1>4, ListFacts
<1>6. ToSet(new) = ToSet(seq) \cup {x}
  <2>1. 1 .. Len(seq) + 1 = (1 .. Len(seq)) \cup {Len(seq) + 1}
    BY <1>2
  <2> HIDE DEF new
  <2> QED BY <1>2, <1>3, <1>5, <2>1 DEF ToSet
<1> QED BY <1>2, <1>3, <1>4, <1>5, <1>6

(* One list after the other.                                               *)
LEMMA JoinedList ==
  ASSUME NEW a, NEW b, IsList(a), IsList(b)
  PROVE  /\ IsList(a \o b)
         /\ DOMAIN (a \o b) = 1 .. Len(a) + Len(b)
         /\ \A i \in 1 .. Len(a) + Len(b) :
              (a \o b)[i] = IF i <= Len(a) THEN a[i] ELSE b[i - Len(a)]
         /\ ToSet(a \o b) = ToSet(a) \cup ToSet(b)
<1> DEFINE X == ToSet(a) \cup ToSet(b)
           c == a \o b
<1>1. a \in Seq(X) /\ b \in Seq(X)
  <2>1. /\ a \in Seq(ToSet(a)) /\ ToSet(a) \subseteq X
        /\ b \in Seq(ToSet(b)) /\ ToSet(b) \subseteq X
    BY DEF IsList
  <2> HIDE DEF X
  <2> QED BY <2>1, SeqMonotonic
<1>2. /\ Len(a) \in Nat /\ DOMAIN a = 1 .. Len(a)
      /\ Len(b) \in Nat /\ DOMAIN b = 1 .. Len(b)
  BY ListFacts
<1>3. /\ c \in Seq(X) /\ Len(c) = Len(a) + Len(b)
      /\ \A i \in 1 .. Len(a) + Len(b) :
           c[i] = IF i <= Len(a) THEN a[i] ELSE b[i - Len(a)]
  <2> HIDE DEF X
  <2> QED BY <1>1, ConcatProperties
<1>4. IsList(c)
  <2> HIDE DEF X, c
  <2> QED BY <1>3, SeqIsList
<1>5. DOMAIN c = 1 .. Len(a) + Len(b)
  BY <1>3, <1>4, ListFacts
<1>6. ToSet(c) = ToSet(a) \cup ToSet(b)
  <2> HIDE DEF c
  <2>1. \A i \in DOMAIN c : c[i] \in ToSet(a) \cup ToSet(b)
    <3> TAKE i \in DOMAIN c
    <3>1. CASE i <= Len(a) BY <1>2, <1>3, <1>5, <3>1 DEF ToSet
    <3>2. CASE i > Len(a)
      <4>1. i - Len(a) \in DOMAIN b BY <1>2, <1>5, <3>2
      <4> QED BY <1>2, <1>3, <1>5, <3>2, <4>1 DEF ToSet
    <3> QED BY <1>2, <1>5, <3>1, <3>2
  <2>2. \A i \in DOMAIN a : i \in DOMAIN c /\ c[i] = a[i]
    BY <1>2, <1>3, <1>5
  <2>3. \A i \in DOMAIN b : Len(a) + i \in DOMAIN c /\ c[Len(a) + i] = b[i]
    <3> TAKE i \in DOMAIN b
    <3>1. Len(a) + i \in 1 .. Len(a) + Len(b) /\ ~(Len(a) + i <= Len(a))
          /\ Len(a) + i - Len(a) = i
      BY <1>2
    <3> QED BY <1>3, <1>5, <3>1
  <2> QED BY <2>1, <2>2, <2>3 DEF ToSet
<1> QED BY <1>2, <1>3, <1>4, <1>5, <1>6

(* Lists that agree at the positions in a set.                             *)
LEMMA PickedSame ==
  ASSUME NEW a, NEW b, NEW S \in SUBSET Nat, IsFiniteSet(S),
         \A i \in S : a[i] = b[i]
  PROVE  Picked(a, S) = Picked(b, S)
<1>1. \A j \in 1 .. Cardinality(S) : a[Nth(S, j)] = b[Nth(S, j)]
  BY NthIsThere
<1> QED BY <1>1 DEF Picked

(* Nth grows.                                                              *)
LEMMA NthGrows ==
  ASSUME NEW S \in SUBSET Nat, IsFiniteSet(S),
         NEW j \in 1 .. Cardinality(S), NEW k \in 1 .. Cardinality(S)
  PROVE  j < k <=> Nth(S, j) < Nth(S, k)
<1>1. /\ Nth(S, j) \in S /\ Rank(S, Nth(S, j)) = j - 1
      /\ Nth(S, k) \in S /\ Rank(S, Nth(S, k)) = k - 1
  BY NthIsThere
<1>2. Nth(S, j) \in Nat /\ Nth(S, k) \in Nat
  BY <1>1
<1>3. ASSUME Nth(S, j) < Nth(S, k) PROVE j < k
  <2>1. Rank(S, Nth(S, j)) < Rank(S, Nth(S, k))
    BY <1>1, <1>3, RankGrows
  <2> QED BY <1>1, <2>1
<1>4. ASSUME j < k PROVE Nth(S, j) < Nth(S, k)
  <2>1. CASE Nth(S, k) < Nth(S, j)
    <3>1. Rank(S, Nth(S, k)) < Rank(S, Nth(S, j))
      BY <1>1, <2>1, RankGrows
    <3>2. k - 1 < j - 1 BY <1>1, <3>1
    <3> QED BY <1>4, <3>2
  <2>2. CASE Nth(S, j) = Nth(S, k)
    <3>1. j = k BY <2>2, NthIsOneToOne
    <3> QED BY <1>4, <3>1
  <2> QED BY <1>2, <2>1, <2>2
<1> QED BY <1>3, <1>4

(* A part of a set of numbers given by their places in it.                 *)
Through(S, T) == {Nth(S, j) : j \in T}

(* It has as many numbers as there are places.                             *)
LEMMA ThroughFacts ==
  ASSUME NEW S \in SUBSET Nat, IsFiniteSet(S),
         NEW T \in SUBSET (1 .. Cardinality(S))
  PROVE  /\ Through(S, T) \in SUBSET S
         /\ IsFiniteSet(Through(S, T)) /\ IsFiniteSet(T)
         /\ Cardinality(Through(S, T)) = Cardinality(T)
<1> DEFINE h == [j \in T |-> Nth(S, j)]
<1>1. \A j \in T : Nth(S, j) \in S
  BY NthIsThere
<1>2. Cardinality(S) \in Nat
  BY FS_CardinalityType
<1>3. IsFiniteSet(T)
  BY <1>2, IntervalFacts, FS_Subset
<1>4. /\ h \in [T -> Through(S, T)]
      /\ \A j, k \in T : h[j] = h[k] => j = k
      /\ \A x \in Through(S, T) : \E j \in T : h[j] = x
  <2>1. \A j, k \in T : Nth(S, j) = Nth(S, k) => j = k
    BY NthIsOneToOne
  <2> QED BY <2>1 DEF Through
<1>5. IsFiniteSet(Through(S, T)) /\ Cardinality(Through(S, T)) = Cardinality(T)
  <2> HIDE DEF h
  <2> QED BY <1>3, <1>4, SameSize
<1> QED BY <1>1, <1>3, <1>5 DEF Through

(* The rank of a number in it is the rank of its place.                    *)
LEMMA RankThrough ==
  ASSUME NEW S \in SUBSET Nat, IsFiniteSet(S),
         NEW T \in SUBSET (1 .. Cardinality(S)), NEW j \in T
  PROVE  Rank(Through(S, T), Nth(S, j)) = Rank(T, j)
<1> DEFINE B == {i \in T : i < j}
           A == {x \in Through(S, T) : x < Nth(S, j)}
<1>1. B \in SUBSET (1 .. Cardinality(S))
  OBVIOUS
<1>2. \A i \in T : i < j <=> Nth(S, i) < Nth(S, j)
  BY NthGrows
<1>3. A = Through(S, B)
  BY <1>2 DEF Through
<1>4. Cardinality(Through(S, B)) = Cardinality(B)
  <2> HIDE DEF B
  <2> QED BY <1>1, ThroughFacts
<1> QED BY <1>3, <1>4 DEF Rank

(* Picking twice is picking once.                                          *)
LEMMA PickedTwice ==
  ASSUME NEW seq, IsList(seq), NEW S \in SUBSET (DOMAIN seq),
         NEW T \in SUBSET (1 .. Cardinality(S))
  PROVE  Picked(Picked(seq, S), T) = Picked(seq, Through(S, T))
<1> DEFINE U == Through(S, T)
           P == Picked(seq, S)
<1>1. /\ S \in SUBSET Nat /\ IsFiniteSet(S) /\ Cardinality(S) \in Nat
      /\ \A j \in 1 .. Cardinality(S) : P[j] = seq[Nth(S, j)]
  BY PickedFacts
<1>2. /\ U \in SUBSET S /\ IsFiniteSet(U) /\ IsFiniteSet(T)
      /\ Cardinality(U) = Cardinality(T)
  BY <1>1, ThroughFacts
<1>3. U \in SUBSET Nat /\ T \in SUBSET Nat
  BY <1>1, <1>2
<1>4. ASSUME NEW k \in 1 .. Cardinality(T)
      PROVE  P[Nth(T, k)] = seq[Nth(U, k)]
  <2>1. Nth(T, k) \in T /\ Rank(T, Nth(T, k)) = k - 1
    BY <1>2, <1>3, NthIsThere
  <2>2. PICK j \in T : j = Nth(T, k)
    BY <2>1
  <2>3. Rank(U, Nth(S, j)) = k - 1 /\ Nth(S, j) \in U
    BY <1>1, <2>1, <2>2, RankThrough DEF Through
  <2>4. Nth(U, k) \in U /\ Rank(U, Nth(U, k)) = k - 1
    <3> HIDE DEF U
    <3> QED BY <1>2, <1>3, NthIsThere
  <2>5. Nth(U, k) = Nth(S, j)
    <3>1. Rank(U, Nth(U, k)) = Rank(U, Nth(S, j))
      BY <2>3, <2>4
    <3> HIDE DEF U
    <3>2. \A x, y \in U : Rank(U, x) = Rank(U, y) => x = y
      BY <1>2, <1>3, RankIsOneToOne
    <3> QED BY <2>3, <2>4, <3>1, <3>2
  <2>6. j \in 1 .. Cardinality(S)
    OBVIOUS
  <2> QED BY <1>1, <2>2, <2>5, <2>6
<1>5. Picked(P, T) = Picked(seq, U)
  <2> HIDE DEF U, P
  <2> QED BY <1>2, <1>4 DEF Picked
<1> QED BY <1>5

(* Nothing comes twice in a part of a list without repetitions,            *)
LEMMA PickedOnce ==
  ASSUME NEW seq, IsList(seq), IsInjective(seq), NEW S \in SUBSET (DOMAIN seq)
  PROVE  IsInjective(Picked(seq, S))
<1> DEFINE P == Picked(seq, S)
<1>1. /\ S \in SUBSET Nat /\ IsFiniteSet(S)
      /\ DOMAIN P = 1 .. Cardinality(S)
      /\ \A j \in 1 .. Cardinality(S) : Nth(S, j) \in S /\ P[j] = seq[Nth(S, j)]
  BY PickedFacts
<1>2. ASSUME NEW i \in DOMAIN P, NEW j \in DOMAIN P, P[i] = P[j] PROVE i = j
  <2>1. /\ Nth(S, i) \in DOMAIN seq /\ Nth(S, j) \in DOMAIN seq
        /\ seq[Nth(S, i)] = seq[Nth(S, j)]
    BY <1>1, <1>2
  <2>2. Nth(S, i) = Nth(S, j)
    BY <2>1 DEF IsInjective
  <2> HIDE DEF P
  <2> QED BY <1>1, <2>2, NthIsOneToOne
<1>3. IsInjective(P)
  <2> HIDE DEF P
  <2> QED BY <1>2 DEF IsInjective
<1> QED BY <1>3

(* nor in two such lists that have nothing in common.                      *)
LEMMA JoinedOnce ==
  ASSUME NEW a, NEW b, IsList(a), IsList(b), IsInjective(a), IsInjective(b),
         ToSet(a) \cap ToSet(b) = {}
  PROVE  IsInjective(a \o b)
<1> DEFINE c == a \o b
<1>1. /\ Len(a) \in Nat /\ DOMAIN a = 1 .. Len(a)
      /\ Len(b) \in Nat /\ DOMAIN b = 1 .. Len(b)
      /\ DOMAIN c = 1 .. Len(a) + Len(b)
      /\ \A i \in 1 .. Len(a) + Len(b) :
           c[i] = IF i <= Len(a) THEN a[i] ELSE b[i - Len(a)]
  BY ListFacts, JoinedList
<1>2. ASSUME NEW i \in DOMAIN c, NEW j \in DOMAIN c, c[i] = c[j] PROVE i = j
  <2> HIDE DEF c
  <2>0. i \in 1 .. Len(a) + Len(b) /\ j \in 1 .. Len(a) + Len(b)
    BY <1>1
  <2>1. CASE i <= Len(a) /\ j <= Len(a)
    <3>1. i \in DOMAIN a /\ j \in DOMAIN a BY <1>1, <2>0, <2>1
    <3>2. a[i] = a[j] BY <1>1, <1>2, <2>0, <2>1
    <3> QED BY <3>1, <3>2 DEF IsInjective
  <2>2. CASE ~(i <= Len(a)) /\ ~(j <= Len(a))
    <3>1. i - Len(a) \in DOMAIN b /\ j - Len(a) \in DOMAIN b
      BY <1>1, <2>0, <2>2
    <3>2. b[i - Len(a)] = b[j - Len(a)] BY <1>1, <1>2, <2>0, <2>2
    <3>3. i - Len(a) = j - Len(a) BY <3>1, <3>2 DEF IsInjective
    <3> QED BY <1>1, <2>0, <3>3
  <2>3. CASE i <= Len(a) /\ ~(j <= Len(a))
    <3>1. i \in DOMAIN a /\ j - Len(a) \in DOMAIN b BY <1>1, <2>0, <2>3
    <3>2. a[i] = b[j - Len(a)] BY <1>1, <1>2, <2>0, <2>3
    <3> QED BY <3>1, <3>2 DEF ToSet
  <2>4. CASE ~(i <= Len(a)) /\ j <= Len(a)
    <3>1. j \in DOMAIN a /\ i - Len(a) \in DOMAIN b BY <1>1, <2>0, <2>4
    <3>2. a[j] = b[i - Len(a)] BY <1>1, <1>2, <2>0, <2>4
    <3> QED BY <3>1, <3>2 DEF ToSet
  <2> QED BY <2>1, <2>2, <2>3, <2>4
<1>3. IsInjective(c)
  <2> HIDE DEF c
  <2> QED BY <1>2 DEF IsInjective
<1> QED BY <1>3

(* A list without repetitions has as many items as places.                 *)
LEMMA ItemsOfList ==
  ASSUME NEW seq, IsList(seq), IsInjective(seq)
  PROVE  Cardinality(ToSet(seq)) = Len(seq)
<1> DEFINE h == [i \in DOMAIN seq |-> seq[i]]
<1>1. /\ h \in [DOMAIN seq -> ToSet(seq)]
      /\ \A i, j \in DOMAIN seq : h[i] = h[j] => i = j
      /\ \A x \in ToSet(seq) : \E i \in DOMAIN seq : h[i] = x
  BY DEF ToSet, IsInjective
<1>2. IsFiniteSet(DOMAIN seq) /\ Cardinality(DOMAIN seq) = Len(seq)
  BY ListFacts
<1> QED
  <2> HIDE DEF h
  <2> QED BY <1>1, <1>2, SameSize

(* The greatest number of a set that is not empty.                         *)
LEMMA GreatestNumber ==
  ASSUME NEW S \in SUBSET Nat, IsFiniteSet(S), S # {}
  PROVE  \E k \in S : \A i \in S : i <= k
<1> DEFINE n == Cardinality(S)
           k == Nth(S, n)
<1>1. n \in Nat /\ n # 0
  BY FS_CardinalityType, FS_EmptySet
<1>2. k \in S /\ Rank(S, k) = n - 1
  BY <1>1, NthIsThere
<1>3. ASSUME NEW i \in S, k < i PROVE FALSE
  <2>1. Rank(S, k) < Rank(S, i)
    <3> HIDE DEF k
    <3> QED BY <1>2, <1>3, RankGrows
  <2>2. Rank(S, i) \in 0 .. n - 1
    BY RankBound
  <2> HIDE DEF n, k
  <2> QED BY <1>1, <1>2, <2>1, <2>2
<1>4. \A i \in S : i <= k
  <2>1. k \in Nat /\ \A i \in S : i \in Nat
    BY <1>2
  <2> HIDE DEF k
  <2> QED BY <1>3, <2>1
<1> QED BY <1>2, <1>4

-----------------------------------------------------------------------------
(* The proposer: what it is billed.                                        *)

(* The proposer counts as it goes; the budget has what was recorded while  *)
(* the rounds go on and all of it when the run is finished.                *)
Billed ==
  /\ total \in Nat /\ recorded \in Nat /\ budget \in Nat /\ answered \in Nat
  /\ stage \in {"idle", "propose", "record", "rounds", "reflect", "finished",
                "raised"}
  /\ total = answered
  /\ stage \in {"propose", "record"} => recorded = 0 /\ budget = 0
  /\ stage \in {"rounds", "reflect"} => budget = recorded /\ recorded <= total
  /\ stage = "finished" => budget = answered

(* The initial state.                                                      *)
LEMMA BilledInit == Init => Billed
  BY DEF Init, Billed

(* A request moves the two counts together, or neither.                    *)
LEMMA BilledPropose == Billed /\ Propose => Billed'
<1> SUFFICES ASSUME Billed, Propose PROVE Billed'
  OBVIOUS
<1>1. PICK response \in Responses, n \in Requested, tokens \in TokenCounts :
        /\ answered' =
             IF n > 0 /\ HasText(response) THEN answered + tokens ELSE answered
        /\ total' = IF Counts(response, n) THEN total + tokens ELSE total
        /\ stage' = IF returned' = Failed /\ strict THEN "raised"
                    ELSE IF stage = "propose" THEN "record" ELSE "rounds"
  BY DEF Propose
<1>2. tokens \in Nat
  BY ProposalsAssumption
<1>3. total' = answered' /\ total' \in Nat /\ total' >= total
  BY <1>1, <1>2 DEF Billed, Counts
<1>4. stage \in {"propose", "reflect"} /\ UNCHANGED <<recorded, budget>>
  BY DEF Propose
<1>5. \/ stage' = "raised"
      \/ stage' = "record" /\ stage = "propose"
      \/ stage' = "rounds" /\ stage = "reflect"
  BY <1>1, <1>4
<1>6. QED BY <1>3, <1>4, <1>5 DEF Billed

(* Every step.                                                             *)
LEMMA BilledNext == Billed /\ [Next]_vars => Billed'
<1> SUFFICES ASSUME Billed, [Next]_vars PROVE Billed'
  OBVIOUS
<1>1. CASE BeginRun BY <1>1 DEF BeginRun, ResetUsage, Billed
<1>2. CASE Propose BY <1>2, BilledPropose
<1>3. CASE RecordProposal BY <1>3 DEF RecordProposal, Billed
<1>4. CASE BeginRound BY <1>4 DEF BeginRound, Billed
<1>5. CASE RecordReflection BY <1>5 DEF RecordReflection, Billed
<1>6. CASE UNCHANGED vars BY <1>6 DEF vars, Billed
<1>7. QED BY <1>1, <1>2, <1>3, <1>4, <1>5, <1>6 DEF Next

(* Every token of an answered request is in the budget of its run, once.   *)
THEOREM UsageIsComplete == Spec => []UsageIsBilled
<1>1. Billed => UsageIsBilled BY DEF Billed, UsageIsBilled
<1>2. QED BY <1>1, BilledInit, BilledNext, PTL DEF Spec

-----------------------------------------------------------------------------
(* The proposer: what Build makes of a list of fields.                     *)

(* What reading gives: fields nothing is wrong with, each for itself.      *)
IsFieldList(F) ==
  /\ IsList(F)
  /\ \A i \in DOMAIN F :
       /\ F[i].producer \in ModuleSet
       /\ F[i].consumers # {} /\ F[i].consumers \subseteq ModuleSet
       /\ ~((F[i].type = "enum") # (F[i].enum # {}))

(* The positions of the fields a module produces.                          *)
ProducedBy(F, m) == {i \in DOMAIN F : F[i].producer = m}

(* The fields of a module are those it produces, in their order.           *)
LEMMA ProducedByFacts ==
  ASSUME NEW F, IsFieldList(F), NEW m \in ModuleSet
  PROVE  /\ ProducedBy(F, m) \in SUBSET Nat /\ IsFiniteSet(ProducedBy(F, m))
         /\ Cardinality(ProducedBy(F, m)) \in Nat
         /\ DOMAIN Build(F).fields[m] = 1 .. Cardinality(ProducedBy(F, m))
         /\ Len(Build(F).fields[m]) = Cardinality(ProducedBy(F, m))
         /\ \A j \in 1 .. Cardinality(ProducedBy(F, m)) :
              /\ Nth(ProducedBy(F, m), j) \in ProducedBy(F, m)
              /\ Build(F).fields[m][j] = F[Nth(ProducedBy(F, m), j)]
         /\ \A i \in ProducedBy(F, m) : F[i] \in ToSet(Build(F).fields[m])
         /\ \A x \in ToSet(Build(F).fields[m]) :
              \E i \in ProducedBy(F, m) : x = F[i]
<1>1. ProducedBy(F, m) \in SUBSET (DOMAIN F) /\ IsList(F)
  BY DEF ProducedBy, IsFieldList
<1>2. Build(F).fields[m] = Picked(F, ProducedBy(F, m))
  BY DEF Build, ProducedBy
<1>3. ToSet(Picked(F, ProducedBy(F, m))) = {F[i] : i \in ProducedBy(F, m)}
  BY <1>1, PickedFacts
<1>4. /\ \A i \in ProducedBy(F, m) : F[i] \in ToSet(Build(F).fields[m])
      /\ \A x \in ToSet(Build(F).fields[m]) :
           \E i \in ProducedBy(F, m) : x = F[i]
  BY <1>2, <1>3
<1> QED BY <1>1, <1>2, <1>4, PickedFacts

(* No field is lost and none is added.                                     *)
LEMMA FieldsOfBuilt ==
  ASSUME NEW F, IsFieldList(F)
  PROVE  Fields(Build(F)) = ToSet(F)
<1>1. \A m \in ModuleSet :
        /\ \A i \in ProducedBy(F, m) : F[i] \in ToSet(Build(F).fields[m])
        /\ \A x \in ToSet(Build(F).fields[m]) :
             \E i \in ProducedBy(F, m) : x = F[i]
  BY ProducedByFacts
<1>2. \A i \in DOMAIN F : \E m \in ModuleSet : i \in ProducedBy(F, m)
  BY DEF ProducedBy, IsFieldList
<1>3. \A m \in ModuleSet : \A i \in ProducedBy(F, m) : i \in DOMAIN F
  BY DEF ProducedBy
<1>4. ToSet(F) = {F[i] : i \in DOMAIN F}
  BY DEF ToSet
<1>5. ASSUME NEW x \in Fields(Build(F)) PROVE x \in ToSet(F)
  <2>1. PICK m \in ModuleSet : x \in ToSet(Build(F).fields[m])
    BY <1>5 DEF Fields
  <2> QED BY <2>1, <1>1, <1>3, <1>4
<1>6. ASSUME NEW x \in ToSet(F) PROVE x \in Fields(Build(F))
  <2>1. PICK i \in DOMAIN F : x = F[i]
    BY <1>6, <1>4
  <2>2. PICK m \in ModuleSet : i \in ProducedBy(F, m)
    BY <1>2
  <2>3. x \in ToSet(Build(F).fields[m])
    BY <2>1, <2>2, <1>1
  <2> QED BY <2>3 DEF Fields
<1> QED BY <1>5, <1>6

(* The position of a field in its module.                                  *)
Place(F, i) == <<F[i].producer, Rank(ProducedBy(F, F[i].producer), i) + 1>>

(* Where a field of the list is found in the schema.                       *)
LEMMA PlaceFacts ==
  ASSUME NEW F, IsFieldList(F), NEW i \in DOMAIN F
  PROVE  /\ Place(F, i) \in Positions(Build(F))
         /\ Place(F, i)[1] = F[i].producer
         /\ Nth(ProducedBy(F, F[i].producer), Place(F, i)[2]) = i
         /\ Build(F).fields[Place(F, i)[1]][Place(F, i)[2]] = F[i]
<1> DEFINE m == F[i].producer
           S == ProducedBy(F, m)
<1>1. m \in ModuleSet /\ i \in S
  BY DEF ProducedBy, IsFieldList
<1>2. Rank(S, i) + 1 \in 1 .. Cardinality(S) /\ Nth(S, Rank(S, i) + 1) = i
  BY <1>1, ProducedByFacts, NthIsEvery
<1>3. PICK j \in 1 .. Cardinality(S) : j = Rank(S, i) + 1
  BY <1>2
<1>4. Place(F, i) = <<m, j>>
  BY <1>3 DEF Place
<1>5. Nth(S, j) = i /\ j \in DOMAIN Build(F).fields[m]
      /\ Build(F).fields[m][j] = F[i]
  BY <1>1, <1>2, <1>3, ProducedByFacts
<1>6. Place(F, i) \in Positions(Build(F))
  BY <1>1, <1>4, <1>5 DEF Positions
<1> QED BY <1>4, <1>5, <1>6

(* There are no other positions.                                           *)
LEMMA PlacesAreAll ==
  ASSUME NEW F, IsFieldList(F), NEW p \in Positions(Build(F))
  PROVE  \E i \in DOMAIN F : Place(F, i) = p
<1>0. PICK m \in ModuleSet : p \in {m} \X DOMAIN Build(F).fields[m]
  BY DEF Positions
<1>1. PICK j \in DOMAIN Build(F).fields[m] : p = <<m, j>>
  BY <1>0
<1>2. /\ j \in 1 .. Cardinality(ProducedBy(F, m))
      /\ Nth(ProducedBy(F, m), j) \in ProducedBy(F, m)
  BY <1>1, ProducedByFacts
<1>3. PICK i \in ProducedBy(F, m) : i = Nth(ProducedBy(F, m), j)
  BY <1>2
<1>4. Rank(ProducedBy(F, m), i) = j - 1
  BY <1>2, <1>3, ProducedByFacts, NthIsThere
<1>5. Rank(ProducedBy(F, m), i) + 1 = j
  BY <1>2, <1>4
<1>6. i \in DOMAIN F /\ F[i].producer = m
  BY DEF ProducedBy
<1> QED BY <1>1, <1>5, <1>6 DEF Place

(* A schema has as many positions as it was built from fields.             *)
LEMMA PositionsOfBuilt ==
  ASSUME NEW F, IsFieldList(F)
  PROVE  /\ IsFiniteSet(Positions(Build(F)))
         /\ Cardinality(Positions(Build(F))) = Len(F)
<1> DEFINE f == [i \in DOMAIN F |-> Place(F, i)]
<1>1. IsFiniteSet(DOMAIN F) /\ Cardinality(DOMAIN F) = Len(F)
  BY ListFacts DEF IsFieldList
<1>2. f \in [DOMAIN F -> Positions(Build(F))]
  BY PlaceFacts
<1>3. \A i, j \in DOMAIN F : Place(F, i) = Place(F, j) => i = j
  <2> SUFFICES ASSUME NEW i \in DOMAIN F, NEW j \in DOMAIN F,
                      Place(F, i) = Place(F, j)
               PROVE  i = j
    OBVIOUS
  <2>1. F[i].producer = F[j].producer
    BY PlaceFacts
  <2>2. Nth(ProducedBy(F, F[i].producer), Place(F, i)[2]) = i
    BY PlaceFacts
  <2>3. Nth(ProducedBy(F, F[j].producer), Place(F, j)[2]) = j
    BY PlaceFacts
  <2> QED BY <2>1, <2>2, <2>3
<1>4. \A p \in Positions(Build(F)) : \E i \in DOMAIN F : f[i] = p
  BY PlacesAreAll
<1>5. \A i, j \in DOMAIN F : f[i] = f[j] => i = j
  BY <1>3
<1>6. QED
  <2> HIDE DEF f
  <2> QED BY <1>1, <1>2, <1>4, <1>5, SameSize

(* No two fields of one name.                                              *)
NamesDiffer(F) ==
  \A i, j \in DOMAIN F : i # j => F[i].name # F[j].name

(* Names clash in the schema when they clash in the list.                  *)
LEMMA DuplicatesOfBuilt ==
  ASSUME NEW F, IsFieldList(F)
  PROVE  DuplicateName(Build(F)) <=> ~NamesDiffer(F)
<1> DEFINE B == Build(F)
           name(p) == B.fields[p[1]][p[2]].name
<1>1. ASSUME NEW i \in DOMAIN F, NEW j \in DOMAIN F, i # j,
             F[i].name = F[j].name
      PROVE  DuplicateName(B)
  <2>1. Place(F, i) # Place(F, j)
    BY <1>1, PlaceFacts
  <2>2. name(Place(F, i)) = name(Place(F, j))
    BY <1>1, PlaceFacts
  <2> QED BY <2>1, <2>2, PlaceFacts DEF DuplicateName
<1>2. ASSUME NEW p \in Positions(B), NEW q \in Positions(B), p # q,
             name(p) = name(q)
      PROVE  ~NamesDiffer(F)
  <2>1. PICK i \in DOMAIN F : Place(F, i) = p
    BY PlacesAreAll
  <2>2. PICK j \in DOMAIN F : Place(F, j) = q
    BY PlacesAreAll
  <2>3. F[i].name = F[j].name
    BY <1>2, <2>1, <2>2, PlaceFacts
  <2> QED BY <1>2, <2>1, <2>2, <2>3 DEF NamesDiffer
<1> QED BY <1>1, <1>2 DEF NamesDiffer, DuplicateName

(* FieldsOfBuilt, field by field.                                          *)
LEMMA EachFieldOfBuilt ==
  ASSUME NEW F, IsFieldList(F)
  PROVE  /\ \A f \in Fields(Build(F)) : \E i \in DOMAIN F : f = F[i]
         /\ \A i \in DOMAIN F : F[i] \in Fields(Build(F))
<1>1. ToSet(F) = {F[i] : i \in DOMAIN F}
  BY DEF ToSet
<1> QED BY <1>1, FieldsOfBuilt

(* So has a list of fields its uses.                                       *)
LEMMA UsesAreFinite ==
  ASSUME NEW F, IsFieldList(F)
  PROVE  IsFiniteSet(Uses(F)) /\ Cardinality(Uses(F)) \in Nat
<1>1. Uses(F) \in SUBSET ((DOMAIN F) \X ModuleSet)
  BY DEF Uses, IsFieldList
<1>2. IsFiniteSet(ModuleSet)
  BY ModulesAssumption, ListSetFinite DEF ModuleSet
<1>3. IsFiniteSet(DOMAIN F)
  BY ListFacts DEF IsFieldList
<1>4. IsFiniteSet((DOMAIN F) \X ModuleSet)
  BY <1>2, <1>3, FS_Product
<1> QED BY <1>1, <1>4, FS_Subset, FS_CardinalityType

(* The rules of a built schema are the uses of its fields.                 *)
LEMMA RulesOfBuilt ==
  ASSUME NEW F, IsFieldList(F)
  PROVE  /\ Len(Build(F).rules) = Cardinality(Uses(F))
         /\ \A r \in ToSet(Build(F).rules) : \E i \in DOMAIN F :
              /\ r.field = F[i].name
              /\ r.consumer \in F[i].consumers
         /\ \A i \in DOMAIN F : \A c \in F[i].consumers :
              [consumer |-> c, field |-> F[i].name] \in ToSet(Build(F).rules)
<1> DEFINE uses == SetToSeq(Uses(F))
           n == Cardinality(Uses(F))
           rule(u) == [consumer |-> u[2], field |-> F[u[1]].name]
           rules == [j \in DOMAIN uses |-> rule(uses[j])]
<1>1. Build(F).rules = rules
  BY DEF Build
<1>2. /\ n \in Nat /\ DOMAIN uses = 1 .. n
      /\ \A j \in 1 .. n : uses[j] \in Uses(F)
      /\ \A u \in Uses(F) : \E j \in 1 .. n : uses[j] = u
  BY UsesAreFinite, SetToSeqFacts
<1>3. \A u \in Uses(F) : u[1] \in DOMAIN F /\ u[2] \in F[u[1]].consumers
  BY DEF Uses
<1>4. \A i \in DOMAIN F : \A c \in F[i].consumers : <<i, c>> \in Uses(F)
  BY DEF Uses
<1>5. rules \in [1 .. n -> {rule(u) : u \in Uses(F)}]
  BY <1>2
<1>6. Len(rules) = n /\ DOMAIN rules = 1 .. n
  <2> HIDE DEF rules, n
  <2> QED BY <1>2, <1>5, ListMade
<1>7. ASSUME NEW r \in ToSet(rules)
      PROVE  \E i \in DOMAIN F : r.field = F[i].name
                                 /\ r.consumer \in F[i].consumers
  <2>1. PICK j \in 1 .. n : r = rules[j]
    BY <1>6 DEF ToSet
  <2>2. r = rule(uses[j]) /\ uses[j] \in Uses(F)
    BY <1>2, <2>1
  <2> QED BY <1>3, <2>2
<1>8. ASSUME NEW i \in DOMAIN F, NEW c \in F[i].consumers
      PROVE  [consumer |-> c, field |-> F[i].name] \in ToSet(rules)
  <2>1. PICK j \in 1 .. n : uses[j] = <<i, c>>
    BY <1>2, <1>4
  <2>2. rules[j] = [consumer |-> c, field |-> F[i].name]
    BY <1>2, <2>1
  <2> QED BY <1>6, <2>2 DEF ToSet
<1> QED BY <1>1, <1>6, <1>7, <1>8

(* Every name has a validator that is not "".                              *)
LEMMA NamesOfBuilt ==
  ASSUME NEW F, IsFieldList(F)
  PROVE  /\ Names(Build(F)) = {f.name : f \in ToSet(F)}
         /\ DOMAIN Build(F).validators = Names(Build(F))
         /\ \A n \in Names(Build(F)) :
              Build(F).validators[n] # NoValidator
<1>1. Names(Build(F)) = {f.name : f \in ToSet(F)}
  BY FieldsOfBuilt DEF Names
<1>2. Build(F).validators = [n \in {f.name : f \in ToSet(F)} |->
                               DefaultValidator]
  BY DEF Build
<1>3. DefaultValidator # NoValidator
  BY DEF DefaultValidator, NoValidator, Validator
<1> QED BY <1>1, <1>2, <1>3

(* All that can be wrong with what is built is that two names clash.       *)
LEMMA FaultsOfBuilt ==
  ASSUME NEW F, IsFieldList(F)
  PROVE  Faults(Build(F)) = {} <=> NamesDiffer(F)
<1> DEFINE B == Build(F)
<1>1. \A f \in Fields(B) : \E i \in DOMAIN F : f = F[i]
  BY EachFieldOfBuilt
<1>2. ~FaultyEnum(B)
  BY <1>1 DEF FaultyEnum, IsFieldList
<1>3. ~Unconsumed(B)
  BY <1>1 DEF Unconsumed, IsFieldList
<1>4. ~WrongProducer(B)
  <2>1. ASSUME NEW m \in ModuleSet, NEW f \in ToSet(B.fields[m])
        PROVE  f.producer = m
    <3>1. \E i \in ProducedBy(F, m) : f = F[i]
      BY ProducedByFacts
    <3> QED BY <3>1 DEF ProducedBy
  <2> QED BY <2>1 DEF WrongProducer
<1>5. ~DanglingRule(B)
  <2>1. \A r \in ToSet(B.rules) : \E i \in DOMAIN F : r.field = F[i].name
    BY RulesOfBuilt
  <2>2. \A i \in DOMAIN F : F[i].name \in Names(B)
    BY NamesOfBuilt DEF ToSet
  <2> QED BY <2>1, <2>2 DEF DanglingRule
<1>6. ~DanglingValidator(B)
  BY NamesOfBuilt DEF DanglingValidator
<1>7. DuplicateName(B) <=> ~NamesDiffer(F)
  BY DuplicatesOfBuilt
<1>8. Faults(B) = {} <=> NamesDiffer(F)
  <2> HIDE DEF B
  <2> QED BY <1>2, <1>3, <1>4, <1>5, <1>6, <1>7 DEF Faults
<1> QED BY <1>8

(* What a built schema costs.                                              *)
LEMMA CostOfBuilt ==
  ASSUME NEW F, IsFieldList(F), NamesDiffer(F)
  PROVE  TokenCost(Build(F)) = FieldTokens * Len(F)
                                 + RuleTokens * Cardinality(Uses(F))
                                 + ValidatorTokens * Len(F)
<1> DEFINE B == Build(F)
           V == {n \in DOMAIN B.validators : B.validators[n] # NoValidator}
           f == [i \in DOMAIN F |-> F[i].name]
<1>1. V = {x.name : x \in ToSet(F)}
  BY NamesOfBuilt
<1>2. IsFiniteSet(DOMAIN F) /\ Cardinality(DOMAIN F) = Len(F)
  BY ListFacts DEF IsFieldList
<1>3. f \in [DOMAIN F -> V] /\ \A t \in V : \E i \in DOMAIN F : f[i] = t
  BY <1>1 DEF ToSet
<1>4. \A i, j \in DOMAIN F : f[i] = f[j] => i = j
  BY DEF NamesDiffer
<1>5. Cardinality(V) = Len(F)
  <2> HIDE DEF V, f
  <2> QED BY <1>2, <1>3, <1>4, SameSize
<1>6. Cardinality(Positions(B)) = Len(F) /\ Len(B.rules) = Cardinality(Uses(F))
  BY PositionsOfBuilt, RulesOfBuilt
<1> QED BY <1>5, <1>6 DEF TokenCost

(* What decides whether a built schema is kept.                            *)
LEMMA KeptOfBuilt ==
  ASSUME NEW F, IsFieldList(F)
  PROVE  Kept(Build(F)) <=>
           /\ Len(F) # 0 /\ NamesDiffer(F)
           /\ Len(F) <= MaxTotalFields
           /\ FieldTokens * Len(F) + RuleTokens * Cardinality(Uses(F))
                + ValidatorTokens * Len(F) <= MaxSchemaTokens
           /\ \A m \in ModuleSet :
                Cardinality(ProducedBy(F, m)) <= MaxFieldsPerModule
           /\ \A i \in DOMAIN F : Len(F[i].name) <= MaxNameWords
<1> DEFINE B == Build(F)
<1>1. Fields(B) # {} <=> Len(F) # 0
  <2>1. Len(F) \in Nat /\ DOMAIN F = 1 .. Len(F)
    BY ListFacts DEF IsFieldList
  <2>2. DOMAIN F = {} <=> Len(F) = 0
    BY <2>1
  <2> QED BY <2>2, EachFieldOfBuilt
<1>2. Faults(B) = {} <=> NamesDiffer(F)
  BY FaultsOfBuilt
<1>3. Cardinality(Positions(B)) = Len(F)
  BY PositionsOfBuilt
<1>4. \A m \in ModuleSet : Len(B.fields[m]) = Cardinality(ProducedBy(F, m))
  BY ProducedByFacts
<1>5. (\A f \in Fields(B) : Len(f.name) <= MaxNameWords
                              /\ f.consumers \subseteq ModuleSet)
      <=> \A i \in DOMAIN F : Len(F[i].name) <= MaxNameWords
  BY EachFieldOfBuilt DEF IsFieldList
<1>6. \A r \in ToSet(B.rules) : r.consumer \in ModuleSet
  BY RulesOfBuilt DEF IsFieldList
<1>7. StaticOK(B, MaxSchemaTokens) <=>
        /\ Len(F) <= MaxTotalFields
        /\ TokenCost(B) <= MaxSchemaTokens
        /\ \A m \in ModuleSet :
             Cardinality(ProducedBy(F, m)) <= MaxFieldsPerModule
        /\ \A i \in DOMAIN F : Len(F[i].name) <= MaxNameWords
  <2> HIDE DEF B
  <2> QED BY <1>3, <1>4, <1>5, <1>6 DEF StaticOK
<1> QED BY <1>1, <1>2, <1>7, CostOfBuilt DEF Kept

-----------------------------------------------------------------------------
(* The proposer: from the items of a proposal to its fields.               *)

(* What ProposalsAssumption says of the items of a proposal.               *)
IsItems(items) ==
  IsList(items) /\ \A k \in DOMAIN items : IsItem(items[k])

(* A usable item becomes a field with which nothing is wrong.              *)
LEMMA ReadItemFacts ==
  ASSUME NEW item, IsItem(item), ~Broken(item)
  PROVE  LET f == ReadItem(item) IN
         /\ f.name = item.name
         /\ f.producer \in ModuleSet
         /\ f.consumers # {} /\ f.consumers \subseteq ModuleSet
         /\ ~((f.type = "enum") # (f.enum # {}))
<1>1. Len(Modules) \in Nat /\ DOMAIN Modules = 1 .. Len(Modules)
  BY ModulesAssumption, ListFacts
<1>2. 1 \in DOMAIN Modules /\ Len(Modules) \in DOMAIN Modules
  BY <1>1, ModulesAssumption
<1>3. Modules[1] \in ModuleSet /\ Modules[Len(Modules)] \in ModuleSet
  BY <1>2 DEF ModuleSet, ToSet
<1> QED BY <1>3 DEF ReadItem, Broken, Last

(* The fields that are read are the usable items, in their order.          *)
LEMMA ReadFacts ==
  ASSUME NEW items, IsItems(items)
  PROVE  /\ Good(items) \in SUBSET Nat /\ IsFiniteSet(Good(items))
         /\ Cardinality(Good(items)) \in Nat
         /\ IsFieldList(ReadItems(items))
         /\ Len(ReadItems(items)) = Cardinality(Good(items))
         /\ DOMAIN ReadItems(items) = 1 .. Cardinality(Good(items))
         /\ \A j \in 1 .. Cardinality(Good(items)) :
              /\ Nth(Good(items), j) \in Good(items)
              /\ ReadItems(items)[j] = ReadItem(items[Nth(Good(items), j)])
<1> DEFINE G == Good(items)
           n == Cardinality(G)
           F == ReadItems(items)
<1>1. G \in SUBSET (DOMAIN items) /\ IsList(items)
  BY DEF Good, IsItems
<1>2. /\ G \in SUBSET Nat /\ IsFiniteSet(G) /\ n \in Nat
      /\ DOMAIN Picked(items, G) = 1 .. n
      /\ \A j \in 1 .. n : /\ Nth(G, j) \in G
                           /\ Picked(items, G)[j] = items[Nth(G, j)]
  BY <1>1, PickedFacts
<1>3. F = [j \in 1 .. n |-> ReadItem(items[Nth(G, j)])]
  <2> HIDE DEF n, G
  <2>1. F = [j \in DOMAIN Picked(items, G) |-> ReadItem(Picked(items, G)[j])]
    BY DEF ReadItems, G
  <2> QED BY <2>1, <1>2
<1>4. \A j \in 1 .. n :
        LET f == ReadItem(items[Nth(G, j)]) IN
        /\ f.producer \in ModuleSet
        /\ f.consumers # {} /\ f.consumers \subseteq ModuleSet
        /\ ~((f.type = "enum") # (f.enum # {}))
  <2>1. \A k \in G : IsItem(items[k]) /\ ~Broken(items[k])
    BY DEF Good, IsItems
  <2> QED BY <1>2, <2>1, ReadItemFacts
<1>5. F \in [1 .. n -> {F[j] : j \in 1 .. n}]
  BY <1>3
<1>6. IsList(F) /\ Len(F) = n /\ DOMAIN F = 1 .. n
  <2> HIDE DEF F, n
  <2> QED BY <1>2, <1>5, ListMade
<1>7. IsFieldList(F)
  BY <1>3, <1>4, <1>6 DEF IsFieldList
<1> QED BY <1>2, <1>3, <1>6, <1>7

(* Every usable item is read, and one after the other.                     *)
LEMMA ReadEach ==
  ASSUME NEW items, IsItems(items), NEW k \in Good(items)
  PROVE  \E j \in DOMAIN ReadItems(items) :
           /\ Nth(Good(items), j) = k
           /\ ReadItems(items)[j] = ReadItem(items[k])
<1>1. PICK j \in 1 .. Cardinality(Good(items)) : Nth(Good(items), j) = k
  <2>1. Good(items) \in SUBSET Nat /\ IsFiniteSet(Good(items))
    BY ReadFacts
  <2> QED BY <2>1, NthIsEvery
<1> QED BY <1>1, ReadFacts

(* No item is read twice.                                                  *)
LEMMA ReadOneToOne ==
  ASSUME NEW items, IsItems(items), NEW i \in DOMAIN ReadItems(items),
         NEW j \in DOMAIN ReadItems(items),
         Nth(Good(items), i) = Nth(Good(items), j)
  PROVE  i = j
<1>1. /\ Good(items) \in SUBSET Nat /\ IsFiniteSet(Good(items))
      /\ DOMAIN ReadItems(items) = 1 .. Cardinality(Good(items))
  BY ReadFacts
<1> QED BY <1>1, NthIsOneToOne

(* As many fields of each producer as usable items.                        *)
LEMMA ProducersRead ==
  ASSUME NEW items, IsItems(items), NEW m \in ModuleSet
  PROVE  Cardinality(ProducedBy(ReadItems(items), m)) =
           Cardinality({k \in Good(items) : ReadItem(items[k]).producer = m})
<1> DEFINE F == ReadItems(items)
           G == Good(items)
           S == ProducedBy(F, m)
           T == {k \in G : ReadItem(items[k]).producer = m}
           f == [j \in S |-> Nth(G, j)]
<1>1. IsFieldList(F) /\ \A j \in DOMAIN F : Nth(G, j) \in G
                          /\ F[j] = ReadItem(items[Nth(G, j)])
  BY ReadFacts
<1>2. S \subseteq DOMAIN F /\ \A j \in S : F[j].producer = m
  BY DEF ProducedBy
<1>3. f \in [S -> T]
  BY <1>1, <1>2
<1>4. \A x, y \in S : f[x] = f[y] => x = y
  BY <1>2, ReadOneToOne
<1>5. \A t \in T : \E x \in S : f[x] = t
  <2> TAKE t \in T
  <2>1. PICK j \in DOMAIN F : Nth(G, j) = t /\ F[j] = ReadItem(items[t])
    BY ReadEach
  <2>2. j \in S
    BY <2>1 DEF ProducedBy
  <2> QED BY <2>1, <2>2
<1>6. IsFiniteSet(S)
  BY <1>1, ProducedByFacts
<1>7. Cardinality(T) = Cardinality(S)
  <2> HIDE DEF S, T, f
  <2> QED BY <1>3, <1>4, <1>5, <1>6, SameSize
<1> QED BY <1>7

(* As many uses.                                                           *)
LEMMA UsesRead ==
  ASSUME NEW items, IsItems(items)
  PROVE  Cardinality(Uses(ReadItems(items))) =
           Cardinality(UNION {{k} \X ReadItem(items[k]).consumers :
                                k \in Good(items)})
<1> DEFINE F == ReadItems(items)
           G == Good(items)
           S == Uses(F)
           T == UNION {{k} \X ReadItem(items[k]).consumers : k \in G}
           f == [u \in S |-> <<Nth(G, u[1]), u[2]>>]
<1>1. IsFieldList(F) /\ \A j \in DOMAIN F : Nth(G, j) \in G
                          /\ F[j] = ReadItem(items[Nth(G, j)])
  BY ReadFacts
<1>2. \A u \in S : u = <<u[1], u[2]>> /\ u[1] \in DOMAIN F
                     /\ u[2] \in F[u[1]].consumers
  BY DEF Uses
<1>3. \A j \in DOMAIN F : \A c \in F[j].consumers : <<j, c>> \in S
  BY DEF Uses
<1>4. \A u \in S : <<Nth(G, u[1]), u[2]>> \in T
  BY <1>1, <1>2
<1>5. f \in [S -> T]
  BY <1>4
<1>6. \A x, y \in S : f[x] = f[y] => x = y
  <2> SUFFICES ASSUME NEW x \in S, NEW y \in S, f[x] = f[y] PROVE x = y
    OBVIOUS
  <2>1. Nth(G, x[1]) = Nth(G, y[1]) /\ x[2] = y[2]
    OBVIOUS
  <2>2. x[1] = y[1]
    BY <1>2, <2>1, ReadOneToOne
  <2> QED BY <1>2, <2>1, <2>2
<1>7. \A t \in T : \E x \in S : f[x] = t
  <2> TAKE t \in T
  <2>1. PICK k \in G : t \in {k} \X ReadItem(items[k]).consumers
    OBVIOUS
  <2>2. PICK c \in ReadItem(items[k]).consumers : t = <<k, c>>
    BY <2>1
  <2>3. PICK j \in DOMAIN F : Nth(G, j) = k /\ F[j] = ReadItem(items[k])
    BY ReadEach
  <2>4. <<j, c>> \in S
    BY <1>3, <2>2, <2>3
  <2> QED BY <2>2, <2>3, <2>4
<1>8. IsFiniteSet(S)
  BY <1>1, UsesAreFinite
<1>9. Cardinality(T) = Cardinality(S)
  <2> HIDE DEF S, T, f
  <2> QED BY <1>5, <1>6, <1>7, <1>8, SameSize
<1> QED BY <1>9

(* The same names.                                                         *)
LEMMA NamesRead ==
  ASSUME NEW items, IsItems(items)
  PROVE  /\ NamesDiffer(ReadItems(items)) <=>
              \A k, l \in Good(items) :
                k # l => ReadItem(items[k]).name # ReadItem(items[l]).name
         /\ (\A i \in DOMAIN ReadItems(items) :
               Len(ReadItems(items)[i].name) <= MaxNameWords) <=>
              \A k \in Good(items) :
                Len(ReadItem(items[k]).name) <= MaxNameWords
<1> DEFINE F == ReadItems(items)
           G == Good(items)
<1>1. \A j \in DOMAIN F : Nth(G, j) \in G /\ F[j] = ReadItem(items[Nth(G, j)])
  BY ReadFacts
<1>2. \A k \in G : \E j \in DOMAIN F :
        Nth(G, j) = k /\ F[j] = ReadItem(items[k])
  BY ReadEach
<1>3. \A i, j \in DOMAIN F : Nth(G, i) = Nth(G, j) => i = j
  BY ReadOneToOne
<1>4. NamesDiffer(F) <=>
        \A k, l \in G :
          k # l => ReadItem(items[k]).name # ReadItem(items[l]).name
  <2> HIDE DEF F, G
  <2> QED BY <1>1, <1>2, <1>3 DEF NamesDiffer
<1>5. (\A i \in DOMAIN F : Len(F[i].name) <= MaxNameWords) <=>
        \A k \in G : Len(ReadItem(items[k]).name) <= MaxNameWords
  <2> HIDE DEF F, G
  <2> QED BY <1>1, <1>2
<1> QED BY <1>4, <1>5

(* A proposal is kept exactly when it is usable.                           *)
LEMMA UsableIsKept ==
  ASSUME NEW proposal, IsItems(proposal.items)
  PROVE  Kept(Build(ReadItems(proposal.items))) <=> Usable(proposal)
<1> DEFINE F == ReadItems(proposal.items)
           G == Good(proposal.items)
           n == Cardinality(G)
           U == UNION {{k} \X ReadItem(proposal.items[k]).consumers : k \in G}
<1>1. /\ IsFieldList(F) /\ Len(F) = n /\ n \in Nat
      /\ (n = 0 <=> G = {})
  BY ReadFacts, FS_EmptySet
<1>2. Cardinality(Uses(F)) = Cardinality(U)
  BY UsesRead
<1>3. (\A m \in ModuleSet :
         Cardinality(ProducedBy(F, m)) <= MaxFieldsPerModule)
      <=> \A m \in ModuleSet :
            Cardinality({k \in G : ReadItem(proposal.items[k]).producer = m})
              <= MaxFieldsPerModule
  BY ProducersRead
<1>4. Usable(proposal) <=>
        /\ G # {} /\ FieldTokens * n + RuleTokens * Cardinality(U)
                       + ValidatorTokens * n <= MaxSchemaTokens
        /\ n <= MaxTotalFields
        /\ \A m \in ModuleSet :
             Cardinality({k \in G : ReadItem(proposal.items[k]).producer = m})
               <= MaxFieldsPerModule
        /\ \A k \in G : Len(ReadItem(proposal.items[k]).name) <= MaxNameWords
        /\ \A k, l \in G : k # l => ReadItem(proposal.items[k]).name
                                      # ReadItem(proposal.items[l]).name
  BY DEF Usable
<1>5. Kept(Build(F)) <=>
        /\ n # 0 /\ NamesDiffer(F)
        /\ n <= MaxTotalFields
        /\ FieldTokens * n + RuleTokens * Cardinality(U)
             + ValidatorTokens * n <= MaxSchemaTokens
        /\ \A m \in ModuleSet :
             Cardinality(ProducedBy(F, m)) <= MaxFieldsPerModule
        /\ \A i \in DOMAIN F : Len(F[i].name) <= MaxNameWords
  BY <1>1, <1>2, KeptOfBuilt
<1> QED BY <1>1, <1>3, <1>4, <1>5, NamesRead

-----------------------------------------------------------------------------
(* The proposer: from proposals to what is returned. Between a request and *)
(* the next step of the driver, returned is what the response asks for.    *)

(* What ProposalsAssumption says of the proposals of a payload.            *)
AreProposals(proposals) ==
  IsList(proposals) /\ \A i \in DOMAIN proposals : IsItems(proposals[i].items)

UsableOf(proposals) == {i \in DOMAIN proposals : Usable(proposals[i])}

(* The candidates of a payload are its usable proposals, in their order,   *)
(* each with its index and hence no two of them equal.                     *)
LEMMA CandidatesFacts ==
  ASSUME NEW proposals, AreProposals(proposals),
         CandidatesOf(proposals) # Failed
  PROVE  LET U == UsableOf(proposals)
             found == CandidatesOf(proposals) IN
         /\ Cardinality(U) \in Nat /\ Len(found) = Cardinality(U)
         /\ \A j \in 1 .. Cardinality(U) :
              /\ Nth(U, j) \in U /\ Rank(U, Nth(U, j)) = j - 1
              /\ found[j] = Candidate(proposals, Nth(U, j))
         /\ Dedupe(found) = found
<1> DEFINE U == UsableOf(proposals)
           n == Cardinality(U)
           made == [i \in DOMAIN proposals |-> Candidate(proposals, i)]
           found == CandidatesOf(proposals)
<1>1. found = Picked(made, {i \in DOMAIN made : Kept(made[i].schema)})
  BY DEF CandidatesOf
<1>2. \A i \in DOMAIN proposals :
        Kept(made[i].schema) <=> Usable(proposals[i])
  BY UsableIsKept DEF AreProposals, Candidate
<1>3. found = Picked(made, U)
  <2>1. {i \in DOMAIN made : Kept(made[i].schema)} = U
    BY <1>2 DEF UsableOf
  <2> QED BY <1>1, <2>1
<1>4. IsList(made) /\ DOMAIN made = DOMAIN proposals
  <2>1. Len(proposals) \in Nat /\ DOMAIN proposals = 1 .. Len(proposals)
    BY ListFacts DEF AreProposals
  <2>2. made \in [1 .. Len(proposals) ->
                    {Candidate(proposals, i) : i \in 1 .. Len(proposals)}]
    BY <2>1
  <2>3. IsList(made)
    <3> HIDE DEF made
    <3> QED BY <2>1, <2>2, ListMade
  <2> QED BY <2>3
<1>5. U \in SUBSET (DOMAIN made)
  BY <1>4 DEF UsableOf
<1>6. /\ U \in SUBSET Nat /\ IsFiniteSet(U) /\ n \in Nat
      /\ IsList(found) /\ Len(found) = n /\ DOMAIN found = 1 .. n
      /\ \A j \in 1 .. n : Nth(U, j) \in U /\ found[j] = made[Nth(U, j)]
  <2> HIDE DEF made, U
  <2> QED BY <1>3, <1>4, <1>5, PickedFacts
<1>7. \A j \in 1 .. n : /\ Rank(U, Nth(U, j)) = j - 1
                        /\ found[j] = Candidate(proposals, Nth(U, j))
  <2>1. \A j \in 1 .. n : Nth(U, j) \in DOMAIN proposals
    BY <1>6 DEF UsableOf
  <2>2. \A j \in 1 .. n : Rank(U, Nth(U, j)) = j - 1
    <3> HIDE DEF U
    <3> QED BY <1>6, NthIsThere
  <2> QED BY <1>6, <2>1, <2>2
<1>8. \A j \in 1 .. n : found[j].index = Nth(U, j)
  <2>1. \A i : Candidate(proposals, i).index = i
    BY DEF Candidate
  <2> HIDE DEF found, U
  <2> QED BY <1>7, <2>1
<1>9. \A h, i \in 1 .. n : h # i => found[h] # found[i]
  <2> SUFFICES ASSUME NEW h \in 1 .. n, NEW i \in 1 .. n, found[h] = found[i]
               PROVE  h = i
    OBVIOUS
  <2>1. Nth(U, h) = Nth(U, i)
    BY <1>8
  <2> HIDE DEF U
  <2> QED BY <1>6, <2>1, NthIsOneToOne
<1>10. Dedupe(found) = found
  <2> HIDE DEF found, U
  <2> QED BY <1>6, <1>9, DistinctIsAll DEF Dedupe
<1> QED BY <1>6, <1>7, <1>10

(* Each candidate has the usable fields of its proposal, and a rule for    *)
(* every consumer of each.                                                 *)
LEMMA CandidateIsWhole ==
  ASSUME NEW proposals, NEW i \in DOMAIN proposals,
         IsItems(proposals[i].items)
  PROVE  LET s == Candidate(proposals, i).schema IN
         /\ Names(s) = {proposals[i].items[k].name :
                          k \in Good(proposals[i].items)}
         /\ \A f \in Fields(s) : \A c \in f.consumers :
              [consumer |-> c, field |-> f.name] \in ToSet(s.rules)
<1> DEFINE items == proposals[i].items
           F == ReadItems(items)
           s == Build(F)
<1>1. Candidate(proposals, i).schema = s
  BY DEF Candidate
<1>2. IsFieldList(F) /\ \A j \in DOMAIN F : Nth(Good(items), j) \in Good(items)
                          /\ F[j] = ReadItem(items[Nth(Good(items), j)])
  BY ReadFacts
<1>3. \A k \in Good(items) : ReadItem(items[k]).name = items[k].name
  BY DEF ReadItem
<1>4. \A f \in Fields(s) : \E j \in DOMAIN F : f = F[j]
  BY <1>2, EachFieldOfBuilt
<1>5. \A j \in DOMAIN F : F[j] \in Fields(s)
  BY <1>2, EachFieldOfBuilt
<1>6. Names(s) = {items[k].name : k \in Good(items)}
  <2>1. ASSUME NEW x \in Names(s)
        PROVE  \E k \in Good(items) : x = items[k].name
    <3>1. PICK f \in Fields(s) : x = f.name
      BY <2>1 DEF Names
    <3>2. PICK j \in DOMAIN F : f = F[j]
      BY <1>4
    <3> QED BY <1>2, <1>3, <3>1, <3>2
  <2>2. ASSUME NEW k \in Good(items) PROVE items[k].name \in Names(s)
    <3>1. PICK j \in DOMAIN F : F[j] = ReadItem(items[k])
      BY ReadEach
    <3> QED BY <1>3, <1>5, <3>1 DEF Names
  <2> QED BY <2>1, <2>2
<1>7. \A f \in Fields(s) : \A c \in f.consumers :
        [consumer |-> c, field |-> f.name] \in ToSet(s.rules)
  BY <1>2, <1>4, RulesOfBuilt
<1> QED BY <1>1, <1>6, <1>7

(* Between a request and the next step of the driver, returned is what the *)
(* response asks for.                                                      *)
Answered ==
  asked.n = 0 \/ (/\ asked.response \in Responses /\ asked.n \in Requested
                  /\ returned = Proposed(asked.response, asked.n))

(* The initial state.                                                      *)
LEMMA AnsweredInit == Init => Answered
  BY DEF Init, Answered, NoRequest

(* Every step: a request is answered, the driver goes on and forgets it.   *)
LEMMA AnsweredNext == Answered /\ [Next]_vars => Answered'
<1> SUFFICES ASSUME Answered, [Next]_vars PROVE Answered'
  OBVIOUS
<1>1. CASE PassOn BY <1>1 DEF PassOn, Answered, NoRequest
<1>2. CASE Propose BY <1>2 DEF Propose, Answered
<1>3. CASE UNCHANGED vars BY <1>3 DEF vars, Answered
<1>4. QED BY <1>1, <1>2, <1>3
          DEF Next, BeginRun, RecordProposal, BeginRound, RecordReflection

(* What is made of a response.                                             *)
LEMMA ProposedFacts ==
  ASSUME NEW response \in Responses, NEW n \in Requested, n > 0,
         Proposed(response, n) # Failed
  PROVE  LET U == UsableOf(response.proposals)
             len == IF n < Cardinality(U) THEN n ELSE Cardinality(U)
             result == Proposed(response, n) IN
         /\ AreProposals(response.proposals)
         /\ Len(result) = len /\ DOMAIN result = 1 .. len
         /\ \A j \in 1 .. len :
              /\ Nth(U, j) \in U /\ Rank(U, Nth(U, j)) = j - 1
              /\ result[j] = Candidate(response.proposals, Nth(U, j))
<1> DEFINE proposals == response.proposals
           U == UsableOf(proposals)
           c == Cardinality(U)
           len == IF n < c THEN n ELSE c
           found == CandidatesOf(proposals)
           result == Proposed(response, n)
<1>1. AreProposals(proposals) /\ n \in Nat
  BY ProposalsAssumption DEF AreProposals, IsItems
<1>2. found # Failed /\ result = FirstN(Dedupe(found), n)
  BY <1>1 DEF Proposed
<1>3. /\ c \in Nat /\ Len(found) = c
      /\ \A j \in 1 .. c :
           /\ Nth(U, j) \in U /\ Rank(U, Nth(U, j)) = j - 1
           /\ found[j] = Candidate(proposals, Nth(U, j))
      /\ Dedupe(found) = found
  BY <1>1, <1>2, CandidatesFacts
<1>4. result = [j \in 1 .. len |-> found[j]]
  BY <1>2, <1>3 DEF FirstN
<1>5. len \in Nat /\ 1 .. len \subseteq 1 .. c
  BY <1>1, <1>3
<1>6. result \in [1 .. len -> {found[j] : j \in 1 .. len}]
  BY <1>4
<1>7. Len(result) = len /\ DOMAIN result = 1 .. len
  <2> HIDE DEF result, len
  <2> QED BY <1>5, <1>6, ListMade
<1> QED BY <1>1, <1>3, <1>4, <1>5, <1>7

(* The first usable proposals are returned, each with all its usable       *)
(* fields.                                                                 *)
LEMMA AnsweredReturns == Answered => ReturnedAreTheUsable
<1> SUFFICES ASSUME Answered, returned # Failed, asked.n > 0
             PROVE  ReturnedAreTheUsable
  BY DEF ReturnedAreTheUsable
<1> DEFINE proposals == asked.response.proposals
           U == UsableOf(proposals)
           len == IF asked.n < Cardinality(U) THEN asked.n ELSE Cardinality(U)
<1>1. /\ asked.response \in Responses /\ asked.n \in Requested
      /\ returned = Proposed(asked.response, asked.n)
  BY DEF Answered
<1>2. /\ AreProposals(proposals)
      /\ Len(returned) = len /\ DOMAIN returned = 1 .. len
      /\ \A j \in 1 .. len :
           /\ Nth(U, j) \in U /\ Rank(U, Nth(U, j)) = j - 1
           /\ returned[j] = Candidate(proposals, Nth(U, j))
  BY <1>1, ProposedFacts
<1>3. ASSUME NEW j \in DOMAIN returned
      PROVE  LET i == returned[j].index
                 s == returned[j].schema IN
             /\ i \in U /\ Rank(U, i) = j - 1
             /\ Names(s) = {proposals[i].items[k].name :
                              k \in Good(proposals[i].items)}
             /\ \A f \in Fields(s) : \A c \in f.consumers :
                  [consumer |-> c, field |-> f.name] \in ToSet(s.rules)
  <2>1. PICK i \in U : i = Nth(U, j) /\ Rank(U, i) = j - 1
                       /\ returned[j] = Candidate(proposals, i)
    BY <1>2
  <2>2. returned[j].index = i
    BY <2>1 DEF Candidate
  <2>3. i \in DOMAIN proposals /\ IsItems(proposals[i].items)
    BY <1>2 DEF UsableOf, AreProposals
  <2> QED BY <2>1, <2>2, <2>3, CandidateIsWhole
<1>4. QED BY <1>2, <1>3 DEF ReturnedAreTheUsable, UsableOf

(* For every response, every number of schemas asked for and every module  *)
(* list: a broken field costs itself alone, a proposal that cannot be used *)
(* itself alone, and the rest is returned in its order.                    *)
THEOREM UsableAreReturned == Spec => []ReturnedAreTheUsable
<1> QED BY AnsweredInit, AnsweredNext, AnsweredReturns, PTL DEF Spec

-----------------------------------------------------------------------------
(* The rules about a name.                                                 *)

(* Rules about other names change nothing: more of them, less of them.     *)
LEMMA RulesAboutMore ==
  ASSUME NEW a, NEW b, IsList(a), IsList(b), NEW n,
         \A r \in ToSet(b) : r.field # n
  PROVE  RulesAbout(a \o b, n) = RulesAbout(a, n)
<1> DEFINE c == a \o b
           S == {i \in DOMAIN a : a[i].field = n}
           T == {i \in DOMAIN c : c[i].field = n}
<1>1. /\ Len(a) \in Nat /\ DOMAIN a = 1 .. Len(a)
      /\ Len(b) \in Nat /\ DOMAIN b = 1 .. Len(b)
      /\ DOMAIN c = 1 .. Len(a) + Len(b)
      /\ \A i \in 1 .. Len(a) + Len(b) :
           c[i] = IF i <= Len(a) THEN a[i] ELSE b[i - Len(a)]
  BY ListFacts, JoinedList
<1>2. \A i \in DOMAIN a : i \in DOMAIN c /\ c[i] = a[i]
  <2> HIDE DEF c
  <2> QED BY <1>1
<1>3. \A i \in DOMAIN c : i \in DOMAIN a \/ c[i].field # n
  <2> TAKE i \in DOMAIN c
  <2>1. CASE i <= Len(a)
    <3> HIDE DEF c
    <3> QED BY <1>1, <2>1
  <2>2. CASE ~(i <= Len(a))
    <3> HIDE DEF c
    <3>1. i - Len(a) \in DOMAIN b /\ c[i] = b[i - Len(a)]
      BY <1>1, <2>2
    <3> QED BY <3>1 DEF ToSet
  <2> QED BY <2>1, <2>2
<1>4. S = T
  <2> HIDE DEF c
  <2> QED BY <1>2, <1>3
<1>5. S \in SUBSET Nat /\ IsFiniteSet(S) /\ \A i \in S : a[i] = c[i]
  <2>1. S \in SUBSET (DOMAIN a)
    OBVIOUS
  <2>2. \A i \in S : a[i] = c[i]
    <3> HIDE DEF c
    <3> QED BY <1>2
  <2> HIDE DEF S
  <2> QED BY <2>1, <2>2, PickedFacts
<1>6. Picked(a, S) = Picked(c, S)
  <2> HIDE DEF S, c
  <2> QED BY <1>5, PickedSame
<1> QED BY <1>4, <1>6 DEF RulesAbout

(* One rule more about another name.                                       *)
LEMMA RulesAboutAppended ==
  ASSUME NEW a, IsList(a), NEW r, NEW n, r.field # n
  PROVE  RulesAbout(Append(a, r), n) = RulesAbout(a, n)
<1>1. Append(a, r) = a \o <<r>>
  <2>1. a \in Seq(ToSet(a) \cup {r}) /\ r \in ToSet(a) \cup {r}
    <3>1. a \in Seq(ToSet(a)) /\ ToSet(a) \subseteq ToSet(a) \cup {r}
      BY DEF IsList
    <3> QED BY <3>1, SeqMonotonic
  <2> QED BY <2>1, AppendIsConcat
<1>2. IsList(<<r>>) /\ ToSet(<<r>>) = {r}
  <2>1. <<r>> \in Seq({r}) /\ DOMAIN <<r>> = {1} /\ <<r>>[1] = r
    OBVIOUS
  <2> QED BY <2>1, SeqIsList DEF ToSet
<1> QED BY <1>1, <1>2, RulesAboutMore

(* Rules that are taken away, none of them about the name.                 *)
LEMMA RulesAboutLeft ==
  ASSUME NEW rules, IsList(rules), NEW S \in SUBSET (DOMAIN rules), NEW n,
         \A i \in DOMAIN rules : rules[i].field = n => i \in S
  PROVE  RulesAbout(Picked(rules, S), n) = RulesAbout(rules, n)
<1> DEFINE P == Picked(rules, S)
           T == {j \in DOMAIN P : P[j].field = n}
           A == {i \in DOMAIN rules : rules[i].field = n}
<1>1. /\ S \in SUBSET Nat /\ IsFiniteSet(S)
      /\ DOMAIN P = 1 .. Cardinality(S)
      /\ \A j \in 1 .. Cardinality(S) :
           Nth(S, j) \in S /\ P[j] = rules[Nth(S, j)]
  BY PickedFacts
<1>2. T \in SUBSET (1 .. Cardinality(S))
  BY <1>1
<1>3. Through(S, T) = A
  <2>1. ASSUME NEW i \in A PROVE i \in Through(S, T)
    <3>1. i \in S
      OBVIOUS
    <3>2. Rank(S, i) + 1 \in 1 .. Cardinality(S) /\ Nth(S, Rank(S, i) + 1) = i
      BY <1>1, <3>1, NthIsEvery
    <3>3. PICK j \in 1 .. Cardinality(S) : Nth(S, j) = i
      BY <3>2
    <3>4. j \in T
      <4> HIDE DEF P
      <4> QED BY <1>1, <3>3
    <3> HIDE DEF T
    <3> QED BY <3>3, <3>4 DEF Through
  <2>2. ASSUME NEW i \in Through(S, T) PROVE i \in A
    <3>1. PICK j \in T : i = Nth(S, j)
      BY DEF Through
    <3> HIDE DEF P
    <3> QED BY <1>1, <3>1
  <2> HIDE DEF T, A
  <2> QED BY <2>1, <2>2
<1>4. Picked(P, T) = Picked(rules, Through(S, T))
  <2> HIDE DEF T
  <2> QED BY <1>2, PickedTwice
<1> QED BY <1>3, <1>4 DEF RulesAbout

(* The rules about some names are taken away.                              *)
LEMMA RulesNotAboutOthers ==
  ASSUME NEW rules, IsList(rules), NEW names, NEW n, n \notin names
  PROVE  RulesAbout(RulesNotAbout(rules, names), n) = RulesAbout(rules, n)
<1> DEFINE S == {i \in DOMAIN rules : rules[i].field \notin names}
<1>1. /\ RulesNotAbout(rules, names) = Picked(rules, S)
      /\ S \in SUBSET (DOMAIN rules)
      /\ \A i \in DOMAIN rules : rules[i].field = n => i \in S
  BY DEF RulesNotAbout
<1> HIDE DEF S
<1> QED BY <1>1, RulesAboutLeft

(* Rules that get another name.                                            *)
LEMMA RulesAboutRenamed ==
  ASSUME NEW a, NEW b, IsList(a), NEW n, DOMAIN b = DOMAIN a,
         \A i \in DOMAIN a : a[i].field = n <=> b[i].field = n,
         \A i \in DOMAIN a : a[i].field = n => b[i] = a[i]
  PROVE  RulesAbout(b, n) = RulesAbout(a, n)
<1> DEFINE S == {i \in DOMAIN a : a[i].field = n}
<1>1. S = {i \in DOMAIN b : b[i].field = n}
  OBVIOUS
<1>2. S \in SUBSET (DOMAIN a) /\ \A i \in S : b[i] = a[i]
  OBVIOUS
<1>3. S \in SUBSET Nat /\ IsFiniteSet(S)
  <2> HIDE DEF S
  <2> QED BY <1>2, PickedFacts
<1>4. Picked(b, S) = Picked(a, S)
  <2> HIDE DEF S
  <2> QED BY <1>2, <1>3, PickedSame
<1> QED BY <1>1, <1>4 DEF RulesAbout

-----------------------------------------------------------------------------
(* What is wrong with a schema that is coherent but for its names.         *)

(* Rules and validators speak of the fields there are.                     *)
Linked(s) ==
  /\ \A r \in ToSet(s.rules) : r.field \in Names(s)
  /\ DOMAIN s.validators = Names(s)

(* Where a field is.                                                       *)
LEMMA FieldFacts ==
  ASSUME NEW s, IsSchema(s), NEW f \in Fields(s)
  PROVE  /\ IsField(f) /\ f.producer \in ModuleSet
         /\ f \in ToSet(s.fields[f.producer]) /\ f.producer \in ToSet(s.keys)
<1>1. PICK m \in ModuleSet : f \in ToSet(s.fields[m])
  BY DEF Fields
<1>2. IsField(f) /\ f.producer = m /\ m \in ToSet(s.keys)
  BY <1>1 DEF IsSchema
<1> QED BY <1>1, <1>2

(* Of what is coherent SchemaCandidate refuses only clashing names.        *)
LEMMA OnlyNames ==
  ASSUME NEW s, IsSchema(s), Linked(s)
  PROVE  /\ Faults(s) \subseteq {"duplicate"}
         /\ Faults(s) = {} <=> ~DuplicateName(s)
<1>1. ~FaultyEnum(s) /\ ~Unconsumed(s)
  BY FieldFacts DEF FaultyEnum, Unconsumed, IsField
<1>2. ~WrongProducer(s)
  BY DEF WrongProducer, IsSchema
<1>3. ~DanglingRule(s) /\ ~DanglingValidator(s)
  BY DEF DanglingRule, DanglingValidator, Linked
<1> QED BY <1>1, <1>2, <1>3 DEF Faults

(* A name is the name of one field.                                        *)
LEMMA NamesAreUnique ==
  ASSUME NEW s, IsSchema(s), ~DuplicateName(s),
         NEW f \in Fields(s), NEW g \in Fields(s), f.name = g.name
  PROVE  f = g
<1>1. PICK i \in DOMAIN s.fields[f.producer] : f = s.fields[f.producer][i]
  BY FieldFacts DEF ToSet
<1>2. PICK j \in DOMAIN s.fields[g.producer] : g = s.fields[g.producer][j]
  BY FieldFacts DEF ToSet
<1>3. /\ <<f.producer, i>> \in Positions(s)
      /\ <<g.producer, j>> \in Positions(s)
  BY FieldFacts DEF Positions
<1>4. <<f.producer, i>> = <<g.producer, j>>
  BY <1>1, <1>2, <1>3 DEF DuplicateName
<1> QED BY <1>1, <1>2, <1>4

(* A name comes twice if a field does or two fields have it.               *)
Unique(s) ==
  /\ \A m \in ModuleSet : IsInjective(s.fields[m])
  /\ \A f, g \in Fields(s) : f.name = g.name => f = g

(* DuplicateName speaks of positions, Unique of fields.                    *)
LEMMA UniqueFacts ==
  ASSUME NEW s, IsSchema(s)
  PROVE  ~DuplicateName(s) <=> Unique(s)
<1> DEFINE at(x) == s.fields[x[1]][x[2]]
<1>0. \A x : x \in Positions(s) <=>
        \E m \in ModuleSet : \E i \in DOMAIN s.fields[m] : x = <<m, i>>
  BY DEF Positions
<1>1. ASSUME ~DuplicateName(s) PROVE Unique(s)
  <2>1. ASSUME NEW m \in ModuleSet, NEW i \in DOMAIN s.fields[m],
               NEW j \in DOMAIN s.fields[m], s.fields[m][i] = s.fields[m][j]
        PROVE  i = j
    <3>1. <<m, i>> \in Positions(s) /\ <<m, j>> \in Positions(s)
      BY <1>0
    <3>2. <<m, i>> = <<m, j>>
      BY <1>1, <2>1, <3>1 DEF DuplicateName
    <3> QED BY <3>2
  <2> QED BY <1>1, <2>1, NamesAreUnique DEF Unique, IsInjective
<1>2. ASSUME Unique(s) PROVE ~DuplicateName(s)
  <2> SUFFICES ASSUME NEW x \in Positions(s), NEW y \in Positions(s),
                      at(x).name = at(y).name
               PROVE  x = y
    BY DEF DuplicateName
  <2>1. PICK m \in ModuleSet : \E i \in DOMAIN s.fields[m] : x = <<m, i>>
    BY <1>0
  <2>2. PICK i \in DOMAIN s.fields[m] : x = <<m, i>>
    BY <2>1
  <2>3. PICK n \in ModuleSet : \E j \in DOMAIN s.fields[n] : y = <<n, j>>
    BY <1>0
  <2>4. PICK j \in DOMAIN s.fields[n] : y = <<n, j>>
    BY <2>3
  <2>5. /\ s.fields[m][i] \in ToSet(s.fields[m])
        /\ s.fields[n][j] \in ToSet(s.fields[n])
    BY DEF ToSet
  <2>6. s.fields[m][i] \in Fields(s) /\ s.fields[n][j] \in Fields(s)
    BY <2>5 DEF Fields
  <2>7. s.fields[m][i] = s.fields[n][j]
    BY <1>2, <2>2, <2>4, <2>6 DEF Unique
  <2>8. m = n
    BY <2>5, <2>7 DEF IsSchema
  <2>9. i = j
    BY <1>2, <2>7, <2>8 DEF Unique, IsInjective
  <2> QED BY <2>2, <2>4, <2>8, <2>9
<1> QED BY <1>1, <1>2

-----------------------------------------------------------------------------
(* What the helpers of apply_mutation do.                                  *)

(* A module that produces has a key.                                       *)
LEMMA KeysFacts ==
  ASSUME NEW keys, IsList(keys), NEW m
  PROVE  /\ IsList(Keys(keys, m))
         /\ ToSet(Keys(keys, m)) = ToSet(keys) \cup {m}
<1>1. CASE m \in ToSet(keys) BY <1>1 DEF Keys
<1>2. CASE m \notin ToSet(keys) BY <1>2, AppendedList DEF Keys
<1> QED BY <1>1, <1>2

(* A schema of which the fields of one module are others.                  *)
WithList(s, t, m, list) ==
  /\ DOMAIN t = DOMAIN s /\ t.rules = s.rules /\ t.validators = s.validators
  /\ IsList(t.keys) /\ ToSet(t.keys) = ToSet(s.keys) \cup {m}
  /\ DOMAIN t.fields = ModuleSet /\ t.fields[m] = list
  /\ \A n \in ModuleSet \ {m} : t.fields[n] = s.fields[n]
  /\ IsList(list) /\ \A f \in ToSet(list) : IsField(f) /\ f.producer = m

(* It is a schema if the fields are those of the module.                   *)
LEMMA WithListFacts ==
  ASSUME NEW s, IsSchema(s), NEW m \in ModuleSet, NEW list, NEW t,
         WithList(s, t, m, list)
  PROVE  /\ IsSchema(t) /\ t.rules = s.rules /\ t.validators = s.validators
         /\ t.fields[m] = list
         /\ \A n \in ModuleSet \ {m} : t.fields[n] = s.fields[n]
         /\ \A g : g \in Fields(t) <=>
              g \in ToSet(list) \/ (g \in Fields(s) /\ g.producer # m)
<1>1. /\ DOMAIN t = DOMAIN s /\ t.rules = s.rules
      /\ t.validators = s.validators
      /\ IsList(t.keys) /\ ToSet(t.keys) = ToSet(s.keys) \cup {m}
      /\ DOMAIN t.fields = ModuleSet /\ t.fields[m] = list
      /\ \A n \in ModuleSet \ {m} : t.fields[n] = s.fields[n]
      /\ IsList(list) /\ \A f \in ToSet(list) : IsField(f) /\ f.producer = m
  BY DEF WithList
<1>2. \A n \in ModuleSet :
        /\ IsList(t.fields[n])
        /\ \A f \in ToSet(t.fields[n]) :
             IsField(f) /\ f.producer = n /\ n \in ToSet(t.keys)
  <2> TAKE n \in ModuleSet
  <2>1. CASE n = m BY <1>1, <2>1
  <2>2. CASE n # m BY <1>1, <2>2 DEF IsSchema
  <2> QED BY <2>1, <2>2
<1>3. IsSchema(t)
  BY <1>1, <1>2 DEF IsSchema
<1>4. ASSUME NEW g, g \in Fields(t)
      PROVE  g \in ToSet(list) \/ (g \in Fields(s) /\ g.producer # m)
  <2>1. PICK n \in ModuleSet : g \in ToSet(t.fields[n])
    BY <1>4 DEF Fields
  <2>2. CASE n = m BY <1>1, <2>1, <2>2
  <2>3. CASE n # m BY <1>1, <1>2, <2>1, <2>3 DEF Fields
  <2> QED BY <2>2, <2>3
<1>5. ASSUME NEW g, g \in ToSet(list) \/ (g \in Fields(s) /\ g.producer # m)
      PROVE  g \in Fields(t)
  <2>1. CASE g \in ToSet(list) BY <1>1, <2>1 DEF Fields
  <2>2. CASE g \in Fields(s) /\ g.producer # m
    BY <1>1, <2>2, FieldFacts DEF Fields
  <2> QED BY <1>5, <2>1, <2>2
<1> QED BY <1>1, <1>3, <1>4, <1>5

(* One field more: its name must be new.                                   *)
LEMMA AppendFieldFacts ==
  ASSUME NEW s, IsSchema(s), NEW f, IsField(f)
  PROVE  LET t == AppendField(s, f) IN
         /\ IsSchema(t) /\ t.rules = s.rules /\ t.validators = s.validators
         /\ \A g : g \in Fields(t) <=> g \in Fields(s) \/ g = f
         /\ Unique(t) => Unique(s) /\ f.name \notin Names(s)
<1> DEFINE m == f.producer
           t == AppendField(s, f)
           list == Append(s.fields[m], f)
           keys == Keys(s.keys, m)
<1>1. m \in ModuleSet /\ IsList(s.fields[m]) /\ IsList(s.keys)
  BY DEF IsField, IsSchema
<1>2. /\ IsList(list) /\ ToSet(list) = ToSet(s.fields[m]) \cup {f}
      /\ IsList(keys) /\ ToSet(keys) = ToSet(s.keys) \cup {m}
  BY <1>1, AppendedList, KeysFacts
<1>3. t = [s EXCEPT !.keys = keys, !.fields[m] = list]
  BY <1>1 DEF AppendField, IsSchema
<1>4. \A g \in ToSet(list) : IsField(g) /\ g.producer = m
  BY <1>1, <1>2 DEF IsSchema
<1>0. WithList(s, t, m, list)
  <2> HIDE DEF t, list, keys, m
  <2> QED BY <1>1, <1>2, <1>3, <1>4 DEF WithList, IsSchema
<1>5. /\ IsSchema(t) /\ t.rules = s.rules /\ t.validators = s.validators
      /\ \A g : g \in Fields(t) <=>
           g \in ToSet(list) \/ (g \in Fields(s) /\ g.producer # m)
  <2> HIDE DEF t, list, keys, m
  <2> QED BY <1>0, <1>1, WithListFacts
<1>6. \A g \in ToSet(s.fields[m]) : g \in Fields(s)
  BY <1>1 DEF Fields
<1>7. \A g \in Fields(s) : g.producer = m => g \in ToSet(s.fields[m])
  BY FieldFacts
<1>8. \A g : g \in Fields(t) <=> g \in Fields(s) \/ g = f
  <2> HIDE DEF t, list
  <2> QED BY <1>2, <1>5, <1>6, <1>7
<1>9. ASSUME Unique(t) PROVE Unique(s) /\ f.name \notin Names(s)
  <2> DEFINE F == s.fields[m]
  <2>1. /\ t.fields[m] = list
        /\ \A n \in ModuleSet \ {m} : t.fields[n] = s.fields[n]
    <3> HIDE DEF t, list, m
    <3> QED BY <1>0 DEF WithList
  <2>2. /\ Len(F) \in Nat /\ DOMAIN F = 1 .. Len(F)
        /\ DOMAIN list = 1 .. Len(F) + 1 /\ list[Len(F) + 1] = f
        /\ \A i \in DOMAIN F : list[i] = F[i]
    BY <1>1, ListFacts, AppendedList
  <2>3. IsInjective(list)
    <3> HIDE DEF t, list
    <3> QED BY <1>1, <1>9, <2>1 DEF Unique
  <2>4. \A i \in DOMAIN F : i \in DOMAIN list /\ i # Len(F) + 1
        /\ Len(F) + 1 \in DOMAIN list
    <3> HIDE DEF list, F
    <3> QED BY <2>2
  <2>5. IsInjective(F)
    <3> HIDE DEF list, F
    <3> QED BY <2>2, <2>3, <2>4 DEF IsInjective
  <2>6. f \notin ToSet(F)
    <3> HIDE DEF list, F
    <3> QED BY <2>2, <2>3, <2>4 DEF IsInjective, ToSet
  <2>7. Unique(s)
    <3>1. \A n \in ModuleSet : IsInjective(s.fields[n])
      <4> HIDE DEF t, list
      <4> QED BY <1>9, <2>1, <2>5 DEF Unique
    <3>2. \A g, h \in Fields(s) : g.name = h.name => g = h
      <4> HIDE DEF t
      <4> QED BY <1>8, <1>9 DEF Unique
    <3> QED BY <3>1, <3>2 DEF Unique
  <2>8. f.name \notin Names(s)
    <3> SUFFICES ASSUME NEW g \in Fields(s), g.name = f.name PROVE FALSE
      BY DEF Names
    <3>1. g = f
      <4> HIDE DEF t
      <4> QED BY <1>8, <1>9 DEF Unique
    <3> QED BY <1>7, <2>6, <3>1
  <2> QED BY <2>7, <2>8
<1> QED BY <1>5, <1>8, <1>9

(* The fields of a module that have one of the names are gone.             *)
LEMMA RemoveFieldsFacts ==
  ASSUME NEW s, IsSchema(s), NEW m \in ModuleSet, NEW names
  PROVE  LET t == RemoveFields(s, m, names) IN
         /\ IsSchema(t) /\ t.rules = s.rules /\ t.validators = s.validators
         /\ \A g : g \in Fields(t) <=>
              g \in Fields(s) /\ ~(g.producer = m /\ g.name \in names)
<1> DEFINE t == RemoveFields(s, m, names)
           F == s.fields[m]
           S == {i \in DOMAIN F : F[i].name \notin names}
           list == WithoutNames(F, names)
           keys == Keys(s.keys, m)
<1>1. IsList(F) /\ IsList(s.keys)
  BY DEF IsSchema
<1>2. list = Picked(F, S) /\ S \in SUBSET (DOMAIN F)
  BY DEF WithoutNames
<1>3. IsList(list) /\ ToSet(list) = {F[i] : i \in S}
  <2> HIDE DEF list, S, F
  <2> QED BY <1>1, <1>2, PickedFacts
<1>4. \A g : g \in ToSet(list) <=> g \in ToSet(F) /\ g.name \notin names
  <2> HIDE DEF list, F
  <2> QED BY <1>3 DEF ToSet
<1>5. IsList(keys) /\ ToSet(keys) = ToSet(s.keys) \cup {m}
  BY <1>1, KeysFacts
<1>6. t = [s EXCEPT !.keys = keys, !.fields[m] = list]
  BY <1>1 DEF RemoveFields, IsSchema
<1>7. \A g \in ToSet(list) : IsField(g) /\ g.producer = m
  <2>1. \A g \in ToSet(F) : IsField(g) /\ g.producer = m
    BY DEF IsSchema
  <2> HIDE DEF list, F
  <2> QED BY <1>4, <2>1
<1>0. WithList(s, t, m, list)
  <2> HIDE DEF t, list, keys, F, S
  <2> QED BY <1>3, <1>5, <1>6, <1>7 DEF WithList, IsSchema
<1>8. /\ IsSchema(t) /\ t.rules = s.rules /\ t.validators = s.validators
      /\ \A g : g \in Fields(t) <=>
           g \in ToSet(list) \/ (g \in Fields(s) /\ g.producer # m)
  <2> HIDE DEF t, list, keys, F, S
  <2> QED BY <1>0, WithListFacts
<1>9. \A g \in ToSet(F) : g \in Fields(s) /\ g.producer = m
  BY DEF Fields, IsSchema
<1>10. \A g \in Fields(s) : g.producer = m => g \in ToSet(F)
  BY FieldFacts
<1>11. \A g : g \in Fields(t) <=>
         g \in Fields(s) /\ ~(g.producer = m /\ g.name \in names)
  <2> HIDE DEF t, list, F
  <2> QED BY <1>4, <1>8, <1>9, <1>10
<1> QED BY <1>8, <1>11

(* One field for another: its name must be new unless it is the same.      *)
LEMMA ReplaceFieldFacts ==
  ASSUME NEW s, IsSchema(s), ~DuplicateName(s), NEW f \in Fields(s),
         NEW new, IsField(new), new.producer = f.producer
  PROVE  LET t == ReplaceField(s, f, new) IN
         /\ IsSchema(t) /\ t.rules = s.rules /\ t.validators = s.validators
         /\ \A g : g \in Fields(t) <=> (g \in Fields(s) /\ g # f) \/ g = new
         /\ Unique(t) => \A g \in Fields(s) \ {f} : g.name # new.name
<1> DEFINE m == f.producer
           t == ReplaceField(s, f, new)
           F == s.fields[m]
           list == [i \in DOMAIN F |-> IF F[i].name = f.name THEN new ELSE F[i]]
<1>1. /\ m \in ModuleSet /\ IsList(F) /\ f \in ToSet(F)
      /\ IsList(s.keys) /\ m \in ToSet(s.keys)
  BY FieldFacts DEF IsSchema
<1>2. Len(F) \in Nat /\ DOMAIN F = 1 .. Len(F)
  BY <1>1, ListFacts
<1>3. IsList(list) /\ DOMAIN list = DOMAIN F
  <2>1. list \in [1 .. Len(F) -> ToSet(F) \cup {new}]
    BY <1>2 DEF ToSet
  <2> HIDE DEF list
  <2> QED BY <1>2, <2>1, ListMade
<1>4. \A g \in ToSet(F) : g \in Fields(s) /\ g.producer = m
  BY <1>1 DEF Fields, IsSchema
<1>5. \A g \in ToSet(F) : g.name = f.name => g = f
  BY <1>4, NamesAreUnique
<1>6. \A g : g \in ToSet(list) <=> (g \in ToSet(F) /\ g # f) \/ g = new
  <2>1. \A i \in DOMAIN F : list[i] = IF F[i] = f THEN new ELSE F[i]
    BY <1>5 DEF ToSet
  <2>2. \E i \in DOMAIN F : F[i] = f
    BY <1>1 DEF ToSet
  <2> HIDE DEF list, F
  <2> QED BY <1>3, <2>1, <2>2 DEF ToSet
<1>7. t = [s EXCEPT !.keys = s.keys, !.fields[m] = list]
  BY DEF ReplaceField, IsSchema
<1>8. \A g \in ToSet(list) : IsField(g) /\ g.producer = m
  BY <1>1, <1>6 DEF IsSchema
<1>0. WithList(s, t, m, list)
  <2>1. ToSet(s.keys) = ToSet(s.keys) \cup {m}
    BY <1>1
  <2> HIDE DEF t, list, F, m
  <2> QED BY <1>1, <1>3, <1>7, <1>8, <2>1 DEF WithList, IsSchema
<1>9. /\ IsSchema(t) /\ t.rules = s.rules /\ t.validators = s.validators
      /\ \A g : g \in Fields(t) <=>
           g \in ToSet(list) \/ (g \in Fields(s) /\ g.producer # m)
  <2> HIDE DEF t, list, F, m
  <2> QED BY <1>0, <1>1, WithListFacts
<1>10. \A g \in Fields(s) : g.producer = m => g \in ToSet(F)
  BY FieldFacts
<1>11. \A g : g \in Fields(t) <=> (g \in Fields(s) /\ g # f) \/ g = new
  <2> HIDE DEF t, list, F
  <2> QED BY <1>4, <1>6, <1>9, <1>10
<1>12. ASSUME Unique(t), NEW g \in Fields(s) \ {f}, g.name = new.name
       PROVE  FALSE
  <2>1. g = new
    <3> HIDE DEF t
    <3> QED BY <1>11, <1>12 DEF Unique
  <2>2. g \in ToSet(F)
    BY <1>10, <2>1
  <2>3. PICK i \in DOMAIN F : F[i] = f
    BY <1>1 DEF ToSet
  <2>4. PICK j \in DOMAIN F : F[j] = g
    BY <2>2 DEF ToSet
  <2>5. list[i] = new /\ list[j] = new /\ i # j
    <3>1. list[i] = new BY <2>3
    <3>2. list[j] = new BY <2>1, <2>4
    <3> QED BY <2>3, <2>4, <3>1, <3>2
  <2>6. t.fields[m] = list
    <3> HIDE DEF t, list, m
    <3> QED BY <1>0 DEF WithList
  <2>7. IsInjective(list)
    <3> HIDE DEF t, list
    <3> QED BY <1>1, <1>12, <2>6 DEF Unique
  <2> HIDE DEF list, F
  <2> QED BY <1>3, <2>5, <2>7 DEF IsInjective
<1> QED BY <1>9, <1>11, <1>12

(* A schema of which the rules and the validators are others.              *)
AreRules(rules) ==
  IsList(rules) /\ \A r \in ToSet(rules) : DOMAIN r = {"consumer", "field"}

WithRest(t, u, rules, validators) ==
  /\ DOMAIN u = DOMAIN t /\ u.keys = t.keys /\ u.fields = t.fields
  /\ u.rules = rules /\ u.validators = validators
  /\ AreRules(rules)

(* Its fields are as they were.                                            *)
LEMMA WithRestFacts ==
  ASSUME NEW t, IsSchema(t), NEW u, NEW rules, NEW validators,
         WithRest(t, u, rules, validators)
  PROVE  IsSchema(u) /\ Fields(u) = Fields(t) /\ (Unique(u) <=> Unique(t))
BY DEF WithRest, AreRules, IsSchema, Fields, Unique

(* Rules about the field, one for each consumer.                           *)
LEMMA DefaultRulesFacts ==
  ASSUME NEW f, IsField(f)
  PROVE  /\ AreRules(DefaultRules(f))
         /\ \A r \in ToSet(DefaultRules(f)) : r.field = f.name
<1> DEFINE rule(c) == [consumer |-> c, field |-> f.name]
           S == {rule(c) : c \in f.consumers}
           h == [c \in f.consumers |-> rule(c)]
           rules == DefaultRules(f)
<1>1. IsFiniteSet(f.consumers)
  <2>1. IsFiniteSet(ModuleSet)
    BY ModulesAssumption, ListSetFinite DEF ModuleSet
  <2> QED BY <2>1, FS_Subset DEF IsField
<1>2. h \in Surjection(f.consumers, S)
  BY DEF Surjection
<1>3. IsFiniteSet(S)
  <2> HIDE DEF h, S
  <2> QED BY <1>1, <1>2, FS_Surjection
<1>4. rules = SetToSeq(S)
  BY DEF DefaultRules
<1>5. IsList(rules) /\ \A r \in ToSet(rules) : r \in S
  <2> HIDE DEF rules, S
  <2> QED BY <1>3, <1>4, SetToSeqFacts DEF ToSet
<1>6. \A r \in S : DOMAIN r = {"consumer", "field"} /\ r.field = f.name
  OBVIOUS
<1>7. QED
  <2> HIDE DEF S
  <2> QED BY <1>5, <1>6 DEF AreRules

(* The rules of two lists.                                                 *)
LEMMA JoinedRules ==
  ASSUME NEW a, NEW b, AreRules(a), AreRules(b)
  PROVE  AreRules(a \o b) /\ ToSet(a \o b) = ToSet(a) \cup ToSet(b)
BY JoinedList DEF AreRules

(* Exactly the rules about the names are gone.                             *)
LEMMA RulesNotAboutFacts ==
  ASSUME NEW rules, AreRules(rules), NEW names
  PROVE  /\ AreRules(RulesNotAbout(rules, names))
         /\ \A r : r \in ToSet(RulesNotAbout(rules, names)) <=>
                     r \in ToSet(rules) /\ r.field \notin names
<1> DEFINE S == {i \in DOMAIN rules : rules[i].field \notin names}
           left == RulesNotAbout(rules, names)
<1>1. left = Picked(rules, S) /\ S \in SUBSET (DOMAIN rules)
  BY DEF RulesNotAbout
<1>2. IsList(left) /\ ToSet(left) = {rules[i] : i \in S}
  <2> HIDE DEF left, S
  <2> QED BY <1>1, PickedFacts DEF AreRules
<1>3. \A r : r \in ToSet(left) <=> r \in ToSet(rules) /\ r.field \notin names
  <2> HIDE DEF left
  <2> QED BY <1>2 DEF ToSet
<1> QED BY <1>2, <1>3 DEF AreRules

-----------------------------------------------------------------------------
(* apply_mutation: every child is coherent and near its parent.            *)

(* Nothing is wrong with a schema except perhaps that two names clash.     *)
Coherent(s) == IsSchema(s) /\ Linked(s)

Sound(s) == Coherent(s) /\ ~DuplicateName(s)

(* The child says what its parent said of every name not in X.             *)
Keeps(s, u, X) ==
  \A n \in Names(s) \ X :
    /\ \A f \in Fields(s) : f.name = n => f \in Fields(u)
    /\ u.validators[n] = s.validators[n]
    /\ RulesAbout(u.rules, n) = RulesAbout(s.rules, n)

(* One name has another contract, or some names go and others come.        *)
Edits(s, u, x) == Names(u) = Names(s) /\ Keeps(s, u, {x})

Trades(s, u, L, G) ==
  /\ Names(u) = (Names(s) \ L) \cup G
  /\ Keeps(s, u, L \cup G)
  /\ Unique(u) => G \cap (Names(s) \ L) = {}

Small(S) == IsFiniteSet(S) /\ Cardinality(S) <= 2

(* What apply_mutation makes of a schema.                                  *)
Child(s, u) ==
  /\ Coherent(u)
  /\ \/ \E x : Edits(s, u, x)
     \/ \E L, G : Small(L) /\ Small(G) /\ L \cap G = {} /\ Trades(s, u, L, G)

(* Sets of at most two names.                                              *)
LEMMA SmallFacts ==
  /\ Small({}) /\ (\A a : Small({a})) /\ (\A a, b : Small({a, b}))
  /\ \A S, T : Small(S) /\ T \subseteq S => Small(T)
<1>1. /\ IsFiniteSet({}) /\ Cardinality({}) = 0
      /\ \A a : IsFiniteSet({a}) /\ Cardinality({a}) = 1
  BY FS_EmptySet, FS_Singleton
<1>2. ASSUME NEW a, NEW b PROVE Small({a, b})
  <2>1. {a, b} = {a} \cup {b}
    OBVIOUS
  <2>2. /\ IsFiniteSet({a} \cup {b})
        /\ Cardinality({a} \cup {b}) =
             IF b \in {a} THEN Cardinality({a}) ELSE Cardinality({a}) + 1
    BY <1>1, FS_AddElement
  <2> QED BY <1>1, <2>1, <2>2 DEF Small
<1>3. ASSUME NEW S, NEW T, Small(S), T \subseteq S PROVE Small(T)
  <2>1. /\ IsFiniteSet(T) /\ Cardinality(T) <= Cardinality(S)
        /\ Cardinality(T) \in Nat /\ Cardinality(S) \in Nat
    BY <1>3, FS_Subset, FS_CardinalityType DEF Small
  <2> QED BY <1>3, <2>1 DEF Small
<1>4. Small({})
  BY <1>1 DEF Small
<1>5. ASSUME NEW a PROVE Small({a})
  <2>1. IsFiniteSet({a}) /\ Cardinality({a}) = 1
    BY FS_Singleton
  <2> QED BY <2>1 DEF Small
<1> QED BY <1>2, <1>3, <1>4, <1>5

(* One contract is another.                                                *)
LEMMA EditIsChild ==
  ASSUME NEW s, NEW u, NEW x, Coherent(u), Edits(s, u, x)
  PROVE  Child(s, u)
BY DEF Child

(* A few names for a few others.                                           *)
LEMMA TradeIsChild ==
  ASSUME NEW s, NEW u, NEW L, NEW G, Coherent(u),
         Small(L), Small(G), L \cap G = {}, Trades(s, u, L, G)
  PROVE  Child(s, u)
BY DEF Child

(* add_field: a name comes.                                                *)
LEMMA AddFieldChild ==
  ASSUME NEW s, Coherent(s), NEW f, IsField(f)
  PROVE  Child(s, AddField(s, f))
<1> DEFINE t == AppendField(s, f)
           rules == t.rules \o DefaultRules(f)
           validators == Put(t.validators, f.name, DefaultValidator)
           u == AddField(s, f)
<1>1. /\ IsSchema(t) /\ t.rules = s.rules /\ t.validators = s.validators
      /\ \A g : g \in Fields(t) <=> g \in Fields(s) \/ g = f
      /\ Unique(t) => f.name \notin Names(s)
  BY AppendFieldFacts DEF Coherent
<1>2. AreRules(s.rules) /\ AreRules(DefaultRules(f))
      /\ \A r \in ToSet(DefaultRules(f)) : r.field = f.name
  BY DefaultRulesFacts DEF Coherent, IsSchema, AreRules
<1>3. AreRules(rules) /\ ToSet(rules) = ToSet(s.rules) \cup ToSet(DefaultRules(f))
  BY <1>1, <1>2, JoinedRules
<1>4. WithRest(t, u, rules, validators)
  <2>1. u = [t EXCEPT !.rules = rules, !.validators = validators]
    BY DEF AddField
  <2> HIDE DEF t, u, rules, validators
  <2> QED BY <1>1, <1>3, <2>1 DEF WithRest, IsSchema
<1>5. IsSchema(u) /\ Fields(u) = Fields(t) /\ u.rules = rules
      /\ u.validators = validators /\ (Unique(u) <=> Unique(t))
  <2> HIDE DEF t, u, rules, validators
  <2> QED BY <1>1, <1>4, WithRestFacts DEF WithRest
<1>6. Names(u) = Names(s) \cup {f.name}
  <2> HIDE DEF t, u
  <2> QED BY <1>1, <1>5 DEF Names
<1>7. DOMAIN validators = DOMAIN s.validators \cup {f.name}
  <2> HIDE DEF t
  <2> QED BY <1>1 DEF Put
<1>8. Linked(u)
  <2> HIDE DEF u, rules, validators
  <2> QED BY <1>2, <1>3, <1>5, <1>6, <1>7 DEF Linked, Coherent
<1>9. Keeps(s, u, {f.name})
  <2> SUFFICES ASSUME NEW n \in Names(s), n # f.name
               PROVE  /\ \A g \in Fields(s) : g.name = n => g \in Fields(u)
                      /\ u.validators[n] = s.validators[n]
                      /\ RulesAbout(u.rules, n) = RulesAbout(s.rules, n)
    BY DEF Keeps
  <2>1. RulesAbout(s.rules \o DefaultRules(f), n) = RulesAbout(s.rules, n)
    BY <1>2, RulesAboutMore DEF AreRules
  <2>2. validators[n] = s.validators[n]
    <3>1. n \in DOMAIN s.validators
      BY DEF Coherent, Linked
    <3> HIDE DEF t
    <3> QED BY <1>1, <3>1 DEF Put
  <2> HIDE DEF t, u, validators
  <2> QED BY <1>1, <1>5, <2>1, <2>2
<1>10. Trades(s, u, {}, {f.name})
  <2> HIDE DEF t, u
  <2> QED BY <1>1, <1>5, <1>6, <1>9 DEF Trades
<1>11. Coherent(u)
  BY <1>5, <1>8 DEF Coherent
<1> HIDE DEF u
<1>12. Child(s, u)
  BY <1>10, <1>11, SmallFacts, TradeIsChild
<1> QED BY <1>12 DEF u

(* drop_field: the field is gone, with its rules and its validator.        *)
LEMMA DropFieldFacts ==
  ASSUME NEW s, Sound(s), NEW f \in Fields(s)
  PROVE  LET u == DropField(s, f) IN
         /\ Coherent(u)
         /\ \A g : g \in Fields(u) <=> g \in Fields(s) /\ g # f
         /\ Names(u) = Names(s) \ {f.name}
         /\ \A r : r \in ToSet(u.rules) <=>
                     r \in ToSet(s.rules) /\ r.field # f.name
         /\ u.validators = Pop(s.validators, {f.name})
         /\ Keeps(s, u, {f.name})
<1> DEFINE m == f.producer
           t == RemoveFields(s, m, {f.name})
           rules == RulesNotAbout(t.rules, {f.name})
           validators == Pop(t.validators, {f.name})
           u == DropField(s, f)
<1>1. /\ IsSchema(t) /\ t.rules = s.rules /\ t.validators = s.validators
      /\ \A g : g \in Fields(t) <=>
           g \in Fields(s) /\ ~(g.producer = m /\ g.name \in {f.name})
  <2>1. IsSchema(s) /\ m \in ModuleSet
    BY FieldFacts DEF Sound, Coherent
  <2> HIDE DEF m
  <2> QED BY <2>1, RemoveFieldsFacts
<1>2. \A g \in Fields(s) : g.name = f.name => g = f
  BY NamesAreUnique DEF Sound, Coherent
<1>3. \A g : g \in Fields(t) <=> g \in Fields(s) /\ g # f
  <2> HIDE DEF t
  <2> QED BY <1>1, <1>2
<1>4. /\ AreRules(rules)
      /\ \A r : r \in ToSet(rules) <=> r \in ToSet(s.rules) /\ r.field # f.name
  <2>1. AreRules(s.rules)
    BY DEF Sound, Coherent, IsSchema, AreRules
  <2>2. rules = RulesNotAbout(s.rules, {f.name})
    BY <1>1
  <2> HIDE DEF rules
  <2> QED BY <2>1, <2>2, RulesNotAboutFacts
<1>5. WithRest(t, u, rules, validators)
  <2>1. u = [t EXCEPT !.rules = rules, !.validators = validators]
    BY DEF DropField
  <2> HIDE DEF t, u, rules, validators
  <2> QED BY <1>1, <1>4, <2>1 DEF WithRest, IsSchema
<1>6. IsSchema(u) /\ Fields(u) = Fields(t) /\ u.rules = rules
      /\ u.validators = validators
  <2> HIDE DEF t, u, rules, validators
  <2> QED BY <1>1, <1>5, WithRestFacts DEF WithRest
<1>7. Names(u) = Names(s) \ {f.name}
  <2> HIDE DEF t, u
  <2> QED BY <1>2, <1>3, <1>6 DEF Names
<1>8. validators = Pop(s.validators, {f.name})
      /\ DOMAIN validators = DOMAIN s.validators \ {f.name}
  <2> HIDE DEF t
  <2> QED BY <1>1 DEF Pop
<1>9. Linked(u)
  <2> HIDE DEF u, rules, validators
  <2> QED BY <1>4, <1>6, <1>7, <1>8 DEF Linked, Coherent, Sound
<1>10. \A g : g \in Fields(u) <=> g \in Fields(s) /\ g # f
  <2> HIDE DEF u, t
  <2> QED BY <1>3, <1>6
<1>11. \A r : r \in ToSet(u.rules) <=> r \in ToSet(s.rules) /\ r.field # f.name
  <2> HIDE DEF u, rules
  <2> QED BY <1>4, <1>6
<1>12. Keeps(s, u, {f.name})
  <2> SUFFICES ASSUME NEW n \in Names(s), n # f.name
               PROVE  /\ \A g \in Fields(s) : g.name = n => g \in Fields(u)
                      /\ u.validators[n] = s.validators[n]
                      /\ RulesAbout(u.rules, n) = RulesAbout(s.rules, n)
    BY DEF Keeps
  <2>1. RulesAbout(RulesNotAbout(s.rules, {f.name}), n) = RulesAbout(s.rules, n)
    BY RulesNotAboutOthers DEF Sound, Coherent, IsSchema
  <2>2. rules = RulesNotAbout(s.rules, {f.name})
    BY <1>1
  <2>3. validators[n] = s.validators[n]
    <3>1. n \in DOMAIN s.validators
      BY DEF Sound, Coherent, Linked
    <3> HIDE DEF validators
    <3> QED BY <1>8, <3>1 DEF Pop
  <2> HIDE DEF u, rules, validators
  <2> QED BY <1>6, <1>10, <2>1, <2>2, <2>3
<1> QED BY <1>6, <1>7, <1>8, <1>9, <1>10, <1>11, <1>12 DEF Coherent

(* A name goes.                                                            *)
LEMMA DropFieldChild ==
  ASSUME NEW s, Sound(s), NEW f \in Fields(s)
  PROVE  Child(s, DropField(s, f))
<1> DEFINE u == DropField(s, f)
<1>1. Coherent(u) /\ Names(u) = Names(s) \ {f.name} /\ Keeps(s, u, {f.name})
  BY DropFieldFacts
<1> HIDE DEF u
<1>2. Trades(s, u, {f.name}, {})
  <2>1. Keeps(s, u, {f.name} \cup {})
    BY <1>1 DEF Keeps
  <2> QED BY <1>1, <2>1 DEF Trades
<1>3. Child(s, u)
  BY <1>1, <1>2, SmallFacts, TradeIsChild
<1> QED BY <1>3 DEF u

(* A field that gets another name.                                         *)
LEMMA RenameFieldChild ==
  ASSUME NEW s, Sound(s), NEW f \in Fields(s),
         NEW new, IsName(new), new # f.name
  PROVE  Child(s, RenameField(s, f, new))
<1> DEFINE g == [f EXCEPT !.name = new]
           t == ReplaceField(s, f, g)
           R == s.rules
           rules == [i \in DOMAIN R |->
                       IF R[i].field = f.name THEN [R[i] EXCEPT !.field = new]
                                              ELSE R[i]]
           validators == Put(Pop(s.validators, {f.name}), new,
                             s.validators[f.name])
           u == RenameField(s, f, new)
<1>0. IsField(f) /\ IsField(g) /\ g.producer = f.producer /\ g.name = new
  BY FieldFacts DEF Sound, Coherent, IsField
<1>1. /\ IsSchema(t) /\ t.rules = s.rules /\ t.validators = s.validators
      /\ \A h : h \in Fields(t) <=> (h \in Fields(s) /\ h # f) \/ h = g
      /\ Unique(t) => \A h \in Fields(s) \ {f} : h.name # new
  <2> HIDE DEF g
  <2> QED BY <1>0, ReplaceFieldFacts DEF Sound, Coherent
<1>3. f.name \in DOMAIN s.validators
  BY DEF Sound, Coherent, Linked, Names
<1>4. IsList(R) /\ AreRules(R) /\ Len(R) \in Nat /\ DOMAIN R = 1 .. Len(R)
  BY ListFacts DEF Sound, Coherent, IsSchema, AreRules
<1>5. \A i \in DOMAIN R : /\ DOMAIN rules[i] = {"consumer", "field"}
                          /\ \/ /\ rules[i].field = new
                                /\ R[i].field = f.name
                             \/ /\ rules[i] = R[i]
                                /\ R[i].field # f.name
  BY <1>4 DEF AreRules, ToSet
<1>6. /\ AreRules(rules) /\ ToSet(rules) = {rules[i] : i \in DOMAIN R}
      /\ DOMAIN rules = DOMAIN R
  <2>1. rules \in [1 .. Len(R) -> {rules[i] : i \in DOMAIN R}]
    BY <1>4
  <2>2. IsList(rules) /\ DOMAIN rules = DOMAIN R
    <3> HIDE DEF rules
    <3> QED BY <1>4, <2>1, ListMade
  <2> HIDE DEF rules
  <2> QED BY <1>5, <2>2 DEF AreRules, ToSet
<1>7. WithRest(t, u, rules, validators)
  <2>1. u = [t EXCEPT !.rules = rules, !.validators = validators]
    BY <1>1, <1>3 DEF RenameField
  <2> HIDE DEF t, u, rules, validators
  <2> QED BY <1>1, <1>6, <2>1 DEF WithRest, IsSchema
<1>8. IsSchema(u) /\ Fields(u) = Fields(t) /\ u.rules = rules
      /\ u.validators = validators /\ (Unique(u) <=> Unique(t))
  <2> HIDE DEF t, u, rules, validators
  <2> QED BY <1>1, <1>7, WithRestFacts DEF WithRest
<1>9. \A h \in Fields(s) : h.name = f.name => h = f
  BY NamesAreUnique DEF Sound, Coherent
<1>10. Names(u) = (Names(s) \ {f.name}) \cup {new}
  <2> HIDE DEF t, u, g
  <2> QED BY <1>0, <1>1, <1>8, <1>9 DEF Names
<1>11. DOMAIN validators = (DOMAIN s.validators \ {f.name}) \cup {new}
  BY DEF Put, Pop
<1>12. \A r \in ToSet(rules) : r.field \in Names(u)
  <2>1. \A i \in DOMAIN R : R[i].field \in Names(s)
    BY DEF Sound, Coherent, Linked, ToSet
  <2> HIDE DEF u, rules
  <2> QED BY <1>5, <1>6, <1>10, <2>1
<1>13. Linked(u)
  <2> HIDE DEF u, rules, validators
  <2> QED BY <1>8, <1>10, <1>11, <1>12 DEF Linked, Coherent, Sound
<1>14. Keeps(s, u, {f.name} \cup {new})
  <2> SUFFICES ASSUME NEW n \in Names(s), n # f.name, n # new
               PROVE  /\ \A h \in Fields(s) : h.name = n => h \in Fields(u)
                      /\ u.validators[n] = s.validators[n]
                      /\ RulesAbout(u.rules, n) = RulesAbout(s.rules, n)
    BY DEF Keeps
  <2>1. RulesAbout(rules, n) = RulesAbout(R, n)
    <3>1. /\ \A i \in DOMAIN R : R[i].field = n <=> rules[i].field = n
          /\ \A i \in DOMAIN R : R[i].field = n => rules[i] = R[i]
      <4> HIDE DEF rules
      <4> QED BY <1>5
    <3> HIDE DEF rules, R
    <3> QED BY <1>4, <1>6, <3>1, RulesAboutRenamed
  <2>2. validators[n] = s.validators[n]
    <3>1. n \in DOMAIN s.validators
      BY DEF Sound, Coherent, Linked
    <3> QED BY <3>1 DEF Put, Pop
  <2> HIDE DEF t, u, validators, rules
  <2> QED BY <1>1, <1>8, <2>1, <2>2
<1>15. Unique(u) => {new} \cap (Names(s) \ {f.name}) = {}
  <2> HIDE DEF t, u
  <2> QED BY <1>1, <1>8 DEF Names
<1>16. Coherent(u)
  BY <1>8, <1>13 DEF Coherent
<1> HIDE DEF u
<1>17. Trades(s, u, {f.name}, {new})
  BY <1>10, <1>14, <1>15 DEF Trades
<1>18. Child(s, u)
  <2>1. {f.name} \cap {new} = {}
    OBVIOUS
  <2> QED BY <1>16, <1>17, <2>1, SmallFacts, TradeIsChild
<1> QED BY <1>18 DEF u

(* Whatever keeps the names, the rules and the validators, and all fields  *)
(* but one, is an edit.                                                    *)
LEMMA FieldEdit ==
  ASSUME NEW s, Coherent(s), NEW u, IsSchema(u), NEW x,
         u.rules = s.rules, u.validators = s.validators, Names(u) = Names(s),
         \A h \in Fields(s) : h.name # x => h \in Fields(u)
  PROVE  Child(s, u)
<1>1. Coherent(u)
  BY DEF Coherent, Linked
<1>2. Edits(s, u, x)
  BY DEF Edits, Keeps
<1> QED BY <1>1, <1>2, EditIsChild

(* A schema that stays as it is.                                           *)
LEMMA SameIsChild ==
  ASSUME NEW s, Coherent(s)
  PROVE  Child(s, s)
BY FieldEdit DEF Coherent

(* A field that is changed but keeps its name.                             *)
LEMMA ReplaceFieldChild ==
  ASSUME NEW s, Sound(s), NEW f \in Fields(s), NEW new, IsField(new),
         new.producer = f.producer, new.name = f.name
  PROVE  Child(s, ReplaceField(s, f, new))
<1> DEFINE t == ReplaceField(s, f, new)
<1>1. /\ IsSchema(t) /\ t.rules = s.rules /\ t.validators = s.validators
      /\ \A h : h \in Fields(t) <=> (h \in Fields(s) /\ h # f) \/ h = new
  BY ReplaceFieldFacts DEF Sound, Coherent
<1>2. \A h \in Fields(s) : h.name = f.name => h = f
  BY NamesAreUnique DEF Sound, Coherent
<1>3. Names(t) = Names(s)
  <2> HIDE DEF t
  <2> QED BY <1>1, <1>2 DEF Names
<1>4. \A h \in Fields(s) : h.name # f.name => h \in Fields(t)
  <2> HIDE DEF t
  <2> QED BY <1>1
<1> HIDE DEF t
<1>5. Child(s, t)
  BY <1>1, <1>3, <1>4, FieldEdit DEF Sound
<1> QED BY <1>5 DEF t

(* toggle_required.                                                        *)
LEMMA ToggleRequiredChild ==
  ASSUME NEW s, Sound(s), NEW f \in Fields(s)
  PROVE  Child(s, ToggleRequired(s, f))
<1> DEFINE new == [f EXCEPT !.required = ~f.required]
<1>1. IsField(new) /\ new.producer = f.producer /\ new.name = f.name
  BY FieldFacts DEF Sound, Coherent, IsField
<1>2. ToggleRequired(s, f) = ReplaceField(s, f, new)
  BY DEF ToggleRequired
<1> QED BY <1>1, <1>2, ReplaceFieldChild

(* change_type.                                                            *)
LEMMA ChangeTypeChild ==
  ASSUME NEW s, Sound(s), NEW f \in Fields(s), NEW type \in Types \ {"enum"}
  PROVE  Child(s, ChangeType(s, f, type))
<1> DEFINE new == [f EXCEPT !.type = type, !.enum = {}]
<1>1. IsField(new) /\ new.producer = f.producer /\ new.name = f.name
  BY FieldFacts DEF Sound, Coherent, IsField
<1>2. ChangeType(s, f, type) = ReplaceField(s, f, new)
  BY DEF ChangeType
<1> QED BY <1>1, <1>2, ReplaceFieldChild

(* add_enum_value.                                                         *)
LEMMA AddEnumValueChild ==
  ASSUME NEW s, Sound(s), NEW f \in Fields(s), NEW v
  PROVE  Child(s, AddEnumValue(s, f, v))
<1> DEFINE new == [f EXCEPT !.enum = f.enum \cup {v}]
<1>1. CASE f.enum = {}
  BY <1>1, SameIsChild DEF AddEnumValue, Sound
<1>2. CASE f.enum # {}
  <2>1. IsField(new) /\ new.producer = f.producer /\ new.name = f.name
    BY <1>2, FieldFacts DEF Sound, Coherent, IsField
  <2>2. AddEnumValue(s, f, v) = ReplaceField(s, f, new)
    BY <1>2 DEF AddEnumValue
  <2> QED BY <2>1, <2>2, ReplaceFieldChild
<1> QED BY <1>1, <1>2

(* drop_enum_value: the last value stays.                                  *)
LEMMA DropEnumValueChild ==
  ASSUME NEW s, Sound(s), NEW f \in Fields(s), NEW v
  PROVE  Child(s, DropEnumValue(s, f, v))
<1> DEFINE new == [f EXCEPT !.enum = f.enum \ {v}]
<1>1. CASE ~(Cardinality(f.enum) > 1)
  BY <1>1, SameIsChild DEF DropEnumValue, Sound
<1>2. CASE Cardinality(f.enum) > 1
  <2>0. f.enum \ {v} # {} /\ f.enum # {}
    <3>1. f.enum \ {v} = {} => f.enum = {} \/ f.enum = {v}
      OBVIOUS
    <3>2. Cardinality({}) = 0 /\ Cardinality({v}) = 1
      BY FS_EmptySet, FS_Singleton
    <3> QED BY <1>2, <3>1, <3>2
  <2>1. IsField(new) /\ new.producer = f.producer /\ new.name = f.name
    BY <2>0, FieldFacts DEF Sound, Coherent, IsField
  <2>2. DropEnumValue(s, f, v) = ReplaceField(s, f, new)
    BY <1>2 DEF DropEnumValue
  <2> QED BY <2>1, <2>2, ReplaceFieldChild
<1> QED BY <1>1, <1>2

(* A name that is longer than another one.                                 *)
LEMMA AppendedName ==
  ASSUME NEW n, IsName(n), NEW w
  PROVE  IsName(Append(n, w)) /\ Append(n, w) # n
<1>1. Len(n) \in Nat /\ DOMAIN n = 1 .. Len(n)
  BY ListFacts DEF IsName
<1>2. IsList(Append(n, w)) /\ DOMAIN Append(n, w) = 1 .. Len(n) + 1
  BY AppendedList DEF IsName
<1>3. 1 .. Len(n) + 1 # 1 .. Len(n) /\ 1 .. Len(n) + 1 # {}
  <2>1. Len(n) + 1 \in 1 .. Len(n) + 1 /\ Len(n) + 1 \notin 1 .. Len(n)
    BY <1>1
  <2> QED BY <2>1
<1>4. DOMAIN <<>> = {}
  OBVIOUS
<1> QED BY <1>1, <1>2, <1>3, <1>4 DEF IsName

(* A name made of two is longer than each.                                 *)
LEMMA JoinedName ==
  ASSUME NEW a, NEW b, IsName(a), IsName(b)
  PROVE  IsName(a \o b) /\ a \o b # a /\ a \o b # b
<1>1. /\ Len(a) \in Nat /\ DOMAIN a = 1 .. Len(a)
      /\ Len(b) \in Nat /\ DOMAIN b = 1 .. Len(b)
  BY ListFacts DEF IsName
<1>2. Len(a) # 0 /\ Len(b) # 0
  BY EmptySeq DEF IsName, IsList
<1>3. IsList(a \o b) /\ DOMAIN (a \o b) = 1 .. Len(a) + Len(b)
  BY JoinedList DEF IsName
<1>4. /\ Len(a) + Len(b) \in 1 .. Len(a) + Len(b)
      /\ Len(a) + Len(b) \notin 1 .. Len(a)
      /\ Len(a) + Len(b) \notin 1 .. Len(b)
  BY <1>1, <1>2
<1>5. DOMAIN <<>> = {}
  OBVIOUS
<1> HIDE DEF IsName
<1> QED BY <1>1, <1>3, <1>4, <1>5 DEF IsName

(* split_field: two names for one.                                         *)
LEMMA SplitFieldChild ==
  ASSUME NEW s, Sound(s), NEW f \in Fields(s), NEW n1, NEW n2,
         IsName(n1), IsName(n2), n1 # f.name, n2 # f.name
  PROVE  Child(s, SplitField(s, f, n1, n2))
<1> DEFINE first == [f EXCEPT !.name = n1]
           second == [f EXCEPT !.name = n2]
           cut == DropField(s, f)
           one == AppendField(cut, first)
           two == AppendField(one, second)
           rules == (two.rules \o DefaultRules(first)) \o DefaultRules(second)
           validators == Put(Put(two.validators, n1, DefaultValidator),
                             n2, DefaultValidator)
           u == SplitField(s, f, n1, n2)
<1>1. /\ Coherent(cut) /\ Names(cut) = Names(s) \ {f.name}
      /\ Keeps(s, cut, {f.name})
  BY DropFieldFacts
<1>2. IsField(first) /\ IsField(second) /\ first.name = n1 /\ second.name = n2
  BY FieldFacts DEF Sound, Coherent, IsField
<1>3. /\ IsSchema(one) /\ one.rules = cut.rules
      /\ one.validators = cut.validators
      /\ \A g : g \in Fields(one) <=> g \in Fields(cut) \/ g = first
      /\ Unique(one) => n1 \notin Names(cut)
  <2> HIDE DEF cut, first
  <2> QED BY <1>1, <1>2, AppendFieldFacts DEF Coherent
<1>4. /\ IsSchema(two) /\ two.rules = cut.rules
      /\ two.validators = cut.validators
      /\ \A g : g \in Fields(two) <=>
                  g \in Fields(cut) \/ g = first \/ g = second
      /\ Unique(two) => Unique(one) /\ n2 \notin Names(one)
  <2> HIDE DEF cut, first, second, one
  <2> QED BY <1>2, <1>3, AppendFieldFacts
<1>5. /\ AreRules(DefaultRules(first)) /\ AreRules(DefaultRules(second))
      /\ \A r \in ToSet(DefaultRules(first)) : r.field = n1
      /\ \A r \in ToSet(DefaultRules(second)) : r.field = n2
  <2> HIDE DEF first, second
  <2> QED BY <1>2, DefaultRulesFacts
<1>6. AreRules(cut.rules)
  <2> HIDE DEF cut
  <2> QED BY <1>1 DEF Coherent, IsSchema, AreRules
<1>7. /\ AreRules(cut.rules \o DefaultRules(first)) /\ AreRules(rules)
      /\ ToSet(rules) = (ToSet(cut.rules) \cup ToSet(DefaultRules(first)))
                          \cup ToSet(DefaultRules(second))
  <2> HIDE DEF cut, first, second, two
  <2>1. /\ AreRules(two.rules \o DefaultRules(first))
        /\ ToSet(two.rules \o DefaultRules(first)) =
             ToSet(cut.rules) \cup ToSet(DefaultRules(first))
    BY <1>4, <1>5, <1>6, JoinedRules
  <2> QED BY <1>4, <1>5, <2>1, JoinedRules
<1>8. WithRest(two, u, rules, validators)
  <2>1. u = [two EXCEPT !.rules = rules, !.validators = validators]
    BY DEF SplitField
  <2> HIDE DEF two, u, rules, validators
  <2> QED BY <1>4, <1>7, <2>1 DEF WithRest, IsSchema
<1>9. IsSchema(u) /\ Fields(u) = Fields(two) /\ u.rules = rules
      /\ u.validators = validators /\ (Unique(u) <=> Unique(two))
  <2> HIDE DEF two, u, rules, validators
  <2> QED BY <1>4, <1>8, WithRestFacts DEF WithRest
<1>10. Names(u) = Names(cut) \cup {n1, n2}
  <2> HIDE DEF two, u, cut, first, second
  <2> QED BY <1>2, <1>4, <1>9 DEF Names
<1>11. DOMAIN validators = DOMAIN cut.validators \cup {n1, n2}
  <2> HIDE DEF two, cut
  <2> QED BY <1>4 DEF Put
<1>12. Linked(u)
  <2> HIDE DEF u, rules, validators, cut, first, second
  <2> QED BY <1>1, <1>5, <1>7, <1>9, <1>10, <1>11 DEF Linked, Coherent
<1>13. Keeps(s, u, {f.name} \cup {n1, n2})
  <2> SUFFICES ASSUME NEW n \in Names(s), n # f.name, n # n1, n # n2
               PROVE  /\ \A h \in Fields(s) : h.name = n => h \in Fields(u)
                      /\ u.validators[n] = s.validators[n]
                      /\ RulesAbout(u.rules, n) = RulesAbout(s.rules, n)
    BY DEF Keeps
  <2>1. /\ \A h \in Fields(s) : h.name = n => h \in Fields(cut)
        /\ cut.validators[n] = s.validators[n]
        /\ RulesAbout(cut.rules, n) = RulesAbout(s.rules, n)
    <3> HIDE DEF cut
    <3> QED BY <1>1 DEF Keeps
  <2>2. RulesAbout(rules, n) = RulesAbout(cut.rules, n)
    <3> DEFINE a == cut.rules
               b == DefaultRules(first)
               c == DefaultRules(second)
    <3>1. rules = (a \o b) \o c
      <4> HIDE DEF cut, first, second, two
      <4> QED BY <1>4
    <3>2. /\ IsList(a) /\ IsList(b) /\ IsList(c) /\ IsList(a \o b)
          /\ \A r \in ToSet(b) : r.field # n
          /\ \A r \in ToSet(c) : r.field # n
      <4> HIDE DEF cut, first, second
      <4> QED BY <1>5, <1>6, <1>7 DEF AreRules
    <3> HIDE DEF a, b, c, rules
    <3>3. RulesAbout(a \o b, n) = RulesAbout(a, n)
      BY <3>2, RulesAboutMore
    <3>4. RulesAbout((a \o b) \o c, n) = RulesAbout(a \o b, n)
      BY <3>2, RulesAboutMore
    <3>5. RulesAbout(rules, n) = RulesAbout(a, n)
      BY <3>1, <3>3, <3>4
    <3> QED BY <3>5 DEF a
  <2>3. validators[n] = cut.validators[n]
    <3>1. n \in DOMAIN cut.validators
      <4> HIDE DEF cut
      <4> QED BY <1>1 DEF Coherent, Linked
    <3> HIDE DEF cut, two
    <3> QED BY <1>4, <3>1 DEF Put
  <2> HIDE DEF two, u, cut, first, second, validators, rules
  <2> QED BY <1>4, <1>9, <2>1, <2>2, <2>3
<1>14. Unique(u) => {n1, n2} \cap (Names(s) \ {f.name}) = {}
  <2>1. \A n \in Names(cut) : n \in Names(one)
    <3> HIDE DEF cut, one, first
    <3> QED BY <1>3 DEF Names
  <2> HIDE DEF u, cut, one, two
  <2> QED BY <1>1, <1>3, <1>4, <1>9, <2>1
<1>15. Coherent(u)
  BY <1>9, <1>12 DEF Coherent
<1>16. Names(u) = (Names(s) \ {f.name}) \cup {n1, n2}
  <2> HIDE DEF u, cut
  <2> QED BY <1>1, <1>10
<1> HIDE DEF u
<1>17. Trades(s, u, {f.name}, {n1, n2})
  BY <1>13, <1>14, <1>16 DEF Trades
<1>18. Child(s, u)
  <2>1. {f.name} \cap {n1, n2} = {}
    OBVIOUS
  <2> QED BY <1>15, <1>17, <2>1, SmallFacts, TradeIsChild
<1> QED BY <1>18 DEF u

(* merge_fields of two fields of one module: one name for two.             *)
LEMMA MergeFieldsChild ==
  ASSUME NEW s, Sound(s), NEW f \in Fields(s), NEW g \in Fields(s),
         f # g, f.producer = g.producer
  PROVE  Child(s, MergeFields(s, f, g))
<1> DEFINE merge == [name      |-> f.name \o g.name,
                     type      |-> "object",
                     required  |-> f.required \/ g.required,
                     producer  |-> f.producer,
                     consumers |-> f.consumers \cup g.consumers,
                     enum      |-> {}]
           names == {f.name, g.name}
           cut == RemoveFields(s, f.producer, names)
           t == AppendField(cut, merge)
           rules == RulesNotAbout(t.rules, names) \o DefaultRules(merge)
           validators == Put(Pop(t.validators, names), merge.name,
                             DefaultValidator)
           u == MergeFields(s, f, g)
<1>0. /\ IsField(f) /\ IsField(g)
      /\ IsName(merge.name) /\ merge.name # f.name /\ merge.name # g.name
  <2>1. IsField(f) /\ IsField(g)
    BY FieldFacts DEF Sound, Coherent
  <2> QED BY <2>1, JoinedName DEF IsField
<1>1. IsField(merge)
  BY <1>0 DEF IsField, Types
<1>2. /\ IsSchema(cut) /\ cut.rules = s.rules /\ cut.validators = s.validators
      /\ \A h : h \in Fields(cut) <=>
           h \in Fields(s) /\ ~(h.producer = f.producer /\ h.name \in names)
  <2>1. IsSchema(s) /\ f.producer \in ModuleSet
    BY FieldFacts DEF Sound, Coherent
  <2> HIDE DEF names
  <2> QED BY <2>1, RemoveFieldsFacts
<1>3. /\ IsSchema(t) /\ t.rules = s.rules /\ t.validators = s.validators
      /\ \A h : h \in Fields(t) <=> h \in Fields(cut) \/ h = merge
      /\ Unique(t) => merge.name \notin Names(cut)
  <2> HIDE DEF cut, merge
  <2> QED BY <1>1, <1>2, AppendFieldFacts
<1>4. AreRules(s.rules) /\ AreRules(DefaultRules(merge))
      /\ \A r \in ToSet(DefaultRules(merge)) : r.field = merge.name
  <2> HIDE DEF merge
  <2> QED BY <1>1, DefaultRulesFacts
          DEF Sound, Coherent, IsSchema, AreRules
<1>5. /\ AreRules(rules)
      /\ \A r \in ToSet(rules) :
           (r \in ToSet(s.rules) /\ r.field \notin names)
             \/ r \in ToSet(DefaultRules(merge))
  <2> HIDE DEF merge, t, names
  <2>1. /\ AreRules(RulesNotAbout(t.rules, names))
        /\ \A r : r \in ToSet(RulesNotAbout(t.rules, names)) <=>
                    r \in ToSet(s.rules) /\ r.field \notin names
    BY <1>3, <1>4, RulesNotAboutFacts
  <2> QED BY <1>4, <2>1, JoinedRules
<1>6. WithRest(t, u, rules, validators)
  <2>1. u = [t EXCEPT !.rules = rules, !.validators = validators]
    BY DEF MergeFields
  <2> HIDE DEF t, u, rules, validators
  <2> QED BY <1>3, <1>5, <2>1 DEF WithRest, IsSchema
<1>7. IsSchema(u) /\ Fields(u) = Fields(t) /\ u.rules = rules
      /\ u.validators = validators /\ (Unique(u) <=> Unique(t))
  <2> HIDE DEF t, u, rules, validators
  <2> QED BY <1>3, <1>6, WithRestFacts DEF WithRest
<1>8. \A h \in Fields(s) : h.name \in names => h.producer = f.producer
  BY NamesAreUnique DEF Sound, Coherent
<1>9. Names(u) = (Names(s) \ names) \cup {merge.name}
  <2> HIDE DEF t, u, cut, merge, names
  <2> QED BY <1>2, <1>3, <1>7, <1>8 DEF Names
<1>10. DOMAIN validators = (DOMAIN s.validators \ names) \cup {merge.name}
  <2> HIDE DEF t, names, merge
  <2> QED BY <1>3 DEF Put, Pop
<1>11. Linked(u)
  <2> HIDE DEF u, rules, validators, names, merge
  <2> QED BY <1>4, <1>5, <1>7, <1>9, <1>10 DEF Linked, Coherent, Sound
<1>12. Keeps(s, u, names \cup {merge.name})
  <2> SUFFICES ASSUME NEW n \in Names(s), n \notin names, n # merge.name
               PROVE  /\ \A h \in Fields(s) : h.name = n => h \in Fields(u)
                      /\ u.validators[n] = s.validators[n]
                      /\ RulesAbout(u.rules, n) = RulesAbout(s.rules, n)
    <3> HIDE DEF u, names, merge
    <3> QED BY DEF Keeps
  <2> HIDE DEF names, merge
  <2>1. RulesAbout(rules, n) = RulesAbout(s.rules, n)
    <3> DEFINE a == RulesNotAbout(s.rules, names)
               b == DefaultRules(merge)
    <3>1. rules = a \o b
      <4> HIDE DEF t
      <4> QED BY <1>3
    <3>2. /\ IsList(a) /\ IsList(b) /\ IsList(s.rules)
          /\ \A r \in ToSet(b) : r.field # n
      BY <1>4, RulesNotAboutFacts DEF AreRules
    <3>3. RulesAbout(a, n) = RulesAbout(s.rules, n)
      BY <3>2, RulesNotAboutOthers
    <3> HIDE DEF a, b, rules
    <3>4. RulesAbout(a \o b, n) = RulesAbout(a, n)
      BY <3>2, RulesAboutMore
    <3> QED BY <3>1, <3>3, <3>4
  <2>2. validators[n] = s.validators[n]
    <3>1. n \in DOMAIN s.validators
      BY DEF Sound, Coherent, Linked
    <3> HIDE DEF t
    <3> QED BY <1>3, <3>1 DEF Put, Pop
  <2> HIDE DEF t, u, cut, validators, rules
  <2> QED BY <1>2, <1>3, <1>7, <2>1, <2>2
<1>13. Unique(u) => {merge.name} \cap (Names(s) \ names) = {}
  <2>1. \A n \in Names(s) \ names : n \in Names(cut)
    <3> HIDE DEF cut, names
    <3> QED BY <1>2 DEF Names
  <2> HIDE DEF u, cut, t, names, merge
  <2> QED BY <1>3, <1>7, <2>1
<1>14. Coherent(u)
  BY <1>7, <1>11 DEF Coherent
<1> HIDE DEF u
<1>15. Trades(s, u, names, {merge.name})
  <2> HIDE DEF names, merge
  <2> QED BY <1>9, <1>12, <1>13 DEF Trades
<1>16. Child(s, u)
  <2>1. names \cap {merge.name} = {}
    <3> HIDE DEF merge
    <3> QED BY <1>0
  <2>2. Small(names) /\ Small({merge.name})
    <3> HIDE DEF merge
    <3> QED BY SmallFacts
  <2> HIDE DEF names, merge
  <2> QED BY <1>14, <1>15, <2>1, <2>2, TradeIsChild
<1> QED BY <1>16 DEF u

(* move_field: the field has another producer.                             *)
LEMMA MoveFieldChild ==
  ASSUME NEW s, Sound(s), NEW f \in Fields(s), NEW target \in ModuleSet
  PROVE  Child(s, MoveField(s, f, target))
<1> DEFINE moved == [f EXCEPT !.producer = target]
           cut == RemoveFields(s, f.producer, {f.name})
           u == MoveField(s, f, target)
<1>1. IsField(moved) /\ moved.name = f.name
  BY FieldFacts DEF Sound, Coherent, IsField
<1>2. /\ IsSchema(cut) /\ cut.rules = s.rules /\ cut.validators = s.validators
      /\ \A h : h \in Fields(cut) <=>
           h \in Fields(s) /\ ~(h.producer = f.producer /\ h.name \in {f.name})
  <2>1. IsSchema(s) /\ f.producer \in ModuleSet
    BY FieldFacts DEF Sound, Coherent
  <2> QED BY <2>1, RemoveFieldsFacts
<1>3. u = AppendField(cut, moved)
  BY DEF MoveField
<1>4. /\ IsSchema(u) /\ u.rules = s.rules /\ u.validators = s.validators
      /\ \A h : h \in Fields(u) <=> h \in Fields(cut) \/ h = moved
  <2> HIDE DEF cut, moved, u
  <2> QED BY <1>1, <1>2, <1>3, AppendFieldFacts
<1>5. \A h \in Fields(s) : h.name = f.name => h = f
  BY NamesAreUnique DEF Sound, Coherent
<1>6. Names(u) = Names(s)
  <2> HIDE DEF u, cut, moved
  <2> QED BY <1>1, <1>2, <1>4, <1>5 DEF Names
<1>7. \A h \in Fields(s) : h.name # f.name => h \in Fields(u)
  <2> HIDE DEF u, cut, moved
  <2> QED BY <1>2, <1>4
<1> HIDE DEF u
<1>8. Child(s, u)
  BY <1>4, <1>6, <1>7, FieldEdit DEF Sound
<1> QED BY <1>8 DEF u

(* add_consumer_rule.                                                      *)
LEMMA AddRuleChild ==
  ASSUME NEW s, Coherent(s), NEW f \in Fields(s), NEW c
  PROVE  Child(s, AddRule(s, c, f.name))
<1> DEFINE rule == [consumer |-> c, field |-> f.name]
           rules == Append(s.rules, rule)
           u == AddRule(s, c, f.name)
<1>1. AreRules(rules) /\ ToSet(rules) = ToSet(s.rules) \cup {rule}
  BY AppendedList DEF Coherent, IsSchema, AreRules
<1>2. WithRest(s, u, rules, s.validators)
  <2> HIDE DEF rules, rule
  <2> QED BY <1>1 DEF WithRest, AddRule, Coherent, IsSchema, rules, rule
<1>3. IsSchema(u) /\ Fields(u) = Fields(s) /\ u.rules = rules
      /\ u.validators = s.validators
  <2> HIDE DEF u, rules
  <2> QED BY <1>2, WithRestFacts DEF WithRest, Coherent
<1>4. rule.field \in Names(s)
  BY DEF Names
<1>5. Linked(u)
  <2> HIDE DEF u, rules, rule
  <2> QED BY <1>1, <1>3, <1>4 DEF Linked, Coherent, Names
<1>6. Keeps(s, u, {f.name})
  <2> SUFFICES ASSUME NEW n \in Names(s), n # f.name
               PROVE  RulesAbout(rules, n) = RulesAbout(s.rules, n)
    <3> HIDE DEF u, rules
    <3> QED BY <1>3 DEF Keeps
  <2> QED BY RulesAboutAppended DEF Coherent, IsSchema
<1>7. Coherent(u) /\ Names(u) = Names(s)
  <2> HIDE DEF u
  <2> QED BY <1>3, <1>5 DEF Coherent, Names
<1> HIDE DEF u
<1>8. Child(s, u)
  BY <1>6, <1>7, EditIsChild DEF Edits
<1> QED BY <1>8 DEF u

(* drop_consumer_rule: the rules about other names stay.                   *)
LEMMA DropRuleChild ==
  ASSUME NEW s, Coherent(s), NEW q
  PROVE  Child(s, DropRule(s, q))
<1> DEFINE R == s.rules
           S == {i \in DOMAIN R : R[i] # q}
           rules == Picked(R, S)
           u == DropRule(s, q)
<1>1. IsList(R) /\ S \in SUBSET (DOMAIN R) /\ AreRules(R)
  BY DEF Coherent, IsSchema, AreRules
<1>2. IsList(rules) /\ ToSet(rules) = {R[i] : i \in S}
  <2> HIDE DEF S, R
  <2> QED BY <1>1, PickedFacts
<1>3. AreRules(rules) /\ ToSet(rules) \subseteq ToSet(R)
  <2> HIDE DEF rules
  <2> QED BY <1>1, <1>2 DEF AreRules, ToSet
<1>4. WithRest(s, u, rules, s.validators)
  <2>1. u = [s EXCEPT !.rules = rules]
    BY DEF DropRule
  <2> HIDE DEF rules, u
  <2> QED BY <1>3, <2>1 DEF WithRest, Coherent, IsSchema
<1>5. IsSchema(u) /\ Fields(u) = Fields(s) /\ u.rules = rules
      /\ u.validators = s.validators
  <2> HIDE DEF u, rules
  <2> QED BY <1>4, WithRestFacts DEF WithRest, Coherent
<1>6. Linked(u)
  <2> HIDE DEF u, rules
  <2> QED BY <1>3, <1>5 DEF Linked, Coherent, Names
<1>7. Keeps(s, u, {q.field})
  <2> SUFFICES ASSUME NEW n \in Names(s), n # q.field
               PROVE  RulesAbout(rules, n) = RulesAbout(s.rules, n)
    <3> HIDE DEF u, rules
    <3> QED BY <1>5 DEF Keeps
  <2>1. \A i \in DOMAIN R : R[i].field = n => i \in S
    OBVIOUS
  <2> HIDE DEF S, R
  <2>2. RulesAbout(Picked(R, S), n) = RulesAbout(R, n)
    BY <1>1, <2>1, RulesAboutLeft
  <2> QED BY <2>2 DEF R
<1>8. Coherent(u) /\ Names(u) = Names(s)
  <2> HIDE DEF u
  <2> QED BY <1>5, <1>6 DEF Coherent, Names
<1> HIDE DEF u
<1>9. Child(s, u)
  BY <1>7, <1>8, EditIsChild DEF Edits
<1> QED BY <1>9 DEF u

(* tighten_validator and loosen_validator.                                 *)
LEMMA SetValidatorChild ==
  ASSUME NEW s, Coherent(s), NEW f \in Fields(s), NEW v
  PROVE  Child(s, SetValidator(s, f.name, v))
<1> DEFINE validators == Put(s.validators, f.name, v)
           u == SetValidator(s, f.name, v)
<1>1. WithRest(s, u, s.rules, validators)
  <2>1. u = [s EXCEPT !.validators = validators]
    BY DEF SetValidator
  <2> HIDE DEF validators, u
  <2> QED BY <2>1 DEF WithRest, Coherent, IsSchema, AreRules
<1>2. IsSchema(u) /\ Fields(u) = Fields(s) /\ u.rules = s.rules
      /\ u.validators = validators
  <2> HIDE DEF u, validators
  <2> QED BY <1>1, WithRestFacts DEF WithRest, Coherent
<1>3. DOMAIN validators = DOMAIN s.validators \cup {f.name}
  BY DEF Put
<1>4. f.name \in Names(s)
  BY DEF Names
<1>5. Linked(u)
  <2> HIDE DEF u, validators
  <2> QED BY <1>2, <1>3, <1>4 DEF Linked, Coherent, Names
<1>6. Keeps(s, u, {f.name})
  <2>1. \A n \in Names(s) \ {f.name} : validators[n] = s.validators[n]
    BY DEF Put, Coherent, Linked
  <2> HIDE DEF u, validators
  <2> QED BY <1>2, <2>1 DEF Keeps
<1>7. Coherent(u) /\ Names(u) = Names(s)
  <2> HIDE DEF u
  <2> QED BY <1>2, <1>5 DEF Coherent, Names
<1> HIDE DEF u
<1>8. Child(s, u)
  BY <1>6, <1>7, EditIsChild DEF Edits
<1> QED BY <1>8 DEF u

(* Modules next to a module are modules.                                   *)
LEMMA NeighboursFacts ==
  ASSUME NEW m \in ModuleSet
  PROVE  Earlier(m) \in ModuleSet /\ Later(m) \in ModuleSet
<1>1. Len(Modules) \in Nat /\ DOMAIN Modules = 1 .. Len(Modules)
  BY ModulesAssumption, ListFacts
<1>2. Index(m) \in 1 .. Len(Modules)
  <2>1. \E i \in 1 .. Len(Modules) : Modules[i] = m
    BY <1>1 DEF ModuleSet, ToSet
  <2> QED BY <2>1 DEF Index
<1>3. \A i \in 1 .. Len(Modules) : Modules[i] \in ModuleSet
  BY <1>1 DEF ModuleSet, ToSet
<1>4. Earlier(m) \in ModuleSet
  <2>1. CASE Index(m) = 1 BY <2>1 DEF Earlier
  <2>2. CASE Index(m) # 1
    <3>1. Index(m) - 1 \in 1 .. Len(Modules) BY <1>1, <1>2, <2>2
    <3> QED BY <1>3, <2>2, <3>1 DEF Earlier
  <2> QED BY <2>1, <2>2
<1>5. Later(m) \in ModuleSet
  <2>1. CASE Index(m) = Len(Modules) BY <2>1 DEF Later
  <2>2. CASE Index(m) # Len(Modules)
    <3>1. Index(m) + 1 \in 1 .. Len(Modules) BY <1>1, <1>2, <2>2
    <3> QED BY <1>3, <2>2, <3>1 DEF Later
  <2> QED BY <2>1, <2>2
<1> QED BY <1>4, <1>5

(* Whatever is drawn, apply_mutation refuses it or the child is coherent.  *)
LEMMA DrawsChild ==
  ASSUME NEW s, Sound(s), NEW child \in Draws(s), child # Failed
  PROVE  Child(s, child)
<1>1. CASE child \in DrawContract(s)
  <2>1. CASE \E f \in Fields(s) :
               child \in {ToggleRequired(s, f),
                          SetValidator(s, f.name, TightValidator(f)),
                          SetValidator(s, f.name, NoValidator)}
    BY <2>1, ToggleRequiredChild, SetValidatorChild DEF Sound
  <2>2. CASE \E f \in Fields(s) : \E t \in (Types \ {"enum"}) \ {f.type} :
               child = ChangeType(s, f, t)
    BY <2>2, ChangeTypeChild
  <2>3. CASE \E f \in Fields(s) : \E v : child = AddEnumValue(s, f, v)
    BY <2>3, AddEnumValueChild
  <2>4. CASE \E f \in Fields(s) : \E v : child = DropEnumValue(s, f, v)
    BY <2>4, DropEnumValueChild
  <2> DEFINE A == UNION {{ToggleRequired(s, f),
                          SetValidator(s, f.name, TightValidator(f)),
                          SetValidator(s, f.name, NoValidator)} :
                           f \in Fields(s)}
             T == UNION {{ChangeType(s, f, t) :
                            t \in (Types \ {"enum"}) \ {f.type}} :
                           f \in Fields(s)}
             E == UNION {{AddEnumValue(s, f, v) : v \in NewValues}
                           \cup {DropEnumValue(s, f, v) : v \in f.enum} :
                           f \in {g \in Fields(s) : g.type = "enum"}}
  <2>5. DrawContract(s) = A \cup T \cup E
    BY DEF DrawContract
  <2>6. child \in A \/ child \in T \/ child \in E
    <3> HIDE DEF A, T, E
    <3> QED BY <1>1, <2>5
  <2> QED BY <2>1, <2>2, <2>3, <2>4, <2>6
<1>2. CASE child \in DrawFields(s)
  <2>0. \A f \in Fields(s) : \A w :
          IsName(Append(f.name, w)) /\ Append(f.name, w) # f.name
    <3>1. \A f \in Fields(s) : IsName(f.name)
      BY FieldFacts DEF Sound, Coherent, IsField
    <3> QED BY <3>1, AppendedName
  <2>1. CASE \E f \in Fields(s) : \E w :
               child = RenameField(s, f, Append(f.name, w))
    BY <2>0, <2>1, RenameFieldChild
  <2>2. CASE \E f \in Fields(s) :
               child = SplitField(s, f, Append(f.name, "signal"),
                                  Append(f.name, "evidence"))
    BY <2>0, <2>2, SplitFieldChild
  <2>3. CASE \E f \in Fields(s) : child \in {MoveField(s, f, Earlier(f.producer)),
                                             MoveField(s, f, Later(f.producer))}
    <3>1. \A f \in Fields(s) : f.producer \in ModuleSet
      BY FieldFacts DEF Sound, Coherent
    <3> QED BY <2>3, <3>1, NeighboursFacts, MoveFieldChild
  <2>4. CASE \E f \in TemplateFields : child = AddField(s, f)
    BY <2>4, SearchAssumption, AddFieldChild DEF Sound
  <2> DEFINE A == UNION {{RenameField(s, f, Append(f.name, w)) : w \in Versions}
                            \cup {SplitField(s, f, Append(f.name, "signal"),
                                             Append(f.name, "evidence")),
                                  MoveField(s, f, Earlier(f.producer)),
                                  MoveField(s, f, Later(f.producer))} :
                           f \in Fields(s)}
             N == {AddField(s, f) :
                     f \in {g \in TemplateFields : g.name \notin Names(s)}}
  <2>5. DrawFields(s) = A \cup N
    BY DEF DrawFields
  <2>6. child \in A \/ child \in N
    <3> HIDE DEF A, N
    <3> QED BY <1>2, <2>5
  <2> QED BY <2>1, <2>2, <2>3, <2>4, <2>6
<1>3. CASE child \in DrawRemovals(s)
  <2>1. CASE \E f \in Fields(s) : child = DropField(s, f)
    <3>1. PICK f \in Fields(s) : child = DropField(s, f)
      BY <2>1
    <3>2. Child(s, DropField(s, f))
      BY DropFieldChild
    <3> QED BY <3>1, <3>2
  <2>2. CASE \E f, g \in Fields(s) : f # g /\ child = MergeFields(s, f, g)
    <3>1. PICK f \in Fields(s), g \in Fields(s) :
            f # g /\ child = MergeFields(s, f, g)
      BY <2>2
    <3>2. f.producer = g.producer
      BY <3>1 DEF MergeFields
    <3> QED BY <3>1, <3>2, MergeFieldsChild
  <2>3. \A f \in Fields(s) : Partners(s, f) \subseteq Fields(s) \ {f}
    BY DEF Partners
  <2> QED BY <1>3, <2>1, <2>2, <2>3 DEF DrawRemovals
<1>4. CASE child \in DrawRules(s)
  <2>1. CASE \E f \in Fields(s) : child = AddRule(s, Consumer, f.name)
    BY <2>1, AddRuleChild DEF Sound
  <2>2. CASE \E r : child = DropRule(s, r)
    BY <2>2, DropRuleChild DEF Sound
  <2> QED BY <1>4, <2>1, <2>2 DEF DrawRules
<1> QED BY <1>1, <1>2, <1>3, <1>4 DEF Draws

(* A name that is kept has the contract it had.                            *)
LEMMA SameContract ==
  ASSUME NEW s, Sound(s), NEW u, Sound(u), NEW X, Keeps(s, u, X),
         NEW n \in Names(s) \ X
  PROVE  Contract(s, n) = Contract(u, n)
<1>1. PICK f \in Fields(s) : f.name = n
  BY DEF Names
<1>2. f \in Fields(u)
  BY <1>1 DEF Keeps
<1>3. Field(s, n) = f
  BY <1>1, NamesAreUnique DEF Field, Sound, Coherent
<1>4. Field(u, n) = f
  BY <1>1, <1>2, NamesAreUnique DEF Field, Sound, Coherent
<1>5. n \in DOMAIN s.validators /\ n \in DOMAIN u.validators
  BY <1>1, <1>2 DEF Sound, Coherent, Linked, Names
<1>6. /\ u.validators[n] = s.validators[n]
      /\ RulesAbout(u.rules, n) = RulesAbout(s.rules, n)
  BY DEF Keeps
<1> QED BY <1>3, <1>4, <1>5, <1>6 DEF Contract

(* A child whose names do not clash differs from its parent as LocalTo     *)
(* says.                                                                   *)
LEMMA ChildIsLocal ==
  ASSUME NEW s, Sound(s), NEW u, Child(s, u), ~DuplicateName(u)
  PROVE  LocalTo(s, u)
<1> DEFINE common == Names(s) \cap Names(u)
           lost   == Names(s) \ Names(u)
           gained == Names(u) \ Names(s)
           edited == {n \in common : Contract(s, n) # Contract(u, n)}
<1>0. Cardinality({}) = 0 /\ \A x : Cardinality({x}) = 1
  BY FS_EmptySet, FS_Singleton
<1>1. Sound(u)
  BY DEF Child, Sound
<1>2. CASE \E x : Edits(s, u, x)
  <2>1. PICK x : Edits(s, u, x)
    BY <1>2
  <2>2. lost = {} /\ gained = {} /\ edited \subseteq {x}
    <3>1. \A n \in Names(s) \ {x} : Contract(s, n) = Contract(u, n)
      BY <1>1, <2>1, SameContract DEF Edits
    <3> QED BY <2>1, <3>1 DEF Edits
  <2>3. Cardinality(edited) = 0 \/ Cardinality(edited) = 1
    <3>1. edited = {} \/ edited = {x}
      BY <2>2
    <3> HIDE DEF edited
    <3> QED BY <1>0, <3>1
  <2>4. Cardinality(lost) = 0 /\ Cardinality(gained) = 0
    <3> HIDE DEF lost, gained
    <3> QED BY <1>0, <2>2
  <2>5. lost \cup gained = {}
    BY <2>2
  <2> QED
    <3>1. Cardinality(lost) <= 2 /\ Cardinality(gained) <= 2
      BY <2>4
    <3>2. Cardinality(edited) <= 1
      BY <2>3
    <3> QED BY <2>5, <3>1, <3>2 DEF LocalTo
<1>3. CASE \E L, G : Small(L) /\ Small(G) /\ L \cap G = {} /\ Trades(s, u, L, G)
  <2>1. PICK L, G : Small(L) /\ Small(G) /\ L \cap G = {} /\ Trades(s, u, L, G)
    BY <1>3
  <2>2. /\ Names(u) = (Names(s) \ L) \cup G /\ Keeps(s, u, L \cup G)
        /\ G \cap (Names(s) \ L) = {}
    BY <1>1, <2>1, UniqueFacts DEF Trades, Sound, Coherent
  <2>3. lost \subseteq L /\ gained \subseteq G
    BY <2>2
  <2>4. Small(lost) /\ Small(gained)
    <3> HIDE DEF lost, gained
    <3> QED BY <2>1, <2>3, SmallFacts
  <2>5. edited = {}
    <3>1. \A n \in Names(s) \ (L \cup G) : Contract(s, n) = Contract(u, n)
      BY <1>1, <2>2, SameContract
    <3>2. \A n \in common : n \in Names(s) \ (L \cup G)
      BY <2>1, <2>2
    <3> QED BY <3>1, <3>2
  <2>6. Cardinality(edited) = 0
    <3> HIDE DEF edited
    <3> QED BY <1>0, <2>5
  <2> QED
    <3>1. Cardinality(lost) <= 2 /\ Cardinality(gained) <= 2
      BY <2>4 DEF Small
    <3>2. Cardinality(edited) <= 1
      BY <2>6
    <3>3. edited # {} => lost \cup gained = {}
      BY <2>5
    <3> QED BY <3>1, <3>2, <3>3 DEF LocalTo
<1> QED BY <1>2, <1>3 DEF Child

-----------------------------------------------------------------------------
(* merge_schema_candidates.                                                *)

(* The fields of the second schema that are new in a module.               *)
LEMMA NewFieldsFacts ==
  ASSUME NEW p, NEW q, Sound(q), NEW m \in ModuleSet
  PROVE  LET new == NewFields(p, q, m) IN
         /\ IsList(new) /\ IsInjective(new)
         /\ \A g : g \in ToSet(new) <=>
                     g \in ToSet(q.fields[m]) /\ g.name \notin Names(p)
<1> DEFINE F == q.fields[m]
           S == {i \in DOMAIN F : F[i].name \notin Names(p)}
           new == NewFields(p, q, m)
<1>1. new = Picked(F, S) /\ S \in SUBSET (DOMAIN F)
  BY DEF NewFields, WithoutNames
<1>2. IsList(F) /\ IsInjective(F)
  BY UniqueFacts DEF Sound, Coherent, IsSchema, Unique
<1>3. IsList(new) /\ ToSet(new) = {F[i] : i \in S} /\ IsInjective(new)
  <2> HIDE DEF F, S, new
  <2> QED BY <1>1, <1>2, PickedFacts, PickedOnce
<1>4. \A g : g \in ToSet(new) <=> g \in ToSet(F) /\ g.name \notin Names(p)
  <2> HIDE DEF F, new
  <2> QED BY <1>3 DEF ToSet
<1> QED BY <1>3, <1>4

(* A module with a field is not empty.                                     *)
LEMMA EmptyList ==
  ASSUME NEW seq, IsList(seq)
  PROVE  seq = <<>> <=> ToSet(seq) = {}
<1>1. seq \in Seq(ToSet(seq))
  BY DEF IsList
<1>2. ASSUME seq # <<>> PROVE ToSet(seq) # {}
  <2>1. Len(seq) # 0 /\ Len(seq) \in Nat /\ DOMAIN seq = 1 .. Len(seq)
    BY <1>1, <1>2, EmptySeq, ListFacts
  <2>2. 1 \in DOMAIN seq
    BY <2>1
  <2> QED BY <2>2 DEF ToSet
<1>3. ASSUME seq = <<>> PROVE ToSet(seq) = {}
  BY <1>3 DEF ToSet
<1> QED BY <1>2, <1>3

(* Each module of the merged schema.                                       *)
LEMMA MergedModule ==
  ASSUME NEW p, NEW q, Sound(p), Sound(q), NEW m \in ModuleSet
  PROVE  LET list == p.fields[m] \o NewFields(p, q, m) IN
         /\ IsList(list) /\ IsInjective(list)
         /\ \A g : g \in ToSet(list) <=>
              \/ g \in ToSet(p.fields[m])
              \/ g \in ToSet(q.fields[m]) /\ g.name \notin Names(p)
<1> DEFINE a == p.fields[m]
           b == NewFields(p, q, m)
<1>1. IsList(a) /\ IsInjective(a)
  BY UniqueFacts DEF Sound, Coherent, IsSchema, Unique
<1>2. /\ IsList(b) /\ IsInjective(b)
      /\ \A g : g \in ToSet(b) <=>
                  g \in ToSet(q.fields[m]) /\ g.name \notin Names(p)
  BY NewFieldsFacts
<1>3. \A g \in ToSet(a) : g.name \in Names(p)
  BY DEF Names, Fields
<1>4. IsList(a \o b) /\ ToSet(a \o b) = ToSet(a) \cup ToSet(b)
      /\ IsInjective(a \o b)
  <2>1. ToSet(a) \cap ToSet(b) = {}
    <3> HIDE DEF a, b
    <3> QED BY <1>2, <1>3
  <2> HIDE DEF a, b
  <2> QED BY <1>1, <1>2, <2>1, JoinedList, JoinedOnce
<1> QED BY <1>2, <1>4

(* The modules of the merged schema, in an order of their own.             *)
LEMMA MergedKeys ==
  ASSUME NEW p, NEW q, Sound(p), Sound(q)
  PROVE  LET keys == MergeSchemas(p, q).keys IN
         /\ IsList(keys)
         /\ \A m \in ModuleSet :
              ToSet(p.fields[m] \o NewFields(p, q, m)) # {} => m \in ToSet(keys)
<1> DEFINE S == {k \in DOMAIN p.keys : p.fields[p.keys[k]] # <<>>}
           T == {k \in DOMAIN q.keys : /\ p.fields[q.keys[k]] = <<>>
                                       /\ NewFields(p, q, q.keys[k]) # <<>>}
           a == Picked(p.keys, S)
           b == Picked(q.keys, T)
           keys == MergeSchemas(p, q).keys
<1>1. keys = a \o b
  BY DEF MergeSchemas
<1>2. IsList(p.keys) /\ IsList(q.keys)
  BY DEF Sound, Coherent, IsSchema
<1>3. /\ IsList(a) /\ ToSet(a) = {p.keys[k] : k \in S}
      /\ IsList(b) /\ ToSet(b) = {q.keys[k] : k \in T}
  <2>1. S \in SUBSET (DOMAIN p.keys) /\ T \in SUBSET (DOMAIN q.keys)
    OBVIOUS
  <2> HIDE DEF S, T
  <2> QED BY <1>2, <2>1, PickedFacts
<1>4. IsList(keys) /\ ToSet(keys) = ToSet(a) \cup ToSet(b)
  <2> HIDE DEF a, b
  <2> QED BY <1>1, <1>3, JoinedList
<1>5. ASSUME NEW m \in ModuleSet,
             ToSet(p.fields[m] \o NewFields(p, q, m)) # {}
      PROVE  m \in ToSet(keys)
  <2>1. IsList(p.fields[m]) /\ IsList(NewFields(p, q, m))
    BY NewFieldsFacts DEF Sound, Coherent, IsSchema
  <2>2. CASE p.fields[m] # <<>>
    <3>1. ToSet(p.fields[m]) # {}
      BY <2>1, <2>2, EmptyList
    <3>2. m \in ToSet(p.keys)
      BY <3>1 DEF Sound, Coherent, IsSchema
    <3>3. m \in ToSet(a)
      <4>1. PICK k \in DOMAIN p.keys : p.keys[k] = m
        BY <3>2 DEF ToSet
      <4>2. k \in S
        BY <2>2, <4>1
      <4> HIDE DEF a, S
      <4> QED BY <1>3, <4>1, <4>2
    <3> QED BY <1>4, <3>3
  <2>3. CASE p.fields[m] = <<>>
    <3>1. ToSet(NewFields(p, q, m)) # {}
      BY <1>5, <2>1, <2>3, EmptyList, JoinedList
    <3>2. NewFields(p, q, m) # <<>>
      BY <2>1, <3>1, EmptyList
    <3>3. m \in ToSet(q.keys)
      BY <3>1, NewFieldsFacts DEF Sound, Coherent, IsSchema
    <3>4. m \in ToSet(b)
      <4>1. PICK k \in DOMAIN q.keys : q.keys[k] = m
        BY <3>3 DEF ToSet
      <4>2. k \in T
        BY <2>3, <3>2, <4>1
      <4> HIDE DEF b, T
      <4> QED BY <1>3, <4>1, <4>2
    <3> QED BY <1>4, <3>4
  <2> QED BY <2>2, <2>3
<1> QED BY <1>4, <1>5

(* A merge is sound, has each field of the first schema and the fields of  *)
(* the second that have other names, with their validators, and all rules. *)
LEMMA MergeFacts ==
  ASSUME NEW p, NEW q, Sound(p), Sound(q)
  PROVE  LET s == MergeSchemas(p, q) IN
         /\ Sound(s)
         /\ \A g : g \in Fields(s) <=>
              g \in Fields(p) \/ (g \in Fields(q) /\ g.name \notin Names(p))
         /\ Names(s) = Names(p) \cup Names(q)
         /\ \A n \in Names(s) :
              s.validators[n] = IF n \in Names(p) THEN p.validators[n]
                                                  ELSE q.validators[n]
         /\ ToSet(s.rules) = ToSet(p.rules) \cup ToSet(q.rules)
         /\ IsInjective(s.rules)
<1> DEFINE s == MergeSchemas(p, q)
           list(m) == p.fields[m] \o NewFields(p, q, m)
           R == ToSet(p.rules) \cup ToSet(q.rules)
           valid == [n \in Names(p) \cup Names(q) |-> MergedValidator(p, q, n)]
<1>1. /\ DOMAIN s = {"keys", "fields", "rules", "validators"}
      /\ DOMAIN s.fields = ModuleSet
      /\ \A m \in ModuleSet : s.fields[m] = list(m)
      /\ s.rules = SetToSeq(R) /\ s.validators = valid
  BY DEF MergeSchemas
<1>2. \A m \in ModuleSet :
        /\ IsList(s.fields[m]) /\ IsInjective(s.fields[m])
        /\ \A g : g \in ToSet(s.fields[m]) <=>
             \/ g \in ToSet(p.fields[m])
             \/ g \in ToSet(q.fields[m]) /\ g.name \notin Names(p)
  <2> TAKE m \in ModuleSet
  <2>1. s.fields[m] = list(m)
    BY <1>1
  <2>2. /\ IsList(list(m)) /\ IsInjective(list(m))
        /\ \A g : g \in ToSet(list(m)) <=>
             \/ g \in ToSet(p.fields[m])
             \/ g \in ToSet(q.fields[m]) /\ g.name \notin Names(p)
    BY MergedModule
  <2> HIDE DEF s, list
  <2> QED BY <2>1, <2>2
<1>3. /\ IsList(s.keys)
      /\ \A m \in ModuleSet : ToSet(s.fields[m]) # {} => m \in ToSet(s.keys)
  <2>1. IsList(s.keys) /\ \A m \in ModuleSet :
                            ToSet(list(m)) # {} => m \in ToSet(s.keys)
    BY MergedKeys
  <2> HIDE DEF s, list
  <2> QED BY <1>1, <2>1
<1>4. /\ IsList(s.rules) /\ ToSet(s.rules) = R /\ IsInjective(s.rules)
      /\ \A r \in ToSet(s.rules) : DOMAIN r = {"consumer", "field"}
  <2>1. IsFiniteSet(ToSet(p.rules)) /\ IsFiniteSet(ToSet(q.rules))
    BY ListSetFinite DEF Sound, Coherent, IsSchema
  <2>2. IsFiniteSet(R)
    BY <2>1, FS_Union
  <2>3. \A r \in R : DOMAIN r = {"consumer", "field"}
    BY DEF Sound, Coherent, IsSchema
  <2> HIDE DEF s, R
  <2>4. /\ IsList(s.rules) /\ IsInjective(s.rules)
        /\ DOMAIN s.rules = 1 .. Cardinality(R)
        /\ \A j \in 1 .. Cardinality(R) : s.rules[j] \in R
        /\ \A r \in R : \E j \in 1 .. Cardinality(R) : s.rules[j] = r
    BY <1>1, <2>2, SetToSeqFacts
  <2>5. ToSet(s.rules) = R
    BY <2>4 DEF ToSet
  <2> QED BY <2>3, <2>4, <2>5
<1>5. IsSchema(s)
  <2>1. \A m \in ModuleSet : \A f \in ToSet(s.fields[m]) :
          IsField(f) /\ f.producer = m /\ m \in ToSet(s.keys)
    <3> TAKE m \in ModuleSet
    <3> TAKE f \in ToSet(s.fields[m])
    <3>1. f \in ToSet(p.fields[m]) \/ f \in ToSet(q.fields[m])
      <4> HIDE DEF s
      <4> QED BY <1>2
    <3>2. IsField(f) /\ f.producer = m
      BY <3>1 DEF Sound, Coherent, IsSchema
    <3> HIDE DEF s
    <3> QED BY <1>3, <3>2
  <2> HIDE DEF s, list, R, valid
  <2> QED BY <1>1, <1>2, <1>3, <1>4, <2>1 DEF IsSchema
<1>6. \A g : g \in Fields(s) <=>
        g \in Fields(p) \/ (g \in Fields(q) /\ g.name \notin Names(p))
  <2> HIDE DEF s
  <2> QED BY <1>2 DEF Fields
<1>7. Names(s) = Names(p) \cup Names(q)
  <2> HIDE DEF s
  <2> QED BY <1>6 DEF Names
<1>8. Unique(s)
  <2>1. /\ \A f, g \in Fields(p) : f.name = g.name => f = g
        /\ \A f, g \in Fields(q) : f.name = g.name => f = g
    BY NamesAreUnique DEF Sound, Coherent
  <2>2. \A f \in Fields(p) : f.name \in Names(p)
    BY DEF Names
  <2>3. \A f, g \in Fields(s) : f.name = g.name => f = g
    <3> HIDE DEF s
    <3> QED BY <1>6, <2>1, <2>2
  <2> HIDE DEF s
  <2> QED BY <1>2, <2>3 DEF Unique
<1>9. ~DuplicateName(s)
  <2> HIDE DEF s
  <2> QED BY <1>5, <1>8, UniqueFacts
<1>10. Linked(s)
  <2>1. DOMAIN s.validators = Names(s)
    <3>1. DOMAIN valid = Names(p) \cup Names(q)
      OBVIOUS
    <3> HIDE DEF s, valid
    <3> QED BY <1>1, <1>7, <3>1
  <2>2. \A r \in R : r.field \in Names(p) \cup Names(q)
    BY DEF Sound, Coherent, Linked
  <2> HIDE DEF s, R
  <2> QED BY <1>4, <1>7, <2>1, <2>2 DEF Linked
<1>11. \A n \in Names(s) : s.validators[n] = IF n \in Names(p)
                                            THEN p.validators[n]
                                            ELSE q.validators[n]
  <2>1. DOMAIN p.validators = Names(p) /\ DOMAIN q.validators = Names(q)
    BY DEF Sound, Coherent, Linked
  <2>2. \A n \in Names(p) \cup Names(q) :
          valid[n] = IF n \in Names(p) THEN p.validators[n]
                                       ELSE q.validators[n]
    BY <2>1 DEF MergedValidator
  <2> HIDE DEF s, valid
  <2> QED BY <1>1, <1>7, <2>2
<1>12. Sound(s)
  BY <1>5, <1>9, <1>10 DEF Sound, Coherent
<1> QED BY <1>4, <1>6, <1>7, <1>11, <1>12

-----------------------------------------------------------------------------
(* A dropped field leaves the others where they were, one after the other. *)

(* The field at a position and the position of a field.                    *)
FieldAt(s, x) == s.fields[x[1]][x[2]]

PlaceOf(s, f) == CHOOSE x \in Positions(s) : FieldAt(s, x) = f

(* The order of module_fields, for fields.                                 *)
Ahead(s, f, g) == Before(s, PlaceOf(s, f), PlaceOf(s, g))

(* What is at a position.                                                  *)
LEMMA PositionFacts ==
  ASSUME NEW s, IsSchema(s), NEW x \in Positions(s)
  PROVE  /\ x[1] \in ModuleSet /\ x[2] \in DOMAIN s.fields[x[1]]
         /\ x = <<x[1], x[2]>> /\ x[2] \in Nat
         /\ FieldAt(s, x) \in Fields(s) /\ FieldAt(s, x).producer = x[1]
<1>1. PICK m \in ModuleSet : x \in {m} \X DOMAIN s.fields[m]
  BY DEF Positions
<1>2. x[1] = m /\ x[2] \in DOMAIN s.fields[m] /\ x = <<x[1], x[2]>>
  BY <1>1
<1>3. IsList(s.fields[m])
  BY DEF IsSchema
<1>4. x[2] \in Nat
  BY <1>2, <1>3, ListFacts
<1>5. FieldAt(s, x) \in ToSet(s.fields[m])
  BY <1>2 DEF FieldAt, ToSet
<1> QED BY <1>2, <1>4, <1>5 DEF Fields, IsSchema

(* A field of a schema without duplicates is at one position.              *)
LEMMA PlacesFacts ==
  ASSUME NEW s, IsSchema(s), Unique(s), NEW f \in Fields(s)
  PROVE  /\ PlaceOf(s, f) \in Positions(s) /\ FieldAt(s, PlaceOf(s, f)) = f
         /\ PlaceOf(s, f)[1] = f.producer
         /\ \A x \in Positions(s) : FieldAt(s, x) = f => x = PlaceOf(s, f)
<1> DEFINE m == f.producer
<1>1. m \in ModuleSet /\ f \in ToSet(s.fields[m])
  BY FieldFacts
<1>2. PICK i \in DOMAIN s.fields[m] : s.fields[m][i] = f
  BY <1>1 DEF ToSet
<1>3. <<m, i>> \in Positions(s) /\ FieldAt(s, <<m, i>>) = f
  BY <1>1, <1>2 DEF Positions, FieldAt
<1>4. PlaceOf(s, f) \in Positions(s) /\ FieldAt(s, PlaceOf(s, f)) = f
  BY <1>3 DEF PlaceOf
<1>5. ~DuplicateName(s)
  BY UniqueFacts
<1>6. \A x, y \in Positions(s) : FieldAt(s, x).name = FieldAt(s, y).name => x = y
  BY <1>5 DEF DuplicateName, FieldAt
<1> QED BY <1>4, <1>6, PositionFacts

(* What a pruning step leaves alone.                                       *)
LEMMA DropFieldSound ==
  ASSUME NEW s, Sound(s), NEW f \in Fields(s)
  PROVE  LET u == DropField(s, f) IN
         /\ Sound(u) /\ u.keys = s.keys
         /\ u.fields[f.producer] = WithoutNames(s.fields[f.producer], {f.name})
         /\ \A n \in ModuleSet \ {f.producer} : u.fields[n] = s.fields[n]
         /\ IsInjective(s.rules) => IsInjective(u.rules)
<1> DEFINE m == f.producer
           F == s.fields[m]
           S == {i \in DOMAIN F : F[i].name \notin {f.name}}
           list == WithoutNames(F, {f.name})
           u == DropField(s, f)
<1>1. /\ IsSchema(s) /\ Unique(s) /\ m \in ModuleSet /\ m \in ToSet(s.keys)
      /\ IsList(F) /\ IsInjective(F)
  BY FieldFacts, UniqueFacts DEF Sound, Coherent, IsSchema, Unique
<1>2. /\ u.keys = s.keys /\ u.fields[m] = list
      /\ \A n \in ModuleSet \ {m} : u.fields[n] = s.fields[n]
      /\ u.rules = RulesNotAbout(s.rules, {f.name})
  BY <1>1 DEF DropField, RemoveFields, Keys, IsSchema
<1>3. IsInjective(list)
  <2>1. list = Picked(F, S) /\ S \in SUBSET (DOMAIN F)
    BY DEF WithoutNames
  <2> HIDE DEF list, F, S
  <2> QED BY <1>1, <2>1, PickedOnce
<1>4. Coherent(u) /\ \A g : g \in Fields(u) <=> g \in Fields(s) /\ g # f
  BY DropFieldFacts
<1>5. Unique(u)
  <2>1. \A n \in ModuleSet : IsInjective(u.fields[n])
    <3> HIDE DEF u, list
    <3> QED BY <1>1, <1>2, <1>3 DEF Unique
  <2>2. \A g, h \in Fields(u) : g.name = h.name => g = h
    <3> HIDE DEF u
    <3> QED BY <1>1, <1>4 DEF Unique
  <2> HIDE DEF u
  <2> QED BY <2>1, <2>2 DEF Unique
<1>6. Sound(u)
  <2> HIDE DEF u
  <2> QED BY <1>4, <1>5, UniqueFacts DEF Sound, Coherent
<1>7. ASSUME IsInjective(s.rules) PROVE IsInjective(u.rules)
  <2> DEFINE T == {i \in DOMAIN s.rules : s.rules[i].field \notin {f.name}}
  <2>1. u.rules = Picked(s.rules, T) /\ T \in SUBSET (DOMAIN s.rules)
    BY <1>2 DEF RulesNotAbout
  <2>2. IsList(s.rules)
    BY <1>1 DEF IsSchema
  <2> HIDE DEF T, u
  <2> QED BY <1>7, <2>1, <2>2, PickedOnce
<1> QED BY <1>2, <1>6, <1>7

(* Where a field is before and after another one is dropped.               *)
Moved(s, h, f) ==
  LET u == DropField(s, h)
      F == s.fields[h.producer]
      S == {i \in DOMAIN F : F[i].name \notin {h.name}}
  IN  /\ PlaceOf(u, f)[1] = f.producer /\ PlaceOf(s, f)[1] = f.producer
      /\ S \in SUBSET Nat /\ IsFiniteSet(S)
      /\ IF f.producer = h.producer
         THEN /\ PlaceOf(u, f)[2] \in 1 .. Cardinality(S)
              /\ PlaceOf(s, f)[2] = Nth(S, PlaceOf(u, f)[2])
         ELSE PlaceOf(s, f)[2] = PlaceOf(u, f)[2]

(* Where every other field is afterwards.                                  *)
LEMMA PlaceKept ==
  ASSUME NEW s, Sound(s), NEW h \in Fields(s), NEW f \in Fields(DropField(s, h))
  PROVE  Moved(s, h, f)
<1> DEFINE u == DropField(s, h)
           m == h.producer
           F == s.fields[m]
           S == {i \in DOMAIN F : F[i].name \notin {h.name}}
           list == WithoutNames(F, {h.name})
           n == f.producer
           j == PlaceOf(u, f)[2]
<1>1. /\ IsSchema(s) /\ Unique(s) /\ m \in ModuleSet /\ IsList(F)
  BY FieldFacts, UniqueFacts DEF Sound, Coherent, IsSchema
<1>2. /\ Sound(u) /\ u.fields[m] = list
      /\ \A k \in ModuleSet \ {m} : u.fields[k] = s.fields[k]
  BY DropFieldSound
<1>3. IsSchema(u) /\ Unique(u)
  <2> HIDE DEF u
  <2> QED BY <1>2, UniqueFacts DEF Sound, Coherent
<1>4. f \in Fields(s)
  BY DropFieldFacts
<1>5. /\ PlaceOf(u, f) \in Positions(u) /\ FieldAt(u, PlaceOf(u, f)) = f
      /\ PlaceOf(u, f)[1] = n
  <2>1. f \in Fields(u)
    OBVIOUS
  <2> HIDE DEF u
  <2> QED BY <1>3, <2>1, PlacesFacts
<1>6. n \in ModuleSet /\ j \in DOMAIN u.fields[n] /\ u.fields[n][j] = f
  <2> HIDE DEF u
  <2> QED BY <1>3, <1>5, PositionFacts DEF FieldAt
<1>7. /\ PlaceOf(s, f)[1] = n
      /\ \A i \in DOMAIN s.fields[n] :
           s.fields[n][i] = f => PlaceOf(s, f) = <<n, i>>
  <2>1. \A i \in DOMAIN s.fields[n] :
          /\ <<n, i>> \in Positions(s)
          /\ FieldAt(s, <<n, i>>) = s.fields[n][i]
    BY <1>6 DEF Positions, FieldAt
  <2> QED BY <1>1, <1>4, <2>1, PlacesFacts
<1>8. /\ S \in SUBSET Nat /\ IsFiniteSet(S)
      /\ DOMAIN list = 1 .. Cardinality(S)
      /\ \A k \in 1 .. Cardinality(S) :
           Nth(S, k) \in S /\ list[k] = F[Nth(S, k)]
  <2>1. list = Picked(F, S) /\ S \in SUBSET (DOMAIN F)
    BY DEF WithoutNames
  <2> HIDE DEF list, S, F
  <2> QED BY <1>1, <2>1, PickedFacts
<1>9. CASE n = m
  <2>1. j \in 1 .. Cardinality(S) /\ list[j] = f
    <3> HIDE DEF u, list, j, S
    <3> QED BY <1>2, <1>6, <1>8, <1>9
  <2>2. Nth(S, j) \in DOMAIN F /\ F[Nth(S, j)] = f
    <3>1. Nth(S, j) \in S /\ F[Nth(S, j)] = f
      <4> HIDE DEF list, j, S, F
      <4> QED BY <1>8, <2>1
    <3> QED BY <3>1
  <2>3. PlaceOf(s, f) = <<n, Nth(S, j)>>
    <3> HIDE DEF S, j
    <3> QED BY <1>7, <1>9, <2>2
  <2>4. PlaceOf(s, f)[2] = Nth(S, j)
    <3> HIDE DEF S, j
    <3> QED BY <2>3
  <2> QED BY <1>5, <1>7, <1>8, <1>9, <2>1, <2>4 DEF Moved
<1>10. CASE n # m
  <2>1. PlaceOf(s, f) = <<n, j>>
    <3> HIDE DEF u, j
    <3> QED BY <1>2, <1>6, <1>7, <1>10
  <2>2. PlaceOf(s, f)[2] = j
    <3> HIDE DEF j
    <3> QED BY <2>1
  <2> QED BY <1>5, <1>7, <1>8, <1>10, <2>2 DEF Moved
<1> QED BY <1>9, <1>10

(* Dropping a field changes the order of no two others.                    *)
LEMMA AheadKept ==
  ASSUME NEW s, Sound(s), NEW h \in Fields(s),
         NEW f \in Fields(DropField(s, h)), NEW g \in Fields(DropField(s, h))
  PROVE  Ahead(DropField(s, h), f, g) <=> Ahead(s, f, g)
<1> DEFINE u == DropField(s, h)
           F == s.fields[h.producer]
           S == {i \in DOMAIN F : F[i].name \notin {h.name}}
<1>0. Moved(s, h, f) /\ Moved(s, h, g)
  BY PlaceKept
<1>1. /\ PlaceOf(u, f)[1] = f.producer /\ PlaceOf(s, f)[1] = f.producer
      /\ PlaceOf(u, g)[1] = g.producer /\ PlaceOf(s, g)[1] = g.producer
      /\ S \in SUBSET Nat /\ IsFiniteSet(S)
      /\ f.producer = h.producer =>
           /\ PlaceOf(u, f)[2] \in 1 .. Cardinality(S)
           /\ PlaceOf(s, f)[2] = Nth(S, PlaceOf(u, f)[2])
      /\ f.producer # h.producer => PlaceOf(s, f)[2] = PlaceOf(u, f)[2]
      /\ g.producer = h.producer =>
           /\ PlaceOf(u, g)[2] \in 1 .. Cardinality(S)
           /\ PlaceOf(s, g)[2] = Nth(S, PlaceOf(u, g)[2])
      /\ g.producer # h.producer => PlaceOf(s, g)[2] = PlaceOf(u, g)[2]
  BY <1>0 DEF Moved
<1>2. \A m : KeyIndex(u, m) = KeyIndex(s, m)
  <2>1. u.keys = s.keys
    BY DropFieldSound
  <2> HIDE DEF u
  <2> QED BY <2>1 DEF KeyIndex
<1>3. f.producer = g.producer =>
        (PlaceOf(u, f)[2] < PlaceOf(u, g)[2]
           <=> PlaceOf(s, f)[2] < PlaceOf(s, g)[2])
  <2> HIDE DEF u, S
  <2> QED BY <1>1, NthGrows
<1>4. Ahead(u, f, g) <=> Ahead(s, f, g)
  <2> HIDE DEF u
  <2> QED BY <1>1, <1>2, <1>3 DEF Ahead, Before
<1> QED BY <1>4

(* Every module that produces has its place among the keys.                *)
LEMMA KeyIndexFacts ==
  ASSUME NEW s, IsSchema(s), NEW m \in ToSet(s.keys)
  PROVE  KeyIndex(s, m) \in Nat /\ KeyIndex(s, m) \in DOMAIN s.keys
         /\ s.keys[KeyIndex(s, m)] = m
<1>1. Len(s.keys) \in Nat /\ DOMAIN s.keys = 1 .. Len(s.keys)
  BY ListFacts DEF IsSchema
<1>2. \E k \in 1 .. Len(s.keys) : s.keys[k] = m
  BY <1>1 DEF ToSet
<1> QED BY <1>1, <1>2 DEF KeyIndex

(* Of two positions at most one is before the other.                       *)
LEMMA BeforeFacts ==
  ASSUME NEW s, IsSchema(s), NEW x \in Positions(s), NEW y \in Positions(s)
  PROVE  /\ KeyIndex(s, x[1]) \in Nat /\ x[2] \in Nat
         /\ ~(Before(s, x, y) /\ Before(s, y, x))
         /\ x # y => Before(s, x, y) \/ Before(s, y, x)
<1>1. /\ x[2] \in Nat /\ y[2] \in Nat /\ x = <<x[1], x[2]>> /\ y = <<y[1], y[2]>>
      /\ x[1] \in ToSet(s.keys) /\ y[1] \in ToSet(s.keys)
  <2>1. \A z \in Positions(s) : /\ z[2] \in Nat /\ z = <<z[1], z[2]>>
                                /\ z[1] \in ToSet(s.keys)
    BY PositionFacts, FieldFacts
  <2> QED BY <2>1
<1>2. KeyIndex(s, x[1]) \in Nat /\ KeyIndex(s, y[1]) \in Nat
      /\ (x[1] # y[1] => KeyIndex(s, x[1]) # KeyIndex(s, y[1]))
  BY <1>1, KeyIndexFacts
<1> QED BY <1>1, <1>2 DEF Before

(* The field the loop removes: the last optional one.                      *)
LEMMA LastRemovableFacts ==
  ASSUME NEW s, IsSchema(s), Removable(s) # {}
  PROVE  /\ LastRemovable(s) \in Removable(s)
         /\ \A y \in Removable(s) \ {LastRemovable(s)} :
              Before(s, y, LastRemovable(s))
<1> DEFINE R == Removable(s)
           K == {KeyIndex(s, x[1]) : x \in R}
<1>1. R \in SUBSET Positions(s)
  BY DEF Removable
<1>2. \A x \in R : /\ x[1] \in ModuleSet /\ x[1] \in ToSet(s.keys)
                   /\ x[2] \in DOMAIN s.fields[x[1]] /\ x = <<x[1], x[2]>>
  BY <1>1, PositionFacts, FieldFacts
<1>3. \A x \in R : KeyIndex(s, x[1]) \in DOMAIN s.keys
                   /\ s.keys[KeyIndex(s, x[1])] = x[1]
  <2> HIDE DEF R
  <2> QED BY <1>2, KeyIndexFacts
<1>4. DOMAIN s.keys \in SUBSET Nat /\ IsFiniteSet(DOMAIN s.keys)
  BY ListFacts DEF IsSchema
<1>5. PICK k \in K : \A i \in K : i <= k
  <2>1. K \in SUBSET (DOMAIN s.keys) /\ K # {}
    BY <1>3
  <2>2. K \in SUBSET Nat /\ IsFiniteSet(K)
    <3> HIDE DEF K
    <3> QED BY <1>4, <2>1, FS_Subset
  <2> HIDE DEF K
  <2> QED BY <2>1, <2>2, GreatestNumber
<1>6. PICK z \in R : k = KeyIndex(s, z[1])
  OBVIOUS
<1> DEFINE I == {i \in DOMAIN s.fields[z[1]] : <<z[1], i>> \in R}
<1>7. PICK i \in I : \A j \in I : j <= i
  <2>1. IsList(s.fields[z[1]])
    BY <1>2, <1>6 DEF IsSchema
  <2>2. I \in SUBSET Nat /\ IsFiniteSet(I)
    BY <2>1, ListFacts, FS_Subset
  <2>3. I # {}
    <3>1. z[2] \in DOMAIN s.fields[z[1]] /\ z = <<z[1], z[2]>>
      BY <1>2, <1>6
    <3>2. z[2] \in I
      <4> HIDE DEF R
      <4> QED BY <1>6, <3>1
    <3> QED BY <3>2
  <2> HIDE DEF I
  <2> QED BY <2>2, <2>3, GreatestNumber
<1>8. PICK x \in R : x = <<z[1], i>>
  BY <1>7
<1>9. \A y \in R \ {x} : Before(s, y, x)
  <2> SUFFICES ASSUME NEW y \in R, y # x PROVE Before(s, y, x)
    OBVIOUS
  <2>0. x[1] = z[1] /\ x[2] = i
    BY <1>8
  <2>1. KeyIndex(s, y[1]) <= KeyIndex(s, x[1])
    BY <1>5, <1>6, <2>0
  <2>2. ~Before(s, x, y)
    <3>1. /\ KeyIndex(s, x[1]) \in Nat /\ KeyIndex(s, y[1]) \in Nat
          /\ x[2] \in Nat /\ y[2] \in Nat
      <4> HIDE DEF R
      <4> QED BY <1>1, BeforeFacts
    <3>2. ASSUME x[1] = y[1] PROVE y[2] <= x[2]
      <4>1. y = <<z[1], y[2]>> /\ y[2] \in DOMAIN s.fields[z[1]]
        BY <1>2, <2>0, <3>2
      <4>2. y[2] \in I
        BY <4>1
      <4> QED BY <1>7, <2>0, <4>2
    <3> QED BY <2>1, <3>1, <3>2 DEF Before
  <2> HIDE DEF R
  <2> QED BY <1>1, <2>2, BeforeFacts
<1>10. \E t \in Removable(s) : \A y \in Removable(s) \ {t} : Before(s, y, t)
  BY <1>9
<1> QED BY <1>10 DEF LastRemovable

-----------------------------------------------------------------------------
(* The tokens of a schema are those of its names, rules and validators.    *)

(* A schema has finitely many positions,                                   *)
LEMMA PositionsAreFinite ==
  ASSUME NEW s, IsSchema(s)
  PROVE  IsFiniteSet(Positions(s)) /\ Cardinality(Positions(s)) \in Nat
<1> DEFINE part(m) == {m} \X DOMAIN s.fields[m]
           P == {part(m) : m \in ModuleSet}
           h == [m \in ModuleSet |-> part(m)]
<1>1. IsFiniteSet(ModuleSet)
  BY ModulesAssumption, ListSetFinite DEF ModuleSet
<1>2. IsFiniteSet(P)
  <2>1. h \in Surjection(ModuleSet, P)
    BY DEF Surjection
  <2> HIDE DEF h, P
  <2> QED BY <1>1, <2>1, FS_Surjection
<1>3. \A T \in P : IsFiniteSet(T)
  <2>1. \A m \in ModuleSet : IsFiniteSet(DOMAIN s.fields[m])
    BY ListFacts DEF IsSchema
  <2>2. \A m : IsFiniteSet({m})
    BY FS_Singleton
  <2>3. \A m \in ModuleSet : IsFiniteSet(part(m))
    BY <2>1, <2>2, FS_Product
  <2> QED BY <2>3
<1>4. IsFiniteSet(UNION P)
  <2> HIDE DEF P
  <2> QED BY <1>2, <1>3, FS_UNION
<1> QED BY <1>4, FS_CardinalityType DEF Positions

(* and as many as it has names.                                            *)
LEMMA PositionsOfNames ==
  ASSUME NEW s, IsSchema(s), Unique(s)
  PROVE  /\ IsFiniteSet(Names(s))
         /\ Cardinality(Names(s)) = Cardinality(Positions(s))
<1> DEFINE h == [x \in Positions(s) |-> FieldAt(s, x).name]
<1>1. \A x \in Positions(s) : FieldAt(s, x).name \in Names(s)
  BY PositionFacts DEF Names
<1>2. h \in [Positions(s) -> Names(s)]
  BY <1>1
<1>3. \A x, y \in Positions(s) : h[x] = h[y] => x = y
  <2>1. ~DuplicateName(s)
    BY UniqueFacts
  <2> QED BY <2>1 DEF DuplicateName, FieldAt
<1>4. \A n \in Names(s) : \E x \in Positions(s) : h[x] = n
  BY PlacesFacts DEF Names
<1> QED
  <2> HIDE DEF h
  <2> QED BY <1>2, <1>3, <1>4, PositionsAreFinite, SameSize

(* Schemas of the same names, rules and validators cost the same.          *)
LEMMA SameCost ==
  ASSUME NEW s, NEW t, IsSchema(s), IsSchema(t), Unique(s), Unique(t),
         Names(s) = Names(t),
         IsInjective(s.rules), IsInjective(t.rules),
         ToSet(s.rules) = ToSet(t.rules),
         DOMAIN s.validators = DOMAIN t.validators,
         \A n \in DOMAIN s.validators : s.validators[n] = t.validators[n]
  PROVE  TokenCost(s) = TokenCost(t)
<1>1. Cardinality(Positions(s)) = Cardinality(Positions(t))
  BY PositionsOfNames
<1>2. Len(s.rules) = Len(t.rules)
  BY ItemsOfList DEF IsSchema
<1>3. {n \in DOMAIN s.validators : s.validators[n] # NoValidator}
        = {n \in DOMAIN t.validators : t.validators[n] # NoValidator}
  OBVIOUS
<1> QED BY <1>1, <1>2, <1>3 DEF TokenCost

(* A sound schema of which some names are kept.                            *)
LEMMA RestrictedFacts ==
  ASSUME NEW w, Sound(w), IsInjective(w.rules), NEW N \in SUBSET Names(w)
  PROVE  LET t == Restricted(w, N) IN
         /\ IsSchema(t) /\ Unique(t) /\ Names(t) = N /\ IsInjective(t.rules)
         /\ \A r : r \in ToSet(t.rules) <=> r \in ToSet(w.rules) /\ r.field \in N
         /\ DOMAIN t.validators = N
         /\ \A n \in N : t.validators[n] = w.validators[n]
<1> DEFINE t == Restricted(w, N)
           gone == Names(w) \ N
           list(m) == WithoutNames(w.fields[m], gone)
           rules == RulesNotAbout(w.rules, gone)
           S == {i \in DOMAIN w.rules : w.rules[i].field \notin gone}
<1>0. IsSchema(w) /\ Unique(w) /\ Linked(w) /\ AreRules(w.rules)
  BY UniqueFacts DEF Sound, Coherent, IsSchema, AreRules
<1>1. /\ DOMAIN t = DOMAIN w /\ t.keys = w.keys
      /\ DOMAIN t.fields = ModuleSet
      /\ \A m \in ModuleSet : t.fields[m] = list(m)
      /\ t.rules = rules /\ t.validators = Pop(w.validators, gone)
  BY <1>0 DEF Restricted, IsSchema
<1>2. \A m \in ModuleSet :
        /\ IsList(t.fields[m]) /\ IsInjective(t.fields[m])
        /\ \A f : f \in ToSet(t.fields[m]) <=>
                    f \in ToSet(w.fields[m]) /\ f.name \in N
  <2> TAKE m \in ModuleSet
  <2> DEFINE F == w.fields[m]
             T == {i \in DOMAIN F : F[i].name \notin gone}
  <2>1. IsList(F) /\ IsInjective(F)
    BY <1>0 DEF IsSchema, Unique
  <2>2. list(m) = Picked(F, T) /\ T \in SUBSET (DOMAIN F)
    BY DEF WithoutNames
  <2>3. /\ IsList(list(m)) /\ ToSet(list(m)) = {F[i] : i \in T}
        /\ IsInjective(list(m))
    <3> HIDE DEF list, F, T
    <3> QED BY <2>1, <2>2, PickedFacts, PickedOnce
  <2>4. \A f \in ToSet(F) : f.name \in Names(w)
    BY DEF Names, Fields
  <2>5. \A i \in DOMAIN F : i \in T <=> F[i].name \in N
    <3> HIDE DEF F
    <3> QED BY <2>4 DEF ToSet
  <2>6. \A f : f \in ToSet(list(m)) <=> f \in ToSet(F) /\ f.name \in N
    <3>1. \A i \in T : i \in DOMAIN F
      OBVIOUS
    <3> HIDE DEF list, F, T
    <3> QED BY <2>3, <2>5, <3>1 DEF ToSet
  <2>7. t.fields[m] = list(m)
    BY <1>1
  <2> HIDE DEF list, F, t
  <2> QED BY <2>3, <2>6, <2>7 DEF F
<1>3. /\ AreRules(rules) /\ IsInjective(rules)
      /\ \A r : r \in ToSet(rules) <=> r \in ToSet(w.rules) /\ r.field \in N
  <2>1. /\ AreRules(rules)
        /\ \A r : r \in ToSet(rules) <=>
                    r \in ToSet(w.rules) /\ r.field \notin gone
    <3> HIDE DEF gone
    <3> QED BY <1>0, RulesNotAboutFacts
  <2>2. \A r \in ToSet(w.rules) : r.field \in Names(w)
    BY <1>0 DEF Linked
  <2>3. rules = Picked(w.rules, S) /\ S \in SUBSET (DOMAIN w.rules)
    BY DEF RulesNotAbout
  <2>4. IsInjective(rules)
    <3> HIDE DEF rules, S
    <3> QED BY <1>0, <2>3, PickedOnce DEF AreRules
  <2> HIDE DEF rules
  <2> QED BY <2>1, <2>2, <2>4
<1>4. IsSchema(t)
  <2> HIDE DEF t, list, rules
  <2> QED BY <1>0, <1>1, <1>2, <1>3 DEF IsSchema, AreRules
<1>5. \A f : f \in Fields(t) <=> f \in Fields(w) /\ f.name \in N
  <2> HIDE DEF t
  <2> QED BY <1>2 DEF Fields
<1>6. Unique(t) /\ Names(t) = N
  <2>1. \A n \in N : \E f \in Fields(w) : f.name = n
    BY DEF Names
  <2> HIDE DEF t
  <2> QED BY <1>0, <1>2, <1>5, <2>1 DEF Unique, Names
<1>7. DOMAIN t.validators = N /\ \A n \in N : t.validators[n] = w.validators[n]
  <2>1. DOMAIN w.validators = Names(w)
    BY <1>0 DEF Linked
  <2> HIDE DEF t
  <2> QED BY <1>1, <2>1 DEF Pop
<1>8. /\ IsInjective(t.rules)
      /\ \A r : r \in ToSet(t.rules) <=> r \in ToSet(w.rules) /\ r.field \in N
  <2> HIDE DEF t, rules
  <2> QED BY <1>1, <1>3
<1> QED BY <1>4, <1>6, <1>7, <1>8

-----------------------------------------------------------------------------
(* _prune_schema_to_budget: what it leaves of a schema.                    *)

(* What pruning leaves of a schema                                         *)
Left(s, w) ==
  /\ Sound(s) /\ IsInjective(s.rules)
  /\ \A f \in Fields(s) : f \in Fields(w)
  /\ \A f, g \in Fields(s) : Ahead(s, f, g) <=> Ahead(w, f, g)
  /\ \A r : r \in ToSet(s.rules) <=> r \in ToSet(w.rules) /\ r.field \in Names(s)
  /\ \A n \in Names(s) : s.validators[n] = w.validators[n]

(* All of it, to begin with.                                               *)
LEMMA LeftWhole ==
  ASSUME NEW w, Sound(w), IsInjective(w.rules)
  PROVE  Left(w, w)
BY DEF Left, Sound, Coherent, Linked

(* What is left after one more field is dropped.                           *)
LEMMA LeftDropped ==
  ASSUME NEW w, NEW s, Left(s, w), NEW f \in Fields(s)
  PROVE  Left(DropField(s, f), w)
<1> DEFINE u == DropField(s, f)
<1>1. Sound(u) /\ IsInjective(u.rules)
  BY DropFieldSound DEF Left
<1>2. /\ \A g : g \in Fields(u) <=> g \in Fields(s) /\ g # f
      /\ Names(u) = Names(s) \ {f.name}
      /\ \A r : r \in ToSet(u.rules) <=>
                  r \in ToSet(s.rules) /\ r.field # f.name
      /\ u.validators = Pop(s.validators, {f.name})
  BY DropFieldFacts DEF Left
<1>3. \A g, h \in Fields(u) : Ahead(u, g, h) <=> Ahead(s, g, h)
  BY AheadKept DEF Left
<1>4. \A n \in Names(u) : u.validators[n] = s.validators[n]
  <2>1. DOMAIN s.validators = Names(s)
    BY DEF Left, Sound, Coherent, Linked
  <2> HIDE DEF u
  <2> QED BY <1>2, <2>1 DEF Pop
<1>5. Left(u, w)
  <2>1. \A g \in Fields(u) : g \in Fields(w)
    <3> HIDE DEF u
    <3> QED BY <1>2 DEF Left
  <2>2. \A g, h \in Fields(u) : Ahead(u, g, h) <=> Ahead(w, g, h)
    <3> HIDE DEF u
    <3> QED BY <1>2, <1>3 DEF Left
  <2>3. \A r : r \in ToSet(u.rules) <=>
                 r \in ToSet(w.rules) /\ r.field \in Names(u)
    <3> HIDE DEF u
    <3> QED BY <1>2 DEF Left
  <2>4. \A n \in Names(u) : u.validators[n] = w.validators[n]
    <3> HIDE DEF u
    <3> QED BY <1>2, <1>4 DEF Left
  <2> HIDE DEF u
  <2> QED BY <1>1, <2>1, <2>2, <2>3, <2>4 DEF Left
<1> QED BY <1>5

(* A schema that is left costs what its names cost of the whole.           *)
LEMMA LeftCost ==
  ASSUME NEW w, Sound(w), IsInjective(w.rules), NEW s, Left(s, w)
  PROVE  TokenCost(s) = TokenCost(Restricted(w, Names(s)))
<1> DEFINE t == Restricted(w, Names(s))
<1>1. Names(s) \in SUBSET Names(w)
  BY DEF Left, Names
<1>2. /\ IsSchema(t) /\ Unique(t) /\ Names(t) = Names(s) /\ IsInjective(t.rules)
      /\ \A r : r \in ToSet(t.rules) <=>
                  r \in ToSet(w.rules) /\ r.field \in Names(s)
      /\ DOMAIN t.validators = Names(s)
      /\ \A n \in Names(s) : t.validators[n] = w.validators[n]
  BY <1>1, RestrictedFacts
<1>3. IsSchema(s) /\ Unique(s) /\ DOMAIN s.validators = Names(s)
  BY UniqueFacts DEF Left, Sound, Coherent, Linked
<1>4. ToSet(s.rules) = ToSet(t.rules)
  <2> HIDE DEF t
  <2> QED BY <1>2 DEF Left
<1>5. TokenCost(s) = TokenCost(t)
  <2> HIDE DEF t
  <2> QED BY <1>2, <1>3, <1>4, SameCost DEF Left
<1> QED BY <1>5

(* The optional fields that pruning took away are the last ones, and the   *)
(* budget asked for the first of them.                                     *)
Pruned(s, w) ==
  LET gone == Fields(w) \ Fields(s) IN
  /\ Left(s, w)
  /\ \A g \in gone :
       /\ ~g.required
       /\ \A f \in Fields(s) : ~f.required => Ahead(w, f, g)
       /\ (\A h \in gone \ {g} : Ahead(w, g, h)) =>
            TokenCost(Restricted(w, Names(s) \cup {g.name})) > TokenBudget

(* A merged schema that was not pruned.                                    *)
LEMMA PrunedWhole ==
  ASSUME NEW w, Sound(w), IsInjective(w.rules)
  PROVE  Pruned(w, w)
BY LeftWhole DEF Pruned

(* The optional fields of a schema and the positions of Removable.         *)
LEMMA RemovableFacts ==
  ASSUME NEW s, Sound(s)
  PROVE  \A x : x \in Removable(s) <=>
           \E f \in Fields(s) : ~f.required /\ x = PlaceOf(s, f)
<1>1. IsSchema(s) /\ Unique(s)
  BY UniqueFacts DEF Sound, Coherent
<1>2. \A x \in Positions(s) : /\ FieldAt(s, x) \in Fields(s)
                              /\ x = PlaceOf(s, FieldAt(s, x))
  BY <1>1, PositionFacts, PlacesFacts
<1>3. \A f \in Fields(s) : PlaceOf(s, f) \in Positions(s)
                           /\ FieldAt(s, PlaceOf(s, f)) = f
  BY <1>1, PlacesFacts
<1> QED BY <1>2, <1>3 DEF Removable, FieldAt

(* One turn of the loop of _prune_schema_to_budget.                        *)
LEMMA PrunedStep ==
  ASSUME NEW w, Sound(w), IsInjective(w.rules), NEW s, Pruned(s, w),
         Prunable(s)
  PROVE  LET x == LastRemovable(s) IN
         Pruned(DropField(s, s.fields[x[1]][x[2]]), w)
<1> DEFINE f == FieldAt(s, LastRemovable(s))
           u == DropField(s, f)
<1>1. Left(s, w) /\ Sound(s) /\ IsSchema(s) /\ Unique(s)
  BY UniqueFacts DEF Pruned, Left, Sound, Coherent
<1>2. /\ f \in Fields(s) /\ ~f.required
      /\ \A g \in Fields(s) : ~g.required /\ g # f => Ahead(s, g, f)
  <2>1. /\ LastRemovable(s) \in Removable(s)
        /\ \A y \in Removable(s) \ {LastRemovable(s)} :
             Before(s, y, LastRemovable(s))
    BY <1>1, LastRemovableFacts DEF Prunable
  <2>2. PICK g \in Fields(s) : ~g.required /\ LastRemovable(s) = PlaceOf(s, g)
    BY <1>1, <2>1, RemovableFacts
  <2>3. f = g
    BY <1>1, <2>2, PlacesFacts
  <2>4. \A h \in Fields(s) : ~h.required /\ h # f =>
          /\ PlaceOf(s, h) \in Removable(s)
          /\ PlaceOf(s, h) # PlaceOf(s, f)
    <3>1. \A h \in Fields(s) : FieldAt(s, PlaceOf(s, h)) = h
      BY <1>1, PlacesFacts
    <3>2. \A h \in Fields(s) : ~h.required => PlaceOf(s, h) \in Removable(s)
      BY <1>1, RemovableFacts
    <3> HIDE DEF f
    <3> QED BY <2>2, <2>3, <3>1, <3>2
  <2> HIDE DEF f
  <2> QED BY <2>1, <2>2, <2>3, <2>4 DEF Ahead
<1>3. Left(u, w)
  <2> HIDE DEF f
  <2> QED BY <1>1, <1>2, LeftDropped
<1>4. /\ \A g : g \in Fields(u) <=> g \in Fields(s) /\ g # f
      /\ Names(u) = Names(s) \ {f.name}
  <2> HIDE DEF f
  <2> QED BY <1>1, <1>2, DropFieldFacts
<1>5. f \in Fields(w)
      /\ \A g \in Fields(s) : ~g.required /\ g # f => Ahead(w, g, f)
  <2> HIDE DEF f
  <2> QED BY <1>1, <1>2 DEF Left
<1>6. ASSUME NEW g \in Fields(w) \ Fields(u)
      PROVE  /\ ~g.required
             /\ \A h \in Fields(u) : ~h.required => Ahead(w, h, g)
             /\ (\A h \in (Fields(w) \ Fields(u)) \ {g} : Ahead(w, g, h)) =>
                  TokenCost(Restricted(w, Names(u) \cup {g.name})) > TokenBudget
  <2> HIDE DEF f, u
  <2>1. CASE g = f
    <3>1. Names(u) \cup {f.name} = Names(s)
      BY <1>2, <1>4 DEF Names
    <3>2. TokenCost(s) = TokenCost(Restricted(w, Names(s)))
      BY <1>1, LeftCost
    <3>3. TokenCost(s) > TokenBudget
      BY DEF Prunable
    <3> QED BY <1>2, <1>4, <1>5, <2>1, <3>1, <3>2, <3>3
  <2>2. CASE g # f
    <3>1. g \in Fields(w) \ Fields(s)
      BY <1>4, <2>2
    <3>2. ~g.required /\ \A h \in Fields(s) : ~h.required => Ahead(w, h, g)
      BY <3>1 DEF Pruned
    <3>3. Ahead(w, f, g)
      BY <1>2, <3>2
    <3>4. ~Ahead(w, g, f)
      <4>1. IsSchema(w) /\ Unique(w)
        BY UniqueFacts DEF Sound, Coherent
      <4>2. PlaceOf(w, f) \in Positions(w) /\ PlaceOf(w, g) \in Positions(w)
        BY <1>5, <4>1, PlacesFacts
      <4> QED BY <3>3, <4>1, <4>2, BeforeFacts DEF Ahead
    <3>5. f \in (Fields(w) \ Fields(u)) \ {g}
      BY <1>4, <1>5, <2>2
    <3> QED BY <1>4, <3>2, <3>4, <3>5
  <2> QED BY <2>1, <2>2
<1>7. Pruned(u, w)
  <2> HIDE DEF u
  <2> QED BY <1>3, <1>6 DEF Pruned
<1> QED BY <1>7 DEF FieldAt

-----------------------------------------------------------------------------
(* The search.                                                             *)

(* The lines are sound and so is a merge.  Only mutations give names that  *)
(* clash; the merged schema is what pruning leaves of the two lines.       *)
SearchInv ==
  /\ line \in [Lines -> {line[1], line[2]}]
  /\ \A i \in Lines : Sound(line[i])
  /\ phase \in {"mutate", "prune", "done"}
  /\ rejected \subseteq {"duplicate", "failed", "static"}
  /\ phase = "mutate" => merged = NoSchema
  /\ phase # "mutate" => /\ rejected \subseteq {"static"}
                         /\ Pruned(merged, MergeSchemas(line[1], line[2]))
  /\ phase = "done" => ~Prunable(merged)

(* A sound schema is refused by the static checks only.                    *)
LEMMA SoundIsFaultless ==
  ASSUME NEW s, NEW limit, Sound(s)
  PROVE  Faults(s) = {} /\ Refusals(s, limit) \subseteq {"static"}
<1>1. Faults(s) = {}
  BY OnlyNames DEF Sound, Coherent
<1> QED BY <1>1 DEF Refusals

(* The initial population.                                                 *)
LEMMA SearchInvInit == SearchInit => SearchInv
<1> SUFFICES ASSUME SearchInit PROVE SearchInv
  OBVIOUS
<1>1. \A s \in Initial : Sound(s)
  <2> SUFFICES ASSUME NEW s \in Initial PROVE Sound(s)
    OBVIOUS
  <2>1. IsSchema(s) /\ Faults(s) = {} /\ DOMAIN s.validators = Names(s)
    BY SearchAssumption
  <2>2. ~DanglingRule(s) /\ ~DuplicateName(s)
    BY <2>1 DEF Faults
  <2> QED BY <2>1, <2>2 DEF Sound, Coherent, Linked, DanglingRule
<1>2. line \in [Lines -> {line[1], line[2]}]
  BY DEF SearchInit, Lines
<1> QED BY <1>1, <1>2 DEF SearchInit, SearchInv, Lines

(* A drawn mutation.                                                       *)
LEMMA SearchInvMutate == SearchInv /\ Mutate => SearchInv'
<1> SUFFICES ASSUME SearchInv, Mutate PROVE SearchInv'
  OBVIOUS
<1>1. PICK i \in Lines : \E child \in Draws(line[i]) :
        /\ rejected' = Reasons(child)
        /\ line' = IF Reasons(child) = {} THEN [line EXCEPT ![i] = child]
                                          ELSE line
  BY DEF Mutate
<1>2. PICK child \in Draws(line[i]) :
        /\ rejected' = Reasons(child)
        /\ line' = IF Reasons(child) = {} THEN [line EXCEPT ![i] = child]
                                          ELSE line
  BY <1>1
<1>3. /\ Reasons(child) \subseteq {"duplicate", "failed", "static"}
      /\ Reasons(child) = {} => Sound(child)
  <2>1. CASE child = Failed
    BY <2>1 DEF Reasons
  <2>2. CASE child # Failed
    <3>1. Coherent(child)
      BY <2>2, DrawsChild DEF SearchInv, Child
    <3>2. /\ Faults(child) \subseteq {"duplicate"}
          /\ Faults(child) = {} <=> ~DuplicateName(child)
      BY <3>1, OnlyNames DEF Coherent
    <3> QED BY <2>2, <3>1, <3>2 DEF Reasons, Refusals, Sound
  <2> QED BY <2>1, <2>2
<1>4. line' \in [Lines -> {line'[1], line'[2]}]
      /\ \A j \in Lines : Sound(line'[j])
  BY <1>2, <1>3 DEF SearchInv, Lines
<1> QED BY <1>2, <1>3, <1>4 DEF Mutate, SearchInv

(* A merge of the two lines.                                               *)
LEMMA SearchInvMerge == SearchInv /\ Merge => SearchInv'
<1> SUFFICES ASSUME SearchInv, Merge PROVE SearchInv'
  OBVIOUS
<1>1. PICK i \in Lines :
        /\ line' = [line EXCEPT ![1] = line[i], ![2] = line[3 - i]]
        /\ merged' = MergeSchemas(line[i], line[3 - i])
        /\ rejected' = Faults(MergeSchemas(line[i], line[3 - i]))
  BY DEF Merge
<1>2. 3 - i \in Lines
  BY DEF Lines
<1>3. /\ line'[1] = line[i] /\ line'[2] = line[3 - i]
      /\ line' \in [Lines -> {line'[1], line'[2]}]
  BY <1>1, <1>2 DEF SearchInv, Lines
<1>4. Sound(line'[1]) /\ Sound(line'[2])
  BY <1>2, <1>3 DEF SearchInv
<1>5. /\ Sound(merged') /\ IsInjective(merged'.rules)
      /\ merged' = MergeSchemas(line'[1], line'[2])
  <2>1. merged' = MergeSchemas(line'[1], line'[2])
    BY <1>1, <1>3
  <2> QED BY <1>4, <2>1, MergeFacts
<1>6. Pruned(merged', MergeSchemas(line'[1], line'[2]))
  BY <1>5, PrunedWhole
<1>7. rejected' = {}
  BY <1>1, <1>3, <1>5, SoundIsFaultless
<1> QED BY <1>3, <1>4, <1>6, <1>7 DEF Merge, SearchInv, Lines

(* A pruning step.                                                         *)
LEMMA SearchInvPrune == SearchInv /\ Prune => SearchInv'
<1> SUFFICES ASSUME SearchInv, Prune PROVE SearchInv'
  OBVIOUS
<1> DEFINE w == MergeSchemas(line[1], line[2])
           x == LastRemovable(merged)
           u == DropField(merged, merged.fields[x[1]][x[2]])
<1>1. Sound(w) /\ IsInjective(w.rules)
  BY MergeFacts DEF SearchInv, Lines
<1>2. Pruned(merged, w) /\ Prunable(merged)
  BY DEF SearchInv, Prune
<1>3. Pruned(u, w)
  <2> HIDE DEF w
  <2> QED BY <1>1, <1>2, PrunedStep
<1>4. merged' = u /\ rejected' = Faults(u)
  BY DEF Prune
<1>5. rejected' = {}
  <2>1. Sound(u)
    <3> HIDE DEF u, w
    <3> QED BY <1>3 DEF Pruned, Left
  <2> HIDE DEF u
  <2> QED BY <1>4, <2>1, SoundIsFaultless
<1>6. Pruned(merged', MergeSchemas(line'[1], line'[2]))
  <2>1. line' = line
    BY DEF Prune
  <2> HIDE DEF u
  <2> QED BY <1>3, <1>4, <2>1
<1> QED BY <1>5, <1>6 DEF Prune, SearchInv

(* The end of the pruning.                                                 *)
LEMMA SearchInvMergeEnd == SearchInv /\ MergeEnd => SearchInv'
<1> SUFFICES ASSUME SearchInv, MergeEnd PROVE SearchInv'
  OBVIOUS
<1>1. Sound(merged)
  BY DEF SearchInv, MergeEnd, Pruned, Left
<1>2. rejected' \subseteq {"static"}
  BY <1>1, SoundIsFaultless DEF MergeEnd
<1> QED BY <1>2 DEF MergeEnd, SearchInv

(* Every step.                                                             *)
LEMMA SearchInvNext == SearchInv /\ [SearchNext]_searchVars => SearchInv'
<1> SUFFICES ASSUME SearchInv, [SearchNext]_searchVars PROVE SearchInv'
  OBVIOUS
<1>1. CASE Mutate BY <1>1, SearchInvMutate
<1>2. CASE Merge BY <1>2, SearchInvMerge
<1>3. CASE Prune BY <1>3, SearchInvPrune
<1>4. CASE MergeEnd BY <1>4, SearchInvMergeEnd
<1>5. CASE UNCHANGED searchVars BY <1>5 DEF searchVars, SearchInv
<1> QED BY <1>1, <1>2, <1>3, <1>4, <1>5 DEF SearchNext, Step, Over

(* Whatever is drawn, the only schemas SchemaCandidate refuses are those   *)
(* in which two fields got one name, and a merged or pruned schema is      *)
(* never refused: merge_schema_candidates, which is called outside any     *)
(* try, raises nothing.                                                    *)
THEOREM OnlyNamesClashHolds == SearchSpec => []OnlyNamesClash
<1>1. SearchInv => OnlyNamesClash
  BY DEF SearchInv, OnlyNamesClash
<1> QED BY <1>1, SearchInvInit, SearchInvNext, PTL DEF SearchSpec

(* Through any number of splits, renamings, moves and merges every field   *)
(* has its entry in consumer_rules.validators and every entry its field.   *)
THEOREM ValidatorsAreComplete == SearchSpec => []ValidatorsComplete
<1>1. SearchInv => ValidatorsComplete
  <2> SUFFICES ASSUME SearchInv PROVE ValidatorsComplete
    OBVIOUS
  <2>1. \A i \in Lines : DOMAIN line[i].validators = Names(line[i])
    BY DEF SearchInv, Sound, Coherent, Linked
  <2>2. merged # NoSchema => DOMAIN merged.validators = Names(merged)
    BY DEF SearchInv, Pruned, Left, Sound, Coherent, Linked
  <2> QED BY <2>1, <2>2 DEF ValidatorsComplete
<1> QED BY <1>1, SearchInvInit, SearchInvNext, PTL DEF SearchSpec

(* What merge_schema_candidates made and _prune_schema_to_budget left:     *)
(* each field with its validator comes from the first parent that has it,  *)
(* and every rule of a parent about a field that is left is there once.    *)
THEOREM MergedContractsHold == SearchSpec => []MergeKeepsContracts
<1>1. SearchInv => MergeKeepsContracts
  <2> SUFFICES ASSUME SearchInv, phase = "done" PROVE MergeKeepsContracts
    BY DEF MergeKeepsContracts
  <2> DEFINE p == line[1]
             q == line[2]
             w == MergeSchemas(p, q)
  <2>1. Sound(p) /\ Sound(q) /\ Left(merged, w)
    BY DEF SearchInv, Pruned, Lines
  <2>2. /\ \A g : g \in Fields(w) <=>
             g \in Fields(p) \/ (g \in Fields(q) /\ g.name \notin Names(p))
        /\ Names(w) = Names(p) \cup Names(q)
        /\ \A n \in Names(w) :
             w.validators[n] = IF n \in Names(p) THEN p.validators[n]
                                                 ELSE q.validators[n]
        /\ ToSet(w.rules) = ToSet(p.rules) \cup ToSet(q.rules)
    BY <2>1, MergeFacts
  <2>3. /\ \A f \in Fields(merged) : f \in Fields(w)
        /\ \A r : r \in ToSet(merged.rules) <=>
                    r \in ToSet(w.rules) /\ r.field \in Names(merged)
        /\ \A n \in Names(merged) : merged.validators[n] = w.validators[n]
        /\ IsInjective(merged.rules)
    <3> HIDE DEF w
    <3> QED BY <2>1 DEF Left
  <2>4. ASSUME NEW s, Sound(s), NEW f \in Fields(s)
        PROVE  Field(s, f.name) = f
    BY <2>4, NamesAreUnique DEF Field, Sound, Coherent
  <2>5. ASSUME NEW n \in Names(merged)
        PROVE  LET from == IF n \in Names(p) THEN p ELSE q IN
               /\ Field(merged, n) = Field(from, n)
               /\ merged.validators[n] = from.validators[n]
    <3>1. PICK f \in Fields(merged) : f.name = n
      BY DEF Names
    <3>2. Field(merged, n) = f
      <4> HIDE DEF w
      <4> QED BY <2>1, <2>4, <3>1 DEF Left
    <3>3. CASE n \in Names(p)
      <4>1. f \in Fields(p)
        <5> HIDE DEF w
        <5> QED BY <2>2, <2>3, <3>1, <3>3
      <4>2. Field(p, n) = f
        BY <2>1, <2>4, <3>1, <4>1
      <4> HIDE DEF w, p, q
      <4> QED BY <2>2, <2>3, <3>2, <3>3, <4>2
    <3>4. CASE n \notin Names(p)
      <4>1. f \in Fields(q)
        <5>1. f \notin Fields(p)
          BY <3>1, <3>4 DEF Names
        <5> HIDE DEF w
        <5> QED BY <2>2, <2>3, <5>1
      <4>2. Field(q, n) = f
        BY <2>1, <2>4, <3>1, <4>1
      <4>3. n \in Names(w)
        <5> HIDE DEF w
        <5> QED BY <2>3, <3>1 DEF Names
      <4> HIDE DEF w, p, q
      <4> QED BY <2>2, <2>3, <3>2, <3>4, <4>2, <4>3
    <3> QED BY <3>3, <3>4
  <2>6. {r \in ToSet(p.rules) \cup ToSet(q.rules) : r.field \in Names(merged)}
          = ToSet(merged.rules)
    <3> HIDE DEF w
    <3> QED BY <2>2, <2>3
  <2> QED BY <2>3, <2>5, <2>6 DEF MergeKeepsContracts
<1> QED BY <1>1, SearchInvInit, SearchInvNext, PTL DEF SearchSpec

(* apply_mutation changes the contract of one field, or replaces at most   *)
(* two fields by others, and says of all other fields what the parent      *)
(* said: field, validator and the rules in their order.                    *)
THEOREM MutationsAreLocal == SearchSpec => MutationIsLocal
<1> DEFINE Local == \A j \in Lines : phase' = "mutate" /\ line'[j] # line[j] =>
                      LocalTo(line[j], line'[j])
<1>1. SearchInv /\ [SearchNext]_searchVars => [Local]_searchVars
  <2> SUFFICES ASSUME SearchInv, SearchNext, NEW j \in Lines,
                      phase' = "mutate", line'[j] # line[j]
               PROVE  LocalTo(line[j], line'[j])
    OBVIOUS
  <2>1. Mutate
    BY DEF SearchNext, Step, Merge, Prune, MergeEnd, Over, searchVars
  <2>2. PICK i \in Lines : \E child \in Draws(line[i]) :
          line' = IF Reasons(child) = {} THEN [line EXCEPT ![i] = child]
                                         ELSE line
    BY <2>1 DEF Mutate
  <2>3. PICK child \in Draws(line[i]) :
          line' = IF Reasons(child) = {} THEN [line EXCEPT ![i] = child]
                                         ELSE line
    BY <2>2
  <2>4. Reasons(child) = {} /\ j = i /\ line'[j] = child
    BY <2>3 DEF SearchInv
  <2>5. child # Failed /\ Refusals(child, InitialBudget) = {}
    BY <2>4 DEF Reasons
  <2>6. Sound(line[j]) /\ Child(line[j], child)
    BY <2>4, <2>5, DrawsChild DEF SearchInv
  <2>7. ~DuplicateName(child)
    BY <2>5, <2>6, OnlyNames DEF Refusals, Child, Coherent
  <2> QED BY <2>4, <2>6, <2>7, ChildIsLocal
<1> QED BY <1>1, SearchInvInit, SearchInvNext, PTL DEF SearchSpec, MutationIsLocal

(* In the words of the property: positions of the whole schema.            *)
LEMMA PrunedIsMinimal ==
  ASSUME SearchInv, phase = "done"
  PROVE  PruneIsMinimal
<1> DEFINE w == MergeSchemas(line[1], line[2])
           gone == {x \in Positions(w) :
                      w.fields[x[1]][x[2]].name \notin Names(merged)}
           F == Fields(w) \ Fields(merged)
           at(x) == FieldAt(w, x)
<1>1. Sound(w) /\ IsInjective(w.rules)
  BY MergeFacts DEF SearchInv, Lines
<1>2. Pruned(merged, w) /\ ~Prunable(merged)
  BY DEF SearchInv
<1>3. IsSchema(w) /\ Unique(w) /\ Sound(merged) /\ Left(merged, w)
  <2> HIDE DEF w
  <2> QED BY <1>1, <1>2, UniqueFacts DEF Sound, Coherent, Pruned, Left
<1>4. \A x \in Positions(w) :
        /\ at(x) \in Fields(w) /\ x = PlaceOf(w, at(x))
        /\ x \in Removable(w) <=> ~at(x).required
  <2> HIDE DEF w
  <2> QED BY <1>3, PositionFacts, PlacesFacts DEF Removable, FieldAt
<1>5. \A f \in Fields(w) : f.name \in Names(merged) <=> f \in Fields(merged)
  <2> HIDE DEF w
  <2> QED BY <1>3 DEF Names, Left, Unique
<1>6. \A x : x \in gone <=> x \in Positions(w) /\ at(x) \in F
  <2> HIDE DEF w
  <2> QED BY <1>4, <1>5 DEF FieldAt
<1>7. \A f \in F : PlaceOf(w, f) \in gone /\ at(PlaceOf(w, f)) = f
  <2>1. \A f \in Fields(w) : PlaceOf(w, f) \in Positions(w)
                             /\ at(PlaceOf(w, f)) = f
    <3> HIDE DEF w
    <3> QED BY <1>3, PlacesFacts
  <2> HIDE DEF w, gone
  <2> QED BY <1>6, <2>1
<1>8. \A g \in F :
        /\ ~g.required
        /\ \A f \in Fields(merged) : ~f.required => Ahead(w, f, g)
        /\ (\A h \in F \ {g} : Ahead(w, g, h)) =>
             TokenCost(Restricted(w, Names(merged) \cup {g.name})) > TokenBudget
  <2> HIDE DEF w
  <2> QED BY <1>2 DEF Pruned
<1>9. gone \subseteq Removable(w)
  <2> HIDE DEF w, gone
  <2> QED BY <1>4, <1>6, <1>8
<1>10. ASSUME NEW x \in gone, NEW y \in Removable(w) \ gone
       PROVE  Before(w, y, x)
  <2>1. y \in Positions(w)
    BY DEF Removable
  <2>2. at(y) \in Fields(merged) /\ ~at(y).required
    <3> HIDE DEF w, gone
    <3> QED BY <1>4, <1>6, <2>1
  <2>3. at(x) \in F /\ x \in Positions(w)
    <3> HIDE DEF w, gone
    <3> QED BY <1>6
  <2>4. Ahead(w, at(y), at(x))
    <3> HIDE DEF w, F
    <3> QED BY <1>8, <2>2, <2>3
  <2> HIDE DEF w, gone
  <2> QED BY <1>4, <2>1, <2>3, <2>4 DEF Ahead
<1>11. ASSUME NEW x \in gone, \A y \in gone \ {x} : Before(w, x, y)
       PROVE  TokenCost(Restricted(w, Names(merged) \cup {at(x).name}))
                > TokenBudget
  <2>1. at(x) \in F /\ x = PlaceOf(w, at(x))
    <3> HIDE DEF w, gone
    <3> QED BY <1>4, <1>6
  <2>2. ASSUME NEW h \in F \ {at(x)} PROVE Ahead(w, at(x), h)
    <3>1. PlaceOf(w, h) \in gone /\ PlaceOf(w, h) # x
      <4> HIDE DEF w, gone
      <4> QED BY <1>7
    <3>2. Before(w, x, PlaceOf(w, h))
      <4> HIDE DEF w, gone
      <4> QED BY <1>11, <3>1
    <3> HIDE DEF w
    <3> QED BY <2>1, <3>2 DEF Ahead
  <2> HIDE DEF w, F
  <2> QED BY <1>8, <2>1, <2>2
<1>12. TokenCost(merged) <= TokenBudget \/ gone = Removable(w)
  <2>1. CASE Removable(merged) = {}
    <3>1. \A f \in Fields(merged) : f.required
      <4> HIDE DEF w
      <4> QED BY <1>3, <2>1, RemovableFacts
    <3>2. Removable(w) \subseteq Positions(w)
      BY DEF Removable
    <3> HIDE DEF w, gone
    <3> QED BY <1>4, <1>6, <1>9, <3>1, <3>2
  <2>2. CASE ~(TokenCost(merged) > TokenBudget)
    <3>1. TokenCost(merged) \in Nat
      <4> DEFINE V == {n \in DOMAIN merged.validators :
                         merged.validators[n] # NoValidator}
                 pos == Cardinality(Positions(merged))
                 rul == Len(merged.rules)
                 val == Cardinality(V)
      <4>1. IsSchema(merged) /\ Unique(merged) /\ Linked(merged)
        BY <1>3, UniqueFacts DEF Sound, Coherent
      <4>2. pos \in Nat /\ rul \in Nat
        BY <4>1, PositionsAreFinite, ListFacts DEF IsSchema
      <4>3. val \in Nat
        <5>1. IsFiniteSet(Names(merged))
          BY <4>1, PositionsOfNames
        <5>2. V \in SUBSET Names(merged)
          BY <4>1 DEF Linked
        <5> HIDE DEF V
        <5> QED BY <5>1, <5>2, FS_Subset, FS_CardinalityType
      <4>4. FieldTokens \in Nat /\ RuleTokens \in Nat /\ ValidatorTokens \in Nat
        BY GrammarAssumption
      <4>5. TokenCost(merged)
              = FieldTokens * pos + RuleTokens * rul + ValidatorTokens * val
        BY DEF TokenCost
      <4> HIDE DEF pos, rul, val
      <4>6. FieldTokens * pos \in Nat /\ RuleTokens * rul \in Nat
            /\ ValidatorTokens * val \in Nat
        BY <4>2, <4>3, <4>4
      <4> QED BY <4>5, <4>6
    <3>2. TokenBudget \in Nat
      BY GrammarAssumption DEF TokenBudget
    <3> QED BY <2>2, <3>1, <3>2
  <2> QED BY <1>2, <2>1, <2>2 DEF Prunable
<1>13. \A x : at(x) = w.fields[x[1]][x[2]]
  BY DEF FieldAt
<1>14. QED
  <2>1. /\ gone \subseteq Removable(w)
        /\ \A x \in gone, y \in Removable(w) \ gone : Before(w, y, x)
        /\ \A x \in gone :
             (\A y \in gone \ {x} : Before(w, x, y)) =>
               TokenCost(Restricted(w, Names(merged)
                           \cup {w.fields[x[1]][x[2]].name})) > TokenBudget
        /\ TokenCost(merged) <= TokenBudget \/ gone = Removable(w)
    <3> HIDE DEF w, gone
    <3> QED BY <1>9, <1>10, <1>11, <1>12, <1>13
  <2> QED BY <2>1 DEF PruneIsMinimal

(* _prune_schema_to_budget removes optional fields only, the last ones of  *)
(* module_fields, and not one more than the token budget asks for.         *)
THEOREM PrunedNoMoreThanAsked == SearchSpec => []PruneIsMinimal
<1>1. SearchInv => PruneIsMinimal
  BY PrunedIsMinimal DEF PruneIsMinimal
<1> QED BY <1>1, SearchInvInit, SearchInvNext, PTL DEF SearchSpec
=============================================================================
