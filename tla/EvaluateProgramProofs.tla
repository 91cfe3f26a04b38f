----------------------- MODULE EvaluateProgramProofs -----------------------
(***************************************************************************)
(* Wherever a batch of evaluations is interrupted and whichever runner     *)
(* raises, no cache file is torn, the score files agree with each other,   *)
(* the books cover the calls, and no call is made again for what was       *)
(* stored: for all keys, evaluations, batches, workers, modules, answers   *)
(* and numbers of faults.                                                  *)
(*                                                                         *)
(* The invariant has four layers, each inductive given those before it:    *)
(* BaseInv (types, jobs, where a slot is), FilesInv (cache files, memories *)
(* and score files), BillInv and CountInv (the lines of the books), and    *)
(* WorkInv (what the calls have gone into).  The lemmas named ...Moves say *)
(* what a step does to its own slot, ...Keeps and ...Stay what it leaves.  *)
(***************************************************************************)
EXTENDS EvaluateProgram, FiniteSetTheorems, SequenceTheorems, TLAPS

-----------------------------------------------------------------------------
(* Induction and folds *)

(* The naturals are well founded.                                          *)
LEMMA NatWellFounded == IsWellFoundedOn({p \in Nat \X Nat : p[1] < p[2]}, Nat)
  BY NatLessThanWellFounded, Zenon DEF OpToRel

(* Every set of naturals that is not empty has a least element.            *)
LEMMA LeastNumber ==
  ASSUME NEW T, T \subseteq Nat, T # {}
  PROVE  \E m \in T : \A n \in T : m <= n
<1> DEFINE R == {p \in Nat \X Nat : p[1] < p[2]}
<1>1. PICK m \in T : \A n \in T : <<n, m>> \notin R
  BY NatWellFounded, WFMin
<1>2. \A n \in T : ~(n < m)
  BY <1>1
<1> QED BY <1>2

(* Induction over the naturals, for a set of them.                         *)
LEMMA Induction ==
  ASSUME NEW T, 0 \in T, \A n \in Nat : n \in T => n + 1 \in T
  PROVE  Nat \subseteq T
<1> SUFFICES ASSUME Nat \ T # {} PROVE FALSE
  OBVIOUS
<1>1. PICK m \in Nat \ T : \A n \in Nat \ T : m <= n
  BY LeastNumber
<1>2. m # 0 /\ m - 1 \in Nat /\ m - 1 \in T
  BY <1>1
<1>3. (m - 1) + 1 = m
  BY <1>1
<1> QED BY <1>1, <1>2, <1>3

(* The empty set has no element.                                           *)
LEMMA CardinalityZero == \A A : A = {} => Cardinality(A) = 0
  BY FS_EmptySet, Zenon

(* pick chooses an element of each subset of D that has one.               *)
Picks(pick, D) == \A A \in SUBSET D : A # {} => pick[A] \in A

(* P holds the empty set, and a set from which pick takes an element if it *)
(* holds what is left of it.                                               *)
Inductive(P, pick, D) ==
  /\ {} \in P
  /\ \A A \in SUBSET D : A # {} /\ A \ {pick[A]} \in P => A \in P

(* Induction over the subsets of a finite set, an element less each time.  *)
LEMMA SetInduction ==
  ASSUME NEW D, IsFiniteSet(D), NEW pick, Picks(pick, D),
         NEW P, Inductive(P, pick, D)
  PROVE  SUBSET D \subseteq P
<1> USE DEF Picks, Inductive
<1> DEFINE T == {n \in Nat : \A A \in SUBSET D : Cardinality(A) = n => A \in P}
<1>0. \A A \in SUBSET D : IsFiniteSet(A) /\ Cardinality(A) \in Nat
  BY FS_Subset, FS_CardinalityType
<1>1. 0 \in T
  BY <1>0, FS_EmptySet
<1>2. ASSUME NEW n \in Nat, n \in T PROVE n + 1 \in T
  <2>1. ASSUME NEW A \in SUBSET D, Cardinality(A) = n + 1 PROVE A \in P
    <3>1. A # {}
      BY <2>1, CardinalityZero
    <3>2. PICK x \in A : x = pick[A]
      BY <3>1
    <3>3. Cardinality(A \ {x}) = Cardinality(A) - 1
      BY <1>0, FS_RemoveElement
    <3>4. A \ {x} \in P
      BY <1>2, <2>1, <3>3
    <3> QED BY <3>1, <3>2, <3>4
  <2> QED BY <2>1
<1>3. Nat \subseteq T
  <2> HIDE DEF T
  <2> QED BY <1>1, <1>2, Induction
<1> QED BY <1>0, <1>3

(* A step of a fold over the subsets of D gives a value of V.              *)
StepsIn(step, D, V) == step \in [(SUBSET D) \X V -> V]

(* f folds every subset of D, taking from it what pick chooses.            *)
IsFold(f, D, V, base, pick, step) ==
  /\ f \in [SUBSET D -> V]
  /\ \A A \in SUBSET D :
       f[A] = IF A = {} THEN base ELSE step[<<A, f[A \ {pick[A]}]>>]

(* A fold over the subsets of a finite set exists: what MapThenFoldSet of  *)
(* the community modules chooses is one.                                   *)
LEMMA FoldExists ==
  ASSUME NEW D, IsFiniteSet(D), NEW V, NEW base \in V,
         NEW pick, Picks(pick, D), NEW step, StepsIn(step, D, V)
  PROVE  \E f : IsFold(f, D, V, base, pick, step)
<1> USE DEF Picks, StepsIn
<1> DEFINE Rhs(f, A) ==
             IF A = {} THEN base ELSE step[<<A, f[A \ {pick[A]}]>>]
           T == {n \in Nat : \E f \in [SUBSET D -> V] :
                   \A A \in SUBSET D : Cardinality(A) <= n => f[A] = Rhs(f, A)}
<1>0. \A A \in SUBSET D : IsFiniteSet(A) /\ Cardinality(A) \in Nat
  BY FS_Subset, FS_CardinalityType
<1>1. 0 \in T
  <2> DEFINE f == [A \in SUBSET D |-> base]
  <2>1. \A A \in SUBSET D : Cardinality(A) <= 0 => A = {}
    BY <1>0, FS_EmptySet
  <2>2. f \in [SUBSET D -> V] /\ \A A \in SUBSET D : A = {} => f[A] = Rhs(f, A)
    OBVIOUS
  <2> QED BY <2>1, <2>2
<1>2. ASSUME NEW n \in Nat, n \in T PROVE n + 1 \in T
  <2>1. PICK f \in [SUBSET D -> V] :
          \A A \in SUBSET D : Cardinality(A) <= n => f[A] = Rhs(f, A)
    BY <1>2
  <2> DEFINE g == [A \in SUBSET D |-> IF Cardinality(A) <= n THEN f[A]
                                                            ELSE Rhs(f, A)]
  <2>2. \A A \in SUBSET D : Rhs(f, A) \in V
    OBVIOUS
  <2>3. g \in [SUBSET D -> V]
    BY <2>2
  <2>4. ASSUME NEW A \in SUBSET D, Cardinality(A) <= n + 1
        PROVE  g[A] = Rhs(g, A)
    <3>1. CASE A = {}
      <4>1. Cardinality(A) <= n
        <5>1. Cardinality(A) = 0
          BY <3>1, CardinalityZero
        <5> QED BY <5>1
      <4> QED BY <2>1, <3>1, <4>1
    <3>2. CASE A # {}
      <4>1. Cardinality(A \ {pick[A]}) = Cardinality(A) - 1
        BY <1>0, <3>2, FS_RemoveElement
      <4>2. Cardinality(A \ {pick[A]}) <= n
        BY <1>0, <2>4, <4>1
      <4>3. g[A \ {pick[A]}] = f[A \ {pick[A]}]
        BY <4>2
      <4>4. g[A] = Rhs(f, A)
        BY <2>1
      <4> QED BY <4>3, <4>4
    <3> QED BY <3>1, <3>2
  <2> HIDE DEF g, Rhs
  <2> QED BY <2>3, <2>4
<1>3. Nat \subseteq T
  <2> HIDE DEF T
  <2> QED BY <1>1, <1>2, Induction
<1>4. Cardinality(D) \in T
  BY <1>0, <1>3
<1>5. PICK f \in [SUBSET D -> V] :
        \A A \in SUBSET D : Cardinality(A) <= Cardinality(D) => f[A] = Rhs(f, A)
  BY <1>4
<1>6. \A A \in SUBSET D : f[A] = Rhs(f, A)
  BY <1>0, <1>5, FS_Subset
<1> QED BY <1>6 DEF IsFold

-----------------------------------------------------------------------------
(* The jobs of a batch *)

(* The greatest of some positions.                                         *)
LEMMA MaxOfPositions ==
  ASSUME NEW n \in Nat, NEW A \in SUBSET (1 .. n), A # {}
  PROVE  Max(A) \in A /\ \A i \in A : i <= Max(A)
<1> DEFINE T == {n - i : i \in A}
<1>1. T \subseteq Nat /\ T # {}
  <2>1. PICK i \in A : TRUE
    OBVIOUS
  <2>2. n - i \in T
    OBVIOUS
  <2>3. \A j \in A : n - j \in Nat
    OBVIOUS
  <2> QED BY <2>2, <2>3
<1>2. PICK m \in T : \A k \in T : m <= k
  <2> HIDE DEF T
  <2> QED BY <1>1, LeastNumber
<1>3. PICK i \in A : m = n - i
  BY <1>2
<1>4. \A j \in A : n - i <= n - j
  BY <1>2, <1>3
<1>5. \A j \in A : j \in Int /\ i >= j
  BY <1>4
<1> QED BY <1>5 DEF Max

(* Appending an element that is not there yet.                             *)
LEMMA AppendNew ==
  ASSUME NEW S, NEW s \in Seq(S), IsInjective(s),
         NEW x \in S, x \notin ToSet(s)
  PROVE  /\ Append(s, x) \in Seq(S)
         /\ ToSet(Append(s, x)) = ToSet(s) \cup {x}
         /\ IsInjective(Append(s, x))
<1> DEFINE t == Append(s, x)
<1>1. /\ Len(s) \in Nat /\ DOMAIN s = 1 .. Len(s)
      /\ DOMAIN t = 1 .. (Len(s) + 1)
      /\ t[Len(s) + 1] = x /\ \A n \in 1 .. Len(s) : t[n] = s[n]
      /\ t \in Seq(S)
  OBVIOUS
<1> HIDE DEF t
<1>2. DOMAIN t = DOMAIN s \cup {Len(s) + 1}
  BY <1>1
<1>3. {t[n] : n \in DOMAIN t} = {s[n] : n \in DOMAIN s} \cup {x}
  BY <1>1, <1>2
<1>4. \A n \in DOMAIN s : s[n] # x
  BY DEF ToSet
<1>5. \A m, n \in DOMAIN t : t[m] = t[n] => m = n
  BY <1>1, <1>4 DEF IsInjective
<1> QED BY <1>1, <1>3, <1>5 DEF ToSet, IsInjective, t

(* Unique gives every candidate one job, and no other.                     *)
LEMMA UniqueJobs ==
  ASSUME NEW c \in Seq(Evaluations)
  PROVE  /\ Unique(c) \in Seq(Evaluations)
         /\ IsInjective(Unique(c))
         /\ ToSet(Unique(c)) = ToSet(c)
<1> DEFINE D == DOMAIN c
           V == Seq(Evaluations)
           Kept(A, kept) == IF c[Max(A)] \in ToSet(kept) THEN kept
                            ELSE Append(kept, c[Max(A)])
           pick == [A \in SUBSET D |-> Max(A)]
           step == [p \in (SUBSET D) \X V |->
                      IF p[1] = {} THEN p[2] ELSE Kept(p[1], p[2])]
<1>1. D = 1 .. Len(c) /\ Len(c) \in Nat /\ \A i \in D : c[i] \in Evaluations
  OBVIOUS
<1>2. IsFiniteSet(D)
  BY <1>1, FS_Interval
<1>3. \A A \in SUBSET D : A # {} => pick[A] \in A /\ pick[A] = Max(A)
  BY <1>1, MaxOfPositions
<1>4. \A A \in SUBSET D, kept \in V : A # {} => Kept(A, kept) \in V
  <2>1. ASSUME NEW A \in SUBSET D, NEW kept \in V, A # {}
        PROVE  Kept(A, kept) \in V
    <3>1. Max(A) \in D
      BY <1>3, <2>1
    <3>2. c[Max(A)] \in Evaluations
      BY <1>1, <3>1
    <3> QED BY <3>2
  <2> QED BY <2>1
<1>5. step \in [(SUBSET D) \X V -> V]
  BY <1>4
<1>6. PICK f : IsFold(f, D, V, <<>>, pick, step)
  <2>1. <<>> \in V
    OBVIOUS
  <2>2. Picks(pick, D) /\ StepsIn(step, D, V)
    BY <1>3, <1>5 DEF Picks, StepsIn
  <2> HIDE DEF step, pick, V, D
  <2> QED BY <1>2, <2>1, <2>2, FoldExists
<1>7. \A A \in SUBSET D :
        f[A] = IF A = {} THEN <<>> ELSE Kept(A, f[A \ {Max(A)}])
  <2>1. \A A \in SUBSET D :
        /\ f[A] \in V
        /\ f[A] = IF A = {} THEN <<>> ELSE step[<<A, f[A \ {pick[A]}]>>]
    <3> HIDE DEF step, pick, V
    <3> QED BY <1>6 DEF IsFold
  <2>2. \A A \in SUBSET D, kept \in V :
          A # {} => step[<<A, kept>>] = Kept(A, kept)
    <3> HIDE DEF Kept, V
    <3> QED OBVIOUS
  <2> HIDE DEF Kept, step, V
  <2>3. ASSUME NEW A \in SUBSET D, A # {}
        PROVE  f[A] = Kept(A, f[A \ {Max(A)}])
    <3>1. pick[A] = Max(A) /\ A \ {Max(A)} \in SUBSET D
      BY <1>3, <2>3
    <3>2. f[A \ {Max(A)}] \in V
      BY <2>1, <3>1
    <3> HIDE DEF pick
    <3>3. f[A] = step[<<A, f[A \ {Max(A)}]>>]
      BY <2>1, <2>3, <3>1
    <3> QED BY <2>2, <2>3, <3>2, <3>3
  <2> QED BY <2>1, <2>3
<1> DEFINE Iterates(g) ==
      g = [A \in SUBSET D |->
             IF A = {} THEN <<>> ELSE Kept(A, g[A \ {Max(A)}])]
           iter == CHOOSE g : Iterates(g)
<1>8. Unique(c) = iter[D]
  BY Zenon DEF Unique, FoldLeft, MapThenFoldSet
<1>9. Iterates(iter)
  <2>1. f = [A \in SUBSET D |->
               IF A = {} THEN <<>> ELSE Kept(A, f[A \ {Max(A)}])]
    <3> HIDE DEF Kept
    <3> QED BY <1>6, <1>7 DEF IsFold
  <2>2. Iterates(f)
    BY <2>1
  <2> HIDE DEF Iterates
  <2> QED BY <2>2
<1>10. \A A \in SUBSET D :
         iter[A] = IF A = {} THEN <<>> ELSE Kept(A, iter[A \ {Max(A)}])
  <2> HIDE DEF Kept, iter
  <2> QED BY <1>9
<1> HIDE DEF iter
<1> DEFINE Good(A) == /\ iter[A] \in V
                      /\ \A m, n \in DOMAIN iter[A] :
                           iter[A][m] = iter[A][n] => m = n
                      /\ ToSet(iter[A]) = {c[i] : i \in A}
           P == {A \in SUBSET D : Good(A)}
<1>11. {} \in P
  <2>1. iter[{}] = <<>>
    BY <1>10
  <2>2. DOMAIN iter[{}] = {} /\ iter[{}] \in V
    BY <2>1
  <2> HIDE DEF V
  <2>3. ToSet(iter[{}]) = {}
    BY <2>2, Zenon DEF ToSet
  <2>4. {c[i] : i \in {}} = {}
    OBVIOUS
  <2> QED BY <2>2, <2>3, <2>4
<1>12. ASSUME NEW A \in SUBSET D, A # {}, A \ {pick[A]} \in P
       PROVE  A \in P
  <2>1. PICK x \in A : x = Max(A) /\ x = pick[A]
    BY <1>3, <1>12
  <2> DEFINE s == iter[A \ {x}]
  <2>2. Good(A \ {x})
    BY <1>12, <2>1
  <2>3. iter[A] = IF c[x] \in ToSet(s) THEN s ELSE Append(s, c[x])
    BY <1>10, <1>12, <2>1
  <2>4. {c[i] : i \in A} = {c[i] : i \in A \ {x}} \cup {c[x]}
    OBVIOUS
  <2>5. CASE c[x] \in ToSet(s)
    BY <2>2, <2>3, <2>4, <2>5
  <2>6. CASE c[x] \notin ToSet(s)
    <3>1. iter[A] = Append(s, c[x]) /\ s \in V /\ c[x] \in Evaluations
      BY <1>1, <2>2, <2>3, <2>6
    <3>2. \A m, n \in DOMAIN s : s[m] = s[n] => m = n
      BY <2>2
    <3> HIDE DEF s
    <3>3. /\ Append(s, c[x]) \in V
          /\ ToSet(Append(s, c[x])) = ToSet(s) \cup {c[x]}
          /\ IsInjective(Append(s, c[x]))
      BY <2>6, <3>1, <3>2, AppendNew DEF IsInjective
    <3> QED BY <2>2, <2>4, <3>1, <3>3 DEF IsInjective, s
  <2> QED BY <2>5, <2>6
<1>13. D \in P
  <2>1. Picks(pick, D)
    BY <1>3 DEF Picks
  <2>2. Inductive(P, pick, D)
    BY <1>11, <1>12 DEF Inductive
  <2> HIDE DEF P, D, pick
  <2>3. SUBSET D \subseteq P
    BY <1>2, <2>1, <2>2, SetInduction
  <2> QED BY <2>3
<1> QED BY <1>8, <1>13 DEF IsInjective, ToSet

(* The jobs of a batch are its candidates, each of them once.              *)
LEMMA JobsAreEvaluations ==
  /\ Jobs \in [BatchNumbers -> Seq(Evaluations)]
  /\ \A b \in BatchNumbers : /\ IsInjective(Jobs[b])
                             /\ ToSet(Jobs[b]) = ToSet(Batches[b])
<1>1. \A b \in BatchNumbers : Batches[b] \in Seq(Evaluations)
  BY BatchesAssumption DEF BatchNumbers
<1>2. \A b \in BatchNumbers : /\ Unique(Batches[b]) \in Seq(Evaluations)
                              /\ IsInjective(Unique(Batches[b]))
                              /\ ToSet(Unique(Batches[b])) = ToSet(Batches[b])
  BY <1>1, UniqueJobs
<1> QED BY <1>2 DEF Jobs

-----------------------------------------------------------------------------
(* Types, jobs, and what a slot is at *)

(* The program counters of a slot.                                         *)
Labels == {"idle", "lookup", "call", "log", "bill", "set", "write",
           "replace", "scores"}

(* Where a slot is between a prediction and its place in the cache.        *)
Storing == {"set", "write", "replace"}

(* What is read from a cache: a prediction or nothing, never half of one.  *)
Whole == Predictions \cup {Absent}

(* What a slot may hold. No memory holds a torn entry.                     *)
SlotRecords ==
  [pc : Labels, job : Nat, module : 1 .. Modules, memory : [Keys -> Whole],
   current : Whole, results : Seq(Predictions)]

(* The types of the variables.                                             *)
TypeOK ==
  /\ entry \in [Keys -> Whole \cup {Torn}]
  /\ temp \in [Keys -> Whole \cup {Torn}]
  /\ logs \in [Evaluations -> [Keys -> Nat]]
  /\ ledger \in [Evaluations -> [Keys -> Nat]]
  /\ made \in [Evaluations -> [Keys -> Nat]]
  /\ scores \in [Evaluations -> Seq(Predictions) \cup {Absent, Torn}]
  /\ process \in {"up", "failing", "down", "done"}
  /\ batch \in BatchNumbers /\ started \in Nat /\ limit \in Nat
  /\ ended \in SUBSET Nat /\ raised \in SUBSET Nat
  /\ slot \in [Slots -> SlotRecords]
  /\ faults \in Nat /\ lost \in Nat

(* The jobs that work are different started jobs of the batch, that have   *)
(* neither ended nor raised, in the slots of its crew.                     *)
JobsInv ==
  /\ started <= limit /\ limit <= Len(Jobs[batch])
  /\ ended \subseteq 1 .. started /\ raised \subseteq 1 .. started
  /\ ended \cap raised = {}
  /\ process \in {"down", "done"} => Working = {}
  /\ \A s \in Working : /\ s \in Crew(batch)
                        /\ slot[s].job \in (1 .. started) \ (ended \cup raised)
  /\ \A s, t \in Working : slot[s].job = slot[t].job => s = t

(* A slot runs the program only while an example is left, writes its score *)
(* file when none is, and stores only what no intervention has touched.    *)
LocalOK(s) ==
  /\ Len(slot[s].results) <= Len(KeysOf[Evaluation(s)])
  /\ s \in Running => Left(s)
  /\ At(s, "scores") => ~Left(s)
  /\ slot[s].pc \in Storing => /\ UsesCache(Evaluation(s))
                               /\ slot[s].current \in Predictions
                               /\ slot[s].current.under = None

(* All slots that work are where they should be.                           *)
LocalInv == \A s \in Working : LocalOK(s)

(* The part of the invariant that is not about files and books.            *)
BaseInv == TypeOK /\ JobsInv /\ LocalInv

(* The crew of a batch is made of slots, and of more than one only in the  *)
(* pool.                                                                   *)
LEMMA CrewSlots ==
  ASSUME NEW b \in BatchNumbers
  PROVE  /\ Crew(b) \subseteq Slots
         /\ \A s, t \in Crew(b) : s # t => b \in Pooled
BY EvaluationsAssumption, JobsAreEvaluations DEF Crew, Slots, Driver

(* A slot that works has a job of the batch, on keys of the cache.         *)
LEMMA WorkingJob ==
  ASSUME TypeOK, JobsInv, NEW s \in Working
  PROVE  /\ slot[s].job \in DOMAIN Jobs[batch]
         /\ Evaluation(s) \in Evaluations
         /\ Evaluation(s) \in ToSet(Batches[batch])
         /\ KeysOf[Evaluation(s)] \in Seq(Keys)
<1>1. Jobs[batch] \in Seq(Evaluations) /\ batch \in BatchNumbers
  BY JobsAreEvaluations DEF TypeOK
<1>2. slot[s].job \in 1 .. Len(Jobs[batch])
  <2>1. slot[s].job \in 1 .. started /\ started <= Len(Jobs[batch])
    BY <1>1 DEF JobsInv, TypeOK
  <2> QED BY <1>1, <2>1 DEF TypeOK
<1>3. Evaluation(s) \in Evaluations /\ Evaluation(s) \in ToSet(Jobs[batch])
  BY <1>1, <1>2 DEF Evaluation, ToSet
<1> QED BY <1>1, <1>2, <1>3, JobsAreEvaluations, EvaluationsAssumption

(* A running slot has a key of its evaluation before it.                   *)
LEMMA RunningKey ==
  ASSUME BaseInv, NEW s \in Running
  PROVE  /\ s \in Slots /\ s \in Working
         /\ Evaluation(s) \in Evaluations
         /\ Key(s) \in Keys /\ Key(s) \in KeySet(Evaluation(s))
         /\ slot[s].results \in Seq(Predictions)
         /\ Len(slot[s].results) + 1 \in DOMAIN KeysOf[Evaluation(s)]
<1>1. s \in Working /\ s \in Slots
  BY DEF Running, Working
<1>2. /\ Evaluation(s) \in Evaluations
      /\ KeysOf[Evaluation(s)] \in Seq(Keys)
  BY <1>1, WorkingJob DEF BaseInv
<1>3. slot[s].results \in Seq(Predictions)
  BY <1>1 DEF BaseInv, TypeOK, SlotRecords
<1>4. Left(s)
  BY <1>1 DEF BaseInv, LocalInv, LocalOK
<1>5. Len(slot[s].results) + 1 \in 1 .. Len(KeysOf[Evaluation(s)])
  BY <1>2, <1>3, <1>4 DEF Left
<1> QED BY <1>1, <1>2, <1>3, <1>5 DEF Key, KeySet, ToSet

(* No two slots have a key in common.                                      *)
LEMMA OwnKeys ==
  ASSUME TypeOK, JobsInv, NEW s \in Working, NEW t \in Working, s # t
  PROVE  KeySet(Evaluation(s)) \cap KeySet(Evaluation(t)) = {}
<1>1. /\ batch \in BatchNumbers /\ batch \in Pooled
      /\ slot[s].job # slot[t].job
  BY CrewSlots DEF TypeOK, JobsInv
<1>2. /\ slot[s].job \in DOMAIN Jobs[batch]
      /\ slot[t].job \in DOMAIN Jobs[batch]
      /\ Evaluation(s) \in ToSet(Batches[batch])
      /\ Evaluation(t) \in ToSet(Batches[batch])
  BY WorkingJob
<1>3. IsInjective(Jobs[batch])
  BY <1>1, JobsAreEvaluations
<1>4. Evaluation(s) # Evaluation(t)
  BY <1>1, <1>2, <1>3 DEF Evaluation, IsInjective
<1> QED BY <1>1, <1>2, <1>4, BatchesAssumption

(* An idle slot is a slot.                                                 *)
LEMMA IdleType == Idle \in SlotRecords /\ Idle.pc = "idle"
BY EvaluationsAssumption
DEF Idle, SlotRecords, Labels, EmptyMemory, Whole

(* A slot that goes on with its job.                                       *)
GoesOn(s, r) ==
  /\ s \in Working
  /\ r \in SlotRecords /\ r.pc # "idle" /\ r.job = slot[s].job
  /\ slot' = [slot EXCEPT ![s] = r]
  /\ UNCHANGED control

(* The update of one slot.                                                 *)
LEMMA OneSlot ==
  ASSUME slot \in [Slots -> SlotRecords], NEW s \in Slots, NEW r \in SlotRecords,
         slot' = [slot EXCEPT ![s] = r]
  PROVE  /\ slot' \in [Slots -> SlotRecords]
         /\ slot'[s] = r /\ \A t \in Slots : t # s => slot'[t] = slot[t]
OBVIOUS

(* A slot that a step does not touch is where it was.                      *)
LEMMA SlotFrame ==
  ASSUME NEW t, slot'[t] = slot[t], batch' = batch
  PROVE  /\ Evaluation(t)' = Evaluation(t)
         /\ Key(t)' = Key(t) /\ (Left(t)' <=> Left(t))
         /\ \A l : At(t, l)' <=> At(t, l)
         /\ (t \in Working)' <=> t \in Working
         /\ (t \in Running)' <=> t \in Running
         /\ LocalOK(t)' <=> LocalOK(t)
<1>1. Evaluation(t)' = Evaluation(t)
  BY DEF Evaluation, Jobs
<1>2. Key(t)' = Key(t) /\ (Left(t)' <=> Left(t))
  BY <1>1 DEF Key, Left
<1>3. /\ \A l : At(t, l)' <=> At(t, l)
      /\ (t \in Working)' <=> t \in Working
      /\ (t \in Running)' <=> t \in Running
  BY DEF At, Working, Running
<1> QED BY <1>1, <1>2, <1>3 DEF LocalOK

(* A slot that goes on disturbs no other slot and no job, so that only     *)
(* where it is itself remains to be shown.                                 *)
LEMMA GoesOnKeeps ==
  ASSUME BaseInv, NEW s, NEW r, GoesOn(s, r)
  PROVE  /\ slot' \in [Slots -> SlotRecords] /\ s \in Slots /\ slot'[s] = r
         /\ \A t \in Slots : t # s => slot'[t] = slot[t]
         /\ batch' = batch /\ Working' = Working
         /\ Evaluation(s)' = Evaluation(s)
         /\ JobsInv'
         /\ LocalOK(s)' => LocalInv'
<1>1. s \in Slots /\ slot \in [Slots -> SlotRecords]
  BY DEF GoesOn, Working, BaseInv, TypeOK
<1>2. /\ slot' \in [Slots -> SlotRecords]
      /\ slot'[s] = r /\ \A t \in Slots : t # s => slot'[t] = slot[t]
  BY <1>1, OneSlot DEF GoesOn
<1>3. batch' = batch /\ UNCHANGED control
  BY DEF GoesOn, control
<1>4. Working' = Working
  BY <1>1, <1>2 DEF Working, GoesOn
<1>5. Evaluation(s)' = Evaluation(s)
  BY <1>2, <1>3 DEF Evaluation, Jobs, GoesOn
<1>6. \A t \in Working : slot'[t].job = slot[t].job
  BY <1>2 DEF Working, GoesOn
<1>7. JobsInv'
  <2>1. JobsInv
    BY DEF BaseInv
  <2> QED BY <1>3, <1>4, <1>6, <2>1 DEF JobsInv, control, Crew, Jobs
<1>8. ASSUME LocalOK(s)' PROVE LocalInv'
  <2>1. \A t \in Working : t # s => LocalOK(t)'
    BY <1>2, <1>3, SlotFrame DEF BaseInv, LocalInv, Working
  <2> QED BY <1>4, <1>8, <2>1 DEF LocalInv
<1> QED BY <1>1, <1>2, <1>3, <1>4, <1>5, <1>7, <1>8

-----------------------------------------------------------------------------
(* What each step of a slot does to it *)

(* A slot with another program counter.                                    *)
WithPc(s, label) == [slot[s] EXCEPT !.pc = label]

(* A slot that takes a prediction and goes on with the next example.       *)
Taken(s, p, memory) ==
  [slot[s] EXCEPT !.pc = "lookup", !.memory = memory, !.results = Append(@, p)]

(* A slot that takes a prediction is a slot.                               *)
LEMMA TakenType ==
  ASSUME TypeOK, NEW s \in Slots, NEW p \in Predictions,
         NEW memory \in [Keys -> Whole]
  PROVE  Taken(s, p, memory) \in SlotRecords
<1>1. slot[s] \in SlotRecords
  BY DEF TypeOK
<1>2. Append(slot[s].results, p) \in Seq(Predictions)
  BY <1>1 DEF SlotRecords
<1> HIDE DEF Predictions
<1> QED BY <1>1, <1>2 DEF Taken, SlotRecords, Labels

(* A prediction is taken while an example is left, and one fewer is left   *)
(* then.                                                                   *)
LEMMA TakeMoves ==
  ASSUME BaseInv, NEW s \in Slots, s \in Working, Left(s),
         NEW p \in Predictions, NEW memory \in [Keys -> Whole],
         Take(s, p, memory), UNCHANGED control
  PROVE  GoesOn(s, Taken(s, p, memory)) /\ LocalOK(s)'
<1>1. slot[s] \in SlotRecords /\ slot \in [Slots -> SlotRecords]
  BY DEF BaseInv, TypeOK
<1>2. slot' = [slot EXCEPT ![s] = Taken(s, p, memory)]
  BY <1>1 DEF Take, Taken
<1>3. GoesOn(s, Taken(s, p, memory))
  BY <1>1, <1>2, TakenType DEF GoesOn, Taken, BaseInv, SlotRecords
<1>4. /\ slot'[s] = Taken(s, p, memory)
      /\ Evaluation(s)' = Evaluation(s)
  BY <1>3, GoesOnKeeps
<1>5. /\ slot'[s].pc = "lookup" /\ slot'[s].results = Append(slot[s].results, p)
      /\ slot[s].results \in Seq(Predictions)
  BY <1>1, <1>4 DEF Taken, SlotRecords
<1>6. KeysOf[Evaluation(s)] \in Seq(Keys)
  BY WorkingJob DEF BaseInv
<1>7. Len(slot'[s].results) <= Len(KeysOf[Evaluation(s)])
  BY <1>5, <1>6 DEF Left
<1> QED BY <1>3, <1>4, <1>5, <1>7 DEF LocalOK, Running, At, Storing

(* A step that only moves the program counter, and perhaps sets a current  *)
(* prediction or the next module.                                          *)
LEMMA PcMoves ==
  ASSUME BaseInv, NEW s \in Slots, s \in Working, NEW r \in SlotRecords,
         slot' = [slot EXCEPT ![s] = r], UNCHANGED control,
         r.pc # "idle", r.job = slot[s].job, r.results = slot[s].results,
         r.pc = "lookup" \/ (r.pc = "scores" <=> ~Left(s)),
         r.pc \in Storing => /\ UsesCache(Evaluation(s))
                             /\ r.current \in Predictions
                             /\ r.current.under = None
  PROVE  GoesOn(s, r) /\ LocalOK(s)' /\ Key(s)' = Key(s)
<1>1. GoesOn(s, r)
  BY DEF GoesOn
<1>2. slot'[s] = r /\ Evaluation(s)' = Evaluation(s)
  BY <1>1, GoesOnKeeps
<1>3. (Left(s)' <=> Left(s)) /\ Key(s)' = Key(s)
  BY <1>2 DEF Left, Key
<1>4. Len(slot[s].results) <= Len(KeysOf[Evaluation(s)])
  BY DEF BaseInv, LocalInv, LocalOK
<1>5. (s \in Running)' => r.pc # "lookup" /\ r.pc # "scores"
  BY <1>2 DEF Running
<1> QED BY <1>1, <1>2, <1>3, <1>4, <1>5 DEF LocalOK, At, UsesCache

(* A hit takes what the cache holds, and remembers it.                     *)
LEMMA HitMoves ==
  ASSUME BaseInv, NEW s \in Slots, Hit(s)
  PROVE  /\ GoesOn(s, Taken(s, Cached(s),
                            [slot[s].memory EXCEPT ![Key(s)] = Cached(s)]))
         /\ LocalOK(s)'
<1>1. s \in Working /\ Left(s) /\ UNCHANGED control
  BY DEF Hit, At, Working
<1>2. [slot[s].memory EXCEPT ![Key(s)] = Cached(s)] \in [Keys -> Whole]
  BY DEF Hit, BaseInv, TypeOK, SlotRecords, Whole
<1> QED BY <1>1, <1>2, TakeMoves DEF Hit

(* A miss goes on to the first module, at the same key.                    *)
LEMMA MissMoves ==
  ASSUME BaseInv, NEW s \in Slots, Miss(s)
  PROVE  /\ GoesOn(s, [slot[s] EXCEPT !.pc = "call", !.module = 1])
         /\ LocalOK(s)' /\ Key(s)' = Key(s)
<1> DEFINE r == [slot[s] EXCEPT !.pc = "call", !.module = 1]
<1>1. s \in Working /\ Left(s) /\ UNCHANGED control
  BY DEF Miss, At, Working
<1>2. slot[s] \in SlotRecords /\ slot \in [Slots -> SlotRecords]
  BY DEF BaseInv, TypeOK
<1>3. /\ r \in SlotRecords /\ r.pc = "call" /\ r.job = slot[s].job
      /\ r.results = slot[s].results
  <2>1. 1 \in 1 .. Modules
    BY EvaluationsAssumption
  <2> QED BY <1>2, <2>1 DEF SlotRecords, Labels
<1>4. slot' = [slot EXCEPT ![s] = r]
  BY <1>2 DEF Miss
<1> HIDE DEF r
<1>5. GoesOn(s, r) /\ LocalOK(s)' /\ Key(s)' = Key(s)
  BY <1>1, <1>3, <1>4, PcMoves DEF Storing
<1> QED BY <1>5 DEF r

(* A call goes on to its log line, a log line to its ledger line, at the   *)
(* same key.                                                               *)
LEMMA LabelMoves ==
  ASSUME BaseInv, NEW s \in Running, NEW label \in {"log", "bill"},
         slot' = [slot EXCEPT ![s].pc = label], UNCHANGED control
  PROVE  GoesOn(s, WithPc(s, label)) /\ LocalOK(s)' /\ Key(s)' = Key(s)
<1> DEFINE r == WithPc(s, label)
<1>1. s \in Slots /\ s \in Working /\ Left(s)
  BY DEF Running, Working, BaseInv, LocalInv, LocalOK
<1>2. slot[s] \in SlotRecords /\ slot \in [Slots -> SlotRecords]
  BY <1>1 DEF BaseInv, TypeOK
<1>3. /\ r \in SlotRecords /\ r.pc = label /\ r.job = slot[s].job
      /\ r.results = slot[s].results
  BY <1>2 DEF SlotRecords, Labels, WithPc
<1>4. slot' = [slot EXCEPT ![s] = r]
  BY <1>2 DEF WithPc
<1> HIDE DEF r
<1>5. GoesOn(s, r) /\ LocalOK(s)' /\ Key(s)' = Key(s)
  BY <1>1, <1>3, <1>4, PcMoves DEF Storing
<1> QED BY <1>5 DEF r

(* RolloutCache.set goes on at the same key.                               *)
LEMMA StoringMoves ==
  ASSUME BaseInv, NEW s \in Slots, slot[s].pc \in Storing,
         NEW label \in {"write", "replace"},
         slot' = [slot EXCEPT ![s].pc = label], UNCHANGED control
  PROVE  GoesOn(s, WithPc(s, label)) /\ LocalOK(s)' /\ Key(s)' = Key(s)
<1> DEFINE r == WithPc(s, label)
<1>1. s \in Working /\ s \in Running
  BY DEF Running, Working, Storing
<1>2. slot[s] \in SlotRecords /\ slot \in [Slots -> SlotRecords] /\ LocalOK(s)
  BY <1>1 DEF BaseInv, TypeOK, LocalInv
<1>3. /\ r \in SlotRecords /\ r.pc = label /\ r.job = slot[s].job
      /\ r.results = slot[s].results /\ r.current = slot[s].current
  BY <1>2 DEF SlotRecords, Labels, WithPc
<1>4. slot' = [slot EXCEPT ![s] = r]
  BY <1>2 DEF WithPc
<1>5. /\ UsesCache(Evaluation(s)) /\ r.current \in Predictions
      /\ r.current.under = None /\ Left(s)
  BY <1>1, <1>2, <1>3 DEF LocalOK
<1> HIDE DEF r
<1>6. GoesOn(s, r) /\ LocalOK(s)' /\ Key(s)' = Key(s)
  BY <1>1, <1>3, <1>4, <1>5, PcMoves
<1> QED BY <1>6 DEF r

(* The three outcomes of a ledger line.                                    *)
NextCall(s, r) == ~LastModule(s) /\ r = [slot[s] EXCEPT !.pc = "call",
                                                        !.module = @ + 1]

ToStore(s, r) ==
  /\ LastModule(s) /\ UsesCache(Evaluation(s))
  /\ \E p \in Predictions :
       p.under = None /\ r = [slot[s] EXCEPT !.pc = "set", !.current = p]

ToTake(s, r) ==
  /\ LastModule(s) /\ ~UsesCache(Evaluation(s))
  /\ \E p \in Predictions : /\ p.under = Intervention[Evaluation(s)]
                            /\ r = Taken(s, p, slot[s].memory)

(* After a ledger line comes the next module, the cache, or the next       *)
(* example of an evaluation without a cache.                               *)
LEMMA LedgerMoves ==
  ASSUME BaseInv, NEW s \in Slots, WriteLedger(s)
  PROVE  \E r : /\ GoesOn(s, r) /\ LocalOK(s)'
                /\ \/ NextCall(s, r) /\ Key(s)' = Key(s)
                   \/ ToStore(s, r) /\ Key(s)' = Key(s)
                   \/ ToTake(s, r)
<1>1. s \in Working /\ s \in Running /\ UNCHANGED control /\ At(s, "bill")
  BY DEF WriteLedger, At, Working, Running
<1>2. slot[s] \in SlotRecords /\ slot \in [Slots -> SlotRecords]
  BY DEF BaseInv, TypeOK
<1>3. Left(s)
  BY <1>1 DEF BaseInv, LocalInv, LocalOK
<1>4. Evaluation(s) \in Evaluations /\ Key(s) \in Keys
  BY <1>1, RunningKey
<1>5. CASE ~LastModule(s)
  <2> DEFINE r == [slot[s] EXCEPT !.pc = "call", !.module = @ + 1]
  <2>1. slot[s].module + 1 \in 1 .. Modules
    BY <1>2, <1>5, EvaluationsAssumption DEF LastModule, SlotRecords
  <2>2. /\ r \in SlotRecords /\ r.pc = "call" /\ r.job = slot[s].job
        /\ r.results = slot[s].results
    BY <1>2, <2>1 DEF SlotRecords, Labels
  <2>3. slot' = [slot EXCEPT ![s] = r]
    BY <1>2, <1>5 DEF WriteLedger
  <2>4. NextCall(s, r)
    BY <1>5 DEF NextCall
  <2> HIDE DEF r
  <2>5. GoesOn(s, r) /\ LocalOK(s)' /\ Key(s)' = Key(s)
    BY <1>1, <1>3, <2>2, <2>3, PcMoves DEF Storing
  <2> QED BY <2>4, <2>5
<1>6. CASE LastModule(s)
  <2>1. PICK answer \in Answers[Key(s)] :
          LET p == [answer |-> answer,
                    under |-> Intervention[Evaluation(s)]] IN
          IF UsesCache(Evaluation(s))
          THEN slot' = [slot EXCEPT ![s].pc = "set", ![s].current = p]
          ELSE Take(s, p, slot[s].memory)
    BY <1>6 DEF WriteLedger
  <2> DEFINE p == [answer |-> answer, under |-> Intervention[Evaluation(s)]]
  <2>2. p \in Predictions /\ p.under = Intervention[Evaluation(s)]
    BY <1>4, <2>1 DEF Predictions
  <2>3. CASE UsesCache(Evaluation(s))
    <3> DEFINE r == [slot[s] EXCEPT !.pc = "set", !.current = p]
    <3>1. slot' = [slot EXCEPT ![s].pc = "set", ![s].current = p]
      BY <2>1, <2>3
    <3>2. p.under = None
      BY <2>2, <2>3 DEF UsesCache
    <3> HIDE DEF p
    <3>3. /\ r \in SlotRecords /\ r.pc = "set" /\ r.job = slot[s].job
          /\ r.results = slot[s].results /\ r.current = p
      BY <1>2, <2>2 DEF SlotRecords, Labels, Whole
    <3>4. slot' = [slot EXCEPT ![s] = r]
      BY <1>2, <3>1
    <3>5. ToStore(s, r)
      BY <1>6, <2>2, <2>3, <3>2 DEF ToStore
    <3> HIDE DEF r
    <3>6. GoesOn(s, r) /\ LocalOK(s)' /\ Key(s)' = Key(s)
      BY <1>1, <1>3, <2>2, <2>3, <3>2, <3>3, <3>4, PcMoves
    <3> QED BY <3>5, <3>6
  <2>4. CASE ~UsesCache(Evaluation(s))
    <3>1. Take(s, p, slot[s].memory)
      BY <2>1, <2>4
    <3> HIDE DEF p
    <3>2. slot[s].memory \in [Keys -> Whole]
      BY <1>2 DEF SlotRecords
    <3>3. GoesOn(s, Taken(s, p, slot[s].memory)) /\ LocalOK(s)'
      BY <1>1, <1>3, <2>2, <3>1, <3>2, TakeMoves
    <3>4. ToTake(s, Taken(s, p, slot[s].memory))
      BY <1>6, <2>2, <2>4 DEF ToTake
    <3> QED BY <3>3, <3>4
  <2> QED BY <2>3, <2>4
<1> QED BY <1>5, <1>6

(* After the rename the prediction is taken and remembered, and no         *)
(* intervention has touched it.                                            *)
LEMMA ReplaceMoves ==
  ASSUME BaseInv, NEW s \in Slots, Replace(s)
  PROVE  /\ GoesOn(s, Taken(s, slot[s].current, Remembered(s)))
         /\ LocalOK(s)' /\ Remembered(s) \in [Keys -> Whole]
         /\ slot[s].current \in Predictions /\ slot[s].current.under = None
         /\ UsesCache(Evaluation(s))
<1>1. s \in Working /\ s \in Running /\ UNCHANGED control
  BY DEF Replace, At, Working, Running
<1>2. /\ Left(s) /\ slot[s].current \in Predictions
      /\ slot[s].current.under = None /\ UsesCache(Evaluation(s))
  BY <1>1 DEF BaseInv, LocalInv, LocalOK, Replace, At, Storing
<1>3. Remembered(s) \in [Keys -> Whole]
  BY <1>2 DEF Remembered, BaseInv, TypeOK, SlotRecords, Whole
<1>4. Take(s, slot[s].current, Remembered(s))
  BY DEF Replace
<1> QED BY <1>1, <1>2, <1>3, <1>4, TakeMoves

(* The score file is opened when no example is left.                       *)
LEMMA OpenScoresMoves ==
  ASSUME BaseInv, NEW s \in Slots, OpenScores(s)
  PROVE  GoesOn(s, WithPc(s, "scores")) /\ LocalOK(s)'
<1> DEFINE r == WithPc(s, "scores")
<1>1. s \in Working /\ ~Left(s) /\ UNCHANGED control
  BY DEF OpenScores, At, Working
<1>2. slot[s] \in SlotRecords /\ slot \in [Slots -> SlotRecords]
  BY DEF BaseInv, TypeOK
<1>3. /\ r \in SlotRecords /\ r.pc = "scores" /\ r.job = slot[s].job
      /\ r.results = slot[s].results
  BY <1>2 DEF SlotRecords, Labels, WithPc
<1>4. slot' = [slot EXCEPT ![s] = r]
  BY <1>2 DEF OpenScores, WithPc
<1> HIDE DEF r
<1>5. GoesOn(s, r) /\ LocalOK(s)'
  BY <1>1, <1>3, <1>4, PcMoves DEF Storing
<1> QED BY <1>5 DEF r

(* A slot that stops, its job at an end with a result or an exception.     *)
Stops(s, r) ==
  /\ s \in Working
  /\ r \in SlotRecords /\ r.pc = "idle"
  /\ slot' = [slot EXCEPT ![s] = r]
  /\ \/ ended' = ended \cup {slot[s].job} /\ UNCHANGED raised
     \/ raised' = raised \cup {slot[s].job} /\ UNCHANGED ended
  /\ UNCHANGED <<process, batch, started, limit>>

(* A slot that stops leaves the crew, and its job is at an end for ever.   *)
LEMMA StopsKeeps ==
  ASSUME BaseInv, NEW s, NEW r, Stops(s, r)
  PROVE  /\ slot' \in [Slots -> SlotRecords] /\ s \in Slots /\ slot'[s] = r
         /\ \A t \in Slots : t # s => slot'[t] = slot[t]
         /\ batch' = batch /\ Working' = Working \ {s}
         /\ ended' \in SUBSET Nat /\ raised' \in SUBSET Nat
         /\ JobsInv' /\ LocalInv'
<1>1. s \in Slots /\ slot \in [Slots -> SlotRecords]
  BY DEF Stops, Working, BaseInv, TypeOK
<1>2. /\ slot' \in [Slots -> SlotRecords]
      /\ slot'[s] = r /\ \A t \in Slots : t # s => slot'[t] = slot[t]
  BY <1>1, OneSlot DEF Stops
<1>3. Working' = Working \ {s}
  BY <1>1, <1>2 DEF Working, Stops
<1>4. \A t \in Working' : slot'[t] = slot[t] /\ t \in Working /\ t # s
  BY <1>2, <1>3 DEF Working
<1>5. slot[s].job \in (1 .. started) \ (ended \cup raised) /\ started \in Nat
  BY DEF BaseInv, JobsInv, TypeOK, Stops
<1>6. /\ \A t \in Working' : slot[t].job # slot[s].job
      /\ JobsInv
  BY <1>4 DEF BaseInv, JobsInv, Stops
<1>7. /\ ended' \in SUBSET Nat /\ raised' \in SUBSET Nat
      /\ ended' \subseteq 1 .. started /\ raised' \subseteq 1 .. started
      /\ ended' \cap raised' = {}
      /\ ended' \cup raised' = ended \cup raised \cup {slot[s].job}
  <2> DEFINE job == slot[s].job
  <2>1. /\ ended \subseteq 1 .. started /\ raised \subseteq 1 .. started
        /\ ended \cap raised = {}
    BY <1>6 DEF JobsInv
  <2>2. \/ ended' = ended \cup {job} /\ raised' = raised
        \/ raised' = raised \cup {job} /\ ended' = ended
    BY DEF Stops
  <2>3. job \in 1 .. started /\ job \notin ended /\ job \notin raised
    BY <1>5
  <2> HIDE DEF job
  <2>4. /\ ended' \subseteq 1 .. started /\ raised' \subseteq 1 .. started
        /\ ended' \cap raised' = {}
        /\ ended' \cup raised' = ended \cup raised \cup {job}
    BY <2>1, <2>2, <2>3
  <2>5. 1 .. started \subseteq Nat
    BY <1>5
  <2> QED BY <2>4, <2>5 DEF job
<1>8. batch' = batch /\ limit' = limit /\ started' = started
      /\ process' = process
  BY DEF Stops
<1>9. Jobs' = Jobs /\ Crew(batch)' = Crew(batch)
  BY <1>8 DEF Jobs, Crew
<1>10. JobsInv'
  <2>1. started' <= limit' /\ limit' <= Len(Jobs[batch])'
    BY <1>6, <1>8, <1>9 DEF JobsInv
  <2>2. (process \in {"down", "done"})' => Working' = {}
    BY <1>3, <1>6, <1>8 DEF JobsInv
  <2>3. \A t \in Working' :
          /\ t \in Crew(batch)'
          /\ slot'[t].job \in (1 .. started') \ (ended' \cup raised')
    BY <1>4, <1>6, <1>7, <1>8, <1>9 DEF JobsInv
  <2>4. \A t, u \in Working' : slot'[t].job = slot'[u].job => t = u
    BY <1>4, <1>6 DEF JobsInv
  <2> QED BY <1>7, <1>8, <2>1, <2>2, <2>3, <2>4 DEF JobsInv
<1>11. LocalInv'
  BY <1>4, <1>8, SlotFrame DEF BaseInv, LocalInv
<1> QED BY <1>1, <1>2, <1>3, <1>7, <1>8, <1>10, <1>11

(* An idle slot that keeps its memory is a slot.                           *)
LEMMA IdleMemoryType ==
  ASSUME NEW memory \in [Keys -> Whole]
  PROVE  /\ [Idle EXCEPT !.memory = memory] \in SlotRecords
         /\ [Idle EXCEPT !.memory = memory].pc = "idle"
         /\ [Idle EXCEPT !.memory = memory].memory = memory
BY IdleType DEF SlotRecords

(* A job ends with its score file, when no example is left.                *)
LEMMA WriteScoresMoves ==
  ASSUME BaseInv, NEW s \in Slots, WriteScores(s)
  PROVE  /\ Stops(s, [Idle EXCEPT !.memory = slot[s].memory])
         /\ slot[s].memory \in [Keys -> Whole]
         /\ ~Left(s)
<1>1. slot[s] \in SlotRecords /\ s \in Working
  BY DEF BaseInv, TypeOK, WriteScores, At, Working
<1>2. slot[s].memory \in [Keys -> Whole]
  BY <1>1 DEF SlotRecords
<1>3. ~Left(s)
  BY <1>1 DEF BaseInv, LocalInv, LocalOK, WriteScores
<1> QED BY <1>1, <1>2, <1>3, IdleMemoryType DEF WriteScores, Stops

(* A job ends with an exception of its runner.                             *)
LEMMA RunnerRaisesMoves ==
  ASSUME BaseInv, NEW s \in Slots, RunnerRaises(s)
  PROVE  Stops(s, Idle)
BY IdleType DEF RunnerRaises, Stops, At, Working

(* A slot that starts has nothing but its memory.                          *)
Fresh(s) == [Idle EXCEPT !.pc = "lookup", !.job = started + 1,
                         !.memory = FirstMemory(s)]

(* A job that starts is the next one, and no other slot has it.            *)
LEMMA StartKeeps ==
  ASSUME BaseInv, NEW s \in Slots, Start(s)
  PROVE  /\ slot' \in [Slots -> SlotRecords] /\ slot'[s] = Fresh(s)
         /\ \A t \in Slots : t # s => slot'[t] = slot[t]
         /\ batch' = batch /\ Working' = Working \cup {s} /\ s \notin Working
         /\ Evaluation(s)' \in Evaluations /\ started' \in Nat
         /\ FirstMemory(s) \in [Keys -> Whole]
         /\ JobsInv' /\ LocalInv'
<1>1. slot \in [Slots -> SlotRecords] /\ started \in Nat /\ limit \in Nat
      /\ slot[s] \in SlotRecords /\ batch \in BatchNumbers /\ s \notin Working
  BY DEF BaseInv, TypeOK, Start, At, Working
<1>2. FirstMemory(s) \in [Keys -> Whole]
  BY <1>1 DEF FirstMemory, EmptyMemory, SlotRecords, Whole
<1>3. Fresh(s) \in SlotRecords
  <2>1. started + 1 \in Nat /\ "lookup" \in Labels
    BY <1>1 DEF Labels
  <2> QED BY <1>2, <2>1, IdleType DEF Fresh, SlotRecords
<1>4. /\ Fresh(s).pc = "lookup" /\ Fresh(s).job = started + 1
      /\ Fresh(s).results = <<>>
  BY DEF Fresh, Idle
<1>5. /\ slot' \in [Slots -> SlotRecords]
      /\ slot'[s] = Fresh(s) /\ \A t \in Slots : t # s => slot'[t] = slot[t]
  BY <1>1, <1>3, OneSlot DEF Start, Fresh
<1>6. Working' = Working \cup {s}
  BY <1>1, <1>4, <1>5 DEF Working
<1>7. /\ batch' = batch /\ started' = started + 1 /\ UNCHANGED <<process, limit, ended, raised>>
      /\ process \notin {"down", "done"} /\ s \in Crew(batch) /\ started < limit
  BY DEF Start
<1>8. Jobs' = Jobs /\ Crew(batch)' = Crew(batch)
  BY <1>7 DEF Jobs, Crew
<1>9. \A t \in Working : t # s /\ slot'[t] = slot[t]
  BY <1>1, <1>5 DEF Working
<1>10. JobsInv'
  <2>0. JobsInv
    BY DEF BaseInv
  <2>1. started' <= limit' /\ limit' <= Len(Jobs[batch])'
    BY <1>1, <1>7, <1>8, <2>0 DEF JobsInv
  <2>2. /\ ended' \subseteq 1 .. started /\ raised' \subseteq 1 .. started
        /\ 1 .. started \subseteq 1 .. started'
        /\ started + 1 \in 1 .. started' /\ started + 1 \notin 1 .. started
    BY <1>1, <1>7, <2>0 DEF JobsInv
  <2>3. \A t \in Working' :
          /\ t \in Crew(batch)'
          /\ slot'[t].job \in (1 .. started') \ (ended' \cup raised')
    BY <1>4, <1>5, <1>6, <1>7, <1>8, <1>9, <2>0, <2>2 DEF JobsInv
  <2>4. \A t \in Working : slot'[t].job # slot'[s].job
    BY <1>4, <1>5, <1>9, <2>0, <2>2 DEF JobsInv
  <2>5. \A t, u \in Working' : slot'[t].job = slot'[u].job => t = u
    BY <1>6, <1>9, <2>0, <2>4 DEF JobsInv
  <2>6. ended' \cap raised' = {} /\ (process \notin {"down", "done"})'
    BY <1>7, <2>0 DEF JobsInv
  <2>7. ended' \subseteq 1 .. started' /\ raised' \subseteq 1 .. started'
    BY <2>2
  <2> QED BY <2>1, <2>3, <2>5, <2>6, <2>7 DEF JobsInv
<1>11. (slot[s].job)' \in DOMAIN Jobs[batch]
  <2>1. started + 1 \in 1 .. Len(Jobs[batch]) /\ Jobs[batch] \in Seq(Evaluations)
    BY <1>1, <1>7, JobsAreEvaluations DEF BaseInv, JobsInv
  <2> QED BY <1>4, <1>5, <2>1
<1>12. Evaluation(s)' \in Evaluations /\ KeysOf[Evaluation(s)'] \in Seq(Keys)
  <2>1. Jobs[batch] \in Seq(Evaluations)
    BY <1>1, JobsAreEvaluations
  <2> QED BY <1>7, <1>8, <1>11, <2>1, EvaluationsAssumption DEF Evaluation
<1>13. LocalOK(s)'
  <2>1. Len(slot'[s].results) = 0 /\ slot'[s].pc = "lookup"
    BY <1>4, <1>5
  <2>2. 0 <= Len(KeysOf[Evaluation(s)'])
    BY <1>12
  <2> QED BY <2>1, <2>2 DEF LocalOK, Running, At, Storing
<1>14. LocalInv'
  <2>1. \A t \in Working : LocalOK(t)'
    BY <1>7, <1>9, SlotFrame DEF BaseInv, LocalInv
  <2> QED BY <1>6, <1>13, <2>1 DEF LocalInv
<1>15. started' \in Nat
  BY <1>1, <1>7
<1> QED BY <1>1, <1>2, <1>5, <1>6, <1>7, <1>10, <1>12, <1>14, <1>15

(* What logs, ledgers and the runners count.                               *)
Books == [Evaluations -> [Keys -> Nat]]

(* A line adds one for the key of its slot, and nothing elsewhere.         *)
LEMMA AddType ==
  ASSUME BaseInv, NEW s \in Running, NEW count \in Books
  PROVE  /\ Add(count, s) \in Books
         /\ Add(count, s)[Evaluation(s)][Key(s)] =
              count[Evaluation(s)][Key(s)] + 1
         /\ \A e \in Evaluations, k \in Keys :
              e # Evaluation(s) \/ k # Key(s) =>
                Add(count, s)[e][k] = count[e][k]
BY RunningKey DEF Add, Books

(* The process is down or its jobs are done, and nothing works.            *)
LEMMA DownKeeps ==
  ASSUME BaseInv, GoDown, faults' \in Nat, lost' \in Nat
  PROVE  BaseInv' /\ Working' = {} /\ \A s \in Slots : slot'[s] = Idle
<1>1. /\ 1 \in BatchNumbers /\ Jobs' = Jobs
      /\ Jobs[1] \in Seq(Evaluations)
  BY BatchesAssumption, JobsAreEvaluations DEF BatchNumbers, Jobs
<1>2. \A s \in Slots : slot'[s] = Idle
  BY DEF GoDown
<1>3. Working' = {}
  BY <1>2, IdleType DEF Working
<1>4. slot' \in [Slots -> SlotRecords]
  BY IdleType DEF GoDown
<1>5. TypeOK'
  BY <1>1, <1>4 DEF GoDown, files, books, BaseInv, TypeOK
<1>6. started' = 0 /\ limit' = Len(Jobs[1]) /\ ended' = {} /\ raised' = {}
      /\ batch' = 1
  BY DEF GoDown
<1>7. JobsInv'
  BY <1>1, <1>3, <1>6 DEF JobsInv
<1>8. LocalInv'
  BY <1>3 DEF LocalInv
<1> QED BY <1>2, <1>3, <1>5, <1>7, <1>8 DEF BaseInv

(* A batch ends when all its jobs have ended: no slot works then.          *)
LEMMA NextBatchKeeps ==
  ASSUME BaseInv, NextBatch
  PROVE  BaseInv' /\ Working' = {} /\ Working = {}
<1>1. TypeOK /\ JobsInv /\ Jobs' = Jobs
  BY DEF BaseInv, Jobs
<1>2. ended = 1 .. Len(Jobs[batch]) /\ Len(Jobs[batch]) \in Nat
  <2>1. Jobs[batch] \in Seq(Evaluations)
    BY <1>1, JobsAreEvaluations DEF TypeOK
  <2> QED BY <2>1 DEF NextBatch
<1>3. 1 .. started \subseteq ended
  BY <1>1, <1>2 DEF JobsInv, TypeOK
<1>4. Working = {} /\ raised = {}
  <2>1. \A s \in Working : slot[s].job \in 1 .. started /\ slot[s].job \notin ended
    BY <1>1 DEF JobsInv
  <2>2. raised \subseteq 1 .. started /\ ended \cap raised = {}
    BY <1>1 DEF JobsInv
  <2> QED BY <1>3, <2>1, <2>2
<1>5. slot' = slot /\ raised' = raised /\ Working' = {}
  BY <1>4 DEF NextBatch, Working
<1>6. UNCHANGED <<files, books, scores, history>>
  BY DEF NextBatch
<1>7. CASE batch = Len(Batches)
  <2>1. process' = "done" /\ UNCHANGED <<batch, limit, ended, started>>
    BY <1>7 DEF NextBatch
  <2>2. TypeOK'
    BY <1>1, <1>5, <1>6, <2>1 DEF TypeOK, files, books, history
  <2>3. JobsInv'
    BY <1>1, <1>4, <1>5, <2>1 DEF JobsInv
  <2> QED BY <1>4, <1>5, <2>2, <2>3 DEF BaseInv, LocalInv
<1>8. CASE batch # Len(Batches)
  <2>1. /\ batch' = batch + 1 /\ limit' = Len(Jobs[batch + 1])
        /\ started' = 0 /\ ended' = {} /\ process' = process
    BY <1>8 DEF NextBatch
  <2>2. batch + 1 \in BatchNumbers /\ Len(Jobs[batch + 1]) \in Nat
    <3>1. batch + 1 \in BatchNumbers
      BY <1>1, <1>8, BatchesAssumption DEF TypeOK, BatchNumbers
    <3>2. Jobs[batch + 1] \in Seq(Evaluations)
      BY <3>1, JobsAreEvaluations
    <3> QED BY <3>1, <3>2
  <2>3. TypeOK'
    BY <1>1, <1>5, <1>6, <2>1, <2>2 DEF TypeOK, files, books, history
  <2>4. JobsInv'
    BY <1>1, <1>4, <1>5, <2>1, <2>2 DEF JobsInv
  <2> QED BY <1>4, <1>5, <2>3, <2>4 DEF BaseInv, LocalInv
<1> QED BY <1>7, <1>8

(* The invariant holds when the process is started first.                  *)
LEMMA BaseInit == Init => BaseInv
<1> SUFFICES ASSUME Init PROVE BaseInv
  OBVIOUS
<1>1. 1 \in BatchNumbers /\ Jobs[1] \in Seq(Evaluations)
  <2>1. 1 \in BatchNumbers
    BY BatchesAssumption DEF BatchNumbers
  <2> QED BY <2>1, JobsAreEvaluations
<1>2. Working = {}
  BY IdleType DEF Init, Working
<1>3. TypeOK
  BY <1>1, IdleType DEF Init, TypeOK, NoLines, Whole
<1>4. started = 0 /\ limit = Len(Jobs[1]) /\ ended = {} /\ raised = {}
      /\ batch = 1
  BY DEF Init
<1>5. JobsInv
  BY <1>1, <1>2, <1>4 DEF JobsInv
<1> QED BY <1>2, <1>3, <1>5 DEF BaseInv, LocalInv

(* A step of a slot keeps types, jobs and places.                          *)
LEMMA BaseSlotStep ==
  ASSUME BaseInv, NEW s \in Slots, SlotStep(s)
  PROVE  BaseInv'
<1>0. TypeOK /\ slot[s] \in SlotRecords
  BY DEF BaseInv, TypeOK
<1>1. ASSUME NEW r, GoesOn(s, r), LocalOK(s)',
             UNCHANGED history, entry' \in [Keys -> Whole \cup {Torn}],
             temp' \in [Keys -> Whole \cup {Torn}],
             logs' \in Books, ledger' \in Books, made' \in Books,
             scores' \in [Evaluations -> Seq(Predictions) \cup {Absent, Torn}]
      PROVE  BaseInv'
  <2>1. slot' \in [Slots -> SlotRecords] /\ JobsInv' /\ LocalInv'
    BY <1>1, GoesOnKeeps
  <2>2. UNCHANGED control
    BY <1>1 DEF GoesOn
  <2>3. TypeOK'
    BY <1>0, <1>1, <2>1, <2>2 DEF TypeOK, control, history, Books
  <2> QED BY <2>1, <2>3 DEF BaseInv
<1>2. /\ logs \in Books /\ ledger \in Books /\ made \in Books
  BY <1>0 DEF TypeOK, Books
<1>3. CASE Start(s)
  <2>1. /\ slot' \in [Slots -> SlotRecords] /\ JobsInv' /\ LocalInv'
        /\ started' \in Nat
    BY <1>3, StartKeeps
  <2>2. TypeOK'
    BY <1>0, <1>3, <2>1 DEF Start, TypeOK, files, books, history
  <2> QED BY <2>1, <2>2 DEF BaseInv
<1>4. CASE Hit(s)
  BY <1>0, <1>1, <1>2, <1>4, HitMoves DEF Hit, files, books, TypeOK
<1>5. CASE Miss(s)
  BY <1>0, <1>1, <1>2, <1>5, MissMoves DEF Miss, files, books, TypeOK
<1>6. CASE CallModule(s)
  <2>1. s \in Running
    BY <1>6 DEF CallModule, Running, At
  <2>2. made' \in Books
    BY <1>2, <1>6, <2>1, AddType DEF CallModule
  <2>3. GoesOn(s, WithPc(s, "log")) /\ LocalOK(s)'
    BY <1>6, <2>1, LabelMoves DEF CallModule
  <2> QED BY <1>0, <1>1, <1>2, <1>6, <2>2, <2>3 DEF CallModule, files, TypeOK
<1>7. CASE WriteLog(s)
  <2>1. s \in Running
    BY <1>7 DEF WriteLog, Running, At
  <2>2. logs' \in Books
    BY <1>2, <1>7, <2>1, AddType DEF WriteLog
  <2>3. GoesOn(s, WithPc(s, "bill")) /\ LocalOK(s)'
    BY <1>7, <2>1, LabelMoves DEF WriteLog
  <2> QED BY <1>0, <1>1, <1>2, <1>7, <2>2, <2>3 DEF WriteLog, files, TypeOK
<1>8. CASE WriteLedger(s)
  <2>1. s \in Running
    BY <1>8 DEF WriteLedger, Running, At
  <2>2. ledger' \in Books
    BY <1>2, <1>8, <2>1, AddType DEF WriteLedger, Bill
  <2>3. PICK r : GoesOn(s, r) /\ LocalOK(s)'
    BY <1>8, LedgerMoves
  <2> QED BY <1>0, <1>1, <1>2, <1>8, <2>2, <2>3 DEF WriteLedger, files, TypeOK
<1>9. CASE OpenTemp(s)
  <2>1. GoesOn(s, WithPc(s, "write")) /\ LocalOK(s)'
    BY <1>9, StoringMoves DEF OpenTemp, At, Storing
  <2>2. temp' \in [Keys -> Whole \cup {Torn}]
    BY <1>0, <1>9 DEF OpenTemp, TypeOK
  <2> QED BY <1>0, <1>1, <1>2, <1>9, <2>1, <2>2 DEF OpenTemp, books, TypeOK
<1>10. CASE WriteTemp(s)
  <2>1. GoesOn(s, WithPc(s, "replace")) /\ LocalOK(s)'
    BY <1>10, StoringMoves DEF WriteTemp, At, Storing
  <2>2. temp' \in [Keys -> Whole \cup {Torn}]
    BY <1>0, <1>10 DEF WriteTemp, TypeOK, SlotRecords
  <2> QED BY <1>0, <1>1, <1>2, <1>10, <2>1, <2>2 DEF WriteTemp, books, TypeOK
<1>12. CASE OpenScores(s)
  <2>1. scores' \in [Evaluations -> Seq(Predictions) \cup {Absent, Torn}]
    BY <1>0, <1>12 DEF OpenScores, TypeOK
  <2> QED BY <1>0, <1>1, <1>2, <1>12, <2>1, OpenScoresMoves
          DEF OpenScores, files, books, TypeOK
<1>13. CASE WriteScores(s)
  <2>1. PICK r : Stops(s, r)
    BY <1>13, WriteScoresMoves
  <2>2. scores' \in [Evaluations -> Seq(Predictions) \cup {Absent, Torn}]
    BY <1>0, <1>13 DEF WriteScores, TypeOK, SlotRecords
  <2>3. /\ slot' \in [Slots -> SlotRecords] /\ JobsInv' /\ LocalInv'
        /\ ended' \in SUBSET Nat /\ raised' \in SUBSET Nat
    BY <2>1, StopsKeeps
  <2>4. TypeOK'
    BY <1>0, <1>13, <2>2, <2>3 DEF WriteScores, TypeOK, files, books, history
  <2> QED BY <2>3, <2>4 DEF BaseInv
<1>11. CASE Replace(s)
  <2>1. entry' \in [Keys -> Whole \cup {Torn}]
    BY <1>0, <1>11, ReplaceMoves DEF Replace, TypeOK
  <2>2. temp' \in [Keys -> Whole \cup {Torn}]
    BY <1>0, <1>11 DEF Replace, TypeOK, Whole
  <2> QED BY <1>0, <1>1, <1>2, <1>11, <2>1, <2>2, ReplaceMoves
          DEF Replace, books, TypeOK
<1> QED BY <1>3, <1>4, <1>5, <1>6, <1>7, <1>8, <1>9, <1>10, <1>11, <1>12, <1>13
        DEF SlotStep

(* An exception of a runner keeps them.                                    *)
LEMMA RaisesKeeps ==
  ASSUME BaseInv, NEW s \in Slots, RunnerRaises(s)
  PROVE  BaseInv'
<1>1. /\ slot' \in [Slots -> SlotRecords] /\ JobsInv' /\ LocalInv'
      /\ ended' \in SUBSET Nat /\ raised' \in SUBSET Nat
  BY RunnerRaisesMoves, StopsKeeps
<1>2. s \in Running
  BY DEF RunnerRaises, Running, At
<1>3. made' \in Books
  BY <1>2, AddType DEF RunnerRaises, BaseInv, TypeOK, Books
<1>4. TypeOK'
  BY <1>1, <1>3 DEF RunnerRaises, BaseInv, TypeOK, files, Books
<1> QED BY <1>1, <1>4 DEF BaseInv

(* A step that leaves the slots and the jobs alone.                        *)
LEMMA SurfaceKeeps ==
  ASSUME BaseInv, Surface
  PROVE  BaseInv'
<1>1. TypeOK /\ JobsInv
  BY DEF BaseInv
<1>2. PICK extra \in 0 .. Workers + 1 :
        limit' = IF started + extra < limit THEN started + extra ELSE limit
  BY DEF Surface
<1>3. limit' \in Nat /\ started <= limit' /\ limit' <= limit
  BY <1>1, <1>2, EvaluationsAssumption DEF TypeOK, JobsInv
<1>4. /\ process' = "failing"
      /\ UNCHANGED <<files, books, scores, batch, started, ended, raised, slot,
                     history>>
  BY DEF Surface
<1>5. TypeOK'
  BY <1>1, <1>3, <1>4 DEF TypeOK, files, books, history
<1>6. Len(Jobs[batch]) \in Nat /\ Len(Jobs[batch])' = Len(Jobs[batch])
  BY <1>1, <1>4, JobsAreEvaluations DEF TypeOK, Jobs
<1>7. /\ limit' <= Len(Jobs[batch])' /\ started' <= limit'
      /\ Working' = Working /\ Crew(batch)' = Crew(batch)
      /\ (process \notin {"down", "done"})'
  BY <1>1, <1>3, <1>4, <1>6 DEF TypeOK, JobsInv, Working, Crew, Jobs
<1>8. JobsInv'
  BY <1>1, <1>4, <1>7 DEF JobsInv
<1>9. LocalInv'
  BY <1>4, <1>7, SlotFrame DEF BaseInv, LocalInv
<1> QED BY <1>5, <1>8, <1>9 DEF BaseInv

(* A restart keeps them.                                                   *)
LEMMA RestartKeeps ==
  ASSUME BaseInv, Restart
  PROVE  BaseInv'
<1>1. /\ process = "down" /\ process' = "up"
      /\ UNCHANGED <<files, books, scores, batch, started, limit, ended, raised,
                     slot, history>>
  BY DEF Restart
<1>2. TypeOK'
  BY <1>1 DEF BaseInv, TypeOK, files, books, history
<1>3. Working' = Working /\ Crew(batch)' = Crew(batch) /\ Jobs' = Jobs
  BY <1>1 DEF Working, Crew, Jobs
<1>4. JobsInv'
  BY <1>1, <1>3 DEF BaseInv, JobsInv
<1>5. LocalInv'
  BY <1>1, <1>3, SlotFrame DEF BaseInv, LocalInv
<1> QED BY <1>2, <1>4, <1>5 DEF BaseInv

(* The slots that run the program can be counted.                          *)
LEMMA RunningFinite ==
  /\ IsFiniteSet(Slots) /\ IsFiniteSet(Running) /\ Cardinality(Running) \in Nat
<1>1. IsFiniteSet(Slots)
  BY EvaluationsAssumption, FS_Interval DEF Slots, Driver
<1> QED BY <1>1, FS_Subset, FS_CardinalityType DEF Running

(* Every step keeps types, jobs and places.                                *)
LEMMA BaseStep == BaseInv /\ [Next]_vars => BaseInv'
<1> SUFFICES ASSUME BaseInv, [Next]_vars PROVE BaseInv'
  OBVIOUS
<1>1. ASSUME UNCHANGED vars PROVE BaseInv'
  <2>1. TypeOK'
    BY <1>1 DEF vars, BaseInv, TypeOK
  <2>2. Working' = Working /\ Crew(batch)' = Crew(batch) /\ Jobs' = Jobs
    BY <1>1 DEF vars, Working, Crew, Jobs
  <2>3. JobsInv'
    BY <1>1, <2>2 DEF vars, BaseInv, JobsInv
  <2>4. LocalInv'
    BY <1>1, <2>2, SlotFrame DEF vars, BaseInv, LocalInv
  <2> QED BY <2>1, <2>3, <2>4 DEF BaseInv
<1>2. CASE Shutdown
  BY <1>2, DownKeeps DEF Shutdown, history, BaseInv, TypeOK
<1>3. CASE Interrupt
  BY <1>3, DownKeeps, RunningFinite DEF Interrupt, BaseInv, TypeOK
<1> QED BY <1>1, <1>2, <1>3, BaseSlotStep, RaisesKeeps, SurfaceKeeps,
           NextBatchKeeps, RestartKeeps DEF Next, Step, Over

-----------------------------------------------------------------------------
(* Cache files, memories, results and score files *)

(* What an evaluation shows at a position: the entry of its key, or, in an *)
(* ablation, something made under its own intervention.                    *)
Shown(e, n, p) ==
  IF UsesCache(e) THEN p = entry[KeysOf[e][n]] ELSE p.under = Intervention[e]

(* The temporary file of a slot is whole before its rename; the key of a   *)
(* run has no entry yet; what is in memory is what is in the files;        *)
(* results are what may be shown.                                          *)
SlotFiles(s) ==
  /\ At(s, "replace") => temp[Key(s)] = slot[s].current
  /\ s \in Running /\ UsesCache(Evaluation(s)) => entry[Key(s)] = Absent
  /\ \A k \in Keys : slot[s].memory[k] # Absent => slot[s].memory[k] = entry[k]
  /\ s \in Working => \A n \in DOMAIN slot[s].results :
                        Shown(Evaluation(s), n, slot[s].results[n])

(* An entry is whole, and no intervention has touched it.                  *)
EntriesInv == \A k \in Keys : entry[k] # Absent => /\ entry[k] \in Predictions
                                                   /\ entry[k].under = None

(* A score file has one prediction for each example, the one to be shown.  *)
ScoresOK(e) ==
  /\ Len(scores[e]) = Len(KeysOf[e])
  /\ \A n \in DOMAIN scores[e] : Shown(e, n, scores[e][n])

(* The part of the invariant that is about files.                          *)
FilesInv ==
  /\ EntriesInv
  /\ \A s \in Slots : SlotFiles(s)
  /\ \A e \in Reported : ScoresOK(e)

(* Entries are written once.                                               *)
EntriesStay == \A k \in Keys : entry[k] # Absent => entry'[k] = entry[k]

(* What may be shown may be shown later on.                                *)
LEMMA ShownStays ==
  ASSUME EntriesStay, NEW e \in Evaluations, NEW n \in DOMAIN KeysOf[e],
         NEW p \in Predictions, Shown(e, n, p)
  PROVE  Shown(e, n, p)'
<1>1. KeysOf[e][n] \in Keys
  BY EvaluationsAssumption
<1>2. p # Absent
  BY FilesAssumption
<1> QED BY <1>1, <1>2 DEF Shown, EntriesStay, UsesCache

(* A slot has results for the first examples of its evaluation.            *)
LEMMA ResultPositions ==
  ASSUME BaseInv, NEW s \in Working
  PROVE  /\ slot[s].results \in Seq(Predictions)
         /\ DOMAIN slot[s].results \subseteq DOMAIN KeysOf[Evaluation(s)]
         /\ Evaluation(s) \in Evaluations
<1>1. slot[s].results \in Seq(Predictions)
  BY DEF BaseInv, TypeOK, Working, SlotRecords
<1>2. /\ Evaluation(s) \in Evaluations
      /\ KeysOf[Evaluation(s)] \in Seq(Keys)
  BY WorkingJob DEF BaseInv
<1>3. Len(slot[s].results) <= Len(KeysOf[Evaluation(s)])
  BY DEF BaseInv, LocalInv, LocalOK
<1> QED BY <1>1, <1>2, <1>3

(* A slot that a step does not touch, nor the file of its key.             *)
LEMMA SlotFilesStay ==
  ASSUME BaseInv, NEW t \in Slots, SlotFiles(t),
         slot'[t] = slot[t], batch' = batch, EntriesStay,
         t \in Running => entry'[Key(t)] = entry[Key(t)]
                          /\ temp'[Key(t)] = temp[Key(t)]
  PROVE  SlotFiles(t)'
<1>1. /\ Evaluation(t)' = Evaluation(t) /\ Key(t)' = Key(t)
      /\ At(t, "replace")' <=> At(t, "replace")
      /\ (t \in Working)' <=> t \in Working
      /\ (t \in Running)' <=> t \in Running
  BY SlotFrame
<1>2. At(t, "replace") => t \in Running
  BY DEF At, Running
<1>3. \A k \in Keys : slot'[t].memory[k] # Absent
                        => slot'[t].memory[k] = entry'[k]
  BY DEF SlotFiles, EntriesStay
<1>4. ASSUME t \in Working, NEW n \in DOMAIN slot[t].results
      PROVE  Shown(Evaluation(t), n, slot[t].results[n])'
  <2>1. /\ slot[t].results[n] \in Predictions
        /\ n \in DOMAIN KeysOf[Evaluation(t)] /\ Evaluation(t) \in Evaluations
    BY <1>4, ResultPositions
  <2>2. Shown(Evaluation(t), n, slot[t].results[n])
    BY <1>4 DEF SlotFiles
  <2> DEFINE e == Evaluation(t)
             p == slot[t].results[n]
  <2>3. e' = e /\ p' = p
    BY <1>1
  <2> HIDE DEF e, p
  <2>4. e \in Evaluations /\ n \in DOMAIN KeysOf[e] /\ p \in Predictions
        /\ Shown(e, n, p)
    BY <2>1, <2>2 DEF e, p
  <2>5. IF UsesCache(e) THEN p = entry'[KeysOf[e][n]]
                        ELSE p.under = Intervention[e]
    BY <2>4, ShownStays, EvaluationsAssumption, FilesAssumption DEF Shown, EntriesStay
  <2>6. Shown(e, n, p)'
    BY <2>3, <2>5 DEF Shown, UsesCache
  <2> QED BY <2>6 DEF e, p
<1> QED BY <1>1, <1>2, <1>3, <1>4 DEF SlotFiles, UsesCache

(* A score file that is not written again stays what it should be.         *)
LEMMA ScoresStay ==
  ASSUME BaseInv, NEW e \in Evaluations, ScoresOK(e),
         scores[e] \in Seq(Predictions), scores'[e] = scores[e], EntriesStay
  PROVE  ScoresOK(e)'
<1>1. KeysOf[e] \in Seq(Keys) /\ DOMAIN scores[e] = DOMAIN KeysOf[e]
  BY EvaluationsAssumption DEF ScoresOK
<1>2. \A n \in DOMAIN scores[e] : Shown(e, n, scores[e][n])'
  <2>1. ASSUME NEW n \in DOMAIN scores[e]
        PROVE  Shown(e, n, scores[e][n])'
    <3>1. /\ scores[e][n] \in Predictions /\ KeysOf[e][n] \in Keys
          /\ Shown(e, n, scores[e][n])
      BY <1>1 DEF ScoresOK
    <3> QED BY <3>1, FilesAssumption DEF Shown, EntriesStay, UsesCache
  <2> QED BY <2>1
<1> QED BY <1>2 DEF ScoresOK

(* A slot that moves on and keeps its memory and its results.              *)
LEMMA MovedFiles ==
  ASSUME BaseInv, NEW s, SlotFiles(s), NEW r, GoesOn(s, r),
         r.memory = slot[s].memory, r.results = slot[s].results,
         entry' = entry,
         r.pc = "replace" => temp'[Key(s)] = r.current,
         r.pc \notin {"lookup", "scores"} /\ UsesCache(Evaluation(s))
           => entry[Key(s)] = Absent
  PROVE  SlotFiles(s)'
<1>1. /\ s \in Working /\ s \in Slots /\ slot'[s] = r /\ (s \in Working)'
      /\ Evaluation(s)' = Evaluation(s)
  BY GoesOnKeeps DEF GoesOn, Working
<1>2. Key(s)' = Key(s)
  BY <1>1 DEF Key
<1>3. At(s, "replace")' => temp'[Key(s)'] = slot'[s].current
  BY <1>1, <1>2 DEF At
<1>4. (s \in Running)' /\ UsesCache(Evaluation(s)') => entry'[Key(s)'] = Absent
  BY <1>1, <1>2 DEF Running
<1>5. \A n \in DOMAIN slot[s].results :
        Shown(Evaluation(s), n, slot[s].results[n])'
  BY <1>1 DEF SlotFiles, Shown, UsesCache
<1>6. \A k \in Keys : slot'[s].memory[k] # Absent
                        => slot'[s].memory[k] = entry'[k]
  BY <1>1 DEF SlotFiles
<1> QED BY <1>1, <1>3, <1>4, <1>5, <1>6 DEF SlotFiles, UsesCache

(* A slot that takes a prediction.                                         *)
LEMMA TakenFiles ==
  ASSUME BaseInv, NEW s, s \in Working, Left(s), SlotFiles(s),
         NEW p \in Predictions, NEW memory,
         GoesOn(s, Taken(s, p, memory)), EntriesStay,
         \A k \in Keys : memory[k] # Absent => memory[k] = entry'[k],
         UsesCache(Evaluation(s)) => p = entry'[Key(s)],
         ~UsesCache(Evaluation(s)) => p.under = Intervention[Evaluation(s)]
  PROVE  SlotFiles(s)'
<1> DEFINE e == Evaluation(s)
           r == slot[s].results
           n == Len(r)
<1>1. /\ s \in Slots /\ slot'[s] = Taken(s, p, memory)
      /\ Evaluation(s)' = e
  BY GoesOnKeeps
<1>2. slot[s] \in SlotRecords
  BY <1>1 DEF BaseInv, TypeOK
<1>3. /\ slot'[s].pc = "lookup" /\ slot'[s].memory = memory
      /\ slot'[s].results = Append(r, p)
  BY <1>1, <1>2 DEF Taken, SlotRecords
<1>4. /\ r \in Seq(Predictions) /\ DOMAIN r \subseteq DOMAIN KeysOf[e]
      /\ e \in Evaluations
  BY ResultPositions
<1>5. n \in Nat /\ DOMAIN r = 1 .. n
  BY <1>4
<1>6. \A m \in DOMAIN r : IF UsesCache(e) THEN r[m] = entry'[KeysOf[e][m]]
                                          ELSE r[m].under = Intervention[e]
  <2>1. ASSUME NEW m \in DOMAIN r
        PROVE  IF UsesCache(e) THEN r[m] = entry'[KeysOf[e][m]]
                               ELSE r[m].under = Intervention[e]
    <3>1. Shown(e, m, r[m]) /\ r[m] \in Predictions /\ KeysOf[e][m] \in Keys
      BY <1>4, EvaluationsAssumption DEF SlotFiles
    <3> QED BY <3>1, FilesAssumption DEF Shown, EntriesStay
  <2> QED BY <2>1
<1>7. IF UsesCache(e) THEN p = entry'[KeysOf[e][n + 1]]
                      ELSE p.under = Intervention[e]
  BY DEF Key
<1>8. \A m \in DOMAIN Append(r, p) :
        IF UsesCache(e) THEN Append(r, p)[m] = entry'[KeysOf[e][m]]
                        ELSE Append(r, p)[m].under = Intervention[e]
  <2>1. /\ DOMAIN Append(r, p) = 1 .. (n + 1)
        /\ Append(r, p)[n + 1] = p
        /\ \A m \in 1 .. n : Append(r, p)[m] = r[m]
    BY <1>4
  <2> HIDE DEF e, r, n
  <2> QED BY <1>5, <1>6, <1>7, <2>1
<1>9. \A m \in DOMAIN slot'[s].results :
        Shown(Evaluation(s), m, slot[s].results[m])'
  <2> HIDE DEF e
  <2> QED BY <1>1, <1>3, <1>8 DEF Shown, UsesCache
<1>10. ~At(s, "replace")' /\ ~(s \in Running)'
  BY <1>3 DEF At, Running
<1> QED BY <1>3, <1>9, <1>10 DEF SlotFiles

(* A step of one slot.                                                     *)
LEMMA OneSlotFiles ==
  ASSUME BaseInv, FilesInv, NEW s \in Slots,
         \A t \in Slots : t # s => slot'[t] = slot[t], batch' = batch,
         EntriesStay, EntriesInv',
         \A t \in Running : t # s => /\ entry'[Key(t)] = entry[Key(t)]
                                     /\ temp'[Key(t)] = temp[Key(t)],
         SlotFiles(s)',
         \A e \in Reported' : scores'[e] = scores[e] \/ ScoresOK(e)'
  PROVE  FilesInv'
<1>1. \A t \in Slots : t # s => SlotFiles(t)'
  BY SlotFilesStay DEF FilesInv
<1>2. ASSUME NEW e \in Reported' PROVE ScoresOK(e)'
  <2>1. CASE scores'[e] = scores[e]
    <3>1. e \in Reported /\ e \in Evaluations
      BY <2>1 DEF Reported
    <3>2. scores[e] \in Seq(Predictions)
      BY <3>1 DEF Reported, BaseInv, TypeOK
    <3>3. ScoresOK(e)
      BY <3>1 DEF FilesInv
    <3> QED BY <2>1, <3>1, <3>2, <3>3, ScoresStay
  <2> QED BY <1>2, <2>1
<1> QED BY <1>1, <1>2 DEF FilesInv

(* The key of another running slot is another one.                         *)
LEMMA OtherKey ==
  ASSUME BaseInv, NEW s \in Running, NEW t \in Running, s # t
  PROVE  Key(s) # Key(t)
<1>1. /\ s \in Working /\ Key(s) \in KeySet(Evaluation(s))
      /\ t \in Working /\ Key(t) \in KeySet(Evaluation(t))
  BY RunningKey
<1> QED BY <1>1, OwnKeys DEF BaseInv

(* A step of a slot keeps the files what they should be.                   *)
LEMMA FilesSlotStep ==
  ASSUME BaseInv, FilesInv, NEW s \in Slots, SlotStep(s)
  PROVE  FilesInv'
<1>1. /\ SlotFiles(s) /\ EntriesInv
      /\ slot[s] \in SlotRecords
      /\ entry \in [Keys -> Whole \cup {Torn}]
      /\ temp \in [Keys -> Whole \cup {Torn}]
  BY DEF FilesInv, BaseInv, TypeOK
<1>2. ASSUME NEW r, GoesOn(s, r)
      PROVE  /\ s \in Working /\ batch' = batch
             /\ \A t \in Slots : t # s => slot'[t] = slot[t]
  BY <1>2, GoesOnKeeps DEF GoesOn
<1>3. ASSUME NEW r, GoesOn(s, r), SlotFiles(s)', UNCHANGED files,
             \A e \in Reported' : scores'[e] = scores[e]
      PROVE  FilesInv'
  BY <1>1, <1>2, <1>3, OneSlotFiles DEF files, EntriesStay, EntriesInv
<1>4. CASE Start(s)
  <2>1. /\ slot'[s] = Fresh(s) /\ batch' = batch
        /\ \A t \in Slots : t # s => slot'[t] = slot[t]
    BY <1>4, StartKeeps
  <2>2. /\ slot'[s].pc = "lookup" /\ slot'[s].results = <<>>
        /\ slot'[s].memory = FirstMemory(s)
    BY <2>1 DEF Fresh, Idle
  <2>3. UNCHANGED <<entry, temp, scores>>
    BY <1>4 DEF Start, files
  <2>4. \A k \in Keys : FirstMemory(s)[k] # Absent => FirstMemory(s)[k] = entry[k]
    BY <1>1 DEF FirstMemory, EmptyMemory, SlotFiles
  <2>5. SlotFiles(s)'
    BY <2>2, <2>3, <2>4 DEF SlotFiles, At, Running
  <2> QED BY <1>1, <2>1, <2>3, <2>5, OneSlotFiles DEF EntriesStay, EntriesInv
<1>5. CASE Hit(s)
  <2> DEFINE memory == [slot[s].memory EXCEPT ![Key(s)] = Cached(s)]
  <2>1. GoesOn(s, Taken(s, Cached(s), memory)) /\ s \in Working
    BY <1>2, <1>5, HitMoves
  <2>2. /\ UNCHANGED <<entry, temp, scores>> /\ Left(s)
        /\ Cached(s) \in Predictions
    BY <1>5 DEF Hit, files
  <2>3. UsesCache(Evaluation(s)) /\ Cached(s) # Absent
    BY <2>2, FilesAssumption DEF Cached
  <2>4. Key(s) \in Keys
    <3>1. slot[s].results \in Seq(Predictions) /\ KeysOf[Evaluation(s)] \in Seq(Keys)
      BY <1>1, <2>1, WorkingJob DEF SlotRecords, BaseInv
    <3> QED BY <2>2, <3>1 DEF Key, Left
  <2>5. Cached(s) = entry[Key(s)]
    BY <1>1, <2>3, <2>4 DEF Cached, SlotFiles
  <2>6. \A k \in Keys : memory[k] # Absent => memory[k] = entry'[k]
    BY <1>1, <2>2, <2>5 DEF SlotFiles, SlotRecords
  <2> HIDE DEF memory
  <2>7. SlotFiles(s)'
    BY <1>1, <2>1, <2>2, <2>3, <2>5, <2>6, TakenFiles DEF EntriesStay
  <2> QED BY <1>3, <2>1, <2>2, <2>7 DEF files
<1>6. CASE Miss(s)
  <2> DEFINE r == [slot[s] EXCEPT !.pc = "call", !.module = 1]
  <2>1. GoesOn(s, r) /\ UNCHANGED <<entry, temp, scores>>
    BY <1>6, MissMoves DEF Miss, files
  <2>2. /\ r.pc = "call" /\ r.memory = slot[s].memory
        /\ r.results = slot[s].results
    BY <1>1 DEF SlotRecords
  <2>3. UsesCache(Evaluation(s)) => entry[Key(s)] = Absent
    BY <1>6 DEF Miss, Cached
  <2> HIDE DEF r
  <2>4. SlotFiles(s)'
    BY <1>1, <2>1, <2>2, <2>3, MovedFiles
  <2> QED BY <1>3, <2>1, <2>4 DEF files
<1>7. ASSUME s \in Running, NEW label \in {"log", "bill", "write"},
             GoesOn(s, WithPc(s, label)), entry' = entry
      PROVE  SlotFiles(s)'
  <2> DEFINE r == WithPc(s, label)
  <2>1. /\ r.pc = label /\ r.memory = slot[s].memory
        /\ r.results = slot[s].results
    BY <1>1 DEF SlotRecords, WithPc
  <2>2. UsesCache(Evaluation(s)) => entry[Key(s)] = Absent
    BY <1>1, <1>7 DEF SlotFiles
  <2> HIDE DEF r
  <2> QED BY <1>1, <1>7, <2>1, <2>2, MovedFiles DEF r
<1>8. CASE CallModule(s)
  <2>1. s \in Running /\ UNCHANGED <<entry, temp, scores>>
    BY <1>8 DEF CallModule, files, Running, At
  <2>2. GoesOn(s, WithPc(s, "log"))
    BY <1>8, <2>1, LabelMoves DEF CallModule
  <2> QED BY <1>3, <1>7, <2>1, <2>2 DEF files
<1>9. CASE WriteLog(s)
  <2>1. s \in Running /\ UNCHANGED <<entry, temp, scores>>
    BY <1>9 DEF WriteLog, files, Running, At
  <2>2. GoesOn(s, WithPc(s, "bill"))
    BY <1>9, <2>1, LabelMoves DEF WriteLog
  <2> QED BY <1>3, <1>7, <2>1, <2>2 DEF files
<1>10. CASE WriteLedger(s)
  <2>1. s \in Running /\ UNCHANGED <<entry, temp, scores>>
    BY <1>10 DEF WriteLedger, files, Running, At
  <2>2. PICK r : /\ GoesOn(s, r)
                 /\ NextCall(s, r) \/ ToStore(s, r) \/ ToTake(s, r)
    BY <1>10, LedgerMoves
  <2>3. UsesCache(Evaluation(s)) => entry[Key(s)] = Absent
    BY <1>1, <2>1 DEF SlotFiles
  <2>4. CASE NextCall(s, r) \/ ToStore(s, r)
    <3>1. /\ r.pc \in {"call", "set"} /\ r.memory = slot[s].memory
          /\ r.results = slot[s].results
      BY <1>1, <2>4 DEF NextCall, ToStore, SlotRecords
    <3>2. SlotFiles(s)'
      BY <1>1, <2>1, <2>2, <2>3, <3>1, MovedFiles
    <3> QED BY <1>3, <2>1, <2>2, <3>2 DEF files
  <2>5. CASE ToTake(s, r)
    <3>1. PICK p \in Predictions : /\ p.under = Intervention[Evaluation(s)]
                                   /\ r = Taken(s, p, slot[s].memory)
      BY <2>5 DEF ToTake
    <3>2. ~UsesCache(Evaluation(s)) /\ s \in Working /\ Left(s)
      BY <2>1, <2>5, RunningKey DEF ToTake, BaseInv, LocalInv, LocalOK
    <3>3. \A k \in Keys : slot[s].memory[k] # Absent
                            => slot[s].memory[k] = entry'[k]
      BY <1>1, <2>1 DEF SlotFiles
    <3>4. SlotFiles(s)'
      BY <1>1, <2>1, <2>2, <3>1, <3>2, <3>3, TakenFiles DEF EntriesStay
    <3> QED BY <1>3, <2>1, <2>2, <3>4 DEF files
  <2> QED BY <2>2, <2>4, <2>5
<1>11. ASSUME At(s, "set") \/ At(s, "write"),
              NEW r, GoesOn(s, r), SlotFiles(s)', UNCHANGED <<entry, scores>>,
              NEW v, temp' = [temp EXCEPT ![Key(s)] = v]
       PROVE  FilesInv'
  <2>1. s \in Running
    BY <1>11 DEF Running, At
  <2>2. \A t \in Running : t # s => temp'[Key(t)] = temp[Key(t)]
    BY <1>1, <1>11, <2>1, OtherKey, RunningKey
  <2> QED BY <1>1, <1>2, <1>11, <2>2, OneSlotFiles DEF EntriesStay, EntriesInv
<1>12. CASE OpenTemp(s)
  <2>1. GoesOn(s, WithPc(s, "write")) /\ UNCHANGED <<entry, scores>>
    BY <1>12, StoringMoves DEF OpenTemp, At, Storing
  <2>2. s \in Running
    BY <1>12 DEF OpenTemp, At, Running
  <2>3. SlotFiles(s)'
    BY <1>7, <2>1, <2>2
  <2> QED BY <1>11, <1>12, <2>1, <2>3 DEF OpenTemp
<1>13. CASE WriteTemp(s)
  <2> DEFINE r == WithPc(s, "replace")
  <2>1. GoesOn(s, r) /\ UNCHANGED <<entry, scores>> /\ At(s, "write")
    BY <1>13, StoringMoves DEF WriteTemp, At, Storing
  <2>2. s \in Running
    BY <2>1 DEF At, Running
  <2>3. /\ r.pc = "replace" /\ r.memory = slot[s].memory
        /\ r.results = slot[s].results /\ r.current = slot[s].current
    BY <1>1 DEF SlotRecords, WithPc
  <2>4. temp'[Key(s)] = r.current
    BY <1>1, <1>13, <2>2, <2>3, RunningKey DEF WriteTemp
  <2>5. UsesCache(Evaluation(s)) => entry[Key(s)] = Absent
    BY <1>1, <2>2 DEF SlotFiles
  <2> HIDE DEF r
  <2>6. SlotFiles(s)'
    BY <1>1, <2>1, <2>3, <2>4, <2>5, MovedFiles
  <2> QED BY <1>11, <1>13, <2>1, <2>6 DEF WriteTemp
<1>14. CASE Replace(s)
  <2> DEFINE p == slot[s].current
  <2>1. /\ GoesOn(s, Taken(s, p, Remembered(s)))
        /\ p \in Predictions /\ p.under = None /\ UsesCache(Evaluation(s))
    BY <1>14, ReplaceMoves
  <2>2. At(s, "replace") /\ s \in Running /\ scores' = scores
    BY <1>14 DEF Replace, At, Running
  <2>3. s \in Working /\ Left(s) /\ Key(s) \in Keys
    BY <2>2, RunningKey DEF BaseInv, LocalInv, LocalOK
  <2>4. temp[Key(s)] = p /\ entry[Key(s)] = Absent
    BY <1>1, <2>1, <2>2 DEF SlotFiles
  <2>5. entry' = [entry EXCEPT ![Key(s)] = p]
    BY <1>14, <2>4 DEF Replace
  <2>6. temp' = [temp EXCEPT ![Key(s)] = Absent]
    BY <1>14 DEF Replace
  <2>7. Remembered(s) = [slot[s].memory EXCEPT ![Key(s)] = p]
    BY DEF Remembered
  <2> HIDE DEF p
  <2>8. EntriesStay
    BY <1>1, <2>4, <2>5 DEF EntriesStay
  <2>9. EntriesInv'
    BY <1>1, <2>1, <2>5 DEF EntriesInv
  <2>10. \A t \in Running : t # s => /\ entry'[Key(t)] = entry[Key(t)]
                                     /\ temp'[Key(t)] = temp[Key(t)]
    BY <1>1, <2>2, <2>5, <2>6, OtherKey, RunningKey
  <2>11. \A k \in Keys : Remembered(s)[k] # Absent
                           => Remembered(s)[k] = entry'[k]
    BY <1>1, <2>3, <2>4, <2>5, <2>7 DEF SlotFiles, SlotRecords
  <2>12. p = entry'[Key(s)]
    BY <1>1, <2>3, <2>5
  <2>13. SlotFiles(s)'
    BY <1>1, <2>1, <2>3, <2>8, <2>11, <2>12, TakenFiles
  <2> QED BY <1>2, <2>1, <2>2, <2>8, <2>9, <2>10, <2>13, OneSlotFiles
<1>15. CASE OpenScores(s)
  <2> DEFINE r == WithPc(s, "scores")
  <2>1. GoesOn(s, r) /\ UNCHANGED <<entry, temp>>
    BY <1>15, OpenScoresMoves DEF OpenScores, files
  <2>2. /\ r.pc = "scores" /\ r.memory = slot[s].memory
        /\ r.results = slot[s].results
    BY <1>1 DEF SlotRecords, WithPc
  <2>3. \A e \in Reported' : scores'[e] = scores[e]
    BY <1>15 DEF OpenScores, Reported, BaseInv, TypeOK
  <2> HIDE DEF r
  <2>4. SlotFiles(s)'
    BY <1>1, <2>1, <2>2, MovedFiles
  <2> QED BY <1>3, <2>1, <2>3, <2>4 DEF files
<1>16. CASE WriteScores(s)
  <2> DEFINE e == Evaluation(s)
             r == slot[s].results
  <2>1. /\ Stops(s, [Idle EXCEPT !.memory = slot[s].memory])
        /\ slot[s].memory \in [Keys -> Whole] /\ ~Left(s) /\ s \in Working
    BY <1>16, WriteScoresMoves DEF Stops
  <2>2. /\ batch' = batch /\ \A t \in Slots : t # s => slot'[t] = slot[t]
        /\ slot'[s] = [Idle EXCEPT !.memory = slot[s].memory]
    BY <2>1, StopsKeeps
  <2>3. slot'[s].pc = "idle" /\ slot'[s].memory = slot[s].memory
    BY <2>1, <2>2, IdleMemoryType
  <2>4. UNCHANGED <<entry, temp>>
    BY <1>16 DEF WriteScores, files
  <2>5. SlotFiles(s)'
    BY <1>1, <2>3, <2>4 DEF SlotFiles, At, Running, Working
  <2>6. /\ e \in Evaluations /\ r \in Seq(Predictions)
        /\ KeysOf[e] \in Seq(Keys) /\ Len(r) = Len(KeysOf[e])
    BY <2>1, ResultPositions, WorkingJob DEF BaseInv, LocalInv, LocalOK, Left
  <2>7. \A n \in DOMAIN r : Shown(e, n, r[n])
    BY <1>1, <2>1 DEF SlotFiles
  <2>8. scores' = [scores EXCEPT ![e] = r]
    BY <1>16 DEF WriteScores
  <2> HIDE DEF e, r
  <2>9. scores'[e] = r /\ \A d \in Evaluations : d # e => scores'[d] = scores[d]
    BY <2>6, <2>8 DEF BaseInv, TypeOK
  <2>10. \A d \in Reported' : scores'[d] = scores[d] \/ ScoresOK(d)'
    BY <2>4, <2>6, <2>7, <2>9 DEF ScoresOK, Shown, UsesCache, Reported
  <2> QED BY <1>1, <2>2, <2>4, <2>5, <2>10, OneSlotFiles DEF EntriesStay, EntriesInv
<1> QED BY <1>4, <1>5, <1>6, <1>8, <1>9, <1>10, <1>12, <1>13, <1>14, <1>15, <1>16
        DEF SlotStep

(* Steps that leave the files, the score files and the slots alone.        *)
LEMMA FilesFrame ==
  ASSUME BaseInv, FilesInv, UNCHANGED <<entry, temp, scores, slot, batch>>
  PROVE  FilesInv'
<1>1. EntriesStay /\ EntriesInv'
  BY DEF EntriesStay, FilesInv, EntriesInv
<1>2. \A t \in Slots : SlotFiles(t)'
  BY <1>1, SlotFilesStay DEF FilesInv
<1>3. ASSUME NEW e \in Reported' PROVE ScoresOK(e)'
  <2>1. e \in Reported /\ e \in Evaluations /\ scores[e] \in Seq(Predictions)
    BY DEF Reported, BaseInv, TypeOK
  <2> QED BY <1>1, <2>1, ScoresStay DEF FilesInv
<1> QED BY <1>1, <1>2, <1>3 DEF FilesInv

(* Steps after which no slot works, and slots keep their memory or lose it.*)
LEMMA FilesAtRest ==
  ASSUME BaseInv, FilesInv, UNCHANGED <<entry, temp, scores>>, Working' = {},
         \A t \in Slots : \/ slot'[t] = Idle
                          \/ slot'[t].memory = slot[t].memory
  PROVE  FilesInv'
<1>1. EntriesStay /\ EntriesInv'
  BY DEF EntriesStay, FilesInv, EntriesInv
<1>2. ASSUME NEW t \in Slots PROVE SlotFiles(t)'
  <2>1. slot'[t].pc = "idle"
    BY DEF Working
  <2>2. SlotFiles(t)
    BY DEF FilesInv
  <2>3. \A k \in Keys : slot'[t].memory[k] # Absent
                          => slot'[t].memory[k] = entry'[k]
    BY <2>2 DEF SlotFiles, Idle, EmptyMemory
  <2> QED BY <2>1, <2>3 DEF SlotFiles, At, Running, Working
<1>3. ASSUME NEW e \in Reported' PROVE ScoresOK(e)'
  <2>1. e \in Reported /\ e \in Evaluations /\ scores[e] \in Seq(Predictions)
    BY DEF Reported, BaseInv, TypeOK
  <2> QED BY <1>1, <2>1, ScoresStay DEF FilesInv
<1> QED BY <1>1, <1>2, <1>3 DEF FilesInv

(* There is no file in the beginning.                                      *)
LEMMA FilesInit == Init => FilesInv
<1> SUFFICES ASSUME Init PROVE FilesInv
  OBVIOUS
<1>1. \A k \in Keys : entry[k] = Absent
  BY DEF Init
<1>2. \A s \in Slots : slot[s] = Idle
  BY DEF Init
<1>3. \A s \in Slots : SlotFiles(s)
  BY <1>2 DEF SlotFiles, Idle, EmptyMemory, At, Running, Working
<1>4. Reported = {}
  BY DEF Init, Reported
<1> QED BY <1>1, <1>3, <1>4 DEF FilesInv, EntriesInv

(* Every step keeps the files what they should be.                         *)
LEMMA FilesStep == BaseInv /\ FilesInv /\ [Next]_vars => FilesInv'
<1> SUFFICES ASSUME BaseInv, FilesInv, [Next]_vars PROVE FilesInv'
  OBVIOUS
<1>1. CASE UNCHANGED vars
  BY <1>1, FilesFrame DEF vars
<1>2. ASSUME NEW s \in Slots, RunnerRaises(s) PROVE FilesInv'
  <2>1. /\ batch' = batch /\ slot'[s] = Idle
        /\ \A t \in Slots : t # s => slot'[t] = slot[t]
    BY <1>2, RunnerRaisesMoves, StopsKeeps
  <2>2. UNCHANGED <<entry, temp, scores>>
    BY <1>2 DEF RunnerRaises, files
  <2>3. SlotFiles(s)'
    BY <2>1 DEF SlotFiles, Idle, EmptyMemory, At, Running, Working
  <2> QED BY <2>1, <2>2, <2>3, OneSlotFiles
          DEF EntriesStay, EntriesInv, FilesInv
<1>3. CASE Surface
  BY <1>3, FilesFrame DEF Surface, files
<1>4. CASE Restart
  BY <1>4, FilesFrame DEF Restart, files
<1>5. CASE NextBatch
  BY <1>5, NextBatchKeeps, FilesAtRest DEF NextBatch, files
<1>6. ASSUME GoDown, faults' \in Nat, lost' \in Nat PROVE FilesInv'
  BY <1>6, DownKeeps, FilesAtRest DEF GoDown, files
<1>7. CASE Shutdown
  BY <1>6, <1>7 DEF Shutdown, history, BaseInv, TypeOK
<1>8. CASE Interrupt
  BY <1>6, <1>8, RunningFinite DEF Interrupt, BaseInv, TypeOK
<1> QED BY <1>1, <1>2, <1>3, <1>4, <1>5, <1>7, <1>8, FilesSlotStep
        DEF Next, Step, Over

(* In every state of every run, with interruptions and exceptions          *)
(* anywhere: types, jobs and places are as BaseInv says, and every cache   *)
(* file, memory, result and score file is as FilesInv says                 *)
(* (evaluate_program, RolloutCache).                                       *)
THEOREM FilesAlways == Spec => [](BaseInv /\ FilesInv)
<1>1. Init => BaseInv /\ FilesInv
  BY BaseInit, FilesInit
<1>2. BaseInv /\ FilesInv /\ [Next]_vars => (BaseInv /\ FilesInv)'
  BY BaseStep, FilesStep
<1> QED BY <1>1, <1>2, PTL DEF Spec

(* Wherever the process is interrupted, no cache file is torn:             *)
(* RolloutCache.set renames only what one writer of the key has written    *)
(* whole.                                                                  *)
THEOREM NoTornEntryAlways == Spec => []NoTornEntry
<1>1. BaseInv /\ FilesInv => NoTornEntry
  BY FilesAssumption, EvaluationsAssumption DEF FilesInv, EntriesInv, NoTornEntry
<1> QED BY <1>1, FilesAlways, PTL

(* Any two score files of any processes show the same prediction for a key *)
(* they share, unless one is an ablation, and none shows a prediction that *)
(* was made under another intervention than its own.                       *)
THEOREM ReportsAgreeAlways == Spec => []ReportsAgree
<1>1. ASSUME BaseInv, FilesInv PROVE ReportsAgree
  <2>1. ASSUME NEW e \in Reported
        PROVE  /\ e \in Evaluations /\ scores[e] \in Seq(Predictions)
               /\ KeysOf[e] \in Seq(Keys)
               /\ DOMAIN scores[e] = DOMAIN KeysOf[e]
               /\ \A n \in DOMAIN scores[e] : Shown(e, n, scores[e][n])
    <3>1. e \in Evaluations /\ scores[e] \in Seq(Predictions) /\ ScoresOK(e)
      BY <1>1 DEF Reported, BaseInv, TypeOK, FilesInv
    <3> QED BY <3>1, EvaluationsAssumption DEF ScoresOK
  <2>2. ASSUME NEW d \in Reported, NEW e \in Reported,
               UsesCache(d), UsesCache(e),
               NEW m \in DOMAIN KeysOf[d], NEW n \in DOMAIN KeysOf[e],
               KeysOf[d][m] = KeysOf[e][n]
        PROVE  scores[d][m] = scores[e][n]
    BY <2>1, <2>2 DEF Shown
  <2>3. ASSUME NEW e \in Reported, NEW n \in DOMAIN scores[e]
        PROVE  scores[e][n].under = Intervention[e]
    <3>1. Shown(e, n, scores[e][n]) /\ scores[e][n] \in Predictions
          /\ KeysOf[e][n] \in Keys
      BY <2>1
    <3>2. CASE UsesCache(e)
      <4>1. entry[KeysOf[e][n]] = scores[e][n]
        BY <3>1, <3>2 DEF Shown
      <4> QED BY <1>1, <3>1, <3>2, <4>1, FilesAssumption
              DEF FilesInv, EntriesInv, UsesCache
    <3>3. CASE ~UsesCache(e)
      BY <3>1, <3>3 DEF Shown
    <3> QED BY <3>2, <3>3
  <2> QED BY <2>2, <2>3 DEF ReportsAgree
<1> QED BY <1>1, FilesAlways, PTL

-----------------------------------------------------------------------------
(* Sums *)

(* An element of a set.                                                    *)
Some(A) == CHOOSE x \in A : TRUE

(* g sums f over every subset of D.                                        *)
IsSum(g, f, D) ==
  /\ g \in [SUBSET D -> Nat]
  /\ \A A \in SUBSET D :
       g[A] = IF A = {} THEN 0 ELSE f[Some(A)] + g[A \ {Some(A)}]

(* The sum of f over D.                                                    *)
Sum(f, D) == (CHOOSE g : IsSum(g, f, D))[D]

(* Over a finite set a sum exists.                                         *)
LEMMA SumExists ==
  ASSUME NEW D, IsFiniteSet(D), NEW f \in [D -> Nat]
  PROVE  \E g : IsSum(g, f, D)
<1> DEFINE pick == [A \in SUBSET D |-> Some(A)]
           step == [p \in (SUBSET D) \X Nat |->
                      IF p[1] = {} THEN 0 ELSE f[Some(p[1])] + p[2]]
<1>1. \A A \in SUBSET D : A # {} => Some(A) \in A /\ pick[A] = Some(A)
  BY DEF Some
<1>2. Picks(pick, D)
  BY <1>1 DEF Picks
<1>3. StepsIn(step, D, Nat)
  <2>1. \A A \in SUBSET D, n \in Nat : A # {} => f[Some(A)] + n \in Nat
    <3>1. \A A \in SUBSET D : A # {} => f[Some(A)] \in Nat
      BY <1>1
    <3> QED BY <3>1
  <2> QED BY <2>1 DEF StepsIn
<1>4. \A A \in SUBSET D, n \in Nat : A # {} => step[<<A, n>>] = f[Some(A)] + n
  OBVIOUS
<1> HIDE DEF step, pick
<1>5. PICK g : IsFold(g, D, Nat, 0, pick, step)
  BY <1>2, <1>3, FoldExists
<1>6. /\ g \in [SUBSET D -> Nat]
      /\ \A A \in SUBSET D :
           g[A] = IF A = {} THEN 0 ELSE step[<<A, g[A \ {pick[A]}]>>]
  BY <1>5 DEF IsFold
<1>7. ASSUME NEW A \in SUBSET D, A # {}
      PROVE  g[A] = f[Some(A)] + g[A \ {Some(A)}]
  <2>1. pick[A] = Some(A) /\ A \ {Some(A)} \in SUBSET D
    BY <1>1, <1>7
  <2>2. g[A \ {Some(A)}] \in Nat
    BY <1>6, <2>1
  <2>3. g[A] = step[<<A, g[A \ {Some(A)}]>>]
    BY <1>6, <1>7, <2>1
  <2> QED BY <1>4, <1>7, <2>2, <2>3
<1> QED BY <1>6, <1>7 DEF IsSum

(* The sum is what IsSum says, and a natural number.                       *)
LEMMA SumIs ==
  ASSUME NEW D, IsFiniteSet(D), NEW f \in [D -> Nat]
  PROVE  /\ IsSum(CHOOSE g : IsSum(g, f, D), f, D)
         /\ Sum(f, D) \in Nat
<1>1. IsSum(CHOOSE g : IsSum(g, f, D), f, D)
  BY SumExists
<1> QED BY <1>1 DEF Sum, IsSum

(* A set that is not empty has an element.                                 *)
LEMMA SomeOf == \A A : A # {} => Some(A) \in A
BY DEF Some

(* Two functions that differ in one place at most: so do their sums.       *)
LEMMA SumsDiffer ==
  ASSUME NEW D, IsFiniteSet(D), NEW f \in [D -> Nat], NEW h \in [D -> Nat],
         NEW F, NEW H, IsSum(F, f, D), IsSum(H, h, D),
         NEW x \in D, \A y \in D : y # x => h[y] = f[y]
  PROVE  H[D] = F[D] + h[x] - f[x]
<1> DEFINE pick == [A \in SUBSET D |-> Some(A)]
           Fits(A) == H[A] = F[A] + IF x \in A THEN h[x] - f[x] ELSE 0
           P == {A \in SUBSET D : Fits(A)}
<1>1. Picks(pick, D)
  BY SomeOf DEF Picks
<1>2. {} \in P
  <2>1. {} \in SUBSET D
    OBVIOUS
  <2>2. F[{}] = 0 /\ H[{}] = 0
    BY <2>1, Zenon DEF IsSum
  <2> QED BY <2>2
<1>3. ASSUME NEW A \in SUBSET D, A # {}, A \ {pick[A]} \in P
      PROVE  A \in P
  <2>1. PICK y \in A : y = Some(A) /\ y = pick[A]
    BY <1>3, SomeOf
  <2>2. /\ F[A] = f[y] + F[A \ {y}] /\ H[A] = h[y] + H[A \ {y}]
        /\ F[A \ {y}] \in Nat /\ H[A \ {y}] \in Nat
    BY <1>3, <2>1 DEF IsSum
  <2>3. Fits(A \ {y})
    BY <1>3, <2>1
  <2>4. f[y] \in Nat /\ h[y] \in Nat /\ f[x] \in Nat /\ h[x] \in Nat
    OBVIOUS
  <2>5. CASE y = x
    BY <2>2, <2>3, <2>4, <2>5
  <2>6. CASE y # x
    BY <2>2, <2>3, <2>4, <2>6
  <2> QED BY <2>5, <2>6
<1>4. Inductive(P, pick, D)
  BY <1>2, <1>3 DEF Inductive
<1>5. D \in P
  <2> HIDE DEF P, pick
  <2>1. SUBSET D \subseteq P
    BY <1>1, <1>4, SetInduction
  <2> QED BY <2>1
<1> QED BY <1>5 DEF IsSum

(* There is one sum only.                                                  *)
LEMMA SumsEqual ==
  ASSUME NEW D, IsFiniteSet(D), NEW f \in [D -> Nat],
         NEW F, NEW H, IsSum(F, f, D), IsSum(H, f, D)
  PROVE  H[D] = F[D]
<1>1. CASE D = {}
  BY <1>1 DEF IsSum
<1>2. CASE D # {}
  <2>1. PICK x \in D : TRUE
    BY <1>2
  <2>2. H[D] = F[D] + f[x] - f[x]
    BY <2>1, SumsDiffer
  <2> QED BY <2>2 DEF IsSum
<1> QED BY <1>1, <1>2

(* Where f changes in one place at most, its sum changes by as much.       *)
LEMMA SumChange ==
  ASSUME NEW D, IsFiniteSet(D), NEW f \in [D -> Nat], NEW h \in [D -> Nat],
         NEW x \in D, \A y \in D : y # x => h[y] = f[y]
  PROVE  Sum(h, D) = Sum(f, D) + h[x] - f[x]
<1> DEFINE F == CHOOSE g : IsSum(g, f, D)
           H == CHOOSE g : IsSum(g, h, D)
<1>1. IsSum(F, f, D) /\ IsSum(H, h, D)
  BY SumIs
<1> HIDE DEF F, H
<1>2. H[D] = F[D] + h[x] - f[x]
  BY <1>1, SumsDiffer
<1> QED BY <1>2 DEF Sum, F, H

(* A sum is at most its greatest value for each place that has one.        *)
LEMMA SumBound ==
  ASSUME NEW D, IsFiniteSet(D), NEW f \in [D -> Nat], NEW M \in Nat,
         NEW B \in SUBSET D, \A x \in D : f[x] <= IF x \in B THEN M ELSE 0
  PROVE  Sum(f, D) <= M * Cardinality(B)
<1> DEFINE F == CHOOSE g : IsSum(g, f, D)
           pick == [A \in SUBSET D |-> Some(A)]
           Fits(A) == F[A] <= M * Cardinality(A \cap B)
           P == {A \in SUBSET D : Fits(A)}
<1>1. IsSum(F, f, D)
  BY SumIs
<1> HIDE DEF F
<1>2. Picks(pick, D)
  BY SomeOf DEF Picks
<1>3. {} \in P
  <2>1. {} \cap B = {} /\ Cardinality({}) = 0
    BY CardinalityZero
  <2>2. F[{}] = 0
    <3>1. {} \in SUBSET D
      OBVIOUS
    <3> QED BY <1>1, <3>1, Zenon DEF IsSum
  <2>3. M * 0 = 0
    OBVIOUS
  <2> QED BY <2>1, <2>2, <2>3
<1>4. ASSUME NEW A \in SUBSET D, A # {}, A \ {pick[A]} \in P
      PROVE  A \in P
  <2>1. PICK y \in A : y = Some(A) /\ y = pick[A]
    BY <1>4, SomeOf
  <2>2. /\ F[A] = f[y] + F[A \ {y}]
        /\ F[A \ {y}] \in Nat /\ f[y] \in Nat
    BY <1>1, <2>1 DEF IsSum
  <2>3. Fits(A \ {y})
    BY <1>4, <2>1
  <2>4. IsFiniteSet(A \cap B) /\ Cardinality(A \cap B) \in Nat
    BY FS_Subset, FS_CardinalityType
  <2>5. CASE y \in B
    <3>1. (A \ {y}) \cap B = (A \cap B) \ {y} /\ y \in A \cap B
      BY <2>5
    <3>2. Cardinality((A \ {y}) \cap B) = Cardinality(A \cap B) - 1
      <4> DEFINE AB == A \cap B
      <4>1. IsFiniteSet(AB) /\ y \in AB
        BY <2>4, <3>1
      <4> HIDE DEF AB
      <4>2. Cardinality(AB \ {y}) = Cardinality(AB) - 1
        BY <4>1, FS_RemoveElement
      <4> QED BY <3>1, <4>2 DEF AB
    <3> DEFINE c == Cardinality(A \cap B)
    <3>3. f[y] <= M /\ F[A \ {y}] <= M * (c - 1) /\ c \in Nat
      BY <2>3, <2>4, <2>5, <3>2
    <3> HIDE DEF c
    <3>4. M * (c - 1) = M * c - M
      BY <3>3
    <3>5. F[A] <= M * c
      BY <2>2, <3>3, <3>4
    <3> QED BY <3>5 DEF c
  <2>6. CASE y \notin B
    <3>1. (A \ {y}) \cap B = A \cap B /\ f[y] = 0
      BY <2>2, <2>6
    <3> QED BY <2>2, <2>3, <3>1
  <2> QED BY <2>5, <2>6
<1>5. Inductive(P, pick, D)
  BY <1>3, <1>4 DEF Inductive
<1>6. D \in P
  <2> HIDE DEF P, pick
  <2>1. SUBSET D \subseteq P
    BY <1>2, <1>5, SetInduction
  <2> QED BY <2>1
<1>7. D \cap B = B
  OBVIOUS
<1> QED BY <1>6, <1>7 DEF Sum, F

-----------------------------------------------------------------------------
(* The sums of the books *)

(* The lines of a book for a set of evaluations, by evaluation and key.    *)
Flat(count, S) == [x \in S \X Keys |-> count[x[1]][x[2]]]

(* Total, a fold of the community modules, is a sum.                       *)
LEMMA TotalIsSum ==
  ASSUME NEW count \in Books, NEW S \in SUBSET Evaluations
  PROVE  /\ IsFiniteSet(S \X Keys) /\ Flat(count, S) \in [S \X Keys -> Nat]
         /\ Total(count, S) = Sum(Flat(count, S), S \X Keys)
<1> DEFINE D == S \X Keys
           f == Flat(count, S)
           Iterates(g) == g = [A \in SUBSET D |->
                                 IF A = {} THEN 0
                                 ELSE LET x == CHOOSE x \in A : TRUE IN
                                      count[x[1]][x[2]] + g[A \ {x}]]
           iter == CHOOSE g : Iterates(g)
<1>1. IsFiniteSet(D)
  BY EvaluationsAssumption, FS_Subset, FS_Product
<1>2. f \in [D -> Nat]
  BY DEF Flat, Books
<1>3. Total(count, S) = iter[D]
  BY DEF Total, MapThenSumSet, MapThenFoldSet
<1>4. PICK F : IsSum(F, f, D)
  <2> HIDE DEF f, D
  <2> QED BY <1>1, <1>2, SumExists
<1>5. \A A \in SUBSET D : A # {} => f[Some(A)] = count[Some(A)[1]][Some(A)[2]]
  <2>1. \A A \in SUBSET D : A # {} => Some(A) \in D
    BY SomeOf
  <2> QED BY <2>1 DEF Flat
<1>6. Iterates(F)
  <2>1. F = [A \in SUBSET D |-> IF A = {} THEN 0
                                 ELSE f[Some(A)] + F[A \ {Some(A)}]]
    <3> HIDE DEF f, D
    <3> QED BY <1>4 DEF IsSum
  <2> HIDE DEF f, D
  <2>2. [A \in SUBSET D |-> IF A = {} THEN 0
                            ELSE f[Some(A)] + F[A \ {Some(A)}]] =
        [A \in SUBSET D |-> IF A = {} THEN 0
                            ELSE count[Some(A)[1]][Some(A)[2]]
                                   + F[A \ {Some(A)}]]
    BY <1>5
  <2> QED BY <2>1, <2>2 DEF Some
<1>7. Iterates(iter)
  <2> HIDE DEF Iterates
  <2> QED BY <1>6
<1>8. IsSum(iter, f, D)
  <2>1. \A A \in SUBSET D :
          iter[A] = IF A = {} THEN 0 ELSE f[Some(A)] + iter[A \ {Some(A)}]
    <3> HIDE DEF iter, f
    <3> QED BY <1>5, <1>7 DEF Some
  <2>2. iter \in [SUBSET D -> Nat]
    <3> DEFINE pick == [A \in SUBSET D |-> Some(A)]
               P == {A \in SUBSET D : iter[A] \in Nat}
    <3>1. Picks(pick, D)
      BY SomeOf DEF Picks
    <3>2. ASSUME NEW A \in SUBSET D, A # {}, A \ {pick[A]} \in P
          PROVE  A \in P
      <4>1. pick[A] = Some(A) /\ Some(A) \in D
        BY <3>2, SomeOf
      <4> HIDE DEF iter, f, D, pick
      <4>2. iter[A \ {Some(A)}] \in Nat /\ f[Some(A)] \in Nat
        BY <1>2, <3>2, <4>1
      <4> QED BY <2>1, <3>2, <4>2
    <3>3. {} \in P
      <4>1. iter[{}] = 0
        <5> HIDE DEF iter, f
        <5> QED BY <2>1
      <4> HIDE DEF iter
      <4> QED BY <4>1
    <3>4. Inductive(P, pick, D)
      BY <3>2, <3>3 DEF Inductive
    <3>5. SUBSET D \subseteq P
      <4> HIDE DEF P, pick, D
      <4> QED BY <1>1, <3>1, <3>4, SetInduction
    <3>6. iter = [A \in SUBSET D |-> iter[A]]
      <4>1. iter = [A \in SUBSET D |->
                      IF A = {} THEN 0
                      ELSE LET x == CHOOSE x \in A : TRUE IN
                           count[x[1]][x[2]] + iter[A \ {x}]]
        BY <1>7
      <4> HIDE DEF iter
      <4> QED BY <4>1
    <3> HIDE DEF iter, f, D
    <3> QED BY <3>5, <3>6
  <2> HIDE DEF iter, f, D
  <2> QED BY <2>1, <2>2 DEF IsSum
<1>9. iter[D] = Sum(f, D)
  <2> HIDE DEF iter, f, D
  <2>1. IsSum(CHOOSE g : IsSum(g, f, D), f, D)
    BY <1>1, <1>2, SumIs
  <2> QED BY <1>1, <1>2, <1>8, <2>1, SumsEqual DEF Sum
<1> QED BY <1>1, <1>2, <1>3, <1>9

(* A line adds one to the total of its book, if its evaluation counts.     *)
LEMMA TotalAdd ==
  ASSUME BaseInv, NEW s \in Running, NEW count \in Books,
         NEW S \in SUBSET Evaluations
  PROVE  /\ Total(count, S) \in Nat /\ Total(Add(count, s), S) \in Nat
         /\ Total(Add(count, s), S) =
              Total(count, S) + IF Evaluation(s) \in S THEN 1 ELSE 0
<1> DEFINE D == S \X Keys
           f == Flat(count, S)
           h == Flat(Add(count, s), S)
<1>1. /\ Add(count, s) \in Books
      /\ Add(count, s)[Evaluation(s)][Key(s)] =
           count[Evaluation(s)][Key(s)] + 1
      /\ \A e \in Evaluations, k \in Keys :
           e # Evaluation(s) \/ k # Key(s) => Add(count, s)[e][k] = count[e][k]
  BY AddType
<1>2. /\ IsFiniteSet(D) /\ f \in [D -> Nat] /\ h \in [D -> Nat]
      /\ Total(count, S) = Sum(f, D)
      /\ Total(Add(count, s), S) = Sum(h, D)
  BY <1>1, TotalIsSum
<1>3. Sum(f, D) \in Nat /\ Sum(h, D) \in Nat
  <2> HIDE DEF f, h, D
  <2> QED BY <1>2, SumIs
<1>4. Evaluation(s) \in Evaluations /\ Key(s) \in Keys
  BY RunningKey
<1>5. CASE Evaluation(s) \in S
  <2> DEFINE x == <<Evaluation(s), Key(s)>>
  <2>1. x \in D /\ h[x] = f[x] + 1
    BY <1>1, <1>4, <1>5 DEF Flat
  <2>2. \A y \in D : y # x => h[y] = f[y]
    BY <1>1, <1>4 DEF Flat
  <2> HIDE DEF f, h, D, x
  <2>3. Sum(h, D) = Sum(f, D) + h[x] - f[x]
    BY <1>2, <2>1, <2>2, SumChange
  <2>4. f[x] \in Nat
    BY <1>2, <2>1
  <2> QED BY <1>2, <1>3, <1>5, <2>1, <2>3, <2>4
<1>6. CASE Evaluation(s) \notin S
  <2>1. h = f
    BY <1>1, <1>6 DEF Flat
  <2> HIDE DEF f, h, D
  <2> QED BY <1>2, <1>3, <1>6, <2>1
<1> QED BY <1>5, <1>6

(* Totals are natural numbers.                                             *)
LEMMA TotalType ==
  ASSUME BaseInv, NEW S \in SUBSET Evaluations
  PROVE  /\ Total(made, S) \in Nat /\ Total(logs, S) \in Nat
         /\ Total(ledger, S) \in Nat
<1>1. ASSUME NEW count \in Books PROVE Total(count, S) \in Nat
  <2> DEFINE D == S \X Keys
             f == Flat(count, S)
  <2>1. IsFiniteSet(D) /\ f \in [D -> Nat] /\ Total(count, S) = Sum(f, D)
    BY TotalIsSum
  <2> HIDE DEF f, D
  <2> QED BY <2>1, SumIs
<1> QED BY <1>1 DEF BaseInv, TypeOK, Books

(* A book without lines has the total 0.                                   *)
LEMMA NoLinesTotal ==
  ASSUME NEW S \in SUBSET Evaluations
  PROVE  Total(NoLines, S) = 0
<1> DEFINE D == S \X Keys
           f == Flat(NoLines, S)
<1>1. NoLines \in Books
  BY DEF NoLines, Books
<1>2. IsFiniteSet(D) /\ f \in [D -> Nat] /\ Total(NoLines, S) = Sum(f, D)
  BY <1>1, TotalIsSum
<1>3. \A x \in D : f[x] <= 0
  BY DEF Flat, NoLines
<1> HIDE DEF f, D
<1>4. Sum(f, D) <= 0 * Cardinality({}) /\ Cardinality({}) = 0
  <2>1. Sum(f, D) <= 0 * Cardinality({})
    <3>1. \A x \in D : f[x] <= IF x \in {} THEN 0 ELSE 0
      BY <1>3
    <3> QED BY <1>2, <3>1, SumBound
  <2> QED BY <2>1, CardinalityZero
<1>5. Sum(f, D) \in Nat
  BY <1>2, SumIs
<1> QED BY <1>2, <1>4, <1>5

-----------------------------------------------------------------------------
(* Calls, log lines and ledger lines *)

(* The slots with one of some program counters.                            *)
AtAny(labels) == {s \in Slots : slot[s].pc \in labels}

(* Every call, log line and ledger line is followed by the next, for all   *)
(* slots but those that are between them and those that were cut short     *)
(* there.                                                                  *)
CountInv ==
  /\ Total(logs, Evaluations) + Cardinality(AtAny({"log"}))
       <= Total(made, Evaluations)
  /\ Total(ledger, Evaluations) + Cardinality(AtAny({"bill"}))
       <= Total(logs, Evaluations)
  /\ Total(made, Evaluations) <=
       Total(ledger, Evaluations) + lost + Cardinality(AtAny({"log", "bill"}))

(* The step of a slot changes the number of slots at some labels by that   *)
(* slot alone.                                                             *)
LEMMA AtChange ==
  ASSUME NEW s \in Slots, \A t \in Slots : t # s => slot'[t] = slot[t],
         NEW labels
  PROVE  /\ Cardinality(AtAny(labels)) \in Nat
         /\ Cardinality(AtAny(labels)') =
              Cardinality(AtAny(labels))
              + (IF slot'[s].pc \in labels THEN 1 ELSE 0)
              - (IF slot[s].pc \in labels THEN 1 ELSE 0)
<1> DEFINE A == AtAny(labels)
           B == AtAny(labels)'
           R == A \ {s}
<1>1. IsFiniteSet(A) /\ IsFiniteSet(R) /\ Cardinality(R) \in Nat
      /\ Cardinality(A) \in Nat
  BY RunningFinite, FS_Subset, FS_CardinalityType DEF AtAny
<1>2. /\ A = IF slot[s].pc \in labels THEN R \cup {s} ELSE R
      /\ B = IF slot'[s].pc \in labels THEN R \cup {s} ELSE R
      /\ s \notin R
  BY DEF AtAny
<1> HIDE DEF A, B, R
<1>3. Cardinality(R \cup {s}) = Cardinality(R) + 1
  BY <1>1, <1>2, FS_AddElement
<1>4. Cardinality(A) = Cardinality(R) + IF slot[s].pc \in labels THEN 1 ELSE 0
  BY <1>1, <1>2, <1>3
<1>5. Cardinality(B) = Cardinality(R) + IF slot'[s].pc \in labels THEN 1 ELSE 0
  BY <1>1, <1>2, <1>3
<1> QED BY <1>1, <1>4, <1>5 DEF A, B

(* Where a slot is before and after its step.                              *)
LEMMA PcOf ==
  ASSUME BaseInv, NEW s \in Slots, NEW r, GoesOn(s, r)
  PROVE  /\ slot'[s] = r /\ \A t \in Slots : t # s => slot'[t] = slot[t]
         /\ \A label : r = WithPc(s, label) => r.pc = label
         /\ \A p, memory : r = Taken(s, p, memory) => r.pc = "lookup"
<1>1. slot[s] \in SlotRecords
  BY DEF BaseInv, TypeOK
<1> QED BY <1>1, GoesOnKeeps DEF WithPc, Taken, SlotRecords

(* A step that changes no book and does not begin or end at a line.        *)
LEMMA CountsSame ==
  ASSUME BaseInv, CountInv, NEW s \in Slots, UNCHANGED books, lost' = lost,
         \A t \in Slots : t # s => slot'[t] = slot[t],
         slot[s].pc \notin {"log", "bill"}, slot'[s].pc \notin {"log", "bill"}
  PROVE  CountInv'
<1>1. \A L \in {{"log"}, {"bill"}, {"log", "bill"}} :
        Cardinality(AtAny(L)) \in Nat /\ Cardinality(AtAny(L)') = Cardinality(AtAny(L))
  BY AtChange
<1>2. /\ Total(made, Evaluations)' = Total(made, Evaluations)
      /\ Total(logs, Evaluations)' = Total(logs, Evaluations)
      /\ Total(ledger, Evaluations)' = Total(ledger, Evaluations)
  BY DEF books
<1> QED BY <1>1, <1>2 DEF CountInv

(* A step of a slot keeps the books as far apart as they are.              *)
LEMMA CountSlotStep ==
  ASSUME BaseInv, CountInv, NEW s \in Slots, SlotStep(s)
  PROVE  CountInv'
<1> DEFINE L(count) == Total(count, Evaluations)
           nLog  == Cardinality(AtAny({"log"}))
           nBill == Cardinality(AtAny({"bill"}))
           nBoth == Cardinality(AtAny({"log", "bill"}))
<1>0. /\ slot[s] \in SlotRecords
      /\ L(made) \in Nat /\ L(logs) \in Nat /\ L(ledger) \in Nat
      /\ lost \in Nat /\ made \in Books /\ logs \in Books /\ ledger \in Books
  BY TotalType DEF BaseInv, TypeOK, Books
<1>1. CASE Start(s)
  <2>1. /\ slot'[s].pc = "lookup" /\ slot[s].pc = "idle"
        /\ \A t \in Slots : t # s => slot'[t] = slot[t]
    BY <1>1, StartKeeps DEF Fresh, Idle, Start, At
  <2> QED BY <1>1, <2>1, CountsSame DEF Start, history
<1>2. CASE Hit(s)
  BY <1>2, HitMoves, PcOf, CountsSame DEF Hit, At, history
<1>3. CASE Miss(s)
  <2> DEFINE r == [slot[s] EXCEPT !.pc = "call", !.module = 1]
  <2>1. r.pc = "call"
    BY <1>0 DEF SlotRecords
  <2>2. GoesOn(s, r)
    BY <1>3, MissMoves
  <2> HIDE DEF r
  <2> QED BY <1>3, <2>1, <2>2, PcOf, CountsSame DEF Miss, At, history
<1>4. ASSUME NEW l0 \in Labels, NEW l1 \in Labels, l0 # l1, slot[s].pc = l0,
             slot'[s].pc = l1, \A t \in Slots : t # s => slot'[t] = slot[t]
      PROVE  /\ nLog' = nLog + (IF l1 = "log" THEN 1 ELSE 0)
                             - (IF l0 = "log" THEN 1 ELSE 0)
             /\ nBill' = nBill + (IF l1 = "bill" THEN 1 ELSE 0)
                               - (IF l0 = "bill" THEN 1 ELSE 0)
             /\ nBoth' = nBoth + (IF l1 \in {"log", "bill"} THEN 1 ELSE 0)
                               - (IF l0 \in {"log", "bill"} THEN 1 ELSE 0)
             /\ nLog \in Nat /\ nBill \in Nat /\ nBoth \in Nat
  BY <1>4, AtChange
<1>5. CASE CallModule(s)
  <2>1. s \in Running /\ slot[s].pc = "call"
    BY <1>5 DEF CallModule, Running, At
  <2>2. /\ slot'[s].pc = "log"
        /\ \A t \in Slots : t # s => slot'[t] = slot[t]
    <3>1. GoesOn(s, WithPc(s, "log"))
      BY <1>5, <2>1, LabelMoves DEF CallModule
    <3> QED BY <3>1, PcOf
  <2>3. nLog' = nLog + 1 /\ nBill' = nBill /\ nBoth' = nBoth + 1
        /\ nLog \in Nat /\ nBill \in Nat /\ nBoth \in Nat
    BY <1>4, <2>1, <2>2 DEF Labels
  <2>4. L(made)' = L(made) + 1
    BY <1>0, <1>5, <2>1, RunningKey, TotalAdd DEF CallModule
  <2>5. L(logs)' = L(logs) /\ L(ledger)' = L(ledger) /\ lost' = lost
    BY <1>5 DEF CallModule, history
  <2> HIDE DEF L, nLog, nBill, nBoth
  <2>6. CountInv <=> /\ L(logs) + nLog <= L(made)
                     /\ L(ledger) + nBill <= L(logs)
                     /\ L(made) <= L(ledger) + lost + nBoth
    BY DEF CountInv, L, nLog, nBill, nBoth
  <2>7. CountInv' <=> /\ L(logs)' + nLog' <= L(made)'
                      /\ L(ledger)' + nBill' <= L(logs)'
                      /\ L(made)' <= L(ledger)' + lost' + nBoth'
    BY DEF CountInv, L, nLog, nBill, nBoth
  <2> QED BY <1>0, <2>3, <2>4, <2>5, <2>6, <2>7
<1>6. CASE WriteLog(s)
  <2>1. s \in Running /\ slot[s].pc = "log"
    BY <1>6 DEF WriteLog, Running, At
  <2>2. /\ slot'[s].pc = "bill"
        /\ \A t \in Slots : t # s => slot'[t] = slot[t]
    <3>1. GoesOn(s, WithPc(s, "bill"))
      BY <1>6, <2>1, LabelMoves DEF WriteLog
    <3> QED BY <3>1, PcOf
  <2>3. nLog' = nLog - 1 /\ nBill' = nBill + 1 /\ nBoth' = nBoth
        /\ nLog \in Nat /\ nBill \in Nat /\ nBoth \in Nat
    BY <1>4, <2>1, <2>2 DEF Labels
  <2>4. L(logs)' = L(logs) + 1
    BY <1>0, <1>6, <2>1, RunningKey, TotalAdd DEF WriteLog
  <2>5. L(made)' = L(made) /\ L(ledger)' = L(ledger) /\ lost' = lost
    BY <1>6 DEF WriteLog, history
  <2> HIDE DEF L, nLog, nBill, nBoth
  <2>6. CountInv <=> /\ L(logs) + nLog <= L(made)
                     /\ L(ledger) + nBill <= L(logs)
                     /\ L(made) <= L(ledger) + lost + nBoth
    BY DEF CountInv, L, nLog, nBill, nBoth
  <2>7. CountInv' <=> /\ L(logs)' + nLog' <= L(made)'
                      /\ L(ledger)' + nBill' <= L(logs)'
                      /\ L(made)' <= L(ledger)' + lost' + nBoth'
    BY DEF CountInv, L, nLog, nBill, nBoth
  <2> QED BY <1>0, <2>3, <2>4, <2>5, <2>6, <2>7
<1>7. CASE WriteLedger(s)
  <2>1. s \in Running /\ slot[s].pc = "bill"
    BY <1>7 DEF WriteLedger, Running, At
  <2>2. PICK r : /\ GoesOn(s, r)
                 /\ NextCall(s, r) \/ ToStore(s, r) \/ ToTake(s, r)
    BY <1>7, LedgerMoves
  <2>3. r.pc \in {"call", "set", "lookup"}
    BY <1>0, <2>2 DEF NextCall, ToStore, ToTake, Taken, SlotRecords
  <2>4. slot'[s].pc = r.pc /\ \A t \in Slots : t # s => slot'[t] = slot[t]
    BY <2>2, PcOf
  <2>5. nLog' = nLog /\ nBill' = nBill - 1 /\ nBoth' = nBoth - 1
        /\ nLog \in Nat /\ nBill \in Nat /\ nBoth \in Nat
    BY <1>4, <2>1, <2>3, <2>4 DEF Labels
  <2>6. L(ledger)' = L(ledger) + 1
    BY <1>0, <1>7, <2>1, RunningKey, TotalAdd DEF WriteLedger, Bill
  <2>7. L(made)' = L(made) /\ L(logs)' = L(logs) /\ lost' = lost
    BY <1>7 DEF WriteLedger, history
  <2> HIDE DEF L, nLog, nBill, nBoth
  <2>8. CountInv <=> /\ L(logs) + nLog <= L(made)
                     /\ L(ledger) + nBill <= L(logs)
                     /\ L(made) <= L(ledger) + lost + nBoth
    BY DEF CountInv, L, nLog, nBill, nBoth
  <2>9. CountInv' <=> /\ L(logs)' + nLog' <= L(made)'
                      /\ L(ledger)' + nBill' <= L(logs)'
                      /\ L(made)' <= L(ledger)' + lost' + nBoth'
    BY DEF CountInv, L, nLog, nBill, nBoth
  <2> QED BY <1>0, <2>5, <2>6, <2>7, <2>8, <2>9
<1>8. CASE OpenTemp(s)
  <2>1. GoesOn(s, WithPc(s, "write"))
    BY <1>8, StoringMoves DEF OpenTemp, At, Storing
  <2> QED BY <1>8, <2>1, PcOf, CountsSame DEF OpenTemp, At, history
<1>9. CASE WriteTemp(s)
  <2>1. GoesOn(s, WithPc(s, "replace"))
    BY <1>9, StoringMoves DEF WriteTemp, At, Storing
  <2> QED BY <1>9, <2>1, PcOf, CountsSame DEF WriteTemp, At, history
<1>10. CASE Replace(s)
  BY <1>10, ReplaceMoves, PcOf, CountsSame DEF Replace, At, history
<1>11. CASE OpenScores(s)
  BY <1>11, OpenScoresMoves, PcOf, CountsSame DEF OpenScores, At, history
<1>12. CASE WriteScores(s)
  <2>1. slot'[s].pc = "idle" /\ \A t \in Slots : t # s => slot'[t] = slot[t]
    <3>1. /\ Stops(s, [Idle EXCEPT !.memory = slot[s].memory])
          /\ slot[s].memory \in [Keys -> Whole]
      BY <1>12, WriteScoresMoves
    <3>2. [Idle EXCEPT !.memory = slot[s].memory].pc = "idle"
      BY <3>1, IdleMemoryType
    <3> QED BY <3>1, <3>2, StopsKeeps
  <2> QED BY <1>12, <2>1, CountsSame DEF WriteScores, At, history
<1> QED BY <1>1, <1>2, <1>3, <1>5, <1>6, <1>7, <1>8, <1>9, <1>10, <1>11, <1>12
        DEF SlotStep

(* No slot works: none is before a line.                                   *)
LEMMA NoneAt ==
  ASSUME NEW labels \in {{"log"}, {"bill"}, {"log", "bill"}}, Working = {}
  PROVE  Cardinality(AtAny(labels)) = 0
<1>1. AtAny(labels) = {}
  BY DEF AtAny, Working
<1> QED BY <1>1, CardinalityZero

(* A slot between its call and its ledger line is running.                 *)
LEMMA BothRun ==
  /\ Cardinality(AtAny({"log", "bill"})) \in Nat
  /\ Cardinality(AtAny({"log", "bill"})) <= Cardinality(Running)
  /\ Cardinality(AtAny({"log"})) \in Nat /\ Cardinality(AtAny({"bill"})) \in Nat
<1>1. AtAny({"log", "bill"}) \subseteq Running
  BY DEF AtAny, Running
<1>2. /\ AtAny({"log"}) \in SUBSET Slots /\ AtAny({"bill"}) \in SUBSET Slots
      /\ AtAny({"log", "bill"}) \in SUBSET Slots
  BY DEF AtAny
<1> QED BY <1>1, <1>2, RunningFinite, FS_Subset, FS_CardinalityType

(* Nothing works after the step, and what was lost is counted.             *)
LEMMA CountsAtRest ==
  ASSUME BaseInv, CountInv, UNCHANGED books, Working' = {}, lost' \in Nat,
         lost' >= lost + Cardinality(Running) \/ (lost' = lost /\ Working = {})
  PROVE  CountInv'
<1>1. /\ Cardinality(AtAny({"log"}))' = 0 /\ Cardinality(AtAny({"bill"}))' = 0
      /\ Cardinality(AtAny({"log", "bill"}))' = 0
  <2>1. AtAny({"log"})' = {} /\ AtAny({"bill"})' = {}
        /\ AtAny({"log", "bill"})' = {}
    BY DEF AtAny, Working
  <2> QED BY <2>1, CardinalityZero
<1>2. /\ Total(made, Evaluations)' = Total(made, Evaluations)
      /\ Total(logs, Evaluations)' = Total(logs, Evaluations)
      /\ Total(ledger, Evaluations)' = Total(ledger, Evaluations)
      /\ Total(made, Evaluations) \in Nat /\ Total(logs, Evaluations) \in Nat
      /\ Total(ledger, Evaluations) \in Nat /\ lost \in Nat
  BY TotalType DEF books, BaseInv, TypeOK
<1>3. lost' >= lost + Cardinality(AtAny({"log", "bill"}))
  BY <1>2, NoneAt, BothRun, RunningFinite
<1> QED BY <1>1, <1>2, <1>3, BothRun DEF CountInv

(* The books are empty in the beginning.                                   *)
LEMMA CountInit == Init => CountInv
<1> SUFFICES ASSUME Init PROVE CountInv
  OBVIOUS
<1>1. Working = {} /\ lost = 0 /\ logs = NoLines /\ ledger = NoLines
      /\ made = NoLines
  BY IdleType DEF Init, Working
<1>2. Total(NoLines, Evaluations) = 0
  BY NoLinesTotal
<1> QED BY <1>1, <1>2, NoneAt DEF CountInv

(* Every step keeps the books as far apart as they may be.                 *)
LEMMA CountStep == BaseInv /\ CountInv /\ [Next]_vars => CountInv'
<1> SUFFICES ASSUME BaseInv, CountInv, [Next]_vars PROVE CountInv'
  OBVIOUS
<1>0. lost \in Nat /\ faults \in Nat
  BY DEF BaseInv, TypeOK
<1>1. ASSUME UNCHANGED <<books, lost, slot>> PROVE CountInv'
  <2>1. \A L \in {{"log"}, {"bill"}, {"log", "bill"}} : AtAny(L)' = AtAny(L)
    BY <1>1 DEF AtAny
  <2>2. /\ Total(made, Evaluations)' = Total(made, Evaluations)
        /\ Total(logs, Evaluations)' = Total(logs, Evaluations)
        /\ Total(ledger, Evaluations)' = Total(ledger, Evaluations)
    BY <1>1 DEF books
  <2>3. lost' = lost
    BY <1>1
  <2> QED BY <2>1, <2>2, <2>3 DEF CountInv
<1>2. ASSUME NEW s \in Slots, RunnerRaises(s) PROVE CountInv'
  <2>1. s \in Running /\ slot[s].pc = "call"
    BY <1>2 DEF RunnerRaises, Running, At
  <2>2. slot'[s].pc = "idle" /\ \A t \in Slots : t # s => slot'[t] = slot[t]
    BY <1>2, RunnerRaisesMoves, StopsKeeps, IdleType
  <2>3. \A L \in {{"log"}, {"bill"}, {"log", "bill"}} :
          /\ Cardinality(AtAny(L)) \in Nat
          /\ Cardinality(AtAny(L)') = Cardinality(AtAny(L))
    BY <2>1, <2>2, AtChange
  <2>4. /\ Total(made, Evaluations)' = Total(made, Evaluations) + 1
        /\ Total(made, Evaluations) \in Nat
    <3>1. made \in Books /\ Evaluation(s) \in Evaluations
      BY <2>1, RunningKey DEF BaseInv, TypeOK, Books
    <3>2. made' = Add(made, s)
      BY <1>2 DEF RunnerRaises
    <3> QED BY <2>1, <3>1, <3>2, TotalAdd
  <2>5. /\ Total(logs, Evaluations)' = Total(logs, Evaluations)
        /\ Total(ledger, Evaluations)' = Total(ledger, Evaluations)
        /\ Total(logs, Evaluations) \in Nat /\ Total(ledger, Evaluations) \in Nat
    BY <1>2, TotalType DEF RunnerRaises
  <2>6. lost' = lost + 1
    BY <1>2 DEF RunnerRaises
  <2> QED BY <1>0, <2>3, <2>4, <2>5, <2>6 DEF CountInv
<1>3. CASE NextBatch
  BY <1>0, <1>1, <1>3 DEF NextBatch, history
<1>4. CASE Shutdown
  BY <1>0, <1>4, DownKeeps, CountsAtRest DEF Shutdown, GoDown, history
<1>5. CASE Interrupt
  <2>1. lost' = lost + Cardinality(Running) /\ faults' = faults + 1 /\ GoDown
    BY <1>5 DEF Interrupt
  <2>2. UNCHANGED books
    BY <2>1 DEF GoDown
  <2> QED BY <1>0, <2>1, <2>2, DownKeeps, RunningFinite, CountsAtRest
<1>6. CASE Surface
  BY <1>1, <1>6 DEF Surface, history
<1>7. CASE Restart
  BY <1>1, <1>7 DEF Restart, history
<1>8. CASE UNCHANGED vars
  BY <1>1, <1>8 DEF vars, books
<1> QED BY <1>2, <1>3, <1>4, <1>5, <1>6, <1>7, <1>8, CountSlotStep
        DEF Next, Step, Over

-----------------------------------------------------------------------------
(* The ledger lines of what is kept and shown *)

(* Some ledger has a line for every module of a run at the key.            *)
Billed(k) == \E d \in Evaluations : ledger[d][k] >= Modules

(* A run has a ledger line for every module before its own; what it stores *)
(* and what it has taken is billed.                                        *)
SlotBill(s) ==
  /\ s \in Running => ledger[Evaluation(s)][Key(s)] >= slot[s].module - 1
  /\ slot[s].pc \in Storing => Billed(Key(s))
  /\ s \in Working => \A n \in DOMAIN slot[s].results :
                        Billed(KeysOf[Evaluation(s)][n])

(* Entries, runs and reports are billed.                                   *)
BillInv ==
  /\ \A k \in Keys : entry[k] # Absent => Billed(k)
  /\ \A s \in Slots : SlotBill(s)
  /\ \A e \in Reported : \A n \in DOMAIN KeysOf[e] : Billed(KeysOf[e][n])

(* No ledger line is lost.                                                 *)
LedgerGrows ==
  \A e \in Evaluations, k \in Keys : ledger'[e][k] >= ledger[e][k]

(* What is billed stays billed.                                            *)
LEMMA BilledStays ==
  ASSUME BaseInv, LedgerGrows, ledger' \in Books, NEW k \in Keys, Billed(k)
  PROVE  Billed(k)'
<1>1. PICK d \in Evaluations : ledger[d][k] >= Modules
  BY DEF Billed
<1>2. /\ ledger[d][k] \in Nat /\ ledger'[d][k] \in Nat /\ Modules \in Nat
      /\ ledger'[d][k] >= ledger[d][k]
  BY EvaluationsAssumption DEF BaseInv, TypeOK, Books, LedgerGrows
<1>3. ledger'[d][k] >= Modules
  BY <1>1, <1>2
<1> QED BY <1>3 DEF Billed

(* A new line loses none.                                                  *)
LEMMA AddGrows ==
  ASSUME BaseInv, NEW s \in Running, ledger' = Add(ledger, s) \/ ledger' = ledger
  PROVE  LedgerGrows /\ ledger' \in Books
<1>1. ledger \in Books
  BY DEF BaseInv, TypeOK, Books
<1>2. CASE ledger' = ledger
  BY <1>1, <1>2 DEF LedgerGrows, Books
<1>3. CASE ledger' = Add(ledger, s)
  <2>1. /\ ledger' \in Books
        /\ ledger'[Evaluation(s)][Key(s)] = ledger[Evaluation(s)][Key(s)] + 1
        /\ \A e \in Evaluations, k \in Keys :
             e # Evaluation(s) \/ k # Key(s) => ledger'[e][k] = ledger[e][k]
    BY <1>1, <1>3, AddType
  <2>2. Evaluation(s) \in Evaluations /\ Key(s) \in Keys
    BY RunningKey
  <2>3. ASSUME NEW e \in Evaluations, NEW k \in Keys
        PROVE  ledger'[e][k] >= ledger[e][k]
    <3>1. ledger[e][k] \in Nat /\ ledger[Evaluation(s)][Key(s)] \in Nat
      BY <1>1, <2>2 DEF Books
    <3> QED BY <2>1, <3>1
  <2> QED BY <2>1, <2>3 DEF LedgerGrows
<1> QED BY <1>2, <1>3

(* Results belong to keys of the cache.                                    *)
LEMMA ResultKeys ==
  ASSUME BaseInv, NEW s \in Working, NEW n \in DOMAIN slot[s].results
  PROVE  KeysOf[Evaluation(s)][n] \in Keys
BY ResultPositions, EvaluationsAssumption

(* A slot that a step does not touch stays billed.                         *)
LEMMA SlotBillStays ==
  ASSUME BaseInv, NEW t \in Slots, SlotBill(t), slot'[t] = slot[t],
         batch' = batch, LedgerGrows, ledger' \in Books
  PROVE  SlotBill(t)'
<1>1. /\ Evaluation(t)' = Evaluation(t) /\ Key(t)' = Key(t)
      /\ (t \in Working)' <=> t \in Working
      /\ (t \in Running)' <=> t \in Running
  BY SlotFrame
<1>2. ASSUME t \in Running
      PROVE  ledger'[Evaluation(t)][Key(t)] >= slot[t].module - 1
  <2>1. Evaluation(t) \in Evaluations /\ Key(t) \in Keys
    BY <1>2, RunningKey
  <2>2. /\ ledger[Evaluation(t)][Key(t)] \in Nat
        /\ ledger'[Evaluation(t)][Key(t)] \in Nat
        /\ slot[t].module \in Nat
    BY <2>1, EvaluationsAssumption DEF BaseInv, TypeOK, Books, SlotRecords
  <2>3. /\ ledger[Evaluation(t)][Key(t)] >= slot[t].module - 1
        /\ ledger'[Evaluation(t)][Key(t)] >= ledger[Evaluation(t)][Key(t)]
    BY <1>2, <2>1 DEF SlotBill, LedgerGrows
  <2> QED BY <2>2, <2>3
<1>3. ASSUME slot[t].pc \in Storing PROVE Billed(Key(t))'
  <2>1. t \in Running
    BY <1>3 DEF Storing, Running
  <2> DEFINE k == Key(t)
  <2>2. k \in Keys /\ Billed(k) /\ k' = k
    BY <1>1, <1>3, <2>1, RunningKey DEF SlotBill
  <2>3. \E d \in Evaluations : ledger'[d][k] >= Modules
    <3> HIDE DEF k
    <3> QED BY <2>2, BilledStays DEF Billed
  <2> QED BY <2>2, <2>3 DEF Billed
<1>4. ASSUME t \in Working, NEW n \in DOMAIN slot[t].results
      PROVE  Billed(KeysOf[Evaluation(t)][n])'
  <2> DEFINE k == KeysOf[Evaluation(t)][n]
  <2>1. k \in Keys /\ Billed(k) /\ k' = k
    BY <1>1, <1>4, ResultKeys DEF SlotBill
  <2>2. \E d \in Evaluations : ledger'[d][k] >= Modules
    <3> HIDE DEF k
    <3> QED BY <2>1, BilledStays DEF Billed
  <2> QED BY <2>1, <2>2 DEF Billed
<1> QED BY <1>1, <1>2, <1>3, <1>4 DEF SlotBill

(* A step of one slot keeps everything billed, if that slot, the entry and *)
(* the score file it writes are.                                           *)
LEMMA OneSlotBill ==
  ASSUME BaseInv, BillInv, NEW s \in Slots, batch' = batch,
         \A t \in Slots : t # s => slot'[t] = slot[t],
         LedgerGrows, ledger' \in Books, SlotBill(s)',
         \A k \in Keys : entry'[k] = entry[k] \/ Billed(k)',
         \A e \in Reported' : \/ scores'[e] = scores[e]
                              \/ \A n \in DOMAIN KeysOf[e] : Billed(KeysOf[e][n])'
  PROVE  BillInv'
<1>1. \A t \in Slots : SlotBill(t)'
  BY SlotBillStays DEF BillInv
<1>2. \A k \in Keys : Billed(k) => Billed(k)'
  BY BilledStays
<1>3. \A k \in Keys : entry'[k] # Absent => Billed(k)'
  BY <1>2 DEF BillInv
<1>4. ASSUME NEW e \in Reported', NEW n \in DOMAIN KeysOf[e]
      PROVE  Billed(KeysOf[e][n])'
  <2>1. CASE scores'[e] = scores[e]
    <3>1. e \in Reported /\ e \in Evaluations
      BY <2>1 DEF Reported
    <3> DEFINE k == KeysOf[e][n]
    <3>2. k \in Keys /\ Billed(k)
      BY <3>1, EvaluationsAssumption DEF BillInv
    <3>3. \E d \in Evaluations : ledger'[d][k] >= Modules
      <4> HIDE DEF k
      <4> QED BY <1>2, <3>2 DEF Billed
    <3> QED BY <3>3 DEF Billed
  <2> QED BY <1>4, <2>1
<1> QED BY <1>1, <1>3, <1>4 DEF BillInv

(* The results of a slot stay billed.                                      *)
LEMMA ResultsBilled ==
  ASSUME BaseInv, NEW s \in Working, SlotBill(s), LedgerGrows,
         ledger' \in Books, Evaluation(s)' = Evaluation(s)
  PROVE  \A n \in DOMAIN slot[s].results :
           \E d \in Evaluations : ledger'[d][KeysOf[Evaluation(s)][n]] >= Modules
<1>1. ASSUME NEW n \in DOMAIN slot[s].results
      PROVE  \E d \in Evaluations :
               ledger'[d][KeysOf[Evaluation(s)][n]] >= Modules
  <2> DEFINE k == KeysOf[Evaluation(s)][n]
  <2>1. k \in Keys /\ Billed(k)
    BY ResultKeys DEF SlotBill
  <2> HIDE DEF k
  <2>2. \E d \in Evaluations : ledger'[d][k] >= Modules
    BY <2>1, BilledStays DEF Billed
  <2> QED BY <2>2 DEF k
<1> QED BY <1>1

(* A slot that moves on and keeps its results stays billed.                *)
LEMMA MovedBill ==
  ASSUME BaseInv, NEW s, SlotBill(s), NEW r, GoesOn(s, r),
         r.results = slot[s].results, LedgerGrows, ledger' \in Books,
         r.pc \notin {"lookup", "scores"} =>
           ledger'[Evaluation(s)][Key(s)] >= r.module - 1,
         r.pc \in Storing =>
           \E d \in Evaluations : ledger'[d][Key(s)] >= Modules
  PROVE  SlotBill(s)'
<1>1. /\ s \in Working /\ s \in Slots /\ slot'[s] = r
      /\ Evaluation(s)' = Evaluation(s)
  BY GoesOnKeeps DEF GoesOn
<1>2. Key(s)' = Key(s)
  BY <1>1 DEF Key
<1>3. \A n \in DOMAIN slot[s].results :
        \E d \in Evaluations : ledger'[d][KeysOf[Evaluation(s)][n]] >= Modules
  BY <1>1, ResultsBilled
<1>4. \A n \in DOMAIN slot'[s].results : Billed(KeysOf[Evaluation(s)][n])'
  BY <1>1, <1>3 DEF Billed
<1>5. (slot[s].pc \in Storing)' => Billed(Key(s))'
  BY <1>1, <1>2 DEF Billed
<1>6. (s \in Running)' => ledger'[Evaluation(s)'][Key(s)'] >= slot'[s].module - 1
  BY <1>1, <1>2 DEF Running
<1> QED BY <1>1, <1>4, <1>5, <1>6 DEF SlotBill

(* A slot that takes a billed prediction stays billed.                     *)
LEMMA TakenBill ==
  ASSUME BaseInv, NEW s, s \in Working, Left(s), SlotBill(s),
         NEW p \in Predictions, NEW memory, GoesOn(s, Taken(s, p, memory)),
         LedgerGrows, ledger' \in Books,
         \E d \in Evaluations : ledger'[d][Key(s)] >= Modules
  PROVE  SlotBill(s)'
<1> DEFINE e == Evaluation(s)
           r == slot[s].results
           n == Len(r)
<1>1. /\ s \in Slots /\ slot'[s] = Taken(s, p, memory)
      /\ Evaluation(s)' = e
  BY GoesOnKeeps
<1>2. slot[s] \in SlotRecords
  BY <1>1 DEF BaseInv, TypeOK
<1>3. slot'[s].pc = "lookup" /\ slot'[s].results = Append(r, p)
  BY <1>1, <1>2 DEF Taken, SlotRecords
<1>4. r \in Seq(Predictions) /\ n \in Nat /\ DOMAIN r = 1 .. n
  BY ResultPositions
<1>5. \A m \in DOMAIN r :
        \E d \in Evaluations : ledger'[d][KeysOf[e][m]] >= Modules
  BY <1>1, ResultsBilled
<1>6. \E d \in Evaluations : ledger'[d][KeysOf[e][n + 1]] >= Modules
  BY DEF Key
<1>7. DOMAIN Append(r, p) = 1 .. (n + 1)
  BY <1>4
<1>8. \A m \in DOMAIN Append(r, p) :
        \E d \in Evaluations : ledger'[d][KeysOf[e][m]] >= Modules
  <2> HIDE DEF e, r, n
  <2> QED BY <1>4, <1>5, <1>6, <1>7
<1>9. \A m \in DOMAIN slot'[s].results : Billed(KeysOf[Evaluation(s)][m])'
  <2> HIDE DEF e, r
  <2> QED BY <1>1, <1>3, <1>8 DEF Billed
<1>10. ~(s \in Running)' /\ ~(slot[s].pc \in Storing)'
  BY <1>3 DEF Running, Storing
<1> QED BY <1>9, <1>10 DEF SlotBill

(* A step of a slot keeps everything billed.                               *)
LEMMA BillSlotStep ==
  ASSUME BaseInv, FilesInv, BillInv, NEW s \in Slots, SlotStep(s)
  PROVE  BillInv'
<1>1. /\ SlotBill(s) /\ slot[s] \in SlotRecords /\ ledger \in Books
      /\ entry \in [Keys -> Whole \cup {Torn}]
  BY DEF BillInv, BaseInv, TypeOK, Books
<1>2. ASSUME ledger' = ledger PROVE LedgerGrows /\ ledger' \in Books
  BY <1>1, <1>2 DEF LedgerGrows, Books
<1>3. ASSUME NEW r, GoesOn(s, r), SlotBill(s)', entry' = entry,
             LedgerGrows, ledger' \in Books,
             \A e \in Reported' : scores'[e] = scores[e]
      PROVE  BillInv'
  <2>1. batch' = batch /\ \A t \in Slots : t # s => slot'[t] = slot[t]
    BY <1>3, GoesOnKeeps
  <2> QED BY <1>3, <2>1, OneSlotBill
<1>4. CASE Start(s)
  <2>1. /\ slot'[s] = Fresh(s) /\ batch' = batch
        /\ \A t \in Slots : t # s => slot'[t] = slot[t]
    BY <1>4, StartKeeps
  <2>2. slot'[s].pc = "lookup" /\ slot'[s].results = <<>>
    BY <2>1 DEF Fresh, Idle
  <2>3. UNCHANGED <<entry, ledger, scores>>
    BY <1>4 DEF Start, files, books
  <2>4. SlotBill(s)'
    BY <2>2 DEF SlotBill, Running, Storing
  <2> QED BY <1>2, <2>1, <2>3, <2>4, OneSlotBill
<1>5. CASE Hit(s)
  <2> DEFINE memory == [slot[s].memory EXCEPT ![Key(s)] = Cached(s)]
  <2>1. GoesOn(s, Taken(s, Cached(s), memory)) /\ s \in Working
    BY <1>5, HitMoves DEF GoesOn
  <2>2. /\ UNCHANGED <<entry, ledger, scores>> /\ Left(s)
        /\ Cached(s) \in Predictions
    BY <1>5 DEF Hit, files, books
  <2>3. UsesCache(Evaluation(s)) /\ Cached(s) # Absent
    BY <2>2, FilesAssumption DEF Cached
  <2>4. Key(s) \in Keys
    <3>1. slot[s].results \in Seq(Predictions) /\ KeysOf[Evaluation(s)] \in Seq(Keys)
      BY <1>1, <2>1, WorkingJob DEF SlotRecords, BaseInv
    <3> QED BY <2>2, <3>1 DEF Key, Left
  <2>5. SlotFiles(s)
    BY DEF FilesInv
  <2>6. entry[Key(s)] # Absent
    BY <2>3, <2>4, <2>5 DEF Cached, SlotFiles
  <2>7. \E d \in Evaluations : ledger'[d][Key(s)] >= Modules
    BY <2>2, <2>4, <2>6 DEF BillInv, Billed
  <2> HIDE DEF memory
  <2>8. SlotBill(s)'
    BY <1>1, <1>2, <2>1, <2>2, <2>7, TakenBill
  <2> QED BY <1>2, <1>3, <2>1, <2>2, <2>8
<1>6. CASE Miss(s)
  <2> DEFINE r == [slot[s] EXCEPT !.pc = "call", !.module = 1]
  <2>1. GoesOn(s, r) /\ UNCHANGED <<entry, ledger, scores>> /\ Left(s)
    BY <1>6, MissMoves DEF Miss, files, books
  <2>2. r.pc = "call" /\ r.results = slot[s].results /\ r.module = 1
    BY <1>1 DEF SlotRecords
  <2>3. ledger[Evaluation(s)][Key(s)] \in Nat
    <3>1. /\ slot[s].results \in Seq(Predictions) /\ Evaluation(s) \in Evaluations
          /\ KeysOf[Evaluation(s)] \in Seq(Keys)
      BY <1>1, <2>1, WorkingJob DEF SlotRecords, BaseInv, GoesOn
    <3>2. Key(s) \in Keys
      BY <2>1, <3>1 DEF Key, Left
    <3> QED BY <1>1, <3>1, <3>2 DEF Books
  <2> HIDE DEF r
  <2>4. SlotBill(s)'
    BY <1>1, <1>2, <2>1, <2>2, <2>3, MovedBill DEF Storing
  <2> QED BY <1>2, <1>3, <2>1, <2>4
<1>7. ASSUME s \in Running, NEW label \in {"log", "bill", "write", "replace"},
             label \in Storing => slot[s].pc \in Storing,
             GoesOn(s, WithPc(s, label)), UNCHANGED <<entry, ledger, scores>>
      PROVE  BillInv'
  <2> DEFINE r == WithPc(s, label)
  <2>1. /\ r.pc = label /\ r.results = slot[s].results
        /\ r.module = slot[s].module
    BY <1>1 DEF SlotRecords, WithPc
  <2>2. ledger'[Evaluation(s)][Key(s)] >= r.module - 1
    BY <1>1, <1>7, <2>1 DEF SlotBill
  <2>3. label \in Storing => \E d \in Evaluations : ledger'[d][Key(s)] >= Modules
    BY <1>1, <1>7 DEF SlotBill, Billed
  <2> HIDE DEF r
  <2>4. SlotBill(s)'
    BY <1>1, <1>2, <1>7, <2>1, <2>2, <2>3, MovedBill DEF r
  <2> QED BY <1>2, <1>3, <1>7, <2>4
<1>8. CASE CallModule(s)
  <2>1. s \in Running /\ UNCHANGED <<entry, ledger, scores>>
    BY <1>8 DEF CallModule, files, Running, At
  <2>2. GoesOn(s, WithPc(s, "log"))
    BY <1>8, <2>1, LabelMoves DEF CallModule
  <2> QED BY <1>7, <2>1, <2>2 DEF Storing
<1>9. CASE WriteLog(s)
  <2>1. s \in Running /\ UNCHANGED <<entry, ledger, scores>>
    BY <1>9 DEF WriteLog, files, Running, At
  <2>2. GoesOn(s, WithPc(s, "bill"))
    BY <1>9, <2>1, LabelMoves DEF WriteLog
  <2> QED BY <1>7, <2>1, <2>2 DEF Storing
<1>10. CASE WriteLedger(s)
  <2>1. s \in Running /\ UNCHANGED <<entry, scores>> /\ ledger' = Add(ledger, s)
    BY <1>10 DEF WriteLedger, files, Running, At, Bill
  <2>2. PICK r : /\ GoesOn(s, r)
                 /\ NextCall(s, r) \/ ToStore(s, r) \/ ToTake(s, r)
    BY <1>10, LedgerMoves
  <2>3. LedgerGrows /\ ledger' \in Books
    BY <2>1, AddGrows
  <2>4. /\ Evaluation(s) \in Evaluations /\ Key(s) \in Keys
        /\ s \in Working /\ Left(s)
    BY <2>1, RunningKey DEF BaseInv, LocalInv, LocalOK
  <2>5. ledger'[Evaluation(s)][Key(s)] >= slot[s].module
    <3>1. /\ ledger[Evaluation(s)][Key(s)] \in Nat /\ slot[s].module \in Int
          /\ ledger[Evaluation(s)][Key(s)] >= slot[s].module - 1
      BY <1>1, <2>1, <2>4, EvaluationsAssumption DEF SlotBill, Books, SlotRecords
    <3>2. ledger'[Evaluation(s)][Key(s)] = ledger[Evaluation(s)][Key(s)] + 1
      BY <1>1, <2>1, AddType
    <3> QED BY <3>1, <3>2
  <2>6. slot[s].module \in Int
    BY <1>1, EvaluationsAssumption DEF SlotRecords
  <2>7. CASE NextCall(s, r)
    <3>1. /\ r.pc = "call" /\ r.results = slot[s].results
          /\ r.module = slot[s].module + 1
      BY <1>1, <2>7 DEF NextCall, SlotRecords
    <3>2. r.module - 1 = slot[s].module
      BY <2>6, <3>1
    <3>3. SlotBill(s)'
      BY <1>1, <2>2, <2>3, <2>5, <3>1, <3>2, MovedBill DEF Storing
    <3> QED BY <1>3, <2>1, <2>2, <2>3, <3>3
  <2>8. ASSUME LastModule(s)
        PROVE  \E d \in Evaluations : ledger'[d][Key(s)] >= Modules
    BY <2>4, <2>5, <2>8 DEF LastModule
  <2>9. CASE ToStore(s, r)
    <3>1. /\ r.pc = "set" /\ r.results = slot[s].results
          /\ r.module = slot[s].module
      BY <1>1, <2>9 DEF ToStore, SlotRecords
    <3>2. ledger'[Evaluation(s)][Key(s)] >= r.module - 1
      <4>1. ledger'[Evaluation(s)][Key(s)] \in Nat
        BY <2>3, <2>4 DEF Books
      <4> QED BY <2>5, <2>6, <3>1, <4>1
    <3>3. SlotBill(s)'
      BY <1>1, <2>2, <2>3, <2>8, <2>9, <3>1, <3>2, MovedBill DEF ToStore
    <3> QED BY <1>3, <2>1, <2>2, <2>3, <3>3
  <2>10. CASE ToTake(s, r)
    <3>1. PICK p \in Predictions : r = Taken(s, p, slot[s].memory)
      BY <2>10 DEF ToTake
    <3>2. SlotBill(s)'
      BY <1>1, <2>2, <2>3, <2>4, <2>8, <2>10, <3>1, TakenBill DEF ToTake
    <3> QED BY <1>3, <2>1, <2>2, <2>3, <3>2
  <2> QED BY <2>2, <2>7, <2>9, <2>10
<1>11. CASE OpenTemp(s)
  <2>1. GoesOn(s, WithPc(s, "write")) /\ UNCHANGED <<entry, ledger, scores>>
    BY <1>11, StoringMoves DEF OpenTemp, At, Storing, books
  <2>2. s \in Running /\ slot[s].pc \in Storing
    BY <1>11 DEF OpenTemp, At, Running, Storing
  <2> QED BY <1>7, <2>1, <2>2
<1>12. CASE WriteTemp(s)
  <2>1. GoesOn(s, WithPc(s, "replace")) /\ UNCHANGED <<entry, ledger, scores>>
    BY <1>12, StoringMoves DEF WriteTemp, At, Storing, books
  <2>2. s \in Running /\ slot[s].pc \in Storing
    BY <1>12 DEF WriteTemp, At, Running, Storing
  <2> QED BY <1>7, <2>1, <2>2
<1>13. CASE Replace(s)
  <2> DEFINE p == slot[s].current
  <2>1. GoesOn(s, Taken(s, p, Remembered(s))) /\ p \in Predictions
    BY <1>13, ReplaceMoves
  <2>2. /\ slot[s].pc \in Storing /\ s \in Running
        /\ UNCHANGED <<ledger, scores>>
    BY <1>13 DEF Replace, At, Running, Storing, books
  <2>3. s \in Working /\ Left(s) /\ Key(s) \in Keys
    BY <2>2, RunningKey DEF BaseInv, LocalInv, LocalOK
  <2>4. \E d \in Evaluations : ledger'[d][Key(s)] >= Modules
    BY <1>1, <2>2 DEF SlotBill, Billed
  <2>5. entry' = [entry EXCEPT ![Key(s)] = temp[Key(s)]]
    BY <1>13 DEF Replace
  <2>6. \A k \in Keys : entry'[k] = entry[k] \/ Billed(k)'
    <3>1. \A k \in Keys : k # Key(s) => entry'[k] = entry[k]
      BY <1>1, <2>5
    <3>2. \A k : k = Key(s) => Billed(k)'
      BY <2>4 DEF Billed
    <3> QED BY <3>1, <3>2
  <2> HIDE DEF p
  <2>7. SlotBill(s)'
    BY <1>1, <1>2, <2>1, <2>2, <2>3, <2>4, TakenBill
  <2>8. batch' = batch /\ \A t \in Slots : t # s => slot'[t] = slot[t]
    BY <2>1, GoesOnKeeps
  <2> QED BY <1>2, <2>2, <2>6, <2>7, <2>8, OneSlotBill
<1>14. CASE OpenScores(s)
  <2> DEFINE r == WithPc(s, "scores")
  <2>1. GoesOn(s, r) /\ UNCHANGED <<entry, ledger>>
    BY <1>14, OpenScoresMoves DEF OpenScores, files, books
  <2>2. r.pc = "scores" /\ r.results = slot[s].results
    BY <1>1 DEF SlotRecords, WithPc
  <2>3. \A e \in Reported' : scores'[e] = scores[e]
    BY <1>14 DEF OpenScores, Reported, BaseInv, TypeOK
  <2> HIDE DEF r
  <2>4. SlotBill(s)'
    BY <1>1, <1>2, <2>1, <2>2, MovedBill DEF Storing
  <2> QED BY <1>2, <1>3, <2>1, <2>3, <2>4
<1>15. CASE WriteScores(s)
  <2> DEFINE e == Evaluation(s)
  <2>1. /\ Stops(s, [Idle EXCEPT !.memory = slot[s].memory])
        /\ slot[s].memory \in [Keys -> Whole] /\ ~Left(s) /\ s \in Working
    BY <1>15, WriteScoresMoves DEF Stops
  <2>2. /\ batch' = batch /\ \A t \in Slots : t # s => slot'[t] = slot[t]
        /\ slot'[s].pc = "idle"
    BY <2>1, StopsKeeps DEF Stops
  <2>3. UNCHANGED <<entry, ledger>>
    BY <1>15 DEF WriteScores, files, books
  <2>4. SlotBill(s)'
    BY <2>2 DEF SlotBill, Running, Working, Storing
  <2>5. DOMAIN KeysOf[e] = DOMAIN slot[s].results /\ e \in Evaluations
    BY <2>1, ResultPositions, WorkingJob DEF BaseInv, LocalInv, LocalOK, Left
  <2>6. \A n \in DOMAIN KeysOf[e] :
          \E d \in Evaluations : ledger'[d][KeysOf[e][n]] >= Modules
    BY <1>1, <2>1, <2>3, <2>5 DEF SlotBill, Billed
  <2>7. \A d \in Evaluations : d # e => scores'[d] = scores[d]
    BY <1>15 DEF WriteScores, BaseInv, TypeOK
  <2> HIDE DEF e
  <2>8. \A d \in Reported' : \/ scores'[d] = scores[d]
                             \/ \A n \in DOMAIN KeysOf[d] : Billed(KeysOf[d][n])'
    BY <2>6, <2>7 DEF Reported, Billed
  <2> QED BY <1>2, <2>2, <2>3, <2>4, <2>8, OneSlotBill
<1> QED BY <1>4, <1>5, <1>6, <1>8, <1>9, <1>10, <1>11, <1>12, <1>13, <1>14, <1>15
        DEF SlotStep

(* There is nothing to be billed in the beginning.                         *)
LEMMA BillInit == Init => BillInv
<1> SUFFICES ASSUME Init PROVE BillInv
  OBVIOUS
<1>1. \A s \in Slots : SlotBill(s)
  BY IdleType DEF Init, SlotBill, Running, Working, Storing
<1>2. Reported = {} /\ \A k \in Keys : entry[k] = Absent
  BY DEF Init, Reported
<1> QED BY <1>1, <1>2 DEF BillInv

(* Every step keeps everything billed.                                     *)
LEMMA BillStep == BaseInv /\ FilesInv /\ BillInv /\ [Next]_vars => BillInv'
<1> SUFFICES ASSUME BaseInv, FilesInv, BillInv, [Next]_vars PROVE BillInv'
  OBVIOUS
<1>0. ledger \in Books /\ lost \in Nat /\ faults \in Nat
  BY DEF BaseInv, TypeOK, Books
<1>1. ASSUME UNCHANGED <<entry, ledger, scores, slot, batch>> PROVE BillInv'
  <2>1. LedgerGrows /\ ledger' \in Books
    BY <1>0, <1>1 DEF LedgerGrows, Books
  <2>2. \A s \in Slots : SlotBill(s)'
    BY <1>1, <2>1, SlotBillStays DEF BillInv
  <2>3. Reported' = Reported /\ \A k : Billed(k)' <=> Billed(k)
    BY <1>1 DEF Reported, Billed
  <2> QED BY <1>1, <2>2, <2>3 DEF BillInv
<1>2. ASSUME NEW s \in Slots, RunnerRaises(s) PROVE BillInv'
  <2>1. /\ batch' = batch /\ slot'[s] = Idle
        /\ \A t \in Slots : t # s => slot'[t] = slot[t]
    BY <1>2, RunnerRaisesMoves, StopsKeeps
  <2>2. UNCHANGED <<entry, ledger, scores>>
    BY <1>2 DEF RunnerRaises, files
  <2>3. SlotBill(s)'
    BY <2>1, IdleType DEF SlotBill, Running, Working, Storing
  <2>4. LedgerGrows /\ ledger' \in Books
    BY <1>0, <2>2 DEF LedgerGrows, Books
  <2> QED BY <2>1, <2>2, <2>3, <2>4, OneSlotBill
<1>3. ASSUME UNCHANGED <<entry, ledger, scores>>, Working' = {} PROVE BillInv'
  <2>1. \A s \in Slots : slot'[s].pc = "idle"
    BY <1>3 DEF Working
  <2>2. \A s \in Slots : SlotBill(s)'
    BY <2>1 DEF SlotBill, Running, Working, Storing
  <2>3. Reported' = Reported /\ \A k : Billed(k)' <=> Billed(k)
    BY <1>3 DEF Reported, Billed
  <2> QED BY <1>3, <2>2, <2>3 DEF BillInv
<1>4. CASE NextBatch
  BY <1>3, <1>4, NextBatchKeeps DEF NextBatch, files, books
<1>5. CASE Shutdown
  BY <1>0, <1>3, <1>5, DownKeeps DEF Shutdown, GoDown, files, books, history
<1>6. CASE Interrupt
  BY <1>0, <1>3, <1>6, DownKeeps, RunningFinite DEF Interrupt, GoDown, files, books
<1>7. CASE Surface
  BY <1>1, <1>7 DEF Surface, files, books
<1>8. CASE Restart
  BY <1>1, <1>8 DEF Restart, files, books
<1>9. CASE UNCHANGED vars
  BY <1>1, <1>9 DEF vars
<1> QED BY <1>2, <1>4, <1>5, <1>6, <1>7, <1>8, <1>9, BillSlotStep
        DEF Next, Step, Over

(* In every state of every run, with interruptions and exceptions          *)
(* anywhere, what was called and no ledger shows is at most one call for   *)
(* each run that was cut short or is under way, and a reported prediction  *)
(* has its ledger lines (LMProgram.run).                                   *)
THEOREM BooksCoverCallsAlways == Spec => []BooksCoverCalls
<1> DEFINE Inv == BaseInv /\ FilesInv /\ CountInv /\ BillInv
<1>1. Init => Inv
  BY BaseInit, FilesInit, CountInit, BillInit
<1>2. Inv /\ [Next]_vars => Inv'
  BY BaseStep, FilesStep, CountStep, BillStep
<1>3. ASSUME Inv PROVE BooksCoverCalls
  <2>1. /\ Total(made, Evaluations) \in Nat /\ Total(logs, Evaluations) \in Nat
        /\ Total(ledger, Evaluations) \in Nat /\ lost \in Nat
    BY <1>3, TotalType DEF BaseInv, TypeOK
  <2>2. /\ Total(ledger, Evaluations) <= Total(logs, Evaluations)
        /\ Total(logs, Evaluations) <= Total(made, Evaluations)
        /\ Total(made, Evaluations) <=
             Total(ledger, Evaluations) + lost + Cardinality(Running)
    BY <1>3, <2>1, BothRun, RunningFinite DEF CountInv
  <2>3. ASSUME NEW e \in Reported, NEW k \in KeySet(e)
        PROVE  \E d \in Evaluations : ledger[d][k] >= Modules
    <3>1. PICK n \in DOMAIN KeysOf[e] : k = KeysOf[e][n]
      BY DEF KeySet, ToSet
    <3> QED BY <1>3, <3>1 DEF BillInv, Billed
  <2> QED BY <2>2, <2>3 DEF BooksCoverCalls
<1> QED
  <2>1. Spec => []Inv
    BY <1>1, <1>2, PTL DEF Spec
  <2>2. Inv => BooksCoverCalls
    BY <1>3
  <2> QED BY <2>1, <2>2, PTL

-----------------------------------------------------------------------------
(* Work that is kept *)

(* The slots that run the program for the cache.                           *)
Caching == {s \in Running : UsesCache(Evaluation(s))}

(* The keys that have an entry.                                            *)
Stored == {k \in Keys : entry[k] # Absent}

(* The evaluations that use the cache.                                     *)
Cachable == {e \in Evaluations : UsesCache(e)}

(* The calls a slot has made for the prediction it has not stored yet.     *)
Progress(s) ==
  IF s \notin Caching THEN 0
  ELSE IF At(s, "call") THEN slot[s].module - 1
  ELSE IF slot[s].pc \in Storing THEN Modules
  ELSE slot[s].module

(* The calls of all slots that are not stored yet.                         *)
Progresses == [s \in Slots |-> Progress(s)]

(* The calls for the cache have gone into entries, into runs that were cut *)
(* short, or into those under way.                                         *)
WorkInv ==
  Total(made, Cachable) <=
    Modules * (Cardinality(Stored) + lost) + Sum(Progresses, Slots)

(* A slot has made as many calls as the program has modules, at most.      *)
LEMMA ProgressType ==
  ASSUME slot \in [Slots -> SlotRecords]
  PROVE  /\ Progresses \in [Slots -> Nat]
         /\ \A s \in Slots : Progress(s) <= Modules
<1>1. \A s \in Slots : slot[s].module \in 1 .. Modules
  BY DEF SlotRecords
<1>2. Modules \in Nat
  BY EvaluationsAssumption
<1>3. \A s \in Slots : Progress(s) \in Nat /\ Progress(s) <= Modules
  BY <1>1, <1>2 DEF Progress
<1> QED BY <1>3 DEF Progresses

(* Entries can be counted.                                                 *)
LEMMA StoredFinite ==
  /\ IsFiniteSet(Stored) /\ Cardinality(Stored) \in Nat /\ Cachable \in SUBSET Evaluations
<1>1. IsFiniteSet(Stored)
  BY EvaluationsAssumption, FS_Subset DEF Stored
<1> QED BY <1>1, FS_CardinalityType DEF Cachable

(* The sum changes by what one slot did.                                   *)
LEMMA ProgressChange ==
  ASSUME BaseInv, NEW s \in Slots, slot' \in [Slots -> SlotRecords],
         batch' = batch, \A t \in Slots : t # s => slot'[t] = slot[t]
  PROVE  /\ Sum(Progresses, Slots)' =
              Sum(Progresses, Slots) + Progress(s)' - Progress(s)
         /\ Sum(Progresses, Slots) \in Nat
         /\ Progress(s) \in Nat /\ Progress(s)' \in Nat
<1> DEFINE f == Progresses
           h == Progresses'
<1>1. f \in [Slots -> Nat] /\ h \in [Slots -> Nat] /\ IsFiniteSet(Slots)
  <2>1. \A t \in Slots : slot'[t].module \in 1 .. Modules /\ Modules \in Nat
    BY EvaluationsAssumption DEF SlotRecords
  <2>2. \A t \in Slots : Progress(t)' \in Nat
    BY <2>1 DEF Progress
  <2>3. h \in [Slots -> Nat]
    BY <2>2 DEF Progresses, Slots
  <2> QED BY <2>3, ProgressType, RunningFinite DEF BaseInv, TypeOK
<1>2. \A t \in Slots : t # s => h[t] = f[t]
  <2>1. ASSUME NEW t \in Slots, t # s PROVE Progress(t)' = Progress(t)
    <3>1. slot'[t] = slot[t]
      BY <2>1
    <3> QED BY <3>1, SlotFrame DEF Progress, Caching, UsesCache
  <2> QED BY <2>1 DEF Progresses
<1>3. f[s] = Progress(s) /\ h[s] = Progress(s)'
  BY DEF Progresses
<1>4. Sum(Progresses, Slots)' = Sum(h, Slots)
  BY DEF Slots
<1> HIDE DEF f, h
<1>5. Sum(h, Slots) = Sum(f, Slots) + h[s] - f[s] /\ Sum(f, Slots) \in Nat
  BY <1>1, <1>2, SumChange, SumIs
<1>6. f[s] \in Nat /\ h[s] \in Nat
  BY <1>1
<1> QED BY <1>3, <1>4, <1>5, <1>6 DEF f

(* What one slot adds on both sides of the balance, added.                 *)
LEMMA WorkArithmetic ==
  \A t, x, y, p, q0, q1, calls \in Nat :
    t <= x + p /\ q0 + calls <= y + q1
      => t + calls <= (x + y) + (p + q1 - q0)
OBVIOUS

(* A step of one slot keeps the balance, if its calls are in its progress, *)
(* in an entry, or lost.                                                   *)
LEMMA WorkOne ==
  ASSUME BaseInv, WorkInv, NEW s \in Slots, slot' \in [Slots -> SlotRecords],
         batch' = batch, \A t \in Slots : t # s => slot'[t] = slot[t],
         NEW calls \in Nat, NEW stored \in Nat, NEW losses \in Nat,
         Total(made, Cachable)' = Total(made, Cachable) + calls,
         Cardinality(Stored)' = Cardinality(Stored) + stored,
         lost' = lost + losses,
         Progress(s) + calls <= Modules * (stored + losses) + Progress(s)'
  PROVE  WorkInv'
<1> DEFINE T == Total(made, Cachable)
           C == Cardinality(Stored)
           P == Sum(Progresses, Slots)
           q == Progress(s)
<1>1. /\ P' = P + q' - q /\ P \in Nat /\ q \in Nat /\ q' \in Nat
  BY ProgressChange
<1>2. T \in Nat /\ C \in Nat /\ lost \in Nat /\ Modules \in Nat
  BY TotalType, StoredFinite, EvaluationsAssumption DEF BaseInv, TypeOK
<1>3. T <= Modules * (C + lost) + P
  BY DEF WorkInv
<1>4. T' = T + calls /\ C' = C + stored /\ lost' = lost + losses
      /\ q + calls <= Modules * (stored + losses) + q'
  OBVIOUS
<1>5. WorkInv' <=> T' <= Modules * (C' + lost') + P'
  BY DEF WorkInv
<1> HIDE DEF T, C, P, q
<1>6. Modules * (C' + lost') = Modules * (C + lost) + Modules * (stored + losses)
  <2>1. C' + lost' = (C + lost) + (stored + losses)
    BY <1>2, <1>4
  <2> DEFINE a == C + lost
             b == stored + losses
  <2>2. a \in Nat /\ b \in Nat
    BY <1>2
  <2> HIDE DEF a, b
  <2>3. Modules * (a + b) = Modules * a + Modules * b
    BY <1>2, <2>2
  <2> QED BY <2>1, <2>3 DEF a, b
<1>7. Modules * (C + lost) \in Nat /\ Modules * (stored + losses) \in Nat
  BY <1>2
<1> DEFINE X == Modules * (C + lost)
           Y == Modules * (stored + losses)
<1>8. /\ T \in Nat /\ X \in Nat /\ Y \in Nat
      /\ T <= X + P /\ T' = T + calls /\ q + calls <= Y + q'
  BY <1>2, <1>3, <1>4, <1>7
<1> HIDE DEF X, Y
<1>9. T' <= (X + Y) + P'
  BY <1>1, <1>8, WorkArithmetic
<1> QED BY <1>5, <1>6, <1>9 DEF X, Y

(* A step with no call, no entry and no loss, that keeps the progress.     *)
LEMMA WorkSame ==
  ASSUME BaseInv, WorkInv, NEW s \in Slots, slot' \in [Slots -> SlotRecords],
         batch' = batch, \A t \in Slots : t # s => slot'[t] = slot[t],
         UNCHANGED <<made, entry, lost>>, Progress(s) <= Progress(s)'
  PROVE  WorkInv'
<1>1. Progress(s) \in Nat /\ Progress(s)' \in Nat
  BY ProgressChange
<1>2. Cachable' = Cachable /\ Stored' = Stored
  BY DEF Cachable, UsesCache, Stored
<1>3. /\ Total(made, Cachable)' = Total(made, Cachable) + 0
      /\ Cardinality(Stored)' = Cardinality(Stored) + 0 /\ lost' = lost + 0
  BY <1>2, TotalType, StoredFinite DEF BaseInv, TypeOK
<1>4. Modules * (0 + 0) = 0
  BY EvaluationsAssumption
<1>5. Progress(s) + 0 <= Modules * (0 + 0) + Progress(s)'
  BY <1>1, <1>4
<1> QED BY <1>3, <1>5, WorkOne

(* What a slot has to show for its calls.                                  *)
LEMMA ProgressIs ==
  ASSUME NEW s \in Slots
  PROVE  /\ slot[s].pc \in {"idle", "lookup", "scores"} => Progress(s) = 0
         /\ ~UsesCache(Evaluation(s)) => Progress(s) = 0
         /\ slot[s].pc = "call" /\ UsesCache(Evaluation(s))
              => Progress(s) = slot[s].module - 1
         /\ slot[s].pc \in {"log", "bill"} /\ UsesCache(Evaluation(s))
              => Progress(s) = slot[s].module
         /\ slot[s].pc \in Storing /\ UsesCache(Evaluation(s))
              => Progress(s) = Modules
BY DEF Progress, Caching, Running, At, Storing

(* The same after the step.                                                *)
LEMMA ProgressIsNext ==
  ASSUME NEW s \in Slots
  PROVE  /\ slot'[s].pc \in {"idle", "lookup", "scores"} => Progress(s)' = 0
         /\ ~UsesCache(Evaluation(s)') => Progress(s)' = 0
         /\ slot'[s].pc = "call" /\ UsesCache(Evaluation(s)')
              => Progress(s)' = slot'[s].module - 1
         /\ slot'[s].pc \in {"log", "bill"} /\ UsesCache(Evaluation(s)')
              => Progress(s)' = slot'[s].module
         /\ slot'[s].pc \in Storing /\ UsesCache(Evaluation(s)')
              => Progress(s)' = Modules
BY DEF Progress, Caching, Running, At, Storing, UsesCache, Slots

(* A step of a slot keeps the balance.                                     *)
LEMMA WorkSlotStep ==
  ASSUME BaseInv, FilesInv, WorkInv, NEW s \in Slots, SlotStep(s)
  PROVE  WorkInv'
<1>1. /\ slot[s] \in SlotRecords /\ made \in Books
      /\ slot[s].module \in 1 .. Modules /\ Modules \in Nat
      /\ slot[s].module \in Nat /\ lost \in Nat /\ Modules >= 1
      /\ entry \in [Keys -> Whole \cup {Torn}]
  BY EvaluationsAssumption DEF BaseInv, TypeOK, Books, SlotRecords
<1>2. ASSUME NEW r, GoesOn(s, r), UNCHANGED <<made, entry, lost>>,
             Progress(s) <= Progress(s)'
      PROVE  WorkInv'
  <2>1. /\ slot' \in [Slots -> SlotRecords] /\ batch' = batch
        /\ \A t \in Slots : t # s => slot'[t] = slot[t]
    BY <1>2, GoesOnKeeps
  <2> QED BY <1>2, <2>1, WorkSame
<1>3. ASSUME NEW r, GoesOn(s, r)
      PROVE  slot'[s] = r /\ Evaluation(s)' = Evaluation(s)
             /\ (UsesCache(Evaluation(s)') <=> UsesCache(Evaluation(s)))
  BY <1>3, GoesOnKeeps
<1>4. CASE Start(s)
  <2>1. /\ slot'[s].pc = "lookup" /\ slot[s].pc = "idle"
        /\ slot' \in [Slots -> SlotRecords] /\ batch' = batch
        /\ \A t \in Slots : t # s => slot'[t] = slot[t]
    BY <1>4, StartKeeps DEF Fresh, Idle, Start, At
  <2>2. Progress(s) = 0 /\ Progress(s)' = 0
    BY <2>1, ProgressIs, ProgressIsNext
  <2>3. UNCHANGED <<made, entry, lost>>
    BY <1>4 DEF Start, files, books, history
  <2> QED BY <2>1, <2>2, <2>3, WorkSame
<1>5. CASE Hit(s)
  <2> DEFINE r == Taken(s, Cached(s),
                        [slot[s].memory EXCEPT ![Key(s)] = Cached(s)])
  <2>1. GoesOn(s, r) /\ UNCHANGED <<made, entry, lost>> /\ slot[s].pc = "lookup"
    BY <1>5, HitMoves DEF Hit, files, books, history, At
  <2>2. r.pc = "lookup"
    BY <1>1 DEF Taken, SlotRecords
  <2> HIDE DEF r
  <2>3. Progress(s) = 0 /\ Progress(s)' = 0
    BY <1>3, <2>1, <2>2, ProgressIs, ProgressIsNext
  <2> QED BY <1>2, <2>1, <2>3
<1>6. CASE Miss(s)
  <2> DEFINE r == [slot[s] EXCEPT !.pc = "call", !.module = 1]
  <2>1. GoesOn(s, r) /\ UNCHANGED <<made, entry, lost>> /\ slot[s].pc = "lookup"
    BY <1>6, MissMoves DEF Miss, files, books, history, At
  <2>2. r.pc = "call" /\ r.module = 1
    BY <1>1 DEF SlotRecords
  <2> HIDE DEF r
  <2>3. Progress(s) = 0 /\ Progress(s)' = 0
    <3>1. Progress(s) = 0
      BY <2>1, ProgressIs
    <3>2. slot'[s].pc = "call" /\ slot'[s].module - 1 = 0
      BY <1>3, <2>1, <2>2
    <3> QED BY <3>1, <3>2, ProgressIsNext
  <2> QED BY <1>2, <2>1, <2>3
<1>7. CASE CallModule(s)
  <2>1. s \in Running /\ slot[s].pc = "call"
    BY <1>7 DEF CallModule, Running, At
  <2> DEFINE r == WithPc(s, "log")
  <2>2. GoesOn(s, r)
    BY <1>7, <2>1, LabelMoves DEF CallModule
  <2>3. r.pc = "log" /\ r.module = slot[s].module
    BY <1>1 DEF WithPc, SlotRecords
  <2> HIDE DEF r
  <2>4. /\ slot' \in [Slots -> SlotRecords] /\ batch' = batch
        /\ \A t \in Slots : t # s => slot'[t] = slot[t]
    BY <2>2, GoesOnKeeps
  <2> DEFINE calls == IF UsesCache(Evaluation(s)) THEN 1 ELSE 0
  <2>5. Total(made, Cachable)' = Total(made, Cachable) + calls /\ calls \in Nat
    <3>1. made' = Add(made, s) /\ Cachable' = Cachable
      BY <1>7 DEF CallModule, Cachable, UsesCache
    <3>2. Evaluation(s) \in Cachable <=> UsesCache(Evaluation(s))
      BY <2>1, RunningKey DEF Cachable
    <3>3. Total(Add(made, s), Cachable) =
            Total(made, Cachable) + IF Evaluation(s) \in Cachable THEN 1 ELSE 0
      BY <1>1, <2>1, TotalAdd, StoredFinite
    <3> QED BY <3>1, <3>2, <3>3
  <2>6. UNCHANGED <<entry, lost>>
    BY <1>7 DEF CallModule, files, history
  <2>7. /\ Cardinality(Stored)' = Cardinality(Stored) + 0 /\ lost' = lost + 0
    BY <1>1, <2>6, StoredFinite DEF Stored
  <2>8. Modules * (0 + 0) = 0
    BY <1>1
  <2>9. Progress(s) + calls = Progress(s)' /\ Progress(s)' \in Nat
    <3>1. slot'[s].pc = "log" /\ slot'[s].module = slot[s].module
          /\ (UsesCache(Evaluation(s)') <=> UsesCache(Evaluation(s)))
      BY <1>3, <2>2, <2>3
    <3>2. CASE UsesCache(Evaluation(s))
      <4>1. Progress(s) = slot[s].module - 1 /\ Progress(s)' = slot[s].module
        BY <2>1, <3>1, <3>2, ProgressIs, ProgressIsNext
      <4> QED BY <1>1, <3>2, <4>1
    <3>3. CASE ~UsesCache(Evaluation(s))
      <4>1. Progress(s) = 0 /\ Progress(s)' = 0
        BY <3>1, <3>3, ProgressIs, ProgressIsNext
      <4> QED BY <3>3, <4>1
    <3> QED BY <3>2, <3>3
  <2> HIDE DEF calls
  <2>10. Progress(s) + calls <= Modules * (0 + 0) + Progress(s)'
    BY <2>8, <2>9
  <2> QED BY <2>4, <2>5, <2>7, <2>10, WorkOne
<1>8. CASE WriteLog(s)
  <2>1. s \in Running /\ slot[s].pc = "log" /\ UNCHANGED <<made, entry, lost>>
    BY <1>8 DEF WriteLog, Running, At, files, history
  <2> DEFINE r == WithPc(s, "bill")
  <2>2. GoesOn(s, r)
    BY <1>8, <2>1, LabelMoves DEF WriteLog
  <2>3. r.pc = "bill" /\ r.module = slot[s].module
    BY <1>1 DEF WithPc, SlotRecords
  <2> HIDE DEF r
  <2>4. Progress(s) <= Progress(s)'
    <3>1. slot'[s].pc = "bill" /\ slot'[s].module = slot[s].module
          /\ (UsesCache(Evaluation(s)') <=> UsesCache(Evaluation(s)))
      BY <1>3, <2>2, <2>3
    <3> QED BY <1>1, <2>1, <3>1, ProgressIs, ProgressIsNext
  <2> QED BY <1>2, <2>1, <2>2, <2>4
<1>9. CASE WriteLedger(s)
  <2>1. s \in Running /\ slot[s].pc = "bill" /\ UNCHANGED <<made, entry, lost>>
    BY <1>9 DEF WriteLedger, Running, At, files, history
  <2>2. PICK r : /\ GoesOn(s, r)
                 /\ NextCall(s, r) \/ ToStore(s, r) \/ ToTake(s, r)
    BY <1>9, LedgerMoves
  <2>3. slot'[s] = r /\ (UsesCache(Evaluation(s)') <=> UsesCache(Evaluation(s)))
    BY <1>3, <2>2
  <2>4. CASE NextCall(s, r)
    <3>1. r.pc = "call" /\ r.module - 1 = slot[s].module
      BY <1>1, <2>4 DEF NextCall, SlotRecords
    <3>2. Progress(s) <= Progress(s)'
      BY <1>1, <2>1, <2>3, <3>1, ProgressIs, ProgressIsNext
    <3> QED BY <1>2, <2>1, <2>2, <3>2
  <2>5. CASE ToStore(s, r)
    <3>1. r.pc \in Storing /\ UsesCache(Evaluation(s)) /\ slot[s].module = Modules
      BY <1>1, <2>5 DEF ToStore, SlotRecords, Storing, LastModule
    <3>2. Progress(s) = Modules /\ Progress(s)' = Modules
      BY <2>1, <2>3, <3>1, ProgressIs, ProgressIsNext
    <3> QED BY <1>1, <1>2, <2>1, <2>2, <3>2
  <2>6. CASE ToTake(s, r)
    <3>1. ~UsesCache(Evaluation(s))
      BY <2>6 DEF ToTake
    <3>2. Progress(s) = 0 /\ Progress(s)' = 0
      BY <2>3, <3>1, ProgressIs, ProgressIsNext
    <3> QED BY <1>2, <2>1, <2>2, <3>2
  <2> QED BY <2>2, <2>4, <2>5, <2>6
<1>10. ASSUME slot[s].pc \in Storing, NEW label \in {"write", "replace"},
              GoesOn(s, WithPc(s, label)), UNCHANGED <<made, entry, lost>>
       PROVE  WorkInv'
  <2> DEFINE r == WithPc(s, label)
  <2>1. r.pc \in Storing /\ GoesOn(s, r)
    BY <1>1, <1>10 DEF WithPc, SlotRecords, Storing
  <2>2. s \in Working /\ LocalOK(s)
    BY <1>10 DEF Working, Storing, BaseInv, LocalInv
  <2>3. UsesCache(Evaluation(s))
    BY <1>10, <2>2 DEF LocalOK
  <2> HIDE DEF r
  <2>4. slot'[s] = r /\ UsesCache(Evaluation(s)')
    BY <1>3, <2>1, <2>3
  <2>5. Progress(s) = Modules /\ Progress(s)' = Modules
    BY <1>10, <2>1, <2>3, <2>4, ProgressIs, ProgressIsNext
  <2> QED BY <1>1, <1>2, <1>10, <2>1, <2>5
<1>11. CASE OpenTemp(s)
  <2>1. GoesOn(s, WithPc(s, "write")) /\ UNCHANGED <<made, entry, lost>>
        /\ slot[s].pc \in Storing
    BY <1>11, StoringMoves DEF OpenTemp, At, Storing, books, history
  <2> QED BY <1>10, <2>1
<1>12. CASE WriteTemp(s)
  <2>1. GoesOn(s, WithPc(s, "replace")) /\ UNCHANGED <<made, entry, lost>>
        /\ slot[s].pc \in Storing
    BY <1>12, StoringMoves DEF WriteTemp, At, Storing, books, history
  <2> QED BY <1>10, <2>1
<1>13. CASE Replace(s)
  <2> DEFINE p == slot[s].current
             r == Taken(s, p, Remembered(s))
  <2>1. GoesOn(s, r) /\ p \in Predictions /\ UsesCache(Evaluation(s))
    BY <1>13, ReplaceMoves
  <2>2. /\ slot[s].pc \in Storing /\ s \in Running /\ UNCHANGED <<made, lost>>
        /\ At(s, "replace")
    BY <1>13 DEF Replace, At, Running, Storing, books, history
  <2>3. Key(s) \in Keys /\ SlotFiles(s)
    BY <2>2, RunningKey DEF FilesInv
  <2>4. temp[Key(s)] = p /\ entry[Key(s)] = Absent /\ p # Absent
    BY <2>1, <2>2, <2>3, FilesAssumption DEF SlotFiles
  <2>5. entry' = [entry EXCEPT ![Key(s)] = p]
    BY <1>13, <2>4 DEF Replace
  <2>6. r.pc = "lookup"
    BY <1>1 DEF Taken, SlotRecords
  <2> HIDE DEF r, p
  <2>7. Stored' = Stored \cup {Key(s)} /\ Key(s) \notin Stored
    BY <1>1, <2>3, <2>4, <2>5 DEF Stored
  <2>8. Cardinality(Stored)' = Cardinality(Stored) + 1
    <3> DEFINE S == Stored
               k == Key(s)
    <3>1. IsFiniteSet(S) /\ k \notin S /\ S' = S \cup {k}
      BY <2>7, StoredFinite
    <3> HIDE DEF S, k
    <3>2. Cardinality(S \cup {k}) = Cardinality(S) + 1
      BY <3>1, FS_AddElement
    <3>3. Cardinality(S)' = Cardinality(S) + 1
      BY <3>1, <3>2
    <3> QED BY <3>3 DEF S
  <2>9. Progress(s) = Modules /\ Progress(s)' = 0
    BY <1>3, <2>1, <2>2, <2>6, ProgressIs, ProgressIsNext
  <2>10. /\ slot' \in [Slots -> SlotRecords] /\ batch' = batch
         /\ \A t \in Slots : t # s => slot'[t] = slot[t]
    BY <2>1, GoesOnKeeps
  <2>11. Total(made, Cachable)' = Total(made, Cachable) + 0 /\ lost' = lost + 0
    <3>1. Cachable' = Cachable
      BY DEF Cachable, UsesCache
    <3> QED BY <1>1, <2>2, <3>1, TotalType, StoredFinite
  <2>12. Progress(s) + 0 <= Modules * (1 + 0) + Progress(s)'
    BY <1>1, <2>9
  <2> QED BY <2>8, <2>10, <2>11, <2>12, WorkOne
<1>14. CASE OpenScores(s)
  <2> DEFINE r == WithPc(s, "scores")
  <2>1. GoesOn(s, r) /\ UNCHANGED <<made, entry, lost>> /\ slot[s].pc = "lookup"
    BY <1>14, OpenScoresMoves DEF OpenScores, files, books, history, At
  <2>2. r.pc = "scores"
    BY <1>1 DEF WithPc, SlotRecords
  <2> HIDE DEF r
  <2>3. Progress(s) = 0 /\ Progress(s)' = 0
    BY <1>3, <2>1, <2>2, ProgressIs, ProgressIsNext
  <2> QED BY <1>2, <2>1, <2>3
<1>15. CASE WriteScores(s)
  <2>1. Stops(s, [Idle EXCEPT !.memory = slot[s].memory])
    BY <1>15, WriteScoresMoves
  <2>2. /\ slot' \in [Slots -> SlotRecords] /\ batch' = batch
        /\ \A t \in Slots : t # s => slot'[t] = slot[t]
        /\ slot'[s].pc = "idle"
    BY <2>1, StopsKeeps DEF Stops
  <2>3. UNCHANGED <<made, entry, lost>> /\ slot[s].pc = "scores"
    BY <1>15 DEF WriteScores, files, books, history, At
  <2>4. Progress(s) = 0 /\ Progress(s)' = 0
    BY <2>2, <2>3, ProgressIs, ProgressIsNext
  <2> QED BY <2>2, <2>3, <2>4, WorkSame
<1> QED BY <1>4, <1>5, <1>6, <1>7, <1>8, <1>9, <1>11, <1>12, <1>13, <1>14, <1>15
        DEF SlotStep

(* No slot works: none has progress to show.                               *)
LEMMA ProgressAtRest ==
  ASSUME BaseInv, Working' = {}
  PROVE  Sum(Progresses, Slots)' = 0
<1>1. \A s \in Slots : Progress(s)' = 0
  <2>1. \A s \in Slots : slot'[s].pc = "idle"
    BY DEF Working
  <2> QED BY <2>1, ProgressIsNext
<1> DEFINE h == Progresses'
<1>2. h \in [Slots -> Nat] /\ \A s \in Slots : h[s] = 0
  BY <1>1 DEF Progresses, Slots
<1>3. Sum(Progresses, Slots)' = Sum(h, Slots)
  BY DEF Slots
<1> HIDE DEF h
<1>4. Sum(h, Slots) <= 0 * Cardinality({}) /\ Cardinality({}) = 0
  <2>1. \A s \in Slots : h[s] <= IF s \in {} THEN 0 ELSE 0
    BY <1>2
  <2>2. Sum(h, Slots) <= 0 * Cardinality({})
    BY <1>2, <2>1, RunningFinite, SumBound
  <2> QED BY <2>2, CardinalityZero
<1>5. Sum(h, Slots) \in Nat
  BY <1>2, RunningFinite, SumIs
<1> QED BY <1>3, <1>4, <1>5

(* What is under way is at most a whole program for each run.              *)
LEMMA ProgressBound ==
  ASSUME BaseInv
  PROVE  /\ Sum(Progresses, Slots) <= Modules * Cardinality(Caching)
         /\ Sum(Progresses, Slots) \in Nat
         /\ Cardinality(Caching) \in Nat
         /\ Cardinality(Caching) <= Cardinality(Running)
<1>1. /\ Progresses \in [Slots -> Nat] /\ \A s \in Slots : Progress(s) <= Modules
      /\ IsFiniteSet(Slots) /\ Modules \in Nat
  BY ProgressType, RunningFinite, EvaluationsAssumption DEF BaseInv, TypeOK
<1>2. Caching \in SUBSET Slots /\ Caching \in SUBSET Running
  BY DEF Caching, Running
<1>3. \A s \in Slots : Progresses[s] <= IF s \in Caching THEN Modules ELSE 0
  BY <1>1 DEF Progresses, Progress
<1>4. Sum(Progresses, Slots) <= Modules * Cardinality(Caching)
  BY <1>1, <1>2, <1>3, SumBound
<1>5. Sum(Progresses, Slots) \in Nat
  BY <1>1, SumIs
<1>6. /\ Cardinality(Caching) \in Nat
      /\ Cardinality(Caching) <= Cardinality(Running)
  BY <1>1, <1>2, RunningFinite, FS_Subset, FS_CardinalityType
<1> QED BY <1>4, <1>5, <1>6

(* Products of natural numbers.                                            *)
LEMMA Distributes ==
  \A m, a, b \in Nat : /\ m * (a + b) = m * a + m * b /\ m * a \in Nat
                       /\ a <= b => m * a <= m * b
<1>1. ASSUME NEW m \in Nat, NEW a \in Nat, NEW b \in Nat, a <= b
      PROVE  m * a <= m * b
  <2>1. PICK c \in Nat : b = a + c
    <3>1. b - a \in Nat /\ b = a + (b - a)
      BY <1>1
    <3> QED BY <3>1
  <2>2. m * b = m * a + m * c /\ m * a \in Nat /\ m * c \in Nat
    BY <2>1
  <2> QED BY <2>2
<1> QED BY <1>1

(* Nothing works after the step, and what was lost is counted.             *)
LEMMA WorkAtRest ==
  ASSUME BaseInv, WorkInv, UNCHANGED <<made, entry>>, Working' = {},
         lost' \in Nat,
         lost' >= lost + Cardinality(Running) \/ (lost' = lost /\ Working = {})
  PROVE  WorkInv'
<1> DEFINE T == Total(made, Cachable)
           C == Cardinality(Stored)
           P == Sum(Progresses, Slots)
           n == Cardinality(Caching)
<1>1. /\ T \in Nat /\ C \in Nat /\ lost \in Nat /\ Modules \in Nat
      /\ P \in Nat /\ n \in Nat
      /\ T <= Modules * (C + lost) + P /\ P <= Modules * n
  BY TotalType, StoredFinite, ProgressBound, EvaluationsAssumption
     DEF BaseInv, TypeOK, WorkInv
<1>2. n <= Cardinality(Running) /\ Cardinality(Running) \in Nat
  BY ProgressBound, RunningFinite
<1>3. lost + n <= lost'
  <2>1. CASE Working = {}
    <3>1. Caching = {}
      BY <2>1 DEF Caching, Running, Working
    <3>2. n = 0
      BY <3>1, CardinalityZero
    <3> QED BY <1>1, <1>2, <3>2
  <2> QED BY <1>1, <1>2, <2>1
<1>4. T' = T /\ C' = C /\ P' = 0
  <2>1. Cachable' = Cachable /\ Stored' = Stored
    BY DEF Cachable, UsesCache, Stored
  <2> QED BY <2>1, ProgressAtRest
<1>5. WorkInv' <=> T' <= Modules * (C' + lost') + P'
  BY DEF WorkInv
<1> HIDE DEF T, C, P, n
<1> DEFINE a == C + lost
           b == C + lost'
<1>6. a \in Nat /\ b \in Nat /\ a + n \in Nat /\ a + n <= b
  <2>1. C \in Nat /\ lost \in Nat /\ lost' \in Nat /\ n \in Nat
    BY <1>1
  <2>2. \A c, l0, l1, m \in Nat : l0 + m <= l1 => (c + l0) + m <= c + l1
    OBVIOUS
  <2>3. a + n <= b
    BY <1>3, <2>1, <2>2
  <2>4. \A c, l \in Nat : c + l \in Nat
    OBVIOUS
  <2>5. a \in Nat /\ b \in Nat
    BY <2>1, <2>4
  <2>6. a + n \in Nat
    BY <2>1, <2>4, <2>5
  <2> QED BY <2>3, <2>5, <2>6
<1>7. b = C' + lost' /\ T <= Modules * a + P
  BY <1>1, <1>4
<1> HIDE DEF a, b
<1>8. Modules * (a + n) = Modules * a + Modules * n
      /\ Modules * (a + n) <= Modules * b
      /\ Modules * a \in Nat /\ Modules * n \in Nat /\ Modules * b \in Nat
  BY <1>1, <1>6, Distributes
<1> DEFINE X == Modules * a
           Y == Modules * n
           Z == Modules * b
<1>9. /\ X \in Nat /\ Y \in Nat /\ Z \in Nat /\ X + Y <= Z
      /\ T <= X + P /\ P <= Y
  BY <1>1, <1>7, <1>8
<1> HIDE DEF X, Y, Z
<1>10. T <= Z
  BY <1>1, <1>9
<1>11. T' <= Z + P'
  BY <1>4, <1>9, <1>10
<1> QED BY <1>5, <1>7, <1>11 DEF Z

(* No call has been made in the beginning.                                 *)
LEMMA WorkInit == Init => WorkInv
<1> SUFFICES ASSUME Init PROVE WorkInv
  OBVIOUS
<1>1. Total(made, Cachable) = 0
  BY NoLinesTotal, StoredFinite DEF Init
<1>2. Progresses \in [Slots -> Nat] /\ lost = 0
  BY ProgressType, BaseInit DEF BaseInv, TypeOK, Init
<1>3. Sum(Progresses, Slots) \in Nat
  BY <1>2, RunningFinite, SumIs
<1>4. Modules * (Cardinality(Stored) + lost) \in Nat
  BY <1>2, StoredFinite, EvaluationsAssumption
<1> QED BY <1>1, <1>3, <1>4 DEF WorkInv

(* Every step keeps the balance.                                           *)
LEMMA WorkStep == BaseInv /\ FilesInv /\ WorkInv /\ [Next]_vars => WorkInv'
<1> SUFFICES ASSUME BaseInv, FilesInv, WorkInv, [Next]_vars PROVE WorkInv'
  OBVIOUS
<1>0. lost \in Nat /\ faults \in Nat /\ made \in Books
  BY DEF BaseInv, TypeOK, Books
<1>1. ASSUME UNCHANGED <<made, entry, lost, slot, batch>> PROVE WorkInv'
  <2>1. Cachable' = Cachable /\ Stored' = Stored
    BY <1>1 DEF Cachable, UsesCache, Stored
  <2>2. Progresses' = Progresses
    <3>1. \A s \in Slots : Progress(s)' = Progress(s)
      BY <1>1, SlotFrame DEF Progress, Caching, UsesCache
    <3> QED BY <3>1 DEF Progresses, Slots
  <2>3. Sum(Progresses, Slots)' = Sum(Progresses, Slots)
    BY <2>2 DEF Slots
  <2> QED BY <1>1, <2>1, <2>3 DEF WorkInv
<1>2. ASSUME NEW s \in Slots, RunnerRaises(s) PROVE WorkInv'
  <2>1. s \in Running /\ slot[s].pc = "call"
    BY <1>2 DEF RunnerRaises, Running, At
  <2>2. /\ slot'[s].pc = "idle" /\ batch' = batch
        /\ \A t \in Slots : t # s => slot'[t] = slot[t]
        /\ slot' \in [Slots -> SlotRecords]
    BY <1>2, RunnerRaisesMoves, StopsKeeps, IdleType
  <2> DEFINE calls == IF UsesCache(Evaluation(s)) THEN 1 ELSE 0
  <2>3. Total(made, Cachable)' = Total(made, Cachable) + calls /\ calls \in Nat
    <3>1. made' = Add(made, s) /\ Cachable' = Cachable
      BY <1>2 DEF RunnerRaises, Cachable, UsesCache
    <3>2. Evaluation(s) \in Cachable <=> UsesCache(Evaluation(s))
      BY <2>1, RunningKey DEF Cachable
    <3>3. Total(Add(made, s), Cachable) =
            Total(made, Cachable) + IF Evaluation(s) \in Cachable THEN 1 ELSE 0
      BY <1>0, <2>1, TotalAdd, StoredFinite
    <3> QED BY <3>1, <3>2, <3>3
  <2>4. entry' = entry /\ lost' = lost + 1
    BY <1>2 DEF RunnerRaises, files
  <2>5. Cardinality(Stored)' = Cardinality(Stored) + 0
    BY <2>4, StoredFinite DEF Stored
  <2>6. Progress(s) + calls <= Modules /\ Progress(s)' = 0 /\ Modules \in Nat
    <3>1. /\ Progress(s)' = 0 /\ Modules \in Nat /\ Modules >= 1
          /\ slot[s].module \in 1 .. Modules
      BY <2>1, <2>2, ProgressIsNext, EvaluationsAssumption
         DEF Running, BaseInv, TypeOK, SlotRecords
    <3>2. CASE UsesCache(Evaluation(s))
      <4>1. Progress(s) = slot[s].module - 1
        BY <2>1, <3>2, ProgressIs
      <4> QED BY <3>1, <3>2, <4>1
    <3>3. CASE ~UsesCache(Evaluation(s))
      <4>1. Progress(s) = 0
        BY <3>3, ProgressIs
      <4> QED BY <3>1, <3>3, <4>1
    <3> QED BY <3>2, <3>3
  <2> HIDE DEF calls
  <2>7. Progress(s) + calls <= Modules * (0 + 1) + Progress(s)'
    BY <2>3, <2>6
  <2> QED BY <2>2, <2>3, <2>4, <2>5, <2>7, WorkOne
<1>3. CASE NextBatch
  BY <1>0, <1>3, NextBatchKeeps, WorkAtRest DEF NextBatch, files, books, history
<1>4. CASE Shutdown
  BY <1>0, <1>4, DownKeeps, WorkAtRest
     DEF Shutdown, GoDown, files, books, history
<1>5. CASE Interrupt
  <2>1. lost' = lost + Cardinality(Running) /\ faults' = faults + 1 /\ GoDown
    BY <1>5 DEF Interrupt
  <2>2. UNCHANGED <<made, entry>>
    BY <2>1 DEF GoDown, files, books
  <2> QED BY <1>0, <2>1, <2>2, DownKeeps, RunningFinite, WorkAtRest
<1>6. CASE Surface
  BY <1>1, <1>6 DEF Surface, files, books, history
<1>7. CASE Restart
  BY <1>1, <1>7 DEF Restart, files, books, history
<1>8. CASE UNCHANGED vars
  BY <1>1, <1>8 DEF vars
<1> QED BY <1>2, <1>3, <1>4, <1>5, <1>6, <1>7, <1>8, WorkSlotStep
        DEF Next, Step, Over

(* A cached run is at a key of its own that is not stored yet.             *)
LEMMA CachingKeys ==
  ASSUME BaseInv, FilesInv
  PROVE  Cardinality(Stored) + Cardinality(Caching) <= Cardinality(Keys)
<1> DEFINE Open == Keys \ Stored
           at == [s \in Caching |-> Key(s)]
<1>1. IsFiniteSet(Keys) /\ IsFiniteSet(Open) /\ Stored \in SUBSET Keys
  BY EvaluationsAssumption, FS_Subset DEF Stored
<1>2. Cardinality(Open) = Cardinality(Keys) - Cardinality(Stored)
  <2>1. Keys \cap Stored = Stored
    BY <1>1
  <2> QED BY <1>1, <2>1, FS_Difference
<1>3. \A s \in Caching : Key(s) \in Open
  <2>1. ASSUME NEW s \in Caching PROVE Key(s) \in Open
    <3>1. s \in Running /\ UsesCache(Evaluation(s)) /\ s \in Slots
      BY DEF Caching, Running
    <3>2. Key(s) \in Keys /\ SlotFiles(s)
      BY <3>1, RunningKey DEF FilesInv
    <3> QED BY <3>1, <3>2 DEF SlotFiles, Stored
  <2> QED BY <2>1
<1>4. \A s, t \in Caching : Key(s) = Key(t) => s = t
  BY OtherKey DEF Caching
<1>5. at \in Injection(Caching, Open)
  BY <1>3, <1>4 DEF Injection, IsInjective
<1>6. Cardinality(Caching) <= Cardinality(Open)
  <2> HIDE DEF at, Open
  <2> QED BY <1>1, <1>5, FS_Injection
<1>7. Cardinality(Keys) \in Nat /\ Cardinality(Stored) \in Nat
      /\ Cardinality(Caching) \in Nat
  BY <1>1, StoredFinite, ProgressBound, FS_CardinalityType
<1> QED BY <1>2, <1>6, <1>7

(* In every state of every run, with interruptions and exceptions          *)
(* anywhere, the calls made for evaluations with the cache are those of    *)
(* one run of the program for each key and for each run that was cut       *)
(* short: nothing that was stored is paid for again.                       *)
THEOREM WorkIsKeptAlways == Spec => []WorkIsKept
<1> DEFINE Inv == BaseInv /\ FilesInv /\ WorkInv
<1>1. Init => Inv
  BY BaseInit, FilesInit, WorkInit
<1>2. Inv /\ [Next]_vars => Inv'
  BY BaseStep, FilesStep, WorkStep
<1>3. ASSUME Inv PROVE WorkIsKept
  <2> DEFINE T == Total(made, Cachable)
             C == Cardinality(Stored)
             P == Sum(Progresses, Slots)
             n == Cardinality(Caching)
             k == Cardinality(Keys)
             a == C + lost
             b == k + lost
  <2>1. /\ T \in Nat /\ C \in Nat /\ lost \in Nat /\ Modules \in Nat
        /\ P \in Nat /\ n \in Nat /\ k \in Nat
        /\ T <= Modules * a + P /\ P <= Modules * n /\ C + n <= k
    BY <1>3, TotalType, StoredFinite, ProgressBound, EvaluationsAssumption,
       CachingKeys, FS_CardinalityType DEF BaseInv, TypeOK, WorkInv
  <2>2. a \in Nat /\ b \in Nat /\ a + n \in Nat /\ a + n <= b
    BY <2>1
  <2>3. WorkIsKept <=> T <= Modules * b
    BY DEF WorkIsKept, Cachable
  <2> HIDE DEF T, C, P, n, k, a, b
  <2>4. Modules * (a + n) = Modules * a + Modules * n
        /\ Modules * (a + n) <= Modules * b
        /\ Modules * a \in Nat /\ Modules * n \in Nat /\ Modules * b \in Nat
    BY <2>1, <2>2, Distributes
  <2> DEFINE X == Modules * a
             Y == Modules * n
             Z == Modules * b
  <2>5. /\ X \in Nat /\ Y \in Nat /\ Z \in Nat /\ X + Y <= Z
        /\ T <= X + P /\ P <= Y
    BY <2>1, <2>4
  <2> HIDE DEF X, Y, Z
  <2>6. T <= Z
    BY <2>1, <2>5
  <2> QED BY <2>3, <2>6 DEF Z
<1> QED
  <2>1. Spec => []Inv
    BY <1>1, <1>2, PTL DEF Spec
  <2>2. Inv => WorkIsKept
    BY <1>3
  <2> QED BY <2>1, <2>2, PTL
====
