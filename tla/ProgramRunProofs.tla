-------------------------- MODULE ProgramRunProofs --------------------------
(***************************************************************************)
(* What modules are shown, what a prediction vouches for and what a field  *)
(* ablation takes away, for every program, schema, set of examples,        *)
(* validation policy and set of ablations.                                 *)
(***************************************************************************)
EXTENDS ProgramRun, FiniteSetTheorems, TLAPS

-----------------------------------------------------------------------------
(* Least and greatest positions *)

(* The naturals are well founded.                                          *)
LEMMA NatWellFounded == IsWellFoundedOn({p \in Nat \X Nat : p[1] < p[2]}, Nat)
  BY NatLessThanWellFounded, Zenon DEF OpToRel

(* Every set of naturals that is not empty has a least element.            *)
LEMMA LeastNumber ==
  ASSUME NEW T, T \subseteq Nat, T # {}
  PROVE  \E m \in T : \A n \in T : m <= n
<1> DEFINE R == {p \in Nat \X Nat : p[1] < p[2]}
<1>1. PICK m \in T : \A n \in T : <<n, m>> \notin R
  BY NatWellFounded, WFMin
<1>2. \A n \in T : ~(n < m)
  BY <1>1
<1> QED BY <1>2

(* Min is the least element.                                               *)
LEMMA MinIsLeast ==
  ASSUME NEW T, T \subseteq Nat, T # {}
  PROVE  Min(T) \in T /\ \A n \in T : Min(T) <= n
<1>1. \E m \in T : \A n \in T : m <= n
  BY LeastNumber
<1>2. QED BY <1>1 DEF Min

(* Max is the greatest element of a set that has a bound.                  *)
LEMMA MaxIsGreatest ==
  ASSUME NEW bound \in Nat, NEW T, T \subseteq 0 .. bound, T # {}
  PROVE  Max(T) \in T /\ \A n \in T : Max(T) >= n
<1> DEFINE Mirror == {bound - n : n \in T}
<1>1. Mirror \subseteq Nat /\ Mirror # {}
  <2>1. \A n \in T : bound - n \in Nat
    OBVIOUS
  <2>2. QED BY <2>1
<1>2. PICK m \in Mirror : \A n \in Mirror : m <= n
  BY <1>1, LeastNumber
<1>3. \E x \in T : \A n \in T : x >= n
  <2>1. PICK x \in T : m = bound - x
    BY <1>2
  <2>2. ASSUME NEW n \in T PROVE x >= n
    <3>1. m <= bound - n
      BY <1>2
    <3>2. QED BY <3>1, <2>1
  <2>3. QED BY <2>2
<1>4. QED BY <1>3 DEF Max

(* NextIn goes round: it never stays, and no two come to the same.         *)
LEMMA NextGoesRound ==
  ASSUME NEW S, S \subseteq Nat, Cardinality(S) > 1, IsFiniteSet(S)
  PROVE  /\ \A k \in S : NextIn(S, k) \in S /\ NextIn(S, k) # k
         /\ \A j, k \in S : NextIn(S, j) = NextIn(S, k) => j = k
<1> DEFINE Later(k) == {j \in S : j > k}
<1>1. ASSUME NEW k \in S
      PROVE  /\ NextIn(S, k) \in S
             /\ Later(k) # {} =>
                  /\ NextIn(S, k) > k
                  /\ \A j \in S : j > k => NextIn(S, k) <= j
             /\ Later(k) = {} => \A j \in S : NextIn(S, k) <= j
  <2>1. CASE Later(k) = {}
    <3>1. NextIn(S, k) = Min(S)
      BY <2>1 DEF NextIn
    <3>2. QED BY <2>1, <3>1, MinIsLeast
  <2>2. CASE Later(k) # {}
    <3>1. NextIn(S, k) = Min(Later(k))
      BY <2>2 DEF NextIn
    <3>2. Min(Later(k)) \in Later(k) /\ \A j \in Later(k) : Min(Later(k)) <= j
      BY <2>2, MinIsLeast
    <3>3. QED BY <2>2, <3>1, <3>2
  <2>3. QED BY <2>1, <2>2
<1>2. ASSUME NEW k \in S PROVE NextIn(S, k) # k
  <2>1. SUFFICES ASSUME NextIn(S, k) = k PROVE FALSE
    OBVIOUS
  <2>2. \A j \in S : j = k
    BY <1>1, <2>1
  <2>3. S = {k}
    BY <2>2
  <2>4. Cardinality(S) = 1
    BY <2>3, FS_Singleton
  <2>5. QED BY <2>4
<1>3. ASSUME NEW j \in S, NEW k \in S, NextIn(S, j) = NextIn(S, k), j < k
      PROVE  FALSE
  <2>0. j \in Nat /\ k \in Nat /\ NextIn(S, k) \in Nat
    BY <1>1
  <2>1. Later(j) # {} /\ NextIn(S, j) > j /\ NextIn(S, j) <= k
    BY <1>3, <1>1
  <2>2. CASE Later(k) = {}
    <3>1. NextIn(S, k) <= j
      BY <2>2, <1>1
    <3>2. QED BY <3>1, <2>0, <2>1, <1>3
  <2>3. CASE Later(k) # {}
    <3>1. NextIn(S, k) > k
      BY <2>3, <1>1
    <3>2. QED BY <3>1, <2>0, <2>1, <1>3
  <2>4. QED BY <2>2, <2>3
<1>4. ASSUME NEW j \in S, NEW k \in S, NextIn(S, j) = NextIn(S, k)
      PROVE  j = k
  <2>1. j \in Nat /\ k \in Nat
    OBVIOUS
  <2>2. ~(j < k) /\ ~(k < j)
    BY <1>3, <1>4
  <2>3. QED BY <2>1, <2>2
<1>5. QED BY <1>1, <1>2, <1>4

-----------------------------------------------------------------------------
(* Sequences and counts *)

(* Append keeps what a sequence has and adds one element at its end.       *)
LEMMA Appended ==
  ASSUME NEW s, s \in Seq(ToSet(s)), NEW x
  PROVE  /\ Append(s, x) \in Seq(ToSet(Append(s, x)))
         /\ Len(Append(s, x)) = Len(s) + 1
         /\ Append(s, x)[Len(s) + 1] = x
         /\ \A k \in 1 .. Len(s) : Append(s, x)[k] = s[k]
         /\ DOMAIN Append(s, x) = 1 .. Len(s) + 1 /\ DOMAIN s = 1 .. Len(s)
         /\ Len(s) \in Nat
<1> DEFINE t == Append(s, x)
           B == ToSet(s) \cup {x}
<1>1. s \in Seq(B)
  BY DEF ToSet
<1>2. /\ t \in Seq(B) /\ Len(t) = Len(s) + 1
      /\ t[Len(s) + 1] = x /\ \A k \in 1 .. Len(s) : t[k] = s[k]
      /\ DOMAIN t = 1 .. Len(s) + 1 /\ DOMAIN s = 1 .. Len(s) /\ Len(s) \in Nat
  BY <1>1
<1>3. t \in [1 .. Len(t) -> ToSet(t)] /\ Len(t) \in Nat
  <2>1. DOMAIN t = 1 .. Len(t) /\ t = [k \in DOMAIN t |-> t[k]] /\ Len(t) \in Nat
    <3> HIDE DEF t
    <3>1. QED BY <1>2
  <2>2. \A k \in DOMAIN t : t[k] \in ToSet(t)
    BY DEF ToSet
  <2> HIDE DEF t
  <2>3. QED BY <2>1, <2>2
<1>4. t \in Seq(ToSet(t))
  <2> HIDE DEF t
  <2>1. QED BY <1>3
<1>5. QED BY <1>2, <1>4

(* The first modules, those of the example that ran.                       *)
Ran == {Modules[i] : i \in 1 .. step - 1}

(* A sequence is a function of its positions.                              *)
LEMMA SeqElements ==
  ASSUME NEW S, NEW s \in Seq(S)
  PROVE  /\ Len(s) \in Nat /\ DOMAIN s = 1 .. Len(s)
         /\ \A i \in DOMAIN s : s[i] \in S
  OBVIOUS

(* Modules and examples by position.                                       *)
LEMMA Lengths ==
  /\ Len(Modules) \in Nat /\ DOMAIN Modules = 1 .. Len(Modules)
  /\ Len(Examples) \in Nat /\ DOMAIN Examples = 1 .. Len(Examples)
<1>1. Modules \in Seq(STRING \ {""}) /\ Examples \in Seq(STRING)
  BY ProgramAssumption
<1>2. QED BY <1>1, SeqElements, Zenon

LEMMA ModulesAtPositions ==
  /\ \A i \in DOMAIN Modules : Modules[i] \in ModuleSet
  /\ \A m \in ModuleSet : m # "" /\ \E i \in DOMAIN Modules : m = Modules[i]
  /\ \A i, j \in DOMAIN Modules : Modules[i] = Modules[j] => i = j
<1>1. ModuleSet = {Modules[i] : i \in DOMAIN Modules}
  BY DEF ModuleSet, ToSet
<1>2. Modules \in Seq(STRING \ {""})
  BY ProgramAssumption
<1>3. \A i \in DOMAIN Modules : Modules[i] # ""
  <2>1. \A i \in DOMAIN Modules : Modules[i] \in STRING \ {""}
    BY <1>2, SeqElements
  <2>2. QED BY <2>1
<1>4. IsInjective(Modules)
  BY ProgramAssumption
<1>5. \A i, j \in DOMAIN Modules : Modules[i] = Modules[j] => i = j
  BY <1>4, Zenon DEF IsInjective
<1>6. QED BY <1>1, <1>3, <1>5, Zenon

LEMMA ExamplesDiffer ==
  \A i, j \in DOMAIN Examples : Examples[i] = Examples[j] => i = j
<1>1. IsInjective(Examples)
  BY ProgramAssumption
<1>2. QED BY <1>1, Zenon DEF IsInjective

(* What the ablations are.                                                 *)
LEMMA AblationKinds ==
  \A a \in Ablations :
    /\ a.kind = "mask" \/ a.kind = "blank" \/ a.kind = "shuffle"
         \/ a.kind = "disabled"
    /\ a.kind # "none"
<1>1. \A a \in Ablations : a.kind \in {"mask", "blank", "shuffle", "disabled"}
  BY ProgramAssumption, Zenon
<1>2. QED BY <1>1

(* Where the run is.                                                       *)
TypeInv ==
  /\ ablation \in {NoAblation} \cup Ablations
  /\ example \in 1 .. Len(Examples) + 1
  /\ step \in 1 .. Len(Modules) + 1
  /\ predictions \in Seq(ToSet(predictions))
  /\ Len(predictions) <= Len(Examples)
  /\ ablation = NoAblation => Len(predictions) = example - 1

LEMMA TypeInit == Init => TypeInv
  BY Lengths DEF Init, TypeInv, ToSet

LEMMA TypeNext == TypeInv /\ [Next]_vars => TypeInv'
<1> SUFFICES ASSUME TypeInv, [Next]_vars PROVE TypeInv'
  OBVIOUS
<1> USE Lengths DEF TypeInv
<1>1. CASE RunModule
  BY <1>1 DEF RunModule
<1>2. CASE Return
  <2>1. /\ example \in DOMAIN Examples
        /\ example' = example + 1 /\ step' = 1 /\ ablation' = ablation
    BY <1>2 DEF Return, StartRun
  <2>2. CASE ablation = NoAblation
    <3>1. PICK x : predictions' = Append(predictions, x)
      BY <1>2, <2>2 DEF Return
    <3>2. /\ predictions' \in Seq(ToSet(predictions'))
          /\ Len(predictions') = Len(predictions) + 1
      BY <3>1, Appended
    <3>3. QED BY <2>1, <2>2, <3>2
  <2>3. CASE ablation # NoAblation
    <3>1. predictions' = predictions
      BY <1>2, <2>3 DEF Return
    <3>2. QED BY <2>1, <2>3, <3>1
  <2>4. QED BY <2>2, <2>3
<1>3. CASE Ablate
  <2>1. ASSUME NEW a \in Ablations PROVE a # NoAblation
    <3>1. NoAblation.kind = "none"
      BY DEF NoAblation
    <3>2. QED BY <3>1, AblationKinds
  <2>2. QED BY <1>3, <2>1 DEF Ablate, StartRun
<1>4. CASE UNCHANGED vars
  BY <1>4 DEF vars, run
<1>5. QED BY <1>1, <1>2, <1>3, <1>4 DEF Next, Over

-----------------------------------------------------------------------------
(* The shuffle *)

(* The examples with a value are among those that were evaluated.          *)
LEMMA FoundAreExamples ==
  ASSUME TypeInv, NEW n
  PROVE  /\ FoundIn(n) \subseteq DOMAIN Examples /\ FoundIn(n) \subseteq Nat
         /\ FoundIn(n) \subseteq DOMAIN predictions
         /\ IsFiniteSet(FoundIn(n)) /\ Cardinality(FoundIn(n)) \in Nat
<1>1. /\ DOMAIN predictions = 1 .. Len(predictions)
      /\ Len(predictions) \in Nat /\ Len(predictions) <= Len(Examples)
  BY DEF TypeInv
<1>2. FoundIn(n) \subseteq 1 .. Len(Examples)
  BY <1>1, Lengths DEF FoundIn
<1>3. IsFiniteSet(1 .. Len(Examples))
  BY Lengths, FS_Interval
<1>4. IsFiniteSet(FoundIn(n))
  BY <1>2, <1>3, FS_Subset
<1>5. Cardinality(FoundIn(n)) \in Nat
  BY <1>4, FS_CardinalityType
<1>6. FoundIn(n) \subseteq DOMAIN predictions
  BY DEF FoundIn
<1>7. QED BY <1>2, <1>4, <1>5, <1>6, Lengths

(* Where values are rotated, each example gets that of another one.        *)
LEMMA RotatedIsNext ==
  ASSUME TypeInv, NEW n, Cardinality(FoundIn(n)) > 1
  PROVE  /\ DOMAIN Rotated(n) = FoundIn(n)
         /\ \A k \in FoundIn(n) :
              Rotated(n)[k] = FoundValue(NextIn(FoundIn(n), k), n)
         /\ \A k \in FoundIn(n) :
              NextIn(FoundIn(n), k) \in FoundIn(n) /\ NextIn(FoundIn(n), k) # k
         /\ \A j, k \in FoundIn(n) :
              NextIn(FoundIn(n), j) = NextIn(FoundIn(n), k) => j = k
<1>1. ~(Cardinality(FoundIn(n)) < 2)
  BY FoundAreExamples
<1>2. Rotated(n) = [k \in FoundIn(n) |-> FoundValue(NextIn(FoundIn(n), k), n)]
  BY <1>1 DEF Rotated
<1>3. QED BY <1>2, FoundAreExamples, NextGoesRound

LEMMA TypeShuffles == TypeInv => ShuffleIsDerangement
<1> SUFFICES ASSUME TypeInv, NEW n \in AllFields, Cardinality(FoundIn(n)) > 1
             PROVE  \E p \in [FoundIn(n) -> FoundIn(n)] :
                      /\ IsInjective(p)
                      /\ \A k \in FoundIn(n) :
                           p[k] # k /\ Rotated(n)[k] = FoundValue(p[k], n)
  BY DEF ShuffleIsDerangement
<1> DEFINE q == [k \in FoundIn(n) |-> NextIn(FoundIn(n), k)]
<1>1. q \in [FoundIn(n) -> FoundIn(n)]
  BY RotatedIsNext
<1>2. IsInjective(q)
  BY RotatedIsNext DEF IsInjective
<1>3. \A k \in FoundIn(n) : q[k] # k /\ Rotated(n)[k] = FoundValue(q[k], n)
  BY RotatedIsNext
<1>4. QED BY <1>1, <1>2, <1>3

(* A shuffle with two values or more gives every example the value of      *)
(* another, and every value to one example, whatever the gaps.             *)
THEOREM ShufflesDerange == Spec => []ShuffleIsDerangement
<1>1. QED BY TypeInit, TypeNext, TypeShuffles, PTL DEF Spec

-----------------------------------------------------------------------------
(* Outputs *)

(* o has every field of the schema, right and if required with a value.    *)
Contract(m, o) ==
  \A n \in FieldsOf[m] :
    /\ n \in DOMAIN o
    /\ o[n].kind = "good" \/ (n \notin Required /\ o[n] = None)

(* v is None or something that m said about e.                             *)
Came(v, m, e) == v = None \/ (v.by = m /\ v.of = e)

(* Values of o are None or made by m for e.                                *)
Made(o, m, e) ==
  \A n \in DOMAIN o : o[n] = None \/ \E name, kind : o[n] = Value(name, m, e, kind)

LEMMA RawIsMade ==
  ASSUME NEW m, NEW e, NEW raw \in RawOutputs(m, e)
  PROVE  Made(raw, m, e)
<1>1. PICK how \in [FieldsOf[m] -> Kinds \cup {"missing", "none"}] :
        raw = [n \in BaseOutputs[m] \cup {f \in FieldsOf[m] : how[f] # "missing"} |->
                 IF n \in BaseOutputs[m] THEN Value(n, m, e, "good")
                 ELSE IF how[n] = "none" THEN None ELSE Value(n, m, e, how[n])]
  BY DEF RawOutputs
<1>2. QED BY <1>1 DEF Made

(* Coercion changes how a value fares and nothing else.                    *)
LEMMA CoercedIsMade ==
  ASSUME NEW m, NEW e, NEW o, Made(o, m, e)
  PROVE  Made(Coerced(m, o), m, e)
<1>1. CoerceValue(None) = None
  BY DEF CoerceValue, None, Value
<1>2. ASSUME NEW name, NEW kind
      PROVE  \E k : CoerceValue(Value(name, m, e, kind)) = Value(name, m, e, k)
  BY DEF CoerceValue, Value
<1>3. ASSUME NEW n \in DOMAIN Coerced(m, o)
      PROVE  \/ Coerced(m, o)[n] = None
             \/ \E name, kind : Coerced(m, o)[n] = Value(name, m, e, kind)
  <2>1. /\ n \in DOMAIN o
        /\ Coerced(m, o)[n] = o[n] \/ Coerced(m, o)[n] = CoerceValue(o[n])
    BY DEF Coerced
  <2>2. o[n] = None \/ \E name, kind : o[n] = Value(name, m, e, kind)
    BY <2>1 DEF Made
  <2>3. CASE o[n] = None
    BY <2>1, <2>3, <1>1, Zenon
  <2>4. ASSUME NEW name, NEW kind, o[n] = Value(name, m, e, kind)
        PROVE  \E x, k : Coerced(m, o)[n] = Value(x, m, e, k)
    <3>1. CASE Coerced(m, o)[n] = o[n]
      BY <2>4, <3>1, Zenon
    <3>2. CASE Coerced(m, o)[n] = CoerceValue(o[n])
      <4>1. PICK k : CoerceValue(Value(name, m, e, kind)) = Value(name, m, e, k)
        BY <1>2
      <4>2. Coerced(m, o)[n] = Value(name, m, e, k)
        BY <2>4, <3>2, <4>1, Zenon
      <4>3. QED BY <4>2, Zenon
    <3>3. QED BY <2>1, <3>1, <3>2, Zenon
  <2>5. QED BY <2>2, <2>3, <2>4
<1>4. QED BY <1>3 DEF Made

LEMMA DumpIsMade ==
  ASSUME NEW m, NEW e, NEW o, Made(o, m, e)
  PROVE  Made(Dump(m, o), m, e)
  BY DEF Made, Dump, Updated

(* What passes both checks keeps the contract once it is dumped.           *)
LEMMA CheckedKeepsContract ==
  ASSUME NEW m, NEW e, NEW o, Typed(m, o), ConstraintsMet(m, o)
  PROVE  Contract(m, Dump(m, o))
<1>1. SUFFICES ASSUME NEW n \in FieldsOf[m]
               PROVE  /\ n \in DOMAIN Dump(m, o)
                      /\ \/ Dump(m, o)[n].kind = "good"
                         \/ n \notin Required /\ Dump(m, o)[n] = None
  BY DEF Contract
<1>2. /\ n \in DOMAIN Dump(m, o)
      /\ Dump(m, o)[n] = IF n \in DOMAIN o THEN o[n] ELSE None
  BY DEF Dump, Updated
<1>3. CASE n \in DOMAIN o /\ o[n] # None
  BY <1>2, <1>3 DEF Typed, ConstraintsMet
<1>4. CASE ~(n \in DOMAIN o /\ o[n] # None)
  BY <1>2, <1>4 DEF Typed
<1>5. QED BY <1>3, <1>4

(* What is accepted keeps the contract, what is not leaves nothing, and    *)
(* nothing is said that the module did not say.                            *)
LEMMA ParsedIsSound ==
  ASSUME NEW m, NEW e, NEW raw \in RawOutputs(m, e)
  PROVE  /\ Accepted(m, raw) => Contract(m, Parsed(m, raw))
         /\ ~Accepted(m, raw) => Parsed(m, raw) = <<>>
         /\ \A n \in DOMAIN Parsed(m, raw) : Came(Parsed(m, raw)[n], m, e)
<1>1. Made(raw, m, e) /\ Made(Coerced(m, raw), m, e)
  BY RawIsMade, CoercedIsMade
<1>2. ASSUME Accepted(m, raw)
      PROVE  Contract(m, Parsed(m, raw)) /\ Made(Parsed(m, raw), m, e)
  <2>1. CASE Typed(m, raw)
    <3>1. Parsed(m, raw) = Dump(m, raw)
      BY <1>2, <2>1 DEF Parsed
    <3>2. ConstraintsMet(m, raw)
      BY <1>2, <2>1 DEF Accepted, Repairable
    <3>3. QED BY <1>1, <2>1, <3>1, <3>2, CheckedKeepsContract, DumpIsMade
  <2>2. CASE ~Typed(m, raw)
    <3>1. Parsed(m, raw) = Dump(m, Coerced(m, raw))
      BY <1>2, <2>2 DEF Parsed
    <3>2. Typed(m, Coerced(m, raw)) /\ ConstraintsMet(m, Coerced(m, raw))
      BY <1>2, <2>2 DEF Accepted
    <3>3. QED BY <1>1, <3>1, <3>2, CheckedKeepsContract, DumpIsMade
  <2>3. QED BY <2>1, <2>2
<1>3. ASSUME ~Accepted(m, raw)
      PROVE  Parsed(m, raw) = <<>> /\ DOMAIN Parsed(m, raw) = {}
  BY <1>3 DEF Parsed
<1>4. ASSUME Made(Parsed(m, raw), m, e)
      PROVE  \A n \in DOMAIN Parsed(m, raw) : Came(Parsed(m, raw)[n], m, e)
  BY <1>4 DEF Made, Came, Value
<1>5. QED BY <1>2, <1>3, <1>4

-----------------------------------------------------------------------------
(* The outputs of the running example, and of those that returned *)

(* A module that has not run or whose output was invalid has left nothing, *)
(* any other has kept the contract.                                        *)
OutputsInv ==
  /\ outputs = [m \in ModuleSet |-> outputs[m]]
  /\ invalid \subseteq Ran
  /\ \A m \in ModuleSet : m \notin Ran \/ m \in invalid => outputs[m] = <<>>
  /\ \A m \in Ran : m \notin invalid => Contract(m, outputs[m])
  /\ \A m \in ModuleSet : \A n \in DOMAIN outputs[m] :
       Came(outputs[m][n], m, Examples[example])

PredictionsInv ==
  \A k \in DOMAIN predictions :
    /\ predictions[k].valid =>
         \A m \in ModuleSet : Contract(m, predictions[k].outputs[m])
    /\ \A m \in ModuleSet : \A n \in DOMAIN predictions[k].outputs[m] :
         Came(predictions[k].outputs[m][n], m, Examples[k])

LEMMA RanAreModules == TypeInv => Ran \subseteq ModuleSet
<1> SUFFICES ASSUME TypeInv, NEW i \in 1 .. step - 1
             PROVE  Modules[i] \in ModuleSet
  BY DEF Ran
<1>1. i \in 1 .. Len(Modules)
  BY Lengths DEF TypeInv
<1>2. QED BY <1>1, Lengths, ModulesAtPositions

(* What a step of a module does.                                           *)
Steps(m, o, ok, before) ==
  /\ fields' = Updated(before, [n \in SchemaNames(m, o) |-> o[n]])
  /\ producers' = Updated(producers, [n \in SchemaNames(m, o) |-> m])
  /\ outputs' = [outputs EXCEPT ![m] = o]
  /\ invalid' = IF ok THEN invalid ELSE invalid \cup {m}
  /\ shown' = [module |-> m, fields |-> before, outputs |-> outputs]
  /\ ok => Contract(m, o)
  /\ ~ok => o = <<>>
  /\ \A n \in DOMAIN o : Came(o[n], m, Examples[example])

LEMMA RunModuleSteps ==
  ASSUME TypeInv, RunModule
  PROVE  /\ \E o, ok : Steps(Modules[step], o, ok, BeforeModule(Modules[step]))
         /\ step' = step + 1 /\ step \in DOMAIN Modules
         /\ example \in DOMAIN Examples
         /\ UNCHANGED <<policy, ablation, example, predictions>>
         /\ Modules[step] \in ModuleSet /\ Modules[step] \notin Ran
         /\ Ran' = Ran \cup {Modules[step]}
<1> DEFINE m == Modules[step]
<1>1. PICK raw \in RawOutputs(m, Examples[example]) :
        /\ fields' = Updated(BeforeModule(m),
                       [n \in SchemaNames(m, Parsed(m, raw)) |-> Parsed(m, raw)[n]])
        /\ producers' = Updated(producers, [n \in SchemaNames(m, Parsed(m, raw)) |-> m])
        /\ outputs' = [outputs EXCEPT ![m] = Parsed(m, raw)]
        /\ invalid' = IF Accepted(m, raw) THEN invalid ELSE invalid \cup {m}
        /\ shown' = [module |-> m, fields |-> BeforeModule(m), outputs |-> outputs]
  BY Zenon DEF RunModule
<1>2. Steps(m, Parsed(m, raw), Accepted(m, raw), BeforeModule(m))
  BY <1>1, ParsedIsSound, Zenon DEF Steps
<1>3. /\ step' = step + 1 /\ step \in DOMAIN Modules
      /\ example \in DOMAIN Examples
      /\ UNCHANGED <<policy, ablation, example, predictions>>
  BY DEF RunModule
<1>4. m \in ModuleSet /\ \A i \in 1 .. step - 1 : i \in DOMAIN Modules /\ i # step
  <2>1. step \in 1 .. Len(Modules)
    BY <1>3, Lengths
  <2>2. \A i \in 1 .. step - 1 : i \in 1 .. Len(Modules) /\ i # step
    BY <2>1, Lengths
  <2>3. QED BY <1>3, <2>2, ModulesAtPositions, Lengths
<1>5. m \notin Ran
  BY <1>3, <1>4, ModulesAtPositions DEF Ran
<1>6. \A i : i \in 1 .. (step + 1) - 1 <=> i \in 1 .. step - 1 \/ i = step
  BY <1>3, Lengths DEF TypeInv
<1>7. Ran' = Ran \cup {m}
  BY <1>3, <1>6 DEF Ran
<1>8. QED BY <1>2, <1>3, <1>4, <1>5, <1>7

LEMMA OutputsInit == Init => OutputsInv /\ PredictionsInv
<1> SUFFICES ASSUME Init PROVE OutputsInv /\ PredictionsInv
  OBVIOUS
<1>1. Ran = {}
  BY DEF Init, Ran
<1>2. OutputsInv
  BY <1>1 DEF Init, OutputsInv, NoOutputs
<1>3. PredictionsInv
  BY DEF Init, PredictionsInv
<1>4. QED BY <1>2, <1>3

(* A new run of an example.                                                *)
LEMMA OutputsStart == StartRun => OutputsInv'
<1> SUFFICES ASSUME StartRun PROVE OutputsInv'
  OBVIOUS
<1>1. Ran' = {}
  BY DEF StartRun, Ran
<1>2. outputs' = NoOutputs /\ invalid' = {}
  BY DEF StartRun
<1>3. QED BY <1>1, <1>2 DEF OutputsInv, NoOutputs

LEMMA OutputsRunModule == TypeInv /\ OutputsInv /\ RunModule => OutputsInv'
<1> SUFFICES ASSUME TypeInv, OutputsInv, RunModule PROVE OutputsInv'
  OBVIOUS
<1> DEFINE m == Modules[step]
<1>1. PICK o, ok : Steps(m, o, ok, BeforeModule(m))
  BY RunModuleSteps
<1>2. /\ m \in ModuleSet /\ m \notin Ran /\ Ran' = Ran \cup {m}
      /\ example' = example
  BY RunModuleSteps
<1> HIDE DEF m
<1>3. /\ outputs' = [x \in ModuleSet |-> IF x = m THEN o ELSE outputs[x]]
      /\ invalid' = IF ok THEN invalid ELSE invalid \cup {m}
  BY <1>1, <1>2 DEF Steps, OutputsInv
<1>4. /\ ok => Contract(m, o)
      /\ ~ok => o = <<>>
      /\ \A n \in DOMAIN o : Came(o[n], m, Examples[example])
  BY <1>1 DEF Steps
<1>5. invalid' \subseteq Ran'
  BY <1>2, <1>3 DEF OutputsInv
<1>6. ASSUME NEW x \in ModuleSet, x \notin Ran' \/ x \in invalid'
      PROVE  outputs'[x] = <<>>
  BY <1>2, <1>3, <1>4, <1>6 DEF OutputsInv
<1>7. ASSUME NEW x \in Ran', x \notin invalid'
      PROVE  Contract(x, outputs'[x])
  <2>1. x \in ModuleSet
    BY <1>2, RanAreModules DEF OutputsInv
  <2>2. CASE x = m
    BY <1>2, <1>3, <1>4, <1>7, <2>2
  <2>3. CASE x # m
    <3>1. x \in Ran /\ x \notin invalid /\ outputs'[x] = outputs[x]
      BY <1>2, <1>3, <1>7, <2>1, <2>3
    <3>2. QED BY <3>1 DEF OutputsInv
  <2>4. QED BY <2>2, <2>3
<1>8. ASSUME NEW x \in ModuleSet, NEW n \in DOMAIN outputs'[x]
      PROVE  Came(outputs'[x][n], x, Examples[example]')
  BY <1>2, <1>3, <1>4 DEF OutputsInv
<1>9. outputs' = [x \in ModuleSet |-> outputs'[x]]
  BY <1>3
<1>10. QED BY <1>5, <1>6, <1>7, <1>8, <1>9 DEF OutputsInv, Contract

(* The example that returns joins the predictions.                         *)
LEMMA PredictionsReturn ==
  TypeInv /\ OutputsInv /\ PredictionsInv /\ Return => PredictionsInv'
<1> SUFFICES ASSUME TypeInv, OutputsInv, PredictionsInv, Return
             PROVE  PredictionsInv'
  OBVIOUS
<1>1. CASE ablation # NoAblation
  BY <1>1 DEF Return, PredictionsInv, Contract
<1>2. CASE ablation = NoAblation
  <2> DEFINE p == [outputs |-> outputs, valid |-> invalid = {}]
  <2>1. predictions' = Append(predictions, p)
    BY <1>2 DEF Return
  <2>2. /\ Len(predictions) + 1 = example
        /\ predictions'[example] = p
        /\ \A k \in DOMAIN predictions : predictions'[k] = predictions[k]
        /\ \A k \in DOMAIN predictions' : k \in DOMAIN predictions \/ k = example
    BY <1>2, <2>1, Appended, Lengths DEF TypeInv
  <2>3. \A m \in ModuleSet : m \in Ran
    <3>1. step \in 1 .. Len(Modules) + 1 /\ step > Len(Modules)
      BY DEF Return, TypeInv
    <3>2. 1 .. step - 1 = DOMAIN Modules
      BY <3>1, Lengths
    <3>3. QED BY <3>2, ModulesAtPositions DEF Ran
  <2>4. p.valid => \A m \in ModuleSet : Contract(m, p.outputs[m])
    BY <2>3 DEF OutputsInv
  <2>5. \A m \in ModuleSet : \A n \in DOMAIN p.outputs[m] :
          Came(p.outputs[m][n], m, Examples[example])
    BY DEF OutputsInv
  <2> HIDE DEF p
  <2>6. QED BY <2>2, <2>4, <2>5 DEF PredictionsInv, Contract
<1>3. QED BY <1>1, <1>2

LEMMA OutputsNext ==
  TypeInv /\ OutputsInv /\ PredictionsInv /\ [Next]_vars
    => OutputsInv' /\ PredictionsInv'
<1> SUFFICES ASSUME TypeInv, OutputsInv, PredictionsInv, [Next]_vars
             PROVE  OutputsInv' /\ PredictionsInv'
  OBVIOUS
<1>1. CASE RunModule
  <2>1. OutputsInv'
    BY <1>1, OutputsRunModule
  <2>2. PredictionsInv'
    BY <1>1, RunModuleSteps DEF PredictionsInv, Contract
  <2>3. QED BY <2>1, <2>2
<1>2. CASE Return
  BY <1>2, OutputsStart, PredictionsReturn DEF Return
<1>3. CASE Ablate
  <2>1. OutputsInv'
    BY <1>3, OutputsStart DEF Ablate
  <2>2. PredictionsInv'
    BY <1>3 DEF Ablate, PredictionsInv, Contract
  <2>3. QED BY <2>1, <2>2
<1>4. CASE UNCHANGED vars
  BY <1>4 DEF vars, run, OutputsInv, PredictionsInv, Contract, Ran
<1>5. QED BY <1>1, <1>2, <1>3, <1>4 DEF Next, Over

(* A valid prediction keeps the contract of the schema, under any policy.  *)
THEOREM ValidKeepsContract == Spec => []ValidMeansContract
<1>1. PredictionsInv => ValidMeansContract
  BY DEF PredictionsInv, ValidMeansContract, Contract
<1>2. QED
  BY <1>1, TypeInit, TypeNext, OutputsInit, OutputsNext, PTL DEF Spec

-----------------------------------------------------------------------------
(* Schema fields and their producers *)

FieldsInv ==
  \A n \in DOMAIN fields :
    /\ n \in DOMAIN producers
    /\ producers[n] \in Ran
    /\ n \in FieldsOf[producers[n]]
    /\ n # ablation.field => fields[n] = outputs[producers[n]][n]

(* An ablation adds no field and changes none but its own.                 *)
LEMMA BeforeChangesOne ==
  ASSUME TypeInv, NEW m
  PROVE  /\ DOMAIN BeforeModule(m) \subseteq DOMAIN fields
         /\ \A n \in DOMAIN BeforeModule(m) :
              n # ablation.field => BeforeModule(m)[n] = fields[n]
<1> DEFINE set(v) ==
             IF ablation.field \in DOMAIN fields
             THEN [fields EXCEPT ![ablation.field] = v] ELSE fields
           Fine(f) == /\ DOMAIN f \subseteq DOMAIN fields
                      /\ \A n \in DOMAIN f : n # ablation.field => f[n] = fields[n]
<1>1. \A v : Fine(set(v))
  OBVIOUS
<1>2. Fine(fields) /\ Fine(<<>>)
  OBVIOUS
<1>3. CASE ablation.kind = "none" \/ ~Affected(m)
  BY <1>2, <1>3 DEF BeforeModule
<1>4. CASE ~(ablation.kind = "none" \/ ~Affected(m))
  <2>1. ablation \in Ablations
    <3>1. NoAblation.kind = "none"
      BY DEF NoAblation
    <3>2. QED BY <1>4, <3>1 DEF TypeInv
  <2>2. \/ BeforeModule(m) = <<>>
        \/ BeforeModule(m) = fields
        \/ \E v : BeforeModule(m) = set(v)
    <3>1. CASE ablation.kind = "mask"
      BY <1>4, <3>1 DEF BeforeModule
    <3>2. CASE ablation.kind = "blank"
      BY <1>4, <3>2 DEF BeforeModule
    <3>3. CASE ablation.kind = "disabled"
      BY <1>4, <3>3 DEF BeforeModule
    <3>4. CASE ablation.kind = "shuffle"
      <4>1. CASE example \in DOMAIN Rotated(ablation.field)
        <5>1. BeforeModule(m) = set(Rotated(ablation.field)[example])
          BY <1>4, <3>4, <4>1 DEF BeforeModule
        <5>2. QED BY <5>1, Zenon
      <4>2. CASE example \notin DOMAIN Rotated(ablation.field)
        BY <1>4, <3>4, <4>2 DEF BeforeModule
      <4>3. QED BY <4>1, <4>2
    <3>5. QED BY <2>1, <3>1, <3>2, <3>3, <3>4, AblationKinds
  <2> HIDE DEF set, Fine
  <2>3. Fine(BeforeModule(m))
    BY <1>1, <1>2, <2>2
  <2>4. QED BY <2>3 DEF Fine
<1>5. QED BY <1>3, <1>4

LEMMA FieldsRunModule ==
  TypeInv /\ OutputsInv /\ FieldsInv /\ RunModule => FieldsInv'
<1> SUFFICES ASSUME TypeInv, OutputsInv, FieldsInv, RunModule,
                    NEW n \in DOMAIN fields'
             PROVE  /\ n \in DOMAIN producers'
                    /\ producers'[n] \in Ran'
                    /\ n \in FieldsOf[producers'[n]]
                    /\ n # ablation.field => fields'[n] = outputs'[producers'[n]][n]
  BY RunModuleSteps DEF FieldsInv
<1> DEFINE m == Modules[step]
           before == BeforeModule(m)
<1>1. PICK o, ok : Steps(m, o, ok, before)
  BY RunModuleSteps
<1>2. m \in ModuleSet /\ m \notin Ran /\ Ran' = Ran \cup {m}
  BY RunModuleSteps
<1>3. /\ DOMAIN before \subseteq DOMAIN fields
      /\ \A x \in DOMAIN before : x # ablation.field => before[x] = fields[x]
  BY BeforeChangesOne
<1> HIDE DEF m, before
<1>4. /\ outputs' = [x \in ModuleSet |-> IF x = m THEN o ELSE outputs[x]]
      /\ fields' = Updated(before, [x \in SchemaNames(m, o) |-> o[x]])
      /\ producers' = Updated(producers, [x \in SchemaNames(m, o) |-> m])
  BY <1>1, <1>2 DEF Steps, OutputsInv
<1>5. CASE n \in SchemaNames(m, o)
  <2>1. n \in DOMAIN producers' /\ producers'[n] = m /\ fields'[n] = o[n]
    BY <1>4, <1>5 DEF Updated
  <2>2. n \in FieldsOf[m]
    BY <1>5 DEF SchemaNames
  <2>3. QED BY <1>2, <1>4, <2>1, <2>2
<1>6. CASE n \notin SchemaNames(m, o)
  <2>1. /\ n \in DOMAIN before /\ fields'[n] = before[n]
        /\ n \in DOMAIN producers => /\ n \in DOMAIN producers'
                                     /\ producers'[n] = producers[n]
    BY <1>4, <1>6 DEF Updated
  <2>2. n \in DOMAIN fields
    BY <1>3, <2>1
  <2>3. producers[n] \in Ran /\ producers[n] # m /\ producers[n] \in ModuleSet
    BY <1>2, <2>2, RanAreModules DEF FieldsInv
  <2>4. outputs'[producers[n]] = outputs[producers[n]]
    BY <1>4, <2>3
  <2>5. QED BY <1>2, <1>3, <2>1, <2>2, <2>3, <2>4 DEF FieldsInv
<1>7. QED BY <1>5, <1>6

LEMMA FieldsNext ==
  TypeInv /\ OutputsInv /\ FieldsInv /\ [Next]_vars => FieldsInv'
<1> SUFFICES ASSUME TypeInv, OutputsInv, FieldsInv, [Next]_vars
             PROVE  FieldsInv'
  OBVIOUS
<1>1. CASE RunModule
  BY <1>1, FieldsRunModule
<1>2. CASE StartRun
  BY <1>2 DEF StartRun, FieldsInv
<1>3. CASE UNCHANGED vars
  BY <1>3 DEF vars, run, FieldsInv, Ran
<1>4. QED BY <1>1, <1>2, <1>3 DEF Next, Over, Return, Ablate

(* A field that is not ablated is what the module that owns it said.       *)
THEOREM FieldsKeepProducers == Spec => []FieldsAreTheProducers
<1>1. Init => FieldsInv
  BY DEF Init, FieldsInv
<1>2. FieldsInv => FieldsAreTheProducers
  BY DEF FieldsInv, FieldsAreTheProducers
<1>3. QED
  BY <1>1, <1>2, TypeInit, TypeNext, OutputsInit, OutputsNext, FieldsNext,
     PTL DEF Spec

-----------------------------------------------------------------------------
(* Where the values come from that a module is sent *)

(* The modules that ran and were valid.                                    *)
Sound == Ran \ invalid

(* v is nobody's, or of one of the modules S, or of another example than e. *)
Clean(v, S, e) == v.by = "" \/ v.by \in S \/ v.of # e

(* What a later module finds is clean.                                     *)
CleanFields(S, e) == \A n \in DOMAIN fields : Clean(fields[n], S, e)

CleanShown(S, e) ==
  /\ \A n \in DOMAIN shown.fields : Clean(shown.fields[n], S, e)
  /\ \A m \in ModuleSet : \A n \in DOMAIN shown.outputs[m] :
       Clean(shown.outputs[m][n], S, e)

CleanInv ==
  /\ CleanFields(Sound, Examples[example])
  /\ Running => CleanShown(Sound, Examples[example])

LEMMA NoneIsNobodys == None.by = "" /\ Blank.by = ""
  BY DEF None, Blank, Value

LEMMA NothingIsShown == NothingShown.module = "" /\ DOMAIN <<>> = {}
  BY DEF NothingShown

(* What _find_field_value finds is something that was said.                *)
LEMMA FoundWasEmitted ==
  ASSUME TypeInv, NEW n, NEW k \in FoundIn(n)
  PROVE  \E m \in ModuleSet :
           /\ n \in DOMAIN predictions[k].outputs[m]
           /\ FoundValue(k, n) = predictions[k].outputs[m][n]
<1> DEFINE E == Emitters(predictions[k].outputs, n)
<1>1. E # {}
  BY DEF FoundIn
<1>2. E \subseteq Nat /\ E \subseteq DOMAIN Modules
  BY Lengths DEF Emitters
<1>3. Min(E) \in E
  BY <1>1, <1>2, MinIsLeast
<1>4. n \in DOMAIN predictions[k].outputs[Modules[Min(E)]]
  BY <1>3 DEF Emitters
<1>5. FoundValue(k, n) = predictions[k].outputs[Modules[Min(E)]][n]
  BY DEF FoundValue
<1>6. QED BY <1>2, <1>3, <1>4, <1>5, ModulesAtPositions

(* A shuffle gives an example a value of another.                          *)
LEMMA RotatedIsForeign ==
  ASSUME TypeInv, PredictionsInv, NEW n, example \in DOMAIN Rotated(n)
  PROVE  Rotated(n)[example] = None \/ Rotated(n)[example].of # Examples[example]
<1>1. Cardinality(FoundIn(n)) > 1
  <2>1. CASE Cardinality(FoundIn(n)) < 2
    BY <2>1 DEF Rotated
  <2>2. QED BY <2>1, FoundAreExamples
<1>2. PICK j \in FoundIn(n) : j # example /\ Rotated(n)[example] = FoundValue(j, n)
  BY <1>1, RotatedIsNext
<1>3. PICK m \in ModuleSet : /\ n \in DOMAIN predictions[j].outputs[m]
                             /\ Rotated(n)[example] = predictions[j].outputs[m][n]
  BY <1>2, FoundWasEmitted
<1>4. Came(Rotated(n)[example], m, Examples[j])
  BY <1>3, FoundAreExamples DEF PredictionsInv
<1>5. Examples[j] # Examples[example]
  <2>1. example \in DOMAIN Examples
    BY <1>1, RotatedIsNext, FoundAreExamples
  <2>2. QED BY <1>2, <2>1, FoundAreExamples, ExamplesDiffer
<1>6. QED BY <1>4, <1>5 DEF Came

(* What a module is shown under a name.                                    *)
LEMMA BeforeValues ==
  ASSUME TypeInv, NEW m, NEW n \in DOMAIN BeforeModule(m)
  PROVE  \/ BeforeModule(m)[n] = fields[n]
         \/ BeforeModule(m)[n] \in {None, Blank}
         \/ /\ ablation.kind = "shuffle"
            /\ example \in DOMAIN Rotated(ablation.field)
            /\ BeforeModule(m)[n] = Rotated(ablation.field)[example]
<1>1. CASE ablation.kind = "none" \/ ~Affected(m)
  BY <1>1 DEF BeforeModule
<1>2. CASE ~(ablation.kind = "none" \/ ~Affected(m))
  <2>1. ablation \in Ablations
    <3>1. NoAblation.kind = "none"
      BY DEF NoAblation
    <3>2. QED BY <1>2, <3>1 DEF TypeInv
  <2>2. CASE ablation.kind = "mask"
    BY <1>2, <2>2 DEF BeforeModule
  <2>3. CASE ablation.kind = "blank"
    BY <1>2, <2>3 DEF BeforeModule
  <2>4. CASE ablation.kind = "disabled"
    BY <1>2, <2>4 DEF BeforeModule
  <2>5. CASE ablation.kind = "shuffle"
    BY <1>2, <2>5 DEF BeforeModule
  <2>6. QED BY <2>1, <2>2, <2>3, <2>4, <2>5, AblationKinds
<1>3. QED BY <1>1, <1>2

LEMMA CleanRunModule ==
  TypeInv /\ OutputsInv /\ PredictionsInv /\ CleanInv /\ RunModule => CleanInv'
<1> SUFFICES ASSUME TypeInv, OutputsInv, PredictionsInv, CleanInv, RunModule
             PROVE  CleanInv'
  OBVIOUS
<1> DEFINE m == Modules[step]
           before == BeforeModule(m)
<1>1. PICK o, ok : Steps(m, o, ok, before)
  BY RunModuleSteps
<1>2. /\ m \in ModuleSet /\ m \notin Ran /\ Ran' = Ran \cup {m}
      /\ UNCHANGED <<example, predictions>>
  BY RunModuleSteps
<1>3. ASSUME NEW n \in DOMAIN before
      PROVE  Clean(before[n], Sound, Examples[example])
  <2>1. CASE before[n] \in {None, Blank}
    BY <2>1, NoneIsNobodys DEF Clean
  <2>2. CASE before[n] = fields[n]
    BY <2>2, BeforeChangesOne DEF CleanInv, CleanFields
  <2>3. CASE /\ example \in DOMAIN Rotated(ablation.field)
             /\ before[n] = Rotated(ablation.field)[example]
    <3>1. before[n] = None \/ before[n].of # Examples[example]
      BY <2>3, RotatedIsForeign
    <3>2. QED BY <3>1, NoneIsNobodys DEF Clean
  <2>4. QED BY <2>1, <2>2, <2>3, BeforeValues
<1> HIDE DEF m, before
<1>4. /\ Sound \subseteq Sound' /\ (ok => m \in Sound')
  BY <1>1, <1>2 DEF Steps, Sound, OutputsInv
<1>5. \A v : Clean(v, Sound, Examples[example])
               => Clean(v, Sound', Examples[example])
  BY <1>4 DEF Clean
<1>6. ASSUME NEW n \in DOMAIN fields'
      PROVE  Clean(fields'[n], Sound', Examples[example])
  <2>1. CASE n \in SchemaNames(m, o)
    <3>1. n \in DOMAIN o /\ fields'[n] = o[n]
      BY <1>1, <2>1 DEF Steps, Updated, SchemaNames
    <3>2. ok
      <4>1. ASSUME ~ok PROVE DOMAIN o = {}
        BY <1>1, <4>1 DEF Steps
      <4>2. QED BY <3>1, <4>1
    <3>3. o[n] = None \/ o[n].by = m
      BY <1>1, <3>1 DEF Steps, Came
    <3>4. QED BY <1>4, <3>1, <3>2, <3>3, NoneIsNobodys DEF Clean
  <2>2. CASE n \notin SchemaNames(m, o)
    <3>1. n \in DOMAIN before /\ fields'[n] = before[n]
      BY <1>1, <2>2 DEF Steps, Updated
    <3>2. QED BY <1>3, <1>5, <3>1
  <2>3. QED BY <2>1, <2>2
<1>7. shown'.fields = before /\ shown'.outputs = outputs
  BY <1>1 DEF Steps
<1>8. ASSUME NEW x \in ModuleSet, NEW n \in DOMAIN outputs[x]
      PROVE  Clean(outputs[x][n], Sound, Examples[example])
  <2>1. x \in Ran /\ x \notin invalid
    <3>1. outputs[x] # <<>>
      OBVIOUS
    <3>2. QED BY <3>1 DEF OutputsInv
  <2>2. Came(outputs[x][n], x, Examples[example])
    BY DEF OutputsInv
  <2>3. outputs[x][n] = None \/ outputs[x][n].by \in Sound
    BY <2>1, <2>2 DEF Came, Sound
  <2>4. QED BY <2>3, NoneIsNobodys DEF Clean
<1>9. CleanFields(Sound, Examples[example])'
  BY <1>2, <1>6 DEF CleanFields
<1>10. CleanShown(Sound, Examples[example])'
  BY <1>2, <1>3, <1>5, <1>7, <1>8 DEF CleanShown
<1>11. QED BY <1>9, <1>10 DEF CleanInv

LEMMA CleanNext ==
  TypeInv /\ OutputsInv /\ PredictionsInv /\ CleanInv /\ [Next]_vars => CleanInv'
<1> SUFFICES ASSUME TypeInv, OutputsInv, PredictionsInv, CleanInv, [Next]_vars
             PROVE  CleanInv'
  OBVIOUS
<1>1. CASE RunModule
  BY <1>1, CleanRunModule
<1>2. CASE StartRun
  <2>1. fields' = <<>> /\ shown' = NothingShown
    BY <1>2 DEF StartRun
  <2>2. ~Running' /\ DOMAIN fields' = {}
    BY <2>1, NothingIsShown DEF Running
  <2>3. QED BY <2>2 DEF CleanInv, CleanFields
<1>3. CASE UNCHANGED vars
  BY <1>3 DEF vars, run, CleanInv, CleanFields, CleanShown, Running, Sound, Ran
<1>4. QED BY <1>1, <1>2, <1>3 DEF Next, Over, Return, Ablate

(* Everything the adapter sends is a field, an output or None.             *)
LEMMA SentIsShown ==
  ASSUME Running, CleanInv, NEW v \in Sent
  PROVE  Clean(v, Sound, Examples[example])
<1> USE DEF CleanInv, CleanShown
<1>1. CASE v \in ValuesOf(shown.fields)
  BY <1>1 DEF ValuesOf
<1>2. CASE v \in UNION {ValuesOf(shown.outputs[m]) : m \in ModuleSet}
  BY <1>2 DEF ValuesOf
<1>3. CASE v \in ValuesOf(Arguments)
  <2>1. PICK n \in InputFields[shown.module] : v = Available(n)
    BY <1>3 DEF ValuesOf, Arguments
  <2> DEFINE holders == Emitters(shown.outputs, n)
  <2>2. CASE holders # {}
    <3>1. holders \subseteq DOMAIN Modules /\ holders \subseteq 0 .. Len(Modules)
      BY Lengths DEF Emitters
    <3>2. Max(holders) \in holders
      BY <2>2, <3>1, MaxIsGreatest, Lengths
    <3>3. /\ Modules[Max(holders)] \in ModuleSet
          /\ n \in DOMAIN shown.outputs[Modules[Max(holders)]]
      BY <3>1, <3>2, ModulesAtPositions DEF Emitters
    <3>4. v = shown.outputs[Modules[Max(holders)]][n]
      BY <2>1, <2>2 DEF Available
    <3>5. QED BY <3>3, <3>4
  <2>3. CASE holders = {}
    <3>1. v = None \/ (n \in DOMAIN shown.fields /\ v = shown.fields[n])
      BY <2>1, <2>3 DEF Available
    <3>2. QED BY <3>1, NoneIsNobodys DEF Clean
  <2>4. QED BY <2>2, <2>3
<1>4. QED BY <1>1, <1>2, <1>3 DEF Sent

(* What was judged invalid is sent to no later module of the example.      *)
THEOREM InvalidIsContained == Spec => []InvalidStaysInside
<1>1. Init => CleanInv
  <2> SUFFICES ASSUME Init PROVE CleanInv
    OBVIOUS
  <2>1. ~Running /\ DOMAIN fields = {}
    BY NothingIsShown DEF Init, Running
  <2>2. QED BY <2>1 DEF CleanInv, CleanFields
<1>2. TypeInv /\ OutputsInv /\ CleanInv => InvalidStaysInside
  <2> SUFFICES ASSUME TypeInv, OutputsInv, CleanInv, NEW m \in invalid
               PROVE  /\ outputs[m] = <<>>
                      /\ Running => \A v \in Sent :
                                      <<v.by, v.of>> # <<m, Examples[example]>>
    BY DEF InvalidStaysInside
  <2>1. m \in ModuleSet /\ m # ""
    BY RanAreModules, ModulesAtPositions DEF OutputsInv
  <2>2. \A v \in Sent : Running => Clean(v, Sound, Examples[example])
    BY SentIsShown
  <2>3. QED BY <2>1, <2>2 DEF OutputsInv, Clean, Sound
<1>3. QED
  BY <1>1, <1>2, TypeInit, TypeNext, OutputsInit, OutputsNext, CleanNext,
     PTL DEF Spec

-----------------------------------------------------------------------------
(* What an ablation takes away *)

LEMMA AblatedRunModule ==
  TypeInv /\ PredictionsInv /\ RunModule => AblatedForConsumers'
<1> SUFFICES ASSUME TypeInv, PredictionsInv, RunModule
             PROVE  AblatedForConsumers'
  OBVIOUS
<1>a. UNCHANGED <<ablation, example, predictions>>
  BY RunModuleSteps
<1>b. Rotated(ablation.field)' = Rotated(ablation.field)
  BY <1>a DEF Rotated, FoundIn, FoundValue
<1> SUFFICES ASSUME ablation # NoAblation, shown'.module \in Consumers
             PROVE  /\ ablation.kind = "disabled" => shown'.fields = <<>>
                    /\ ablation.field \in DOMAIN shown'.fields =>
                         \/ shown'.fields[ablation.field] \in {None, Blank}
                         \/ shown'.fields[ablation.field].of # Examples[example]
                         \/ /\ ablation.kind = "shuffle"
                            /\ example \notin DOMAIN Rotated(ablation.field)
  BY <1>a, <1>b DEF AblatedForConsumers
<1> DEFINE m == Modules[step]
<1>1. shown'.module = m /\ shown'.fields = BeforeModule(m)
  <2>1. PICK o, ok : Steps(m, o, ok, BeforeModule(m))
    BY RunModuleSteps
  <2>2. QED BY <2>1 DEF Steps
<1>2. Affected(m)
  BY <1>1 DEF Affected
<1>3. ablation \in Ablations /\ ablation.kind # "none"
  BY AblationKinds DEF TypeInv
<1> HIDE DEF m
<1>4. CASE ablation.kind = "disabled"
  BY <1>1, <1>2, <1>3, <1>4 DEF BeforeModule
<1>5. CASE ablation.kind = "mask"
  BY <1>1, <1>2, <1>3, <1>5 DEF BeforeModule
<1>6. CASE ablation.kind = "blank"
  BY <1>1, <1>2, <1>3, <1>6 DEF BeforeModule
<1>7. CASE ablation.kind = "shuffle"
  <2>1. CASE example \in DOMAIN Rotated(ablation.field)
    <3>1. ablation.field \in DOMAIN BeforeModule(m) =>
            BeforeModule(m)[ablation.field] = Rotated(ablation.field)[example]
      BY <1>2, <1>3, <1>7, <2>1 DEF BeforeModule
    <3>2. QED BY <1>1, <1>7, <2>1, <3>1, RotatedIsForeign
  <2>2. CASE example \notin DOMAIN Rotated(ablation.field)
    BY <1>7, <2>2
  <2>3. QED BY <2>1, <2>2
<1>8. QED BY <1>3, <1>4, <1>5, <1>6, <1>7, AblationKinds

(* Under an ablation no consumer finds the value of its own example among  *)
(* the schema fields, unless a shuffle had nothing to give it.             *)
THEOREM ConsumersAreAblated == Spec => []AblatedForConsumers
<1>1. Init => AblatedForConsumers
  BY DEF Init, AblatedForConsumers
<1>2. TypeInv /\ PredictionsInv /\ AblatedForConsumers /\ [Next]_vars
        => AblatedForConsumers'
  <2> SUFFICES ASSUME TypeInv, PredictionsInv, AblatedForConsumers, [Next]_vars
               PROVE  AblatedForConsumers'
    OBVIOUS
  <2>1. CASE RunModule
    BY <2>1, AblatedRunModule
  <2>2. CASE StartRun
    BY <2>2 DEF StartRun, AblatedForConsumers, Running, NothingShown
  <2>3. CASE UNCHANGED vars
    BY <2>3 DEF vars, run, AblatedForConsumers, Running, Rotated, FoundIn, FoundValue
  <2>4. QED BY <2>1, <2>2, <2>3 DEF Next, Over, Return, Ablate
<1>3. QED
  BY <1>1, <1>2, TypeInit, TypeNext, OutputsInit, OutputsNext, PTL DEF Spec
=============================================================================
