----------------------------- MODULE ProgramRun -----------------------------
(***************************************************************************)
(* LMProgram.run of a compiled program, module after module                *)
(* (src/schemaevo/programs/base.py): what each module is shown, how its    *)
(* output is validated (schemas/validators.py), and what a field ablation  *)
(* changes (eval/field_ablations.py).  The examples are first run as they  *)
(* are and then once more under one ablation.                              *)
(*                                                                         *)
(* A value is where it comes from and how it fares under validation; what  *)
(* it says is left out.                                                    *)
(***************************************************************************)
EXTENDS Integers, SequencesExt

CONSTANTS
  Modules,      \* module names in the order they run
  Examples,     \* the examples of the evaluation, in order
  FieldsOf,     \* FieldsOf[m]: names the schema adds to m's output
  Required,     \* the names of required fields
  BaseOutputs,  \* BaseOutputs[m]: names m emits without a schema
  InputFields,  \* InputFields[m]: inputs of m that are not the example's
  Rules,        \* the schema's rules, [consumer, field]
  Policies,     \* ValidationPolicy
  Ablations     \* the ablations tried, [kind, field]

ModuleSet == ToSet(Modules)

AllFields == UNION {FieldsOf[m] : m \in ModuleSet}

ASSUME ProgramAssumption ==
  /\ Modules \in Seq(STRING \ {""}) /\ IsInjective(Modules)
  /\ Examples \in Seq(STRING) /\ IsInjective(Examples)
  /\ \A m, n \in ModuleSet : m # n => FieldsOf[m] \cap FieldsOf[n] = {}
  /\ \A m \in ModuleSet : FieldsOf[m] \cap BaseOutputs[m] = {}
  /\ \A r \in Rules : r.consumer \in ModuleSet /\ r.field \in AllFields
  /\ \A a \in Ablations : /\ a.kind \in {"mask", "blank", "shuffle", "disabled"}
                          /\ a.kind # "disabled" => a.field \in AllFields

NoAblation == [kind |-> "none", field |-> ""]

VARIABLES
  policy,
  ablation,     \* of the running evaluation
  example,      \* index of the running example
  step,         \* index of the module that runs next
  fields,       \* state["schema_fields"]
  producers,    \* state["field_producers"]
  outputs,      \* state["module_outputs"], <<>> for a module not yet run
  invalid,      \* modules with validation errors
  shown,        \* state as the last module was shown it
  predictions   \* what the evaluation without ablation returned

run  == <<fields, producers, outputs, invalid, shown>>
vars == <<policy, ablation, example, step, run, predictions>>

(* dict.update: what is in the update replaces what is there.              *)
Updated(there, update) ==
  [n \in DOMAIN there \cup DOMAIN update |->
     IF n \in DOMAIN update THEN update[n] ELSE there[n]]

Value(n, m, e, kind) == [name |-> n, by |-> m, of |-> e, kind |-> kind]

None  == Value("", "", "", "none")
Blank == Value("", "", "", "blank")

-----------------------------------------------------------------------------
(* What a module may return: every name of the base program, and for a     *)
(* field nothing, None, a value that passes, one that coercion gives the   *)
(* right type, one of a wrong type, and one against a constraint.          *)
Kinds == {"good", "odd", "oddbad", "wrong", "bad"}

RawOutputs(m, e) ==
  {[n \in BaseOutputs[m] \cup {f \in FieldsOf[m] : how[f] # "missing"} |->
      IF n \in BaseOutputs[m] THEN Value(n, m, e, "good")
      ELSE IF how[n] = "none"  THEN None
                               ELSE Value(n, m, e, how[n])] :
     how \in [FieldsOf[m] -> Kinds \cup {"missing", "none"}]}

(* SchemaValidator.validate_module_output *)
Typed(m, o) ==
  \A n \in FieldsOf[m] :
    IF n \in DOMAIN o /\ o[n] # None
    THEN o[n].kind \in {"good", "bad"}
    ELSE n \notin Required

ConstraintsMet(m, o) ==
  \A n \in FieldsOf[m] \cap DOMAIN o : o[n].kind # "bad"

(* model_dump lists every field of the model and keeps extra names.        *)
Dump(m, o) == Updated([n \in FieldsOf[m] |-> None], o)

CoerceValue(v) ==
  CASE v.kind = "odd"    -> [v EXCEPT !.kind = "good"]
    [] v.kind = "oddbad" -> [v EXCEPT !.kind = "bad"]
    [] OTHER             -> v

Coerced(m, o) ==
  [n \in DOMAIN o |-> IF n \in FieldsOf[m] THEN CoerceValue(o[n]) ELSE o[n]]

(* Coercion answers a type error only; what breaks a constraint at the     *)
(* first try is not repaired.                                              *)
Repairable(m, o) == policy = "deterministic_coercion" /\ ~Typed(m, o)

(* The repaired output is taken as it is.                                  *)
AcceptedUnchecked(m, o) ==
  \/ Typed(m, o) /\ ConstraintsMet(m, o)
  \/ Repairable(m, o) /\ Typed(m, Coerced(m, o))

Accepted(m, o) ==
  \/ Typed(m, o) /\ ConstraintsMet(m, o)
  \/ /\ Repairable(m, o)
     /\ Typed(m, Coerced(m, o)) /\ ConstraintsMet(m, Coerced(m, o))

(* What failed is used as it came.                                         *)
ParsedOrRaw(m, o) ==
  IF ~Accepted(m, o) THEN o
  ELSE Dump(m, IF Typed(m, o) THEN o ELSE Coerced(m, o))

(* Of an output that failed nothing is left, not even its base outputs.    *)
Parsed(m, o) ==
  IF ~Accepted(m, o) THEN <<>>
  ELSE Dump(m, IF Typed(m, o) THEN o ELSE Coerced(m, o))

-----------------------------------------------------------------------------
(* Field ablations *)

Consumers == {r.consumer : r \in Rules}

Affected(m) == Consumers = {} \/ m \in Consumers

(* Which modules emitted the name, by their position.                      *)
Emitters(outs, n) == {i \in DOMAIN Modules : n \in DOMAIN outs[Modules[i]]}

FoundIn(n) == {k \in DOMAIN predictions : Emitters(predictions[k].outputs, n) # {}}

(* _find_field_value: the first of them counts.                            *)
FoundValue(k, n) ==
  LET outs == predictions[k].outputs IN outs[Modules[Min(Emitters(outs, n))]][n]

(* Every example keeps its own value.                                      *)
RotatedNot(n) == [k \in FoundIn(n) |-> FoundValue(k, n)]

(* The next example with a value, the first one after the last.            *)
NextIn(S, k) ==
  LET later == {j \in S : j > k} IN Min(IF later = {} THEN S ELSE later)

(* _rotated_field_values_by_example: each example gets the value of the    *)
(* next one that has a value; a single value is not rotated at all.        *)
Rotated(n) ==
  IF Cardinality(FoundIn(n)) < 2 THEN <<>>
  ELSE [k \in FoundIn(n) |-> FoundValue(NextIn(FoundIn(n), k), n)]

(* before_module *)
BeforeModule(m) ==
  LET n == ablation.field
      set(v) == IF n \in DOMAIN fields THEN [fields EXCEPT ![n] = v] ELSE fields
  IN  IF ablation.kind = "none" \/ ~Affected(m) THEN fields
      ELSE CASE ablation.kind = "mask"     -> set(None)
             [] ablation.kind = "blank"    -> set(Blank)
             [] ablation.kind = "disabled" -> <<>>
             [] ablation.kind = "shuffle"  ->
                  IF example \in DOMAIN Rotated(n)
                  THEN set(Rotated(n)[example]) ELSE fields

-----------------------------------------------------------------------------
NoOutputs == [m \in ModuleSet |-> <<>>]

NothingShown == [module |-> "", fields |-> <<>>, outputs |-> NoOutputs]

(* Whatever a module emits becomes a schema field.                         *)
SchemaNamesAll(m, o) == DOMAIN o

(* schemaevo_output_fields of the compiled module.                         *)
SchemaNames(m, o) == DOMAIN o \cap FieldsOf[m]

RunModule ==
  /\ example \in DOMAIN Examples
  /\ step \in DOMAIN Modules
  /\ LET m == Modules[step]
         before == BeforeModule(m)
     IN \E raw \in RawOutputs(m, Examples[example]) :
          /\ LET o     == Parsed(m, raw)
                 names == SchemaNames(m, o)
             IN /\ fields' = Updated(before, [n \in names |-> o[n]])
                /\ producers' = Updated(producers, [n \in names |-> m])
                /\ outputs' = [outputs EXCEPT ![m] = o]
                /\ invalid' = IF Accepted(m, raw) THEN invalid
                                                  ELSE invalid \cup {m}
          /\ shown' = [module |-> m, fields |-> before, outputs |-> outputs]
  /\ step' = step + 1
  /\ UNCHANGED <<policy, ablation, example, predictions>>

StartRun ==
  /\ fields' = <<>> /\ producers' = <<>>
  /\ outputs' = NoOutputs
  /\ invalid' = {}
  /\ shown' = NothingShown
  /\ step' = 1

(* The prediction of an example.                                           *)
Return ==
  /\ example \in DOMAIN Examples
  /\ step > Len(Modules)
  /\ predictions' = IF ablation = NoAblation
                    THEN Append(predictions,
                                [outputs |-> outputs, valid |-> invalid = {}])
                    ELSE predictions
  /\ example' = example + 1
  /\ StartRun
  /\ UNCHANGED <<policy, ablation>>

(* Another evaluation of the same examples, under an ablation.             *)
Ablate ==
  /\ ablation = NoAblation
  /\ example > Len(Examples)
  /\ ablation' \in Ablations
  /\ example' = 1
  /\ StartRun
  /\ UNCHANGED <<policy, predictions>>

Over ==
  /\ ablation # NoAblation
  /\ example > Len(Examples)
  /\ UNCHANGED vars

Init ==
  /\ policy \in Policies
  /\ ablation = NoAblation
  /\ example = 1
  /\ step = 1
  /\ fields = <<>> /\ producers = <<>>
  /\ outputs = NoOutputs
  /\ invalid = {}
  /\ shown = NothingShown
  /\ predictions = <<>>

Next == RunModule \/ Return \/ Ablate \/ Over

Spec == Init /\ [][Next]_vars

-----------------------------------------------------------------------------
(* What the OpenAI adapter sends for the last module: the declared inputs, *)
(* gathered with later outputs over earlier ones and over the schema       *)
(* fields, and besides them the schema fields and the outputs themselves.  *)
Available(n) ==
  LET holders == Emitters(shown.outputs, n)
  IN  IF holders # {} THEN shown.outputs[Modules[Max(holders)]][n]
      ELSE IF n \in DOMAIN shown.fields THEN shown.fields[n] ELSE None

Arguments == [n \in InputFields[shown.module] |-> Available(n)]

ValuesOf(f) == {f[n] : n \in DOMAIN f}

Sent ==
  ValuesOf(Arguments) \cup ValuesOf(shown.fields)
    \cup UNION {ValuesOf(shown.outputs[m]) : m \in ModuleSet}

Running == shown.module # ""

-----------------------------------------------------------------------------
(* A valid prediction keeps the whole contract, repaired or not: every     *)
(* field of the schema is there, a required one has a value, and no value  *)
(* has a wrong type or breaks a constraint.                                *)
ValidMeansContract ==
  \A k \in DOMAIN predictions : predictions[k].valid =>
    \A m \in ModuleSet : \A n \in FieldsOf[m] :
      LET o == predictions[k].outputs[m] IN
      /\ n \in DOMAIN o
      /\ o[n].kind = "good" \/ (n \notin Required /\ o[n] = None)

(* What a module emitted in an invalid output reaches no later module and  *)
(* no prediction.                                                          *)
InvalidStaysInside ==
  \A m \in invalid :
    /\ outputs[m] = <<>>
    /\ Running => \A v \in Sent : <<v.by, v.of>> # <<m, Examples[example]>>

(* A schema field that is not ablated is what the module that owns it      *)
(* said, though another module may emit the same name as an output of its  *)
(* own, and its recorded producer is that module.                          *)
FieldsAreTheProducers ==
  \A n \in DOMAIN fields :
    /\ n \in FieldsOf[producers[n]]
    /\ n # ablation.field => fields[n] = outputs[producers[n]][n]

(* An ablation takes the field from the schema fields of every consumer:   *)
(* a consumer finds no value of this example under its name, except that   *)
(* a shuffle leaves it where there are no two values to exchange or where  *)
(* the first evaluation had none for this example.                         *)
AblatedForConsumers ==
  Running /\ ablation # NoAblation /\ shown.module \in Consumers =>
    /\ ablation.kind = "disabled" => shown.fields = <<>>
    /\ ablation.field \in DOMAIN shown.fields =>
         LET v == shown.fields[ablation.field] IN
         \/ v \in {None, Blank}
         \/ v.of # Examples[example]
         \/ ablation.kind = "shuffle" /\ example \notin DOMAIN Rotated(ablation.field)

(* A shuffle deals the values of the first evaluation out again: every     *)
(* value goes to exactly one example, and to none twice, and no example    *)
(* keeps its own.                                                          *)
ShuffleIsDerangement ==
  \A n \in AllFields : Cardinality(FoundIn(n)) > 1 =>
    \E p \in [FoundIn(n) -> FoundIn(n)] :
      /\ IsInjective(p)
      /\ \A k \in FoundIn(n) : p[k] # k /\ Rotated(n)[k] = FoundValue(p[k], n)

(* README.md:148 speaks of ablations that mask, blank and shuffle fields,  *)
(* and README.md:588 of causal evidence: a consumer under a mask is not    *)
(* sent the value.  The code breaks it: the OpenAI adapter sends the       *)
(* outputs of earlier modules as they were.                                *)
MaskHidesValue ==
  Running /\ ablation.kind = "mask" /\ shown.module \in Consumers =>
    \A m \in ModuleSet : ablation.field \in FieldsOf[m] =>
      \A v \in Sent :
        <<v.name, v.by, v.of>> # <<ablation.field, m, Examples[example]>>
=============================================================================
