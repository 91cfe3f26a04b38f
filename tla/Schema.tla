------------------------------- MODULE Schema -------------------------------
(***************************************************************************)
(* Inter-module schemas and what can be done to them: the dataclasses of   *)
(* src/schemaevo/schemas/candidate.py, the mutations of                    *)
(* schemas/mutations.py, the static checks of schemas/grammar.py.          *)
(*                                                                         *)
(* A name is the sequence of its words ("a_v2" is <<"a", "v2">>).  The     *)
(* free text of a field (description, hypothesis) is left out, that of a   *)
(* rule as well; a validator is its kind and, for one_of, its values.      *)
(***************************************************************************)
EXTENDS Integers, SequencesExt

CONSTANTS
  Modules,         \* module names in the order they run
  FieldTokens, RuleTokens, ValidatorTokens,
                   \* tokens of a field, a rule, a validator that is not ""
  MaxFieldsPerModule, MaxTotalFields, MaxNameWords, MaxSchemaTokens,
                   \* SchemaGrammar
  Failed           \* apply_mutation raised before it built a candidate

ModuleSet == ToSet(Modules)

(* A sequence, of whatever it holds.                                       *)
IsList(seq) == seq \in Seq(ToSet(seq))

ASSUME ModulesAssumption ==
  IsList(Modules) /\ IsInjective(Modules) /\ Len(Modules) >= 2

ASSUME GrammarAssumption ==
  /\ {FieldTokens, RuleTokens, ValidatorTokens} \subseteq Nat
  /\ {MaxFieldsPerModule, MaxTotalFields, MaxNameWords, MaxSchemaTokens}
       \subseteq Nat \ {0}

Types == {"string", "number", "array", "object", "enum"}

Validator(kind) == [kind |-> kind, values |-> {}]

(* validation_rule or "": free text, in which nothing is executable.       *)
DefaultValidator == Validator("text")
NoValidator      == Validator("")

(* _tight_validator_for_field: made for the type and the enum values the   *)
(* field has at this moment.                                               *)
TightValidator(f) ==
  CASE f.type = "string" -> Validator("non_empty")
    [] f.type = "number" -> Validator("min")
    [] f.type = "array"  -> Validator("max_items")
    [] f.type = "enum"   -> [kind |-> "one_of", values |-> f.enum]
    [] f.type = "object" -> DefaultValidator

IsName(n) == IsList(n) /\ n # <<>>

(* What SchemaField.__post_init__ lets pass, of modules the program has.   *)
IsField(f) ==
  /\ DOMAIN f = {"name", "type", "required", "producer", "consumers", "enum"}
  /\ IsName(f.name) /\ f.type \in Types
  /\ f.producer \in ModuleSet
  /\ f.consumers # {} /\ f.consumers \subseteq ModuleSet
  /\ f.type = "enum" <=> f.enum # {}

(* module_fields is a dictionary, which has an order (keys).               *)
IsSchema(s) ==
  /\ DOMAIN s = {"keys", "fields", "rules", "validators"}
  /\ IsList(s.keys) /\ DOMAIN s.fields = ModuleSet
  /\ \A m \in ModuleSet :
       /\ IsList(s.fields[m])
       /\ \A f \in ToSet(s.fields[m]) :
            IsField(f) /\ f.producer = m /\ m \in ToSet(s.keys)
  /\ IsList(s.rules)
  /\ \A r \in ToSet(s.rules) : DOMAIN r = {"consumer", "field"}

-----------------------------------------------------------------------------
(* What is left of a sequence.                                             *)

(* How many numbers of a set are below i, and the j-th number of the set.  *)
Rank(S, i) == Cardinality({h \in S : h < i})

Nth(S, j) == CHOOSE i \in S : Rank(S, i) = j - 1

(* The items at the positions in S, in their order.                        *)
Picked(seq, S) == [j \in 1 .. Cardinality(S) |-> seq[Nth(S, j)]]

-----------------------------------------------------------------------------
(* A schema                                                                *)
Fields(s) == UNION {ToSet(s.fields[m]) : m \in ModuleSet}

Names(s) == {f.name : f \in Fields(s)}

Field(s, n) == CHOOSE f \in Fields(s) : f.name = n

Positions(s) == UNION {{m} \X DOMAIN s.fields[m] : m \in ModuleSet}

Keys(keys, m) == IF m \in ToSet(keys) THEN keys ELSE Append(keys, m)

(* The checks of SchemaField and SchemaCandidate.__post_init__.            *)
FaultyEnum(s)    == \E f \in Fields(s) : (f.type = "enum") # (f.enum # {})
Unconsumed(s)    == \E f \in Fields(s) : f.consumers = {}
WrongProducer(s) ==
  \E m \in ModuleSet : \E f \in ToSet(s.fields[m]) : f.producer # m
DuplicateName(s) ==
  \E p, q \in Positions(s) :
    p # q /\ s.fields[p[1]][p[2]].name = s.fields[q[1]][q[2]].name
DanglingRule(s)  == \E r \in ToSet(s.rules) : r.field \notin Names(s)
DanglingValidator(s) == DOMAIN s.validators \ Names(s) # {}

Faults(s) ==
  (IF FaultyEnum(s) THEN {"enum"} ELSE {})
    \cup (IF Unconsumed(s) THEN {"consumers"} ELSE {})
    \cup (IF WrongProducer(s) THEN {"producer"} ELSE {})
    \cup (IF DuplicateName(s) THEN {"duplicate"} ELSE {})
    \cup (IF DanglingRule(s) THEN {"rule"} ELSE {})
    \cup (IF DanglingValidator(s) THEN {"validator"} ELSE {})

TokenCost(s) ==
  FieldTokens * Cardinality(Positions(s))
    + RuleTokens * Len(s.rules)
    + ValidatorTokens *
        Cardinality({n \in DOMAIN s.validators : s.validators[n] # NoValidator})

(* SchemaGrammar.check_candidate, with the schema's own schema_token_budget*)
(* beside max_schema_tokens.                                               *)
StaticOK(s, budget) ==
  /\ Cardinality(Positions(s)) <= MaxTotalFields
  /\ TokenCost(s) <= budget /\ TokenCost(s) <= MaxSchemaTokens
  /\ \A m \in ModuleSet : Len(s.fields[m]) <= MaxFieldsPerModule
  /\ \A f \in Fields(s) :
       Len(f.name) <= MaxNameWords /\ f.consumers \subseteq ModuleSet
  /\ \A r \in ToSet(s.rules) : r.consumer \in ModuleSet

-----------------------------------------------------------------------------
(* Helpers of apply_mutation *)

WithoutNames(fields, names) ==
  Picked(fields, {i \in DOMAIN fields : fields[i].name \notin names})

RulesNotAbout(rules, names) ==
  Picked(rules, {i \in DOMAIN rules : rules[i].field \notin names})

Pop(validators, names) ==
  [n \in DOMAIN validators \ names |-> validators[n]]

Put(validators, n, v) ==
  [x \in DOMAIN validators \cup {n} |-> IF x = n THEN v ELSE validators[x]]

DefaultRules(f) ==
  SetToSeq({[consumer |-> c, field |-> f.name] : c \in f.consumers})

(* Every field of the module that has f's name becomes new.                *)
ReplaceField(s, f, new) ==
  [s EXCEPT !.fields[f.producer] =
     [i \in DOMAIN @ |-> IF @[i].name = f.name THEN new ELSE @[i]]]

AppendField(s, f) ==
  [s EXCEPT !.keys = Keys(@, f.producer),
            !.fields[f.producer] = Append(@, f)]

RemoveFields(s, m, names) ==
  [s EXCEPT !.keys = Keys(@, m), !.fields[m] = WithoutNames(@, names)]

-----------------------------------------------------------------------------
(* apply_mutation, one operator for each MutationOp.  f is a field of s.   *)

AddField(s, f) ==
  [AppendField(s, f) EXCEPT
     !.rules = @ \o DefaultRules(f),
     !.validators = Put(@, f.name, DefaultValidator)]

(* A dropped field whose rules stay.                                       *)
DropFieldOnly(s, f) ==
  [RemoveFields(s, f.producer, {f.name}) EXCEPT
     !.validators = Pop(@, {f.name})]

DropField(s, f) ==
  [RemoveFields(s, f.producer, {f.name}) EXCEPT
     !.rules = RulesNotAbout(@, {f.name}),
     !.validators = Pop(@, {f.name})]

(* A renaming that loses the validator.                                    *)
RenameForgetful(s, f, new) ==
  [ReplaceField(s, f, [f EXCEPT !.name = new]) EXCEPT
     !.rules = [i \in DOMAIN @ |->
                  IF @[i].field = f.name THEN [@[i] EXCEPT !.field = new]
                                         ELSE @[i]],
     !.validators = Pop(@, {f.name})]

RenameField(s, f, new) ==
  [ReplaceField(s, f, [f EXCEPT !.name = new]) EXCEPT
     !.rules = [i \in DOMAIN @ |->
                  IF @[i].field = f.name THEN [@[i] EXCEPT !.field = new]
                                         ELSE @[i]],
     !.validators = IF f.name \in DOMAIN @
                    THEN Put(Pop(@, {f.name}), new, @[f.name]) ELSE @]

ToggleRequired(s, f) == ReplaceField(s, f, [f EXCEPT !.required = ~@])

(* The sampler never changes a type to enum.                               *)
ChangeType(s, f, type) ==
  ReplaceField(s, f, [f EXCEPT !.type = type, !.enum = {}])

AddEnumValue(s, f, v) ==
  IF f.enum = {} THEN s ELSE ReplaceField(s, f, [f EXCEPT !.enum = @ \cup {v}])

DropEnumValue(s, f, v) ==
  IF Cardinality(f.enum) > 1
  THEN ReplaceField(s, f, [f EXCEPT !.enum = @ \ {v}])
  ELSE s

SplitField(s, f, n1, n2) ==
  LET first  == [f EXCEPT !.name = n1]
      second == [f EXCEPT !.name = n2]
      cut    == DropField(s, f)
  IN  [AppendField(AppendField(cut, first), second) EXCEPT
         !.rules = (@ \o DefaultRules(first)) \o DefaultRules(second),
         !.validators = Put(Put(@, n1, DefaultValidator), n2, DefaultValidator)]

MergeFields(s, f, g) ==
  LET merged == [name      |-> f.name \o g.name,
                 type      |-> "object",
                 required  |-> f.required \/ g.required,
                 producer  |-> f.producer,
                 consumers |-> f.consumers \cup g.consumers,
                 enum      |-> {}]
      names  == {f.name, g.name}
  IN  IF f.producer # g.producer
      THEN Failed
      ELSE [AppendField(RemoveFields(s, f.producer, names), merged) EXCEPT
              !.rules = RulesNotAbout(@, names) \o DefaultRules(merged),
              !.validators = Put(Pop(@, names), merged.name, DefaultValidator)]

(* Rules and consumers stay as they are.                                   *)
MoveField(s, f, target) ==
  AppendField(RemoveFields(s, f.producer, {f.name}),
              [f EXCEPT !.producer = target])

AddRule(s, consumer, n) ==
  [s EXCEPT !.rules = Append(@, [consumer |-> consumer, field |-> n])]

(* All rules of a consumer are dropped.                                    *)
DropRulesOfConsumer(s, r) ==
  [s EXCEPT !.rules =
     Picked(@, {i \in DOMAIN @ : @[i].consumer # r.consumer})]

DropRule(s, r) ==
  [s EXCEPT !.rules = Picked(@, {i \in DOMAIN @ : @[i] # r})]

SetValidator(s, n, v) == [s EXCEPT !.validators = Put(@, n, v)]
=============================================================================
