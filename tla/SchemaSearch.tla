---------------------------- MODULE SchemaSearch ----------------------------
(***************************************************************************)
(* What a closed-loop search does to its schemas, in any order and number  *)
(* of steps: mutations drawn by sample_schema_mutation and applied by      *)
(* apply_mutation, and one merge of two schemas of the front, pruned to    *)
(* its token budget (src/schemaevo/optimizers/schema_evo.py).              *)
(*                                                                         *)
(* line[1] and line[2] are the ends of two lines of descent: any two       *)
(* schemas of the front may meet in the merge, and two lines may start     *)
(* from one schema and share their first steps.                            *)
(***************************************************************************)
EXTENDS Schema

CONSTANTS
  Initial,         \* the initial population
  TemplateFields,  \* fields of the task's human templates
  Versions,        \* words a renaming appends
  NewValues,       \* values add_enum_value may draw
  InitialBudget,   \* schema_token_budget of the initial schemas
  MaxMutations,    \* MaxMutations[i]: bound on the mutations of line[i]
  NoSchema

ASSUME SearchAssumption ==
  /\ InitialBudget \in Nat \ {0}
  /\ MaxMutations \in Seq(Nat) /\ Len(MaxMutations) = 2
  /\ \A s \in Initial :
       /\ IsSchema(s) /\ Faults(s) = {} /\ Fields(s) # {}
       /\ StaticOK(s, InitialBudget)
       /\ DOMAIN s.validators = Names(s)
  /\ \A f \in TemplateFields : IsField(f) /\ f.producer = Modules[1]

(* config.schema_token_budget is what the grammar allows and what a merged *)
(* schema has; a mutated schema has the budget of its parent.              *)
TokenBudget == MaxSchemaTokens

VARIABLES
  line,       \* two evaluated schemas, in the order of the merge
  merged,     \* the merged schema, or NoSchema
  phase,      \* "mutate", "prune" or "done"
  rejected,   \* why the last schema made was rejected
  mutations   \* mutations of each line

searchVars == <<line, merged, phase, rejected, mutations>>

Lines == {1, 2}

Consumer == Modules[Len(Modules)]

Index(m) == CHOOSE i \in 1 .. Len(Modules) : Modules[i] = m

Earlier(m) == IF Index(m) = 1 THEN m ELSE Modules[Index(m) - 1]

Later(m) == IF Index(m) = Len(Modules) THEN m ELSE Modules[Index(m) + 1]

-----------------------------------------------------------------------------
(* sample_schema_mutation followed by apply_mutation: what may be made of  *)
(* a schema.  The operators are drawn at random with positive weights.     *)

DrawContract(s) ==
  (UNION {{ToggleRequired(s, f),
           SetValidator(s, f.name, TightValidator(f)),
           SetValidator(s, f.name, NoValidator)} : f \in Fields(s)})
    \cup (UNION {{ChangeType(s, f, t) : t \in (Types \ {"enum"}) \ {f.type}} :
                   f \in Fields(s)})
    \cup (UNION {{AddEnumValue(s, f, v) : v \in NewValues}
                   \cup {DropEnumValue(s, f, v) : v \in f.enum} :
                   f \in {g \in Fields(s) : g.type = "enum"}})

DrawFields(s) ==
  (UNION {{RenameField(s, f, Append(f.name, w)) : w \in Versions}
            \cup {SplitField(s, f, Append(f.name, "signal"),
                             Append(f.name, "evidence")),
                  MoveField(s, f, Earlier(f.producer)),
                  MoveField(s, f, Later(f.producer))} : f \in Fields(s)})
    \cup {AddField(s, f) : f \in {g \in TemplateFields : g.name \notin Names(s)}}

(* Two fields of one module if the first one drawn has a neighbour there.  *)
Partners(s, f) ==
  LET near == {g \in Fields(s) \ {f} : g.producer = f.producer}
  IN  IF near = {} THEN Fields(s) \ {f} ELSE near

(* The last field is never dropped.                                        *)
DrawRemovals(s) ==
  IF Cardinality(Fields(s)) > 1
  THEN {DropField(s, f) : f \in Fields(s)}
         \cup UNION {{MergeFields(s, f, g) : g \in Partners(s, f)} :
                       f \in Fields(s)}
  ELSE {}

(* Rules are added for the last module only.                               *)
DrawRules(s) ==
  {AddRule(s, Consumer, f.name) : f \in Fields(s)}
    \cup {DropRule(s, r) : r \in ToSet(s.rules)}

Draws(s) ==
  DrawContract(s) \cup DrawFields(s) \cup DrawRemovals(s) \cup DrawRules(s)

(* _compile_and_eval rejects what fails the static checks.                 *)
Refusals(s, budget) ==
  IF StaticOK(s, budget) \/ Faults(s) # {} THEN Faults(s) ELSE {"static"}

Reasons(s) == IF s = Failed THEN {"failed"} ELSE Refusals(s, InitialBudget)

Mutate ==
  /\ phase = "mutate"
  /\ \E i \in Lines :
       /\ mutations[i] < MaxMutations[i]
       /\ mutations' = [mutations EXCEPT ![i] = @ + 1]
       /\ \E child \in Draws(line[i]) :
            /\ rejected' = Reasons(child)
            /\ line' = IF Reasons(child) = {}
                       THEN [line EXCEPT ![i] = child] ELSE line
  /\ UNCHANGED <<merged, phase>>

-----------------------------------------------------------------------------
(* merge_schema_candidates *)

NewFields(p, q, m) == WithoutNames(q.fields[m], Names(p))

(* The validator of the schema that comes last.                            *)
LastValidator(p, q, n) ==
  IF n \in DOMAIN q.validators THEN q.validators[n] ELSE p.validators[n]

(* The validator comes from the schema the field comes from.               *)
MergedValidator(p, q, n) ==
  LET from == IF n \in Names(p) THEN p ELSE q
  IN  IF n \in DOMAIN from.validators THEN from.validators[n]
                                      ELSE DefaultValidator

MergeSchemas(p, q) ==
  LET fromP == Picked(p.keys, {k \in DOMAIN p.keys : p.fields[p.keys[k]] # <<>>})
      fromQ == Picked(q.keys, {k \in DOMAIN q.keys :
                                 /\ p.fields[q.keys[k]] = <<>>
                                 /\ NewFields(p, q, q.keys[k]) # <<>>})
  IN  [keys       |-> fromP \o fromQ,
       fields     |-> [m \in ModuleSet |-> p.fields[m] \o NewFields(p, q, m)],
       rules      |-> SetToSeq(ToSet(p.rules) \cup ToSet(q.rules)),
       validators |-> [n \in Names(p) \cup Names(q) |-> MergedValidator(p, q, n)]]

(* The optional fields in the order of module_fields.                      *)
Removable(s) == {x \in Positions(s) : ~s.fields[x[1]][x[2]].required}

KeyIndex(s, m) == CHOOSE k \in 1 .. Len(s.keys) : s.keys[k] = m

Before(s, x, y) ==
  \/ KeyIndex(s, x[1]) < KeyIndex(s, y[1])
  \/ x[1] = y[1] /\ x[2] < y[2]

(* The optional field that comes first.                                    *)
FirstRemovable(s) ==
  CHOOSE x \in Removable(s) : \A y \in Removable(s) \ {x} : Before(s, x, y)

LastRemovable(s) ==
  CHOOSE x \in Removable(s) : \A y \in Removable(s) \ {x} : Before(s, y, x)

Prunable(s) == TokenCost(s) > TokenBudget /\ Removable(s) # {}

Merge ==
  /\ phase = "mutate"
  /\ \E i \in Lines :
       /\ line[i] # line[3 - i]
       /\ line' = [line EXCEPT ![1] = line[i], ![2] = line[3 - i]]
       /\ LET s == MergeSchemas(line[i], line[3 - i]) IN
          /\ merged' = s
          /\ rejected' = Faults(s)
  /\ phase' = "prune"
  /\ UNCHANGED mutations

(* One turn of the loop of _prune_schema_to_budget.                        *)
Prune ==
  /\ phase = "prune" /\ rejected = {}
  /\ Prunable(merged)
  /\ LET x == LastRemovable(merged)
         s == DropField(merged, merged.fields[x[1]][x[2]])
     IN  /\ merged' = s
         /\ rejected' = Faults(s)
  /\ UNCHANGED <<line, phase, mutations>>

(* The merged schema is evaluated if it passes the static checks.          *)
MergeEnd ==
  /\ phase = "prune" /\ rejected = {}
  /\ ~Prunable(merged)
  /\ phase' = "done"
  /\ rejected' = Refusals(merged, TokenBudget)
  /\ UNCHANGED <<line, merged, mutations>>

-----------------------------------------------------------------------------
SearchInit ==
  /\ line \in [Lines -> Initial]
  /\ merged = NoSchema
  /\ phase = "mutate"
  /\ rejected = {}
  /\ mutations = [i \in Lines |-> 0]

Step == Mutate \/ Merge \/ Prune \/ MergeEnd

(* The search is over, or stopped by its rollouts before a merge.          *)
Over ==
  /\ phase # "prune"
  /\ phase = "mutate" => \A i \in Lines : mutations[i] = MaxMutations[i]
  /\ UNCHANGED searchVars

SearchNext == Step \/ Over

SearchSpec == SearchInit /\ [][SearchNext]_searchVars

-----------------------------------------------------------------------------
(* No drawn mutation leaves a schema that contradicts itself: whatever     *)
(* rules and validators earlier steps added, dropped or renamed, the only  *)
(* schemas SchemaCandidate refuses are those in which two fields get one   *)
(* name, and the only mutation apply_mutation refuses is a merge of fields *)
(* of different modules.  A merge of schemas is never refused, nor is a    *)
(* pruned one: merge_schema_candidates is called outside any try.          *)
OnlyNamesClash ==
  /\ rejected \subseteq {"duplicate", "failed", "static"}
  /\ phase # "mutate" => rejected \subseteq {"static"}

(* Every field keeps a validator entry and no entry outlives its field,    *)
(* through splits, renamings and merges.                                   *)
ValidatorsComplete ==
  /\ \A i \in Lines : DOMAIN line[i].validators = Names(line[i])
  /\ merged # NoSchema => DOMAIN merged.validators = Names(merged)

(* What a schema says about a field.                                       *)
RulesAbout(rules, n) ==
  Picked(rules, {i \in DOMAIN rules : rules[i].field = n})

Contract(s, n) ==
  <<Field(s, n),
    IF n \in DOMAIN s.validators THEN s.validators[n] ELSE NoValidator,
    RulesAbout(s.rules, n)>>

(* A mutation is local: apart from one field that it changes, or at most   *)
(* two that it replaces by others, everything the parent said of its       *)
(* fields holds in the child.                                              *)
LocalTo(p, s) ==
  LET common == Names(p) \cap Names(s)
      lost   == Names(p) \ Names(s)
      gained == Names(s) \ Names(p)
      edited == {n \in common : Contract(p, n) # Contract(s, n)}
  IN  /\ Cardinality(lost) <= 2 /\ Cardinality(gained) <= 2
      /\ Cardinality(edited) <= 1
      /\ edited # {} => lost \cup gained = {}

MutationIsLocal ==
  [][\A j \in Lines : phase' = "mutate" /\ line'[j] # line[j] =>
       LocalTo(line[j], line'[j])]_searchVars

(* A merged schema means what its parents meant: each field with its       *)
(* validator is that of the first parent that has it, and every rule of a  *)
(* parent about a field that is left is there once.                        *)
MergeKeepsContracts ==
  phase = "done" =>
    LET p == line[1]  q == line[2] IN
    /\ \A n \in Names(merged) :
         LET from == IF n \in Names(p) THEN p ELSE q IN
         /\ Field(merged, n) = Field(from, n)
         /\ merged.validators[n] = from.validators[n]
    /\ {r \in ToSet(p.rules) \cup ToSet(q.rules) : r.field \in Names(merged)}
         = ToSet(merged.rules)
    /\ IsInjective(merged.rules)

(* What is left of a schema of which only some fields are kept.            *)
Restricted(s, names) ==
  LET gone == Names(s) \ names IN
  [s EXCEPT !.fields = [m \in ModuleSet |-> WithoutNames(s.fields[m], gone)],
            !.rules = RulesNotAbout(@, gone),
            !.validators = Pop(@, gone)]

(* Pruning removes optional fields only, from the end, and no more of them *)
(* than the token budget asks for.                                         *)
PruneIsMinimal ==
  phase = "done" =>
    LET whole == MergeSchemas(line[1], line[2])
        gone  == {x \in Positions(whole) :
                    whole.fields[x[1]][x[2]].name \notin Names(merged)}
    IN  /\ gone \subseteq Removable(whole)
        /\ \A x \in gone, y \in Removable(whole) \ gone : Before(whole, y, x)
        /\ \A x \in gone :
             (\A y \in gone \ {x} : Before(whole, x, y)) =>
               LET more == Names(merged) \cup {whole.fields[x[1]][x[2]].name}
               IN  TokenCost(Restricted(whole, more)) > TokenBudget
        /\ TokenCost(merged) <= TokenBudget \/ gone = Removable(whole)

=============================================================================
