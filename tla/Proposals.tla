----------------------------- MODULE Proposals -----------------------------
(***************************************************************************)
(* The schema proposer that asks a language model (OpenAISchemaProposer in *)
(* src/schemaevo/schemas/proposer.py) and the accounts the fixed-pool      *)
(* driver keeps of it (optimizers/fixed_pool_schema.py): one proposer, used*)
(* by several runs, each with a first proposal and reflection rounds.      *)
(*                                                                         *)
(* A response is what the API gives: an exception, a response without      *)
(* text, text that is no JSON object, or a payload of proposals, each a    *)
(* list of field descriptions that may name unknown modules, lack a key,   *)
(* clash with one another or exceed the schema's token budget.             *)
(***************************************************************************)
EXTENDS Schema

CONSTANTS
  Unknown,       \* a module name the program does not have
  Responses,     \* what the API may give
  Requested,     \* numbers of schemas asked for
  TokenCounts,   \* tokens of a request with its answer
  Rounds,        \* reflection_rounds
  MaxRuns        \* bound: how many runs share the proposer

(* An item of "fields"; whole: SchemaField finds nothing else to object to.*)
IsItem(item) ==
  /\ item.producer \in ModuleSet \cup {Unknown}
  /\ item.consumers \subseteq ModuleSet \cup {Unknown}
  /\ item.type \in Types /\ item.whole \in BOOLEAN

ASSUME ProposalsAssumption ==
  /\ Unknown \notin ModuleSet
  /\ \A r \in Responses :
       /\ r.kind \in {"exception", "no_text", "no_json", "payload"}
       /\ IsList(r.proposals)
       /\ \A i \in DOMAIN r.proposals :
            /\ IsList(r.proposals[i].items)
            /\ \A k \in DOMAIN r.proposals[i].items :
                 IsItem(r.proposals[i].items[k])
  /\ Requested \subseteq Nat /\ TokenCounts \subseteq Nat
  /\ Rounds \in Nat /\ MaxRuns \in Nat

VARIABLES
  stage,      \* where the driver is
  run, round,
  strict,     \* raise_on_error
  total,      \* total_usage of the proposer, in tokens
  recorded,   \* the usage the driver recorded after the first proposal
  budget,     \* tokens of proposals in the budget tracker
  answered,   \* tokens of this run's requests that were answered with text
  asked,      \* the request just made: its n and the response
  returned    \* the candidates it returned, or Failed

vars == <<stage, run, round, strict, total, recorded, budget, answered, asked,
          returned>>

-----------------------------------------------------------------------------
(* _candidates_from_openai_payload *)

(* What SchemaField raises on; the exception costs the item alone.         *)
Broken(item) == ~item.whole \/ (item.type = "enum") # (item.enum # {})

(* An unknown producer is the first module; unknown consumers are left out,*)
(* and where none is left the last module consumes.                        *)
ReadItem(item) ==
  LET known == item.consumers \cap ModuleSet IN
  [name |-> item.name, type |-> item.type, required |-> item.required,
   producer |-> IF item.producer \in ModuleSet THEN item.producer
                ELSE Modules[1],
   consumers |-> IF known # {} THEN known ELSE {Last(Modules)},
   enum |-> item.enum]

Good(items) == {k \in DOMAIN items : ~Broken(items[k])}

(* Reading stops at the first item that raises.                            *)
ReadItemsUntil(items) ==
  LET bad == DOMAIN items \ Good(items)
      end == IF bad = {} THEN Len(items) ELSE Min(bad) - 1 IN
  [i \in 1 .. end |-> ReadItem(items[i])]

ReadItems(items) ==
  LET good == Picked(items, Good(items)) IN
  [i \in DOMAIN good |-> ReadItem(good[i])]

(* What comes again is left out.                                           *)
Distinct(seq) ==
  Picked(seq, {i \in DOMAIN seq : \A h \in 1 .. i - 1 : seq[h] # seq[i]})

(* Every consumer of every field.                                          *)
Uses(fields) == UNION {{i} \X fields[i].consumers : i \in DOMAIN fields}

(* Fields by producer, in the order of the items; a rule for every use, in *)
(* some order, and a validator for every name.                             *)
Build(fields) ==
  LET uses == SetToSeq(Uses(fields)) IN
  [keys       |-> Distinct([i \in DOMAIN fields |-> fields[i].producer]),
   fields     |-> [m \in ModuleSet |->
                     Picked(fields, {i \in DOMAIN fields :
                                       fields[i].producer = m})],
   rules      |-> [j \in DOMAIN uses |->
                     [consumer |-> uses[j][2],
                      field    |-> fields[uses[j][1]].name]],
   validators |-> [n \in {f.name : f \in ToSet(fields)} |-> DefaultValidator]]

(* No field, an exception of SchemaCandidate or a failed static check: the *)
(* proposal is skipped.  Its token budget is also that of the grammar.     *)
Kept(s) == Fields(s) # {} /\ Faults(s) = {} /\ StaticOK(s, MaxSchemaTokens)

(* The index is part of the metadata, and with it of the schema's id.      *)
Candidate(proposals, i) ==
  [index |-> i, schema |-> Build(ReadItems(proposals[i].items))]

(* A proposal that is no object with a list of fields raises out of the    *)
(* loop: the whole payload is lost.                                        *)
CandidatesOf(proposals) ==
  IF \E i \in DOMAIN proposals : ~proposals[i].wellformed THEN Failed
  ELSE LET made == [i \in DOMAIN proposals |-> Candidate(proposals, i)] IN
       Picked(made, {i \in DOMAIN made : Kept(made[i].schema)})

(* _dedupe, by id: equal contents at two indexes have two ids.             *)
Dedupe(candidates) == Distinct(candidates)

FirstN(seq, n) ==
  [j \in 1 .. (IF n < Len(seq) THEN n ELSE Len(seq)) |-> seq[j]]

(* What propose returns, or Failed where an exception reaches its except.  *)
Proposed(response, n) ==
  IF n = 0 THEN <<>>
  ELSE IF response.kind # "payload" THEN Failed
  ELSE LET found == CandidatesOf(response.proposals) IN
       IF found = Failed THEN Failed ELSE FirstN(Dedupe(found), n)

-----------------------------------------------------------------------------
(* propose *)

HasText(response) == response.kind \in {"no_json", "payload"}

(* A usage that is counted when the payload has been read.                 *)
CountsParsed(response, n) == n > 0 /\ Proposed(response, n) # Failed

(* total_usage grows as soon as the text is there.                         *)
Counts(response, n) == n > 0 /\ HasText(response)

Propose ==
  /\ stage \in {"propose", "reflect"}
  /\ \E response \in Responses, n \in Requested, tokens \in TokenCounts :
       /\ asked' = [n |-> n, response |-> response]
       /\ answered' =
            IF n > 0 /\ HasText(response) THEN answered + tokens ELSE answered
       /\ total' = IF Counts(response, n) THEN total + tokens ELSE total
       /\ returned' = Proposed(response, n)
       /\ stage' = IF returned' = Failed /\ strict THEN "raised"
                   ELSE IF stage = "propose" THEN "record" ELSE "rounds"
  /\ UNCHANGED <<run, round, strict, recorded, budget>>

-----------------------------------------------------------------------------
(* The driver *)

NoRequest ==
  [n |-> 0, response |-> [kind |-> "no_text", proposals |-> <<>>]]

(* The candidates go into the pool (module FixedPool).                     *)
PassOn == asked' = NoRequest /\ returned' = <<>>

(* _reset_proposal_usage.                                                  *)
ResetUsage == total' = 0

BeginRun ==
  /\ stage \in {"idle", "finished", "raised"} /\ run < MaxRuns
  /\ run' = run + 1
  /\ strict' \in BOOLEAN
  /\ ResetUsage
  /\ stage' = "propose" /\ round' = 1
  /\ recorded' = 0 /\ budget' = 0 /\ answered' = 0
  /\ PassOn

RecordProposal ==
  /\ stage = "record"
  /\ recorded' = total
  /\ budget' = budget + total
  /\ stage' = "rounds"
  /\ PassOn
  /\ UNCHANGED <<run, round, strict, total, answered>>

BeginRound ==
  /\ stage = "rounds" /\ round < Rounds
  /\ round' = round + 1
  /\ stage' = "reflect"
  /\ PassOn
  /\ UNCHANGED <<run, strict, total, recorded, budget, answered>>

(* The rounds are over, or end early: no selection result, no traces.      *)
RecordReflection ==
  /\ stage = "rounds"
  /\ budget' = budget + (IF total > recorded THEN total - recorded ELSE 0)
  /\ stage' = "finished"
  /\ PassOn
  /\ UNCHANGED <<run, round, strict, total, recorded, answered>>

Init ==
  /\ stage = "idle" /\ run = 0 /\ round = 0 /\ strict = FALSE
  /\ total = 0 /\ recorded = 0 /\ budget = 0 /\ answered = 0
  /\ asked = NoRequest /\ returned = <<>>

Next ==
  BeginRun \/ Propose \/ RecordProposal \/ BeginRound \/ RecordReflection

Spec == Init /\ [][Next]_vars

-----------------------------------------------------------------------------
(* Which proposals can be used: two usable fields of one name spoil one,   *)
(* and nothing can be said for one without a usable field.                 *)
Usable(proposal) ==
  LET good  == Good(proposal.items)
      field(k) == ReadItem(proposal.items[k])
      uses  == UNION {{k} \X field(k).consumers : k \in good}
      cost  == FieldTokens * Cardinality(good)
                 + RuleTokens * Cardinality(uses)
                 + ValidatorTokens * Cardinality(good) IN
  /\ good # {} /\ cost <= MaxSchemaTokens
  /\ Cardinality(good) <= MaxTotalFields
  /\ \A m \in ModuleSet :
       Cardinality({k \in good : field(k).producer = m}) <= MaxFieldsPerModule
  /\ \A k \in good : Len(field(k).name) <= MaxNameWords
  /\ \A k, l \in good : k # l => field(k).name # field(l).name

(* What is returned are the first usable proposals in their order, each    *)
(* coherent and with all its usable fields: a broken field costs itself    *)
(* alone, a broken proposal itself alone, and only a payload that is no    *)
(* list of proposals costs all (_candidates_from_openai_payload).          *)
ReturnedAreTheUsable ==
  stage \notin {"idle", "propose", "reflect"} /\ returned # Failed
    /\ asked.n > 0 =>
    LET proposals == asked.response.proposals
        usable == {i \in DOMAIN proposals : Usable(proposals[i])} IN
    /\ Len(returned) =
         (IF asked.n < Cardinality(usable) THEN asked.n
          ELSE Cardinality(usable))
    /\ \A j \in DOMAIN returned :
         LET i == returned[j].index
             s == returned[j].schema
             good == Good(proposals[i].items) IN
         /\ i \in usable /\ Rank(usable, i) = j - 1
         /\ Names(s) = {proposals[i].items[k].name : k \in good}
         /\ \A f \in Fields(s) : \A c \in f.consumers :
              [consumer |-> c, field |-> f.name] \in ToSet(s.rules)

(* A finished run has charged to its budget every token of a request that  *)
(* was answered with text, used or not, once, and none of an earlier run   *)
(* of the same proposer; the proposer's own total says the same.           *)
UsageIsBilled ==
  /\ stage = "finished" => budget = answered
  /\ stage # "idle" => total = answered
=============================================================================
