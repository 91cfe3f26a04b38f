----------------------------- MODULE ClosedLoop -----------------------------
(***************************************************************************)
(* schema_evo_optimize (src/schemaevo/optimizers/schema_evo.py): evaluate  *)
(* a baseline and an initial population, mutate, merge the two best of the *)
(* Pareto front, and, under successive halving, evaluate the most          *)
(* promising schemas again on the whole optimizer batch.                   *)
(*                                                                         *)
(* A schema is its id, a number: ids are compared when results tie.  An    *)
(* evaluation is on one of three batches: "stage", the optimizer batch or, *)
(* under successive halving, the first part of it; "sample", a fresh       *)
(* minibatch of the size of the optimizer batch; "full", the optimizer     *)
(* batch.  The score, validity and mean parts of the ranking are one       *)
(* number, the key of a result.  The parent of a mutation and the operator *)
(* are drawn at random with weights; here, any parent and any mutant.      *)
(***************************************************************************)
EXTENDS Budget, Pareto, Sequences, FiniteSets

CONSTANTS
  Schemas,       \* schema ids, numbers
  Base,          \* the base program, which has no schema
  Population,    \* initial schemas, human templates and random controls
  Mutants,       \* Mutants[s]: what one mutation of s may give
  Merges,        \* what merging two schemas may give
  GrammarOK,     \* schemas that pass SchemaGrammar.check_candidate
  MaxRollouts,   \* config.max_program_rollouts
  MaxAttempts,   \* config.max_mutation_attempts
  Merging,       \* config.enable_schema_merge
  SharedBatch,   \* config.shared_eval_batch
  PromoteNum, PromoteDen,
                 \* config.successive_halving_promote_fraction
  KFinal,        \* config.k_final
  Calls,         \* Calls[batch]: target calls of one evaluation
  Estimate,      \* Estimate[batch][s]: estimated tokens and dollars
  Actual,        \* Actual[batch]: the amounts an evaluation may cost
  Scores,        \* the [key, point] an evaluation may give
  LimitChoices   \* the budget limits a run may be configured with

Batches == {"stage", "sample", "full"}

Programs == Schemas \cup {Base}

ASSUME SchemasAssumption ==
  /\ Schemas \subseteq Nat
  /\ Base \notin Schemas
  /\ Population \in Seq(Schemas)
  /\ \A i, j \in 1 .. Len(Population) :
       Population[i] = Population[j] => i = j
  /\ Mutants \in [Schemas -> SUBSET Schemas]
  /\ Merges \subseteq Schemas
  /\ GrammarOK \subseteq Schemas

(* An id is a hash of the parent's id, the mutation history and the        *)
(* content: what mutation and merge give is new, and only the same parent  *)
(* gives the same child again.                                             *)
ASSUME IdsAssumption ==
  LET given == {Population[i] : i \in 1 .. Len(Population)} IN
  /\ \A s \in Schemas : Mutants[s] \cap (given \cup Merges \cup {s}) = {}
  /\ \A s, t \in Schemas : s # t => Mutants[s] \cap Mutants[t] = {}
  /\ Merges \cap given = {}

ASSUME ConfigAssumption ==
  /\ MaxRollouts \in Nat \ {0}
  /\ MaxAttempts \in Nat /\ MaxAttempts >= MaxRollouts
  /\ Merging \in BOOLEAN /\ SharedBatch \in BOOLEAN
  /\ PromoteNum \in Nat \ {0} /\ PromoteDen \in Nat \ {0}
  /\ PromoteNum <= PromoteDen
  /\ KFinal \in Nat \ {0}
  /\ LimitChoices \subseteq BudgetLimits

ASSUME CostAssumption ==
  /\ Calls \in [Batches -> Nat \ {0}]
  /\ Calls["stage"] <= Calls["full"] /\ Calls["sample"] = Calls["full"]
  /\ Estimate \in [Batches -> [Programs -> Amount]]
  /\ Actual \in [Batches -> SUBSET Amount]
  /\ \A x \in Batches : \A a \in Actual[x] : a.calls = Calls[x]

ASSUME ScoresAssumption ==
  /\ "dollars" \in Resources
  /\ \A o \in Scores : o.key \in Int /\ IsPoint(o.point)

VARIABLES
  limits,         \* config: the caps of this run
  used,           \* budget
  stage,          \* where the driver is
  next,           \* position in the population
  rollouts,       \* rollouts_used
  attempts,       \* mutation_attempts
  evaluated,      \* records of the search
  front,          \* pareto
  baselined,      \* there is a promotion_baseline_result
  queue,          \* promotion_records not yet tried
  promoted,       \* records of the promotion
  promotedFront   \* promoted_pareto

vars == <<limits, used, stage, next, rollouts, attempts, evaluated, front,
          baselined, queue, promoted, promotedFront>>

search    == <<next, attempts, evaluated, front>>
promotion == <<baselined, queue, promoted, promotedFront>>

Final == {"done", "failed"}

Record(s, x, o) ==
  [schema |-> s, batch |-> x, key |-> o.key, point |-> o.point]

Records(x) == {Record(s, x, o) : s \in Schemas, o \in Scores}

(* Known schemas if those dropped from the front were forgotten.           *)
OnFront == {r.schema : r \in front}

Searched == {r.schema : r \in evaluated}

-----------------------------------------------------------------------------
(* Limits and rankings *)

(* _should_promote: the stage batch is a proper part of the optimizer      *)
(* batch.                                                                  *)
ShouldPromote == Calls["stage"] < Calls["full"]

AtLeastOne(n) == IF n < 1 THEN 1 ELSE n

Fraction(n) == AtLeastOne((n * PromoteNum) \div PromoteDen)

(* _search_rollout_limit: halving keeps some rollouts for the promotion.   *)
SearchLimit ==
  IF ShouldPromote
  THEN AtLeastOne(MaxRollouts - Fraction(MaxRollouts))
  ELSE MaxRollouts

(* One rollout is kept for the merge.                                      *)
MutationLimit == IF Merging THEN AtLeastOne(SearchLimit - 1) ELSE SearchLimit

MutationBatch == IF SharedBatch THEN "stage" ELSE "sample"

First(S, k, Above(_, _)) ==
  {r \in S : Cardinality({q \in S : Above(q, r)}) < k}

(* The order of _select_promotions.                                        *)
Above(q, r) == q.key > r.key \/ (q.key = r.key /\ q.schema > r.schema)

(* The order of ParetoFront.top, where equal keys are told apart by cost.  *)
AboveOnFront(q, r) ==
  \/ q.key > r.key
  \/ /\ q.key = r.key
     /\ \/ q.point.use["dollars"] < r.point.use["dollars"]
        \/ /\ q.point.use["dollars"] = r.point.use["dollars"]
           /\ q.schema > r.schema

Top(F, k) == First(F, k, AboveOnFront)

(* Promotions chosen from the front, as if it were ordered by the key.     *)
PromotionsOfFront ==
  LET wanted == Fraction(Cardinality(evaluated))
      left   == MaxRollouts - rollouts
  IN  First(front, IF left < wanted THEN left ELSE wanted, Above)

Promotions ==
  LET wanted == Fraction(Cardinality(evaluated))
      left   == MaxRollouts - rollouts
  IN  First(evaluated, IF left < wanted THEN left ELSE wanted, Above)

-----------------------------------------------------------------------------
(* Evaluations *)

Need(program, x) == [Estimate[x][program] EXCEPT !.calls = Calls[x]]

Spent == Exhausted(used, limits)

Charge(cost) == used' = Plus(used, cost)

(* An evaluation that may start as long as no cap is reached.              *)
AcceptsUnlessSpent(s, x) == s \in GrammarOK /\ ~Spent

(* _compile_and_eval: a schema that fails the static checks, or whose      *)
(* evaluation does not fit in the budget, is rejected.                     *)
Accepts(s, x) == s \in GrammarOK /\ CanStart(used, limits, Need(s, x))

(* A search that appends to its front.                                     *)
ConsiderAppending(s, x) ==
  IF Accepts(s, x)
  THEN \E cost \in Actual[x], o \in Scores :
         /\ Charge(cost)
         /\ evaluated' = evaluated \cup {Record(s, x, o)}
         /\ front' = front \cup {Record(s, x, o)}
         /\ rollouts' = rollouts + 1
  ELSE UNCHANGED <<used, evaluated, front, rollouts>>

(* An evaluation of the search.                                            *)
Consider(s, x) ==
  IF Accepts(s, x)
  THEN \E cost \in Actual[x], o \in Scores :
         /\ Charge(cost)
         /\ evaluated' = evaluated \cup {Record(s, x, o)}
         /\ front' = Update(front, Record(s, x, o))
         /\ rollouts' = rollouts + 1
  ELSE UNCHANGED <<used, evaluated, front, rollouts>>

(* The baseline is evaluated before anything asks the budget.              *)
Baseline ==
  /\ stage = "baseline"
  /\ \E cost \in Actual["stage"] : Charge(cost)
  /\ stage' = "initial"
  /\ UNCHANGED <<limits, rollouts, search, promotion>>

InitialOpen ==
  next <= Len(Population) /\ rollouts < SearchLimit /\ ~Spent

ConsiderInitial ==
  /\ stage = "initial" /\ InitialOpen
  /\ Consider(Population[next], "stage")
  /\ next' = next + 1
  /\ UNCHANGED <<limits, stage, attempts, promotion>>

InitialEnd ==
  /\ stage = "initial" /\ ~InitialOpen
  /\ stage' = "mutate"
  /\ UNCHANGED <<limits, used, rollouts, search, promotion>>

MutationOpen ==
  /\ rollouts < MutationLimit
  /\ attempts < MaxAttempts
  /\ evaluated # {}
  /\ ~Spent

(* Attempts counted only when they give a new schema.                      *)
MutateUncounted ==
  /\ stage = "mutate" /\ MutationOpen
  /\ \/ UNCHANGED <<used, evaluated, front, rollouts, attempts>>
     \/ /\ attempts' = attempts + 1
        /\ \E parent \in evaluated :
             \E child \in Mutants[parent.schema] \ Searched :
               Consider(child, MutationBatch)
  /\ UNCHANGED <<limits, stage, next, promotion>>

(* apply_mutation may raise; a child that was evaluated is a duplicate.    *)
Mutate ==
  /\ stage = "mutate" /\ MutationOpen
  /\ attempts' = attempts + 1
  /\ \/ UNCHANGED <<used, evaluated, front, rollouts>>
     \/ \E parent \in evaluated :
          \E child \in Mutants[parent.schema] \ Searched :
            Consider(child, MutationBatch)
  /\ UNCHANGED <<limits, stage, next, promotion>>

MutateEnd ==
  /\ stage = "mutate" /\ ~MutationOpen
  /\ stage' = "merge"
  /\ UNCHANGED <<limits, used, rollouts, search, promotion>>

(* The merge of the two best records of the front, unless it is known.     *)
Merge ==
  /\ stage = "merge"
  /\ IF Merging /\ rollouts < SearchLimit /\ Cardinality(front) >= 2
     THEN \E m \in Merges :
            IF m \in Searched
            THEN UNCHANGED <<used, evaluated, front, rollouts>>
            ELSE Consider(m, "stage")
     ELSE UNCHANGED <<used, evaluated, front, rollouts>>
  /\ stage' = "promotion"
  /\ UNCHANGED <<limits, next, attempts, promotion>>

(* Without a baseline on the full batch nothing is promoted.               *)
StartPromotion ==
  /\ stage = "promotion"
  /\ IF /\ ShouldPromote /\ evaluated # {}
        /\ rollouts < MaxRollouts /\ ~Spent
        /\ CanStart(used, limits, Need(Base, "full"))
     THEN /\ \E cost \in Actual["full"] : Charge(cost)
          /\ baselined' = TRUE
          /\ queue' = Promotions
     ELSE UNCHANGED <<used, baselined, queue>>
  /\ stage' = "promote"
  /\ UNCHANGED <<limits, rollouts, search, promoted, promotedFront>>

PromotionOpen == queue # {} /\ rollouts < MaxRollouts /\ ~Spent

Promote ==
  /\ stage = "promote" /\ PromotionOpen
  /\ \E r \in queue :
       /\ \A q \in queue \ {r} : Above(r, q)
       /\ queue' = queue \ {r}
       /\ IF Accepts(r.schema, "full")
          THEN \E cost \in Actual["full"], o \in Scores :
                 LET new == Record(r.schema, "full", o) IN
                 /\ Charge(cost)
                 /\ promoted' = promoted \cup {new}
                 /\ promotedFront' = Update(promotedFront, new)
                 /\ rollouts' = rollouts + 1
          ELSE UNCHANGED <<used, promoted, promotedFront, rollouts>>
  /\ UNCHANGED <<limits, stage, search, baselined>>

(* Records of both batches, ranked together.                               *)
BothFronts == promotedFront \cup front

FinalFront == IF promotedFront # {} THEN promotedFront ELSE front

FinalRecords == Top(FinalFront, KFinal)

Finish ==
  /\ stage = "promote" /\ ~PromotionOpen
  /\ stage' = "done"
  /\ UNCHANGED <<limits, used, rollouts, search, promotion>>

(* A runner, the compiler or sample_schema_mutation (which finds no field  *)
(* to choose in a schema without fields) raises: nothing catches it.       *)
Raise ==
  /\ stage \notin Final
  /\ stage' = "failed"
  /\ UNCHANGED <<limits, used, rollouts, search, promotion>>

-----------------------------------------------------------------------------
Init ==
  /\ limits \in LimitChoices
  /\ used = Nothing
  /\ stage = "baseline"
  /\ next = 1
  /\ rollouts = 0
  /\ attempts = 0
  /\ evaluated = {}
  /\ front = {}
  /\ baselined = FALSE
  /\ queue = {}
  /\ promoted = {}
  /\ promotedFront = {}

Step ==
  \/ Baseline
  \/ ConsiderInitial
  \/ InitialEnd
  \/ Mutate
  \/ MutateEnd
  \/ Merge
  \/ StartPromotion
  \/ Promote
  \/ Finish

(* The call has returned or raised. *)
Returned == stage \in Final /\ UNCHANGED vars

Next == Step \/ Raise \/ Returned

(* One thread runs the search, and every evaluation returns or raises.     *)
Spec == Init /\ [][Next]_vars /\ WF_vars(Step)

-----------------------------------------------------------------------------
(* No rollout is paid twice or lost.  schema_by_id does its job across the *)
(* population, the mutations and the merge: the search never pays twice    *)
(* for a schema, and a promotion gives a second result only to a schema of *)
(* the search, once.  There is one rollout for every record, never more    *)
(* than max_program_rollouts, and those set aside for the promotion are    *)
(* not used by the search, however its attempts went.                      *)
NeverPaidTwice ==
  /\ \A r, q \in evaluated : r.schema = q.schema => r = q
  /\ \A r, q \in promoted : r.schema = q.schema => r = q
  /\ \A r \in promoted : r.schema \in Searched
  /\ rollouts = Cardinality(evaluated) + Cardinality(promoted)
  /\ Cardinality(evaluated) <= SearchLimit
  /\ rollouts <= MaxRollouts

(* The call cap is passed by the baseline or not at all: once it is        *)
(* reached, nothing else is evaluated.                                     *)
OvershootOnlyByBaseline ==
  limits.calls # NoLimit =>
    used.calls <= limits.calls \/ used.calls = Calls["stage"]

(* With a shared batch the final records are compared on one batch, and    *)
(* results of the halved batch never compete with those of the full one    *)
(* (test_schemaevo_core.py:1258-1260); full results come with a baseline   *)
(* on the same batch.                                                      *)
FinalComparable ==
  stage = "done" =>
    /\ SharedBatch => \E x \in Batches : \A r \in FinalRecords : r.batch = x
    /\ promoted # {} =>
         baselined /\ \A r \in FinalRecords : r.batch = "full"
    /\ evaluated # {} => FinalRecords # {}

(* Promotion respects the ranking of the search: when only calls are       *)
(* capped, whoever was ranked above a promoted schema was promoted too.    *)
PromotesTheBest ==
  OnlyCallsCapped(limits) =>
    \A r, q \in evaluated :
      /\ Above(q, r)
      /\ \E p \in promoted : p.schema = r.schema
      => \E p \in promoted : p.schema = q.schema

(* Every run ends: attempts that give nothing new still count.             *)
Terminates == <>(stage \in Final)

(* Both fronts are fronts: what they hold is what ParetoFront promises of  *)
(* the records evaluated so far.                                           *)
SearchFront == INSTANCE ParetoFront WITH
  Candidates <- Records("stage") \cup Records("sample"),
  seen       <- evaluated,
  front      <- front

PromotionFront == INSTANCE ParetoFront WITH
  Candidates <- Records("full"),
  seen       <- promoted,
  front      <- promotedFront

ImplementsFronts == SearchFront!FrontSpec /\ PromotionFront!FrontSpec
=============================================================================
