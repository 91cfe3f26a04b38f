----------------------------- MODULE FixedPool -----------------------------
(***************************************************************************)
(* run_fixed_pool_schema_mvp                                               *)
(* (src/schemaevo/optimizers/fixed_pool_schema.py) in a run with budget    *)
(* caps: propose a pool, evaluate a baseline, smoke-test, select, reflect, *)
(* confirm, test on the held-out split, ablate and decide.  With a cap set *)
(* the code is serial (_evaluate_many_budgeted_serial), so one action is   *)
(* one gated evaluation or one straight-line piece of the driver.          *)
(*                                                                         *)
(* A schema is its id, a number: ids are compared when results tie.  A     *)
(* batch is a function from schemas to positions, 0 for a schema that is   *)
(* not in it; candidates are evaluated in the order of their positions.    *)
(* Scores are abstracted to the selection key below the id, to whether a   *)
(* smoke result clears min_smoke_validity, and to whether a confirmation   *)
(* result clears the delta, validity and interval bars of _make_decision.  *)
(***************************************************************************)
EXTENDS Budget, FiniteSets

CONSTANTS
  Schemas,           \* schema ids, numbers
  Proposable,        \* schemas the proposer may come up with
  Controls,          \* human, random and validator-only schemas of the pool
  GrammarOK,         \* schemas that pass SchemaGrammar.check_candidate
  NTraceSchemas,     \* config.n_trace_schemas: cap on the first proposal
  PerRound,          \* schemas_per_round: cap on a reflection proposal
  ReflectionRounds,  \* config.reflection_rounds
  TopKConfirmation,  \* config.top_k_confirmation
  Keys,              \* selection keys a candidate may reach
  Fields,            \* Fields[s]: number of evolved fields of schema s
  Calls,             \* Calls[split]: target calls of one evaluation
  Estimate,          \* Estimate[split]: estimated tokens and dollars of one
  Actual,            \* Actual[split]: the amounts one may really cost
  ProposalCosts,     \* amounts one call of the proposer may cost
  LimitChoices,      \* the budget limits a run may be configured with
  NoSchema, NoKey

Splits == {"smoke", "selection", "confirmation", "heldout"}

Batch == [Schemas -> Nat]

ASSUME SchemasAssumption ==
  /\ Schemas \subseteq Nat
  /\ Proposable \subseteq Schemas
  /\ Controls \subseteq Schemas
  /\ NoSchema \notin Schemas
  /\ Keys \subseteq Int
  /\ NoKey \notin Keys
  /\ Fields \in [Schemas -> Nat]
  /\ \E m \in Schemas : \A s \in Schemas : s <= m

ASSUME ConfigAssumption ==
  /\ NTraceSchemas \in Nat
  /\ PerRound \in Nat \ {0}
  /\ ReflectionRounds \in Nat \ {0}
  /\ TopKConfirmation \in Nat \ {0}
  /\ LimitChoices \subseteq BudgetLimits

(* An evaluation of a non-empty split calls the model, and an evaluation   *)
(* that completes makes exactly Calls[split] calls: every module of the    *)
(* program runs once per example, and a cached prediction is counted in    *)
(* full.                                                                   *)
ASSUME CostAssumption ==
  /\ Calls \in [Splits -> Nat]
  /\ Calls["selection"] > 0 /\ Calls["confirmation"] > 0
  /\ Estimate \in [Splits -> Amount]
  /\ Actual \in [Splits -> SUBSET Amount]
  /\ \A x \in Splits : \A a \in Actual[x] : a.calls = Calls[x]
  /\ ProposalCosts \subseteq Amount
  /\ \A u \in ProposalCosts : u.calls = 0

(* The context windows of the models bound the prompts of an evaluation.   *)
ASSUME WorstCostAssumption ==
  \A x \in Splits :
    Actual[x] = {}
      \/ \E worst \in Actual[x] : \A a \in Actual[x] : a.prompt <= worst.prompt

VARIABLES
  limits,      \* config: the caps of this run
  used,        \* BudgetTracker
  proposer,    \* proposer.total_usage
  recorded,    \* recorded_proposal_usage: the part the budget knows of
  stage,       \* where the driver is
  round,       \* reflection round
  arrival,     \* schema_pool, in order
  alive,       \* compiled_candidates: the candidates still in the race
  batch,       \* order of the candidates being evaluated
  pending,     \* candidates of the running _evaluate_many not yet evaluated
  smoked,      \* candidates of this batch with a smoke result
  passed,      \* those whose result clears min_smoke_validity
  key,         \* selection_results: the key of each evaluated schema
  top,         \* top_programs
  primary,     \* primary_schema_id
  confirmed,   \* schemas with a confirmation result
  meets,       \* those that clear the bars of the decision
  baselines,   \* splits on which the base program has been evaluated
  heldout,     \* schema evaluated on the heldout split
  ablated,     \* number of field ablation results
  reported,    \* cost of the results _cost_summary will sum
  unreported,  \* cost of new_smoke results not yet in current_smoke
  outcome      \* "none", the decision, or why the run raised

vars == <<limits, used, proposer, recorded, stage, round, arrival, alive,
          batch, pending, smoked, passed, key, top, primary, confirmed,
          meets, baselines, heldout, ablated, reported, unreported, outcome>>

config     == <<limits>>
proposals  == <<proposer, recorded>>
candidates == <<arrival, alive>>
smoke      == <<smoked, passed>>
choice     == <<top, primary>>
tests      == <<confirmed, meets, heldout, ablated>>

Final == {"done", "failed"}

Stages == {"propose", "selection_baseline", "smoke", "selection", "reflect",
           "reflect_smoke", "reflect_selection", "rank",
           "confirmation_baseline", "confirmation",
           "heldout_baseline", "heldout_primary", "ablation"} \cup Final

Outcomes == {"none", "proceed", "stop", "raised", "empty_pool",
             "budget_selection_baseline", "no_smoke_survivor",
             "no_selection", "budget_confirmation_baseline",
             "no_confirmation", "budget_heldout_baseline",
             "budget_heldout_primary"}

NoBatch == [s \in Schemas |-> 0]

Members(b) == {s \in Schemas : b[s] # 0}

Pool == Members(arrival)

Evaluated == {s \in Schemas : key[s] # NoKey}

-----------------------------------------------------------------------------
(* Budget gates and reserves *)

SelectionReserve    == Calls["selection"]
ConfirmationReserve == 2 * Calls["confirmation"]

(* A gate that ignores what the later stages need.                         *)
NeedAlone(split, reserve) == [Estimate[split] EXCEPT !.calls = Calls[split]]

Need(split, reserve) ==
  [Estimate[split] EXCEPT !.calls = Calls[split] + reserve]

CanEvaluate(split, reserve) == Gate(used, limits, Need(split, reserve))

Charge(cost) == used' = Plus(used, cost)

Report(cost) == reported' = Plus(reported, cost)

(* The driver raises: the run ends without a summary.  What an evaluation  *)
(* spent before it raised is not recorded.                                 *)
Abort(why) ==
  /\ stage' = "failed"
  /\ outcome' = why

Goto(next) ==
  /\ stage' = next
  /\ UNCHANGED outcome

-----------------------------------------------------------------------------
(* Proposal and pool *)

(* Positions are consecutive: a proposal is a list without repetitions     *)
(* (_dedupe in schemas/proposer.py) of at most n schemas.                  *)
Proposals(n) ==
  {b \in [Schemas -> 0 .. n] :
     /\ Members(b) \subseteq Proposable
     /\ \A i \in 1 .. Cardinality(Members(b)) :
          \E s \in Members(b) : b[s] = i}

(* by_id.setdefault: a control that was also proposed keeps the place of   *)
(* the proposal; the controls follow, in the order of their ids.           *)
WithControls(b) ==
  [s \in Schemas |-> IF b[s] = 0 /\ s \in Controls
                     THEN NTraceSchemas + 1 + s
                     ELSE b[s]]

(* _static_filter *)
StaticFilter(b) == [s \in Schemas |-> IF s \in GrammarOK THEN b[s] ELSE 0]

(* Build, record the usage of, filter, freeze and compile the pool.        *)
Propose ==
  /\ stage = "propose"
  /\ \E b \in Proposals(NTraceSchemas), u \in ProposalCosts :
       /\ proposer' = u
       /\ recorded' = u
       /\ Charge(u)
       /\ arrival' = StaticFilter(WithControls(b))
  /\ alive' = Members(arrival')
  /\ IF alive' = {} THEN Abort("empty_pool") ELSE Goto("selection_baseline")
  /\ UNCHANGED <<config, round, batch, pending, smoke, key, choice, tests,
                 baselines, reported, unreported>>

-----------------------------------------------------------------------------
(* Evaluations.  Each evaluation of a batch is two actions: the loop body  *)
(* on the first pending candidate, and the end of the loop, reached when   *)
(* no candidate is pending or the gate refuses the next one (break).       *)

(* The baseline evaluation of _evaluate_required_with_budget.              *)
Baseline(split, reserve) ==
  /\ CanEvaluate(split, reserve)
  /\ \E cost \in Actual[split] : Charge(cost) /\ Report(cost)
  /\ baselines' = baselines \cup {split}

IsFirst(s) ==
  /\ s \in pending
  /\ \A t \in pending : batch[s] <= batch[t]

EvaluateFirst(s, split, reserve) ==
  /\ IsFirst(s)
  /\ CanEvaluate(split, reserve)
  /\ pending' = pending \ {s}

(* A loop that waits for a gate that stays closed.                         *)
LoopWaits(split, reserve) == pending = {}

LoopOver(split, reserve) ==
  pending = {} \/ ~CanEvaluate(split, reserve)

StartBatch(b, who) ==
  /\ batch' = b
  /\ pending' = who

SelectionBaseline ==
  LET reserve == ConfirmationReserve + SelectionReserve IN
  /\ stage = "selection_baseline"
  /\ IF CanEvaluate("selection", reserve)
     THEN /\ Baseline("selection", reserve)
          /\ StartBatch(arrival, alive)
          /\ Goto(IF Calls["smoke"] > 0 THEN "smoke" ELSE "selection")
     ELSE /\ Abort("budget_selection_baseline")
          /\ UNCHANGED <<used, reported, baselines, batch, pending>>
  /\ UNCHANGED <<config, proposals, round, candidates, smoke, key, choice,
                 tests, unreported>>

SmokeReserve == SelectionReserve + ConfirmationReserve

Smoke(s) ==
  /\ stage = "smoke"
  /\ EvaluateFirst(s, "smoke", SmokeReserve)
  /\ \E cost \in Actual["smoke"] : Charge(cost) /\ Report(cost)
  /\ smoked' = smoked \cup {s}
  /\ \E valid \in BOOLEAN :
       passed' = IF valid THEN passed \cup {s} ELSE passed
  /\ UNCHANGED <<config, proposals, stage, round, candidates, batch, key,
                 choice, tests, baselines, unreported, outcome>>

(* "if smoke_results": with no result at all nothing is filtered.          *)
Survivors(who) == IF smoked = {} THEN who ELSE who \cap passed

SmokeEnd ==
  /\ stage = "smoke"
  /\ LoopOver("smoke", SmokeReserve)
  /\ alive' = Survivors(alive)
  /\ IF alive' = {}
     THEN Abort("no_smoke_survivor") /\ UNCHANGED <<batch, pending>>
     ELSE Goto("selection") /\ StartBatch(arrival, alive')
  /\ UNCHANGED <<config, used, proposals, round, arrival, smoke, key, choice,
                 tests, baselines, reported, unreported>>

(* One selection evaluation, of the first pool or of a reflected batch.    *)
Select(s) ==
  /\ stage \in {"selection", "reflect_selection"}
  /\ EvaluateFirst(s, "selection", ConfirmationReserve)
  /\ \E cost \in Actual["selection"] : Charge(cost) /\ Report(cost)
  /\ \E k \in Keys : key' = [key EXCEPT ![s] = k]
  /\ UNCHANGED <<config, proposals, stage, round, candidates, batch, smoke,
                 choice, tests, baselines, unreported, outcome>>

SelectEnd ==
  /\ stage \in {"selection", "reflect_selection"}
  /\ LoopOver("selection", ConfirmationReserve)
  /\ round' = IF stage = "selection" THEN round ELSE round + 1
  /\ Goto("reflect")
  /\ UNCHANGED <<config, used, proposals, candidates, batch, pending, smoke,
                 key, choice, tests, baselines, reported, unreported>>

-----------------------------------------------------------------------------
(* _run_reflection_rounds.  The proposer is called before any gate, and    *)
(* its usage reaches the budget only after the last round.                 *)

(* Positions of a new batch follow those of every schema seen before.      *)
MaxId  == CHOOSE m \in Schemas : \A s \in Schemas : s <= m
Offset == NTraceSchemas + 2 + MaxId + round * PerRound

(* A round that does not look at what it has seen before.                  *)
NewSchemasAgain(b) == [s \in Schemas |-> IF b[s] = 0 THEN 0 ELSE Offset + b[s]]

NewSchemas(b) ==
  [s \in Schemas |-> IF s \in Pool \/ b[s] = 0 THEN 0 ELSE Offset + b[s]]

(* Programs that join the race without their schemas joining the pool.     *)
JoinRaceOnly(who) == UNCHANGED arrival /\ alive' = alive \cup who

(* current_pool.extend, current_programs.extend *)
JoinPool(who) ==
  /\ arrival' = [s \in Schemas |-> IF s \in who THEN batch'[s] ELSE arrival[s]]
  /\ alive' = alive \cup who

ReflectPropose ==
  /\ stage = "reflect"
  /\ round < ReflectionRounds
  /\ Evaluated # {}
  /\ smoked' = {}
  /\ passed' = {}
  /\ \E b \in Proposals(PerRound), u \in ProposalCosts :
       LET new == NewSchemas(StaticFilter(b)) IN
       /\ proposer' = Plus(proposer, u)
       /\ StartBatch(new, Members(new))
       /\ IF Members(new) = {}
          THEN Goto("reflect") /\ round' = round + 1 /\ UNCHANGED candidates
          ELSE /\ UNCHANGED round
               /\ IF Calls["smoke"] > 0
                  THEN Goto("reflect_smoke") /\ UNCHANGED candidates
                  ELSE Goto("reflect_selection") /\ JoinPool(Members(new))
  /\ UNCHANGED <<config, used, recorded, key, choice, tests, baselines,
                 reported, unreported>>

ReflectSmoke(s) ==
  /\ stage = "reflect_smoke"
  /\ EvaluateFirst(s, "smoke", ConfirmationReserve)
  /\ \E cost \in Actual["smoke"] :
       Charge(cost) /\ unreported' = Plus(unreported, cost)
  /\ smoked' = smoked \cup {s}
  /\ \E valid \in BOOLEAN :
       passed' = IF valid THEN passed \cup {s} ELSE passed
  /\ UNCHANGED <<config, proposals, stage, round, candidates, batch, key,
                 choice, tests, baselines, reported, outcome>>

(* The smoke results are kept whether or not a candidate survives, the     *)
(* rejected schemas are forgotten and may be proposed again.               *)
ReflectSmokeEnd ==
  LET who == Survivors(Members(batch)) IN
  /\ stage = "reflect_smoke"
  /\ LoopOver("smoke", ConfirmationReserve)
  /\ Report(unreported)
  /\ unreported' = Nothing
  /\ StartBatch(batch, who)
  /\ IF who = {}
     THEN Goto("reflect") /\ round' = round + 1 /\ UNCHANGED candidates
     ELSE Goto("reflect_selection") /\ JoinPool(who) /\ UNCHANGED round
  /\ UNCHANGED <<config, used, proposals, smoke, key, choice, tests,
                 baselines>>

(* All the usage of the proposer, what the first proposal cost included.   *)
UsageTotal == proposer

(* _proposal_usage_delta: the usage only grows, so no difference is cut    *)
(* off at zero.                                                            *)
UsageDelta ==
  [calls      |-> 0,
   prompt     |-> proposer.prompt - recorded.prompt,
   completion |-> proposer.completion - recorded.completion,
   dollar     |-> proposer.dollar - recorded.dollar]

(* The rounds are over, or there is no result to reflect on.  The usage of *)
(* the reflection proposals reaches the budget here.                       *)
ReflectEnd ==
  /\ stage = "reflect"
  /\ round = ReflectionRounds \/ Evaluated = {}
  /\ Charge(UsageDelta)
  /\ recorded' = proposer
  /\ Goto("rank")
  /\ UNCHANGED <<config, proposer, round, candidates, batch, pending, smoke,
                 key, choice, tests, baselines, reported, unreported>>

-----------------------------------------------------------------------------
(* Commitment, confirmation, held-out test *)

(* The order of select_top_k_by_lcb: the key, then the schema id.          *)
Better(s, t) == key[s] > key[t] \/ (key[s] = key[t] /\ s > t)

TopK(S, k) == {s \in S : Cardinality({t \in S : Better(t, s)}) < k}

IsBest(s, S) == s \in S /\ \A t \in S \ {s} : Better(s, t)

Rank ==
  /\ stage = "rank"
  /\ \/ /\ Evaluated = {}
        /\ Abort("no_selection")
        /\ UNCHANGED choice
     \/ /\ \E s \in Evaluated : IsBest(s, Evaluated) /\ primary' = s
        /\ top' = TopK(Evaluated, TopKConfirmation)
        /\ Goto("confirmation_baseline")
  /\ UNCHANGED <<config, used, proposals, round, candidates, batch, pending,
                 smoke, key, tests, baselines, reported, unreported>>

ConfirmationBaseline ==
  LET reserve == Calls["confirmation"] IN
  /\ stage = "confirmation_baseline"
  /\ IF CanEvaluate("confirmation", reserve)
     THEN /\ Baseline("confirmation", reserve)
          /\ pending' = top
          /\ Goto("confirmation")
     ELSE /\ Abort("budget_confirmation_baseline")
          /\ UNCHANGED <<used, reported, baselines, pending>>
  /\ UNCHANGED <<config, proposals, round, candidates, batch, smoke, key,
                 choice, tests, unreported>>

(* Confirming and committing to whatever confirms well.                    *)
ConfirmAndCommit(s) ==
  /\ stage = "confirmation"
  /\ IsBest(s, pending)
  /\ CanEvaluate("confirmation", 0)
  /\ pending' = pending \ {s}
  /\ \E cost \in Actual["confirmation"] : Charge(cost) /\ Report(cost)
  /\ confirmed' = confirmed \cup {s}
  /\ \/ meets' = meets /\ primary' = primary
     \/ meets' = meets \cup {s} /\ primary' = s
  /\ UNCHANGED <<config, proposals, stage, round, candidates, batch, smoke,
                 key, top, heldout, ablated, baselines, unreported, outcome>>

(* The top candidates are confirmed in the order of the ranking.           *)
Confirm(s) ==
  /\ stage = "confirmation"
  /\ IsBest(s, pending)
  /\ CanEvaluate("confirmation", 0)
  /\ pending' = pending \ {s}
  /\ \E cost \in Actual["confirmation"] : Charge(cost) /\ Report(cost)
  /\ confirmed' = confirmed \cup {s}
  /\ \E good \in BOOLEAN : meets' = IF good THEN meets \cup {s} ELSE meets
  /\ UNCHANGED <<config, proposals, stage, round, candidates, batch, smoke,
                 key, choice, heldout, ablated, baselines, unreported,
                 outcome>>

HeldoutPair ==
  [Plus(Estimate["heldout"], Estimate["heldout"])
     EXCEPT !.calls = 2 * Calls["heldout"]]

(* The optional held-out stage starts only if both its evaluations fit.    *)
ConfirmEnd ==
  /\ stage = "confirmation"
  /\ LoopOver("confirmation", 0)
  /\ IF confirmed = {}
     THEN Abort("no_confirmation")
     ELSE Goto(IF Calls["heldout"] > 0 /\ Gate(used, limits, HeldoutPair)
               THEN "heldout_baseline"
               ELSE "ablation")
  /\ UNCHANGED <<config, used, proposals, round, candidates, batch, pending,
                 smoke, key, choice, tests, baselines, reported, unreported>>

HeldoutBaseline ==
  LET reserve == Calls["heldout"] IN
  /\ stage = "heldout_baseline"
  /\ IF CanEvaluate("heldout", reserve)
     THEN Baseline("heldout", reserve) /\ Goto("heldout_primary")
     ELSE /\ Abort("budget_heldout_baseline")
          /\ UNCHANGED <<used, reported, baselines>>
  /\ UNCHANGED <<config, proposals, round, candidates, batch, pending, smoke,
                 key, choice, tests, unreported>>

HeldoutPrimary ==
  /\ stage = "heldout_primary"
  /\ IF CanEvaluate("heldout", 0)
     THEN /\ \E cost \in Actual["heldout"] : Charge(cost) /\ Report(cost)
          /\ heldout' = primary
          /\ Goto("ablation")
     ELSE /\ Abort("budget_heldout_primary")
          /\ UNCHANGED <<used, reported, heldout>>
  /\ UNCHANGED <<config, proposals, round, candidates, batch, pending, smoke,
                 key, choice, confirmed, meets, ablated, baselines,
                 unreported>>

-----------------------------------------------------------------------------
(* Field ablations and decision *)

(* Mask, blank and shuffle per field, then one downstream-disabled run.    *)
Ablations(s) == IF Fields[s] = 0 THEN 0 ELSE 3 * Fields[s] + 1

Ablate ==
  /\ stage = "ablation"
  /\ ablated < Ablations(primary)
  /\ CanEvaluate("confirmation", 0)
  /\ \E cost \in Actual["confirmation"] : Charge(cost) /\ Report(cost)
  /\ ablated' = ablated + 1
  /\ UNCHANGED <<config, proposals, stage, round, candidates, batch, pending,
                 smoke, key, choice, confirmed, meets, heldout, baselines,
                 unreported, outcome>>

(* A decision about any candidate that confirmed well.                     *)
DecisionOnBest == IF meets # {} /\ ablated > 0 THEN "proceed" ELSE "stop"

(* _make_decision: about the primary, never about the best confirmed.      *)
Decision == IF primary \in meets /\ ablated > 0 THEN "proceed" ELSE "stop"

Finish ==
  /\ stage = "ablation"
  /\ ablated = Ablations(primary) \/ ~CanEvaluate("confirmation", 0)
  /\ stage' = "done"
  /\ outcome' = Decision
  /\ UNCHANGED <<config, used, proposals, round, candidates, batch, pending,
                 smoke, key, choice, tests, baselines, reported, unreported>>

(* _cost_summary: the evaluations' results and the proposer's usage.       *)
CostSummary == Plus(reported, proposer)

(* A runner, the proposer or the compiler raises: nothing catches it.      *)
Raise ==
  /\ stage \notin Final
  /\ Abort("raised")
  /\ UNCHANGED <<config, used, proposals, round, candidates, batch, pending,
                 smoke, key, choice, tests, baselines, reported, unreported>>

-----------------------------------------------------------------------------
Init ==
  /\ limits \in LimitChoices
  /\ used = Nothing
  /\ proposer = Nothing
  /\ recorded = Nothing
  /\ stage = "propose"
  /\ round = 1
  /\ arrival = NoBatch
  /\ alive = {}
  /\ batch = NoBatch
  /\ pending = {}
  /\ smoked = {}
  /\ passed = {}
  /\ key = [s \in Schemas |-> NoKey]
  /\ top = {}
  /\ primary = NoSchema
  /\ confirmed = {}
  /\ meets = {}
  /\ baselines = {}
  /\ heldout = NoSchema
  /\ ablated = 0
  /\ reported = Nothing
  /\ unreported = Nothing
  /\ outcome = "none"

EvaluateCandidate ==
  \E s \in Schemas : Smoke(s) \/ Select(s) \/ ReflectSmoke(s) \/ Confirm(s)

Step ==
  \/ Propose
  \/ SelectionBaseline
  \/ SmokeEnd
  \/ SelectEnd
  \/ ReflectPropose
  \/ ReflectSmokeEnd
  \/ ReflectEnd
  \/ Rank
  \/ ConfirmationBaseline
  \/ ConfirmEnd
  \/ HeldoutBaseline
  \/ HeldoutPrimary
  \/ Ablate
  \/ Finish
  \/ EvaluateCandidate

(* The call has returned or raised. *)
Returned == stage \in Final /\ UNCHANGED vars

Next == Step \/ Raise \/ Returned

(* One thread runs the driver, and every evaluation, proposal and write    *)
(* returns or raises.                                                      *)
Spec == Init /\ [][Next]_vars /\ WF_vars(Step)

-----------------------------------------------------------------------------
BudgetTypeOK ==
  /\ limits \in BudgetLimits
  /\ used \in Amount /\ proposer \in Amount /\ recorded \in Amount
  /\ reported \in Amount /\ unreported \in Amount

StageTypeOK ==
  /\ stage \in Stages
  /\ outcome \in Outcomes
  /\ round \in 1 .. ReflectionRounds

BatchTypeOK ==
  /\ arrival \in Batch /\ batch \in Batch
  /\ alive \subseteq Pool
  /\ pending \subseteq Schemas
  /\ smoked \subseteq Schemas /\ passed \subseteq smoked

ResultTypeOK ==
  /\ key \in [Schemas -> Keys \cup {NoKey}]
  /\ top \subseteq Evaluated
  /\ primary \in Schemas \cup {NoSchema}
  /\ confirmed \subseteq top /\ meets \subseteq confirmed
  /\ baselines \subseteq Splits
  /\ heldout \in Schemas \cup {NoSchema}
  /\ ablated \in Nat

(* Every variable has its type; results are kept only for candidates that  *)
(* had the earlier ones.                                                   *)
TypeOK == BudgetTypeOK /\ StageTypeOK /\ BatchTypeOK /\ ResultTypeOK

(* The target-call cap is exact: no run ever records more calls than       *)
(* max_target_task_calls, whatever the tokens do (README.md:195 "hard      *)
(* gates remain exact").                                                   *)
CallCapExact ==
  limits.calls # NoLimit => used.calls <= limits.calls

(* The reserves are enough.  When only calls are capped, a run that could  *)
(* afford its selection baseline is never stopped by the budget again: it  *)
(* selects at least one candidate, evaluates the confirmation baseline and *)
(* the primary, and an accepted held-out pair is completed.                *)
BudgetFailures ==
  {"no_selection", "budget_confirmation_baseline", "no_confirmation",
   "budget_heldout_baseline", "budget_heldout_primary"}

ReservesSuffice == OnlyCallsCapped(limits) => outcome \notin BudgetFailures

(* Within a batch smoke testing is all or nothing: a candidate that has a  *)
(* selection result either passed its smoke test or belongs to a batch     *)
(* none of whose candidates was smoke-tested.                              *)
SmokeFilterPerBatch ==
  stage \in {"selection", "reflect_selection"} =>
    \A s \in Members(batch) :
      key[s] # NoKey /\ Calls["smoke"] > 0 => s \in passed \/ smoked = {}

(* The decision is about the candidate the selection ranked first among    *)
(* those the smoke filter let through: it is the best of all selected      *)
(* ones, it belongs to the reported pool, it was confirmed and beat the    *)
(* bars itself, and it was ablated, even when other candidates did better  *)
(* on the confirmation split.                                              *)
DecisionIsAboutPrimary ==
  /\ SmokeFilterPerBatch
  /\ stage = "done" =>
       /\ primary \in Pool \cap confirmed
       /\ \A s \in Evaluated \ {primary} : Better(primary, s)
       /\ heldout \in {primary, NoSchema}
  /\ outcome = "proceed" => primary \in meets /\ ablated > 0

(* Nothing is spent twice or lost: at every moment the budget equals the   *)
(* cost of the results kept so far and the proposer usage it was told of;  *)
(* so the cost summary of a finished run equals the budget's.              *)
BudgetBalances ==
  /\ used = Plus(Plus(reported, unreported), recorded)
  /\ stage = "done" => CostSummary = used

(* The strengthening the theorems of FixedPoolProofs rest on.  ControlInv  *)
(* ties the working sets to the stage; ReserveInv says how many calls are  *)
(* still affordable at each stage: whatever is optional leaves at least    *)
(* the calls of everything that is not.                                    *)
SearchStages ==
  {"propose", "selection_baseline", "smoke", "selection", "reflect",
   "reflect_smoke", "reflect_selection", "rank", "confirmation_baseline"}

StageInv ==
  /\ stage \in {"reflect_smoke", "reflect_selection"} =>
       round < ReflectionRounds
  /\ stage \in {"selection_baseline", "smoke"} => alive # {}
  /\ stage \in {"propose", "selection_baseline", "smoke", "selection"} =>
       round = 1
  /\ stage = "confirmation" => pending \subseteq top
  /\ stage \in SearchStages => confirmed = {}

UsageInv ==
  /\ recorded.prompt <= proposer.prompt
  /\ recorded.completion <= proposer.completion
  /\ recorded.dollar <= proposer.dollar
  /\ proposer.calls = 0 /\ recorded.calls = 0

ControlInv == StageInv /\ UsageInv

(* Smoke results of a reflected batch and the usage of its proposal are    *)
(* the only amounts ever outstanding, and they are settled before ranking. *)
SettledStages ==
  {"rank", "confirmation_baseline", "confirmation", "heldout_baseline",
   "heldout_primary", "ablation", "done"}

BalanceInv ==
  /\ used = Plus(Plus(reported, unreported), recorded)
  /\ stage \notin {"reflect_smoke", "failed"} => unreported = Nothing
  /\ stage = "propose" => recorded = Nothing
  /\ stage \in SettledStages => recorded = proposer

Room(n) == limits.calls # NoLimit => used.calls + n <= limits.calls

ReserveInv ==
  OnlyCallsCapped(limits) =>
    /\ outcome \notin BudgetFailures
    /\ stage = "smoke" => Room(SmokeReserve)
    /\ stage = "selection" =>
         \/ Evaluated # {} /\ Room(ConfirmationReserve)
         \/ pending # {} /\ Room(SelectionReserve + ConfirmationReserve)
    /\ stage \in {"reflect", "reflect_smoke", "reflect_selection", "rank"} =>
         Evaluated # {} /\ Room(ConfirmationReserve)
    /\ stage = "confirmation_baseline" =>
         top # {} /\ Room(ConfirmationReserve)
    /\ stage = "confirmation" =>
         confirmed # {} \/ (pending # {} /\ Room(Calls["confirmation"]))
    /\ stage = "heldout_baseline" =>
         Calls["heldout"] > 0 /\ Room(2 * Calls["heldout"])
    /\ stage = "heldout_primary" =>
         Calls["heldout"] > 0 /\ Room(Calls["heldout"])

(* A schema that has a selection result is never selected again, not even  *)
(* when a reflection round proposes it once more, and the ranking is final *)
(* once confirmation data have been seen.                                  *)
ResultsAreFinal ==
  [][/\ \A s \in Schemas : key[s] # NoKey => key'[s] = key[s]
     /\ baselines \cap {"confirmation", "heldout"} # {} =>
          UNCHANGED <<key, top, primary, alive, arrival>>]_vars

(* Every run ends, with a decision or with an exception.                   *)
Terminates == <>(stage \in Final)

(* When an evaluation costs more than estimated, the token gate lets the   *)
(* run pass its prompt cap, but by no more than the excess of a single     *)
(* evaluation and what the proposer spent, however many are started.       *)
Excess ==
  LET over == UNION {{a.prompt - Estimate[x].prompt : a \in Actual[x]} :
                       x \in Splits}
  IN  CHOOSE m \in over \cup {0} : \A o \in over \cup {0} : o <= m

PromptOvershootBounded ==
  limits.prompt # NoLimit =>
    used.prompt <= limits.prompt + Excess + proposer.prompt

(* README.md:195 "budget-capped runs stay serial so hard gates remain      *)
(* exact": no cap is ever passed.  The code breaks it for tokens.          *)
PromptCapExact ==
  limits.prompt # NoLimit => used.prompt <= limits.prompt

-----------------------------------------------------------------------------
(* FixedPool implements StagedProtocol.  The run is committed from the     *)
(* moment the primary is known; a split is opened by the first result on   *)
(* it, a baseline's or a candidate's.  Of the smoke split only validity is *)
(* read, never a score, so it is not one of the splits the protocol counts.*)
PhaseOf ==
  CASE stage = "failed"                          -> "aborted"
    [] stage = "done"                            -> "reported"
    [] stage \notin Final /\ primary # NoSchema -> "committed"
    [] OTHER                                     -> "search"

OpenedSplits ==
  baselines
    \cup (IF confirmed # {} THEN {"confirmation"} ELSE {})
    \cup (IF heldout # NoSchema THEN {"heldout"} ELSE {})

Staged == INSTANCE StagedProtocol WITH
  Candidates  <- Schemas,
  NoCandidate <- NoSchema,
  phase       <- PhaseOf,
  committed   <- primary,
  opened      <- OpenedSplits,
  verdict     <- IF stage = "done" THEN outcome ELSE "none"

ImplementsStagedProtocol == Staged!Protocol
=============================================================================
