# PromptLift / schemaevo: a TLA+ model of the schema search

The package `src/schemaevo` looks for *inter-module schemas* of a fixed
language-model program: fields that one module writes and a later one reads.
It proposes or mutates schemas, compiles each one into a variant of the base
program, evaluates the variants on examples under a budget, and decides whether
one of them is worth having. This directory models the parts whose state can go
wrong over many steps.

## 1. Inventory

| component | state | operations | talks to |
|---|---|---|---|
| budget (`eval/cost_ledger.py`, `eval/budgeting.py`) | calls, tokens, dollars spent; caps | `can_start`, `exhausted`, `record_result`, `estimate_evaluation_budget` | both drivers, ablations |
| fixed-pool driver (`optimizers/fixed_pool_schema.py`, `optimizers/selection.py`) | pool, surviving candidates, results per split, primary, proposer usage | propose, smoke, select, reflect, rank, confirm, held-out, ablate, decide | proposer, budget, evaluation, files |
| closed-loop search (`optimizers/schema_evo.py`) | evaluated records, front, known schemas, rollouts, attempts | population, mutation, merge, promotion | budget, front, mutations, evaluation |
| Pareto front (`optimizers/pareto.py`) | list of records | `update`, `top` | closed loop |
| evaluation (`eval/scoring.py`, `eval/cache.py`, `eval/logging.py`, `programs/base.py`) | rollout cache in memory and on disk, logs, ledgers, score files | `evaluate_program`, `RolloutCache.get/set`, `LMProgram.run` | every driver and experiment |
| schema operations (`schemas/mutations.py`, `schemas/grammar.py`, `schemas/candidate.py`) | fields per module, consumption rules, validators | mutate, merge, prune, check | closed loop, compiler |
| compilation (`programs/compile_schema_program.py`, `programs/call_graph.py`) | none | compile, compare call graphs | drivers, composability |
| proposer (`schemas/proposer.py`) | usage of the last request and in total | ask the model, read its proposals, check and build candidates | fixed-pool driver |
| output validation (`schemas/validators.py`) | none | validate, coerce, repair | `LMProgram.run` |
| field ablations (`eval/field_ablations.py`) | rotated field values | mask, blank, shuffle, disable | fixed pool, `LMProgram.run` |
| worker pool (`fixed_pool_schema.py:853-965`) | jobs in flight | map over threads or processes | evaluation, budget |
| statistics (`eval/stats.py`, `optimizers/minibatching.py`) | none | bootstrap, randomization, Benjamini-Hochberg, minibatch | decision, closed loop |
| composability (`experiments/composability.py`, `experiments/external_prompt_optimizer.py`) | input and output file of an external command, results in order | evaluate, run the command, deploy its program, search, report | closed loop, evaluation, a shell command |
| other experiments (`experiments/*`) | none | transfer, causal pilot, budget report | finished results of the drivers |
| adapters, benchmarks, datasets, command line | none of their own | I/O | drivers |

Hard behaviours: the budget is shared by stages that are optional and stages
that are not; token usage is known only after it is spent; several stages must
keep to the example split they belong to; results of batches of different size
live in one list; an evaluation leaves files that a later process trusts; a
worker pool shares those files, and one failed job takes the results of all
others with it; an external command may outlive the run that started it and
writes to a file a later run reads; what the budget cuts short is concluded from
as if it were whole. `PROJECT.json`, under `hazards`, has each at its
line with the properties that cover it.

What makes each component correct:

- *budget*: what the tracker says was spent is the sum of the results it was
  given; a gate that is open leaves room for the evaluation behind it.
- *fixed-pool driver*: mandatory evaluations are never starved by optional ones;
  no score of a later split exists while an earlier stage still chooses; the
  reported decision is about the schema fixed before confirmation; no schema has
  two results of one split; the written cost summary is what was paid.
- *closed loop*: no schema is paid for twice at one fidelity; records that are
  compared were scored on the same examples; the number of rollouts is respected;
  the loop ends although an attempt may use nothing.
- *front*: the same set whatever the order of arrival.
- *evaluation and worker pool*: a reader never meets half a cache entry; reports
  that share an example agree; an intervention never sees the cache; what was
  paid is in the books; what was paid for is not lost by a failed job or a restart.
- *program run*: a valid prediction keeps the whole contract, nothing of an invalid
  output is used, a consumer finds what the producer said, an ablation hides it.
- *proposer*: a bad field or proposal costs itself alone; every answered token is
  charged to its run, once.
- *composability*: the program that is deployed is the one this run's command made;
  what is compared differs in what is claimed; the report covers what was paid.
- *conclusions*: the corrected p-values are those of the procedure they are named
  after; a GO is supported by everything that was run, and a cut by the budget does
  not turn a NO-GO into a GO unnoticed.
- *schema operations*: no legal mutation makes a schema that contradicts itself
  (a rule or validator of a field that is gone); a mutation touches what it names
  and nothing else; a merge keeps what its parents said of their fields, and
  pruning takes no more than the budget asks for.

## 2. Modules and the code they model

| module | models | role |
|---|---|---|
| `Budget` | `BudgetLimits`, `BudgetTracker`, the gate of the fixed pool | operators |
| `StagedProtocol` | what the staged splits promise | abstract specification |
| `FixedPool` | `run_fixed_pool_schema_mvp` | detailed specification, implements `StagedProtocol` |
| `FixedPoolProofs` | | theorems about `FixedPool` |
| `Pareto` | `_dominates`, `ParetoFront.update` | operators |
| `ParetoFront` | a front that is offered records in any order | specification |
| `ParetoFrontProofs` | | theorems about `ParetoFront` |
| `ClosedLoop` | `schema_evo_optimize` | detailed specification, its fronts implement `ParetoFront` |
| `ClosedLoopProofs` | | theorems about `ClosedLoop` |
| `EvaluateProgram` | `evaluate_program`, `RolloutCache`, the files of `LMProgram.run`, the uncapped batches of the fixed pool | specification with concurrent workers, exceptions, interruption and restart |
| `EvaluateProgramProofs` | | theorems about `EvaluateProgram` |
| `Schema` | `apply_mutation`, `SchemaCandidate`, `SchemaGrammar` | operators |
| `SchemaSearch` | `sample_schema_mutation`, `merge_schema_candidates`, pruning | specification |
| `ProgramRun` | `LMProgram.run`, `SchemaValidator`, field ablations, what the adapters send | specification |
| `ProgramRunProofs` | | theorems about `ProgramRun` |
| `Proposals` | `OpenAISchemaProposer` and the driver's accounts of it | specification over the operators of `Schema` |
| `SchemaProofs` | | theorems about `SchemaSearch` and `Proposals` |
| `Composability` | `run_prompt_optimizer_then_schemaevo`, `ExternalPromptOptimizer`, `assert_same_call_graph` | specification with an external process |
| `ComposabilityProofs` | | theorems about `Composability` |
| `Verdict` | `_corrected_confirmation_stats`, `benjamini_hochberg_adjust`, `_make_control_guardrail`, `build_causal_pilot_report` | specification |
| `VerdictProofs` | | theorems about `Verdict` |
| `MC*` | | constants and bounds for TLC |

**Budget.** An amount is a record of calls, prompt tokens, completion tokens and
dollars. `CanStart` compares the amount spent plus an estimate with the caps, as
`can_start` does; `Exhausted` compares the amount spent alone. Amounts are whole
numbers: the code's floats are not modelled.

**FixedPool.** `stage` says where the driver is, `pending` holds the candidates
the running batch has still to evaluate, and `batch` their order. Each action is
one gated evaluation, one proposal, or the straight-line code between two loops.
`used` is the tracker, `proposer` the proposer's usage and `recorded` the part of
it that has reached the tracker; `reported` and `unreported` are the cost of the
results that the cost summary will and will not yet sum. `key`, `top`, `primary`,
`confirmed`, `meets`, `heldout` and `ablated` are the results that later code
reads. What a proposer returns, the key of a result, its token usage and whether
it is valid are inputs; the static check is the constant `GrammarOK`. A start that
raises in a runner, the proposer or the compiler is `Raise`; the code's own
`RuntimeError`s are outcomes of the action that raises them.

**StagedProtocol.** Splits are opened in order, the candidate is committed before
the first later split is opened, and the verdict is about it. `FixedPool` maps
`stage` and `primary` to the phase and its results to the opened splits.

**Pareto, ParetoFront.** A front's entry dominates by the lower and upper bound
of the score and by every resource. `Update` is the loop of
`ParetoFront.update`; `seen` is a history variable of the abstract specification.

**ClosedLoop.** `stage` is the phase (baseline, population, mutation, merge,
promotion), `rollouts` and `attempts` the counters, `evaluated` and `promoted`
the records of the search and of the promotion, `front` and `promotedFront` the
two fronts. The mutation drawn and the record measured are inputs; ids are equal
exactly when `schema_by_id` would call them equal.

**EvaluateProgram.** Evaluations come in batches. A batch is evaluated by the
driver (slot 0, with one cache for the whole run) or by `min(workers, jobs)`
workers, each with a cache of its own for each job; threads and processes differ
in nothing else the model shows. One action per effect that a stopped process
leaves behind: the cache lookup, each module's call and its log line, the ledger
line, the temporary file, its rename, the score file. The temporary file belongs
to the key, not to the writer, as in the code. `RunnerRaises` ends a job;
`Surface` is the driver meeting the exception, which `executor.map` gives it
after the results of all jobs before that one, and cancelling what waits outside
a process pool's call queue, which holds one job more than there are workers;
`Shutdown` waits for the workers and ends the process. `Interrupt` stops
everything anywhere and forgets what was in memory; `Restart` gives the same
command again. `made` counts the calls the models were paid for, `lost` the
runs of a program that were cut short.

**Schema.** One operator for each `MutationOp`. A schema has its dictionary of
fields (`keys` is the dictionary's order, which pruning depends on), its rules and
its validators. A name is the sequence of its words, so that a renaming of a
renaming, a split and a merge make the names the code makes, clashes included; a
rule is its consumer and its field; a validator is its kind and, for `one_of`, its
values. `boolean` is treated as `object` and `integer` as `number`: the code asks
about types only in `_tight_validator_for_field` and for `enum`. A token count is
a weight per field, rule and validator.

**ProgramRun.** One `RunModule` per module call: the intervention, the runner's
answer, validation and the update of the program's state. A value is its origin
(name, module, example) and one of five kinds: it passes, has a type that can be
coerced, is coerced into one that breaks a constraint, cannot be coerced, breaks a
constraint at once. `Sent` is what the OpenAI adapter makes of the state.
`Emitters` are the positions of the modules that emitted a name: the first counts
when values are rotated, the last when arguments are gathered. The examples are run without ablation first, since a shuffle needs these
predictions, and then under one ablation.

**SchemaSearch.** `line` holds two schemas, each the end of a line of descent, and
`Draws` everything `sample_schema_mutation` and `apply_mutation` may make of one.
`phase` is the step of the search the two are in (mutations, pruning, done) and
`rejected` says why the last schema made was refused. `Merge` takes the two in
either order; each `Prune` is one turn of the pruning loop. Which schemas survive
in the front is left open: any two may be merged. A schema passes the static check
if its cost is within its own `schema_token_budget` and within the grammar's limit,
which is the configured budget (`TokenBudget`): initial schemas have one budget of
their own (`InitialBudget`), mutated ones their parent's, a merged one the
configured. `ClosedLoop` has the scheduling
of the same steps, with mutants as opaque ids.

**Proposals.** `Propose` is one call of `propose`: a response of the API is an
exception, a response without text, text that is no JSON object, or a payload.
`ReadItem`, `Build` and `Kept` are the three stages in which a field, a proposal
and a candidate may be given up. `Build` makes the schema of `Schema` from the list of
fields at once: the fields of each producer in their order (`Picked`), a rule for
every use (`Uses`), whose order is left open, and a validator for every name. `total`
is the proposer's `total_usage`, `recorded` what the driver recorded after the
first proposal, `budget` the proposal tokens in the tracker; `answered` is a
history variable, the tokens of this run's answers. `Exception`s are raised or
swallowed as `strict` (`raise_on_error`) says.

**Composability.** `at` is where the harness is, `command[r]` what the command of
run `r` is doing, `output` the one file all runs share. A program is the run whose
command wrote its prompts and its `demo_ids`. `apply_prompt_spec` takes
`few_shot_demo_ids` over as well; they are left out, since no check compares them
where there are `demo_ids` and no call is made with them. `KillShell` either ends the command or leaves it alive as an
orphan. `paid` counts calls that were made, `total` is what the report says.

**Verdict.** Scores, drops and controls are fixed at the start and then revealed
one evaluation at a time, so that the conclusion of a run the budget cut can be
compared with that of the whole run. `Adjust` is the loop of
`benjamini_hochberg_adjust` as a recursive function over ranks; p-values are
multiples of `1 / One`, adjusted ones of `1 / (One * Multiple)`, which makes every
division exact. `MinDrop` and the factor 2 in `Supports` are the 0.015 and the
half of `build_causal_pilot_report`.

How they compose: `ClosedLoop` offers its records to `ParetoFront`; `FixedPool`
uses `Budget`, takes the proposals of `Proposals` as inputs and its batches are
those of `EvaluateProgram` when no budget is set; `Verdict` begins where
`FixedPool` has confirmed; one step of `Composability` (`Search`) is a whole
behaviour of `ClosedLoop`.

## 3. What the runs check

| run | bounds | shows |
|---|---|---|
| `fixed_pool` | 4 schemas (three proposable, one control, one that fails the static check), keys {0, 1}, 2 rounds, top 2; an evaluation uses one or two prompt tokens where one is estimated; 11 call caps from 7 to 40, 11 caps on prompt, total and completion tokens and on dollars | the call cap is exact, the reserves suffice, a prompt cap is passed by a bounded amount, the accounts balance, the decision is about the primary and smoke filtering is all or nothing, results are final, the run ends, `StagedProtocol` is implemented |
| `fixed_pool_prompt_cap` | 1 round, no smoke split | finding 1 |
| `pareto_front` | 9 records over two resources, with ties and intervals without width | antichain and coverage, from which it follows that the undominated records are kept (`FrontHoldsTheBest`), for all orders of arrival |
| `closed_loop_halving` | 8 schemas, a population of 3, three generations of mutants, a merge; 7 rollouts, 7 attempts; caps 0 .. 10 calls, 5 and 9 prompt tokens, none | no schema paid twice and every rollout counted, comparable final records, promotions in order, the run ends, both fronts implement `ParetoFront` |
| `schema_search` | 3 initial schemas over 3 modules, two mutations of one line and one of the other, 4 fields per module, 5 in all, names of 3 words; mutations are held to a budget of 12 tokens, which they pass at times, merges to 13 | no rule or validator without its field, each mutation is local, a merge is never refused, keeps contracts and is pruned no more than needed |
| `evaluate_program` | 3 batches: a pool with a duplicate for two workers, an evaluation by the driver that repeats an example, an ablation on a cached example; 2 modules, 2 answers where examples are shared, 2 faults | no torn entry, reports agree, the books cover the calls, work is kept, the batches get done |
| `program_run` | 3 modules, 3 examples, a required and an optional field, a base output with the name of another module's field, both policies, every ablation | what is valid, what later modules are shown, what an ablation takes from whom, and how a shuffle deals values |
| `ablation_mask` | the same | finding 2 |
| `composability` | 3 runs in one directory, up to 2 final schemas, 2 demo ids, optimizer reports of 2 or 5 calls | whose program is deployed, what is compared, the report covers what was paid, every run ends |
| `composability_demos` | the same | finding 3 |
| `proposals` | 2 runs of one proposer, 2 rounds, payloads of up to 2 proposals of up to 2 of 4 items, 0 to 2 schemas asked for | which proposals come back, and that their tokens are charged once |
| `verdict` | 3 confirmed schemas, any of them controls, 3 scores, one field with drops above and below both thresholds and below zero, p-values in both orders and tied | the correction is the step-up procedure, a GO is earned |

Why the bounds are enough. In `FixedPool` every loop is a batch: two candidates
that tie and two that do not, one that is refused between two that are accepted,
and one stage after another that is closed by the cap are all reached with three
proposable schemas; the call caps run from one no selection baseline fits in,
one call at a time over the range in which a stage more or less fits, to one that
is never felt. The theorems remove the bounds for the invariants they
prove. In `ClosedLoop` the population contains
a schema that the static check rejects, a mutant may be drawn
again, and there are runs in which attempts end the mutation and runs in which
rollouts do. With seven rollouts all three nested limits differ. In
`EvaluateProgram` two faults reach a failure in the repetition of
work a first one caused, of either kind in either order; two workers meet in every
step, and a third would repeat the second, since workers are alike and share no
key; the later batches are on an example that the pool has cached.
In `SchemaSearch` two mutations and a merge reach a renamed or moved part of a
split, a merge of such parts, a name used twice and a field that is brought back
from a template after it was dropped; the two parents of a merge meet with fields
of one name and different modules, types or validators; the grammar's limits on
fields, tokens and names are all met. In `ProgramRun` three examples make
rotations of three, of two with a gap and of one; more modules would repeat the
reader, which neither owns the ablated field nor consumes it. In `Composability`
the third run may meet the file of one earlier run and the living command of
another; two commands may write between any two steps of the harness. In
`Proposals` two items are enough for a clash of names, an item lost beside one
kept and a proposal above the token budget, two proposals for one lost beside one
kept and for a duplicate, two runs for a total that would be carried over. In
`Verdict` three schemas are a primary, a control that the cut may hide and one
more that reorders the p-values.

`Composability`, `Proposals` and `Verdict` are checked without deadlock: they end
when the bound on runs is used up or the report is written. Everywhere else a
step `Over` or `Returned` says where the system may stop.

Runs that are expected to fail state what a line of the repository says:

1. `README.md:195` says that budget-capped runs stay serial "so hard gates remain
   exact". For calls this holds (`CallCapExact`, proved). For prompt tokens it
   does not: the gate asks with an estimate that leaves out what earlier modules
   put into the prompts of later ones, and usage of reflection proposals reaches
   the tracker after the last round. `PromptOvershootBounded` says what does hold.
2. `README.md:148` lists ablations that mask, blank and shuffle fields, and
   `README.md:588` calls them causal evidence. They change `schema_fields` only; the
   OpenAI adapter also sends the outputs of earlier modules, in which the field
   still has its value. `AblatedForConsumers` says what does hold.
3. `README.md:364` and `README.md:580` say that a composability run may allow demo
   changes. `ExternalPromptOptimizer` then accepts them, but the harness calls
   `assert_same_call_graph`, which compares demo ids, on the program it gets back
   (`composability.py:97`): with the flag such a run always ends in an
   `AssertionError`. `ComparedAlike` says what does hold.

Further disagreements were met while modelling and are in the models without a run
of their own, since one step shows each:

- `fixed_pool_schema.py:278` reports "no schema candidates survived smoke
  validation", yet when the budget refuses the first smoke evaluation the list of
  smoke results is empty, nothing is filtered and unsmoked candidates are selected
  (`Survivors`; `SmokeFilterPerBatch`, a part of `DecisionIsAboutPrimary`, says what
  does hold).
- `compile_schema_program.py:104` tells a module that it "must consume upstream
  schema fields as follows", but a field moved to a later module keeps its rules
  and consumers (`MoveField`): the module that is told so may be the producer
  itself or run before it.
- `README.md:7` says that downstream modules are taught to consume the fields.
  Compilation adds them to output signatures only, and the DSPy adapter
  (`dspy.py:106`) passes declared inputs and nothing else. That adapter is not
  modelled.
- The baseline of a closed loop is evaluated without asking the budget, so a cap
  below its cost is passed (`OvershootOnlyByBaseline` says what holds).
- A tightened validator of an enum keeps rejecting values that a later mutation
  adds (`TightValidator`).
- A command that succeeds without writing deploys the program of an earlier run
  (`DeployedIsVouched` has the exception).

## 4. Fairness

`FixedPool` and `ClosedLoop` assume `WF_vars(Step)`: one thread runs the driver, and
every evaluation, proposal and write returns or raises. Nothing is assumed about
which of the two. `EvaluateProgram` assumes weak fairness of `Step` and of
`Restart`: a process that is not interrupted continues, and the user runs an
interrupted or failed command again. No fairness between the workers is needed:
every job is finite, so that if some slot always moves, all get done. Faults are
bounded, since with endless ones nothing ends. `Composability` assumes
`WF_vars(Harness)` and nothing of the command, which may hang for ever: `Timeout`
belongs to the harness (`subprocess.run` with `timeout`). `SchemaSearch`,
`ProgramRun`, `Proposals` and `Verdict` state no liveness and assume no fairness.

## 5. What is proved

`FixedPoolProofs` proves, for every set of schemas, budget, cost, split size and
number of rounds allowed by the assumptions of `FixedPool`:

- `TypeCorrect`: `TypeOK`.
- `SummaryIsExact`: `BudgetBalances`. It needs `BalanceInv`, which says at which
  stages smoke results of a reflected batch or proposer usage are still
  outstanding, and `UsageInv`, since the usage added later is a difference of
  two totals that must not be negative.
- `CallCapHolds`: `CallCapExact`. Every action that spends calls is behind a gate
  that asks for at least the calls it makes.
- `ReservesAreEnough`: `ReservesSuffice`. It needs `ReserveInv`: at each stage, how
  many calls are still affordable. The selection loop is the delicate part:
  either a candidate has a result and the confirmation reserve is left, or none
  has and the reserve of one selection is left as well. `StageInv` ties the
  working sets to the stage; without it the prover would have to consider a
  selection that is reached with no candidate.
- `PromptExcessHolds`: `PromptOvershootBounded`. Its invariant `PromptInv` speaks of
  the proposer usage the tracker was told of (`recorded`), not of all of it: only
  then is every step that charges an evaluation within `Excess`. That `Excess`, a
  greatest element, exists at all needs an assumption, `WorstCostAssumption`: context
  windows bound the prompts of an evaluation.
- `DecisionHolds`: `DecisionIsAboutPrimary`. `RaceInv` says who may still get a
  selection result (nobody outside the pool, nobody twice, nobody who failed a smoke
  test of the batch), `ChoiceInv` what is known of the primary from the ranking on;
  the two with `TypeInv` make `DriverInv`.
- `ResultsAreFinalHolds`: `ResultsAreFinal`, an action property: each step either
  leaves the results alone or gives one to a schema of `pending`, which by `RaceInv`
  has none.
- `ProtocolImplemented`: `ImplementsStagedProtocol`, the refinement. Under
  `DriverInv` every action of the driver explores, commits, opens a later split,
  reports or aborts, or leaves the protocol where it is. `ChoiceInv` is what makes the
  ranking a `Commit` (the selection split is open by then, no later one is) and lets
  held-out be opened after the confirmation only.

The assumptions: schema ids are numbers with a largest one, the selection and
confirmation splits are not empty, an evaluation that completes makes exactly
the calls of its split (every module once per example; a cached prediction is
counted in full), and the proposer makes no target calls.

`ParetoFrontProofs` proves for every set of records that a front is an antichain
(`FrontIsAntichain`), that every record offered is in it or dominated by one of
it (`FrontCovers`), and that it holds the undominated ones (`FrontHoldsTheBest`).
The argument is that domination is transitive, and that an update removes only
what the newcomer dominates.

`ComposabilityProofs` proves, for any number of runs, schemas, demo ids and calls:

- `DeployedProvenance`: `DeployedIsVouched`. Nothing is deployed unless the command of
  this run has ended with status zero, and the prompts are its own or the base
  program's but for two named exceptions. Its invariant `Vouched` adds to it what
  the commands of other runs may still be doing (`Commands`: a command that is
  alive is the one waited for, or an orphan; those of later runs have not begun)
  and what a readable file means before it is read (`FileIsVouched`). Without
  `Commands` an earlier command could write at any time and the file would say
  nothing.
- `ReportsCompareAlike`: `ComparedAlike`. Its invariant says for every label of the
  harness which programs have been evaluated so far; the program deployed has the
  base program's demo ids as soon as both acceptance tests are passed.
- `ReportsCoverPaid`: `ReportCoversPaid`. Its invariant says that what was paid is at
  most the evaluations made plus the closed loop's own count.

`ClosedLoopProofs` proves, for all schemas, populations, budgets, costs, scores and
promotion fractions:

- `SchemasPaidOnce`: `NeverPaidTwice`. Its invariant `Paid` says where a schema can
  come from at each stage: while the population is read, what is searched lies
  behind the position (`PopulationBehind`, which needs a population without
  duplicates); later, `schema_by_id` is asked; the promotion queue is a part of the
  searched records and has no schema that was promoted (`QueueFresh`). Without
  `QueueFresh` a schema promoted before could come out of the queue again. That
  the cardinalities add up rests on `NewRecord`, and the limits on `LimitsNested`.
- `OnlyBaselineOvershoots`: `OvershootOnlyByBaseline`, by what `can_start` was told
  and `ChargeCalls`: an evaluation of a batch costs exactly its calls.
- `PromotionInOrder`: `PromotesTheBest`. Its invariant `InOrder` says that whoever is
  above a record in the queue is in it too, promoted, or was turned down, and that
  then no evaluation on the full batch fits any more (`NoCallsLeft`, which remains).
  `ChosenFromTheTop` gives the start: cutting a ranking at a number of records
  leaves nothing out that is above what is chosen.
- `FinalRecordsCompare`: `FinalComparable`. `Comparable` says that a front is never
  empty once a record was made, that nothing is queued or promoted without the
  baseline of the promotion, and of which batch the records of the search are. That
  the final list is not empty is a fact about rankings: among the records of a
  finite front one has the fewest above it, and since the ranking is a strict order
  (`RankingIsOrder`) it has none (`TopIsNotEmpty`).
- `FrontsImplemented`: `ImplementsFronts`, the step simulation from `ClosedLoop` to
  two instances of `ParetoFront`. With `FrontIsAntichain`, `FrontCovers` and
  `FrontHoldsTheBest` it says of the code's two fronts what is proved of one.

The assumptions used are those on the population, the configuration, the costs and
the scores; `IdsAssumption` is not needed for them.

`SchemaProofs` is about what makes schemas and what changes them; the two halves
share the facts about ranks, `Picked` and lists it begins with. Of `Proposals` it
proves, for all module lists, responses, token counts, rounds and runs:

- `UsageIsComplete` (`UsageIsBilled`): the invariant `Billed` says at each stage which
  part of the total the tracker already has.
- `UsableAreReturned` (`ReturnedAreTheUsable`): the invariant (`Answered`) is short,
  the work is in what `Proposed` computes. The numbers of a finite set are in
  one-to-one correspondence with their ranks (`RankIsTaken`, `NthIsEvery`), so
  `Picked` takes the items at a set of positions once each and in their order.
  `Build` puts every field of a list at one position (`PlaceFacts`, `PlacesAreAll`);
  all that can be wrong with the result is that names clash (`FaultsOfBuilt`), and
  what it costs follows from the list (`CostOfBuilt`). Reading maps the usable items
  one to one to that list (`ReadFacts`, `UsesRead`), hence `UsableIsKept`: the static
  checks of the schema say the same as `Usable` of the proposal. Candidates of one
  payload differ in their index, so `Dedupe` leaves them all (`CandidatesFacts`).

Of `SchemaSearch` it proves, for all module lists, grammars, populations, template
fields, budgets and numbers of mutations, all that the run checks. The inductive
invariant is `SearchInv`: both lines are `Sound` (rules and validators speak of
exactly the names there are, and no name comes twice), and from the merge on the
merged schema is what pruning may leave of the two (`Pruned`).

- `OnlyNamesClashHolds` (`OnlyNamesClash`) and `ValidatorsAreComplete`
  (`ValidatorsComplete`): every mutation of a sound schema is coherent, that is
  sound but for its names (one lemma per `MutationOp`, `AddFieldChild` to
  `SetValidatorChild`, on lemmas about the helpers of `apply_mutation`), a merge of
  sound schemas is sound (`MergeFacts`), a pruning step keeps it so.
- `MutationsAreLocal` (`MutationIsLocal`), an action property: the same lemmas say how
  near a child is (`Child`): one contract differs (`Edits`), or at most two names go
  and at most two come (`Trades`), and everything else is kept (`Keeps`), the
  rules about a name in their order. That a new name is new is not a fact about the
  mutation: it follows from the child being accepted. A name gets
  longer when it is renamed, split or merged, so that no name goes and comes at once.
- `MergedContractsHold` (`MergeKeepsContracts`): `Left` says what a pruned schema has
  of the whole one, fields, validators, rules and order.
- `PrunedNoMoreThanAsked` (`PruneIsMinimal`): `Pruned` says of every field that is gone
  that it is optional and behind every optional one that is left, and of the first
  of them that with it the schema would cost too much. Two things make this
  inductive. Dropping a field renumbers the others of its module, but
  changes the order of no two (`PlaceKept`, `AheadKept`). And the loop measures the
  schema it has, the property what is left of the whole one: a schema costs what its
  names, rules and validators cost (`SameCost`, `LeftCost`).

`EvaluateProgramProofs` proves, for all keys, batches, workers, modules, answers and
numbers of faults, what the run checks for two workers. Its invariant has layers,
each inductive given those before it, and one lemma for each kind of step: what it
does to its own slot, and what it leaves of the others.

- `FilesAlways`: `BaseInv` (types, which jobs are taken, where a slot is in its job)
  and `FilesInv` (what a cache file, a memory, a partial result and a score file may
  hold, and that the owner of a temporary file alone writes it: two workers of a
  batch share no key, `OwnKeys`).
- `NoTornEntryAlways` (`NoTornEntry`) and `ReportsAgreeAlways` (`ReportsAgree`) follow
  from it: a prediction that is shown under a cached key is the entry of that key,
  and entries are written once.
- `BooksCoverCallsAlways`: `BooksCoverCalls`. `CountInv` ties the three totals to the
  number of slots between two of the writes; `BillInv` says that whatever holds a
  prediction has its ledger lines.
- `WorkIsKeptAlways`: `WorkIsKept`. `WorkInv` says where every cached call went: into
  an entry, into a run that was cut short, or into one under way, of which it counts
  the calls. The invariant without the runs under way is not inductive: a rename
  turns the calls of a run into an entry in one step.

`ProgramRunProofs` proves, for all programs, fields, outputs and numbers of examples:

- `ValidKeepsContract` (`ValidMeansContract`), by `OutputsInv`: a module that has run
  has left a whole contract or nothing; `CheckedKeepsContract` is the validator.
- `FieldsKeepProducers` (`FieldsAreTheProducers`), by `FieldsInv`, which needs that
  the modules' fields are disjoint.
- `InvalidIsContained` (`InvalidStaysInside`), by `CleanInv`: every value in the fields
  and in what is shown comes from a sound module of this example, from another
  example, or from nobody.
- `ConsumersAreAblated` (`AblatedForConsumers`) and `ShufflesDerange`
  (`ShuffleIsDerangement`), by `NextGoesRound`: in a set of two or more numbers, "the
  next one, the first after the last" is a bijection without a fixed point.

`VerdictProofs` proves, for any number of schemas, p-values, drops and controls:

- `CorrectionIsStepUp`: `AdjustedIsStepUp`. Ranks are a bijection although p-values tie
  (`RankOrders`, `RanksAreTaken`), the recursive running minimum exists and is the
  least of what follows (`RunningMinExists`, `RunningMinBounds`), and a scaled value is
  below a level exactly when the product is (`DivideWhole`).
- `GoesAreEarned`: `GoIsEarned`. `ReportInv` says what a GO was decided from;
  `MaxDropGrows` and `MatchedByTheBest` that more ablations do not take it back, and
  that the best confirmed control is enough to compare with.

The assumptions of the other modules are the types of their constants, and: a program
is not one of the two values that stand for a missing and for a torn file
(`Composability`, likewise predictions in `EvaluateProgram`); two evaluations of a
pooled batch have no key in common, since a key holds the program; names of modules are
not empty, modules and examples are sequences without repetition, and no two
modules own one field (`ProgramRun`).

Induction: the library's induction theorems take an operator. Where numbers have to be
counted up (sums over sets, the running minimum, ranks) the proofs take the least
counterexample instead, from `NatLessThanWellFounded` and `WFMin`, which speak of
sets. For the same reason the modules avoid operators that the prover cannot
unfold (`@@`, `SelectSeq`, `SortSeq`) where a theorem depends on what they compute;
`Schema` filters with `Picked`.

The assumptions about `SchemaSearch` are that the initial schemas pass the checks of
`SchemaField` and `SchemaCandidate` and the static ones, have a field, and have a
validator entry for every field, as those of the templates, the random controls and
the proposer do; a name has at least one word.

Only model-checked: liveness, which is outside the prover's reach (`AllReported`,
`RunsEnd` and the two `Terminates`). Every other property of the passing runs is
also a theorem.

## 6. What is not modelled

- Floating point, bootstrap and approximate randomization, stratified minibatches:
  a result is a key or a score, and a truth value per bar of the decision.
- `bonferroni_adjust`, which nothing in the package calls.
- Wording: prompts, templates, HTML and JSON layouts, progress output. Ids made from
  content are equal exactly when the code's would be.
- Network: a model adapter is an answer or an exception. The DSPy adapter.
- The fixed schema templates, the random controls and the deterministic trace
  proposer: data without state; schemas of their shape are inputs of the models.
- Budget report, deployment invariance and transfer: straight-line reports over
  finished results.
- Benchmarks, readiness checks, dataset readers, the command line: plumbing around
  the drivers, without state of their own.
- Smaller things seen while reading, outside the models: `retriever_calls` of the
  cost summary leaves ablations out (`fixed_pool_schema.py:1101`); the cache
  fingerprint has no prices (`cache.py:69`); `dict(raw_output)` raises for outputs
  that validation accepts (`base.py:239`); `few_shot_demo_ids` are not compared
  where there are `demo_ids` (`call_graph.py:58`); equal proposals of one payload
  have different ids (`proposer.py:485`); a proposer with `last_usage` alone is
  charged for its last proposal only (`fixed_pool_schema.py:1131`); a schema without
  fields makes `rng.choice` raise (`schema_evo.py:681`).
- `PROJECT.json` lists every component with its status and reason.

## 7. What could follow

1. `ClosedLoop` over `SchemaSearch`: its `Mutants` and `GrammarOK` as an instance of
   the schema operators, on a smaller population.
2. The experiments that compare finished results (transfer, budget report).
