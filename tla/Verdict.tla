------------------------------- MODULE Verdict -------------------------------
(***************************************************************************)
(* What the fixed-pool driver and the causal pilot conclude from the       *)
(* evaluations: the confirmation of the selected schemas and the field     *)
(* ablations of the primary, each cut short where the budget ends, the     *)
(* correction of the p-values (src/schemaevo/eval/stats.py), the control   *)
(* guardrail (src/schemaevo/optimizers/fixed_pool_schema.py) and the       *)
(* report (src/schemaevo/experiments/causal_pilot.py).                     *)
(*                                                                         *)
(* The schemas 1 .. TopK are top_selection_results in their order, 1 the   *)
(* primary.  What each evaluation would return is fixed at the start, so   *)
(* that a run the budget cut can be compared with the run it cut.  Scores  *)
(* are in half points, p-values in units of 1 / One, adjusted ones in      *)
(* units of 1 / (One * Multiple).                                          *)
(***************************************************************************)
EXTENDS Integers, FiniteSets

CONSTANTS
  TopK,         \* bound: schemas that go to confirmation
  Fields,       \* bound: evolved fields of the primary
  Scores,       \* mean scores a schema may reach
  BaseScore,    \* mean score of the fixed-schema baseline
  Drops,        \* what the ablations, in their order, take from its score
  PValues, One, \* p-values of the schemas, in their order, and the value 1
  Multiple,     \* a common multiple of 1 .. TopK
  Corrected,    \* multiple_comparison_correction is benjamini_hochberg
  MinDrop       \* min_absolute_drop

ASSUME VerdictAssumption ==
  /\ TopK \in Nat \ {0} /\ Fields \in Nat
  /\ Scores \subseteq Int /\ BaseScore \in Int
  /\ MinDrop \in Nat \ {0}
  /\ One \in Nat \ {0} /\ PValues \subseteq [1 .. TopK -> 1 .. One]
  /\ Multiple \in Nat \ {0} /\ \A r \in 1 .. TopK : Multiple % r = 0
  /\ Corrected \in BOOLEAN

Primary == 1

(* Each field is masked, blanked and shuffled, then all are disabled.      *)
Ablations == IF Fields = 0 THEN 0 ELSE 3 * Fields + 1

ASSUME DropsAssumption == Drops \subseteq [1 .. Ablations -> Int]

Kind(a) ==
  IF a = Ablations THEN "downstream_disabled"
  ELSE CASE a % 3 = 1 -> "mask" [] a % 3 = 2 -> "blank" [] OTHER -> "shuffle"

VARIABLES
  score,      \* score[s]: mean confirmation score of schema s
  drop,       \* drop[a]: what ablation a takes from the primary's score
  controls,   \* the random and validator-only schemas among 1 .. TopK
  stage,      \* where the driver is
  confirmed,  \* schemas 1 .. confirmed are confirmed
  p,          \* their approximate-randomization p-values
  adjusted,   \* and the adjusted ones
  ablated,    \* ablations 1 .. ablated are done
  guardrail,  \* the control guardrail
  report      \* the causal pilot report

data == <<score, drop, controls>>

vars == <<data, stage, confirmed, p, adjusted, ablated, guardrail, report>>

-----------------------------------------------------------------------------
(* Benjamini-Hochberg *)

(* The position of a p-value in the stable ascending sort.                 *)
Rank(ps, i) ==
  Cardinality({j \in DOMAIN ps : ps[j] < ps[i] \/ (ps[j] = ps[i] /\ j <= i)})

AtRank(ps, r) == CHOOSE i \in DOMAIN ps : Rank(ps, i) = r

Lower(a, b) == IF a < b THEN a ELSE b

Scaled(ps, r) ==
  Lower(One * Multiple,
        (ps[AtRank(ps, r)] * Cardinality(DOMAIN ps) * Multiple) \div r)

(* The adjustment without the running minimum.                             *)
AdjustEachAlone(ps) == [i \in DOMAIN ps |-> Scaled(ps, Rank(ps, i))]

(* benjamini_hochberg_adjust: a running minimum from the largest down.     *)
Adjust(ps) ==
  LET m == Cardinality(DOMAIN ps)
      RunningMin[r \in 1 .. m] ==
        IF r = m THEN Scaled(ps, m) ELSE Lower(Scaled(ps, r), RunningMin[r + 1])
  IN  [i \in DOMAIN ps |-> RunningMin[Rank(ps, i)]]

-----------------------------------------------------------------------------
(* Confirmation, correction and ablation *)

Init ==
  /\ score \in [1 .. TopK -> Scores]
  /\ drop \in Drops
  /\ controls \in SUBSET (1 .. TopK)
  /\ stage = "confirm"
  /\ confirmed = 0 /\ ablated = 0
  /\ p = <<>> /\ adjusted = <<>>
  /\ guardrail = <<>> /\ report = <<>>

Confirm ==
  /\ stage = "confirm" /\ confirmed < TopK
  /\ confirmed' = confirmed + 1
  /\ UNCHANGED <<data, stage, p, adjusted, ablated, guardrail, report>>

(* The budget may end the loop before any schema, and the run raises if it *)
(* does so before the first.                                               *)
ConfirmEnd ==
  /\ stage = "confirm"
  /\ stage' = IF confirmed = 0 THEN "raised" ELSE "correct"
  /\ UNCHANGED <<data, confirmed, p, adjusted, ablated, guardrail, report>>

(* _corrected_confirmation_stats                                           *)
Correct ==
  /\ stage = "correct"
  /\ p' \in {[s \in 1 .. confirmed |-> ps[s]] : ps \in PValues}
  /\ adjusted' = IF Corrected THEN Adjust(p')
                 ELSE [s \in 1 .. confirmed |-> p'[s] * Multiple]
  /\ stage' = "ablate"
  /\ UNCHANGED <<data, confirmed, ablated, guardrail, report>>

Ablate ==
  /\ stage = "ablate" /\ ablated < Ablations
  /\ ablated' = ablated + 1
  /\ UNCHANGED <<data, stage, confirmed, p, adjusted, guardrail, report>>

-----------------------------------------------------------------------------
(* Guardrail and report *)

ConfirmedControls == controls \cap (1 .. confirmed)

(* A warning that looks at the confirmed schemas only.                     *)
WarnsOfConfirmed == ConfirmedControls # {}

(* control_in_top_k_warning                                                *)
Warns == controls # {} \/ ConfirmedControls # {}

(* The largest of the scores of S, nothing if S is empty.                  *)
Best(S) == {score[s] : s \in {t \in S : \A u \in S : score[u] <= score[t]}}

(* _make_control_guardrail, where the budget ended the ablations or they   *)
(* are all done.                                                           *)
Guard ==
  /\ stage = "ablate"
  /\ guardrail' = [warning          |-> Warns,
                   primaryIsControl |-> Primary \in controls,
                   bestControl      |-> Best(ConfirmedControls)]
  /\ stage' = "pilot"
  /\ UNCHANGED <<data, confirmed, p, adjusted, ablated, report>>

Delta == score[Primary] - BaseScore

(* _max_drop, 0 if there is no such ablation; a drop that is negative      *)
(* still counts.                                                           *)
MaxDrop(done, kinds) ==
  LET found == {drop[a] : a \in {b \in 1 .. done : Kind(b) \in kinds}}
  IN  IF found = {} THEN 0 ELSE CHOOSE d \in found : \A e \in found : e <= d

CausalDrop(done) ==
  LET mask == MaxDrop(done, {"mask"})
      shuffle == MaxDrop(done, {"shuffle"})
  IN  IF mask < shuffle THEN shuffle ELSE mask

(* ablation_supports_primary_gain: 1.5 points, or half of the gain.        *)
Supports(done) ==
  /\ Delta > 0 /\ Primary \notin controls
  /\ CausalDrop(done) >= MinDrop \/ 2 * CausalDrop(done) >= Delta

Matched == \E best \in guardrail.bestControl : best >= score[Primary]

(* _empirical_status                                                       *)
Status ==
  IF guardrail.primaryIsControl THEN "control_selected_as_primary"
  ELSE IF Delta <= 0            THEN "negative_or_no_primary_gain"
  ELSE IF Matched               THEN "control_matches_or_beats_primary"
  ELSE IF ~Supports(ablated)    THEN "no_causal_ablation_support"
  ELSE "positive_schema_signal"

Reasons ==
  LET primaryIsControl == guardrail.primaryIsControl
  IN  (IF primaryIsControl THEN {"control"} ELSE {})
        \cup (IF Delta <= 0 THEN {"no_gain"} ELSE {})
        \cup (IF Delta > 0 /\ ~Supports(ablated) THEN {"no_support"} ELSE {})
        \cup (IF ~primaryIsControl /\ ablated = 0 THEN {"no_ablations"} ELSE {})
        \cup (IF ~primaryIsControl /\ Matched THEN {"matched"} ELSE {})

(* build_causal_pilot_report                                               *)
Pilot ==
  /\ stage = "pilot"
  /\ report' = [go |-> Reasons = {}, status |-> Status,
                warning |-> guardrail.warning]
  /\ stage' = "done"
  /\ UNCHANGED <<data, confirmed, p, adjusted, ablated, guardrail>>

Next ==
  Confirm \/ ConfirmEnd \/ Correct \/ Ablate \/ Guard \/ Pilot

Spec == Init /\ [][Next]_vars

-----------------------------------------------------------------------------
(* Properties *)

(* The hypotheses the step-up procedure rejects at the level a.            *)
StepUp(a) ==
  {i \in DOMAIN p :
     \E j \in DOMAIN p :
       /\ p[i] <= p[j]
       /\ p[j] * Multiple * Cardinality(DOMAIN p)
            <= a * Cardinality({k \in DOMAIN p : p[k] <= p[j]})}

(* At every level the adjusted p-values of benjamini_hochberg_adjust       *)
(* reject exactly what the step-up procedure rejects, however the p-values *)
(* are ordered and tied and wherever the budget cut the confirmation.      *)
AdjustedIsStepUp ==
  Corrected /\ stage = "ablate" =>
             \A a \in 0 .. One * Multiple :
               {i \in DOMAIN adjusted : adjusted[i] <= a} = StepUp(a)

(* GO and the status positive_schema_signal are decided apart and agree;   *)
(* both need a designed primary that beats the baseline and every control  *)
(* that was confirmed, and an ablation that takes something from it.  And  *)
(* a GO the budget cut short is the GO the whole run would have given,     *)
(* unless the report carries the control warning: an ablation more never   *)
(* withdraws the support, a control left unconfirmed may withdraw the GO.  *)
GoIsEarned ==
  stage = "done" =>
    /\ report.go <=> report.status = "positive_schema_signal"
    /\ report.go =>
         /\ Primary \notin controls
         /\ score[Primary] > BaseScore
         /\ \A s \in ConfirmedControls : score[s] < score[Primary]
         /\ \E a \in 1 .. ablated : Kind(a) \in {"mask", "shuffle"} /\ drop[a] > 0
         /\ Supports(Ablations)
         /\ report.warning \/ \A s \in controls : score[s] < score[Primary]
=============================================================================
