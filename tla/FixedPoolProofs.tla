--------------------------- MODULE FixedPoolProofs ---------------------------
(***************************************************************************)
(* Theorems about FixedPool, for any number of schemas, any costs and any  *)
(* limits: the type invariant, the balance of the budget, the exactness of *)
(* the call cap, the sufficiency of the reserves, the bound on the prompt  *)
(* tokens, the finality of results, whom the decision is about, and the    *)
(* step simulation from FixedPool to StagedProtocol.                       *)
(***************************************************************************)
EXTENDS FixedPool, FiniteSetTheorems, TLAPS

(* The sum of two amounts is an amount.                                    *)
LEMMA PlusType ==
  ASSUME NEW a \in Amount, NEW b \in Amount
  PROVE  Plus(a, b) \in Amount
  BY DEF Plus, Amount

(* Nothing is an amount.                                                   *)
LEMMA NothingType == Nothing \in Amount
  BY DEF Nothing, Amount

(* What an evaluation that completes adds to the budget.                   *)
LEMMA CostType ==
  ASSUME NEW x \in Splits, NEW cost \in Actual[x]
  PROVE  cost \in Amount /\ cost.calls = Calls[x]
  BY CostAssumption

(* The proposer spends tokens and dollars, no target calls.                *)
LEMMA ProposalCostType ==
  ASSUME NEW u \in ProposalCosts
  PROVE  u \in Amount /\ u.calls = 0
  BY CostAssumption

(* Calls and reserves are numbers.                                         *)
LEMMA CallsType ==
  /\ \A x \in Splits : Calls[x] \in Nat
  /\ Calls["smoke"] \in Nat /\ Calls["selection"] \in Nat \ {0}
  /\ Calls["confirmation"] \in Nat \ {0} /\ Calls["heldout"] \in Nat
  /\ SelectionReserve \in Nat \ {0} /\ ConfirmationReserve \in Nat \ {0}
  BY CostAssumption DEF Splits, SelectionReserve, ConfirmationReserve

(* Batches stay functions from schemas to positions.                       *)
LEMMA PoolType ==
  ASSUME NEW n \in Nat, NEW b \in Proposals(n)
  PROVE  /\ StaticFilter(b) \in Batch
         /\ WithControls(b) \in Batch
         /\ StaticFilter(WithControls(b)) \in Batch
<1>1. b \in [Schemas -> 0 .. n]
  BY DEF Proposals
<1>2. b \in Batch
  BY <1>1 DEF Batch
<1>3. WithControls(b) \in Batch
  BY <1>2, SchemasAssumption, ConfigAssumption DEF WithControls, Batch
<1> QED
  BY <1>2, <1>3 DEF StaticFilter, Batch

(* A reflected batch is a batch.                                           *)
LEMMA NewSchemasType ==
  ASSUME NEW b \in Batch, round \in Nat, arrival \in Batch
  PROVE  NewSchemas(b) \in Batch
<1>1. MaxId \in Nat
  BY SchemasAssumption DEF MaxId
<1>2. round * PerRound \in Nat
  BY ConfigAssumption
<1>3. Offset \in Nat
  BY <1>1, <1>2, ConfigAssumption DEF Offset
<1> QED
  BY <1>3 DEF NewSchemas, Batch, Pool, Members

-----------------------------------------------------------------------------
(* The type invariant, with the part of ControlInv it needs.               *)

TypeInv == TypeOK /\ ControlInv

(* A run begins well typed.                                                *)
LEMMA TypeInvInit == Init => TypeInv
<1> SUFFICES ASSUME Init PROVE TypeInv
  OBVIOUS
<1>1. TypeOK
  BY NothingType, ConfigAssumption, SchemasAssumption
  DEF Init, TypeOK, BudgetTypeOK, StageTypeOK, BatchTypeOK, ResultTypeOK,
      Stages, Outcomes, NoBatch, Batch, Pool, Members, Evaluated
<1>2. ControlInv
  BY DEF Init, ControlInv, StageInv, SearchStages, UsageInv, Nothing
<1> QED BY <1>1, <1>2 DEF TypeInv

(* An evaluation of a baseline or of the committed candidate, a gate that  *)
(* refuses, and the end of a loop keep the amounts well typed.             *)
LEMMA ChargeType ==
  ASSUME used \in Amount, reported \in Amount,
         NEW x \in Splits, NEW cost \in Actual[x],
         Charge(cost), Report(cost)
  PROVE  used' \in Amount /\ reported' \in Amount
  BY PlusType, CostType DEF Charge, Report

LEMMA ProposeType ==
  ASSUME TypeInv, Propose
  PROVE  TypeInv'
<1> USE DEF TypeInv, config, smoke, choice, tests
<1>1. PICK b \in Proposals(NTraceSchemas), u \in ProposalCosts :
        /\ proposer' = u /\ recorded' = u /\ Charge(u)
        /\ arrival' = StaticFilter(WithControls(b))
  BY DEF Propose
<1>2. arrival' \in Batch
  BY <1>1, PoolType, ConfigAssumption
<1>3. used' \in Amount /\ proposer' \in Amount /\ recorded' \in Amount
      /\ proposer'.calls = 0
  BY <1>1, PlusType, ProposalCostType DEF Charge, TypeOK, BudgetTypeOK
<1>4. alive' = Members(arrival')
  BY DEF Propose
<1>5. BudgetTypeOK'
  BY <1>3 DEF Propose, TypeOK, BudgetTypeOK
<1>6. StageTypeOK'
  BY DEF Propose, TypeOK, StageTypeOK, Abort, Goto, Stages, Final, Outcomes
<1>7. BatchTypeOK'
  BY <1>2, <1>4 DEF Propose, TypeOK, BatchTypeOK, Pool
<1>8. ResultTypeOK'
  BY DEF Propose, TypeOK, ResultTypeOK, Evaluated
<1>9. StageInv'
  BY <1>4 DEF Propose, ControlInv, StageInv, SearchStages, Abort, Goto
<1>10. UsageInv'
  <2>1. recorded' = proposer'
    BY <1>1
  <2>2. /\ proposer'.prompt \in Nat /\ proposer'.completion \in Nat
        /\ proposer'.dollar \in Nat
    BY <1>3 DEF Amount
  <2> QED BY <2>1, <2>2, <1>3 DEF UsageInv
<1> QED BY <1>5, <1>6, <1>7, <1>8, <1>9, <1>10 DEF TypeOK, ControlInv

LEMMA SelectionBaselineType ==
  ASSUME TypeInv, SelectionBaseline
  PROVE  TypeInv'
<1> USE DEF TypeInv, TypeOK, ControlInv, config, proposals, candidates, smoke,
            choice, tests
<1>1. BudgetTypeOK'
  <2>1. CASE UNCHANGED <<used, reported>>
    BY <2>1 DEF SelectionBaseline, BudgetTypeOK
  <2>2. CASE \E cost \in Actual["selection"] : Charge(cost) /\ Report(cost)
    BY <2>2, ChargeType DEF SelectionBaseline, BudgetTypeOK, Splits
  <2> QED BY <2>1, <2>2 DEF SelectionBaseline, Baseline
<1>2. StageTypeOK'
  BY DEF SelectionBaseline, StageTypeOK, Abort, Goto, Stages, Final, Outcomes
<1>3. BatchTypeOK'
  BY DEF SelectionBaseline, BatchTypeOK, ResultTypeOK, Evaluated, Pool, Members, StartBatch
<1>4. ResultTypeOK'
  BY DEF SelectionBaseline, ResultTypeOK, Evaluated, Baseline, Splits
<1>5. StageInv'
  BY DEF SelectionBaseline, StageInv, SearchStages, Abort, Goto
<1>6. UsageInv'
  BY DEF SelectionBaseline, UsageInv
<1> QED BY <1>1, <1>2, <1>3, <1>4, <1>5, <1>6

LEMMA SmokeType ==
  ASSUME TypeInv, NEW s \in Schemas, Smoke(s)
  PROVE  TypeInv'
<1> USE DEF TypeInv, TypeOK, ControlInv, config, proposals, candidates, smoke,
            choice, tests
<1>1. BudgetTypeOK'
  BY ChargeType, CostType, PlusType
  DEF Smoke, BudgetTypeOK, Charge, Report, Splits
<1>2. StageTypeOK'
  BY DEF Smoke, StageTypeOK, Abort, Goto, Stages, Final, Outcomes
<1>3. BatchTypeOK'
  BY DEF Smoke, BatchTypeOK, EvaluateFirst, IsFirst, Pool
<1>4. ResultTypeOK'
  BY DEF Smoke, ResultTypeOK, Evaluated, EvaluateFirst, IsFirst
<1>5. StageInv'
  BY DEF Smoke, StageInv, SearchStages, EvaluateFirst
<1>6. UsageInv'
  BY DEF Smoke, UsageInv
<1> QED BY <1>1, <1>2, <1>3, <1>4, <1>5, <1>6

LEMMA SmokeEndType ==
  ASSUME TypeInv, SmokeEnd
  PROVE  TypeInv'
<1> USE DEF TypeInv, TypeOK, ControlInv, config, proposals, candidates, smoke,
            choice, tests
<1>1. BudgetTypeOK'
  BY DEF SmokeEnd, BudgetTypeOK
<1>2. StageTypeOK'
  BY DEF SmokeEnd, StageTypeOK, Abort, Goto, Stages, Final, Outcomes
<1>3. BatchTypeOK'
  BY DEF SmokeEnd, BatchTypeOK, Survivors, StartBatch, Pool, Members
<1>4. ResultTypeOK'
  BY DEF SmokeEnd, ResultTypeOK, Evaluated
<1>5. StageInv'
  BY DEF SmokeEnd, StageInv, SearchStages, Abort, Goto
<1>6. UsageInv'
  BY DEF SmokeEnd, UsageInv
<1> QED BY <1>1, <1>2, <1>3, <1>4, <1>5, <1>6

LEMMA SelectType ==
  ASSUME TypeInv, NEW s \in Schemas, Select(s)
  PROVE  TypeInv'
<1> USE DEF TypeInv, TypeOK, ControlInv, config, proposals, candidates, smoke,
            choice, tests
<1>1. BudgetTypeOK'
  BY ChargeType, CostType, PlusType
  DEF Select, BudgetTypeOK, Charge, Report, Splits
<1>2. StageTypeOK'
  BY DEF Select, StageTypeOK, Abort, Goto, Stages, Final, Outcomes
<1>3. BatchTypeOK'
  BY DEF Select, BatchTypeOK, EvaluateFirst, IsFirst, Pool
<1>4. ResultTypeOK'
  BY SchemasAssumption
  DEF Select, ResultTypeOK, Evaluated, EvaluateFirst, IsFirst
<1>5. StageInv'
  BY DEF Select, StageInv, EvaluateFirst
<1>6. UsageInv'
  BY DEF Select, UsageInv
<1> QED BY <1>1, <1>2, <1>3, <1>4, <1>5, <1>6

LEMMA SelectEndType ==
  ASSUME TypeInv, SelectEnd
  PROVE  TypeInv'
<1> USE DEF TypeInv, TypeOK, ControlInv, config, proposals, candidates, smoke,
            choice, tests
<1>1. BudgetTypeOK'
  BY DEF SelectEnd, BudgetTypeOK
<1>2. StageTypeOK'
  BY ConfigAssumption DEF SelectEnd, StageTypeOK, StageInv, Abort, Goto, Stages, Final, Outcomes
<1>3. BatchTypeOK'
  BY DEF SelectEnd, BatchTypeOK, Pool
<1>4. ResultTypeOK'
  BY DEF SelectEnd, ResultTypeOK, Evaluated
<1>5. StageInv'
  BY DEF SelectEnd, StageInv, SearchStages, Abort, Goto
<1>6. UsageInv'
  BY DEF SelectEnd, UsageInv
<1> QED BY <1>1, <1>2, <1>3, <1>4, <1>5, <1>6

LEMMA ReflectProposeType ==
  ASSUME TypeInv, ReflectPropose
  PROVE  TypeInv'
<1> USE DEF TypeInv, TypeOK, ControlInv, config, proposals, candidates, smoke,
            choice, tests
<1>a. PICK b \in Proposals(PerRound), u \in ProposalCosts :
        LET new == NewSchemas(StaticFilter(b)) IN
        /\ proposer' = Plus(proposer, u)
        /\ StartBatch(new, Members(new))
        /\ IF Members(new) = {}
           THEN Goto("reflect") /\ round' = round + 1 /\ UNCHANGED candidates
           ELSE /\ UNCHANGED round
                /\ IF Calls["smoke"] > 0
                   THEN Goto("reflect_smoke") /\ UNCHANGED candidates
                   ELSE Goto("reflect_selection") /\ JoinPool(Members(new))
  BY DEF ReflectPropose
<1>b. NewSchemas(StaticFilter(b)) \in Batch
  BY PoolType, NewSchemasType, ConfigAssumption DEF BatchTypeOK, StageTypeOK
<1>c. /\ u \in Amount /\ u.calls = 0
      /\ proposer' \in Amount
  BY <1>a, PlusType, ProposalCostType DEF BudgetTypeOK
<1>d. \/ UNCHANGED candidates
      \/ JoinPool(Members(batch'))
  BY <1>a DEF StartBatch
<1>1. BudgetTypeOK'
  BY <1>c DEF ReflectPropose, BudgetTypeOK
<1>2. StageTypeOK'
  BY <1>a, ConfigAssumption DEF ReflectPropose, StageTypeOK, Abort, Goto, Stages, Final, Outcomes
<1>3. BatchTypeOK'
  <2>1. batch' \in Batch /\ pending' \subseteq Schemas
    BY <1>a, <1>b DEF StartBatch, Members
  <2>2. arrival' \in Batch /\ alive' \subseteq Pool'
    BY <1>d, <2>1 DEF BatchTypeOK, JoinPool, Batch, Pool, Members
  <2> QED BY <2>1, <2>2 DEF ReflectPropose, BatchTypeOK
<1>4. ResultTypeOK'
  BY DEF ReflectPropose, ResultTypeOK, Evaluated
<1>5. StageInv'
  BY <1>a DEF ReflectPropose, StageInv, SearchStages, Goto
<1>6. UsageInv'
  BY <1>a, <1>c DEF ReflectPropose, UsageInv, BudgetTypeOK, Amount, Plus
<1> QED BY <1>1, <1>2, <1>3, <1>4, <1>5, <1>6

LEMMA ReflectSmokeType ==
  ASSUME TypeInv, NEW s \in Schemas, ReflectSmoke(s)
  PROVE  TypeInv'
<1> USE DEF TypeInv, TypeOK, ControlInv, config, proposals, candidates, smoke,
            choice, tests
<1>1. BudgetTypeOK'
  BY ChargeType, CostType, PlusType
  DEF ReflectSmoke, BudgetTypeOK, Charge, Report, Splits
<1>2. StageTypeOK'
  BY DEF ReflectSmoke, StageTypeOK, Abort, Goto, Stages, Final, Outcomes
<1>3. BatchTypeOK'
  BY DEF ReflectSmoke, BatchTypeOK, EvaluateFirst, IsFirst, Pool
<1>4. ResultTypeOK'
  BY DEF ReflectSmoke, ResultTypeOK, Evaluated, EvaluateFirst, IsFirst
<1>5. StageInv'
  BY DEF ReflectSmoke, StageInv, EvaluateFirst
<1>6. UsageInv'
  BY DEF ReflectSmoke, UsageInv
<1> QED BY <1>1, <1>2, <1>3, <1>4, <1>5, <1>6

LEMMA ReflectSmokeEndType ==
  ASSUME TypeInv, ReflectSmokeEnd
  PROVE  TypeInv'
<1> USE DEF TypeInv, TypeOK, ControlInv, config, proposals, candidates, smoke,
            choice, tests
<1>1. BudgetTypeOK'
  BY PlusType, NothingType DEF ReflectSmokeEnd, BudgetTypeOK, Report
<1>2. StageTypeOK'
  BY ConfigAssumption DEF ReflectSmokeEnd, StageTypeOK, StageInv, Abort, Goto, Stages, Final, Outcomes
<1>3. BatchTypeOK'
  <2>1. batch' \in Batch /\ pending' \subseteq Members(batch)
    BY DEF ReflectSmokeEnd, BatchTypeOK, StartBatch, Survivors
  <2>2. \/ UNCHANGED candidates
        \/ \E who \in SUBSET Members(batch') : JoinPool(who)
    BY DEF ReflectSmokeEnd, StartBatch, Survivors
  <2>3. arrival' \in Batch /\ alive' \subseteq Pool'
    BY <2>1, <2>2 DEF BatchTypeOK, JoinPool, Batch, Pool, Members
  <2> QED BY <2>1, <2>3 DEF ReflectSmokeEnd, BatchTypeOK, Members
<1>4. ResultTypeOK'
  BY DEF ReflectSmokeEnd, ResultTypeOK, Evaluated
<1>5. StageInv'
  BY DEF ReflectSmokeEnd, StageInv, SearchStages, Goto, StageTypeOK
<1>6. UsageInv'
  BY DEF ReflectSmokeEnd, UsageInv
<1> QED BY <1>1, <1>2, <1>3, <1>4, <1>5, <1>6

LEMMA ReflectEndType ==
  ASSUME TypeInv, ReflectEnd
  PROVE  TypeInv'
<1> USE DEF TypeInv, TypeOK, ControlInv, config, proposals, candidates, smoke,
            choice, tests
<1>1. BudgetTypeOK'
  <2>1. /\ proposer.prompt - recorded.prompt \in Nat
        /\ proposer.completion - recorded.completion \in Nat
        /\ proposer.dollar - recorded.dollar \in Nat
    BY DEF BudgetTypeOK, UsageInv, Amount
  <2>2. UsageDelta \in Amount
    BY <2>1 DEF UsageDelta, Amount
  <2>3. used' \in Amount
    BY <2>2, PlusType DEF ReflectEnd, BudgetTypeOK, Charge
  <2> QED BY <2>3 DEF ReflectEnd, BudgetTypeOK
<1>2. StageTypeOK'
  BY DEF ReflectEnd, StageTypeOK, Abort, Goto, Stages, Final, Outcomes
<1>3. BatchTypeOK'
  BY DEF ReflectEnd, BatchTypeOK, Pool
<1>4. ResultTypeOK'
  BY DEF ReflectEnd, ResultTypeOK, Evaluated
<1>5. StageInv'
  BY DEF ReflectEnd, StageInv, SearchStages, Abort, Goto
<1>6. UsageInv'
  BY DEF ReflectEnd, UsageInv, BudgetTypeOK, Amount
<1> QED BY <1>1, <1>2, <1>3, <1>4, <1>5, <1>6

LEMMA RankType ==
  ASSUME TypeInv, Rank
  PROVE  TypeInv'
<1> USE DEF TypeInv, TypeOK, ControlInv, config, proposals, candidates, smoke,
            choice, tests
<1>1. BudgetTypeOK'
  BY DEF Rank, BudgetTypeOK
<1>2. StageTypeOK'
  BY DEF Rank, StageTypeOK, Abort, Goto, Stages, Final, Outcomes
<1>3. BatchTypeOK'
  BY DEF Rank, BatchTypeOK, Pool
<1>4. ResultTypeOK'
  BY DEF Rank, ResultTypeOK, StageInv, SearchStages, Evaluated, IsBest, TopK
<1>5. StageInv'
  BY DEF Rank, StageInv, SearchStages, Abort, Goto
<1>6. UsageInv'
  BY DEF Rank, UsageInv
<1> QED BY <1>1, <1>2, <1>3, <1>4, <1>5, <1>6

LEMMA ConfirmationBaselineType ==
  ASSUME TypeInv, ConfirmationBaseline
  PROVE  TypeInv'
<1> USE DEF TypeInv, TypeOK, ControlInv, config, proposals, candidates, smoke,
            choice, tests
<1>1. BudgetTypeOK'
  <2>1. CASE UNCHANGED <<used, reported>>
    BY <2>1 DEF ConfirmationBaseline, BudgetTypeOK
  <2>2. CASE \E cost \in Actual["confirmation"] : Charge(cost) /\ Report(cost)
    BY <2>2, ChargeType DEF ConfirmationBaseline, BudgetTypeOK, Splits
  <2> QED BY <2>1, <2>2 DEF ConfirmationBaseline, Baseline
<1>2. StageTypeOK'
  BY DEF ConfirmationBaseline, StageTypeOK, Abort, Goto, Stages, Final, Outcomes
<1>3. BatchTypeOK'
  BY DEF ConfirmationBaseline, BatchTypeOK, ResultTypeOK, Evaluated, Pool, Members
<1>4. ResultTypeOK'
  BY DEF ConfirmationBaseline, ResultTypeOK, Evaluated, Baseline, Splits
<1>5. StageInv'
  BY DEF ConfirmationBaseline, StageInv, SearchStages, Abort, Goto
<1>6. UsageInv'
  BY DEF ConfirmationBaseline, UsageInv
<1> QED BY <1>1, <1>2, <1>3, <1>4, <1>5, <1>6

LEMMA ConfirmType ==
  ASSUME TypeInv, NEW s \in Schemas, Confirm(s)
  PROVE  TypeInv'
<1> USE DEF TypeInv, TypeOK, ControlInv, config, proposals, candidates, smoke,
            choice, tests
<1>1. BudgetTypeOK'
  BY ChargeType, CostType, PlusType
  DEF Confirm, BudgetTypeOK, Charge, Report, Splits
<1>2. StageTypeOK'
  BY DEF Confirm, StageTypeOK, Abort, Goto, Stages, Final, Outcomes
<1>3. BatchTypeOK'
  BY DEF Confirm, BatchTypeOK, Pool
<1>4. ResultTypeOK'
  BY DEF Confirm, ResultTypeOK, Evaluated, StageInv, IsBest
<1>5. StageInv'
  BY DEF Confirm, StageInv, SearchStages
<1>6. UsageInv'
  BY DEF Confirm, UsageInv
<1> QED BY <1>1, <1>2, <1>3, <1>4, <1>5, <1>6

LEMMA ConfirmEndType ==
  ASSUME TypeInv, ConfirmEnd
  PROVE  TypeInv'
<1> USE DEF TypeInv, TypeOK, ControlInv, config, proposals, candidates, smoke,
            choice, tests
<1>1. BudgetTypeOK'
  BY DEF ConfirmEnd, BudgetTypeOK
<1>2. StageTypeOK'
  BY DEF ConfirmEnd, StageTypeOK, Abort, Goto, Stages, Final, Outcomes
<1>3. BatchTypeOK'
  BY DEF ConfirmEnd, BatchTypeOK, Pool
<1>4. ResultTypeOK'
  BY DEF ConfirmEnd, ResultTypeOK, Evaluated
<1>5. StageInv'
  BY DEF ConfirmEnd, StageInv, SearchStages, Abort, Goto
<1>6. UsageInv'
  BY DEF ConfirmEnd, UsageInv
<1> QED BY <1>1, <1>2, <1>3, <1>4, <1>5, <1>6

LEMMA HeldoutBaselineType ==
  ASSUME TypeInv, HeldoutBaseline
  PROVE  TypeInv'
<1> USE DEF TypeInv, TypeOK, ControlInv, config, proposals, candidates, smoke,
            choice, tests
<1>1. BudgetTypeOK'
  <2>1. CASE UNCHANGED <<used, reported>>
    BY <2>1 DEF HeldoutBaseline, BudgetTypeOK
  <2>2. CASE \E cost \in Actual["heldout"] : Charge(cost) /\ Report(cost)
    BY <2>2, ChargeType DEF HeldoutBaseline, BudgetTypeOK, Splits
  <2> QED BY <2>1, <2>2 DEF HeldoutBaseline, Baseline
<1>2. StageTypeOK'
  BY DEF HeldoutBaseline, StageTypeOK, Abort, Goto, Stages, Final, Outcomes
<1>3. BatchTypeOK'
  BY DEF HeldoutBaseline, BatchTypeOK, Pool
<1>4. ResultTypeOK'
  BY DEF HeldoutBaseline, ResultTypeOK, Evaluated, Baseline, Splits
<1>5. StageInv'
  BY DEF HeldoutBaseline, StageInv, SearchStages, Abort, Goto
<1>6. UsageInv'
  BY DEF HeldoutBaseline, UsageInv
<1> QED BY <1>1, <1>2, <1>3, <1>4, <1>5, <1>6

LEMMA HeldoutPrimaryType ==
  ASSUME TypeInv, HeldoutPrimary
  PROVE  TypeInv'
<1> USE DEF TypeInv, TypeOK, ControlInv, config, proposals, candidates, smoke,
            choice, tests
<1>1. BudgetTypeOK'
  <2>1. CASE UNCHANGED <<used, reported>>
    BY <2>1 DEF HeldoutPrimary, BudgetTypeOK
  <2>2. CASE \E cost \in Actual["heldout"] : Charge(cost) /\ Report(cost)
    BY <2>2, ChargeType DEF HeldoutPrimary, BudgetTypeOK, Splits
  <2> QED BY <2>1, <2>2 DEF HeldoutPrimary
<1>2. StageTypeOK'
  BY DEF HeldoutPrimary, StageTypeOK, Abort, Goto, Stages, Final, Outcomes
<1>3. BatchTypeOK'
  BY DEF HeldoutPrimary, BatchTypeOK, Pool
<1>4. ResultTypeOK'
  BY DEF HeldoutPrimary, ResultTypeOK, Evaluated, Baseline, Splits
<1>5. StageInv'
  BY DEF HeldoutPrimary, StageInv, SearchStages, Abort, Goto
<1>6. UsageInv'
  BY DEF HeldoutPrimary, UsageInv
<1> QED BY <1>1, <1>2, <1>3, <1>4, <1>5, <1>6

LEMMA AblateType ==
  ASSUME TypeInv, Ablate
  PROVE  TypeInv'
<1> USE DEF TypeInv, TypeOK, ControlInv, config, proposals, candidates, smoke,
            choice, tests
<1>1. BudgetTypeOK'
  BY ChargeType, CostType, PlusType
  DEF Ablate, BudgetTypeOK, Charge, Report, Splits
<1>2. StageTypeOK'
  BY DEF Ablate, StageTypeOK, Abort, Goto, Stages, Final, Outcomes
<1>3. BatchTypeOK'
  BY DEF Ablate, BatchTypeOK, Pool
<1>4. ResultTypeOK'
  BY DEF Ablate, ResultTypeOK, Evaluated
<1>5. StageInv'
  BY DEF Ablate, StageInv, SearchStages
<1>6. UsageInv'
  BY DEF Ablate, UsageInv
<1> QED BY <1>1, <1>2, <1>3, <1>4, <1>5, <1>6

LEMMA FinishType ==
  ASSUME TypeInv, Finish
  PROVE  TypeInv'
<1> USE DEF TypeInv, TypeOK, ControlInv, config, proposals, candidates, smoke,
            choice, tests
<1>1. BudgetTypeOK'
  BY DEF Finish, BudgetTypeOK
<1>2. StageTypeOK'
  BY DEF Finish, StageTypeOK, Decision, Stages, Final, Outcomes
<1>3. BatchTypeOK'
  BY DEF Finish, BatchTypeOK, Pool
<1>4. ResultTypeOK'
  BY DEF Finish, ResultTypeOK, Evaluated
<1>5. StageInv'
  BY DEF Finish, StageInv, SearchStages
<1>6. UsageInv'
  BY DEF Finish, UsageInv
<1> QED BY <1>1, <1>2, <1>3, <1>4, <1>5, <1>6

LEMMA RaiseType ==
  ASSUME TypeInv, Raise
  PROVE  TypeInv'
<1> USE DEF TypeInv, TypeOK, ControlInv, config, proposals, candidates, smoke,
            choice, tests
<1>1. BudgetTypeOK'
  BY DEF Raise, BudgetTypeOK
<1>2. StageTypeOK'
  BY DEF Raise, StageTypeOK, Abort, Goto, Stages, Final, Outcomes
<1>3. BatchTypeOK'
  BY DEF Raise, BatchTypeOK, Pool
<1>4. ResultTypeOK'
  BY DEF Raise, ResultTypeOK, Evaluated
<1>5. StageInv'
  BY DEF Raise, StageInv, SearchStages, Abort, Final
<1>6. UsageInv'
  BY DEF Raise, UsageInv
<1> QED BY <1>1, <1>2, <1>3, <1>4, <1>5, <1>6

(* Every step keeps the types.                                             *)
LEMMA TypeInvNext == TypeInv /\ [Next]_vars => TypeInv'
<1> SUFFICES ASSUME TypeInv, [Next]_vars PROVE TypeInv'
  OBVIOUS
<1>1. CASE EvaluateCandidate
  BY <1>1, SmokeType, SelectType, ReflectSmokeType, ConfirmType
  DEF EvaluateCandidate
<1>2. CASE UNCHANGED vars
  BY <1>2
  DEF vars, TypeInv, TypeOK, ControlInv, BudgetTypeOK, StageTypeOK,
      BatchTypeOK, ResultTypeOK, StageInv, UsageInv, Pool, Members, Evaluated
<1> QED
  BY <1>1, <1>2, ProposeType, SelectionBaselineType, SmokeEndType,
     SelectEndType, ReflectProposeType, ReflectSmokeEndType, ReflectEndType,
     RankType, ConfirmationBaselineType, ConfirmEndType, HeldoutBaselineType,
     HeldoutPrimaryType, AblateType, FinishType, RaiseType
  DEF Next, Step, Returned

(* Every reachable state of a fixed-pool run is well typed, and the stages *)
(* keep their working sets in order (run_fixed_pool_schema_mvp).           *)
THEOREM TypeCorrect == Spec => []TypeOK
<1>1. Spec => []TypeInv
  BY TypeInvInit, TypeInvNext, PTL DEF Spec
<1>2. TypeInv => TypeOK
  BY DEF TypeInv
<1> QED BY <1>1, <1>2, PTL

-----------------------------------------------------------------------------
(* The balance of the budget                                               *)

LEMMA PlusZero ==
  ASSUME NEW a \in Amount
  PROVE  Plus(a, Nothing) = a /\ Plus(Nothing, a) = a
  BY DEF Plus, Nothing, Amount

(* Amounts are added in any order.                                         *)
LEMMA PlusCommutes ==
  ASSUME NEW a \in Amount, NEW b \in Amount
  PROVE  Plus(a, b) = Plus(b, a)
  BY DEF Plus, Amount

(* And in any grouping.                                                    *)
LEMMA PlusAssociates ==
  ASSUME NEW a \in Amount, NEW b \in Amount, NEW c \in Amount
  PROVE  Plus(Plus(a, b), c) = Plus(a, Plus(b, c))
  BY DEF Plus, Amount

(* A result charged to the budget and reported keeps the balance, and so   *)
(* does one charged and held back.                                         *)
LEMMA ChargeKeepsBalance ==
  ASSUME NEW r \in Amount, NEW u \in Amount, NEW p \in Amount,
         NEW cost \in Amount
  PROVE  /\ Plus(Plus(Plus(r, u), p), cost) = Plus(Plus(Plus(r, cost), u), p)
         /\ Plus(Plus(Plus(r, u), p), cost) = Plus(Plus(r, Plus(u, cost)), p)
  BY DEF Plus, Amount

(* The budget balances in the beginning.                                   *)
LEMMA BalanceInit == Init => BalanceInv
  BY PlusZero, NothingType DEF Init, BalanceInv, SettledStages

(* Every step keeps the balance.                                           *)
LEMMA BalanceNext == TypeInv /\ BalanceInv /\ [Next]_vars => BalanceInv'
<1> SUFFICES ASSUME TypeInv, BalanceInv, [Next]_vars PROVE BalanceInv'
  OBVIOUS
<1> USE DEF config, proposals, candidates, smoke, choice, tests
<1>a. /\ used \in Amount /\ reported \in Amount /\ unreported \in Amount
      /\ recorded \in Amount /\ proposer \in Amount
  BY DEF TypeInv, TypeOK, BudgetTypeOK
(* An evaluation, wherever it happens. *)
<1>b. ASSUME NEW x \in Splits, NEW cost \in Actual[x],
             Charge(cost), Report(cost), UNCHANGED <<unreported, recorded>>
      PROVE  used' = Plus(Plus(reported', unreported'), recorded')
  BY <1>a, <1>b, CostType, ChargeKeepsBalance DEF Charge, Report, BalanceInv
<1>1. CASE Propose
  <2>1. PICK u \in ProposalCosts :
          proposer' = u /\ recorded' = u /\ Charge(u)
    BY <1>1 DEF Propose
  <2>2. used = Plus(reported, unreported)
    BY <1>1, <1>a, PlusZero, PlusType DEF Propose, BalanceInv
  <2>3. stage' \in {"failed", "selection_baseline"}
    BY <1>1 DEF Propose, Abort, Goto
  <2> QED
    BY <1>1, <2>1, <2>2, <2>3
    DEF Propose, Charge, BalanceInv, SettledStages
<1>2. CASE SelectionBaseline
  <2>1. CASE \E cost \in Actual["selection"] : Charge(cost) /\ Report(cost)
    BY <1>2, <1>b, <2>1
    DEF SelectionBaseline, BalanceInv, SettledStages, Abort, Goto, Splits
  <2>2. CASE UNCHANGED <<used, reported>>
    BY <1>2, <2>2 DEF SelectionBaseline, BalanceInv, SettledStages, Abort, Goto
  <2> QED BY <1>2, <2>1, <2>2 DEF SelectionBaseline, Baseline
<1>3. CASE ConfirmationBaseline
  <2>1. CASE \E cost \in Actual["confirmation"] : Charge(cost) /\ Report(cost)
    BY <1>3, <1>b, <2>1
    DEF ConfirmationBaseline, BalanceInv, SettledStages, Abort, Goto, Splits
  <2>2. CASE UNCHANGED <<used, reported>>
    BY <1>3, <2>2 DEF ConfirmationBaseline, BalanceInv, SettledStages, Abort, Goto
  <2> QED BY <1>3, <2>1, <2>2 DEF ConfirmationBaseline, Baseline
<1>4. CASE HeldoutBaseline
  <2>1. CASE \E cost \in Actual["heldout"] : Charge(cost) /\ Report(cost)
    BY <1>4, <1>b, <2>1
    DEF HeldoutBaseline, BalanceInv, SettledStages, Abort, Goto, Splits
  <2>2. CASE UNCHANGED <<used, reported>>
    BY <1>4, <2>2 DEF HeldoutBaseline, BalanceInv, SettledStages, Abort, Goto
  <2> QED BY <1>4, <2>1, <2>2 DEF HeldoutBaseline, Baseline
<1>5. CASE HeldoutPrimary
  <2>1. CASE \E cost \in Actual["heldout"] : Charge(cost) /\ Report(cost)
    BY <1>5, <1>b, <2>1
    DEF HeldoutPrimary, BalanceInv, SettledStages, Abort, Goto, Splits
  <2>2. CASE UNCHANGED <<used, reported>>
    BY <1>5, <2>2 DEF HeldoutPrimary, BalanceInv, SettledStages, Abort, Goto
  <2> QED BY <1>5, <2>1, <2>2 DEF HeldoutPrimary
<1>6. CASE Ablate
  BY <1>6, <1>b DEF Ablate, BalanceInv, SettledStages, Splits
<1>7. ASSUME NEW s \in Schemas, Smoke(s) \/ Select(s) \/ Confirm(s)
      PROVE  BalanceInv'
  BY <1>7, <1>b DEF Smoke, Select, Confirm, BalanceInv, SettledStages, Splits
<1>8. ASSUME NEW s \in Schemas, ReflectSmoke(s)
      PROVE  BalanceInv'
  <2>1. PICK cost \in Actual["smoke"] :
          Charge(cost) /\ unreported' = Plus(unreported, cost)
    BY <1>8 DEF ReflectSmoke
  <2>2. cost \in Amount
    BY CostType DEF Splits
  <2>3. used' = Plus(Plus(reported', unreported'), recorded')
    BY <1>8, <1>a, <2>1, <2>2, ChargeKeepsBalance
    DEF ReflectSmoke, Charge, BalanceInv
  <2> QED BY <1>8, <2>3 DEF ReflectSmoke, BalanceInv, SettledStages
<1>9. CASE ReflectSmokeEnd
  <2>1. used' = Plus(Plus(reported', unreported'), recorded')
    BY <1>9, <1>a, PlusZero, PlusType
    DEF ReflectSmokeEnd, Report, BalanceInv
  <2> QED
    BY <1>9, <2>1 DEF ReflectSmokeEnd, BalanceInv, SettledStages, Goto
<1>10. CASE ReflectEnd
  <2>1. UsageDelta \in Amount /\ Plus(recorded, UsageDelta) = proposer
    <3>1. /\ proposer.prompt - recorded.prompt \in Nat
          /\ proposer.completion - recorded.completion \in Nat
          /\ proposer.dollar - recorded.dollar \in Nat
          /\ proposer.calls = 0 /\ recorded.calls = 0
      BY <1>a DEF TypeInv, ControlInv, UsageInv, Amount
    <3>2. UsageDelta \in Amount
      BY <3>1 DEF UsageDelta, Amount
    <3>3. Plus(recorded, UsageDelta) \in Amount
      BY <1>a, <3>2, PlusType
    <3>4. /\ Plus(recorded, UsageDelta).calls = proposer.calls
          /\ Plus(recorded, UsageDelta).prompt = proposer.prompt
          /\ Plus(recorded, UsageDelta).completion = proposer.completion
          /\ Plus(recorded, UsageDelta).dollar = proposer.dollar
      BY <1>a, <3>1 DEF UsageDelta, Plus, Amount
    <3> HIDE DEF UsageDelta
    <3> QED BY <1>a, <3>2, <3>3, <3>4 DEF Amount
  <2>2. used' = Plus(Plus(reported', unreported'), recorded')
    <3>1. used' = Plus(Plus(Plus(reported, unreported), recorded), UsageDelta)
      BY <1>10 DEF ReflectEnd, Charge, BalanceInv
    <3>2. Plus(reported, unreported) \in Amount
      BY <1>a, PlusType
    <3>3. used' = Plus(Plus(reported, unreported), proposer)
      BY <1>a, <2>1, <3>1, <3>2, PlusAssociates
    <3> QED BY <1>10, <3>3 DEF ReflectEnd
  <2> QED BY <1>10, <2>2 DEF ReflectEnd, BalanceInv, SettledStages, Goto
<1>11. CASE SmokeEnd \/ SelectEnd \/ ReflectPropose \/ Rank \/ ConfirmEnd
            \/ Finish \/ Raise
  BY <1>11
  DEF SmokeEnd, SelectEnd, ReflectPropose, Rank, ConfirmEnd, Finish, Raise,
      BalanceInv, SettledStages, Final, Abort, Goto
<1>12. CASE UNCHANGED vars
  BY <1>12 DEF vars, BalanceInv
<1> QED
  BY <1>1, <1>2, <1>3, <1>4, <1>5, <1>6, <1>7, <1>8, <1>9, <1>10, <1>11,
     <1>12
  DEF Next, Step, Returned, EvaluateCandidate

(* A run never loses or double-counts a result: the budget equals what the *)
(* results and the recorded proposer usage add up to, and the cost summary *)
(* of a finished run is the budget's (_cost_summary, record_result).       *)
THEOREM SummaryIsExact == Spec => []BudgetBalances
<1>1. Spec => [](TypeInv /\ BalanceInv)
  BY TypeInvInit, TypeInvNext, BalanceInit, BalanceNext, PTL DEF Spec
<1>2. TypeInv /\ BalanceInv => BudgetBalances
  BY PlusZero
  DEF TypeInv, TypeOK, BudgetTypeOK, BalanceInv, BudgetBalances, CostSummary,
      SettledStages
<1> QED BY <1>1, <1>2, PTL

-----------------------------------------------------------------------------
(* The call cap and the reserves                                           *)

LEMMA NeedType ==
  ASSUME NEW x \in Splits, NEW r \in Nat
  PROVE  /\ Need(x, r) \in Amount
         /\ Need(x, r).calls = Calls[x] + r
  BY CallsType, CostAssumption DEF Need, Amount

(* An evaluation that the gate lets start leaves the reserve untouched.    *)
LEMMA GateKeepsReserve ==
  ASSUME TypeInv, NEW x \in Splits, NEW r \in Nat, CanEvaluate(x, r),
         NEW cost \in Actual[x], Charge(cost), UNCHANGED limits
  PROVE  Room(r)'
<1>1. used.calls \in Nat /\ Calls[x] \in Nat /\ limits.calls \in Cap
  BY CallsType
  DEF TypeInv, TypeOK, BudgetTypeOK, Amount, BudgetLimits
<1>2. used'.calls = used.calls + Calls[x]
  BY CostType DEF Charge, Plus
<1>3. Fits(used.calls + Calls[x] + r, limits.calls)
  BY <1>1, NeedType DEF CanEvaluate, Gate, CanStart, Plus
<1> QED
  BY <1>1, <1>2, <1>3 DEF Room, Fits, Cap

(* With only calls capped the gate opens whenever the calls are there.     *)
LEMMA GateOpens ==
  ASSUME TypeInv, OnlyCallsCapped(limits), NEW need \in Amount,
         need.calls > 0, Room(need.calls)
  PROVE  Gate(used, limits, need)
<1>1. used.calls \in Nat /\ need.calls \in Nat /\ limits.calls \in Cap
  BY DEF TypeInv, TypeOK, BudgetTypeOK, Amount, BudgetLimits
<1>2. ~Exhausted(used, limits)
  BY <1>1 DEF OnlyCallsCapped, Exhausted, Reached, Room, Cap
<1>3. CanStart(used, limits, need)
  BY <1>1 DEF OnlyCallsCapped, CanStart, Fits, Room, Plus, Cap
<1> QED
  BY <1>2, <1>3 DEF Gate

(* So does the gate in front of an evaluation.                             *)
LEMMA EvaluationOpens ==
  ASSUME TypeInv, OnlyCallsCapped(limits), NEW x \in Splits, NEW r \in Nat,
         Calls[x] + r > 0, Room(Calls[x] + r)
  PROVE  CanEvaluate(x, r)
  BY GateOpens, NeedType DEF CanEvaluate

(* The calls made so far are within the cap.                               *)
CapInv == Room(0)

(* The cap on calls is an invariant of every gated evaluation.             *)
LEMMA CapInit == Init => CapInv
<1> SUFFICES ASSUME Init PROVE CapInv
  OBVIOUS
<1>1. limits.calls \in Cap
  BY ConfigAssumption DEF Init, BudgetLimits
<1> QED
  BY <1>1 DEF Init, CapInv, Room, Nothing, Cap

(* Room for more calls is room for fewer.                                  *)
LEMMA RoomShrinks ==
  ASSUME TypeInv, NEW m \in Nat, NEW n \in Nat, m <= n, Room(n)
  PROVE  Room(m)
  BY DEF Room, TypeInv, TypeOK, BudgetTypeOK, Amount, BudgetLimits, Cap

(* Room stays while nothing is spent.                                      *)
LEMMA RoomStays ==
  ASSUME NEW n \in Nat, Room(n), UNCHANGED <<used, limits>>
  PROVE  Room(n)'
  BY DEF Room

(* The reserves the stages leave behind, as one statement per stage.       *)
LEMMA RoomAfterEvaluation ==
  ASSUME TypeInv, [Next]_vars
  PROVE  /\ SelectionBaseline /\ stage' # "failed" =>
              Room(SmokeReserve)'
         /\ \A s \in Schemas : Smoke(s) => Room(SmokeReserve)'
         /\ \A s \in Schemas : Select(s) => Room(ConfirmationReserve)'
         /\ \A s \in Schemas : ReflectSmoke(s) => Room(ConfirmationReserve)'
         /\ ConfirmationBaseline /\ stage' # "failed" =>
              Room(Calls["confirmation"])'
         /\ \A s \in Schemas : Confirm(s) => Room(0)'
         /\ HeldoutBaseline /\ stage' # "failed" => Room(Calls["heldout"])'
         /\ HeldoutPrimary /\ stage' # "failed" => Room(0)'
         /\ Ablate => Room(0)'
<1> USE DEF config, Splits
<1>a. SmokeReserve \in Nat /\ SmokeReserve = ConfirmationReserve + SelectionReserve
  BY CallsType DEF SmokeReserve
<1>1. SelectionBaseline /\ stage' # "failed" => Room(SmokeReserve)'
  BY <1>a, CallsType, GateKeepsReserve DEF SelectionBaseline, Baseline, Abort
<1>2. \A s \in Schemas : Smoke(s) => Room(SmokeReserve)'
  BY <1>a, GateKeepsReserve DEF Smoke, EvaluateFirst
<1>3. \A s \in Schemas : Select(s) => Room(ConfirmationReserve)'
  BY CallsType, GateKeepsReserve DEF Select, EvaluateFirst
<1>4. \A s \in Schemas : ReflectSmoke(s) => Room(ConfirmationReserve)'
  BY CallsType, GateKeepsReserve DEF ReflectSmoke, EvaluateFirst
<1>5. ConfirmationBaseline /\ stage' # "failed" => Room(Calls["confirmation"])'
  BY CallsType, GateKeepsReserve DEF ConfirmationBaseline, Baseline, Abort
<1>6. \A s \in Schemas : Confirm(s) => Room(0)'
  BY GateKeepsReserve DEF Confirm
<1>7. HeldoutBaseline /\ stage' # "failed" => Room(Calls["heldout"])'
  BY CallsType, GateKeepsReserve DEF HeldoutBaseline, Baseline, Abort
<1>8. HeldoutPrimary /\ stage' # "failed" => Room(0)'
  BY GateKeepsReserve DEF HeldoutPrimary, Abort
<1>9. Ablate => Room(0)'
  BY GateKeepsReserve DEF Ablate
<1> QED
  BY <1>1, <1>2, <1>3, <1>4, <1>5, <1>6, <1>7, <1>8, <1>9

(* What the proposer spends is tokens and dollars, never target calls.     *)
LEMMA ProposerKeepsRoom ==
  ASSUME TypeInv, NEW n \in Nat, Room(n), Propose \/ ReflectEnd
  PROVE  Room(n)'
<1>1. PICK u : Charge(u) /\ u.calls = 0
  BY ProposalCostType DEF Propose, ReflectEnd, UsageDelta
<1>2. used'.calls = used.calls
  BY <1>1 DEF Charge, Plus, TypeInv, TypeOK, BudgetTypeOK, Amount
<1> QED
  BY <1>2 DEF Propose, ReflectEnd, config, Room

(* Whatever is neither an evaluation nor a proposal spends nothing.        *)
LEMMA OthersKeepRoom ==
  ASSUME NEW n \in Nat, Room(n), limits' = limits,
         used' = used
  PROVE  Room(n)'
  BY DEF Room

(* Every step keeps within the cap.                                        *)
LEMMA CapNext == TypeInv /\ CapInv /\ [Next]_vars => CapInv'
<1> SUFFICES ASSUME TypeInv, CapInv, [Next]_vars PROVE CapInv'
  OBVIOUS
<1> USE DEF CapInv, config
<1>1. TypeInv'
  BY TypeInvNext
<1>2. ASSUME NEW n \in Nat, Room(n)' PROVE Room(0)'
  BY <1>1, <1>2 DEF Room, TypeInv, TypeOK, BudgetTypeOK, Amount,
                    BudgetLimits, Cap
<1>3. SmokeReserve \in Nat
  BY CallsType DEF SmokeReserve
<1>4. CASE UNCHANGED <<used, limits>>
  BY <1>4, OthersKeepRoom
<1>5. CASE Propose \/ ReflectEnd
  BY <1>5, ProposerKeepsRoom
<1>6. CASE SelectionBaseline
  <2>1. CASE stage' # "failed"
    BY <1>2, <1>3, <1>6, <2>1, RoomAfterEvaluation
  <2>2. CASE stage' = "failed"
    BY <1>4, <1>6, <2>2 DEF SelectionBaseline, Goto
  <2> QED BY <2>1, <2>2
<1>7. CASE ConfirmationBaseline
  <2>1. CASE stage' # "failed"
    BY <1>2, <1>7, <2>1, RoomAfterEvaluation, CallsType
  <2>2. CASE stage' = "failed"
    BY <1>4, <1>7, <2>2 DEF ConfirmationBaseline, Goto
  <2> QED BY <2>1, <2>2
<1>8. CASE HeldoutBaseline
  <2>1. CASE stage' # "failed"
    BY <1>2, <1>8, <2>1, RoomAfterEvaluation, CallsType
  <2>2. CASE stage' = "failed"
    BY <1>4, <1>8, <2>2 DEF HeldoutBaseline, Goto
  <2> QED BY <2>1, <2>2
<1>9. CASE HeldoutPrimary
  <2>1. CASE stage' # "failed"
    BY <1>9, <2>1, RoomAfterEvaluation
  <2>2. CASE stage' = "failed"
    BY <1>4, <1>9, <2>2 DEF HeldoutPrimary, Goto
  <2> QED BY <2>1, <2>2
<1>10. CASE EvaluateCandidate
  BY <1>2, <1>3, <1>10, RoomAfterEvaluation, CallsType
  DEF EvaluateCandidate
<1>11. CASE Ablate
  BY <1>11, RoomAfterEvaluation
<1>12. CASE SmokeEnd \/ SelectEnd \/ ReflectPropose \/ ReflectSmokeEnd
            \/ Rank \/ ConfirmEnd \/ Finish \/ Raise \/ UNCHANGED vars
  BY <1>4, <1>12
  DEF SmokeEnd, SelectEnd, ReflectPropose, ReflectSmokeEnd, Rank, ConfirmEnd,
      Finish, Raise, vars
<1> QED
  BY <1>5, <1>6, <1>7, <1>8, <1>9, <1>10, <1>11, <1>12
  DEF Next, Step, Returned

(* However the tokens of an evaluation turn out, the number of target      *)
(* calls a run makes never exceeds max_target_task_calls                   *)
(* (_can_start_budget in front of every evaluation).                       *)
THEOREM CallCapHolds == Spec => []CallCapExact
<1>1. Spec => [](TypeInv /\ CapInv)
  BY TypeInvInit, TypeInvNext, CapInit, CapNext, PTL DEF Spec
<1>2. TypeInv /\ CapInv => CallCapExact
  BY DEF CapInv, Room, CallCapExact, TypeInv, TypeOK, BudgetTypeOK, Amount
<1> QED BY <1>1, <1>2, PTL


-----------------------------------------------------------------------------
(* The reserves are enough: ReserveInv is inductive.                       *)

(* Nobody is ranked above the best, so the best is among the first k.      *)
LEMMA BestIsOnTop ==
  ASSUME TypeInv, NEW s, IsBest(s, Evaluated)
  PROVE  s \in TopK(Evaluated, TopKConfirmation)
<1>1. /\ s \in Schemas /\ s \in Nat /\ key[s] \in Int
      /\ \A t \in Evaluated : t \in Nat /\ key[t] \in Int
  BY SchemasAssumption
  DEF IsBest, Evaluated, TypeInv, TypeOK, ResultTypeOK
<1>2. ASSUME NEW t \in Evaluated PROVE ~Better(t, s)
  <2>1. CASE t = s
    BY <1>1, <2>1 DEF Better
  <2>2. CASE t # s
    BY <1>1, <2>2 DEF IsBest, Better
  <2> QED BY <2>1, <2>2
<1>3. {t \in Evaluated : Better(t, s)} = {}
  BY <1>2
<1>4. Cardinality({t \in Evaluated : Better(t, s)}) = 0
  BY <1>3, FS_EmptySet
<1> QED
  BY <1>4, ConfigAssumption DEF TopK, IsBest

(* The reserves are there in the beginning.                                *)
LEMMA ReserveInit == Init => ReserveInv
  BY DEF Init, ReserveInv, BudgetFailures

(* The end of the first selection finds a result: as long as there is      *)
(* none, the gate is open for the first candidate.                         *)
LEMMA SelectionFindsOne ==
  ASSUME TypeInv, ReserveInv, OnlyCallsCapped(limits), SelectEnd
  PROVE  Evaluated # {} /\ Room(ConfirmationReserve)
<1>1. CASE stage = "reflect_selection"
  BY <1>1 DEF ReserveInv
<1>2. CASE stage = "selection" /\ ~(Evaluated # {} /\ Room(ConfirmationReserve))
  <2>1. pending # {} /\ Room(SelectionReserve + ConfirmationReserve)
    BY <1>2 DEF ReserveInv
  <2>2. CanEvaluate("selection", ConfirmationReserve)
    BY <2>1, EvaluationOpens, CallsType DEF SelectionReserve, Splits
  <2> QED BY <2>1, <2>2 DEF SelectEnd, LoopOver
<1> QED BY <1>1, <1>2 DEF SelectEnd

(* And the primary, the first of the top candidates, is confirmed.         *)
LEMMA ConfirmationFindsOne ==
  ASSUME TypeInv, ReserveInv, OnlyCallsCapped(limits), ConfirmEnd
  PROVE  confirmed # {}
<1> SUFFICES ASSUME confirmed = {} PROVE FALSE
  OBVIOUS
<1>1. pending # {} /\ Room(Calls["confirmation"])
  BY DEF ConfirmEnd, ReserveInv
<1>2. CanEvaluate("confirmation", 0)
  BY <1>1, EvaluationOpens, CallsType DEF Splits
<1> QED BY <1>1, <1>2 DEF ConfirmEnd, LoopOver

(* A held-out pair that may start has room for both its evaluations.       *)
LEMMA HeldoutPairFits ==
  ASSUME TypeInv, Gate(used, limits, HeldoutPair)
  PROVE  Room(2 * Calls["heldout"])
<1>1. /\ HeldoutPair.calls = 2 * Calls["heldout"]
      /\ Calls["heldout"] \in Nat /\ used.calls \in Nat
  BY CallsType
  DEF HeldoutPair, Plus, TypeInv, TypeOK, BudgetTypeOK, Amount
<1> QED
  BY <1>1 DEF Gate, CanStart, Plus, Fits, Room

(* Every step keeps the reserves of what is not optional.                  *)
LEMMA ReserveNext == TypeInv /\ ReserveInv /\ [Next]_vars => ReserveInv'
<1> SUFFICES ASSUME TypeInv, ReserveInv, [Next]_vars,
                    OnlyCallsCapped(limits)'
             PROVE  ReserveInv'
  BY DEF ReserveInv
<1> USE DEF config, candidates, smoke, choice, tests, Splits
<1>a. limits' = limits /\ OnlyCallsCapped(limits)
  BY DEF Next, Step, Returned, EvaluateCandidate, Propose, SelectionBaseline,
         SmokeEnd, SelectEnd, ReflectPropose, ReflectSmokeEnd, ReflectEnd,
         Rank, ConfirmationBaseline, ConfirmEnd, HeldoutBaseline,
         HeldoutPrimary, Ablate, Finish, Raise, Smoke, Select, ReflectSmoke,
         Confirm, vars
<1>b. /\ SmokeReserve \in Nat /\ ConfirmationReserve \in Nat
      /\ SelectionReserve \in Nat /\ Calls["confirmation"] \in Nat
      /\ Calls["heldout"] \in Nat
      /\ SmokeReserve = SelectionReserve + ConfirmationReserve
      /\ ConfirmationReserve = Calls["confirmation"] + Calls["confirmation"]
  BY CallsType DEF SmokeReserve, ConfirmationReserve
<1>c. outcome \notin BudgetFailures
  BY <1>a DEF ReserveInv
<1>1. CASE Propose
  BY <1>1, <1>c DEF Propose, ReserveInv, Abort, Goto, BudgetFailures
<1>2. CASE SelectionBaseline
  <2>1. CASE stage' = "failed"
    BY <1>2, <1>c, <2>1
    DEF SelectionBaseline, ReserveInv, Abort, Goto, BudgetFailures
  <2>2. CASE stage' # "failed"
    <3>1. Room(SmokeReserve)'
      BY <1>2, <2>2, RoomAfterEvaluation
    <3>2. stage' \in {"smoke", "selection"} /\ UNCHANGED outcome
      BY <1>2, <2>2 DEF SelectionBaseline, Abort, Goto
    <3>3. pending' # {}
      BY <1>2, <2>2
      DEF SelectionBaseline, StartBatch, Abort, TypeInv, ControlInv, StageInv
    <3>4. Room(SelectionReserve + ConfirmationReserve)'
      BY <1>b, <3>1
    <3> QED BY <1>c, <3>1, <3>2, <3>3, <3>4 DEF ReserveInv
  <2> QED BY <2>1, <2>2
<1>3. CASE SmokeEnd
  <2>1. Room(SmokeReserve)'
    BY <1>a, <1>b, <1>3, OthersKeepRoom DEF SmokeEnd, ReserveInv
  <2>2. CASE stage' = "failed"
    BY <1>3, <1>c, <2>2
    DEF SmokeEnd, ReserveInv, Abort, Goto, BudgetFailures
  <2>3. CASE stage' # "failed"
    <3>1. stage' = "selection" /\ UNCHANGED outcome /\ pending' # {}
      BY <1>3, <2>3 DEF SmokeEnd, Abort, Goto, StartBatch
    <3>2. Room(SelectionReserve + ConfirmationReserve)'
      BY <1>b, <2>1
    <3> QED BY <1>c, <3>1, <3>2 DEF ReserveInv
  <2> QED BY <2>2, <2>3
<1>4. ASSUME NEW s \in Schemas, Smoke(s) PROVE ReserveInv'
  BY <1>4, <1>c, RoomAfterEvaluation DEF Smoke, ReserveInv
<1>5. ASSUME NEW s \in Schemas, Select(s) PROVE ReserveInv'
  <2>1. key' \in [Schemas -> Keys \cup {NoKey}] /\ key'[s] \in Keys
    BY <1>5 DEF Select, TypeInv, TypeOK, ResultTypeOK
  <2>2. s \in Evaluated'
    BY <2>1, SchemasAssumption DEF Evaluated
  <2> QED
    BY <1>5, <1>c, <2>2, RoomAfterEvaluation DEF Select, ReserveInv
<1>6. CASE SelectEnd
  <2>1. Evaluated # {} /\ Room(ConfirmationReserve)
    BY <1>a, <1>6, SelectionFindsOne
  <2>2. (Evaluated # {} /\ Room(ConfirmationReserve))'
    BY <1>a, <1>b, <1>6, <2>1, OthersKeepRoom DEF SelectEnd, Evaluated
  <2> QED BY <1>6, <1>c, <2>2 DEF SelectEnd, Goto, ReserveInv
<1>7. CASE ReflectPropose \/ ReflectSmokeEnd \/ ReflectEnd
  <2>1. Evaluated # {} /\ Room(ConfirmationReserve)
    BY <1>a, <1>7
    DEF ReflectPropose, ReflectSmokeEnd, ReflectEnd, ReserveInv
  <2>2. Room(ConfirmationReserve)'
    BY <1>a, <1>b, <1>7, <2>1, OthersKeepRoom, ProposerKeepsRoom
    DEF ReflectPropose, ReflectSmokeEnd
  <2>3. Evaluated' # {}
    BY <1>7, <2>1
    DEF ReflectPropose, ReflectSmokeEnd, ReflectEnd, Evaluated
  <2>4. /\ stage' \in {"reflect", "reflect_smoke", "reflect_selection", "rank"}
        /\ UNCHANGED outcome
    BY <1>7 DEF ReflectPropose, ReflectSmokeEnd, ReflectEnd, Goto
  <2> QED BY <1>c, <2>2, <2>3, <2>4 DEF ReserveInv
<1>8. ASSUME NEW s \in Schemas, ReflectSmoke(s) PROVE ReserveInv'
  <2>1. Evaluated' # {}
    BY <1>8, <1>a DEF ReflectSmoke, ReserveInv, Evaluated
  <2> QED BY <1>8, <1>c, <2>1, RoomAfterEvaluation DEF ReflectSmoke, ReserveInv
<1>9. CASE Rank
  <2>1. Evaluated # {} /\ Room(ConfirmationReserve)
    BY <1>a, <1>9 DEF Rank, ReserveInv
  <2>2. /\ stage' = "confirmation_baseline" /\ UNCHANGED outcome
        /\ top' = TopK(Evaluated, TopKConfirmation)
        /\ \E s \in Evaluated : IsBest(s, Evaluated)
    BY <1>9, <2>1 DEF Rank, Goto
  <2>3. top' # {}
    BY <2>2, BestIsOnTop
  <2>4. Room(ConfirmationReserve)'
    BY <1>a, <1>b, <1>9, <2>1, OthersKeepRoom DEF Rank
  <2> QED BY <1>c, <2>2, <2>3, <2>4 DEF ReserveInv
<1>10. CASE ConfirmationBaseline
  <2>1. top # {} /\ Room(ConfirmationReserve)
    BY <1>a, <1>10 DEF ConfirmationBaseline, ReserveInv
  <2>2. CanEvaluate("confirmation", Calls["confirmation"])
    BY <1>a, <1>b, <2>1, EvaluationOpens, CallsType
  <2>3. stage' = "confirmation" /\ UNCHANGED outcome /\ pending' # {}
    BY <1>10, <2>1, <2>2 DEF ConfirmationBaseline, Goto
  <2>4. Room(Calls["confirmation"])'
    BY <1>10, <2>3, RoomAfterEvaluation
  <2> QED BY <1>c, <2>3, <2>4 DEF ReserveInv
<1>11. ASSUME NEW s \in Schemas, Confirm(s) PROVE ReserveInv'
  BY <1>11, <1>c DEF Confirm, ReserveInv
<1>12. CASE ConfirmEnd
  <2>1. confirmed # {}
    BY <1>a, <1>12, ConfirmationFindsOne
  <2>2. UNCHANGED outcome /\ stage' \in {"heldout_baseline", "ablation"}
    BY <1>12, <2>1 DEF ConfirmEnd, Goto
  <2>3. ASSUME stage' = "heldout_baseline"
        PROVE  Calls["heldout"] > 0 /\ Room(2 * Calls["heldout"])
    BY <1>12, <2>1, <2>3, HeldoutPairFits DEF ConfirmEnd, Goto
  <2>4. ASSUME stage' = "heldout_baseline"
        PROVE  Calls["heldout"] > 0 /\ Room(2 * Calls["heldout"])'
    BY <1>a, <1>b, <1>12, <2>3, <2>4, OthersKeepRoom DEF ConfirmEnd
  <2> QED BY <1>c, <2>2, <2>4 DEF ReserveInv
<1>13. CASE HeldoutBaseline
  <2>1. Calls["heldout"] > 0 /\ Room(Calls["heldout"] + Calls["heldout"])
    BY <1>a, <1>b, <1>13 DEF HeldoutBaseline, ReserveInv, Room
  <2>2. CanEvaluate("heldout", Calls["heldout"])
    BY <1>a, <1>b, <2>1, EvaluationOpens
  <2>3. stage' = "heldout_primary" /\ UNCHANGED outcome
    BY <1>13, <2>2 DEF HeldoutBaseline, Goto
  <2>4. Room(Calls["heldout"])'
    BY <1>13, <2>3, RoomAfterEvaluation
  <2> QED BY <1>c, <2>1, <2>3, <2>4 DEF ReserveInv
<1>14. CASE HeldoutPrimary
  <2>1. Calls["heldout"] > 0 /\ Room(Calls["heldout"] + 0)
    BY <1>a, <1>b, <1>14 DEF HeldoutPrimary, ReserveInv, Room
  <2>2. CanEvaluate("heldout", 0)
    BY <1>a, <1>b, <2>1, EvaluationOpens
  <2> QED
    BY <1>14, <1>c, <2>2 DEF HeldoutPrimary, Goto, ReserveInv
<1>15. CASE Ablate
  BY <1>15, <1>c DEF Ablate, ReserveInv
<1>16. CASE Finish
  BY <1>16 DEF Finish, Decision, ReserveInv, BudgetFailures
<1>17. CASE Raise
  BY <1>17 DEF Raise, Abort, ReserveInv, BudgetFailures
<1>18. CASE UNCHANGED vars
  BY <1>18, <1>a
  DEF vars, ReserveInv, Room, Evaluated, BudgetFailures
<1> QED
  BY <1>1, <1>2, <1>3, <1>4, <1>5, <1>6, <1>7, <1>8, <1>9, <1>10, <1>11,
     <1>12, <1>13, <1>14, <1>15, <1>16, <1>17, <1>18
  DEF Next, Step, Returned, EvaluateCandidate

(* When only calls are capped, the budget never fails a run that could pay *)
(* for its selection baseline: the reserves that _evaluate_required_with_  *)
(* budget and _evaluate_many hold back always leave the calls of one       *)
(* selected candidate, the confirmation pair and an accepted held-out pair.*)
THEOREM ReservesAreEnough == Spec => []ReservesSuffice
<1>1. Spec => [](TypeInv /\ ReserveInv)
  BY TypeInvInit, TypeInvNext, ReserveInit, ReserveNext, PTL DEF Spec
<1>2. ReserveInv => ReservesSuffice
  BY DEF ReserveInv, ReservesSuffice
<1> QED BY <1>1, <1>2, PTL

-----------------------------------------------------------------------------
(* The prompt cap *)

(* A set of integers with a greatest element.                              *)
HasGreatest(A) == \E m \in A : \A o \in A : o <= m

(* Two of them have a greatest element together.                           *)
LEMMA GreatestOfBoth ==
  ASSUME NEW A \in SUBSET Int, NEW B \in SUBSET Int,
         HasGreatest(A), B = {} \/ HasGreatest(B)
  PROVE  A \cup B \in SUBSET Int /\ HasGreatest(A \cup B)
<1>1. CASE B = {}
  <2>1. A \cup B = A
    BY <1>1
  <2> QED BY <2>1
<1>2. CASE HasGreatest(B)
  <2>1. PICK a \in A : \A o \in A : o <= a
    BY DEF HasGreatest
  <2>2. PICK b \in B : \A o \in B : o <= b
    BY <1>2 DEF HasGreatest
  <2>3. CASE a <= b
    <3>1. \A o \in A \cup B : o <= b
      BY <2>1, <2>2, <2>3
    <3> QED BY <2>2, <3>1 DEF HasGreatest
  <2>4. CASE b <= a
    <3>1. \A o \in A \cup B : o <= a
      BY <2>1, <2>2, <2>4
    <3> QED BY <2>1, <3>1 DEF HasGreatest
  <2> QED BY <2>1, <2>2, <2>3, <2>4
<1> QED BY <1>1, <1>2

(* By how much the evaluations of a split may pass their estimate.         *)
Over(x) == {a.prompt - Estimate[x].prompt : a \in Actual[x]}

(* They do it by a greatest amount, if there are any.                      *)
LEMMA OverHasGreatest ==
  ASSUME NEW x \in Splits
  PROVE  Over(x) \in SUBSET Int /\ (Over(x) = {} \/ HasGreatest(Over(x)))
<1>1. /\ Estimate[x].prompt \in Nat
      /\ \A a \in Actual[x] : a.prompt \in Nat
  BY CostAssumption DEF Amount
<1>2. CASE Actual[x] = {}
  BY <1>2 DEF Over
<1>3. ASSUME NEW worst \in Actual[x],
             \A a \in Actual[x] : a.prompt <= worst.prompt
      PROVE  HasGreatest(Over(x))
  <2>1. worst.prompt - Estimate[x].prompt \in Over(x)
    BY DEF Over
  <2>2. \A o \in Over(x) : o <= worst.prompt - Estimate[x].prompt
    BY <1>1, <1>3 DEF Over
  <2> QED BY <2>1, <2>2 DEF HasGreatest
<1>4. Over(x) \in SUBSET Int
  BY <1>1 DEF Over
<1> QED BY <1>2, <1>3, <1>4, WorstCostAssumption DEF Over

(* Excess is what an evaluation may use beyond its estimate.               *)
LEMMA ExcessBounds ==
  /\ Excess \in Nat
  /\ \A x \in Splits : \A a \in Actual[x] :
       a.prompt - Estimate[x].prompt <= Excess
<1> DEFINE S0 == {0}
           S1 == S0 \cup Over("smoke")
           S2 == S1 \cup Over("selection")
           S3 == S2 \cup Over("confirmation")
           S4 == S3 \cup Over("heldout")
           all == UNION {{a.prompt - Estimate[x].prompt : a \in Actual[x]} :
                           x \in Splits}
<1>1. S0 \in SUBSET Int /\ HasGreatest(S0)
  BY DEF HasGreatest
<1>2. S1 \in SUBSET Int /\ HasGreatest(S1)
  <2> HIDE DEF S0
  <2> QED BY <1>1, OverHasGreatest, GreatestOfBoth DEF Splits
<1>3. S2 \in SUBSET Int /\ HasGreatest(S2)
  <2> HIDE DEF S1
  <2> QED BY <1>2, OverHasGreatest, GreatestOfBoth DEF Splits
<1>4. S3 \in SUBSET Int /\ HasGreatest(S3)
  <2> HIDE DEF S2
  <2> QED BY <1>3, OverHasGreatest, GreatestOfBoth DEF Splits
<1>5. S4 \in SUBSET Int /\ HasGreatest(S4)
  <2> HIDE DEF S3
  <2> QED BY <1>4, OverHasGreatest, GreatestOfBoth DEF Splits
<1>6. all = UNION {Over(x) : x \in Splits}
  BY DEF Over
<1>7. UNION {Over(x) : x \in Splits} =
        Over("smoke") \cup Over("selection") \cup Over("confirmation")
          \cup Over("heldout")
  BY DEF Splits
<1>8. all \cup {0} = S4
  <2> HIDE DEF all
  <2> QED BY <1>6, <1>7
<1>9. Excess = CHOOSE m \in all \cup {0} : \A o \in all \cup {0} : o <= m
  BY DEF Excess
<1> HIDE DEF all, S4
<1>10. Excess \in S4 /\ \A o \in S4 : o <= Excess
  BY <1>5, <1>8, <1>9 DEF HasGreatest
<1>11. 0 \in S4
  BY DEF S4
<1>12. \A x \in Splits : \A a \in Actual[x] :
         a.prompt - Estimate[x].prompt \in S4
  BY <1>6, <1>8 DEF Over
<1>13. Excess \in Int /\ 0 <= Excess
  BY <1>5, <1>10, <1>11
<1>14. \A x \in Splits : \A a \in Actual[x] :
         a.prompt - Estimate[x].prompt <= Excess
  BY <1>10, <1>12
<1> QED BY <1>13, <1>14

(* The budget is never above the cap by more than the excess of one        *)
(* evaluation and the usage of the proposer it was told of.                *)
PromptInv ==
  limits.prompt # NoLimit =>
    used.prompt <= limits.prompt + Excess + recorded.prompt

(* An evaluation that the gate lets start passes the cap by Excess at most.*)
LEMMA EvaluationWithinExcess ==
  ASSUME TypeInv, NEW x \in Splits, NEW r \in Nat, CanEvaluate(x, r),
         NEW cost \in Actual[x], Charge(cost),
         UNCHANGED <<limits, recorded>>
  PROVE  PromptInv'
<1> SUFFICES ASSUME limits.prompt # NoLimit
             PROVE  used'.prompt <= limits.prompt + Excess + recorded.prompt
  BY DEF PromptInv
<1>1. /\ used.prompt \in Nat /\ limits.prompt \in Nat
      /\ recorded.prompt \in Nat
  BY DEF TypeInv, TypeOK, BudgetTypeOK, Amount, BudgetLimits, Cap
<1>2. Estimate[x].prompt \in Nat /\ cost.prompt \in Nat
  BY CostAssumption DEF Amount
<1>3. Need(x, r).prompt = Estimate[x].prompt
  BY CostAssumption DEF Need, Amount
<1>4. used.prompt + Estimate[x].prompt <= limits.prompt
  BY <1>3 DEF CanEvaluate, Gate, CanStart, Fits, Plus
<1>5. used'.prompt = used.prompt + cost.prompt
  BY DEF Charge, Plus
<1>6. Excess \in Nat /\ cost.prompt - Estimate[x].prompt <= Excess
  BY ExcessBounds
<1> QED BY <1>1, <1>2, <1>4, <1>5, <1>6

(* A run begins below its cap.                                             *)
LEMMA PromptInit == Init => PromptInv
<1> SUFFICES ASSUME Init, limits.prompt # NoLimit PROVE PromptInv
  BY DEF PromptInv
<1>1. limits.prompt \in Nat
  BY ConfigAssumption DEF Init, BudgetLimits, Cap
<1>2. Excess \in Nat
  BY ExcessBounds
<1> QED BY <1>1, <1>2 DEF Init, PromptInv, Nothing

(* Every step stays within the excess.                                     *)
LEMMA PromptNext ==
  TypeInv /\ BalanceInv /\ PromptInv /\ [Next]_vars => PromptInv'
<1> SUFFICES ASSUME TypeInv, BalanceInv, PromptInv, [Next]_vars
             PROVE  PromptInv'
  OBVIOUS
<1> USE DEF config, proposals, Splits
<1>1. CASE UNCHANGED <<used, limits, recorded>>
  BY <1>1 DEF PromptInv
<1>2. /\ used \in Amount /\ recorded \in Amount /\ proposer \in Amount
      /\ limits.prompt # NoLimit => limits.prompt \in Nat
      /\ Excess \in Nat
  BY ExcessBounds
  DEF TypeInv, TypeOK, BudgetTypeOK, BudgetLimits, Cap
<1>3. CASE Propose
  <2>1. PICK u \in ProposalCosts : recorded' = u /\ Charge(u)
    BY <1>3 DEF Propose
  <2>2. recorded.prompt = 0 /\ limits' = limits
    BY <1>3 DEF Propose, BalanceInv, Nothing
  <2>3. used'.prompt = used.prompt + recorded'.prompt /\ u \in Amount
    BY <2>1, ProposalCostType DEF Charge, Plus
  <2> QED BY <1>2, <2>1, <2>2, <2>3 DEF PromptInv, Amount
<1>4. CASE ReflectEnd
  <2>1. used'.prompt = used.prompt + (proposer.prompt - recorded.prompt)
    BY <1>4 DEF ReflectEnd, Charge, Plus, UsageDelta
  <2>2. recorded' = proposer /\ limits' = limits
    BY <1>4 DEF ReflectEnd
  <2> QED BY <1>2, <2>1, <2>2 DEF PromptInv, Amount
<1>5. CASE SelectionBaseline
  BY <1>1, <1>5, EvaluationWithinExcess, CallsType
  DEF SelectionBaseline, Baseline
<1>6. CASE ConfirmationBaseline
  BY <1>1, <1>6, EvaluationWithinExcess, CallsType
  DEF ConfirmationBaseline, Baseline
<1>7. CASE HeldoutBaseline
  BY <1>1, <1>7, EvaluationWithinExcess, CallsType
  DEF HeldoutBaseline, Baseline
<1>8. CASE HeldoutPrimary
  BY <1>1, <1>8, EvaluationWithinExcess DEF HeldoutPrimary
<1>9. CASE Ablate
  BY <1>9, EvaluationWithinExcess DEF Ablate
<1>10. ASSUME NEW s \in Schemas PROVE Confirm(s) => PromptInv'
  BY EvaluationWithinExcess DEF Confirm
<1>11. ASSUME NEW s \in Schemas PROVE Select(s) => PromptInv'
  BY EvaluationWithinExcess, CallsType DEF Select, EvaluateFirst
<1>12. ASSUME NEW s \in Schemas PROVE Smoke(s) => PromptInv'
  <2>1. SmokeReserve \in Nat
    BY CallsType DEF SmokeReserve
  <2> QED BY <2>1, EvaluationWithinExcess DEF Smoke, EvaluateFirst
<1>13. ASSUME NEW s \in Schemas PROVE ReflectSmoke(s) => PromptInv'
  BY EvaluationWithinExcess, CallsType DEF ReflectSmoke, EvaluateFirst
<1>14. CASE SmokeEnd \/ SelectEnd \/ ReflectPropose \/ ReflectSmokeEnd
            \/ Rank \/ ConfirmEnd \/ Finish \/ Raise \/ UNCHANGED vars
  BY <1>1, <1>14
  DEF SmokeEnd, SelectEnd, ReflectPropose, ReflectSmokeEnd, Rank, ConfirmEnd,
      Finish, Raise, vars
<1> QED
  BY <1>3, <1>4, <1>5, <1>6, <1>7, <1>8, <1>9, <1>10, <1>11, <1>12, <1>13,
     <1>14
  DEF Next, Step, Returned, EvaluateCandidate

(* However many evaluations are started and whatever their prompts grow    *)
(* to, a run passes its prompt cap by no more than one evaluation may use  *)
(* beyond its estimate and the proposer has used (_can_start_budget).      *)
THEOREM PromptExcessHolds == Spec => []PromptOvershootBounded
<1>1. Spec => [](TypeInv /\ BalanceInv /\ PromptInv)
  BY TypeInvInit, TypeInvNext, BalanceInit, BalanceNext, PromptInit,
     PromptNext, PTL DEF Spec
<1>2. TypeInv /\ PromptInv => PromptOvershootBounded
  <2> SUFFICES ASSUME TypeInv, PromptInv, limits.prompt # NoLimit
               PROVE  PromptOvershootBounded
    BY DEF PromptOvershootBounded
  <2>1. /\ used.prompt \in Nat /\ limits.prompt \in Nat
        /\ recorded.prompt \in Nat /\ proposer.prompt \in Nat
        /\ recorded.prompt <= proposer.prompt
    BY DEF TypeInv, TypeOK, BudgetTypeOK, Amount, BudgetLimits, Cap,
           ControlInv, UsageInv
  <2>2. Excess \in Nat
    BY ExcessBounds
  <2> QED BY <2>1, <2>2 DEF PromptInv, PromptOvershootBounded
<1> QED BY <1>1, <1>2, PTL

-----------------------------------------------------------------------------
(* Who may still get a result *)

Selecting == {"selection", "reflect_selection"}

(* Only schemas of the pool without a result are selected, and of a batch  *)
(* that was smoke-tested only those that passed.                           *)
RaceInv ==
  /\ Evaluated \subseteq Pool
  /\ stage \in {"propose", "selection_baseline", "smoke"} => Evaluated = {}
  /\ stage = "reflect_smoke" => Members(batch) \cap Pool = {}
  /\ stage \in Selecting =>
       /\ pending \subseteq Pool \ Evaluated
       /\ Calls["smoke"] > 0 => pending \subseteq passed \/ smoked = {}
  /\ SmokeFilterPerBatch

(* A step that leaves the results, the pool and the batch alone, to a      *)
(* stage in which no candidate is smoke-tested or selected.                *)
LEMMA RaceRests ==
  ASSUME RaceInv, UNCHANGED <<key, arrival>>,
         stage' \notin Selecting \cup {"propose", "selection_baseline", "smoke",
                                       "reflect_smoke"}
  PROVE  RaceInv'
  BY DEF RaceInv, SmokeFilterPerBatch, Selecting, Evaluated, Pool, Members

(* The loop body of an evaluation that gives no selection result.          *)
LEMMA RaceSmokes ==
  ASSUME RaceInv, UNCHANGED <<key, arrival, batch, stage>>,
         stage \in {"smoke", "reflect_smoke"}
  PROVE  RaceInv'
  BY DEF RaceInv, SmokeFilterPerBatch, Selecting, Evaluated, Pool, Members

(* Candidates join the pool, and their selection begins.                   *)
LEMMA RaceJoins ==
  ASSUME TypeInv, RaceInv, UNCHANGED <<key, smoked, passed>>,
         NEW who \in SUBSET Members(batch'), batch' \in Batch,
         Members(batch') \cap Pool = {}, pending' = who, JoinPool(who),
         stage' = "reflect_selection",
         Calls["smoke"] > 0 => who \subseteq passed \/ smoked = {}
  PROVE  RaceInv'
<1>1. Pool' = Pool \cup who
  BY DEF JoinPool, Pool, Members
<1>2. Evaluated' = Evaluated /\ Evaluated \subseteq Pool
  BY DEF RaceInv, Evaluated
<1>3. \A s \in Members(batch') : key'[s] = NoKey
  BY <1>2 DEF Members, Evaluated
<1>4. SmokeFilterPerBatch'
  BY <1>3 DEF SmokeFilterPerBatch, Members
<1>5. pending' \subseteq Pool' \ Evaluated'
  BY <1>1, <1>2
<1> QED BY <1>1, <1>2, <1>4, <1>5 DEF RaceInv, Selecting

(* In the beginning nobody has a result.                                   *)
LEMMA RaceInit == Init => RaceInv
  BY SchemasAssumption
  DEF Init, RaceInv, SmokeFilterPerBatch, Selecting, Evaluated, Pool, Members,
      NoBatch

(* Every step keeps the race fair.                                         *)
LEMMA RaceNext == TypeInv /\ RaceInv /\ [Next]_vars => RaceInv'
<1> SUFFICES ASSUME TypeInv, RaceInv, [Next]_vars PROVE RaceInv'
  OBVIOUS
<1> USE DEF config, proposals, candidates, smoke, choice, tests
<1>1. CASE Propose
  <2>1. key' = key /\ Evaluated = {}
    BY <1>1 DEF Propose, RaceInv
  <2>2. stage' \in {"failed", "selection_baseline"}
    BY <1>1 DEF Propose, Abort, Goto
  <2> QED
    BY <2>1, <2>2
    DEF RaceInv, SmokeFilterPerBatch, Selecting, Evaluated
<1>2. CASE SelectionBaseline
  <2>1. CASE stage' = "failed"
    BY <1>2, <2>1, RaceRests DEF SelectionBaseline, Selecting
  <2>2. CASE stage' # "failed"
    <3>1. /\ batch' = arrival /\ pending' = alive /\ Evaluated = {}
          /\ UNCHANGED <<key, arrival, smoked, passed>>
          /\ stage' = IF Calls["smoke"] > 0 THEN "smoke" ELSE "selection"
      BY <1>2, <2>2
      DEF SelectionBaseline, Abort, Goto, StartBatch, RaceInv
    <3>2. alive \subseteq Pool /\ Evaluated' = {} /\ Pool' = Pool
      BY <3>1 DEF TypeInv, TypeOK, BatchTypeOK, Evaluated, Pool, Members
    <3> QED
      BY <3>1, <3>2 DEF RaceInv, SmokeFilterPerBatch, Selecting, Evaluated
  <2> QED BY <2>1, <2>2
<1>3. ASSUME NEW s \in Schemas, Smoke(s) \/ ReflectSmoke(s)
      PROVE  RaceInv'
  BY <1>3, RaceSmokes DEF Smoke, ReflectSmoke
<1>4. CASE SmokeEnd
  <2>1. CASE stage' = "failed"
    BY <1>4, <2>1, RaceRests DEF SmokeEnd, Selecting
  <2>2. CASE stage' # "failed"
    <3>1. /\ pending' = Survivors(alive) /\ Evaluated = {}
          /\ stage' = "selection"
          /\ UNCHANGED <<key, arrival, smoked, passed>>
      BY <1>4, <2>2 DEF SmokeEnd, Abort, Goto, StartBatch, RaceInv
    <3>2. alive \subseteq Pool /\ Evaluated' = {} /\ Pool' = Pool
      BY <3>1 DEF TypeInv, TypeOK, BatchTypeOK, Evaluated, Pool, Members
    <3>3. /\ Survivors(alive) \subseteq alive
          /\ Survivors(alive) \subseteq passed \/ smoked = {}
      BY DEF Survivors
    <3>4. SmokeFilterPerBatch'
      BY <3>2 DEF SmokeFilterPerBatch, Evaluated, Members
    <3>5. pending' \subseteq Pool' \ Evaluated'
      BY <3>1, <3>2, <3>3
    <3>6. pending' \subseteq passed' \/ smoked' = {}
      BY <3>1, <3>3
    <3> QED BY <3>1, <3>2, <3>4, <3>5, <3>6 DEF RaceInv, Selecting
  <2> QED BY <2>1, <2>2
<1>5. ASSUME NEW s \in Schemas, Select(s)
      PROVE  RaceInv'
  <2>1. /\ stage \in Selecting /\ s \in pending /\ pending' = pending \ {s}
        /\ \E k \in Keys : key' = [key EXCEPT ![s] = k]
        /\ UNCHANGED <<stage, arrival, batch, smoked, passed>>
    BY <1>5 DEF Select, Selecting, EvaluateFirst, IsFirst
  <2>2. Evaluated' = Evaluated \cup {s}
    BY <2>1, SchemasAssumption
    DEF Evaluated, TypeInv, TypeOK, ResultTypeOK
  <2>3. \A t \in Schemas : t # s => key'[t] = key[t]
    BY <2>1 DEF TypeInv, TypeOK, ResultTypeOK
  <2>4. Pool' = Pool /\ Members(batch)' = Members(batch)
    BY <2>1 DEF Pool, Members
  <2>5. SmokeFilterPerBatch'
    BY <2>1, <2>3, <2>4
    DEF RaceInv, SmokeFilterPerBatch, Selecting, Members
  <2>6. pending' \subseteq Pool' \ Evaluated' /\ Evaluated' \subseteq Pool'
    BY <2>1, <2>2, <2>4 DEF RaceInv
  <2> QED BY <2>1, <2>5, <2>6 DEF RaceInv, Selecting
<1>6. CASE ReflectPropose
  <2>1. PICK b \in Proposals(PerRound) :
          LET new == NewSchemas(StaticFilter(b)) IN
          /\ StartBatch(new, Members(new))
          /\ IF Members(new) = {}
             THEN Goto("reflect") /\ UNCHANGED candidates
             ELSE IF Calls["smoke"] > 0
                  THEN Goto("reflect_smoke") /\ UNCHANGED candidates
                  ELSE Goto("reflect_selection") /\ JoinPool(Members(new))
    BY <1>6 DEF ReflectPropose
  <2>2. /\ key' = key /\ smoked' = {} /\ passed' = {}
        /\ batch' = NewSchemas(StaticFilter(b)) /\ pending' = Members(batch')
    BY <1>6, <2>1 DEF ReflectPropose, StartBatch
  <2>3. Members(batch') \cap Pool = {}
    BY <2>2 DEF NewSchemas, Members
  <2>4. CASE stage' = "reflect"
    BY <2>1, <2>2, <2>4, RaceRests DEF Goto, Selecting
  <2>5. CASE stage' = "reflect_smoke"
    <3>1. UNCHANGED arrival
      BY <2>1, <2>5 DEF Goto
    <3>2. Pool' = Pool /\ Evaluated' = Evaluated
      BY <2>2, <3>1 DEF Pool, Members, Evaluated
    <3> QED
      BY <2>2, <2>3, <2>5, <3>2
      DEF RaceInv, SmokeFilterPerBatch, Selecting, Members
  <2>6. CASE stage' = "reflect_selection"
    <3>1. JoinPool(Members(batch')) /\ ~(Calls["smoke"] > 0)
      BY <2>1, <2>2, <2>6 DEF Goto
    <3>2. Pool' = Pool \cup Members(batch')
      BY <3>1 DEF JoinPool, Pool, Members
    <3>3. Evaluated' = Evaluated /\ Evaluated \subseteq Pool
      BY <2>2 DEF Evaluated, RaceInv
    <3> QED
      BY <2>2, <2>3, <2>6, <3>1, <3>2, <3>3
      DEF RaceInv, SmokeFilterPerBatch, Selecting
  <2> QED BY <2>1, <2>4, <2>5, <2>6 DEF Goto
<1>7. CASE ReflectSmokeEnd
  <2> DEFINE who == Survivors(Members(batch))
  <2>1. /\ stage = "reflect_smoke" /\ batch' = batch /\ pending' = who
        /\ UNCHANGED <<key, smoked, passed>>
        /\ IF who = {} THEN Goto("reflect") /\ UNCHANGED candidates
           ELSE Goto("reflect_selection") /\ JoinPool(who)
    BY <1>7 DEF ReflectSmokeEnd, StartBatch
  <2>2. who \subseteq Members(batch') /\ (who \subseteq passed \/ smoked = {})
    BY <2>1 DEF Survivors, Members
  <2>3. Members(batch') \cap Pool = {} /\ batch' \in Batch
    BY <2>1 DEF RaceInv, Members, TypeInv, TypeOK, BatchTypeOK
  <2>4. CASE stage' = "reflect"
    BY <2>1, <2>4, RaceRests DEF Goto, Selecting
  <2>5. CASE stage' = "reflect_selection"
    <3>1. JoinPool(who)
      BY <2>1, <2>5 DEF Goto
    <3> HIDE DEF who
    <3> QED BY <2>1, <2>2, <2>3, <2>5, <3>1, RaceJoins
  <2> QED BY <2>1, <2>4, <2>5 DEF Goto
<1>8. CASE SelectEnd \/ ReflectEnd \/ Rank \/ ConfirmationBaseline
           \/ ConfirmEnd \/ HeldoutBaseline \/ HeldoutPrimary \/ Finish
           \/ Raise
  <2>1. /\ UNCHANGED <<key, arrival>>
        /\ stage' \notin Selecting \cup {"propose", "selection_baseline",
                                         "smoke", "reflect_smoke"}
    BY <1>8
    DEF SelectEnd, ReflectEnd, Rank, ConfirmationBaseline, ConfirmEnd,
        HeldoutBaseline, HeldoutPrimary, Finish, Raise, Abort, Goto, Selecting
  <2> QED BY <2>1, RaceRests
<1>9. CASE Ablate \/ \E s \in Schemas : Confirm(s)
  <2>1. UNCHANGED <<key, arrival>> /\ stage' \in {"confirmation", "ablation"}
    BY <1>9 DEF Confirm, Ablate
  <2> QED BY <2>1, RaceRests DEF Selecting
<1>10. CASE UNCHANGED vars
  BY <1>10
  DEF vars, RaceInv, SmokeFilterPerBatch, Evaluated, Pool, Members
<1> QED
  BY <1>1, <1>2, <1>3, <1>4, <1>5, <1>6, <1>7, <1>8, <1>9, <1>10
  DEF Next, Step, Returned, EvaluateCandidate

-----------------------------------------------------------------------------
(* What is decided, and when *)

Later == {"heldout_baseline", "heldout_primary", "ablation", "done"}

(* The stages at which the primary is known, up to the decision.           *)
Committed == {"confirmation_baseline", "confirmation"} \cup Later

(* No later split is opened before the primary is known; from then on the  *)
(* primary is the best of all results, the first to be confirmed, and the  *)
(* only one to be tested on the held-out split.                            *)
ChoiceInv ==
  /\ stage \in SearchStages =>
       heldout = NoSchema /\ baselines \subseteq {"selection"}
  /\ stage \in SearchStages \ {"confirmation_baseline"} => primary = NoSchema
  /\ stage \notin {"propose", "selection_baseline", "failed"} =>
       "selection" \in baselines
  /\ stage \in Committed =>
       IsBest(primary, Evaluated) /\ heldout \in {primary, NoSchema}
  /\ stage = "confirmation_baseline" => primary \in top
  /\ stage = "confirmation" =>
       primary \in confirmed \/ (confirmed = {} /\ primary \in pending)
  /\ stage \in Later => primary \in confirmed
  /\ stage \in {"confirmation"} \cup Later => "confirmation" \in baselines
  /\ stage \notin Final => outcome = "none"
  /\ outcome = "proceed" => primary \in meets /\ ablated > 0

(* Better is a strict order: of two, one only is better.                   *)
LEMMA OneIsBest ==
  ASSUME TypeInv, NEW s, NEW S, IsBest(s, S), S \subseteq Evaluated,
         NEW t, IsBest(t, Evaluated), t \in S
  PROVE  s = t
<1> SUFFICES ASSUME s # t PROVE FALSE
  OBVIOUS
<1>1. Better(s, t) /\ Better(t, s)
  BY DEF IsBest
<1>2. s \in Evaluated /\ t \in Evaluated
  BY DEF IsBest
<1>3. \A x \in Evaluated : x \in Nat /\ key[x] \in Int
  BY SchemasAssumption DEF Evaluated, TypeInv, TypeOK, ResultTypeOK
<1> QED BY <1>1, <1>2, <1>3 DEF Better

(* A run that fails keeps nothing but what the failed stage may have.      *)
LEMMA ChoiceFails ==
  ASSUME stage' = "failed", outcome' # "proceed"
  PROVE  ChoiceInv'
  BY DEF ChoiceInv, SearchStages, Committed, Later, Final

(* A step of the search before the ranking.                                *)
LEMMA ChoiceWaits ==
  ASSUME TypeInv, ChoiceInv, stage \in SearchStages, stage' \in SearchStages,
         "confirmation_baseline" \notin {stage, stage'},
         UNCHANGED <<primary, heldout, outcome, meets, ablated>>,
         \/ baselines' = baselines
              /\ (stage \in {"propose", "selection_baseline"} =>
                    stage' \in {"propose", "selection_baseline"})
         \/ baselines' = baselines \cup {"selection"}
  PROVE  ChoiceInv'
  BY DEF ChoiceInv, SearchStages, Committed, Later, Final

(* Nothing is decided in the beginning.                                    *)
LEMMA ChoiceInit == Init => ChoiceInv
  BY DEF Init, ChoiceInv, SearchStages, Committed, Later, Final

(* Every step keeps what is decided.                                       *)
LEMMA ChoiceNext == TypeInv /\ ChoiceInv /\ [Next]_vars => ChoiceInv'
<1> SUFFICES ASSUME TypeInv, ChoiceInv, [Next]_vars PROVE ChoiceInv'
  OBVIOUS
<1> USE DEF config, proposals, candidates, smoke, choice, tests
<1>1. CASE stage' = "failed" /\ stage # "failed"
  <2>1. outcome' # "proceed"
    BY <1>1
    DEF Next, Step, Returned, EvaluateCandidate, Propose, SelectionBaseline,
        SmokeEnd, SelectEnd, ReflectPropose, ReflectSmokeEnd, ReflectEnd, Rank,
        ConfirmationBaseline, ConfirmEnd, HeldoutBaseline, HeldoutPrimary,
        Ablate, Finish, Raise, Smoke, Select, ReflectSmoke, Confirm, vars,
        Abort, Goto
  <2> QED BY <1>1, <2>1, ChoiceFails
<1>2. CASE UNCHANGED vars
  BY <1>2 DEF vars, ChoiceInv, IsBest, Better, Evaluated
<1>3. CASE Propose /\ stage' # "failed"
  BY <1>3, ChoiceWaits DEF Propose, Abort, Goto, SearchStages
<1>4. CASE SelectionBaseline /\ stage' # "failed"
  BY <1>4, ChoiceWaits
  DEF SelectionBaseline, Baseline, Abort, Goto, SearchStages
<1>5. ASSUME NEW s \in Schemas, Smoke(s) \/ Select(s) \/ ReflectSmoke(s)
      PROVE  ChoiceInv'
  BY <1>5, ChoiceWaits DEF Smoke, Select, ReflectSmoke, SearchStages
<1>6. CASE SmokeEnd /\ stage' # "failed"
  BY <1>6, ChoiceWaits DEF SmokeEnd, Abort, Goto, SearchStages
<1>7. CASE SelectEnd \/ ReflectPropose \/ ReflectSmokeEnd \/ ReflectEnd
  BY <1>7, ChoiceWaits
  DEF SelectEnd, ReflectPropose, ReflectSmokeEnd, ReflectEnd, Goto,
      SearchStages
<1>8. CASE Rank /\ stage' # "failed"
  <2>1. PICK s \in Evaluated : IsBest(s, Evaluated) /\ primary' = s
    BY <1>8 DEF Rank, Abort
  <2>2. /\ stage = "rank" /\ stage' = "confirmation_baseline"
        /\ top' = TopK(Evaluated, TopKConfirmation)
        /\ UNCHANGED <<key, heldout, baselines, outcome>>
    BY <1>8 DEF Rank, Abort, Goto
  <2>3. primary' \in top'
    BY <2>1, <2>2, BestIsOnTop
  <2>4. IsBest(primary, Evaluated)'
    BY <2>1, <2>2 DEF IsBest, Better, Evaluated
  <2>5. heldout = NoSchema /\ baselines \subseteq {"selection"}
        /\ "selection" \in baselines /\ outcome = "none"
    BY <2>2 DEF ChoiceInv, SearchStages, Final
  <2> QED
    BY <2>2, <2>3, <2>4, <2>5
    DEF ChoiceInv, SearchStages, Committed, Later, Final
<1>9. CASE ConfirmationBaseline /\ stage' # "failed"
  <2>1. /\ stage = "confirmation_baseline" /\ stage' = "confirmation"
        /\ pending' = top /\ baselines' = baselines \cup {"confirmation"}
        /\ UNCHANGED <<key, primary, heldout, outcome, confirmed>>
    BY <1>9 DEF ConfirmationBaseline, Baseline, Abort, Goto
  <2>2. confirmed = {}
    BY <2>1 DEF TypeInv, ControlInv, StageInv, SearchStages
  <2>3. IsBest(primary, Evaluated)'
    BY <2>1 DEF ChoiceInv, Committed, IsBest, Better, Evaluated
  <2> QED
    BY <2>1, <2>2, <2>3
    DEF ChoiceInv, SearchStages, Committed, Later, Final
<1>10. ASSUME NEW s \in Schemas, Confirm(s)
       PROVE  ChoiceInv'
  <2>1. /\ stage = "confirmation" /\ stage' = stage
        /\ IsBest(s, pending) /\ confirmed' = confirmed \cup {s}
        /\ UNCHANGED <<key, primary, heldout, outcome, baselines>>
    BY <1>10 DEF Confirm
  <2>2. pending \subseteq Evaluated
    BY <2>1 DEF TypeInv, TypeOK, ResultTypeOK, ControlInv, StageInv
  <2>3. IsBest(primary, Evaluated)
    BY <2>1 DEF ChoiceInv, Committed
  <2>4. primary \in confirmed'
    <3>1. CASE primary \in confirmed
      BY <2>1, <3>1
    <3>2. CASE primary \in pending
      BY <2>1, <2>2, <2>3, <3>2, OneIsBest
    <3> QED BY <2>1, <3>1, <3>2 DEF ChoiceInv
  <2>5. IsBest(primary, Evaluated)'
    BY <2>1, <2>3 DEF IsBest, Better, Evaluated
  <2> QED
    BY <2>1, <2>4, <2>5
    DEF ChoiceInv, SearchStages, Committed, Later, Final
<1>11. CASE ConfirmEnd /\ stage' # "failed"
  <2>1. /\ stage = "confirmation" /\ stage' \in {"heldout_baseline", "ablation"}
        /\ confirmed # {}
        /\ UNCHANGED <<key, primary, heldout, outcome, baselines, confirmed>>
    BY <1>11 DEF ConfirmEnd, Abort, Goto
  <2>2. IsBest(primary, Evaluated)'
    BY <2>1 DEF ChoiceInv, Committed, IsBest, Better, Evaluated
  <2>3. /\ primary \in confirmed /\ heldout \in {primary, NoSchema}
        /\ "selection" \in baselines /\ "confirmation" \in baselines
        /\ outcome = "none"
    BY <2>1 DEF ChoiceInv, Committed, Later, Final
  <2> QED
    BY <2>1, <2>2, <2>3 DEF ChoiceInv, SearchStages, Committed, Later, Final
<1>12. CASE (HeldoutBaseline \/ HeldoutPrimary) /\ stage' # "failed"
  <2>1. /\ stage \in {"heldout_baseline", "heldout_primary"}
        /\ stage' \in {"heldout_primary", "ablation"}
        /\ UNCHANGED <<key, primary, outcome, confirmed>>
        /\ baselines \subseteq baselines' /\ heldout' \in {heldout, primary}
    BY <1>12
    DEF HeldoutBaseline, HeldoutPrimary, Baseline, Abort, Goto
  <2>2. IsBest(primary, Evaluated)'
    BY <2>1 DEF ChoiceInv, Committed, Later, IsBest, Better, Evaluated
  <2>3. /\ primary \in confirmed /\ heldout' \in {primary, NoSchema}
        /\ "selection" \in baselines /\ "confirmation" \in baselines
        /\ outcome = "none"
    BY <2>1 DEF ChoiceInv, Committed, Later, Final
  <2> QED
    BY <2>1, <2>2, <2>3 DEF ChoiceInv, SearchStages, Committed, Later, Final
<1>13. CASE Ablate \/ Finish
  <2>1. /\ stage = "ablation" /\ stage' \in {"ablation", "done"}
        /\ UNCHANGED <<key, primary, heldout, confirmed, baselines>>
    BY <1>13 DEF Ablate, Finish
  <2>2. IsBest(primary, Evaluated)'
    BY <2>1 DEF ChoiceInv, Committed, Later, IsBest, Better, Evaluated
  <2>3. /\ stage' = "ablation" => outcome' = outcome
        /\ outcome' = "proceed" =>
             outcome = "proceed" \/ (primary' \in meets' /\ ablated' > 0)
    BY <1>13 DEF Ablate, Finish, Decision
  <2>4. outcome = "none"
    BY <2>1 DEF ChoiceInv, Final
  <2> QED
    BY <2>1, <2>2, <2>3, <2>4
    DEF ChoiceInv, SearchStages, Committed, Later, Final
<1>14. CASE Raise
  BY <1>1, <1>14 DEF Raise, Abort, Final
<1>15. stage = "failed" => UNCHANGED vars
  BY DEF Next, Step, Returned, EvaluateCandidate, Propose, SelectionBaseline,
         SmokeEnd, SelectEnd, ReflectPropose, ReflectSmokeEnd, ReflectEnd,
         Rank, ConfirmationBaseline, ConfirmEnd, HeldoutBaseline,
         HeldoutPrimary, Ablate, Finish, Raise, Smoke, Select, ReflectSmoke,
         Confirm, Final
<1> QED
  BY <1>1, <1>2, <1>3, <1>4, <1>5, <1>6, <1>7, <1>8, <1>9, <1>10, <1>11,
     <1>12, <1>13, <1>14, <1>15
  DEF Next, Step, Returned, EvaluateCandidate

(* Types, race and choice.                                                 *)
DriverInv == TypeInv /\ RaceInv /\ ChoiceInv

(* All three parts hold in every state of every run.                       *)
LEMMA DriverAlways == Spec => []DriverInv
  BY TypeInvInit, TypeInvNext, RaceInit, RaceNext, ChoiceInit, ChoiceNext, PTL
  DEF Spec, DriverInv

(* The decision is about the candidate the selection ranked first among    *)
(* those the smoke filter let through, which was confirmed and ablated     *)
(* itself, whoever did better on the confirmation split                    *)
(* (_make_decision, select_top_k_by_lcb).                                  *)
THEOREM DecisionHolds == Spec => []DecisionIsAboutPrimary
<1>1. DriverInv => DecisionIsAboutPrimary
  BY DEF DriverInv, RaceInv, ChoiceInv, DecisionIsAboutPrimary, Committed,
         Later, IsBest
<1> QED BY <1>1, DriverAlways, PTL

(* A step of the driver keeps every selection result, and keeps the        *)
(* ranking once a later split has been opened.                             *)
LEMMA ResultsStay ==
  DriverInv /\ [Next]_vars =>
    /\ \A s \in Schemas : key[s] # NoKey => key'[s] = key[s]
    /\ baselines \cap {"confirmation", "heldout"} # {} =>
         UNCHANGED <<key, top, primary, alive, arrival>>
<1> SUFFICES ASSUME DriverInv, [Next]_vars
             PROVE  /\ \A s \in Schemas : key[s] # NoKey => key'[s] = key[s]
                    /\ baselines \cap {"confirmation", "heldout"} # {} =>
                         UNCHANGED <<key, top, primary, alive, arrival>>
  OBVIOUS
<1> USE DEF config, proposals, candidates, smoke, choice, tests
<1>1. CASE \E s \in Schemas : Select(s)
  <2>1. PICK s \in Schemas : Select(s)
    BY <1>1
  <2>2. /\ stage \in Selecting /\ s \in pending
        /\ \E k \in Keys : key' = [key EXCEPT ![s] = k]
    BY <2>1 DEF Select, Selecting, EvaluateFirst, IsFirst
  <2>3. key[s] = NoKey
    BY <2>2 DEF DriverInv, RaceInv, Evaluated
  <2>4. \A t \in Schemas : t # s => key'[t] = key[t]
    BY <2>2 DEF DriverInv, TypeInv, TypeOK, ResultTypeOK
  <2>5. baselines \subseteq {"selection"}
    BY <2>2 DEF DriverInv, ChoiceInv, SearchStages, Selecting
  <2> QED BY <2>3, <2>4, <2>5
<1>2. CASE ~(\E s \in Schemas : Select(s))
  <2>1. key' = key
    BY <1>2
    DEF Next, Step, Returned, EvaluateCandidate, Propose, SelectionBaseline,
        SmokeEnd, SelectEnd, ReflectPropose, ReflectSmokeEnd, ReflectEnd, Rank,
        ConfirmationBaseline, ConfirmEnd, HeldoutBaseline, HeldoutPrimary,
        Ablate, Finish, Raise, Smoke, ReflectSmoke, Confirm, vars
  <2>2. CASE stage \in SearchStages
    <3>1. baselines \subseteq {"selection"}
      BY <2>2 DEF DriverInv, ChoiceInv
    <3> QED BY <2>1, <3>1
  <2>3. CASE stage \notin SearchStages
    <3>1. UNCHANGED <<key, top, primary, alive, arrival>>
      BY <1>2, <2>3
      DEF SearchStages, Next, Step, Returned, EvaluateCandidate, Propose,
          SelectionBaseline, SmokeEnd, SelectEnd, ReflectPropose,
          ReflectSmokeEnd, ReflectEnd, Rank, ConfirmationBaseline, ConfirmEnd,
          HeldoutBaseline, HeldoutPrimary, Ablate, Finish, Raise, Smoke,
          ReflectSmoke, Confirm, vars
    <3> QED BY <2>1, <3>1
  <2> QED BY <2>2, <2>3
<1> QED BY <1>1, <1>2

(* A schema that has a selection result is never selected again, and the   *)
(* ranking is final once confirmation data have been seen                  *)
(* (_run_reflection_rounds, run_fixed_pool_schema_mvp).                    *)
THEOREM ResultsAreFinalHolds == Spec => ResultsAreFinal
  BY DriverAlways, ResultsStay, PTL DEF Spec, ResultsAreFinal

-----------------------------------------------------------------------------
(* FixedPool implements StagedProtocol *)

(* Where a run is in the protocol.                                         *)
LEMMA PhaseIs ==
  /\ stage = "failed" => PhaseOf = "aborted"
  /\ stage = "done" => PhaseOf = "reported"
  /\ stage \notin Final /\ primary = NoSchema => PhaseOf = "search"
  /\ stage \notin Final /\ primary # NoSchema => PhaseOf = "committed"
  BY DEF PhaseOf, Final

(* The phases of the stages.                                               *)
LEMMA PhaseOfStage ==
  ASSUME DriverInv
  PROVE  /\ stage \in SearchStages \ {"confirmation_baseline"} =>
              PhaseOf = "search"
         /\ stage \in Committed \ {"done"} =>
              PhaseOf = "committed" /\ primary \in Schemas
         /\ stage = "done" => PhaseOf = "reported"
         /\ stage = "failed" => PhaseOf = "aborted"
<1>1. stage \in SearchStages \ {"confirmation_baseline"} => PhaseOf = "search"
  BY PhaseIs DEF DriverInv, ChoiceInv, SearchStages, Final
<1>2. ASSUME stage \in Committed \ {"done"}
      PROVE  PhaseOf = "committed" /\ primary \in Schemas
  <2>1. primary \in Schemas /\ primary # NoSchema
    BY <1>2, SchemasAssumption DEF DriverInv, ChoiceInv, IsBest, Evaluated
  <2> QED BY <1>2, <2>1, PhaseIs DEF Committed, Later, Final
<1> QED BY <1>1, <1>2, PhaseIs

(* The same after a step.                                                  *)
LEMMA PhaseOfNextStage ==
  ASSUME DriverInv'
  PROVE  /\ stage' \in SearchStages \ {"confirmation_baseline"} =>
              PhaseOf' = "search"
         /\ stage' \in Committed \ {"done"} =>
              PhaseOf' = "committed" /\ primary' \in Schemas
         /\ stage' = "done" => PhaseOf' = "reported"
         /\ stage' = "failed" => PhaseOf' = "aborted"
<1>1. /\ stage' = "failed" => PhaseOf' = "aborted"
      /\ stage' = "done" => PhaseOf' = "reported"
      /\ stage' \notin Final /\ primary' = NoSchema => PhaseOf' = "search"
      /\ stage' \notin Final /\ primary' # NoSchema => PhaseOf' = "committed"
  BY DEF PhaseOf, Final
<1>2. stage' \in SearchStages \ {"confirmation_baseline"} => PhaseOf' = "search"
  BY <1>1 DEF DriverInv, ChoiceInv, SearchStages, Final
<1>3. ASSUME stage' \in Committed \ {"done"}
      PROVE  PhaseOf' = "committed" /\ primary' \in Schemas
  <2>1. primary' \in Schemas /\ primary' # NoSchema
    BY <1>3, SchemasAssumption DEF DriverInv, ChoiceInv, IsBest, Evaluated
  <2> QED BY <1>1, <1>3, <2>1 DEF Committed, Later, Final
<1> QED BY <1>1, <1>2, <1>3

(* The verdict of the refinement mapping.                                  *)
VerdictOf == IF stage = "done" THEN outcome ELSE "none"

(* The run begins where the protocol does.                                 *)
LEMMA StagedInit == Init => Staged!ProtocolInit
  BY PhaseIs DEF Init, Staged!ProtocolInit, OpenedSplits, Final

(* Every step of the driver is a step of the protocol or none.             *)
LEMMA StagedStep ==
  DriverInv /\ DriverInv' /\ [Next]_vars
    => [Staged!ProtocolNext]_(Staged!pvars)
<1> SUFFICES ASSUME DriverInv, DriverInv', [Next]_vars
             PROVE  \/ Staged!ProtocolNext
                    \/ UNCHANGED <<PhaseOf, primary, OpenedSplits, VerdictOf>>
  BY DEF Staged!pvars, VerdictOf
<1> USE DEF config, proposals, candidates, smoke, choice, tests
<1>1. CASE UNCHANGED vars
  BY <1>1 DEF vars, PhaseOf, OpenedSplits, VerdictOf
<1>2. CASE stage \notin Final /\ stage' = "failed"
  <2>1. UNCHANGED <<primary, baselines, confirmed, heldout>>
    BY <1>2
    DEF Next, Step, Returned, EvaluateCandidate, Propose, SelectionBaseline,
        SmokeEnd, SelectEnd, ReflectPropose, ReflectSmokeEnd, ReflectEnd, Rank,
        ConfirmationBaseline, ConfirmEnd, HeldoutBaseline, HeldoutPrimary,
        Ablate, Finish, Raise, Smoke, Select, ReflectSmoke, Confirm, vars,
        Abort, Goto, Final
  <2>2. UNCHANGED <<OpenedSplits, VerdictOf>>
    BY <1>2, <2>1 DEF OpenedSplits, VerdictOf, Final
  <2>3. PhaseOf \in {"search", "committed"} /\ PhaseOf' = "aborted"
    BY <1>2, PhaseIs, PhaseOfNextStage
  <2> QED BY <2>1, <2>2, <2>3 DEF Staged!ProtocolNext, Staged!AbortRun, VerdictOf
<1>3. CASE /\ stage \in SearchStages \ {"confirmation_baseline"}
           /\ stage' \in SearchStages \ {"confirmation_baseline"}
  <2>1. PhaseOf = "search" /\ PhaseOf' = "search"
    BY <1>3, PhaseOfStage, PhaseOfNextStage
  <2>2. UNCHANGED primary /\ baselines \subseteq baselines'
    BY <1>3
    DEF Next, Step, Returned, EvaluateCandidate, Propose, SelectionBaseline,
        SmokeEnd, SelectEnd, ReflectPropose, ReflectSmokeEnd, ReflectEnd, Rank,
        ConfirmationBaseline, ConfirmEnd, HeldoutBaseline, HeldoutPrimary,
        Ablate, Finish, Raise, Smoke, Select, ReflectSmoke, Confirm, vars,
        Baseline, Abort, Goto, SearchStages, Final
  <2>3. /\ OpenedSplits = baselines /\ OpenedSplits' = baselines'
        /\ baselines' \subseteq {"selection"}
    BY <1>3
    DEF OpenedSplits, DriverInv, ChoiceInv, TypeInv, ControlInv, StageInv
  <2>4. UNCHANGED VerdictOf
    BY <1>3 DEF VerdictOf, SearchStages
  <2> QED
    BY <2>1, <2>2, <2>3, <2>4
    DEF Staged!ProtocolNext, Staged!Explore, Staged!SearchSplits, VerdictOf
<1>4. CASE Rank /\ stage' # "failed"
  <2>1. /\ stage = "rank" /\ stage' = "confirmation_baseline"
        /\ UNCHANGED <<baselines, confirmed, heldout>>
    BY <1>4 DEF Rank, Abort, Goto
  <2>2. PhaseOf = "search" /\ PhaseOf' = "committed" /\ primary' \in Schemas
    BY <2>1, PhaseOfStage, PhaseOfNextStage
    DEF SearchStages, Committed, Later
  <2>3. "selection" \in OpenedSplits
    BY <2>1 DEF DriverInv, ChoiceInv, OpenedSplits
  <2>4. UNCHANGED <<OpenedSplits, VerdictOf>>
    BY <2>1 DEF OpenedSplits, VerdictOf
  <2> QED
    BY <2>2, <2>3, <2>4 DEF Staged!ProtocolNext, Staged!Commit, VerdictOf
<1>5. CASE /\ stage \in Committed \ {"done"} /\ stage' \in Committed \ {"done"}
           /\ \/ UNCHANGED <<OpenedSplits, primary>>
              \/ /\ UNCHANGED primary
                 /\ OpenedSplits' = OpenedSplits \cup {"confirmation"}
              \/ /\ UNCHANGED primary /\ "confirmation" \in OpenedSplits
                 /\ OpenedSplits' = OpenedSplits \cup {"heldout"}
  <2>1. PhaseOf = "committed" /\ PhaseOf' = "committed"
    BY <1>5, PhaseOfStage, PhaseOfNextStage
  <2>2. UNCHANGED VerdictOf
    BY <1>5 DEF VerdictOf
  <2> QED
    BY <1>5, <2>1, <2>2
    DEF Staged!ProtocolNext, Staged!OpenConfirmation, Staged!OpenHeldout,
        VerdictOf
<1>6. CASE ConfirmationBaseline /\ stage' # "failed"
  <2>1. /\ stage = "confirmation_baseline" /\ stage' = "confirmation"
        /\ baselines' = baselines \cup {"confirmation"}
        /\ UNCHANGED <<primary, confirmed, heldout>>
    BY <1>6 DEF ConfirmationBaseline, Baseline, Abort, Goto
  <2>2. OpenedSplits' = OpenedSplits \cup {"confirmation"}
    BY <2>1 DEF OpenedSplits
  <2> QED BY <1>5, <2>1, <2>2 DEF Committed, Later
<1>7. CASE \E s \in Schemas : Confirm(s)
  <2>1. /\ stage = "confirmation" /\ stage' = "confirmation"
        /\ confirmed' # {} /\ UNCHANGED <<primary, baselines, heldout>>
    BY <1>7 DEF Confirm
  <2>2. OpenedSplits' = OpenedSplits \cup {"confirmation"}
    BY <2>1 DEF OpenedSplits
  <2> QED BY <1>5, <2>1, <2>2 DEF Committed, Later
<1>8. CASE ConfirmEnd /\ stage' # "failed"
  <2>1. /\ stage = "confirmation" /\ stage' \in {"heldout_baseline", "ablation"}
        /\ UNCHANGED <<primary, baselines, confirmed, heldout>>
    BY <1>8 DEF ConfirmEnd, Abort, Goto
  <2>2. UNCHANGED OpenedSplits
    BY <2>1 DEF OpenedSplits
  <2> QED BY <1>5, <2>1, <2>2 DEF Committed, Later
<1>9. CASE HeldoutBaseline /\ stage' # "failed"
  <2>1. /\ stage = "heldout_baseline" /\ stage' = "heldout_primary"
        /\ baselines' = baselines \cup {"heldout"}
        /\ UNCHANGED <<primary, confirmed, heldout>>
    BY <1>9 DEF HeldoutBaseline, Baseline, Abort, Goto
  <2>2. OpenedSplits' = OpenedSplits \cup {"heldout"}
    BY <2>1 DEF OpenedSplits
  <2>3. "confirmation" \in OpenedSplits
    BY <2>1 DEF OpenedSplits, DriverInv, ChoiceInv, Later
  <2> QED BY <1>5, <2>1, <2>2, <2>3 DEF Committed, Later
<1>10. CASE HeldoutPrimary /\ stage' # "failed"
  <2>1. /\ stage = "heldout_primary" /\ stage' = "ablation"
        /\ heldout' = primary /\ UNCHANGED <<primary, baselines, confirmed>>
    BY <1>10 DEF HeldoutPrimary, Abort, Goto
  <2>2. primary # NoSchema
    BY <2>1, PhaseOfStage, SchemasAssumption DEF Committed, Later
  <2>3. OpenedSplits' = OpenedSplits \cup {"heldout"}
    BY <2>1, <2>2 DEF OpenedSplits
  <2>4. "confirmation" \in OpenedSplits
    BY <2>1 DEF OpenedSplits, DriverInv, ChoiceInv, Later
  <2> QED BY <1>5, <2>1, <2>3, <2>4 DEF Committed, Later
<1>11. CASE Ablate
  <2>1. /\ stage = "ablation" /\ stage' = "ablation"
        /\ UNCHANGED <<primary, baselines, confirmed, heldout>>
    BY <1>11 DEF Ablate
  <2>2. UNCHANGED OpenedSplits
    BY <2>1 DEF OpenedSplits
  <2> QED BY <1>5, <2>1, <2>2 DEF Committed, Later
<1>12. CASE Finish
  <2>1. /\ stage = "ablation" /\ stage' = "done"
        /\ outcome' \in {"proceed", "stop"}
        /\ UNCHANGED <<primary, baselines, confirmed, heldout>>
    BY <1>12 DEF Finish, Decision
  <2>2. PhaseOf = "committed" /\ PhaseOf' = "reported"
    BY <2>1, PhaseOfStage, PhaseOfNextStage DEF Committed, Later
  <2>3. UNCHANGED OpenedSplits /\ "confirmation" \in OpenedSplits
    BY <2>1 DEF OpenedSplits, DriverInv, ChoiceInv, Later
  <2>4. VerdictOf' \in {"proceed", "stop"}
    BY <2>1 DEF VerdictOf
  <2> QED
    BY <2>1, <2>2, <2>3, <2>4
    DEF Staged!ProtocolNext, Staged!ReportVerdict, VerdictOf
<1>13. CASE /\ stage' # "failed"
            /\ \/ Propose \/ SelectionBaseline \/ SmokeEnd \/ SelectEnd
               \/ ReflectPropose \/ ReflectSmokeEnd \/ ReflectEnd
               \/ \E s \in Schemas : Smoke(s) \/ Select(s) \/ ReflectSmoke(s)
  <2>1. /\ stage \in SearchStages \ {"confirmation_baseline"}
        /\ stage' \in SearchStages \ {"confirmation_baseline"}
    BY <1>13
    DEF Propose, SelectionBaseline, SmokeEnd, SelectEnd, ReflectPropose,
        ReflectSmokeEnd, ReflectEnd, Smoke, Select, ReflectSmoke, Abort, Goto,
        SearchStages
  <2> QED BY <1>3, <2>1
<1>14. CASE Raise
  BY <1>2, <1>14 DEF Raise, Abort
<1>15. stage \in Final => UNCHANGED vars
  BY DEF Next, Step, Returned, EvaluateCandidate, Propose, SelectionBaseline,
         SmokeEnd, SelectEnd, ReflectPropose, ReflectSmokeEnd, ReflectEnd,
         Rank, ConfirmationBaseline, ConfirmEnd, HeldoutBaseline,
         HeldoutPrimary, Ablate, Finish, Raise, Smoke, Select, ReflectSmoke,
         Confirm, Final
<1> QED
  BY <1>1, <1>2, <1>4, <1>6, <1>7, <1>8, <1>9, <1>10, <1>11, <1>12, <1>13,
     <1>14, <1>15
  DEF Next, Step, Returned, EvaluateCandidate

(* The driver keeps what StagedProtocol promises: splits are opened in     *)
(* order, one candidate is committed to before a later one is opened, and  *)
(* the verdict is about it (run_fixed_pool_schema_mvp).                    *)
THEOREM ProtocolImplemented == Spec => ImplementsStagedProtocol
<1>1. DriverInv /\ DriverInv' /\ [Next]_vars
        => [Staged!ProtocolNext]_(Staged!pvars)
  BY StagedStep
<1> QED
  BY <1>1, StagedInit, DriverAlways, PTL
  DEF Spec, ImplementsStagedProtocol, Staged!Protocol
=============================================================================
