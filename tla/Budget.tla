------------------------------- MODULE Budget -------------------------------
(***************************************************************************)
(* The arithmetic of BudgetTracker and BudgetLimits                        *)
(* (src/schemaevo/eval/cost_ledger.py): what has been spent, which caps    *)
(* are reached, and whether an evaluation with a known minimal cost may    *)
(* start.  A cap that Python leaves at None is NoLimit.  Dollars are       *)
(* counted in an indivisible unit, so that amounts are natural numbers.    *)
(***************************************************************************)
EXTENDS Integers

CONSTANT NoLimit

ASSUME NoLimitAssumption == NoLimit \notin Nat

Amount == [calls: Nat, prompt: Nat, completion: Nat, dollar: Nat]

Cap == Nat \cup {NoLimit}

BudgetLimits ==
  [calls: Cap, prompt: Cap, completion: Cap, total: Cap, dollar: Cap]

Nothing == [calls |-> 0, prompt |-> 0, completion |-> 0, dollar |-> 0]

Plus(a, b) ==
  [calls      |-> a.calls + b.calls,
   prompt     |-> a.prompt + b.prompt,
   completion |-> a.completion + b.completion,
   dollar     |-> a.dollar + b.dollar]

TotalTokens(a) == a.prompt + a.completion

Reached(x, cap) == cap # NoLimit /\ x >= cap

Fits(x, cap) == cap # NoLimit => x <= cap

(* BudgetTracker.exhausted: some cap is reached, not necessarily passed. *)
Exhausted(used, limits) ==
  \/ Reached(used.calls, limits.calls)
  \/ Reached(used.prompt, limits.prompt)
  \/ Reached(used.completion, limits.completion)
  \/ Reached(TotalTokens(used), limits.total)
  \/ Reached(used.dollar, limits.dollar)

(* A tracker that only asks whether a cap has been passed already.         *)
CanStartNow(used, limits, need) ==
  /\ Fits(used.calls, limits.calls)
  /\ Fits(used.prompt, limits.prompt)
  /\ Fits(used.completion, limits.completion)
  /\ Fits(TotalTokens(used), limits.total)
  /\ Fits(used.dollar, limits.dollar)

(* BudgetTracker.can_start: adding the minimal need passes no cap. *)
CanStart(used, limits, need) ==
  LET after == Plus(used, need) IN
  /\ Fits(after.calls, limits.calls)
  /\ Fits(after.prompt, limits.prompt)
  /\ Fits(after.completion, limits.completion)
  /\ Fits(TotalTokens(after), limits.total)
  /\ Fits(after.dollar, limits.dollar)

(* A gate that looks at the calls only.                                    *)
GateOnCalls(used, limits, need) == Fits(used.calls + need.calls, limits.calls)

(* _can_start_budget: the gate in front of every budgeted evaluation. *)
Gate(used, limits, need) ==
  /\ ~Exhausted(used, limits)
  /\ CanStart(used, limits, need)

(* Only the call cap is set: the configuration the reserves are made for. *)
OnlyCallsCapped(limits) ==
  /\ limits.prompt = NoLimit
  /\ limits.completion = NoLimit
  /\ limits.total = NoLimit
  /\ limits.dollar = NoLimit
=============================================================================
