----------------------------- MODULE MCFixedPool -----------------------------
(* Values for the constants of FixedPool: three schemas the proposer may    *)
(* come up with, one of which (2) has no evolved field, and a control (3).  *)
EXTENDS FixedPool

MCSchemas    == 1 .. 4
MCProposable == {1, 2, 4}
MCControls   == {3}
MCGrammarOK  == {1, 2, 3}
MCFields     == [s \in MCSchemas |-> IF s = 1 THEN 1 ELSE 0]
MCKeys       == {0, 1}

Tokens(calls, p, c) ==
  [calls |-> calls, prompt |-> p, completion |-> c, dollar |-> 2 * p + 3 * c]

CallsOf(sm, se, co, he) ==
  [smoke |-> sm, selection |-> se, confirmation |-> co, heldout |-> he]

MCCalls        == CallsOf(1, 2, 2, 1)
MCCallsTokens  == CallsOf(0, 2, 1, 1)

ExactEstimate(calls) == [x \in Splits |-> Tokens(calls[x], 1, 1)]

(* The prompts of later modules carry the outputs of earlier ones, which    *)
(* the estimate leaves out: an evaluation may cost more than estimated.     *)
ActualAbove(calls) ==
  [x \in Splits |-> {Tokens(calls[x], p, 1) : p \in {1, 2}}]

MCEstimate       == ExactEstimate(MCCalls)
MCActual         == ActualAbove(MCCalls)
MCEstimateTokens == ExactEstimate(MCCallsTokens)
MCActualTokens   == ActualAbove(MCCallsTokens)

MCProposalCosts == {Nothing, Tokens(0, 2, 1)}

Unlimited == [calls |-> NoLimit, prompt |-> NoLimit, completion |-> NoLimit,
              total |-> NoLimit, dollar |-> NoLimit]

(* From a cap that not even the baseline fits in to one nothing reaches.    *)
CallCaps ==
  {[Unlimited EXCEPT !.calls = c] : c \in (7 .. 13) \cup {15, 17, 20, 40}}

TokenCaps ==
  {[Unlimited EXCEPT !.prompt = c] : c \in {4, 6, 8, 11}}
    \cup {[Unlimited EXCEPT !.total = c] : c \in {5, 9, 14}}
    \cup {[Unlimited EXCEPT !.dollar = c] : c \in {12, 25}}
    \cup {[Unlimited EXCEPT !.completion = c, !.calls = 14] : c \in {5, 8}}

MCLimits == CallCaps \cup TokenCaps
=============================================================================
