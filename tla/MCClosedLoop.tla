---------------------------- MODULE MCClosedLoop ----------------------------
(* Values for the constants of ClosedLoop: an initial population of two     *)
(* good schemas and one (5) that fails the static checks, three generations *)
(* of mutants of one of them, which may be drawn again, and the result of a *)
(* merge (4).                                                               *)
EXTENDS ClosedLoop

MCSchemas    == 1 .. 8
MCPopulation == <<5, 1, 2>>
MCMutants    == [s \in MCSchemas |->
                   CASE s = 1 -> {3} [] s = 3 -> {6, 7} [] s = 6 -> {8}
                     [] OTHER -> {}]
MCMerges     == {4}
MCGrammarOK  == {1, 2, 3, 4, 6, 7, 8}
MCResources  == {"dollars"}

Point(k, lo, hi, d) ==
  [key |-> k, point |-> [lo |-> lo, hi |-> hi, use |-> [r \in {"dollars"} |-> d]]]

(* Incomparable, dominating and tying results. *)
MCScores == {Point(0, 0, 0, 0), Point(0, 0, 1, 1), Point(1, 1, 2, 1)}

Tokens(calls, p) ==
  [calls |-> calls, prompt |-> p, completion |-> 1, dollar |-> 1]

CallsOf(st, fu) == [stage |-> st, sample |-> fu, full |-> fu]

MCCallsHalving == CallsOf(1, 2)

(* The prompt of a schema program is longer than the base program's, that   *)
(* of schema 1 the longest: a cap may refuse it and allow the others.       *)
EstimateFor(calls) ==
  [x \in Batches |->
     [s \in Programs |-> Tokens(calls[x], CASE s = Base -> 1 [] s = 1 -> 4
                                            [] OTHER -> 2)]]
ActualFor(calls) == [x \in Batches |-> {Tokens(calls[x], 2)}]

MCEstimateHalving == EstimateFor(MCCallsHalving)
MCActualHalving   == ActualFor(MCCallsHalving)

Unlimited == [calls |-> NoLimit, prompt |-> NoLimit, completion |-> NoLimit,
              total |-> NoLimit, dollar |-> NoLimit]

MCLimits ==
  {Unlimited} \cup {[Unlimited EXCEPT !.calls = c] : c \in 0 .. 10}
    \cup {[Unlimited EXCEPT !.prompt = c] : c \in {5, 9}}
=============================================================================
