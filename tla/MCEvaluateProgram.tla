------------------------- MODULE MCEvaluateProgram -------------------------
(* Three batches: a proposed pool with a duplicate for two workers; an      *)
(* evaluation by the driver that repeats an example of one of them, as a    *)
(* promotion repeats the examples of a halved batch; an ablation on an      *)
(* example that is in the cache by then.  The answers for b may differ, the *)
(* example on which evaluations meet; nothing else is ever compared with    *)
(* what a gives.                                                            *)
EXTENDS EvaluateProgram

CONSTANTS a, b, x, y, masked

MCKeys         == {a, b}
MCEvaluations  == 1 .. 4
MCKeysOf       == <<<<a>>, <<b>>, <<b>>, <<b>>>>
MCIntervention == <<None, None, None, masked>>
MCBatches      == <<<<1, 1, 2>>, <<3>>, <<4>>>>
MCPooled       == {1}
MCAnswers      == [k \in MCKeys |-> IF k = a THEN {x} ELSE {x, y}]
=============================================================================
