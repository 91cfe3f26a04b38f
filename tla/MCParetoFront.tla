--------------------------- MODULE MCParetoFront ---------------------------
(* Records over two resources: intervals within 0 .. 2, some without width, *)
(* and points that tie.                                                     *)
EXTENDS ParetoFront

MCResources == {"dollars", "latency"}

Record(i, lo, hi, d, l) ==
  [id |-> i,
   point |-> [lo |-> lo, hi |-> hi,
              use |-> [r \in MCResources |-> IF r = "dollars" THEN d ELSE l]]]

MCCandidates ==
  {Record(1, 0, 0, 1, 1), Record(2, 0, 0, 1, 1), Record(3, 0, 1, 1, 0),
   Record(4, 1, 1, 1, 1), Record(5, 1, 2, 0, 1), Record(6, 2, 2, 1, 1),
   Record(7, 2, 2, 0, 0), Record(8, 1, 1, 0, 1), Record(9, 0, 2, 1, 1)}
=============================================================================
