------------------------------ MODULE MCVerdict ------------------------------
(* Three schemas and one field.  Of a gain of 4 half points a drop of 2 is *)
(* half, of a gain of 8 it is not, but a drop of 3 is enough of any.  The  *)
(* p-values are ordered with the schemas, against them, and tied.          *)
EXTENDS Verdict

MCScores == {4, 8, 12}
MCDrops == {<<mask, 0, shuffle, 3>> : mask, shuffle \in {-1, 2, 3}}
MCPValues == {<<1, 2, 4>>, <<4, 2, 1>>, <<2, 4, 1>>, <<4, 4, 1>>, <<2, 3, 3>>,
              <<3, 3, 3>>}
=============================================================================
