-------------------------- MODULE MCComposability --------------------------
(* Three runs in one directory: a later one may find the file, or a living  *)
(* command, of an earlier one.                                              *)
EXTENDS Composability

CONSTANTS kept, changed

MCDemos          == {kept, changed}
MCOptimizerCalls == {2, 5}
=============================================================================
