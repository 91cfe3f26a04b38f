---------------------------- MODULE MCProgramRun ----------------------------
(* Values for the constants of ProgramRun: the planner owns a required and  *)
(* an optional field, the reader emits one of these names as an output of   *)
(* its own and owns a field, the answerer consumes.                         *)
EXTENDS ProgramRun

MCModules == <<"planner", "reader", "answerer">>

MCExamples == <<"e1", "e2", "e3">>

MCFieldsOf ==
  [planner |-> {"bridge"}, reader |-> {"passage"}, answerer |-> {}]

MCBaseOutputs ==
  [planner |-> {"plan"}, reader |-> {"bridge"}, answerer |-> {"answer"}]

MCInputFields ==
  [planner |-> {}, reader |-> {"plan"}, answerer |-> {"plan"}]

MCRules ==
  {[consumer |-> "answerer", field |-> n] : n \in {"bridge", "passage"}}

MCAblations ==
  [kind : {"mask", "blank", "shuffle"}, field : {"bridge", "passage"}]
    \cup {[kind |-> "disabled", field |-> "__all__"]}
=============================================================================
