--------------------------- MODULE MCSchemaSearch ---------------------------
(* Values for the constants of SchemaSearch: three modules, a template with *)
(* an enum that is required and a string that is not, the minimal template  *)
(* with the enum only, and a random control with one optional field.        *)
EXTENDS SchemaSearch

MCModules == <<"planner", "reader", "answerer">>

Optional(n, type) ==
  [name |-> <<n>>, type |-> type, required |-> FALSE, producer |-> "planner",
   consumers |-> {"answerer"}, enum |-> {}]

MCKind   == [Optional("kind", "enum") EXCEPT !.required = TRUE, !.enum = {"yes_no", "bridge"}]
MCEntity == Optional("entity", "string")
MCSlot   == Optional("slot", "number")

Template(fields) ==
  [keys |-> <<"planner">>,
   fields |-> [m \in ToSet(MCModules) |-> IF m = "planner" THEN fields ELSE <<>>],
   rules |-> [i \in DOMAIN fields |->
                [consumer |-> "answerer", field |-> fields[i].name]],
   validators |-> [n \in {f.name : f \in ToSet(fields)} |-> [kind |-> "text", values |-> {}]]]

MCInitial == {Template(<<MCKind>>), Template(<<MCKind, MCEntity>>), Template(<<MCSlot>>)}
MCTwoLines == <<2, 1>>
MCTemplateFields == {MCKind, MCEntity}
=============================================================================
