---------------------------- MODULE MCProposals ----------------------------
(* Payloads of up to two proposals of up to two items; the items are a good *)
(* one, one of unknown modules, one of the name of the first and one that   *)
(* SchemaField refuses.                                                     *)
EXTENDS Proposals

MCModules == <<"planner", "reader", "answerer">>

Entity == [name |-> <<"entity">>, type |-> "string", required |-> TRUE,
           producer |-> "planner", consumers |-> {"reader", "answerer"},
           enum |-> {}, whole |-> TRUE]
Lost   == [Entity EXCEPT !.name = <<"kind">>, !.producer = Unknown,
                         !.consumers = {Unknown}]
Clash  == [Entity EXCEPT !.producer = "reader",
                         !.consumers = {"answerer", Unknown}]
NoEnum == [Entity EXCEPT !.name = <<"slot">>, !.type = "enum"]

Items == {Entity, Lost, Clash, NoEnum}

Lists == UNION {[1 .. k -> Items] : k \in 0 .. 2}

MCProposals ==
  {[wellformed |-> TRUE, items |-> list] : list \in Lists}
    \cup {[wellformed |-> FALSE, items |-> <<>>]}

MCResponses ==
  {[kind |-> "payload", proposals |-> p] :
     p \in UNION {[1 .. k -> MCProposals] : k \in 0 .. 2}}
    \cup {[kind |-> kind, proposals |-> <<>>] :
            kind \in {"exception", "no_text", "no_json"}}
=============================================================================
