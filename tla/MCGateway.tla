----------------------------- MODULE MCGateway -----------------------------
(***************************************************************************)
(* Two requests at once, two days of one month, limits that one request   *)
(* can reach and costs that pass them.                                     *)
(***************************************************************************)
EXTENDS Gateway

MCLists == {<<"openai">>, <<"mock">>}
MCHopeless == {<<"openai">>}
MCLimit == [day |-> 2, month |-> 3]
MCPeriodOf ==
  [day   |-> [d \in 0 .. LastDay |-> d],
   month |-> [d \in 0 .. LastDay |-> 0]]
=============================================================================
