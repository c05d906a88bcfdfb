---------------------------- MODULE RouteContract ----------------------------
(***************************************************************************)
(* What ModelRouter.route and ModelRouter.stream_route promise to the chat *)
(* handler that awaits them, with targets, retries and circuits hidden: a  *)
(* request that is being routed ends in exactly one way, and it may end    *)
(* "exhausted" (ProviderRequestError, answered 502) only when its list of  *)
(* candidates names no reliable provider.                                  *)
(***************************************************************************)
CONSTANTS
  Requests,        \* concurrent calls of the router, one per HTTP request
  CandidateLists,  \* what ModelRouter.candidates may return
  HopelessLists    \* those of them without a reliable provider

VARIABLES
  outcome,         \* how far the router is with a request, or how it ended
  candidates,      \* the candidate list the request was given
  streaming        \* payload.stream

contractVars == <<outcome, candidates, streaming>>

Outcomes ==
  {"idle", "routing", "served", "exhausted", "broken", "error", "aborted"}

ContractInit ==
  /\ outcome = [r \in Requests |-> "idle"]
  /\ candidates = [r \in Requests |-> <<>>]
  /\ streaming = [r \in Requests |-> FALSE]

\* The chat handler calls the router for r.
Accept(r) ==
  /\ outcome[r] = "idle"
  /\ outcome' = [outcome EXCEPT ![r] = "routing"]
  /\ \E list \in CandidateLists : candidates' = [candidates EXCEPT ![r] = list]
  /\ \E s \in BOOLEAN : streaming' = [streaming EXCEPT ![r] = s]

End(r, how) ==
  /\ outcome[r] = "routing"
  /\ outcome' = [outcome EXCEPT ![r] = how]
  /\ UNCHANGED <<candidates, streaming>>

\* A provider answered and its success was reported.
Serve(r) == End(r, "served")

\* Every candidate was skipped or failed.
Exhaust(r) == candidates[r] \in HopelessLists /\ End(r, "exhausted")

\* An exception that is not a GatewayError, from the backend or a reply.
Crash(r) == End(r, "error")

\* Only a stream can fail after its 200 response has started ...
Break(r) == streaming[r] /\ End(r, "broken")

\* ... or be dropped by its client.
Abort(r) == streaming[r] /\ End(r, "aborted")

\* The handler has finished with the result and the slot takes a new request.
Release(r) ==
  /\ outcome[r] # "routing"
  /\ outcome' = [outcome EXCEPT ![r] = "idle"]
  /\ candidates' = [candidates EXCEPT ![r] = <<>>]
  /\ streaming' = [streaming EXCEPT ![r] = FALSE]

ContractNext ==
  \E r \in Requests :
    \/ Accept(r) \/ Serve(r) \/ Exhaust(r) \/ Crash(r) \/ Break(r) \/ Abort(r)
    \/ Release(r)

ContractSpec == ContractInit /\ [][ContractNext]_contractVars
=============================================================================
