----------------------------- MODULE MCDecisions -----------------------------
(***************************************************************************)
(* What is decided about a request before the router runs: whether the     *)
(* policies allow it, and its list of targets.  The two share nothing, so  *)
(* one of them stays as it began while the other moves.                    *)
(***************************************************************************)
EXTENDS Candidates, PolicyEngine

(* Two models with pools, an alias among their members, a fallback that is *)
(* also a member, and configurations that differ in all of these.          *)
MCNames == {"fast", "spare", "m:a", "m:b", "m:c"}
MCModels == {"fast", "m:a"}
MCTargets == {"m:a", "m:b", "m:c"}
MCFallbacks == <<"spare">>

Conf(aliases, pools, pricing, default) ==
  [aliases |-> aliases, pools |-> pools, pricing |-> pricing,
   routing_policy |-> default]

\* The alias stands for a member of the pool or for a further target; the pool
\* has one member or two, or is empty in the settings; b and c cost the same;
\* an alias that has been deleted leaves a fallback that resolves to nothing.
MCSnapshots ==
  {Conf("spare" :> "m:c", "fast" :> <<"m:a", "m:b">>,
        "m:b" :> 1 @@ "m:c" :> 1, "priority"),
   Conf("spare" :> "m:a", "fast" :> <<"m:b", "spare", "m:a">>,
        "m:a" :> 2 @@ "m:b" :> 0 @@ "m:c" :> 1, "round_robin"),
   Conf("spare" :> "m:c" @@ "fast" :> "m:b", "fast" :> <<>> @@ "m:a" :> <<"m:c", "m:a">>,
        "m:a" :> 0, "cheapest"),
   Conf("fast" :> "m:a", "fast" :> <<"m:a", "m:c">>, <<>>, "cost")}

(* One policy of the settings, with a cap and an effect that decides       *)
(* nothing, and two names more; rules that differ in what they filter and  *)
(* what they refuse.                                                       *)
MCRoles == {"operator", "admin"}
MCClients == {"c1"}
MCPolicyModels == {"x", "y"}

Plain(priority, effect) ==
  [enabled |-> TRUE, priority |-> priority, effect |-> effect, roles |-> MCRoles,
   clients |-> MCClients, models |-> MCPolicyModels, allow_stream |-> TRUE,
   max_tokens |-> NoCap]

MCPolicyNames == {"base", "p1", "p2"}
MCSettingsOrder == <<"base">>
MCSettingsRules == "base" :> [Plain(1, "other") EXCEPT !.max_tokens = 1]

MCRules ==
  {Plain(1, "allow"),
   [Plain(0, "deny") EXCEPT !.enabled = FALSE],
   [Plain(1, "deny") EXCEPT !.models = {"x"}],
   [Plain(2, "allow") EXCEPT !.allow_stream = FALSE],
   [Plain(0, "allow") EXCEPT !.roles = {"admin"}, !.max_tokens = 1],
   [Plain(3, "deny") EXCEPT !.roles = {"operator"}]}

\* Half of them ask for more tokens than any rule's cap.
MCInquiries ==
  {q \in [client : MCClients, role : MCRoles, model : MCPolicyModels, tokens : {0, 2}, stream : BOOLEAN] :
    q.tokens = 0 <=> (q.stream \/ q.model = "y")}

MCInit == Init /\ PolicyInit
Listing ==
  /\ Stored = {} /\ order = <<>>
  /\ Next /\ UNCHANGED policyVars
Judging ==
  /\ \A r \in Requests : pc[r] = "idle"
  /\ \A m \in Models : cursor[m] = 0
  /\ PolicyNext /\ UNCHANGED vars
MCNext == Listing \/ Judging
MCSpec == MCInit /\ [][MCNext]_<<vars, policyVars>>

MCSymmetry == Permutations(Requests)
=============================================================================
