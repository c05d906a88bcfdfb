-------------------------- MODULE MCGovernanceReads --------------------------
(***************************************************************************)
(* One field in every section but the settings, one of them permanent, and *)
(* one value.  With Redis either two administrators write two fields three *)
(* times while nobody reads, or one of them writes any field twice while a *)
(* request reads, without a fault of its own: what matters to a reader is  *)
(* that the write has been executed and its operation has not returned.    *)
(***************************************************************************)
EXTENDS GovernanceReads

CONSTANTS alias, pool, price, policy, v

MCFields == {alias, pool, price, policy}
MCSectionOf == alias :> "aliases" @@ pool :> "pools" @@ price :> "pricing" @@ policy :> "policies"
MCStatic == [f \in MCFields |-> None]

Touched == {event[a].field : a \in {b \in Admins : event[b] # None}}
  \cup {pushed[i].field : i \in DOMAIN pushed}
Audited ==
  /\ \A r \in Requests : pc[r] = "idle"
  /\ Touched \subseteq {alias, policy}
FewWrites ==
  /\ Len(configs) + Cardinality({a \in Admins : pc[a] = "write"}) <= 3
  /\ Cardinality({a \in Admins : pc[a] # "idle"}) <= 1
  /\ \A a \in Admins : pc[a] \notin {"rejected", "failed"}

MCNext == ReadsNext /\ (suspending => Audited \/ FewWrites)'
MCSpec == ReadsInit /\ [][MCNext]_allVars

MCSymmetry == Permutations(Admins)
=============================================================================
