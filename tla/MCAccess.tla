------------------------------ MODULE MCAccess ------------------------------
(***************************************************************************)
(* A request with any combination of credentials, while no other is under  *)
(* way; or two, with a managed key, an administrator's token, or nothing,  *)
(* where the settings hold no keys.  Two keys, and clients whose role      *)
(* changes; or more, and administrators that need none.  With Redis one    *)
(* request at a time presents a managed key, and runs no operation: those  *)
(* that do run them need none, and disable no client.                      *)
(***************************************************************************)
EXTENDS Access, Integers, TLC

CONSTANTS k1, k2

MCSecrets == {k1, k2}
AdminToken == [valid |-> TRUE, subject |-> TRUE, roles |-> {"viewer", "admin"}]

Plain(c) == c.header = None /\ c.key \in Digests \cup {None} /\ c.bearer \in {None, AdminToken}
Crowd == {t \in Tasks : stage[t] # "out"}
Keyed == {t \in Crowd : creds[t].key # None}

MayJoin(t) ==
  Crowd \ {t} # {} =>
    /\ settings.admin = Blank /\ settings.gateway = Blank
    /\ \A u \in Crowd \ {t} : Plain(creds[u])
Companions ==
  /\ Cardinality(Crowd) > 1 => \A t \in Crowd : Plain(creds[t])
  /\ Suspending =>
       /\ Cardinality(Keyed) <= 1 /\ \A t \in Keyed : pc[t] = "idle"
       /\ \A t \in Tasks : record[t] # None => record[t].enabled

Simple == granted \subseteq Ids \X {"admin"} /\ Keyed = {}
Bounded == Cardinality(issuedKeys) <= 2 \/ Simple

MCNext == \E t \in Tasks : MayJoin(t) /\ Request(t) /\ Companions' /\ Bounded'
MCSpec == AccessInit /\ [][MCNext]_allVars

MCTokens ==
  {AdminToken,
   [valid |-> TRUE, subject |-> TRUE, roles |-> {"other", "operator"}],
   [valid |-> TRUE, subject |-> TRUE, roles |-> {}],
   [valid |-> TRUE, subject |-> FALSE, roles |-> {"admin"}],
   [valid |-> FALSE, subject |-> TRUE, roles |-> {"admin"}]}
AllCredentials ==
  [header : {k1, None}, key : {k1, k2, Blank, None} \cup Digests,
   bearer : MCTokens \cup {NotBearer, None}]

\* For Redis.
FewCredentials ==
  {[header |-> None, key |-> d, bearer |-> None] : d \in Digests \cup {None}}
NoTokens == {}
FewSecrets == {}

MCSymmetry == Permutations(Tasks) \cup Permutations(Ids) \cup Permutations(Digests)
=============================================================================
