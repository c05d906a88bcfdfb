------------------------------- MODULE Access -------------------------------
(***************************************************************************)
(* Who gets in: the chain of credentials in app/security.py, with the      *)
(* managed clients of ClientRegistry behind it and in front of it: their   *)
(* keys open the endpoints, and admin endpoints change them.               *)
(* OIDCAuthenticator.authenticate is one await with any outcome, which     *)
(* suspends with both backends (JwksCache models what happens inside).     *)
(* Between authentication and handler nothing suspends.                    *)
(***************************************************************************)
EXTENDS ClientRegistry, FiniteSets

CONSTANTS
  Secrets,      \* the keys that settings can hold, and keys unknown to all
  Blank,        \* the empty string
  Tokens,       \* bearer tokens: [valid, subject, roles]
  Endpoints,    \* those that requests use: "read", "chat", "manage"
  Credentials,  \* what requests present: [header, key, bearer]
  NotBearer,    \* an Authorization header that holds no bearer token
  DefaultRole   \* settings.oidc_default_role

\* A managed key is represented by its digest.
ASSUME AccessAssumption ==
  /\ \A c \in Credentials :
       /\ c.header \in Secrets \cup {Blank, None}
       /\ c.key \in Secrets \cup Digests \cup {Blank, None}
       /\ c.bearer \in Tokens \cup {NotBearer, None}
  /\ Secrets \cap Digests = {} /\ {Blank, None} \cap (Secrets \cup Digests) = {}
  /\ Blank # None
  /\ Endpoints \subseteq {"read", "chat", "manage"}
  /\ DefaultRole \in {"viewer", "operator", "admin"}  \* another raises in Principal

VARIABLES
  settings,  \* admin_api_key, gateway_api_key, and whether OIDC is enabled
  stage,     \* of the request's authentication
  endpoint,  \* "read", "chat" or "manage"
  creds,     \* what it presents
  who,       \* its principal
  \* history:
  granted    \* roles that a create or an update has given to a client, and that
             \* have since been in its record or on the way to it

accessVars == <<settings, stage, endpoint, creds, who, granted>>
allVars == <<vars, accessVars>>

AccessInit ==
  /\ Init
  /\ settings \in [admin : Secrets \cup {Blank}, gateway : Secrets \cup {Blank},
                   oidc : BOOLEAN]
  /\ stage = [t \in Tasks |-> "out"]
  /\ endpoint = [t \in Tasks |-> None]
  /\ creds = [t \in Tasks |-> None]
  /\ who = [t \in Tasks |-> None]
  /\ granted = {}

MayRun(t) == Suspending \/ loop \in {None, t}

Hold(t, waits) ==
  /\ MayRun(t)
  /\ loop' = IF ~Suspending /\ waits THEN t ELSE None

-----------------------------------------------------------------------------
(* The chain, from await to await. *)

AllowedRoles(e) ==
  CASE e = "read" -> {"viewer", "operator", "admin"}
    [] e = "chat" -> {"operator", "admin"}
    [] e = "manage" -> {"admin"}

Principal(source, id, role) == [source |-> source, id |-> id, role |-> role]
BootstrapAdmin == Principal("admin_api_key", None, "admin")
BootstrapClient == Principal("gateway_api_key", None, "operator")
Anonymous == Principal("auth_disabled", None, "admin")

Enter(e, p) ==
  [stage |-> IF p.role \in AllowedRoles(e) THEN "inside" ELSE "forbidden", who |-> p]

Go(label) == [stage |-> label, who |-> None]

\* Mutant: two empty strings match.
MatchesLoosely(provided, expected) == provided # None /\ provided = expected

Matches(provided, expected) ==
  provided \notin {None, Blank} /\ expected # Blank /\ provided = expected

\* identity.role_from_claims
RoleFromClaims(token) ==
  IF "admin" \in token.roles THEN "admin"
  ELSE IF "operator" \in token.roles THEN "operator"
  ELSE IF "viewer" \in token.roles THEN "viewer"
  ELSE DefaultRole

\* When no key has led to a principal.
WithoutKey(e, c) ==
  IF c.bearer \in Tokens THEN Go("token")
  ELSE IF /\ settings = [admin |-> Blank, gateway |-> Blank, oidc |-> FALSE]
          /\ c.key = None /\ c.bearer = None
       THEN Enter(e, Anonymous)
  ELSE Go("unauthorized")

AtTheDoor(e, c) ==
  IF \/ e = "manage" /\ Matches(c.header, settings.admin)
     \/ Matches(c.key, settings.admin)
  THEN Enter(e, BootstrapAdmin)
  ELSE IF Matches(c.key, settings.gateway) THEN Enter(e, BootstrapClient)
  ELSE IF c.key \notin {None, Blank} THEN Go("lookup")
  ELSE WithoutKey(e, c)

\* Mutant: something suspends between authentication and handler.
StepSuspending(t, next) ==
  /\ stage' = [stage EXCEPT ![t] = next.stage]
  /\ who' = [who EXCEPT ![t] = next.who]
  /\ Hold(t, next.stage = "lookup")
  /\ UNCHANGED <<store, pc, taskVars, history, settings, granted>>

\* The handler, or the answer that refuses, follows at once; only the check of
\* a token suspends with both backends.
Step(t, next) ==
  /\ stage' = [stage EXCEPT ![t] = next.stage]
  /\ who' = [who EXCEPT ![t] = next.who]
  /\ Hold(t, next.stage # "token")
  /\ UNCHANGED <<store, pc, taskVars, history, settings, granted>>

Arrive(t) ==
  /\ MayRun(t) /\ pc[t] = "idle" /\ stage[t] = "out"
  /\ \E e \in Endpoints, c \in Credentials :
       /\ endpoint' = [endpoint EXCEPT ![t] = e]
       /\ creds' = [creds EXCEPT ![t] = c]
       /\ Step(t, AtTheDoor(e, c))

\* authenticate_client: one HGET.
Lookup(t) ==
  LET key == creds[t].key IN
  /\ stage[t] = "lookup"
  /\ Step(t, IF key \in Digests /\ Authenticates(key)
             THEN Enter(endpoint[t], Principal("managed_client", store[key].id, store[key].role))
             ELSE WithoutKey(endpoint[t], creds[t]))
  /\ UNCHANGED <<endpoint, creds>>

\* An exception of any kind while the token is checked is a refusal.
TokenChecked(t) ==
  LET token == creds[t].bearer IN
  /\ stage[t] = "token"
  /\ Step(t, IF settings.oidc /\ token.valid /\ token.subject
             THEN Enter(endpoint[t], Principal("oidc", None, RoleFromClaims(token)))
             ELSE Go("unauthorized"))
  /\ UNCHANGED <<endpoint, creds>>

\* The key set cannot be loaded.
TokenFault(t) ==
  /\ stage[t] = "token"
  /\ Step(t, Go("unauthorized"))
  /\ UNCHANGED <<endpoint, creds>>

\* RedisError at the HGET, answered 500.
LookupFault(t) ==
  /\ Suspending /\ stage[t] = "lookup"
  /\ Step(t, Go("error"))
  /\ UNCHANGED <<endpoint, creds>>

-----------------------------------------------------------------------------
(* The handlers. *)

\* In a stored record, or in one that an operation is about to store.
Carried(id, role) ==
  \/ \E d \in Digests : store[d] # None /\ store[d].id = id /\ store[d].role = role
  \/ \E t \in Tasks : /\ pc[t] \in {"put", "putNew"}
                      /\ record[t].id = id /\ record[t].role = role

\* An operation of ClientRegistry, from its start to its end.
Operate(t) ==
  /\ stage[t] = "inside" /\ endpoint[t] = "manage"
  /\ \/ StartCreate(t) \/ StartById(t) \/ NotFound(t)
     \/ FoundToUpdate(t) \/ FoundToRotate(t) \/ FoundToDelete(t)
     \/ Command(t) \/ Return(t) \/ Fault(t)
  /\ LET given == IF pc'[t] = "put" THEN {<<client'[t], record'[t].role>>} ELSE {} IN
     granted' = {p \in granted \cup given : Carried(p[1], p[2])'}
  /\ UNCHANGED <<settings, stage, endpoint, creds, who>>

\* The request is over: refused, served by a handler that changes no client,
\* or at the end of its operation.
Depart(t) ==
  /\ stage[t] \notin {"out", "lookup", "token"}
  /\ \/ Leave(t)
     \/ /\ pc[t] = "idle" /\ Hold(t, FALSE)
        /\ UNCHANGED <<store, pc, taskVars, history>>
  /\ stage' = [stage EXCEPT ![t] = "out"]
  /\ endpoint' = [endpoint EXCEPT ![t] = None]
  /\ creds' = [creds EXCEPT ![t] = None]
  /\ who' = [who EXCEPT ![t] = None]
  /\ UNCHANGED <<settings, granted>>

Request(t) ==
  \/ Arrive(t) \/ Lookup(t) \/ LookupFault(t) \/ TokenChecked(t) \/ TokenFault(t)
  \/ Operate(t) \/ Depart(t)

AccessNext == \E t \in Tasks : Request(t)

AccessSpec == AccessInit /\ [][AccessNext]_allVars

-----------------------------------------------------------------------------
(* Properties. *)

Managed(t) == who[t] # None /\ who[t].source = "managed_client"

\* What each of the presented credentials is worth by itself.
Worth(t) ==
  LET c == creds[t]
      Configured == {settings.admin, settings.gateway} \ {Blank}
  IN
  {r \in {"viewer", "operator", "admin"} :
    \/ r = "admin" /\ endpoint[t] = "manage" /\ c.header \in {settings.admin} \cap Configured
    \/ r = "admin" /\ c.key \in {settings.admin} \cap Configured
    \/ r = "operator" /\ c.key \in {settings.gateway} \cap Configured
    \/ c.key \in Digests /\ Authenticates(c.key) /\ r = store[c.key].role
    \/ c.bearer \in Tokens /\ settings.oidc /\ c.bearer.valid /\ c.bearer.subject
         /\ r = RoleFromClaims(c.bearer)
    \/ /\ r = "admin" /\ Configured = {} /\ ~settings.oidc
       /\ c.key = None /\ c.bearer = None}

Reaches(t, label) == stage'[t] = label /\ stage[t] # label

\* No combination of credentials gives a role that none of them gives alone
\* at the moment of the decision, and nobody is refused as unknown who presents
\* one that is good, unless a token is presented as well and cannot be checked.
\* The role suffices for what the request does.
OnlyOwnRoles ==
  [][\A t \in Tasks :
       /\ Reaches(t, "inside") => who'[t].role \in Worth(t)' \cap AllowedRoles(endpoint'[t])
       /\ Reaches(t, "unauthorized") /\ creds'[t].bearer \notin Tokens => Worth(t)' = {}]_allVars

\* Nobody gets in with a role that no create and no update has given to that
\* client, nor with one that has been taken away from it, unless an operation
\* that had read the record before then stores it again: overlapping rotations
\* do that (governance.py:328-337 beside 298-310), whichever of them fail.
RolesGranted ==
  [][\A t \in Tasks :
       Reaches(t, "inside") /\ Managed(t)' => <<who'[t].id, who'[t].role>> \in granted]_allVars

\* With the memory backend a managed administrator starts an operation only
\* while its key is stored, enabled, and an administrator's.
ActsWhileEntitled ==
  [][\A t \in Tasks :
       (pc[t] = "idle" /\ pc'[t] \in Waiting /\ Managed(t)) =>
         Authenticates(creds[t].key) /\ store[creds[t].key].role = "admin"]_allVars
=============================================================================
