----------------------------- MODULE JwksCache -----------------------------
(***************************************************************************)
(* OIDCAuthenticator._load_jwks and the choice of the signing key in       *)
(* authenticate (app/identity.py), run by the concurrent requests of one   *)
(* replica.  They share the cached key set and its load time.  The only    *)
(* await is the HTTP request for the key set, so an action is what runs    *)
(* from one reply to the next: a request for the set is sent with the      *)
(* clock of that moment, the issuer answers with the keys it publishes     *)
(* when it is asked, and replies arrive in any order.                      *)
(*                                                                         *)
(* A token is the id of the key that signed it.  The verification of the   *)
(* signature and of the claims is a library's and changes nothing here.    *)
(* PyJWKSet refuses a set without keys, so {} stands for no set at all.    *)
(***************************************************************************)
EXTENDS Integers

CONSTANTS
  Requests,      \* requests that carry a bearer token
  Keys,          \* key ids, "kid"
  CacheSeconds,  \* oidc_jwks_cache_seconds
  MaxTime,       \* bound on the clock, for the model checker only
  None           \* no token

ASSUME JwksAssumption ==
  /\ CacheSeconds \in Int
  /\ MaxTime \in Nat
  /\ None \notin Keys

VARIABLES
  now,        \* time.monotonic()
  published,  \* the keys in the issuer's set
  jwks,       \* _jwks
  loadedAt,   \* _jwks_loaded_at
  pc,         \* what the request waits for, or how it ended
  kid,        \* the key id of its token
  again,      \* it has dropped the cache and loads a second time
  sentAt,     \* "now" of its call of _load_jwks
  reply,      \* the key set on its way to it
  \* history:
  gone,       \* when a key was withdrawn, or -1
  covered     \* the key has been published since the request began

cache == <<jwks, loadedAt>>
locals == <<kid, again, sentAt, reply>>
vars == <<now, published, cache, pc, locals, gone, covered>>

Waiting == {"sent", "replied"}
EndPCs == {"accepted", "unknownKey", "failed"}

Init ==
  /\ now = 0
  /\ published \in SUBSET Keys
  /\ jwks = {}
  /\ loadedAt = 0
  /\ pc = [r \in Requests |-> "idle"]
  /\ kid = [r \in Requests |-> None]
  /\ again = [r \in Requests |-> FALSE]
  /\ sentAt = [r \in Requests |-> 0]
  /\ reply = [r \in Requests |-> {}]
  /\ gone = [k \in Keys |-> -1]
  /\ covered = [r \in Requests |-> FALSE]

Goto(r, label) == pc' = [pc EXCEPT ![r] = label]

-----------------------------------------------------------------------------
\* _load_jwks answers from the cache.
Cached == jwks # {} /\ now - loadedAt < CacheSeconds

\* _load_jwks takes the clock and sends its request.
Sends(r) ==
  /\ sentAt' = [sentAt EXCEPT ![r] = now]
  /\ Goto(r, "sent")

\* Mutant: the cache is asked again, without dropping it.
LookUpKeepingCache(r, k, set, second) ==
  /\ again' = [again EXCEPT ![r] = TRUE]
  /\ IF k \in set THEN Goto(r, "accepted") /\ UNCHANGED sentAt
     ELSE IF Cached \/ second THEN Goto(r, "unknownKey") /\ UNCHANGED sentAt
     ELSE Sends(r)

\* authenticate looks for the key in the set it was given.  A key that is not
\* in the first set drops the cache and loads again, which always sends a
\* request; one that is not in the second set is rejected.
LookUp(r, k, set, second) ==
  \/ /\ k \in set
     /\ Goto(r, "accepted")
     /\ UNCHANGED <<again, sentAt>>
  \/ /\ k \notin set /\ ~second
     /\ again' = [again EXCEPT ![r] = TRUE]
     /\ Sends(r)
  \/ /\ k \notin set /\ second
     /\ Goto(r, "unknownKey")
     /\ UNCHANGED <<again, sentAt>>

\* The cache afterwards.
Dropped(k, set, second) == k \notin set /\ ~second

\* A request begins: its token is of any key, published or not.
Start(r, k) ==
  /\ pc[r] = "idle"
  /\ kid' = [kid EXCEPT ![r] = k]
  /\ covered' = [covered EXCEPT ![r] = k \in published]
  /\ UNCHANGED <<now, published, loadedAt, reply, gone>>

StartCached(r) ==
  \E k \in Keys :
    /\ Start(r, k)
    /\ Cached
    /\ LookUp(r, k, jwks, FALSE)
    /\ jwks' = IF Dropped(k, jwks, FALSE) THEN {} ELSE jwks

StartLoading(r) ==
  \E k \in Keys :
    /\ Start(r, k)
    /\ ~Cached
    /\ Sends(r)
    /\ UNCHANGED <<jwks, again>>

\* The issuer answers with the keys it publishes now.
IssuerAnswers(r) ==
  /\ pc[r] = "sent"
  /\ reply' = [reply EXCEPT ![r] = published]
  /\ Goto(r, "replied")
  /\ UNCHANGED <<now, published, cache, kid, again, sentAt, gone, covered>>

\* Mutant: the load time is the time of the reply.
LoadTimeLate(r) == now

\* The load time is the clock of before the request.
LoadTime(r) == sentAt[r]

\* The reply replaces whatever is cached, an answer to a later request too,
\* and the request goes on with the set it has loaded itself.
Loaded(r) ==
  /\ pc[r] = "replied" /\ reply[r] # {}
  /\ LookUp(r, kid[r], reply[r], again[r])
  /\ jwks' = IF Dropped(kid[r], reply[r], again[r]) THEN {} ELSE reply[r]
  /\ loadedAt' = LoadTime(r)
  /\ reply' = [reply EXCEPT ![r] = {}]
  /\ UNCHANGED <<now, published, kid, gone, covered>>

\* An HTTP error, a timeout or a set that cannot be parsed, or has no key: the
\* cache stays as it is and the request is not authenticated.
LoadFails(r) ==
  /\ pc[r] \in Waiting
  /\ Goto(r, "failed")
  /\ reply' = [reply EXCEPT ![r] = {}]
  /\ UNCHANGED <<now, published, cache, kid, again, sentAt, gone, covered>>

Leave(r) ==
  /\ pc[r] \in EndPCs
  /\ Goto(r, "idle")
  /\ kid' = [kid EXCEPT ![r] = None]
  /\ again' = [again EXCEPT ![r] = FALSE]
  /\ sentAt' = [sentAt EXCEPT ![r] = 0]
  /\ covered' = [covered EXCEPT ![r] = FALSE]
  /\ UNCHANGED <<now, published, cache, reply, gone>>

-----------------------------------------------------------------------------
(* The issuer and the clock. *)

\* A key that was withdrawn is never published again.
Publish(k) ==
  /\ k \notin published /\ gone[k] = -1
  /\ published' = published \cup {k}
  /\ UNCHANGED <<now, cache, pc, locals, gone, covered>>

Withdraw(k) ==
  /\ k \in published
  /\ published' = published \ {k}
  /\ gone' = [gone EXCEPT ![k] = now]
  /\ covered' = [r \in Requests |-> covered[r] /\ kid[r] # k]
  /\ UNCHANGED <<now, cache, pc, locals>>

Tick ==
  /\ now < MaxTime
  /\ now' = now + 1
  /\ UNCHANGED <<published, cache, pc, locals, gone, covered>>

Next ==
  \/ \E r \in Requests :
       \/ StartCached(r) \/ StartLoading(r) \/ IssuerAnswers(r) \/ Loaded(r)
       \/ LoadFails(r) \/ Leave(r)
  \/ \E k \in Keys : Publish(k) \/ Withdraw(k)
  \/ Tick

Spec == Init /\ [][Next]_vars

-----------------------------------------------------------------------------
(* Properties. *)

PublishedSince(k, time) == k \in published \/ gone[k] >= time

Shape ==
  /\ now \in Nat /\ loadedAt \in 0 .. now
  /\ published \in SUBSET Keys
  /\ jwks \in SUBSET Keys
  /\ pc \in [Requests -> {"idle"} \cup Waiting \cup EndPCs]
  /\ kid \in [Requests -> Keys \cup {None}]
  /\ again \in [Requests -> BOOLEAN]
  /\ sentAt \in [Requests -> 0 .. now]
  /\ reply \in [Requests -> SUBSET Keys]
  /\ gone \in [Keys -> -1 .. now]
  /\ covered \in [Requests -> BOOLEAN]

\* The shape of the state.  Every key in the cache was published at its load
\* time or later, and every key of a reply since the request for it was sent.
TypeOK ==
  /\ Shape
  /\ \A k \in jwks : PublishedSince(k, loadedAt)
  /\ \A r \in Requests :
       /\ pc[r] # "replied" => reply[r] = {}
       /\ \A k \in reply[r] : PublishedSince(k, sentAt[r])

\* A token is never rejected for its key while the issuer publishes that key:
\* a request whose key was published when it began and has not been withdrawn
\* since finds it, whatever stale set was cached and whatever sets, older or
\* newer, the other requests load or drop in the meantime.
PublishedKeyFound ==
  \A r \in Requests : pc[r] = "unknownKey" => ~covered[r]

\* A withdrawn key is accepted from the cache for less than CacheSeconds after
\* its withdrawal, replies that overtake each other included: the step that
\* accepts a token without waiting finds its key published within that time.
StalenessBounded ==
  [][\A r \in Requests :
       pc[r] = "idle" /\ pc'[r] = "accepted" =>
         PublishedSince(kid'[r], now - CacheSeconds + 1)]_vars
=============================================================================
