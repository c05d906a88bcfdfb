----------------------------- MODULE JwksProofs -----------------------------
(***************************************************************************)
(* What module JwksCache guarantees for any number of requests and keys    *)
(* and any cache time.                                                     *)
(***************************************************************************)
EXTENDS JwksCache, TLAPS

\* The argument for PublishedKeyFound: a key that was never withdrawn is still
\* published, and in every reply to its request.
Covering ==
  \A r \in Requests :
    /\ covered[r] => kid[r] \in published
    /\ covered[r] /\ pc[r] = "replied" => kid[r] \in reply[r]
    /\ pc[r] = "unknownKey" => ~covered[r]

IInv == TypeOK /\ Covering

Labels == {"idle"} \cup Waiting \cup EndPCs

\* Initially nothing is cached and no reply is on its way.
LEMMA InitInv == Init => IInv
  BY JwksAssumption
  DEF Init, IInv, TypeOK, Shape, Covering, PublishedSince, Waiting, EndPCs

\* LookUp moves its own request only, and rejects a token only if its key is
\* not in the set of a second load.
LEMMA LookUpMoves ==
  ASSUME Shape, NEW r \in Requests, NEW k, NEW set, NEW second \in BOOLEAN,
         LookUp(r, k, set, second)
  PROVE  /\ pc' \in [Requests -> Labels]
         /\ again' \in [Requests -> BOOLEAN]
         /\ sentAt' \in [Requests -> 0 .. now]
         /\ \A u \in Requests \ {r} : pc'[u] = pc[u] /\ sentAt'[u] = sentAt[u]
         /\ pc'[r] \in {"accepted", "sent", "unknownKey"}
         /\ pc'[r] = "unknownKey" => k \notin set /\ second
<1> USE DEF Shape, Goto, Labels, Waiting, EndPCs
<1>1. now \in 0 .. now
  OBVIOUS
<1>2. CASE /\ k \in set /\ Goto(r, "accepted") /\ UNCHANGED <<again, sentAt>>
  BY <1>2
<1>3. CASE /\ k \notin set /\ ~second
           /\ again' = [again EXCEPT ![r] = TRUE] /\ Sends(r)
  BY <1>1, <1>3 DEF Sends
<1>4. CASE /\ k \notin set /\ second
           /\ Goto(r, "unknownKey") /\ UNCHANGED <<again, sentAt>>
  BY <1>4
<1> QED BY <1>2, <1>3, <1>4 DEF LookUp

\* A request that needs no reply of the issuer.
LEMMA StartCachedInv ==
  ASSUME IInv, NEW r \in Requests, StartCached(r)
  PROVE IInv'
<1>1. PICK k \in Keys : /\ Start(r, k) /\ Cached
                        /\ LookUp(r, k, jwks, FALSE)
                        /\ jwks' = IF Dropped(k, jwks, FALSE) THEN {} ELSE jwks
  BY DEF StartCached
<1>2. /\ pc' \in [Requests -> Labels]
      /\ again' \in [Requests -> BOOLEAN]
      /\ sentAt' \in [Requests -> 0 .. now]
      /\ \A u \in Requests \ {r} : pc'[u] = pc[u] /\ sentAt'[u] = sentAt[u]
      /\ pc'[r] \in {"accepted", "sent"}
  BY <1>1, LookUpMoves DEF IInv, TypeOK
<1>3. Shape'
  <2>1. jwks' \in SUBSET Keys /\ Start(r, k)
    BY <1>1 DEF IInv, TypeOK, Shape
  <2> QED BY <1>2, <2>1 DEF IInv, TypeOK, Shape, Start, Labels
<1>4. reply[r] = {} /\ reply' = reply /\ gone' = gone /\ published' = published
  <2>1. Start(r, k)
    BY <1>1
  <2> QED BY <2>1 DEF Start, IInv, TypeOK
<1>5. TypeOK'
  <2>1. \A q \in jwks' : PublishedSince(q, loadedAt)'
    BY <1>1 DEF IInv, TypeOK, Start, PublishedSince
  <2>2. \A u \in Requests : pc'[u] # "replied" => reply'[u] = {}
    BY <1>2, <1>4 DEF IInv, TypeOK
  <2>3. \A u \in Requests : \A q \in reply'[u] : PublishedSince(q, sentAt[u])'
    BY <1>2, <1>4 DEF IInv, TypeOK, PublishedSince
  <2> QED BY <1>3, <2>1, <2>2, <2>3 DEF TypeOK
<1>6. Covering'
  BY <1>1, <1>2, <1>4 DEF IInv, TypeOK, Shape, Covering, Start
<1> QED BY <1>5, <1>6 DEF IInv

\* A request that sends for the key set.
LEMMA StartLoadingInv ==
  ASSUME IInv, NEW r \in Requests, StartLoading(r)
  PROVE IInv'
<1>1. PICK k \in Keys : Start(r, k) /\ Sends(r) /\ UNCHANGED <<jwks, again>>
  BY DEF StartLoading
<1>2. reply[r] = {} /\ reply' = reply /\ gone' = gone /\ published' = published
  BY <1>1 DEF Start, IInv, TypeOK
<1>3. now \in 0 .. now
  BY DEF IInv, TypeOK, Shape
<1>4. Shape'
  BY <1>1, <1>3 DEF IInv, TypeOK, Shape, Start, Sends, Goto, Waiting, EndPCs
<1>5. \A u \in Requests \ {r} : pc'[u] = pc[u] /\ sentAt'[u] = sentAt[u]
  BY <1>1 DEF Sends, Goto, IInv, TypeOK, Shape
<1>6. pc'[r] = "sent"
  BY <1>1 DEF Sends, Goto, IInv, TypeOK, Shape
<1>7. TypeOK'
  <2>1. \A q \in jwks' : PublishedSince(q, loadedAt)'
    BY <1>1 DEF IInv, TypeOK, Start, PublishedSince
  <2>2. \A u \in Requests : pc'[u] # "replied" => reply'[u] = {}
    BY <1>2, <1>5, <1>6 DEF IInv, TypeOK
  <2>3. \A u \in Requests : \A q \in reply'[u] : PublishedSince(q, sentAt[u])'
    BY <1>2, <1>5 DEF IInv, TypeOK, PublishedSince
  <2> QED BY <1>4, <2>1, <2>2, <2>3 DEF TypeOK
<1>8. Covering'
  BY <1>1, <1>2, <1>5, <1>6 DEF IInv, TypeOK, Shape, Covering, Start
<1> QED BY <1>7, <1>8 DEF IInv

\* The issuer answers with what it publishes.
LEMMA IssuerAnswersInv ==
  ASSUME IInv, NEW r \in Requests, IssuerAnswers(r)
  PROVE IInv'
<1> USE DEF IssuerAnswers, Goto
<1>1. Shape'
  BY DEF IInv, TypeOK, Shape, cache, Waiting, EndPCs
<1>2. TypeOK'
  BY <1>1 DEF IInv, TypeOK, Shape, cache, PublishedSince
<1>3. Covering'
  BY DEF IInv, TypeOK, Shape, Covering, cache
<1> QED BY <1>2, <1>3 DEF IInv

\* A reply is cached under the clock of its request.
LEMMA LoadedInv ==
  ASSUME IInv, NEW r \in Requests, Loaded(r)
  PROVE IInv'
<1>1. /\ pc[r] = "replied"
      /\ LookUp(r, kid[r], reply[r], again[r])
      /\ jwks' = IF Dropped(kid[r], reply[r], again[r]) THEN {} ELSE reply[r]
      /\ loadedAt' = sentAt[r]
      /\ reply' = [reply EXCEPT ![r] = {}]
      /\ UNCHANGED <<now, published, kid, gone, covered>>
  BY DEF Loaded, LoadTime
<1>2. again[r] \in BOOLEAN
  BY DEF IInv, TypeOK, Shape
<1>3. /\ pc' \in [Requests -> Labels]
      /\ again' \in [Requests -> BOOLEAN]
      /\ sentAt' \in [Requests -> 0 .. now]
      /\ \A u \in Requests \ {r} : pc'[u] = pc[u] /\ sentAt'[u] = sentAt[u]
      /\ pc'[r] \in {"accepted", "sent", "unknownKey"}
      /\ pc'[r] = "unknownKey" => kid[r] \notin reply[r]
  BY <1>1, <1>2, LookUpMoves DEF IInv, TypeOK
<1>4. /\ reply'[r] = {}
      /\ \A u \in Requests \ {r} : reply'[u] = reply[u]
  BY <1>1 DEF IInv, TypeOK, Shape
<1>5. Shape'
  BY <1>1, <1>3 DEF IInv, TypeOK, Shape, Labels
<1>6. TypeOK'
  <2>1. \A q \in jwks' : PublishedSince(q, loadedAt)'
    BY <1>1 DEF IInv, TypeOK, PublishedSince
  <2>2. \A u \in Requests : pc'[u] # "replied" => reply'[u] = {}
    BY <1>3, <1>4 DEF IInv, TypeOK
  <2>3. \A u \in Requests : \A q \in reply'[u] : PublishedSince(q, sentAt[u])'
    BY <1>1, <1>3, <1>4 DEF IInv, TypeOK, PublishedSince
  <2> QED BY <1>5, <2>1, <2>2, <2>3 DEF TypeOK
<1>7. Covering'
  BY <1>1, <1>3, <1>4 DEF IInv, Covering
<1> QED BY <1>6, <1>7 DEF IInv

\* No set, and no change of the cache.
LEMMA LoadFailsInv ==
  ASSUME IInv, NEW r \in Requests, LoadFails(r)
  PROVE IInv'
<1> USE DEF LoadFails, Goto, cache
<1>1. Shape'
  BY DEF IInv, TypeOK, Shape, Waiting, EndPCs
<1>2. TypeOK'
  BY <1>1 DEF IInv, TypeOK, Shape, PublishedSince
<1>3. Covering'
  BY DEF IInv, TypeOK, Shape, Covering
<1> QED BY <1>2, <1>3 DEF IInv

LEMMA LeaveInv ==
  ASSUME IInv, NEW r \in Requests, Leave(r)
  PROVE IInv'
<1> USE DEF Leave, Goto, cache
<1>1. reply[r] = {}
  BY DEF IInv, TypeOK, EndPCs
<1>2. Shape'
  BY DEF IInv, TypeOK, Shape, Waiting, EndPCs
<1>3. TypeOK'
  BY <1>1, <1>2 DEF IInv, TypeOK, Shape, PublishedSince
<1>4. Covering'
  BY DEF IInv, TypeOK, Shape, Covering
<1> QED BY <1>3, <1>4 DEF IInv

\* What is published never becomes "not published since".
LEMMA PublishInv ==
  ASSUME IInv, NEW k \in Keys, Publish(k)
  PROVE IInv'
BY DEF IInv, TypeOK, Shape, Covering, PublishedSince, Publish, cache, locals

\* A withdrawal is not earlier than any time a set was loaded or asked for.
LEMMA WithdrawInv ==
  ASSUME IInv, NEW k \in Keys, Withdraw(k)
  PROVE IInv'
<1> USE DEF Withdraw, cache, locals
<1>1. Shape'
  BY DEF IInv, TypeOK, Shape
<1>2. ASSUME NEW q \in Keys, NEW time \in 0 .. now, PublishedSince(q, time)
      PROVE PublishedSince(q, time)'
  BY <1>2 DEF IInv, TypeOK, Shape, PublishedSince
<1>3. TypeOK'
  BY <1>1, <1>2 DEF IInv, TypeOK, Shape, PublishedSince
<1>4. Covering'
  BY DEF IInv, TypeOK, Shape, Covering
<1> QED BY <1>3, <1>4 DEF IInv

LEMMA TickInv ==
  ASSUME IInv, Tick
  PROVE IInv'
BY DEF IInv, TypeOK, Shape, Covering, PublishedSince, Tick, cache, locals

\* The invariant is inductive.
LEMMA StepInv == IInv /\ [Next]_vars => IInv'
<1> SUFFICES ASSUME IInv, [Next]_vars PROVE IInv'
  OBVIOUS
<1>1. CASE UNCHANGED vars
  BY <1>1
  DEF vars, cache, locals, IInv, TypeOK, Shape, Covering, PublishedSince
<1>2. CASE Next
  BY <1>2, StartCachedInv, StartLoadingInv, IssuerAnswersInv, LoadedInv,
     LoadFailsInv, LeaveInv, PublishInv, WithdrawInv, TickInv DEF Next
<1> QED BY <1>1, <1>2

\* The cache's state keeps its shape: what it and every reply hold was
\* published at the time it is filed under, or later.
THEOREM TypeCorrect == Spec => []TypeOK
<1>1. IInv => TypeOK
  BY DEF IInv
<1> QED BY <1>1, InitInv, StepInv, PTL DEF Spec

\* No token is rejected for a key that has been published all the time.
THEOREM PublishedKeysAreFound == Spec => []PublishedKeyFound
<1>1. IInv => PublishedKeyFound
  BY DEF IInv, Covering, PublishedKeyFound
<1> QED BY <1>1, InitInv, StepInv, PTL DEF Spec

\* What one step accepts from the cache.
Acceptance ==
  \A r \in Requests :
    pc[r] = "idle" /\ pc'[r] = "accepted" =>
      PublishedSince(kid'[r], now - CacheSeconds + 1)

\* Only StartCached accepts a token at once, and the set it uses is younger
\* than the cache time.
LEMMA AcceptanceOfStep == IInv /\ [Next]_vars => Acceptance
<1> SUFFICES ASSUME IInv, [Next]_vars, NEW r \in Requests,
                    pc[r] = "idle", pc'[r] = "accepted"
             PROVE  PublishedSince(kid'[r], now - CacheSeconds + 1)
  BY DEF Acceptance
<1> USE DEF IInv, TypeOK, Shape
<1>1. StartCached(r)
  <2>1. ASSUME NEW u \in Requests, StartCached(u), u # r PROVE FALSE
    <3>1. PICK k \in Keys : LookUp(u, k, jwks, FALSE)
      BY <2>1 DEF StartCached
    <3> QED BY <2>1, <3>1, LookUpMoves
  <2>2. ASSUME NEW u \in Requests, Loaded(u) PROVE FALSE
    <3>1. pc[u] = "replied" /\ LookUp(u, kid[u], reply[u], again[u])
      BY <2>2 DEF Loaded
    <3> QED BY <3>1, LookUpMoves
  <2>3. ASSUME NEW u \in Requests,
               \/ StartLoading(u) \/ IssuerAnswers(u) \/ LoadFails(u) \/ Leave(u)
        PROVE FALSE
    BY <2>3 DEF StartLoading, Sends, IssuerAnswers, LoadFails, Leave, Goto
  <2>4. pc' # pc
    OBVIOUS
  <2> QED BY <2>1, <2>2, <2>3, <2>4 DEF Next, Publish, Withdraw, Tick, vars
<1>2. PICK k \in Keys : Start(r, k) /\ Cached /\ LookUp(r, k, jwks, FALSE)
  BY <1>1 DEF StartCached
<1>3. kid'[r] = k
  BY <1>2 DEF Start
<1>4. k \in jwks
  BY <1>2 DEF LookUp, Sends, Goto
<1>5. PublishedSince(k, loadedAt) /\ loadedAt >= now - CacheSeconds + 1
  BY <1>2, <1>4, JwksAssumption DEF Cached
<1> QED BY <1>3, <1>5, JwksAssumption DEF PublishedSince

\* The staleness of the cache is bounded.
THEOREM StalenessIsBounded == Spec => StalenessBounded
BY InitInv, StepInv, AcceptanceOfStep, PTL DEF Spec, StalenessBounded, Acceptance
=============================================================================
