----------------------------- MODULE RateProofs -----------------------------
(***************************************************************************)
(* Theorems about module RateLimiter, for both backends and every number   *)
(* of requests, limit, window and resolution of the clock.                 *)
(***************************************************************************)
EXTENDS RateLimiter, FiniteSetTheorems, TLAPS

LEMMA WindowNat == Window \in Nat \ {0}
  BY RateAssumption, SMT DEF Window

\* Waiting the seconds of a Retry-After is waiting long enough.
LEMMA WaitLongEnough ==
  ASSUME NEW x \in Int
  PROVE  RetryAfter(x) * Second \in Nat /\ RetryAfter(x) * Second >= x
<1>1. CASE x <= Second
  BY <1>1, RateAssumption, SMT DEF RetryAfter
<1>2. CASE ~(x <= Second)
  <2> DEFINE q == (x + Second - 1) \div Second
             m == (x + Second - 1) % Second
  <2>1. x + Second - 1 \in Nat
    BY <1>2, RateAssumption, SMT
  <2>2. q \in Int /\ m \in 0 .. Second - 1 /\ x + Second - 1 = Second * q + m
    BY <2>1, RateAssumption, SMT
  <2>3. q * Second = Second * q /\ Second * q \in Int
    BY <2>2, RateAssumption, SMT
  <2>4. Second * q >= x
    BY <2>2, <2>3, RateAssumption, SMT
  <2>5. RetryAfter(x) = q
    BY <1>2 DEF RetryAfter
  <2> HIDE DEF q
  <2> QED
    BY <1>2, <2>3, <2>4, <2>5, RateAssumption, SMT
<1> QED
  BY <1>1, <1>2

-----------------------------------------------------------------------------
(***************************************************************************)
(* What the scripts do, in the form the proofs need: a call that decides   *)
(* leaves the purged bucket, with the new member if it was admitted.       *)
(***************************************************************************)
New(r) == [at |-> stamp[r], id |-> Cardinality(admitted)]

Decided(r, new) ==
  /\ pc[r] = "deciding"
  /\ pc'[r] # "deciding" /\ \A q \in Requests \ {r} : pc'[q] = pc[q]
  /\ bucket' = Kept(r) \cup new
  /\ admitted' = admitted \cup new
  /\ \/ /\ new = {} /\ expiry' = expiry
     \/ /\ new = {New(r)} /\ ~Full(r) /\ expiry' = now + Window + Second
        /\ promises' = {}
  /\ UNCHANGED <<suspending, now, limit, stamp>>

Dropped(r) ==
  /\ pc'[r] # "deciding" /\ \A q \in Requests \ {r} : pc'[q] = pc[q]
  /\ UNCHANGED <<suspending, now, bucket, expiry, limit, stamp, admitted, promises>>

PCs == {"idle", "deciding", "allowed", "limited", "error"}

LEMMA Deciding ==
  ASSUME pc \in [Requests -> PCs], NEW r \in Requests,
         Allow(r) \/ Deny(r) \/ NothingOldest(r) \/ BackendFault(r)
  PROVE  \/ Decided(r, {New(r)})
         \/ Decided(r, {})
         \/ Dropped(r)
<1> USE DEF PCs
<1>1. CASE Allow(r)
  BY <1>1 DEF Allow, Admitted, Decided, New
<1>2. CASE Deny(r)
  BY <1>2 DEF Deny, Rejected, Decided
<1>3. CASE NothingOldest(r)
  BY <1>3 DEF NothingOldest, Decided
<1>4. CASE BackendFault(r)
  BY <1>4 DEF BackendFault, Admitted, Rejected, Decided, Dropped, New
<1> QED
  BY <1>1, <1>2, <1>3, <1>4

(***************************************************************************)
(* The inductive invariant.  Ordered: serial numbers grow, no member is    *)
(* from the future, the key outlives its members' windows.  Held: the      *)
(* bucket fits the limit.  Accounted: a window of which nothing has been   *)
(* purged is in the bucket; of any other, the admitted requests and those  *)
(* that may yet be admitted to it are few enough.                          *)
(***************************************************************************)
Ordered ==
  /\ \A m \in admitted : m.at <= now /\ m.id < Cardinality(admitted)
  /\ \A m \in bucket : m.at + Window + Second <= expiry
  /\ ~suspending => \A r \in Requests : pc[r] = "deciding" => stamp[r] = now

Held == \E l \in Limits \cup {0} : Cardinality(bucket) <= l

Late(end) == {r \in Requests : pc[r] = "deciding" /\ stamp[r] <= end}

Counted(end) ==
  \E l \in Limits \cup {0} :
    Cardinality(AdmittedIn(end)) + Cardinality(Late(end)) <= l + Slack

Accounted ==
  \A end \in Nat : AdmittedIn(end) \subseteq bucket \/ (end < now /\ Counted(end))

IInv == TypeOK /\ Ordered /\ Held /\ Accounted

LEMMA InitHolds == Init => IInv
<1> SUFFICES ASSUME Init PROVE IInv
  OBVIOUS
<1>1. Cardinality({}) = 0 /\ IsFiniteSet({})
  BY FS_EmptySet
<1> QED
  BY <1>1, RateAssumption
     DEF Init, IInv, TypeOK, Ordered, Held, Accounted, AdmittedIn

LEMMA Sizes ==
  ASSUME TypeOK
  PROVE  /\ IsFiniteSet(bucket) /\ Cardinality(bucket) \in Nat
         /\ Cardinality(admitted) \in Nat
         /\ \A end \in Nat :
              /\ IsFiniteSet(AdmittedIn(end)) /\ Cardinality(AdmittedIn(end)) \in Nat
              /\ IsFiniteSet(Late(end)) /\ Cardinality(Late(end)) \in Nat
              /\ Cardinality(Late(end)) <= Cardinality(Requests)
         /\ Cardinality(Requests) \in Nat
         /\ Slack \in Nat
<1>1. IsFiniteSet(admitted) /\ IsFiniteSet(Requests) /\ bucket \subseteq admitted
  BY RateAssumption DEF TypeOK
<1>2. \A end \in Nat : AdmittedIn(end) \subseteq admitted /\ Late(end) \subseteq Requests
  BY DEF AdmittedIn, Late
<1>3. Cardinality(Requests) \in Nat
  BY <1>1, FS_CardinalityType
<1>4. Slack \in Nat
  BY <1>3, FS_EmptySet DEF Slack
<1> QED
  BY <1>1, <1>2, <1>3, <1>4, FS_Subset, FS_CardinalityType

LEMMA KeptSmall ==
  ASSUME TypeOK, NEW r \in Requests
  PROVE  /\ Kept(r) \subseteq bucket /\ IsFiniteSet(Kept(r))
         /\ Cardinality(Kept(r)) \in Nat /\ Cardinality(Kept(r)) <= Cardinality(bucket)
<1>1. Kept(r) \subseteq bucket
  BY DEF Kept, Live
<1> QED
  BY <1>1, Sizes, FS_Subset, FS_CardinalityType

LEMMA NewMember ==
  ASSUME TypeOK, Ordered, NEW r \in Requests
  PROVE  /\ New(r) \in Member /\ New(r) \notin admitted
         /\ New(r).at = stamp[r] /\ stamp[r] \in Nat /\ stamp[r] <= now
         /\ New(r).id = Cardinality(admitted)
         /\ IsFiniteSet(admitted \cup {New(r)})
         /\ Cardinality(admitted \cup {New(r)}) = Cardinality(admitted) + 1
<1>1. /\ New(r) \in Member /\ New(r).at = stamp[r] /\ stamp[r] \in Nat /\ stamp[r] <= now
      /\ New(r).id = Cardinality(admitted)
  BY Sizes DEF TypeOK, Member, New
<1>2. New(r) \notin admitted
  BY <1>1, Sizes DEF Ordered, TypeOK
<1> QED
  BY <1>1, <1>2, FS_AddElement DEF TypeOK

LEMMA TypeStep == TypeOK /\ Ordered /\ [Next]_vars => TypeOK'
<1> SUFFICES ASSUME TypeOK, Ordered, [Next]_vars PROVE TypeOK'
  OBVIOUS
<1> USE RateAssumption DEF TypeOK
<1>1. ASSUME NEW r \in Requests, Check(r) PROVE TypeOK'
  BY <1>1 DEF Check
<1>2. ASSUME NEW r \in Requests, Rejected(r) PROVE promises' \in SUBSET Promise
  <2>1. PICK oldest \in IF Kept(r) = {} THEN {stamp[r]} ELSE {m.at : m \in Kept(r)} :
          promises' = promises \cup
            {[at |-> stamp[r] + RetryAfter(oldest + Window - stamp[r]) * Second,
              held |-> Cardinality(Kept(r))]}
    BY <1>2 DEF Rejected
  <2>2. oldest \in Nat
    BY <2>1, KeptSmall DEF Member
  <2> DEFINE wait == RetryAfter(oldest + Window - stamp[r]) * Second
  <2>3. wait \in Nat
    BY <2>2, WaitLongEnough, WindowNat
  <2> HIDE DEF wait
  <2>4. stamp[r] \in Nat /\ Cardinality(Kept(r)) \in Nat
    BY KeptSmall
  <2>5. [at |-> stamp[r] + wait, held |-> Cardinality(Kept(r))] \in Promise
    BY <2>3, <2>4 DEF Promise
  <2> QED
    BY <2>1, <2>5 DEF wait
<1>3. ASSUME NEW r \in Requests,
             Allow(r) \/ Deny(r) \/ NothingOldest(r) \/ BackendFault(r)
      PROVE  TypeOK'
  <2>1. promises' \in SUBSET Promise
    BY <1>2, <1>3 DEF Allow, Deny, NothingOldest, BackendFault, Admitted
  <2>2. /\ pc' \in [Requests -> {"idle", "deciding", "allowed", "limited", "error"}]
        /\ UNCHANGED <<suspending, now, limit, stamp>>
    BY <1>3 DEF Allow, Deny, NothingOldest, BackendFault
  <2>3. /\ admitted' \in SUBSET Member /\ IsFiniteSet(admitted')
        /\ bucket' \subseteq admitted' /\ expiry' \in Nat
        /\ \A m, n \in admitted' : m.id = n.id => m = n
        /\ \A q \in Requests : pc'[q] = "deciding" => pc[q] = "deciding"
    <3>1. CASE Decided(r, {New(r)})
      <4>1. /\ admitted' = admitted \cup {New(r)} /\ bucket' = Kept(r) \cup {New(r)}
            /\ expiry' = now + Window + Second
            /\ \A q \in Requests : pc'[q] = "deciding" => pc[q] = "deciding"
        BY <3>1 DEF Decided
      <4>2. expiry' \in Nat
        BY <4>1, WindowNat
      <4>3. \A m \in admitted : m.id # New(r).id
        <5>1. New(r).id = Cardinality(admitted) /\ Cardinality(admitted) \in Nat
          BY NewMember, Sizes
        <5>2. \A m \in admitted : m.id \in Nat /\ m.id < Cardinality(admitted)
          BY DEF Ordered, Member
        <5> QED
          BY <5>1, <5>2
      <4>4. IsFiniteSet(admitted') /\ New(r) \in Member
        BY <4>1, NewMember
      <4>5. bucket' \subseteq admitted'
        BY <4>1, KeptSmall
      <4>6. \A m, n \in admitted' : m.id = n.id => m = n
        BY <4>1, <4>3
      <4> QED
        BY <4>1, <4>2, <4>4, <4>5, <4>6
    <3>2. CASE Decided(r, {})
      BY <3>2, KeptSmall, WindowNat DEF Decided
    <3>3. CASE Dropped(r)
      BY <3>3 DEF Dropped
    <3> QED
      BY <1>3, <3>1, <3>2, <3>3, Deciding DEF PCs
  <2> QED
    BY <2>1, <2>2, <2>3
<1>4. CASE Tick
  BY <1>4 DEF Tick
<1>5. CASE UNCHANGED vars
  BY <1>5 DEF vars
<1> QED
  BY <1>1, <1>3, <1>4, <1>5 DEF Next

LEMMA OrderedStep == TypeOK /\ Ordered /\ [Next]_vars => Ordered'
<1> SUFFICES ASSUME TypeOK, Ordered, [Next]_vars PROVE Ordered'
  OBVIOUS
<1>0. /\ now \in Nat /\ admitted \subseteq Member /\ bucket \subseteq admitted
      /\ pc \in [Requests -> PCs] /\ stamp \in [Requests -> Nat]
  BY DEF TypeOK, PCs
<1>1. ASSUME NEW r \in Requests, Check(r) PROVE Ordered'
  BY <1>0, <1>1 DEF Check, Ordered
<1>2. ASSUME NEW r \in Requests,
             Allow(r) \/ Deny(r) \/ NothingOldest(r) \/ BackendFault(r)
      PROVE  Ordered'
  <2>1. CASE Decided(r, {New(r)})
    <3> DEFINE c == Cardinality(admitted)
    <3>1. /\ admitted' = admitted \cup {New(r)} /\ bucket' \subseteq bucket \cup {New(r)}
          /\ expiry' = now + Window + Second /\ UNCHANGED <<suspending, now, stamp>>
          /\ \A q \in Requests : pc'[q] = "deciding" => pc[q] = "deciding"
      BY <2>1, KeptSmall DEF Decided
    <3>2. /\ c \in Nat /\ Cardinality(admitted') = c + 1
          /\ New(r).id = c /\ New(r).at \in Nat /\ New(r).at <= now
      BY <3>1, NewMember, Sizes
    <3> HIDE DEF c
    <3>3. \A m \in admitted : m.at \in Nat /\ m.id \in Nat /\ m.at <= now /\ m.id < c
      BY <1>0 DEF Ordered, Member, c
    <3>4. \A m \in admitted' : m.at <= now' /\ m.id < Cardinality(admitted')
      BY <3>1, <3>2, <3>3
    <3>5. \A m \in bucket' : m.at \in Nat /\ m.at <= now
      BY <1>0, <3>1, <3>2, <3>3
    <3>6. \A m \in bucket' : m.at + Window + Second <= expiry'
      BY <1>0, <3>1, <3>5, WindowNat, RateAssumption
    <3> QED
      BY <3>1, <3>4, <3>6 DEF Ordered
  <2>2. CASE Decided(r, {})
    <3>1. Kept(r) \subseteq bucket
      BY KeptSmall
    <3> QED
      BY <2>2, <3>1 DEF Decided, Ordered
  <2>3. CASE Dropped(r)
    BY <2>3 DEF Dropped, Ordered
  <2> QED
    BY <1>0, <1>2, <2>1, <2>2, <2>3, Deciding
<1>3. CASE Tick
  <2>1. /\ now' = now + 1 /\ UNCHANGED <<suspending, bucket, expiry, pc, stamp, admitted>>
        /\ ~suspending => \A r \in Requests : pc[r] # "deciding"
    BY <1>3 DEF Tick, Free
  <2>2. \A m \in admitted : m.at \in Nat /\ m.at <= now + 1
    BY <1>0 DEF Ordered, Member
  <2> QED
    BY <2>1, <2>2 DEF Ordered
<1>4. CASE UNCHANGED vars
  BY <1>4 DEF vars, Ordered
<1> QED
  BY <1>1, <1>2, <1>3, <1>4 DEF Next

LEMMA HeldStep == TypeOK /\ Ordered /\ Held /\ [Next]_vars => Held'
<1> SUFFICES ASSUME TypeOK, Ordered, Held, [Next]_vars PROVE Held'
  OBVIOUS
<1>1. PICK l \in Limits \cup {0} : Cardinality(bucket) <= l
  BY DEF Held
<1>2. ASSUME NEW r \in Requests, Decided(r, {New(r)}) PROVE Held'
  <2>1. bucket' = Kept(r) \cup {New(r)} /\ ~(Cardinality(Kept(r)) >= limit[r])
        /\ limit[r] \in Limits
    BY <1>2 DEF Decided, Full, TypeOK
  <2>2. New(r) \notin Kept(r)
    BY KeptSmall, NewMember DEF TypeOK
  <2>3. Cardinality(bucket') = Cardinality(Kept(r)) + 1 /\ Cardinality(Kept(r)) \in Nat
    BY <2>1, <2>2, KeptSmall, FS_AddElement
  <2>4. limit[r] \in Nat
    BY <2>1, RateAssumption
  <2>5. Cardinality(bucket') <= limit[r]
    BY <2>1, <2>3, <2>4
  <2> QED
    BY <2>1, <2>5 DEF Held
<1>3. ASSUME NEW r \in Requests, Decided(r, {}) PROVE Held'
  <2>1. bucket' = Kept(r)
    BY <1>3 DEF Decided
  <2>2. Cardinality(bucket') <= l
    BY <1>1, <2>1, KeptSmall, Sizes, RateAssumption
  <2> QED
    BY <2>2 DEF Held
<1>4. ASSUME bucket' = bucket PROVE Held'
  BY <1>4, <1>1 DEF Held
<1>5. pc \in [Requests -> PCs]
  BY DEF TypeOK, PCs
<1> QED
  BY <1>2, <1>3, <1>4, <1>5, Deciding DEF Next, Check, Dropped, Tick, vars

\* Once something of a window has been purged, the window is over, and what
\* was admitted to it fitted into the bucket.
LEMMA PurgedCounted ==
  ASSUME TypeOK, Ordered, Held, NEW r \in Requests, pc[r] = "deciding",
         NEW end \in Nat, AdmittedIn(end) \subseteq bucket,
         ~(AdmittedIn(end) \subseteq Kept(r))
  PROVE  end < now /\ Counted(end)
<1>1. PICK m \in AdmittedIn(end) : m \notin Kept(r)
  OBVIOUS
<1>2. /\ m \in bucket /\ m.at \in Nat /\ end - Window < m.at /\ m.at <= end
      /\ now \in Nat /\ stamp[r] \in Nat /\ stamp[r] <= now /\ expiry \in Nat
  BY <1>1 DEF AdmittedIn, TypeOK, Member
<1>4. end < now
  <2>1. CASE m \in Live
    <3>1. ~(m.at > stamp[r] - Window)
      BY <1>1, <2>1 DEF Kept
    <3> QED
      BY <1>2, <3>1, WindowNat
  <2>2. CASE m \notin Live
    <3>1. now >= expiry
      BY <1>2, <2>2 DEF Live
    <3>2. m.at + Window + Second <= expiry
      BY <1>2 DEF Ordered
    <3> QED
      BY <1>2, <3>1, <3>2, WindowNat, RateAssumption
  <2> QED
    BY <2>1, <2>2
<1>5. PICK l \in Limits \cup {0} : Cardinality(bucket) <= l
  BY DEF Held
<1>6. Cardinality(AdmittedIn(end)) <= Cardinality(bucket)
  BY Sizes, FS_Subset
<1>7. Cardinality(Late(end)) <= Slack
  <2>1. CASE suspending
    BY <2>1, Sizes DEF Slack
  <2>2. CASE ~suspending
    <3>1. Late(end) = {}
      BY <1>2, <1>4, <2>2 DEF Late, Ordered, TypeOK
    <3> QED
      BY <2>2, <3>1, FS_EmptySet DEF Slack
  <2> QED
    BY <2>1, <2>2
<1>8. l \in Nat
  BY RateAssumption
<1>9. Cardinality(AdmittedIn(end)) + Cardinality(Late(end)) <= l + Slack
  BY <1>5, <1>6, <1>7, <1>8, Sizes
<1> QED
  BY <1>4, <1>9 DEF Counted

\* A call that decides is late for the window it is admitted to.
LEMMA CountedStep ==
  ASSUME TypeOK, Ordered, NEW r \in Requests, NEW new, Decided(r, new),
         NEW end \in Nat, Counted(end)
  PROVE  Counted(end)'
<1> DEFINE A == AdmittedIn(end)
           L == Late(end)
<1>1. IsFiniteSet(A) /\ Cardinality(A) \in Nat /\ IsFiniteSet(L) /\ Cardinality(L) \in Nat
  BY Sizes
<1>2. PICK l \in Limits \cup {0} : Cardinality(A) + Cardinality(L) <= l + Slack
  BY DEF Counted
<1>3. l \in Nat /\ Slack \in Nat /\ Slack' = Slack
  BY RateAssumption, Sizes DEF Slack, Decided
<1>4. Late(end)' = L \ {r}
  BY DEF Decided, Late
<1>5. CASE new = {New(r)} /\ stamp[r] <= end
  <2>1. AdmittedIn(end)' \subseteq A \cup {New(r)}
    BY <1>5 DEF Decided, AdmittedIn
  <2>2. New(r) \notin A
    BY NewMember DEF AdmittedIn
  <2>3. IsFiniteSet(A \cup {New(r)}) /\ Cardinality(A \cup {New(r)}) = Cardinality(A) + 1
    BY <1>1, <2>2, FS_AddElement
  <2>4. /\ Cardinality(AdmittedIn(end)') <= Cardinality(A) + 1
        /\ Cardinality(AdmittedIn(end)') \in Nat
    BY <2>1, <2>3, FS_Subset, FS_CardinalityType
  <2>5. r \in L
    BY <1>5 DEF Decided, Late
  <2>6. Cardinality(Late(end)') = Cardinality(L) - 1
    BY <1>1, <1>4, <2>5, FS_RemoveElement
  <2>7. Cardinality(AdmittedIn(end)') + Cardinality(Late(end)') <= l + Slack'
    BY <1>1, <1>2, <1>3, <2>4, <2>6
  <2> QED
    BY <2>7 DEF Counted
<1>6. CASE ~(new = {New(r)} /\ stamp[r] <= end)
  <2>1. AdmittedIn(end)' = A
    BY <1>6, NewMember DEF Decided, AdmittedIn, TypeOK
  <2>2. Cardinality(Late(end)') <= Cardinality(L) /\ Cardinality(Late(end)') \in Nat
    BY <1>1, <1>4, FS_Subset, FS_CardinalityType
  <2>3. Cardinality(AdmittedIn(end)') + Cardinality(Late(end)') <= l + Slack'
    BY <1>1, <1>2, <1>3, <2>1, <2>2
  <2> QED
    BY <2>3 DEF Counted
<1> QED
  BY <1>5, <1>6

LEMMA AccountedStep ==
  TypeOK /\ Ordered /\ Held /\ Accounted /\ [Next]_vars => Accounted'
<1> SUFFICES ASSUME TypeOK, Ordered, Held, Accounted, [Next]_vars, NEW end \in Nat
             PROVE  (AdmittedIn(end) \subseteq bucket \/ (end < now /\ Counted(end)))'
  BY DEF Accounted
<1> DEFINE Goal == (AdmittedIn(end) \subseteq bucket \/ (end < now /\ Counted(end)))'
<1>0. /\ AdmittedIn(end) \subseteq bucket \/ (end < now /\ Counted(end))
      /\ now \in Nat /\ pc \in [Requests -> PCs] /\ stamp \in [Requests -> Nat]
  BY DEF Accounted, TypeOK, PCs
<1>1. ASSUME bucket' = bucket, admitted' = admitted, suspending' = suspending,
             now' >= now, now' \in Nat,
             end < now => Late(end)' \subseteq Late(end)
      PROVE  Goal
  <2>1. AdmittedIn(end)' = AdmittedIn(end) /\ Slack' = Slack
    BY <1>1 DEF AdmittedIn, Slack
  <2>2. ASSUME end < now, Counted(end) PROVE Counted(end)'
    <3>1. PICK l \in Limits \cup {0} :
            Cardinality(AdmittedIn(end)) + Cardinality(Late(end)) <= l + Slack
      BY <2>2 DEF Counted
    <3>2. /\ Cardinality(Late(end)') <= Cardinality(Late(end))
          /\ Cardinality(Late(end)') \in Nat
      BY <1>1, <2>2, Sizes, FS_Subset, FS_CardinalityType
    <3>3. l \in Nat
      BY RateAssumption
    <3>4. Cardinality(AdmittedIn(end)') + Cardinality(Late(end)') <= l + Slack'
      BY <2>1, <3>1, <3>2, <3>3, Sizes
    <3> QED
      BY <3>4 DEF Counted
  <2>3. end < now => end < now'
    BY <1>0, <1>1
  <2> QED
    BY <1>0, <1>1, <2>1, <2>2, <2>3
<1>2. ASSUME NEW r \in Requests, Check(r) PROVE Goal
  <2>1. end < now => Late(end)' \subseteq Late(end)
    BY <1>0, <1>2 DEF Check, Late
  <2>2. UNCHANGED <<suspending, bucket, admitted, now>>
    BY <1>2 DEF Check
  <2> HIDE DEF Goal
  <2> QED
    BY <1>0, <1>1, <2>1, <2>2
<1>3. ASSUME NEW r \in Requests, NEW new, Decided(r, new) PROVE Goal
  <2>1. CASE AdmittedIn(end) \subseteq Kept(r)
    BY <1>3, <2>1 DEF Decided, AdmittedIn
  <2>2. CASE ~(AdmittedIn(end) \subseteq Kept(r))
    <3>1. end < now /\ Counted(end)
      BY <1>0, <1>3, <2>2, PurgedCounted DEF Decided
    <3>2. end < now'
      BY <1>3, <3>1 DEF Decided
    <3> QED
      BY <1>3, <3>1, <3>2, CountedStep
  <2> QED
    BY <2>1, <2>2
<1>4. ASSUME NEW r \in Requests, Dropped(r) PROVE Goal
  <2>1. Late(end)' \subseteq Late(end)
    BY <1>4 DEF Dropped, Late
  <2>2. UNCHANGED <<suspending, bucket, admitted, now>>
    BY <1>4 DEF Dropped
  <2> HIDE DEF Goal
  <2> QED
    BY <1>0, <1>1, <2>1, <2>2
<1>5. ASSUME Tick PROVE Goal
  <2>1. /\ UNCHANGED <<suspending, bucket, admitted>> /\ now' = now + 1
        /\ Late(end)' = Late(end)
    BY <1>5 DEF Tick, Late
  <2> HIDE DEF Goal
  <2> QED
    BY <1>0, <1>1, <2>1
<1>6. ASSUME UNCHANGED vars PROVE Goal
  <2>1. UNCHANGED <<suspending, bucket, admitted, now>> /\ Late(end)' = Late(end)
    BY <1>6 DEF vars, Late
  <2> HIDE DEF Goal
  <2> QED
    BY <1>0, <1>1, <2>1
<1> HIDE DEF Goal
<1>7. ASSUME NEW r \in Requests,
             Allow(r) \/ Deny(r) \/ NothingOldest(r) \/ BackendFault(r)
      PROVE  Goal
  BY <1>0, <1>3, <1>4, <1>7, Deciding
<1>8. Goal
  BY <1>2, <1>5, <1>6, <1>7 DEF Next
<1> QED
  BY <1>8 DEF Goal

LEMMA Invariance == Spec => []IInv
<1>1. IInv /\ [Next]_vars => IInv'
  BY TypeStep, OrderedStep, HeldStep, AccountedStep DEF IInv
<1> QED
  BY <1>1, InitHolds, PTL DEF Spec

\* Type correctness of the limiter's state.
THEOREM TypeCorrect == Spec => []TypeOK
  BY Invariance, PTL DEF IInv

\* The sliding window: exact in memory, and with Redis off by no more than the
\* number of calls that can be delayed at once.
THEOREM WindowIsBounded == Spec => []WindowBounded
<1>1. IInv => WindowBounded
  <2> SUFFICES ASSUME IInv, NEW end \in 0 .. now
               PROVE  \E l \in Limits \cup {0} : Cardinality(AdmittedIn(end)) <= l + Slack
    BY DEF WindowBounded
  <2>0. TypeOK /\ end \in Nat
    BY DEF IInv, TypeOK
  <2>1. CASE AdmittedIn(end) \subseteq bucket
    <3>1. PICK l \in Limits \cup {0} : Cardinality(bucket) <= l
      BY DEF IInv, Held
    <3>2. Cardinality(AdmittedIn(end)) <= Cardinality(bucket)
      BY <2>0, <2>1, Sizes, FS_Subset
    <3>3. l \in Nat
      BY RateAssumption
    <3>4. Cardinality(AdmittedIn(end)) <= l + Slack
      BY <2>0, <3>1, <3>2, <3>3, Sizes
    <3> QED
      BY <3>4
  <2>2. CASE Counted(end)
    <3>1. PICK l \in Limits \cup {0} :
            Cardinality(AdmittedIn(end)) + Cardinality(Late(end)) <= l + Slack
      BY <2>2 DEF Counted
    <3>2. l \in Nat
      BY RateAssumption
    <3>3. Cardinality(AdmittedIn(end)) <= l + Slack
      BY <2>0, <3>1, <3>2, Sizes
    <3> QED
      BY <3>3
  <2> QED
    BY <2>0, <2>1, <2>2 DEF IInv, Accounted
<1> QED
  BY <1>1, Invariance, PTL

-----------------------------------------------------------------------------
After(p) == {m \in bucket : m.at > p.at - Window}

LEMMA RejectedHonestly ==
  ASSUME TypeOK, RetryAfterHonest, NEW r \in Requests, Rejected(r)
  PROVE  RetryAfterHonest'
<1> DEFINE held == Cardinality(Kept(r))
<1>1. PICK oldest \in IF Kept(r) = {} THEN {stamp[r]} ELSE {m.at : m \in Kept(r)} :
        promises' = promises \cup
          {[at |-> stamp[r] + RetryAfter(oldest + Window - stamp[r]) * Second,
            held |-> held]}
  BY DEF Rejected
<1>2. /\ bucket' = Kept(r) /\ Kept(r) \subseteq bucket /\ IsFiniteSet(Kept(r))
      /\ held \in Nat /\ IsFiniteSet(bucket)
  BY KeptSmall, Sizes DEF Rejected
<1> SUFFICES ASSUME NEW p \in promises', p.held > 0
             PROVE  Cardinality(After(p)') < p.held
  BY <1>1 DEF RetryAfterHonest, After
<1>3. After(p)' = {m \in Kept(r) : m.at > p.at - Window}
  BY <1>2 DEF After, Window
<1>4. CASE p \in promises
  <2>1. After(p)' \subseteq After(p) /\ IsFiniteSet(After(p))
    BY <1>2, <1>3, FS_Subset DEF After
  <2>2. Cardinality(After(p)') <= Cardinality(After(p))
    BY <2>1, FS_Subset
  <2>3. Cardinality(After(p)) < p.held /\ p.held \in Nat
    BY <1>4 DEF RetryAfterHonest, After, TypeOK, Promise
  <2>4. Cardinality(After(p)) \in Nat /\ Cardinality(After(p)') \in Nat
    BY <2>1, FS_Subset, FS_CardinalityType
  <2> QED
    BY <2>2, <2>3, <2>4
<1>5. CASE p \notin promises
  <2> DEFINE wait == RetryAfter(oldest + Window - stamp[r]) * Second
  <2>1. p.at = stamp[r] + wait /\ p.held = held
    BY <1>1, <1>5
  <2>2. Kept(r) # {}
    BY <2>1, FS_EmptySet
  <2>3. PICK m \in Kept(r) : m.at = oldest
    BY <1>1, <2>2
  <2>4. oldest \in Nat /\ stamp[r] \in Nat /\ Window \in Nat
    BY <1>2, <2>3, WindowNat DEF TypeOK, Member
  <2>5. wait \in Nat /\ wait >= oldest + Window - stamp[r]
    BY <2>4, WaitLongEnough
  <2> HIDE DEF wait
  <2>6. ~(m.at > p.at - Window)
    BY <2>1, <2>3, <2>4, <2>5
  <2>7. After(p)' \subseteq Kept(r) \ {m}
    BY <1>3, <2>6
  <2>8. IsFiniteSet(Kept(r) \ {m}) /\ Cardinality(Kept(r) \ {m}) = held - 1
    BY <1>2, <2>3, FS_RemoveElement
  <2>9. Cardinality(After(p)') <= held - 1 /\ Cardinality(After(p)') \in Nat
    BY <2>7, <2>8, FS_Subset, FS_CardinalityType
  <2> QED
    BY <1>2, <2>1, <2>9
<1> QED
  BY <1>4, <1>5

LEMMA HonestStep ==
  TypeOK /\ RetryAfterHonest /\ [Next]_vars => RetryAfterHonest'
<1> SUFFICES ASSUME TypeOK, RetryAfterHonest, [Next]_vars PROVE RetryAfterHonest'
  OBVIOUS
<1>1. ASSUME bucket' = bucket, promises' = promises PROVE RetryAfterHonest'
  BY <1>1 DEF RetryAfterHonest, Window
<1>2. ASSUME NEW r \in Requests, Admitted(r) PROVE RetryAfterHonest'
  BY <1>2 DEF Admitted, RetryAfterHonest
<1>3. ASSUME NEW r \in Requests, NothingOldest(r) PROVE RetryAfterHonest'
  <2>1. bucket' = {} /\ promises' = promises
    BY <1>3 DEF NothingOldest
  <2>2. \A p \in promises : p.held \in Nat
    BY DEF TypeOK, Promise
  <2>3. \A p \in promises : {m \in bucket' : m.at > p.at - Window'} = {}
    BY <2>1
  <2> QED
    BY <2>1, <2>2, <2>3, FS_EmptySet DEF RetryAfterHonest, Window
<1> QED
  BY <1>1, <1>2, <1>3, RejectedHonestly
     DEF Next, Check, Allow, Deny, BackendFault, Tick, vars

\* Retry-After: a caller that waits as long as it was told finds a place freed.
THEOREM RetryAfterIsHonest == Spec => []RetryAfterHonest
<1>1. Init => RetryAfterHonest
  BY DEF Init, RetryAfterHonest
<1>2. TypeOK /\ RetryAfterHonest /\ [Next]_vars => RetryAfterHonest'
  BY HonestStep
<1> QED
  BY <1>1, <1>2, TypeCorrect, PTL DEF Spec
=============================================================================
