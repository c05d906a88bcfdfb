---------------------------- MODULE RateLimiter ----------------------------
(***************************************************************************)
(* RateLimiter.check (app/rate_limit.py) for one principal, on either      *)
(* backend (app/state.py): a sliding window of the stamps of the requests  *)
(* that were admitted.                                                     *)
(*                                                                         *)
(* suspending = TRUE is the Redis backend: the gateway takes the stamp and *)
(* the script runs some time later, after the scripts of any requests it   *)
(* has been overtaken by; the key expires by the clock of Redis.           *)
(* suspending = FALSE is the memory backend, where nothing comes between   *)
(* the stamp and the decision, and no bucket expires.  The clocks of the   *)
(* gateways and of Redis are one clock.                                    *)
(***************************************************************************)
EXTENDS Integers, FiniteSets

CONSTANTS
  Requests,       \* calls of check in progress at once
  Limits,         \* requests per minute, of the settings and of all overrides
  WindowSeconds,  \* window_seconds
  Second,         \* ticks in a second
  MaxTime         \* bound on the clock, for the model checker only

ASSUME RateAssumption ==
  /\ IsFiniteSet(Requests)
  /\ Limits \subseteq Nat
  /\ WindowSeconds \in Nat \ {0}
  /\ Second \in Nat \ {0}
  /\ MaxTime \in Nat

VARIABLES
  suspending,  \* the backend is Redis
  now,       \* time.time()
  bucket,    \* rate:<principal>, one member for every admitted request
  expiry,    \* when Redis drops the key
  pc,        \* where the call of check is, or what it has answered
  limit,     \* the limit that applies to the call
  stamp,     \* now, as the call has read it
  \* history:
  admitted,  \* every member the bucket has ever had
  promises   \* what callers were told since the last admission

vars == <<suspending, now, bucket, expiry, pc, limit, stamp, admitted, promises>>

Window == WindowSeconds * Second

\* "<now_ms>:<uuid4>"; the uuid is a serial number.
Member == [at : Nat, id : Nat]

\* The caller may come back "at"; the bucket was holding so many members.
Promise == [at : Nat, held : Nat]

Init ==
  /\ suspending \in BOOLEAN
  /\ now = 0
  /\ bucket = {}
  /\ expiry = 0
  /\ pc = [r \in Requests |-> "idle"]
  /\ limit = [r \in Requests |-> 0]
  /\ stamp = [r \in Requests |-> 0]
  /\ admitted = {}
  /\ promises = {}

\* Nothing comes between the stamp and the decision of the memory backend.
Free == suspending \/ \A r \in Requests : pc[r] # "deciding"

\* A slot takes a request: its limit is the override of its principal, or the
\* default without one, and it reads the clock.
Check(r) ==
  /\ Free /\ pc[r] # "deciding"
  /\ \E l \in Limits : limit' = [limit EXCEPT ![r] = l]
  /\ stamp' = [stamp EXCEPT ![r] = now]
  /\ pc' = [pc EXCEPT ![r] = "deciding"]
  /\ UNCHANGED <<suspending, now, bucket, expiry, admitted, promises>>

Live == IF suspending /\ now >= expiry THEN {} ELSE bucket

\* Mutant: the cutoff is one tick late.
KeptShort(r) == {m \in Live : m.at > stamp[r] - Window + 1}

\* What the purge up to the cutoff leaves.
Kept(r) == {m \in Live : m.at > stamp[r] - Window}

Full(r) == Cardinality(Kept(r)) >= limit[r]

\* Mutant: the member is the stamp alone.
AdmittedUnnamed(r) ==
  LET m == [at |-> stamp[r], id |-> 0] IN
  /\ ~Full(r)
  /\ bucket' = Kept(r) \cup {m}
  /\ admitted' = admitted \cup {m}
  /\ expiry' = now + Window + Second
  /\ promises' = {}

\* The request is recorded, and the key lives a second longer than the window.
Admitted(r) ==
  LET m == [at |-> stamp[r], id |-> Cardinality(admitted)] IN
  /\ ~Full(r)
  /\ bucket' = Kept(r) \cup {m}
  /\ admitted' = admitted \cup {m}
  /\ expiry' = now + Window + Second
  /\ promises' = {}

\* Mutant: the seconds to wait are rounded down.
RetryAfterDown(ticks) == IF ticks < 2 * Second THEN 1 ELSE ticks \div Second

\* Seconds to wait, rounded up, at least one.
RetryAfter(ticks) ==
  IF ticks <= Second THEN 1 ELSE (ticks + Second - 1) \div Second

\* The wait is counted from the oldest member, or from now if a limit of zero
\* rejects with an empty bucket.
Rejected(r) ==
  /\ Full(r)
  /\ bucket' = Kept(r)
  /\ \E oldest \in IF Kept(r) = {} THEN {stamp[r]} ELSE {m.at : m \in Kept(r)} :
       /\ \A m \in Kept(r) : oldest <= m.at
       /\ promises' = promises \cup
            {[at |-> stamp[r] + RetryAfter(oldest + Window - stamp[r]) * Second,
              held |-> Cardinality(Kept(r))]}
  /\ UNCHANGED <<admitted, expiry>>

Allow(r) ==
  /\ pc[r] = "deciding"
  /\ Admitted(r)
  /\ pc' = [pc EXCEPT ![r] = "allowed"]
  /\ UNCHANGED <<suspending, now, limit, stamp>>

Deny(r) ==
  /\ pc[r] = "deciding"
  /\ suspending \/ Kept(r) # {}
  /\ Rejected(r)
  /\ pc' = [pc EXCEPT ![r] = "limited"]
  /\ UNCHANGED <<suspending, now, limit, stamp>>

\* The memory backend looks for the oldest entry of an empty bucket when a
\* limit of zero is configured: IndexError, answered 500.
NothingOldest(r) ==
  /\ pc[r] = "deciding"
  /\ ~suspending /\ Full(r) /\ Kept(r) = {}
  /\ bucket' = {}
  /\ pc' = [pc EXCEPT ![r] = "error"]
  /\ UNCHANGED <<suspending, now, expiry, limit, stamp, admitted, promises>>

\* RedisError: the answer is 500, whether or not the script has run.
BackendFault(r) ==
  /\ suspending /\ pc[r] = "deciding"
  /\ \/ Admitted(r) \/ Rejected(r)
     \/ UNCHANGED <<bucket, admitted, expiry, promises>>
  /\ pc' = [pc EXCEPT ![r] = "error"]
  /\ UNCHANGED <<suspending, now, limit, stamp>>

Tick ==
  /\ Free /\ now < MaxTime
  /\ now' = now + 1
  /\ UNCHANGED <<suspending, bucket, expiry, pc, limit, stamp, admitted, promises>>

Next ==
  \/ \E r \in Requests :
       Check(r) \/ Allow(r) \/ Deny(r) \/ NothingOldest(r) \/ BackendFault(r)
  \/ Tick

Spec == Init /\ [][Next]_vars

-----------------------------------------------------------------------------
(* Properties. *)

\* The shape of the state; the bucket holds admitted requests only, and those
\* under distinct names.
TypeOK ==
  /\ suspending \in BOOLEAN /\ now \in Nat /\ expiry \in Nat
  /\ admitted \in SUBSET Member /\ IsFiniteSet(admitted)
  /\ bucket \subseteq admitted
  /\ \A m, n \in admitted : m.id = n.id => m = n
  /\ pc \in [Requests -> {"idle", "deciding", "allowed", "limited", "error"}]
  /\ limit \in [Requests -> Limits \cup {0}]
  /\ stamp \in [Requests -> Nat]
  /\ \A r \in Requests : stamp[r] <= now /\ (pc[r] = "deciding" => limit[r] \in Limits)
  /\ promises \in SUBSET Promise

AdmittedIn(end) == {m \in admitted : end - Window < m.at /\ m.at <= end}

Slack == IF suspending THEN Cardinality(Requests) ELSE 0

\* In no window of the length of the limiter's are more requests admitted than
\* the greatest limit of the principal, exactly for the memory backend.  A
\* script of the Redis backend that was overtaken finds the bucket purged past
\* its own window, or expired, so there as many more can be admitted as can be
\* delayed at once, and not more.
WindowBounded ==
  \A end \in 0 .. now :
    \E l \in Limits \cup {0} : Cardinality(AdmittedIn(end)) <= l + Slack

\* Retry-After tells the truth: when nobody of the principal is admitted in the
\* meantime, a caller that waits that long finds one member less in the bucket
\* than the number it was rejected for.  That makes room for it, unless its
\* limit has been lowered under what the bucket was holding.
RetryAfterHonest ==
  \A p \in promises :
    p.held > 0 => Cardinality({m \in bucket : m.at > p.at - Window}) < p.held
=============================================================================
