# Formal model of the Multi-LLM AI Gateway

TLA+ modules, TLC configurations and TLAPS proofs for the gateway in `app/`:
what happens to a chat request between its credential and the last byte of its
answer, and to the shared state in Redis (or in memory) that it meets on the
way. File names and line numbers below are relative to the repository.

    tlc -config Router.cfg MCRouter      # and so for every run listed below
    tlapm RouterProofs.tla               # and so for every ...Proofs module

## 1. The system

The gateway is one asyncio program, run in any number of replicas over one
Redis, or in a single process over the memory backend. Inside a process
requests interleave at every `await` that suspends; between replicas they
interleave at every Redis command. Nothing locks across an `await`.

| Component (source) | State | Operations | Talks to |
|---|---|---|---|
| Circuit breaker (`resilience.py`, `state.py`) | `circuit:<provider>`: failures, opened_at | allow, success, failure (a Lua script in Redis), status | router |
| Model router (`router.py`) | none of its own; loop counters of a request | candidates, route, stream_route | circuits, providers, governance snapshot, round-robin cursor |
| Chat handler (`main.py`) | none; the request's own locals | controls (policy, rate, budget), routing, pricing, recording, metrics, stream | everything |
| Budget manager (`budget.py`) | none; reads `usage:cost:...` | status, allowed | ledger |
| Usage ledger (`usage.py`, `state.py`) | a list of records (memory), or counters and a list of 20 (Redis) | record, period_cost, snapshot | handler, budget |
| Rate limiter (`rate_limit.py`, `state.py`) | `rate:<principal>`: stamps of the admitted requests | check (a Lua script in Redis) | handler |
| Client registry (`governance.py`) | `governance:clients`: digest -> client | create, update, rotate, delete, authenticate | admin API, authentication |
| Governance configuration (`governance.py`) | aliases, pools, prices, policies, routing policy | one HSET or HDEL each; snapshot reads five hashes | admin API, router, handler |
| Audit log (`governance.py`) | list of the latest 200 events | audit, audit_events | every admin operation |
| Policy engine (`policy.py`) | none | evaluate | handler |
| OIDC authenticator (`identity.py`) | the cached key set and its load time, per replica | authenticate, role_from_claims | authentication |
| Authentication and roles (`security.py`) | none | the chain of credentials, role checks | registry, OIDC |
| Provider adapters (`providers/`) | none | chat, stream, configured | router |
| Round-robin cursor (`state.py`) | one counter per pool | round_robin_index | router |
| Observability, admin API, settings, console, legacy pricing, deployment | metrics; none | wiring | |

What is hard in it:

* **Check, wait, act.** The circuit is read before a decision and changed by
  others in between; the budget is read before the provider call and charged
  after it; `update_client` writes back what it read; the price is read after
  the call.
* **Stamps that travel.** A failure, a rate-limit stamp, a ledger key and a key
  set's load time are all taken from a clock before the command they belong to
  is executed, and commands overtake each other.
* **Two commands where one is meant.** Key rotation; audit and its trimming;
  the usage and governance snapshots.
* **Half-done work.** A Redis error may come before or after the command was
  executed; a stream fails or is closed in the middle; a replica dies between
  two commands.
* **Two implementations of everything**, memory and Redis, that must agree.
* **Calls that may never return.** Streams are opened with `timeout=None`.

What makes each component correct:

* router: it gives up only when it must, tries targets in order, each for its
  full number of attempts, and always ends; an open circuit lets nothing
  through but what it must;
* handler: money spent, ledger, metrics and answers tell one story; the budget
  can be passed only by what was in progress;
* ledger: both backends compute the same figures; a snapshot errs in a known
  direction;
* rate limiter: no window admits more than its limit; Retry-After is true;
* registry: a client keeps an entry, and its owner a key that works unless an
  operation on it has failed; a replaced key stays dead; a deleted client has
  none;
* list of candidates: every target once, in the order of the policy, and evenly
  in turn;
* policy engine: the lowest number that decides rules; an edit concerns only the
  requests its rule matches; a new deny lets nothing through;
* governance: the parts of a snapshot age in one direction only; the price
  charged is one that was in force after the answer;
* audit log: nothing is changed without a trace, and what is shown is the newest;
* authentication: a request gets a role that one of its credentials is worth,
  and a client no role but those it was given;
* key cache: no token is refused for a key that is published, none accepted
  for one that was withdrawn longer ago than the cache time.

## 2. The modules

| Module | Models | Built on |
|---|---|---|
| `CircuitBreaker` | the value of a circuit and how each operation changes it (both backends) | |
| `RouteContract` | abstract: what the router promises the handler | |
| `Router` | `route` and `stream_route`, await by await | EXTENDS `CircuitBreaker`; implements `RouteContract` |
| `Candidates` | `candidates`: pools, aliases, fallbacks, de-duplication, the four orders, the cursor | |
| `PolicyEngine` | `evaluate`, over policies that administrators edit | |
| `Gateway` | the chat handler, its controls, its ledger keys | EXTENDS `RouteContract`, whose actions are conjoined to the handler's |
| `ClientRegistry` | the operations on clients, command by command, both backends | |
| `Access` | the chain of credentials, the role checks, and the admin operations behind them | EXTENDS `ClientRegistry`, whose actions are the handlers' |
| `GovernanceStore` | set and delete of the configuration and the audit log, command by command, both backends | |
| `GovernanceReads` | the three snapshots of a chat request | EXTENDS `GovernanceStore`, whose operations go on meanwhile |
| `RateLimiter` | `RateLimiter.check`, both backends | |
| `UsageLedger` | the Redis ledger, with the memory ledger as its reference | |
| `JwksCache` | the key cache of the OIDC authenticator | |
| `MC...` | values of the constants for TLC; `MCDecisions` checks `Candidates` and `PolicyEngine` | the module named |
| `RouterProofs`, `GatewayProofs`, `RateProofs`, `LedgerProofs`, `JwksProofs` | theorems about the module named | that module, TLAPS |
| `AccessProofs` | theorems about `ClientRegistry` and `Access` | `Access` |
| `GovernanceProofs` | theorems about `GovernanceStore` and `GovernanceReads` | `GovernanceReads` |
| `DecisionProofs` | theorems about `Candidates` and `PolicyEngine` | both, which share no name |

`Gateway` and `Router` meet in `RouteContract`: the router implements it, by
the refinement mapping `Contract` at the end of `Router`, and the handler uses
nothing else of the router. A request is "routing" in the contract as long as
the router's coroutine (for a stream, its generator) runs.

Conventions. A process (request, admin task) is a slot with a program counter
`pc[r]` that says which await it is suspended in; an action is the code from
one await to the next, all of it. Variables marked "history" are read by no
action. A Redis command appears where Redis executes it; what its caller
computed before (a clock, a key) is kept in a variable of the slot. An error of
the backend is the end of the slot's operation, with the command executed or
not. Operators commented "Mutant" are plausible bugs that the properties are
known to catch; no specification uses them.

### CircuitBreaker and Router

`circuit[p]` is the hash `circuit:<p>`; a missing one is `Closed`. `ReadCircuit`
and `AdmitTarget`/`SkipOpen` are the two halves of `circuit_allow`: the HGETALL,
and the decision with the clock of when its reply is back. `ProviderFails` takes
the clock for the failure script, `ReportFailure` is the script's execution and
what `route` does next: retry the same target (without asking the circuit),
go to the next, or, for a stream, raise. `ProviderCrashes` is any exception
that is not a GatewayError, which leaves the router without a report.
`Disconnect` closes a stream's generator at whichever await it is in. The list
of targets is any list in `CandidateLists`, which stands for what `candidates`
returns. The memory backend's circuit operations never suspend, so its
behaviours are those of the Redis backend in which the halves follow each other
directly: every safety property carries over.

### Gateway

`pc` follows `chat_completions` through `_enforce_request_controls`, the router,
pricing, `usage_store.record`, metrics and the answer; `_stream_response` is the
same path with a stream's outcomes. `asked[r]` is the date from which the
pending read of the budget computed its key, `stamp[r]` the record's timestamp:
both can be of the day before when Redis executes the command. Costs are
integers in the unit of the limits; policy and rate decisions are either way.
Slots are reused (`Leave`), so the number of requests is the number in progress
at once, not the number of requests.

### ClientRegistry

`store` is the hash of the clients: a key is its digest, a record keeps id,
role and enabled (name, prefix and timestamps only travel with it; the rate
limit override behaves as the role). `Suspending` chooses the backend: with the
memory backend nothing awaited suspends, so a task keeps the event loop
(`loop`) from its first command to its last. A `Fault` ends an operation at any
command, executed or not. The variables from `issuedKeys` on are history, for
the properties (random keys and ids, which never repeat, are drawn from those
not yet issued): `handed` are the keys that a create or a rotation has returned,
`stranded` the clients of which one has failed after it changed the store.

### Access

`stage[t]` is where the request is in the chain of `_authenticate` and the role
checks: the two awaits are `lookup`, the HGET of `authenticate_client`, and
`token`, the OIDC authenticator, which suspends with both backends and ends
either way (`JwksCache` models what happens inside). `AtTheDoor` and
`WithoutKey` are the code before and after the lookup. `who[t]` is the
principal; `Operate` is the operation an admitted administrator has asked for,
step by step as in `ClientRegistry`, so a request that authenticates meets the
commands of others. `settings` are the keys and the OIDC switch, any values,
constant during a behaviour. A managed key is represented by its digest.
`granted` is history: the roles that a create or an update gave to a client, as
long as a stored record has them or an operation is about to store one that has
(`Carried`).

### Candidates

`Begin` is the code from the snapshot to the first await: the names of the pool
and the fallbacks, `_resolve`, `_dedupe_targets`, and the order, unless it is
round robin over more than one target. `TakeTurn` is the INCR and the rotation;
the memory backend does the same without suspending. A price is an integer or
missing (`inf` in `_cost_score`). `window` is history: the list of the latest
turns of a model and how often each place in it came first. `Router` takes its
lists as given (`CandidateLists`); `EveryTargetOnce` is what it assumes of them.

### PolicyEngine

`evaluate` is the function `Verdict`; the state is what it is a function of: the
dynamic policies and the order in which the store enumerates them, which
matters because `sorted` is stable. `Rehash` is Redis returning a hash in
another order. A glob is the set of models it matches.

### GovernanceStore

A field is one entry of a section. An operation of the admin API is `Upsert` or
`Delete` (with the code's refusals), then `Write`, `Push` and `Trim`: HSET or
HDEL, LPUSH, LTRIM. `event[a]` is what it writes and records. The variable
`suspending` is the backend, any at the beginning and the same ever after: with
memory an operation keeps the event loop (`loop`) from start to end. `configs`,
every configuration so far, and `pushed`, every event so far, are history, as
are the rest after them; no action decides by them but for the bound. `Fault`
separates the two cases in which a write is never recorded (`lost`: the write
executed and its reply lost, or the push not executed) from the others.
`contested` are the fields whose last write was executed between another's
write and its push, or is lost; a write that meets neither takes its field out.

### GovernanceReads

A chat request takes a snapshot three times: for its policies (`use` =
"judge"), for its targets ("route") and for its price ("price", for a stream
once per chunk that reports usage). `at[r]` is the section it reads next,
`view[r]` what it has read, settings included. The other two awaits of the
controls, rate limit and budget, are left out: with Redis they only give others
more time, with memory they do not suspend. `floor[r]` is history: the newest
change whose operation had returned when the snapshot began.

### RateLimiter

One principal, since principals share nothing. `bucket` is its sorted set (or
list), `expiry` the key's EXPIRE. `Check` computes the limit and the stamp,
`Allow` and `Deny` are the script, with the rounding to seconds of the caller.
`Second` is the number of ticks in a second, so that rounding is rounding.
`NothingOldest` is the IndexError of the memory backend on a limit of zero. The
backend is the variable `suspending`, as in `GovernanceStore`.

### UsageLedger

`Stored` is the MULTI/EXEC of a record. A snapshot is `ReadTotals`,
`ReadModels`, one `ReadRow` per model and `ReadRecent`. The history variable
`log` is the list that the memory backend would hold, and the operators
`MemoryTotals`, `MemoryRow`, `MemoryPeriodCost` and `MemoryRecent` are what
`InMemoryStateBackend` computes from it; `MemorySum` is its loop, a recursive
function over the places of the list.

### JwksCache

`jwks` and `loadedAt` are `_jwks` and `_jwks_loaded_at`. The only await of
`_load_jwks` is the HTTP request: `IssuerAnswers` takes the issuer's keys of
that moment, `Loaded` is the code from the reply to the next await or the
end, the second load included.

## 3. What the runs check

All runs but the three marked so end without an error. Sizes are distinct
states.

| Run | States | Shows |
|---|---|---|
| `router` | 403,922 | `AdmissionWindow`, `TargetsInOrder`, `MeetsContract`, `RouteEnds` |
| `gateway` | 494,745 | `OvershootBounded`, `AnswersAccounted`, `HandlerEnds` |
| `access_redis` | 581,456 | `KeyInHands`, `RemovalsLast`, `RolesGranted` |
| `access_memory` | 220,932 | `RotatedKeyDead`, `OneKeyPerClient`, `DeleteIsFinal`, `OnlyOwnRoles`, `ActsWhileEntitled` |
| `registry_old_key` (violation) | - | `RotatedKeyDead` fails with Redis |
| `registry_two_keys` (violation) | - | `OneKeyPerClient` fails with Redis |
| `rate` | 1,300,387 | `WindowBounded`, `RetryAfterHonest` |
| `ledger` | 178,597 | `BackendsAgree`, `SnapshotBounds` |
| `jwks` | 1,128,317 | `PublishedKeyFound`, `StalenessBounded` |
| `decisions` | 363,809 | `EveryTargetOnce`, `PolicyOrder`, `EvenTurns`, `LowestNumberRules`, `VerdictsAreStable`, `DenyStands` |
| `governance` | 416,371 | `AuditWindow`, `LogBounded`, `AuditComplete`, `LogTellsState`, `SnapshotInOrder`, `PriceOfAnswer`, `OneSnapshotInMemory` |
| `reads_torn` (violation) | - | `OneEffectiveSnapshot` fails with Redis |

The runs `router`, `gateway`, `access_redis`, `rate`, `jwks` and `governance`
also check the module's `TypeOK`.

* `AdmissionWindow`: a request that is calling a provider with an open circuit
  read the circuit before it was opened, or came after the recovery interval.
  It is the exact statement of what the breaker guarantees in spite of the
  unlocked read, late successes and retries that do not ask.
* `MeetsContract`: the refinement. Its substance is `Exhaust`: a 502 "all
  targets failed" is possible only if no candidate is a reliable provider
  (such as `mock`, which is always configured and never fails), whatever the
  other requests do to the circuits.
* `OvershootBounded`: for a positive limit, the cost charged to a day or month
  is below the limit plus `MaxCost` times the number of requests in progress at
  once. The gate itself promises no less and no more: README.md calls it a gate
  before the provider call.
* `AnswersAccounted`: a 200 answer or `[DONE]` means exactly one record and one
  count in the metrics; an interrupted stream, a fault or a refusal is never
  counted as a success; a refused request costs nothing.
* `WindowBounded`: exact in memory. With Redis the stamp is taken before the
  script runs, and a script that was overtaken finds a bucket that has been
  purged past its own window; as many requests more than the limit as can be
  overtaken at once. The bound is tight: it fails with one less.
* `KeyInHands`: until a delete looks it up, a client that was created has an
  entry, through all interleavings and faults of updates and rotations, so that
  an administrator can always rotate its key again. Its owner keeps a key that
  works as long as no create and no rotation of the client fails after changing
  the store, and only so long: if the reply to the HDEL is lost or the audit
  entry cannot be written (`app/governance.py:338-344`), the request ends with a
  500, the old key is dead, and the new one was returned to nobody.
* `RemovalsLast`: `RotatedKeyDead` and `DeleteIsFinal` fail with Redis, because
  an update or a rotation that had looked up the client stores it again. This
  is all that can go wrong: what was removed, a key or a client with all its
  keys, comes back through no operation that starts, or looks the client up,
  after the removal.
* `SnapshotBounds`: a usage snapshot is not of one moment, but its totals are
  of its beginning and its rows of no earlier, so the rows account for at least
  what the totals show, and for nothing that was not recorded.
* `StalenessBounded`: because the load time is the clock of before the request,
  a withdrawn key is accepted from the cache for less than the cache time.
* `EveryTargetOnce`, `PolicyOrder`: declarative definitions of the list, against
  the loops that make it. A target that several names stand for is tried once,
  at the place of the first name; nothing is lost.
* `EvenTurns`: the cursor of a model moves for every turn, also for those that
  fail afterwards and for lists that configuration changes have made longer or
  shorter in between; within one list, no target is first twice more often than
  another.
* `VerdictsAreStable`: what an edit of the policies, or another order of the
  Redis hash, can change. The exception is real: policies of equal priority that
  disagree are decided by the order of a hash, unless both are the settings'.
* `DenyStands`: a rule can deny by its cap and by streaming before its effect is
  looked at, and it may be placed before the rule that denied so far; still,
  adding one that denies never lets a denied request through.
* `AuditComplete`: every write leaves its event before its operation returns.
  The event is pushed by a command of its own, so a crash or an error between
  the two does lose it; the property says that nothing else does, neither a
  failure anywhere else in the operation nor any overlap.
* `LogTellsState`: for the same reason a write executed between another's write
  and its push, or one that loses its event, can leave the log telling another
  value than the one in force. The property says for how long: until the next
  write of that field that meets neither.
* `SnapshotInOrder`: a snapshot is not of one moment, but its parts are of
  moments in the order they are read, after the policies', and none older than
  the request.
* `PriceOfAnswer`: the price charged is one that was in force after the answer,
  not the one the request was admitted or routed under.
* `OnlyOwnRoles`: checked against a definition of what each credential is worth
  by itself, for all combinations of header, key and token, and all settings.
* `RolesGranted`: `rotate_client_key` stores a copy of the record it read, and
  `update_client` another. A rotation that overlaps an update can so bring back
  the role that the update took away; no document promises otherwise. The
  property says that no other than such an operation can: when none is left that
  had read the old role and has yet to store it, and no entry has it, nobody
  gets in with it again, and nobody ever gets in with a role that was not given
  to this client.
* `ActsWhileEntitled`: with memory, nothing comes between the lookup of a key
  and the start of the operation it admits, which nothing checks again. With
  Redis it does not hold: the lookup and the operation's commands are separate.

### Bounds

`MaxTime` and `LastDay` bound clocks, `MaxRecords` the ledger's list, `MaxTurns`
the cursors, `MaxWrites` the configuration's history, and the finite sets of ids
and digests the number of keys ever made; these bounds, and the two guards named
below, are all that ends behaviours. Two requests are enough for every hazard
listed: one that acts and one that overtakes it.

* `Router.cfg`: time 2 with a recovery of 1 lets a circuit open, recover and open
  again; threshold 2 and one retry let one request open a circuit alone or with
  the other's help; the lists have two targets of one provider (so that a
  request meets the circuit it has opened), and a fallback over an unknown and an
  unconfigured provider to a reliable one.
* `Gateway.cfg`: two days of one month have a midnight between them; limits 2
  and 3 with costs up to 2 let one request stay under, reach and pass them. The
  theorems hold for any calendar.
* `AccessMemory.cfg`: two digests, for a creation and a rotation.
  `AccessRedis.cfg`: four, so that two tasks replace one client's key three
  times, and a rotation can meet what two others left behind. `MCAccess` adds a
  guard: a request has any combination of credentials while it is alone, and
  only a managed key, an administrator's token or nothing while there are two,
  with no keys in the settings; a third key is made only by administrators
  without a key, for clients that are administrators; with Redis the operations
  are run by administrators without a managed key and disable no client (which
  changes nothing that is stored or removed), while one request at a time
  presents one. So what depends on many credentials and what depends on many
  keys are explored in full, and their product is not.
* `Rate.cfg`: time 6 against a window of 4 ticks and an expiry of 6 lets windows
  and keys expire with requests under way; a limit of 0 is the edge of
  `NothingOldest`.
* `Ledger.cfg`: three records against a list of two. `Jwks.cfg`: time 4 against
  a cache time of 2.
* `Decisions.cfg`: three turns over lists of up to three targets; four
  configurations with an alias that doubles a member, a fallback that is one, an
  empty pool, a missing price, and an alias without a target; six rules under
  three names. The two modules share nothing, so each moves while the other
  rests.
* `Governance.cfg`: three writes against a log of two events. `MCGovernanceReads`
  adds a guard for Redis: two administrators write two fields while nobody
  reads, with faults, or one writes any field up to twice while a request reads.

Requests, tasks, keys and digests are interchangeable in the definitions, so
their permutations are symmetries. The runs `router` and `gateway`, which check
liveness, use none. `CHECK_DEADLOCK FALSE` stands only in `Router.cfg`, where
every request ends and its slot is not reused; everywhere else deadlock is
checked.

### Fairness

`FairSpec` of `Router` and `Gateway` assumes weak fairness of the steps that
need nothing but the event loop and Redis (asyncio runs every ready coroutine;
redis-py gets an answer or an error), and of the return of a provider call,
which httpx ends after `request_timeout_seconds`. The stream of the OpenAI
adapter is opened with `timeout=None` (`providers/openai.py:56`): its return is
excluded from the assumption, and `RouteEnds` says that a request ends or does
nothing but wait for such a stream for ever. `Gateway` relies on the router's
return in the same way, for buffered requests and the opening of streams only.

### Disagreements with the documentation

* `docs/identity-policy.md:98-99`: "The old digest is deleted immediately, so
  the previous key stops authenticating as soon as rotation succeeds." Run
  `registry_old_key`: `update_client` (`app/governance.py:288-310`) that read
  the client before a rotation stores it again under the old digest after it.
* `docs/architecture.md:134`: "Key rotation atomically creates a new digest,
  deletes the old digest, and preserves the logical client ID." Run
  `registry_two_keys`: HSET and HDEL are two commands (`app/governance.py:337-338`),
  and between them, or for good if the second fails, two keys are valid.
* `docs/architecture.md:67-68`: "Policies are part of the same effective
  Governance Snapshot as aliases, pools, pricing, and routing settings." Run
  `reads_torn`: a request takes one snapshot for its policies
  (`app/main.py:165`) and another to be routed by (`app/router.py:125`), each of
  five HGETALLs (`app/governance.py:113`), and what it has read need never have
  been in force together. With the memory backend it has (`OneSnapshotInMemory`).

## 4. What is proved

For every value of the constants that satisfies the named assumptions
(`RouterAssumption`, `CircuitAssumption`, `GatewayAssumption`,
`RegistryAssumption`, `RateAssumption`, `LedgerAssumption`, `JwksAssumption`,
`GovernanceAssumption`, `ReadsAssumption`, `AccessAssumption`,
`CandidatesAssumption` and `PolicyAssumption`, which TLC evaluates in the runs);
the number of requests, providers, days, keys, fields, records, rules, writes
and the length of time are arbitrary. `RateProofs`, `GovernanceProofs` and
`AccessProofs` cover both backends at once, but for the theorems marked
"memory". Of `AccessProofs` these are `ASSUME ~Suspending PROVE Spec => []...`,
where `Suspending` is the constant that chooses the backend and `~Suspending`
is what `AccessMemory.cfg` gives it; `OneSnapshotInMemory` has the backend in
its statement. Every safety property that a passing run checks is one of the
theorems.

| Theorem | Property | Argument |
|---|---|---|
| `RouterProofs!TypeCorrect` | `TypeOK` | inductive as it stands |
| `RouterProofs!OpenCircuitAdmitsOnlyOvertaken` | `AdmissionWindow` | `WindowInv`: the same of a request that still decides, where the circuit is the one it read; every report leaves `openedAt`, deletes it, or marks all who had read it |
| `RouterProofs!RouterMeetsContract` | `MeetsContract` | `ReliableInv`: the circuit of a reliable provider never opens, so no target of one is left behind; then step by step |
| `GatewayProofs!TypeCorrect` | `TypeOK` | inductive |
| `GatewayProofs!OvershootIsBounded` | `OvershootBounded` | `BudgetInv`: charged so far plus `MaxCost` for everyone who may still charge the period; a request joins those only when the period is below its limit, or before the period was ever charged |
| `GatewayProofs!EveryAnswerIsAccounted` | `AnswersAccounted` | `Accounts`: where a request is determines its ledger entry, its metrics and the router's outcome |
| `AccessProofs!TypeCorrect` (`ClientRegistry`) | `TypeOK` | inductive: a new key is unknown to all others |
| `AccessProofs!ClientsKeepAKey` | `KeyInHands` | `Owned` (a digest never changes its client), `Secured` (every live client has an entry that no task is about to remove) and `Held` (unless stranded, one whose key its owner has or is about to get, and that no removal under way touches, whichever of those removals fail) |
| `AccessProofs!RemovedStaysRemoved` | `RemovalsLast` | action by action: what stores a record looked it up, or made its key, before |
| `RateProofs!TypeCorrect` | `TypeOK` | inductive |
| `RateProofs!WindowIsBounded` | `WindowBounded` | `Accounted`: of a window, nothing has been purged, or what was admitted and what may still come late are few enough; with `Held` and `Ordered` |
| `RateProofs!RetryAfterIsHonest` | `RetryAfterHonest` | rounding up never falls short of the oldest member's end |
| `JwksProofs!TypeCorrect` | `TypeOK` | inductive: what is cached was published at its load time or later |
| `JwksProofs!PublishedKeysAreFound` | `PublishedKeyFound` | `Covering`: a key that was never withdrawn is in every reply |
| `JwksProofs!StalenessIsBounded` | `StalenessBounded` | only a cache younger than the cache time accepts at once |
| `GovernanceProofs!TypeCorrect` | `TypeOK` | inductive |
| `GovernanceProofs!AuditShowsTheNewest` | `AuditWindow` | `Window`: the log is a beginning of all that was pushed, and shorter than it only once it has been cut to `Keep` |
| `GovernanceProofs!LogIsBounded` | `LogBounded` | only a push lengthens the log, and a trim starts the count anew |
| `GovernanceProofs!AuditIsComplete` | `AuditComplete` | `Recorded`: with what an operation is about to push |
| `GovernanceProofs!LogTellsTheState` | `LogTellsState` | `Tells`: at most one event of an uncontested field is on its way, and tells its value; if none is, the newest event of all does |
| `GovernanceProofs!RoutingFollowsJudgement` | `SnapshotInOrder` | `Chained`: as far as a request has read, there are moments in the order of the reads |
| `GovernanceProofs!AnswersPayTheirPrice` | `PriceOfAnswer` | `PriceSeen`: the same for the prices |
| `GovernanceProofs!OneConfigurationInMemory` | `OneSnapshotInMemory` (memory) | `WholeInv`: a request that reads keeps the event loop, so all it has read in its two snapshots is of the present configuration; once it calls the provider, all of one |
| `RouterProofs!TargetsTriedInOrder` | `TargetsInOrder` | `OrderInv`: every target before the present one was given up, the present one has failed as often as its retry counter says, and nothing is noted of a later one |
| `AccessProofs!RotatedKeysStayDead` | `RotatedKeyDead` (memory) | `Solo`: an operation that is under way has the event loop (`Alone`), what is stored has been created (`Issued`), what was retired or deleted is gone and nobody is about to store it (`Removals`), and a client has one entry, or two while a rotation removes the old one (`Single`) |
| `AccessProofs!ClientsHaveOneKey` | `OneKeyPerClient` (memory) | `Solo` |
| `AccessProofs!DeletesAreFinal` | `DeleteIsFinal` (memory) | `Solo` |
| `AccessProofs!OnlyGrantedRoles` | `RolesGranted` | `RecordsGranted`: every record that is stored, or about to be, has a role that was given and is still carried |
| `AccessProofs!CredentialsStandAlone` | `OnlyOwnRoles` | `ChainInv`: a request that looks its key up has shown nothing that the settings know, and one whose token is checked has shown a token; then every branch of `_authenticate` is `Honest` |
| `AccessProofs!RegistrySoundInMemory` | the three of `Solo` (memory) | every step of `Access` is one of `ClientRegistry` or leaves its state alone |
| `AccessProofs!EntitledWhenActing` | `ActsWhileEntitled` (memory) | `MemoryInv`: a request that is inside and has not begun its operation has kept the event loop since its key was looked up (`Entitled`) |
| `DecisionProofs!ListsEveryTargetOnce` | `EveryTargetOnce` | `ListInv`: the list is one of the orders of `Distinct`, or a rotation of it; all of them are rearrangements |
| `DecisionProofs!ListsInPolicyOrder` | `PolicyOrder` | the same; a place in the de-duplicated list is a place among the names, in the same order |
| `DecisionProofs!RoundRobinIsEven` | `EvenTurns` | `ListInv`: the places that the cursor has passed have come first once more than the others, or all as often, which `NextTurn` keeps by modular arithmetic |
| `DecisionProofs!LowestNumberSettles` | `LowestNumberRules` | `PolicyInv`: the order of the store names every stored policy once; so `Precedes` is a strict order of finitely many rules, and one comes first |
| `DecisionProofs!EditsKeepOtherVerdicts` | `VerdictsAreStable` | the same rules decide before and after; if another comes first then, it is of equal priority, and agrees unless they tie |
| `DecisionProofs!DeniedStaysDenied` | `DenyStands` | one rule more decides, and it denies; otherwise as before |
| `LedgerProofs!LedgersAgree` | `BackendsAgree` | `LedgerInv`: each figure is what the records add up to, and the list is the end of the log, backwards (`Latest`); lemmas say what one record more does to a sum, a count and the list |
| `LedgerProofs!SnapshotsErrOneWay` | `SnapshotBounds` | `SnapshotInv`: for every reader, wherever it is, the rows are at least those of its beginning, and what it has read lies between |

`AdmissionWindow`, `OvershootBounded`, `KeyInHands`, `WindowBounded` and
`SnapshotBounds` are not inductive: each speaks of what has happened, while the
danger sits in requests that have read and not yet acted. The strengthenings say
what those may still do.

Lemmas about data. The induction theorems of the library take an operator as
parameter, which the provers cannot instantiate, and the folds of the community
modules are opaque to them. Three forms replace them. A sorted list is `Sorted`:
its k-th member is the one with k - 1 before it, and `SortedLists` derives from
the cardinality of finite sets that it lists every member once and in order. A
sum is a recursive function; that there is one, and only one, follows from the
least place where it would fail (`Least`, from the well-foundedness of < on the
naturals; `RunsExist`, `RunsAgree`). The first of finitely many rules is
`FirstExists`, from `SortedLists`.

Only model-checked: `RouteEnds` and `HandlerEnds`, which are liveness under
fairness, and the three properties that fail (the disagreements above).

## 5. Assumptions

* All replicas and Redis share one clock (NTP). `JwksCache` needs it of one
  process only, where `time.monotonic` gives it.
* redis-py does not send a transaction or a script again by itself after an
  error. Versions that retry by default can execute a lost one twice; the
  handler is modelled for the client without retries.
* `secrets.token_urlsafe` and `uuid4` never repeat, and SHA-256 does not collide.
* Prices and so costs are not negative (the admin API enforces it).
* An operation that fails is not repeated by the gateway; callers may repeat it
  as a new request.

* No administrator sends a key outside ASCII: `compare_digest` raises for one,
  and the request ends with a 500.

## 6. What is not modelled

* Provider adapters' translation of messages; SSE framing; metric names and
  spans; settings and their parsing, validation of payloads, console, legacy
  `pricing.py` (imported by nothing), deployment files: formatting and wiring
  without state of their own. How a provider call ends is in `Router`.
* Signature and claims checks of tokens: PyJWT's. `Access` takes any outcome.
* Operations that only read (`model_catalog`, `summary`, `list_clients`,
  `circuit_status`, `/ready`), and `reset` of ledger and governance, which nothing
  in the running gateway calls.
* Costs with fractions: amounts and prices are integers.
* The unbounded growth of the memory ledger: no wrong state is reached. That a
  limit of zero is a 500 in memory and a 429 with Redis, of which no document says
  which is meant (both are modelled).
* A configuration that changes within a chat request's list of targets:
  `Candidates` takes a snapshot as one value, and `GovernanceReads` says which
  mixtures it can be.

## 7. Plan

Written in this order, the most important behaviour first: circuits and router
with its contract, handler, registry, rate limiter, ledger, key cache; then
candidates and cursor, policies, governance and audit, snapshots, authentication.
Left:

1. `Access` and `Gateway` composed: a chat request whose principal's limit
   override changes between authentication and rate check.
