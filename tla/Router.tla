------------------------------- MODULE Router -------------------------------
(***************************************************************************)
(* ModelRouter.route and ModelRouter.stream_route (app/router.py), run by  *)
(* any number of concurrent requests against the circuits of the Redis     *)
(* backend (app/state.py).  Each await of the code is a point where other  *)
(* requests run, so one action here is the code between two awaits:        *)
(*                                                                         *)
(*   select --ReadCircuit--> decide --AdmitTarget--> calling               *)
(*     ^                        |                    |      |              *)
(*     +------SkipOpen----------+           succeeded    failing           *)
(*     +------ReportFailure (retries exhausted)--------------+             *)
(*                                                                         *)
(* The memory backend's awaits never suspend: its behaviours are those in  *)
(* which read and decision, and answer and report, follow one another      *)
(* directly.  They are a subset of the behaviours below.                   *)
(***************************************************************************)
EXTENDS Sequences, CircuitBreaker

CONSTANTS
  Requests,              \* calls of the router
  Providers,             \* every name that stands before ':' in a target
  KnownProviders,        \* keys of ModelRouter.providers
  ConfiguredProviders,   \* those with an API key (mock always)
  ReliableProviders,     \* those that never fail a call, as the mock provider
  UntimedStreams,        \* those whose stream is opened with timeout=None
  Canonicals,            \* "provider:model" strings
  ProviderOf,            \* the part of a canonical name before ':'
  CandidateLists,        \* target lists ModelRouter.candidates may return
  ProviderRetryAttempts, \* provider_retry_attempts, any integer
  MaxTime                \* bound on the clock, for the model checker only

\* candidates() removes duplicates (_dedupe_targets) and never returns an
\* empty list: the requested model or its non-empty pool comes first.
ASSUME RouterAssumption ==
  /\ ConfiguredProviders \subseteq KnownProviders
  /\ KnownProviders \subseteq Providers
  /\ ReliableProviders \subseteq ConfiguredProviders
  /\ ProviderOf \in [Canonicals -> Providers]
  /\ CandidateLists \subseteq Seq(Canonicals)
  /\ \A list \in CandidateLists :
       /\ list # <<>>
       /\ \A i, j \in 1 .. Len(list) : i # j => list[i] # list[j]
  /\ ProviderRetryAttempts \in Int
  /\ MaxTime \in Nat

VARIABLES
  circuit,   \* circuit:<provider>, for every provider
  now,       \* time.time()
  pc,        \* where the request's coroutine is suspended
  targets,   \* its list of canonical names
  stream,    \* payload.stream: stream_route instead of route
  idx,       \* target_index, from 1
  retry,     \* the retry loop's counter
  seen,      \* the circuit circuit_allow has read
  stamp,     \* time.time() as circuit_failure took it
  attempts,  \* the attempts list, each with the index of its target
  \* history, read by no action:
  overtaken, \* the circuit was opened after the request had read it
  admittedAt \* when the request was admitted to its current target

requestVars == <<targets, stream, idx, retry, seen, stamp, attempts>>
history == <<overtaken, admittedAt>>
vars == <<circuit, now, pc, requestVars, history>>

RetryLimit == IF ProviderRetryAttempts > 0 THEN ProviderRetryAttempts ELSE 0

\* Past the circuit's check, with the call or its report still to come.
InFlight == {"calling", "succeeded", "failing"}
RoutingPCs == {"select", "decide"} \cup InFlight
EndPCs == {"served", "exhausted", "broken", "error", "aborted"}

Attempt == [target : Nat, retry : Nat,
            status : {"skipped", "failed", "success", "stream_selected"}]

Current(r) == ProviderOf[targets[r][idx[r]]]

Note(r, status) ==
  attempts' = [attempts EXCEPT ![r] =
    Append(@, [target |-> idx[r], retry |-> retry[r], status |-> status])]

Goto(r, label) == pc' = [pc EXCEPT ![r] = label]

Init ==
  /\ circuit = [p \in Providers |-> Closed]
  /\ now = 0
  /\ pc = [r \in Requests |-> "idle"]
  /\ targets = [r \in Requests |-> <<>>]
  /\ stream = [r \in Requests |-> FALSE]
  /\ idx = [r \in Requests |-> 1]
  /\ retry = [r \in Requests |-> 0]
  /\ seen = [r \in Requests |-> Closed]
  /\ stamp = [r \in Requests |-> 0]
  /\ attempts = [r \in Requests |-> <<>>]
  /\ overtaken = [r \in Requests |-> FALSE]
  /\ admittedAt = [r \in Requests |-> 0]

-----------------------------------------------------------------------------
\* The chat handler calls the router, which computes the candidates.
Begin(r) ==
  /\ pc[r] = "idle"
  /\ \E list \in CandidateLists : targets' = [targets EXCEPT ![r] = list]
  /\ \E s \in BOOLEAN : stream' = [stream EXCEPT ![r] = s]
  /\ Goto(r, "select")
  /\ UNCHANGED <<circuit, now, idx, retry, seen, stamp, attempts, history>>

NextTarget(r) ==
  /\ idx' = [idx EXCEPT ![r] = @ + 1]
  /\ retry' = [retry EXCEPT ![r] = 0]
  /\ Goto(r, "select")

\* route skips an unknown provider; stream_route skips an unconfigured one
\* too, where route calls it and takes the error for a provider failure.
Skipped(r) ==
  \/ Current(r) \notin KnownProviders
  \/ stream[r] /\ Current(r) \notin ConfiguredProviders

SkipTarget(r) ==
  /\ pc[r] = "select" /\ idx[r] <= Len(targets[r])
  /\ Skipped(r)
  /\ Note(r, "skipped")
  /\ NextTarget(r)
  /\ UNCHANGED <<circuit, now, targets, stream, seen, stamp, history>>

\* circuit_allow, first half: HGETALL.
ReadCircuit(r) ==
  /\ pc[r] = "select" /\ idx[r] <= Len(targets[r])
  /\ ~Skipped(r)
  /\ seen' = [seen EXCEPT ![r] = circuit[Current(r)]]
  /\ overtaken' = [overtaken EXCEPT ![r] = FALSE]
  /\ Goto(r, "decide")
  /\ UNCHANGED <<circuit, now, targets, stream, idx, retry, stamp, attempts,
                 admittedAt>>

\* circuit_allow, second half, when the reply has arrived: the clock is read
\* now.  An admitted request calls the provider; nothing looks at the circuit
\* again before the next target, whatever the number of retries.
AdmitTarget(r) ==
  /\ pc[r] = "decide"
  /\ Allows(seen[r], now)
  /\ admittedAt' = [admittedAt EXCEPT ![r] = now]
  /\ IF stream[r] THEN Note(r, "stream_selected") ELSE UNCHANGED attempts
  /\ Goto(r, "calling")
  /\ UNCHANGED <<circuit, now, targets, stream, idx, retry, seen, stamp,
                 overtaken>>

\* Mutant: wait for the circuit to close instead of leaving the target.
SkipOpenPolling(r) ==
  /\ pc[r] = "decide"
  /\ ~Allows(seen[r], now)
  /\ Goto(r, "select")
  /\ UNCHANGED <<circuit, now, requestVars, history>>

SkipOpen(r) ==
  /\ pc[r] = "decide"
  /\ ~Allows(seen[r], now)
  /\ Note(r, "skipped")
  /\ NextTarget(r)
  /\ UNCHANGED <<circuit, now, targets, stream, seen, stamp, history>>

-----------------------------------------------------------------------------
\* provider.chat returned, or provider.stream yielded its last chunk.
ProviderAnswers(r) ==
  /\ pc[r] = "calling"
  /\ Current(r) \in ConfiguredProviders
  /\ Goto(r, "succeeded")
  /\ UNCHANGED <<circuit, now, requestVars, history>>

\* A GatewayError: circuit_failure takes the clock and sends the script.
ProviderFails(r) ==
  /\ pc[r] = "calling"
  /\ Current(r) \notin ReliableProviders
  /\ stamp' = [stamp EXCEPT ![r] = now]
  /\ Goto(r, "failing")
  /\ UNCHANGED <<circuit, now, targets, stream, idx, retry, seen, attempts,
                 history>>

\* Where an exception that nothing handles leaves the request: a stream has
\* sent its 200 response, so it breaks off; any other request answers 500.
Unhandled(r) == IF stream[r] THEN "broken" ELSE "error"

\* Any other exception, such as a reply whose JSON lacks the expected fields:
\* it passes the router without a report to the circuit.
ProviderCrashes(r) ==
  /\ pc[r] = "calling"
  /\ Current(r) \in ConfiguredProviders \ ReliableProviders
  /\ Goto(r, Unhandled(r))
  /\ UNCHANGED <<circuit, now, requestVars, history>>

SuccessStored(r) ==
  /\ circuit' = [circuit EXCEPT ![Current(r)] = Closed]
  /\ UNCHANGED overtaken

\* circuit_failure's script, with the clock its caller took.
FailureStored(r) ==
  /\ circuit' = [circuit EXCEPT ![Current(r)] = Failed(@, stamp[r])]
  /\ overtaken' = [q \in Requests |->
       \/ overtaken[q]
       \/ /\ Opens(circuit[Current(r)])
          /\ pc[q] \in InFlight \cup {"decide"} /\ Current(q) = Current(r)]

\* circuit_success takes effect in the backend and route returns.
ReportSuccess(r) ==
  /\ pc[r] = "succeeded"
  /\ SuccessStored(r)
  /\ IF stream[r] THEN UNCHANGED attempts ELSE Note(r, "success")
  /\ Goto(r, "served")
  /\ UNCHANGED <<now, targets, stream, idx, retry, seen, stamp, admittedAt>>

\* Mutant: range(retry_limit) where the code has range(retry_limit + 1).
RetriesLeftShort(r) == retry[r] + 1 < RetryLimit

\* Mutant: range(retry_limit + 2).
RetriesLeftLong(r) == retry[r] <= RetryLimit

\* The retry loop is range(retry_limit + 1).
RetriesLeft(r) == retry[r] < RetryLimit

\* What follows a reported failure: a stream raises it again, route retries
\* the target without asking the circuit, or goes on to the next one.
AfterFailure(r) ==
  \/ /\ stream[r]
     /\ Goto(r, "broken")
     /\ UNCHANGED <<idx, retry, attempts>>
  \/ /\ ~stream[r] /\ RetriesLeft(r)
     /\ Note(r, "failed")
     /\ retry' = [retry EXCEPT ![r] = @ + 1]
     /\ Goto(r, "calling")
     /\ UNCHANGED idx
  \/ /\ ~stream[r] /\ ~RetriesLeft(r)
     /\ Note(r, "failed")
     /\ NextTarget(r)

ReportFailure(r) ==
  /\ pc[r] = "failing"
  /\ FailureStored(r)
  /\ AfterFailure(r)
  /\ UNCHANGED <<now, targets, stream, seen, stamp, admittedAt>>

\* Mutant: the raise stands inside the loop over the targets.
GiveUpInLoop(r) ==
  /\ pc[r] = "select" /\ idx[r] > 1
  /\ Goto(r, "exhausted")
  /\ UNCHANGED <<circuit, now, requestVars, history>>

\* The loop over the targets ends: ProviderRequestError, answered 502.
GiveUp(r) ==
  /\ pc[r] = "select" /\ idx[r] > Len(targets[r])
  /\ Goto(r, "exhausted")
  /\ UNCHANGED <<circuit, now, requestVars, history>>

-----------------------------------------------------------------------------
\* A report whose reply never comes, whether or not Redis has applied it.
ReportLost(r) ==
  \/ UNCHANGED <<circuit, overtaken>>
  \/ pc[r] = "succeeded" /\ SuccessStored(r)
  \/ pc[r] = "failing" /\ FailureStored(r)

\* RedisError from one of the router's calls of the backend.  A stream that
\* still selects its target has not answered yet.
BackendFault(r) ==
  /\ \/ /\ pc[r] = "select" /\ idx[r] <= Len(targets[r]) /\ ~Skipped(r)
        /\ Goto(r, "error")
        /\ UNCHANGED <<circuit, overtaken>>
     \/ /\ pc[r] \in {"succeeded", "failing"}
        /\ ReportLost(r)
        /\ Goto(r, Unhandled(r))
  /\ UNCHANGED <<now, requestVars, admittedAt>>

\* The client of a stream goes away: the generator is closed or cancelled at
\* the await it is in, and issues no report it has not issued.
Disconnect(r) ==
  /\ stream[r] /\ pc[r] \in InFlight
  /\ ReportLost(r)
  /\ Goto(r, "aborted")
  /\ UNCHANGED <<now, requestVars, admittedAt>>

Tick ==
  /\ now < MaxTime
  /\ now' = now + 1
  /\ UNCHANGED <<circuit, pc, requestVars, history>>

\* Steps of the coroutine that need nothing but the event loop and Redis.
Internal(r) ==
  \/ SkipTarget(r) \/ ReadCircuit(r) \/ AdmitTarget(r) \/ SkipOpen(r)
  \/ ReportSuccess(r) \/ ReportFailure(r) \/ GiveUp(r)

Return(r) == ProviderAnswers(r) \/ ProviderFails(r) \/ ProviderCrashes(r)

Next ==
  \/ \E r \in Requests :
       Begin(r) \/ Internal(r) \/ Return(r) \/ BackendFault(r) \/ Disconnect(r)
  \/ Tick

Spec == Init /\ [][Next]_vars

\* Waiting for a call opened without a timeout: stream of the OpenAI provider.
Untimed(r) == pc[r] = "calling" /\ stream[r] /\ Current(r) \in UntimedStreams

\* The event loop runs every coroutine that can run, and httpx ends every
\* call that has a timeout.  Nothing obliges an untimed stream to end.
Fairness ==
  \A r \in Requests :
    /\ WF_vars(Internal(r))
    /\ WF_vars(~Untimed(r) /\ Return(r))

FairSpec == Spec /\ Fairness

-----------------------------------------------------------------------------
(* Properties. *)

\* The shape of the state, with the facts about the loop counters that every
\* other argument needs: a request past "select" has a current target.
TypeOK ==
  /\ circuit \in [Providers -> Circuit]
  /\ now \in Nat
  /\ pc \in [Requests -> {"idle"} \cup RoutingPCs \cup EndPCs]
  /\ targets \in [Requests -> CandidateLists \cup {<<>>}]
  /\ stream \in [Requests -> BOOLEAN]
  /\ idx \in [Requests -> Nat \ {0}]
  /\ retry \in [Requests -> 0 .. RetryLimit]
  /\ seen \in [Requests -> Circuit]
  /\ stamp \in [Requests -> Nat]
  /\ attempts \in [Requests -> Seq(Attempt)]
  /\ overtaken \in [Requests -> BOOLEAN]
  /\ admittedAt \in [Requests -> Nat]
  /\ \A r \in Requests :
       /\ pc[r] \in InFlight \cup {"decide"} => idx[r] \in 1 .. Len(targets[r])
       /\ pc[r] # "idle" => targets[r] \in CandidateLists

\* What an open circuit still lets through: a request that is calling a
\* provider whose circuit is open read that circuit before it opened, or was
\* admitted after the recovery interval.  In particular the circuit can never
\* be open for a call admitted inside the interval on a fresh read, whatever
\* late successes, delayed stamps and retries of other requests do to it.
AdmissionWindow ==
  \A r \in Requests :
    pc[r] \in InFlight =>
      LET c == circuit[Current(r)] IN
        \/ c.openedAt = Never
        \/ overtaken[r]
        \/ admittedAt[r] - c.openedAt >= RecoverySeconds

\* The attempts made at the i-th target, and what they must be for the request
\* to leave it behind: one that skips it, or, unless it is a stream, RetryLimit
\* retries of a failed call.
Tried(list, i) == {k \in DOMAIN list : list[k].target = i}

GivenUp(list, i, streamed) ==
  \E first \in DOMAIN list :
    \/ /\ Tried(list, i) = {first}
       /\ list[first] = [target |-> i, retry |-> 0, status |-> "skipped"]
    \/ /\ ~streamed
       /\ Tried(list, i) = first .. first + RetryLimit
       /\ \A k \in first .. first + RetryLimit :
            list[k] = [target |-> i, retry |-> k - first, status |-> "failed"]

\* route leaves a target behind only after skipping it once or failing it
\* exactly RetryLimit + 1 times, in the order of the candidates; a request
\* that raised ProviderRequestError did so for every target.  A stream has at
\* most one target that it did not skip.
TargetsInOrder ==
  \A r \in Requests :
    /\ \A i \in 1 .. Len(attempts[r]) - 1 :
         attempts[r][i].target <= attempts[r][i + 1].target
    /\ \A i \in 1 .. idx[r] - 1 : GivenUp(attempts[r], i, stream[r])
    /\ pc[r] = "exhausted" => idx[r] = Len(targets[r]) + 1

\* Where the request is, as the chat handler sees it.
Outcome(r) == IF pc[r] \in RoutingPCs THEN "routing" ELSE pc[r]

Contract == INSTANCE RouteContract WITH
  outcome <- [r \in Requests |-> Outcome(r)],
  candidates <- targets,
  streaming <- stream,
  HopelessLists <- {list \in CandidateLists :
    \A i \in 1 .. Len(list) : ProviderOf[list[i]] \notin ReliableProviders}

\* The router keeps the contract of module RouteContract: above all, it raises
\* ProviderRequestError only if no candidate is a reliable provider, however
\* the circuits are shared and whatever the others do to them.
MeetsContract == Contract!ContractSpec

\* Every call of the router ends, unless from some moment on it does nothing
\* but wait for the provider of a stream opened without a timeout.
RouteEnds ==
  \A r \in Requests :
    pc[r] # "idle" ~> (pc[r] \in EndPCs \/ []Untimed(r))
=============================================================================
