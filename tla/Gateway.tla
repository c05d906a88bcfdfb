------------------------------ MODULE Gateway ------------------------------
(***************************************************************************)
(* chat_completions and _stream_response (app/main.py) from the accepted   *)
(* credential to the last byte of the answer: policy, rate limit, budget   *)
(* (app/budget.py), the call of the router, pricing, the usage record      *)
(* (app/usage.py, app/state.py) and the success metrics.  The router is    *)
(* its contract, module RouteContract, whose actions are conjoined to the  *)
(* handler's; module Router is shown to keep that contract.                *)
(*                                                                         *)
(* A request here is a slot for one HTTP request at a time, so the number  *)
(* of requests is the number in progress at once.  Each await is a step:   *)
(* a key computed from the clock is computed when the command is issued,   *)
(* and read or written when Redis executes it.  With the memory backend    *)
(* only the provider call suspends, which leaves fewer of the same steps'  *)
(* interleavings.  Policy and rate decisions and costs are any the code    *)
(* can produce: they come from state that is not modelled here.            *)
(***************************************************************************)
EXTENDS Integers, FiniteSets, RouteContract

CONSTANTS
  MaxCost,   \* the most one request can cost, in the unit of the limits
  Limit,     \* daily_budget_usd and monthly_budget_usd, or NoLimit for None
  LastDay,   \* bound on the days, for the model checker only
  PeriodOf   \* the period of each day, named by a day of it

NoLimit == -1
Kinds == {"day", "month"}   \* the periods of usage_period_cost
Days == 0 .. LastDay

ASSUME GatewayAssumption ==
  /\ IsFiniteSet(Requests)
  /\ MaxCost \in Nat
  /\ Limit \in [Kinds -> Nat \cup {NoLimit}]
  /\ LastDay \in Nat
  /\ PeriodOf \in [Kinds -> [Days -> Days]]
  /\ \A k \in Kinds : \A d, e \in Days : d <= e => PeriodOf[k][d] <= PeriodOf[k][e]

VARIABLES
  today,    \* the date of datetime.now(UTC)
  spent,    \* usage:cost:<kind>:<period>, for every kind and period
  pc,       \* where the handler of the request is suspended
  asked,    \* the day the pending usage_period_cost took for its key
  dayOver,  \* the daily budget was exhausted when status() read it
  cost,     \* cost_usd as last computed
  stamp,    \* the day usage_record took for its timestamp
  recorded, \* history: how often this request is in the ledger
  metered   \* history: record_success has counted this request

handlerVars == <<asked, dayOver, cost, stamp, recorded, metered>>
vars == <<today, spent, pc, handlerVars, contractVars>>

\* Admitted, and not yet on its way to the ledger.
Underway == {"admitted", "routing", "streaming", "served"}
Working == {"policy", "rate", "day", "month", "recording", "recorded"} \cup Underway
Refused == {"denied", "limited", "overBudget", "badRequest", "badGateway"}
Failing == {"error", "broken", "aborted"}
EndPCs == Refused \cup Failing \cup {"answered"}

Goto(r, label) == pc' = [pc EXCEPT ![r] = label]

Init ==
  /\ today = 0
  /\ spent = [k \in Kinds |-> [p \in Days |-> 0]]
  /\ pc = [r \in Requests |-> "idle"]
  /\ asked = [r \in Requests |-> 0]
  /\ dayOver = [r \in Requests |-> FALSE]
  /\ cost = [r \in Requests |-> 0]
  /\ stamp = [r \in Requests |-> 0]
  /\ recorded = [r \in Requests |-> 0]
  /\ metered = [r \in Requests |-> FALSE]
  /\ ContractInit

-----------------------------------------------------------------------------
(* _enforce_request_controls *)

Arrive(r) ==
  /\ pc[r] = "idle"
  /\ Goto(r, "policy")
  /\ UNCHANGED <<today, spent, handlerVars, contractVars>>

\* governance.snapshot() and PolicyEngine.evaluate.
EvaluatePolicy(r) ==
  /\ pc[r] = "policy"
  /\ Goto(r, "denied") \/ Goto(r, "rate")
  /\ UNCHANGED <<today, spent, handlerVars, contractVars>>

\* rate_limiter.check; a request within its rate goes on to the budget, and
\* usage_period_cost("day") takes the date for its key.
CheckRate(r) ==
  /\ pc[r] = "rate"
  /\ \/ Goto(r, "limited") /\ UNCHANGED asked
     \/ Goto(r, "day") /\ asked' = [asked EXCEPT ![r] = today]
  /\ UNCHANGED <<today, spent, dayOver, cost, stamp, recorded, metered,
                 contractVars>>

\* Mutant: spent_usd > limit.
ExhaustedLate(k, amount) == Limit[k] # NoLimit /\ amount > Limit[k]

\* BudgetManager._period_status
Exhausted(k, amount) == Limit[k] # NoLimit /\ amount >= Limit[k]

\* The two reads of BudgetManager.status, each with the date of its own issue.
ReadDay(r) ==
  /\ pc[r] = "day"
  /\ dayOver' = [dayOver EXCEPT ![r] =
       Exhausted("day", spent["day"][PeriodOf["day"][asked[r]]])]
  /\ asked' = [asked EXCEPT ![r] = today]
  /\ Goto(r, "month")
  /\ UNCHANGED <<today, spent, cost, stamp, recorded, metered, contractVars>>

\* Mutant: wait until the budget allows the request.
ReadMonthWaiting(r) ==
  /\ pc[r] = "month"
  /\ LET over == Exhausted("month", spent["month"][PeriodOf["month"][asked[r]]])
     IN Goto(r, IF dayOver[r] \/ over THEN "rate" ELSE "admitted")
  /\ UNCHANGED <<today, spent, handlerVars, contractVars>>

\* A refused request reads the status once more for the answer's detail, which
\* changes nothing.
ReadMonth(r) ==
  /\ pc[r] = "month"
  /\ LET over == Exhausted("month", spent["month"][PeriodOf["month"][asked[r]]])
     IN Goto(r, IF dayOver[r] \/ over THEN "overBudget" ELSE "admitted")
  /\ UNCHANGED <<today, spent, handlerVars, contractVars>>

-----------------------------------------------------------------------------
(* The router, and what the handler does with its outcome. *)

CallRouter(r) ==
  /\ pc[r] = "admitted"
  /\ Accept(r)
  /\ Goto(r, "routing")
  /\ UNCHANGED <<today, spent, handlerVars>>

\* ValueError from ModelRouter.candidates: an unknown model or routing policy.
BadRequest(r) ==
  /\ pc[r] = "admitted"
  /\ Goto(r, "badRequest")
  /\ UNCHANGED <<today, spent, handlerVars, contractVars>>

\* stream_route has returned its iterator: the 200 response starts.
StartStream(r) ==
  /\ pc[r] = "routing" /\ outcome[r] = "routing" /\ streaming[r]
  /\ Goto(r, "streaming")
  /\ UNCHANGED <<today, spent, handlerVars, contractVars>>

\* A chunk with usage: price it; the last such chunk counts.
UsageChunk(r) ==
  /\ pc[r] = "streaming" /\ outcome[r] = "routing"
  /\ \E c \in 0 .. MaxCost : cost' = [cost EXCEPT ![r] = c]
  /\ UNCHANGED <<today, spent, pc, asked, dayOver, stamp, recorded, metered,
                 contractVars>>

RouterServes(r) ==
  /\ pc[r] = IF streaming[r] THEN "streaming" ELSE "routing"
  /\ Serve(r)
  /\ Goto(r, "served")
  /\ UNCHANGED <<today, spent, handlerVars>>

\* ProviderRequestError reaches the exception handler, any other exception the
\* server.  The generator of a stream has sent its 200 response by then.
RouterFails(r) ==
  /\ \/ pc[r] = "routing" /\ Exhaust(r) /\ Goto(r, "badGateway")
     \/ pc[r] = "routing" /\ Crash(r) /\ Goto(r, "error")
     \/ pc[r] = "streaming" /\ Break(r) /\ Goto(r, "broken")
  /\ UNCHANGED <<today, spent, handlerVars>>

\* Price a buffered answer; usage_record takes the date and issues its
\* transaction.
IssueRecord(r) ==
  /\ pc[r] = "served"
  /\ IF streaming[r] THEN UNCHANGED cost
     ELSE \E c \in 0 .. MaxCost : cost' = [cost EXCEPT ![r] = c]
  /\ stamp' = [stamp EXCEPT ![r] = today]
  /\ Goto(r, "recording")
  /\ UNCHANGED <<today, spent, asked, dayOver, recorded, metered, contractVars>>

\* The transaction adds the cost to the day and to the month of its timestamp.
Stored(r) ==
  /\ spent' = [k \in Kinds |->
       [spent[k] EXCEPT ![PeriodOf[k][stamp[r]]] = @ + cost[r]]]
  /\ recorded' = [recorded EXCEPT ![r] = @ + 1]

Record(r) ==
  /\ pc[r] = "recording"
  /\ Stored(r)
  /\ Goto(r, "recorded")
  /\ UNCHANGED <<today, asked, dayOver, cost, stamp, metered, contractVars>>

\* Mutant: metrics and answer before the record.
FinishEarly(r) ==
  /\ pc[r] \in {"recording", "recorded"}
  /\ metered' = [metered EXCEPT ![r] = TRUE]
  /\ Goto(r, "answered")
  /\ UNCHANGED <<today, spent, asked, dayOver, cost, stamp, recorded, contractVars>>

\* record_success, and the answer or the [DONE] event.
Finish(r) ==
  /\ pc[r] = "recorded"
  /\ metered' = [metered EXCEPT ![r] = TRUE]
  /\ Goto(r, "answered")
  /\ UNCHANGED <<today, spent, asked, dayOver, cost, stamp, recorded, contractVars>>

-----------------------------------------------------------------------------
(* Failures and the environment. *)

\* The record's reply is lost, whether or not Redis has executed it.
RecordLost(r) ==
  /\ pc[r] = "recording"
  /\ Stored(r) \/ UNCHANGED <<spent, recorded>>

\* RedisError at an await of the handler itself.  A buffered request answers
\* 500; a stream, past its 200 response, breaks off and leaves its source.
BackendFault(r) ==
  /\ \/ /\ \/ pc[r] \in {"policy", "rate", "day", "month", "admitted"}
           \/ pc[r] \in {"served", "recorded"} /\ ~streaming[r]
        /\ Goto(r, "error")
        /\ UNCHANGED <<spent, recorded, contractVars>>
     \/ /\ pc[r] = "streaming" /\ Abort(r)
        /\ Goto(r, "broken")
        /\ UNCHANGED <<spent, recorded>>
     \/ /\ RecordLost(r)
        /\ Goto(r, IF streaming[r] THEN "broken" ELSE "error")
        /\ UNCHANGED contractVars
  /\ UNCHANGED <<today, asked, dayOver, cost, stamp, metered>>

\* Mutant: the source of the stream is left open.
DisconnectLeaking(r) ==
  /\ streaming[r]
  /\ \/ pc[r] = "streaming" /\ UNCHANGED <<spent, recorded>>
     \/ RecordLost(r)
  /\ Goto(r, "aborted")
  /\ UNCHANGED <<today, asked, dayOver, cost, stamp, metered, contractVars>>

\* The client of a stream goes away and the generator is cancelled.
Disconnect(r) ==
  /\ streaming[r]
  /\ \/ pc[r] = "streaming" /\ Abort(r) /\ UNCHANGED <<spent, recorded>>
     \/ RecordLost(r) /\ UNCHANGED contractVars
  /\ Goto(r, "aborted")
  /\ UNCHANGED <<today, asked, dayOver, cost, stamp, metered>>

\* The request is over and its slot is free.
Leave(r) ==
  /\ pc[r] \in EndPCs
  /\ Goto(r, "idle")
  /\ Release(r)
  /\ asked' = [asked EXCEPT ![r] = 0]
  /\ dayOver' = [dayOver EXCEPT ![r] = FALSE]
  /\ cost' = [cost EXCEPT ![r] = 0]
  /\ stamp' = [stamp EXCEPT ![r] = 0]
  /\ recorded' = [recorded EXCEPT ![r] = 0]
  /\ metered' = [metered EXCEPT ![r] = FALSE]
  /\ UNCHANGED <<today, spent>>

Midnight ==
  /\ today < LastDay
  /\ today' = today + 1
  /\ UNCHANGED <<spent, pc, handlerVars, contractVars>>

Handler(r) ==
  \/ EvaluatePolicy(r) \/ CheckRate(r) \/ ReadDay(r) \/ ReadMonth(r)
  \/ CallRouter(r) \/ BadRequest(r) \/ IssueRecord(r) \/ Record(r) \/ Finish(r)

RouterReturns(r) == StartStream(r) \/ RouterServes(r) \/ RouterFails(r)

Next ==
  \/ \E r \in Requests :
       \/ Arrive(r) \/ Handler(r) \/ RouterReturns(r) \/ UsageChunk(r)
       \/ BackendFault(r) \/ Disconnect(r) \/ Leave(r)
  \/ Midnight

Spec == Init /\ [][Next]_vars

\* The event loop runs what can run, and every call of the router returns
\* (RouteEnds of module Router), except that a stream may go on for ever.
Fairness ==
  \A r \in Requests :
    /\ WF_vars(Handler(r))
    /\ WF_vars(pc[r] = "routing" /\ RouterReturns(r))

FairSpec == Spec /\ Fairness

-----------------------------------------------------------------------------
(* Properties. *)

\* The shape of the state.  A handler that is with the router, and only such a
\* handler, has a call of the router in progress; no timestamp and no key is
\* of a day to come.
TypeOK ==
  /\ today \in Days
  /\ spent \in [Kinds -> [Days -> Nat]]
  /\ pc \in [Requests -> {"idle"} \cup Working \cup EndPCs]
  /\ asked \in [Requests -> 0 .. today]
  /\ dayOver \in [Requests -> BOOLEAN]
  /\ cost \in [Requests -> 0 .. MaxCost]
  /\ stamp \in [Requests -> 0 .. today]
  /\ recorded \in [Requests -> Nat]
  /\ metered \in [Requests -> BOOLEAN]
  /\ outcome \in [Requests -> Outcomes]
  /\ streaming \in [Requests -> BOOLEAN]
  /\ candidates \in [Requests -> CandidateLists \cup {<<>>}]
  /\ \A r \in Requests :
       outcome[r] = "routing" <=> pc[r] \in {"routing", "streaming"}

\* The budget gate reads the ledger before the call and the call is charged
\* after it, so a positive limit can be passed, but only by requests in
\* progress at once: what a period was charged stays below the limit plus the
\* greatest cost of as many requests as there are slots, at every midnight,
\* for every order of reads, calls and records.
OvershootBounded ==
  \A k \in Kinds : \A p \in Days :
    Limit[k] > 0 => spent[k][p] < Limit[k] + MaxCost * Cardinality(Requests)

\* The ledger, the metrics and the answer agree: a 200 answer or a [DONE]
\* event means the request is in the ledger once and in the metrics; nothing
\* is counted that is not in the ledger; a request that was refused, or whose
\* stream was interrupted, is not counted as a success, and no refused
\* request has been charged or has had a successful call.
AnswersAccounted ==
  \A r \in Requests :
    /\ pc[r] = "answered" => recorded[r] = 1 /\ metered[r] /\ outcome[r] = "served"
    /\ metered[r] => recorded[r] = 1
    /\ pc[r] \in Failing => recorded[r] <= 1 /\ ~metered[r]
    /\ pc[r] \in Refused =>
         recorded[r] = 0 /\ ~metered[r] /\ outcome[r] \in {"idle", "exhausted"}

\* Every request is answered or ends, except that an open stream may stay open.
HandlerEnds ==
  \A r \in Requests :
    pc[r] \in Working \ {"streaming"} ~> pc[r] \in EndPCs \cup {"streaming"}
=============================================================================
