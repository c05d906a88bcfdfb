--------------------------- MODULE GatewayProofs ---------------------------
(***************************************************************************)
(* Theorems about module Gateway for every number of requests in progress, *)
(* all limits, costs and calendars.                                        *)
(***************************************************************************)
EXTENDS Gateway, FiniteSetTheorems, TLAPS

-----------------------------------------------------------------------------
(* Type correctness. *)

LEMMA StoredType ==
  ASSUME TypeOK, NEW r \in Requests, Stored(r)
  PROVE  /\ spent' \in [Kinds -> [Days -> Nat]]
         /\ recorded' \in [Requests -> Nat]
<1>1. ASSUME NEW k \in Kinds
      PROVE  [spent[k] EXCEPT ![PeriodOf[k][stamp[r]]] = @ + cost[r]] \in [Days -> Nat]
  <2>1. spent[k] \in [Days -> Nat] /\ cost[r] \in Nat
    BY GatewayAssumption DEF TypeOK
  <2> QED
    BY <2>1, \A n \in Nat : n + cost[r] \in Nat
<1>2. spent' \in [Kinds -> [Days -> Nat]]
  BY <1>1 DEF Stored
<1>3. recorded' \in [Requests -> Nat]
  BY DEF Stored, TypeOK
<1> QED
  BY <1>2, <1>3

LEMMA TypeInit == Init => TypeOK
  BY GatewayAssumption
     DEF Init, ContractInit, TypeOK, Days, Outcomes, Working, EndPCs, Failing,
         Refused, Underway

LEMMA TypeStep == TypeOK /\ [Next]_vars => TypeOK'
<1> SUFFICES ASSUME TypeOK, [Next]_vars PROVE TypeOK'
  OBVIOUS
<1> USE DEF Outcomes, Working, EndPCs, Failing, Refused, Underway, Goto,
            handlerVars, contractVars
<1>0. today \in Nat /\ today \in 0 .. today
  BY GatewayAssumption DEF TypeOK, Days
<1>1. ASSUME NEW r \in Requests, Arrive(r) \/ EvaluatePolicy(r) \/ ReadMonth(r)
                                 \/ BadRequest(r) \/ StartStream(r)
      PROVE  TypeOK'
  <2>1. CASE Arrive(r)
    BY <2>1 DEF TypeOK, Arrive
  <2>2. CASE EvaluatePolicy(r)
    BY <2>2 DEF TypeOK, EvaluatePolicy
  <2>3. CASE ReadMonth(r)
    BY <2>3 DEF TypeOK, ReadMonth
  <2>4. CASE BadRequest(r)
    BY <2>4 DEF TypeOK, BadRequest
  <2>5. CASE StartStream(r)
    BY <2>5 DEF TypeOK, StartStream
  <2> QED
    BY <1>1, <2>1, <2>2, <2>3, <2>4, <2>5
<1>2. ASSUME NEW r \in Requests, CheckRate(r) PROVE TypeOK'
  <2>1. asked' \in [Requests -> 0 .. today]
    BY <1>0, <1>2 DEF TypeOK, CheckRate
  <2>2. pc' = [pc EXCEPT ![r] = "limited"] \/ pc' = [pc EXCEPT ![r] = "day"]
    BY <1>2 DEF CheckRate
  <2> QED
    BY <1>2, <2>1, <2>2 DEF TypeOK, CheckRate
<1>3. ASSUME NEW r \in Requests, ReadDay(r) PROVE TypeOK'
  <2>1. Exhausted("day", spent["day"][PeriodOf["day"][asked[r]]]) \in BOOLEAN
    BY DEF Exhausted
  <2> QED
    BY <1>0, <1>3, <2>1 DEF TypeOK, ReadDay
<1>4. ASSUME NEW r \in Requests, CallRouter(r) PROVE TypeOK'
  BY <1>4 DEF TypeOK, CallRouter, Accept
<1>5. ASSUME NEW r \in Requests, UsageChunk(r) PROVE TypeOK'
  BY <1>5 DEF TypeOK, UsageChunk
<1>6. ASSUME NEW r \in Requests, RouterServes(r) PROVE TypeOK'
  BY <1>6 DEF TypeOK, RouterServes, Serve, End
<1>7. ASSUME NEW r \in Requests, RouterFails(r) PROVE TypeOK'
  <2>1. CASE pc[r] = "routing" /\ Exhaust(r) /\ Goto(r, "badGateway")
    BY <1>7, <2>1 DEF TypeOK, RouterFails, Exhaust, End
  <2>2. CASE pc[r] = "routing" /\ Crash(r) /\ Goto(r, "error")
    BY <1>7, <2>2 DEF TypeOK, RouterFails, Crash, End
  <2>3. CASE pc[r] = "streaming" /\ Break(r) /\ Goto(r, "broken")
    BY <1>7, <2>3 DEF TypeOK, RouterFails, Break, End
  <2> QED
    BY <1>7, <2>1, <2>2, <2>3 DEF RouterFails
<1>8. ASSUME NEW r \in Requests, IssueRecord(r) PROVE TypeOK'
  BY <1>0, <1>8 DEF TypeOK, IssueRecord
<1>9. ASSUME NEW r \in Requests, Record(r) PROVE TypeOK'
  BY <1>9, StoredType DEF TypeOK, Record
<1>10. ASSUME NEW r \in Requests, Finish(r) PROVE TypeOK'
  BY <1>10 DEF TypeOK, Finish
<1>11. ASSUME NEW r \in Requests, BackendFault(r) PROVE TypeOK'
  <2>1. CASE UNCHANGED contractVars
    <3>1. /\ spent' \in [Kinds -> [Days -> Nat]]
          /\ recorded' \in [Requests -> Nat]
      BY <1>11, <2>1, StoredType DEF TypeOK, BackendFault, RecordLost
    <3>2. \E label \in {"error", "broken"} :
            pc' = [pc EXCEPT ![r] = label]
      BY <1>11 DEF BackendFault
    <3>3. pc[r] \notin {"routing", "streaming"}
      BY <1>11, <2>1 DEF BackendFault, RecordLost, Abort, End, TypeOK
    <3> QED
      BY <1>11, <2>1, <3>1, <3>2, <3>3 DEF TypeOK, BackendFault
  <2>2. CASE pc[r] = "streaming" /\ Abort(r) /\ Goto(r, "broken")
             /\ UNCHANGED <<spent, recorded>>
    BY <1>11, <2>2 DEF TypeOK, BackendFault, Abort, End
  <2> QED
    BY <1>11, <2>1, <2>2 DEF BackendFault
<1>12. ASSUME NEW r \in Requests, Disconnect(r) PROVE TypeOK'
  <2>1. CASE RecordLost(r) /\ UNCHANGED contractVars
    BY <1>12, <2>1, StoredType DEF TypeOK, Disconnect, RecordLost
  <2>2. CASE pc[r] = "streaming" /\ Abort(r) /\ UNCHANGED <<spent, recorded>>
    BY <1>12, <2>2 DEF TypeOK, Disconnect, Abort, End
  <2> QED
    BY <1>12, <2>1, <2>2 DEF Disconnect
<1>13. ASSUME NEW r \in Requests, Leave(r) PROVE TypeOK'
  <2>1. 0 \in 0 .. today /\ 0 \in 0 .. MaxCost
    BY <1>0, GatewayAssumption
  <2>2. outcome' \in [Requests -> Outcomes] /\ outcome'[r] = "idle"
    BY <1>13 DEF TypeOK, Leave, Release
  <2> QED
    BY <1>13, <2>1, <2>2 DEF TypeOK, Leave, Release
<1>14. CASE Midnight
  <2>1. today' \in Days /\ 0 .. today \subseteq 0 .. today'
    BY <1>0, <1>14, GatewayAssumption DEF Midnight, TypeOK, Days
  <2> QED
    BY <1>14, <2>1 DEF TypeOK, Midnight
<1>15. CASE UNCHANGED vars
  BY <1>15 DEF TypeOK, vars
<1> QED
  BY <1>1, <1>2, <1>3, <1>4, <1>5, <1>6, <1>7, <1>8, <1>9, <1>10, <1>11,
     <1>12, <1>13, <1>14, <1>15 DEF Next, Handler, RouterReturns

\* Type correctness of the gateway's state.
THEOREM TypeCorrect == Spec => []TypeOK
  BY TypeInit, TypeStep, PTL DEF Spec

-----------------------------------------------------------------------------
(* The budget. *)

\* A request that may still be charged to period p of kind k without passing
\* the gate again: its record is on the way there, or p has a day to come and
\* the gate let the request pass p, or has asked for an earlier period.
CanCharge(r, k, p) ==
  \/ pc[r] = "recording" /\ PeriodOf[k][stamp[r]] = p
  \/ /\ \E d \in today .. LastDay : PeriodOf[k][d] = p
     /\ \/ pc[r] = k /\ PeriodOf[k][asked[r]] # p
        \/ k = "day" /\ pc[r] = "month" /\ ~dayOver[r]
        \/ pc[r] \in Underway

Chargers(k, p) == {r \in Requests : CanCharge(r, k, p)}

\* What has been charged, with the most that those requests can add.
BoundOf(k, p) ==
  Limit[k] > 0 =>
    spent[k][p] + MaxCost * Cardinality(Chargers(k, p))
      < Limit[k] + MaxCost * Cardinality(Requests)

\* No period is charged before its first day.
UnspentOf(k, p) ==
  (\A d \in 0 .. today : PeriodOf[k][d] # p) => spent[k][p] = 0

BudgetInv ==
  \A k \in Kinds : \A p \in Days : BoundOf(k, p) /\ UnspentOf(k, p)

LEMMA TimesMonotone ==
  ASSUME NEW m \in Nat, NEW a \in Nat, NEW b \in Nat, a <= b
  PROVE  m * a \in Nat /\ m * b \in Nat /\ m * a <= m * b
  OBVIOUS

LEMMA TimesSuccessor ==
  ASSUME NEW m \in Nat, NEW a \in Nat
  PROVE  m * (a + 1) = m * a + m
  OBVIOUS

\* Any set of requests is finite and fits in the slots.
LEMMA SlotsFinite ==
  ASSUME NEW S \in SUBSET Requests
  PROVE  /\ IsFiniteSet(S)
         /\ Cardinality(S) \in Nat
         /\ Cardinality(Requests) \in Nat
         /\ Cardinality(S) <= Cardinality(Requests)
         /\ MaxCost * Cardinality(S) \in Nat
         /\ MaxCost * Cardinality(S) <= MaxCost * Cardinality(Requests)
         /\ MaxCost * Cardinality(Requests) \in Nat
<1>1. IsFiniteSet(S) /\ Cardinality(S) <= Cardinality(Requests)
  BY FS_Subset, GatewayAssumption
<1>2. Cardinality(S) \in Nat /\ Cardinality(Requests) \in Nat
  BY <1>1, FS_CardinalityType, GatewayAssumption
<1> QED
  BY <1>1, <1>2, TimesMonotone, GatewayAssumption

\* A step that charges nothing and admits nobody keeps the bound ...
LEMMA BoundKept ==
  ASSUME TypeOK, NEW k \in Kinds, NEW p \in Days, BoundOf(k, p),
         spent'[k][p] = spent[k][p],
         \A q \in Requests : CanCharge(q, k, p)' => CanCharge(q, k, p)
  PROVE  BoundOf(k, p)'
<1> DEFINE Old == Chargers(k, p)
           New == Chargers(k, p)'
<1>1. New \subseteq Old /\ Old \subseteq Requests
  BY DEF Chargers
<1>2. IsFiniteSet(Old) /\ Cardinality(Old) \in Nat /\ Cardinality(New) \in Nat
  BY <1>1, SlotsFinite
<1>3. Cardinality(New) <= Cardinality(Old)
  BY <1>1, <1>2, FS_Subset
<1>4. /\ MaxCost * Cardinality(New) \in Nat
      /\ MaxCost * Cardinality(Old) \in Nat
      /\ MaxCost * Cardinality(New) <= MaxCost * Cardinality(Old)
  BY <1>2, <1>3, TimesMonotone, GatewayAssumption
<1>5. spent[k][p] \in Nat /\ Limit[k] \in Int /\ MaxCost * Cardinality(Requests) \in Nat
  BY SlotsFinite, GatewayAssumption DEF TypeOK, NoLimit
<1>6. Limit[k] > 0 =>
        spent[k][p] + MaxCost * Cardinality(Old)
          < Limit[k] + MaxCost * Cardinality(Requests)
  BY DEF BoundOf
<1>7. Limit[k] > 0 =>
        spent'[k][p] + MaxCost * Cardinality(New)
          < Limit[k] + MaxCost * Cardinality(Requests)
  BY <1>4, <1>5, <1>6
<1> QED
  BY <1>7 DEF BoundOf

\* ... one that may admit keeps it if the period was not exhausted ...
LEMMA BoundAdmit ==
  ASSUME TypeOK, NEW k \in Kinds, NEW p \in Days,
         spent'[k][p] = spent[k][p], Limit[k] > 0 => spent[k][p] < Limit[k]
  PROVE  BoundOf(k, p)'
<1> DEFINE New == Chargers(k, p)'
<1>1. /\ MaxCost * Cardinality(New) \in Nat
      /\ MaxCost * Cardinality(New) <= MaxCost * Cardinality(Requests)
      /\ MaxCost * Cardinality(Requests) \in Nat
  BY SlotsFinite DEF Chargers
<1>2. spent[k][p] \in Nat /\ Limit[k] \in Int
  BY GatewayAssumption DEF TypeOK, NoLimit
<1>3. Limit[k] > 0 =>
        spent'[k][p] + MaxCost * Cardinality(New)
          < Limit[k] + MaxCost * Cardinality(Requests)
  BY <1>1, <1>2
<1> QED
  BY <1>3 DEF BoundOf

\* ... and so does the charge of one request that had been admitted.
LEMMA BoundCharge ==
  ASSUME TypeOK, NEW k \in Kinds, NEW p \in Days, BoundOf(k, p),
         NEW r \in Requests, CanCharge(r, k, p), ~CanCharge(r, k, p)',
         spent'[k][p] = spent[k][p] + cost[r],
         \A q \in Requests : CanCharge(q, k, p)' => CanCharge(q, k, p)
  PROVE  BoundOf(k, p)'
<1> DEFINE Old == Chargers(k, p)
           Rest == Old \ {r}
           New == Chargers(k, p)'
<1>1. New \subseteq Rest /\ Old \subseteq Requests /\ r \in Old
  BY DEF Chargers
<1>2. IsFiniteSet(Old) /\ IsFiniteSet(Rest)
  BY <1>1, SlotsFinite, FS_Subset
<1>3. Cardinality(Rest) = Cardinality(Old) - 1
  BY <1>1, <1>2, FS_RemoveElement
<1>4. Cardinality(New) <= Cardinality(Rest)
  BY <1>1, <1>2, FS_Subset
<1>5. Cardinality(New) \in Nat /\ Cardinality(Old) \in Nat
  BY <1>1, SlotsFinite
<1>6. MaxCost * Cardinality(New) + MaxCost <= MaxCost * Cardinality(Old)
  <2>1. Cardinality(New) + 1 <= Cardinality(Old)
    BY <1>3, <1>4, <1>5
  <2>2. MaxCost * (Cardinality(New) + 1) <= MaxCost * Cardinality(Old)
    <3>1. Cardinality(New) + 1 \in Nat
      BY <1>5
    <3> QED
      BY <1>5, <2>1, <3>1, TimesMonotone, GatewayAssumption
  <2>3. MaxCost * (Cardinality(New) + 1) = MaxCost * Cardinality(New) + MaxCost
    BY <1>5, TimesSuccessor, GatewayAssumption
  <2> QED
    BY <2>2, <2>3
<1>7. cost[r] \in Nat /\ cost[r] <= MaxCost
  BY GatewayAssumption DEF TypeOK
<1>8. /\ spent[k][p] \in Nat /\ Limit[k] \in Int /\ MaxCost \in Nat
      /\ MaxCost * Cardinality(Requests) \in Nat
      /\ MaxCost * Cardinality(New) \in Nat /\ MaxCost * Cardinality(Old) \in Nat
  BY <1>1, SlotsFinite, GatewayAssumption DEF TypeOK, NoLimit
<1>9. Limit[k] > 0 =>
        spent[k][p] + MaxCost * Cardinality(Old)
          < Limit[k] + MaxCost * Cardinality(Requests)
  BY DEF BoundOf
<1>10. Limit[k] > 0 =>
        spent'[k][p] + MaxCost * Cardinality(New)
          < Limit[k] + MaxCost * Cardinality(Requests)
  BY <1>6, <1>7, <1>8, <1>9
<1> QED
  BY <1>10 DEF BoundOf

\* A step of r changes what r can be charged to, not what others can.
LEMMA OthersKept ==
  ASSUME NEW q \in Requests, NEW k \in Kinds, NEW p \in Days,
         UNCHANGED today, pc'[q] = pc[q], asked'[q] = asked[q],
         dayOver'[q] = dayOver[q], stamp'[q] = stamp[q]
  PROVE  CanCharge(q, k, p)' => CanCharge(q, k, p)
  BY DEF CanCharge

\* A period that starts after today has not been charged: the calendar never
\* returns to a period it has left.
LEMMA FutureUnspent ==
  ASSUME TypeOK, NEW k \in Kinds, NEW p \in Days, UnspentOf(k, p),
         NEW d \in today .. LastDay, PeriodOf[k][d] = p, PeriodOf[k][today] # p
  PROVE  spent[k][p] = 0
<1>1. ASSUME NEW e \in 0 .. today PROVE PeriodOf[k][e] # p
  <2>1. today \in Nat /\ LastDay \in Nat /\ today <= LastDay
    BY GatewayAssumption DEF TypeOK, Days
  <2>2. e \in Days /\ d \in Days /\ today \in Days /\ e <= today /\ today <= d
    BY <2>1 DEF Days
  <2>3. PeriodOf[k][e] <= PeriodOf[k][today] /\ PeriodOf[k][today] <= PeriodOf[k][d]
    BY <2>2, GatewayAssumption
  <2>4. PeriodOf[k][e] \in Int /\ PeriodOf[k][today] \in Int /\ PeriodOf[k][d] \in Int
    <3>1. PeriodOf[k] \in [Days -> Days]
      BY GatewayAssumption
    <3>2. PeriodOf[k][e] \in Days /\ PeriodOf[k][today] \in Days /\ PeriodOf[k][d] \in Days
      BY <2>2, <3>1
    <3> QED
      BY <3>2 DEF Days
  <2> QED
    BY <2>3, <2>4
<1> QED
  BY <1>1 DEF UnspentOf

\* Charging a record leaves every period before its first day alone, and takes
\* the request from those that can charge the period it charges.
LEMMA StoredBudget ==
  ASSUME TypeOK, NEW k \in Kinds, NEW p \in Days, BoundOf(k, p), UnspentOf(k, p),
         NEW r \in Requests, pc[r] = "recording", Stored(r),
         pc'[r] \in EndPCs \cup {"recorded"},
         \A q \in Requests \ {r} : pc'[q] = pc[q],
         UNCHANGED <<today, asked, dayOver, stamp>>
  PROVE  BoundOf(k, p)' /\ UnspentOf(k, p)'
<1>1. PeriodOf[k][stamp[r]] \in Days /\ stamp[r] \in 0 .. today
  <2>1. stamp[r] \in 0 .. today /\ today \in 0 .. LastDay /\ LastDay \in Nat
    BY GatewayAssumption DEF TypeOK, Days
  <2>2. stamp[r] \in Days
    BY <2>1 DEF Days
  <2> QED
    BY <2>1, <2>2, GatewayAssumption
<1>2. spent'[k] = [spent[k] EXCEPT ![PeriodOf[k][stamp[r]]] = @ + cost[r]]
  BY DEF Stored
<1>3. spent[k] \in [Days -> Nat]
  BY DEF TypeOK
<1>4. ~CanCharge(r, k, p)'
  <2>1. pc'[r] \notin {"recording"} \cup Kinds \cup Underway
    BY DEF EndPCs, Refused, Failing, Underway, Kinds
  <2> QED
    BY <2>1 DEF CanCharge, Kinds
<1>5. \A q \in Requests : CanCharge(q, k, p)' => CanCharge(q, k, p)
  BY <1>4, OthersKept
<1>6. CASE PeriodOf[k][stamp[r]] = p
  <2>1. CanCharge(r, k, p)
    BY <1>6 DEF CanCharge
  <2>2. spent'[k][p] = spent[k][p] + cost[r]
    BY <1>2, <1>3, <1>6
  <2>3. BoundOf(k, p)'
    BY <1>4, <1>5, <2>1, <2>2, BoundCharge
  <2>4. UnspentOf(k, p)'
    BY <1>1, <1>6 DEF UnspentOf
  <2> QED
    BY <2>3, <2>4
<1>7. CASE PeriodOf[k][stamp[r]] # p
  <2>1. spent'[k][p] = spent[k][p]
    BY <1>2, <1>3, <1>7
  <2> QED
    BY <1>5, <2>1, BoundKept DEF UnspentOf
<1> QED
  BY <1>6, <1>7

\* What is read as not exhausted is below a positive limit.
LEMMA NotExhausted ==
  ASSUME NEW k \in Kinds, NEW amount \in Nat, ~Exhausted(k, amount), Limit[k] > 0
  PROVE  amount < Limit[k]
  BY GatewayAssumption DEF Exhausted, NoLimit

LEMMA BudgetStep == TypeOK /\ BudgetInv /\ [Next]_vars => BudgetInv'
<1> SUFFICES ASSUME TypeOK, BudgetInv, [Next]_vars, NEW k \in Kinds, NEW p \in Days
             PROVE  BoundOf(k, p)' /\ UnspentOf(k, p)'
  BY DEF BudgetInv
<1>0. BoundOf(k, p) /\ UnspentOf(k, p)
  BY DEF BudgetInv
\* Steps that leave the ledger and the day alone and admit nobody.
<1>1. ASSUME NEW r \in Requests, UNCHANGED <<today, spent>>,
             \A q \in Requests \ {r} :
               /\ pc'[q] = pc[q] /\ asked'[q] = asked[q]
               /\ dayOver'[q] = dayOver[q] /\ stamp'[q] = stamp[q],
             CanCharge(r, k, p)' => CanCharge(r, k, p)
      PROVE  BoundOf(k, p)' /\ UnspentOf(k, p)'
  <2>1. \A q \in Requests : CanCharge(q, k, p)' => CanCharge(q, k, p)
    BY <1>1, OthersKept
  <2> QED
    BY <1>0, <1>1, <2>1, BoundKept DEF UnspentOf
\* The same, when the request may now be charged to a period below its limit.
<1>2. ASSUME UNCHANGED <<today, spent>>, Limit[k] > 0 => spent[k][p] < Limit[k]
      PROVE  BoundOf(k, p)' /\ UnspentOf(k, p)'
  BY <1>0, <1>2, BoundAdmit DEF UnspentOf
\* Taking a new key admits only to periods that start later.
<1>3. ASSUME NEW d \in today .. LastDay, PeriodOf[k][d] = p,
             PeriodOf[k][today] # p, UNCHANGED <<today, spent>>
      PROVE  BoundOf(k, p)' /\ UnspentOf(k, p)'
  BY <1>0, <1>2, <1>3, FutureUnspent
<1> USE DEF Goto, Working, EndPCs, Refused, Failing, Underway
<1>4. ASSUME NEW r \in Requests,
             \/ Arrive(r) \/ EvaluatePolicy(r) \/ BadRequest(r) \/ Finish(r)
             \/ CallRouter(r) \/ StartStream(r) \/ UsageChunk(r)
             \/ RouterServes(r) \/ RouterFails(r)
      PROVE  BoundOf(k, p)' /\ UnspentOf(k, p)'
  <2>1. /\ UNCHANGED <<today, spent, asked, dayOver, stamp>>
        /\ \A q \in Requests \ {r} : pc'[q] = pc[q]
    BY <1>4 DEF Arrive, EvaluatePolicy, BadRequest, Finish, CallRouter,
       StartStream, UsageChunk, RouterServes, RouterFails, TypeOK, handlerVars
  <2>2. \/ pc[r] \in Underway /\ pc'[r] \in Underway
        \/ pc'[r] \in EndPCs \cup {"policy", "rate"}
    BY <1>4 DEF Arrive, EvaluatePolicy, BadRequest, Finish, CallRouter,
       StartStream, UsageChunk, RouterServes, RouterFails, TypeOK
  <2>3. CanCharge(r, k, p)' => CanCharge(r, k, p)
    BY <2>1, <2>2 DEF CanCharge, Kinds
  <2> QED
    BY <1>1, <2>1, <2>3
<1>5. ASSUME NEW r \in Requests, Leave(r) PROVE BoundOf(k, p)' /\ UnspentOf(k, p)'
  <2>1. pc'[r] = "idle"
    BY <1>5 DEF Leave, TypeOK
  <2>2. ~CanCharge(r, k, p)'
    BY <2>1 DEF CanCharge, Kinds
  <2> QED
    BY <1>1, <1>5, <2>2 DEF Leave, TypeOK
<1>6. ASSUME NEW r \in Requests, IssueRecord(r)
      PROVE  BoundOf(k, p)' /\ UnspentOf(k, p)'
  <2>1. pc[r] = "served" /\ pc'[r] = "recording" /\ stamp'[r] = today
    BY <1>6 DEF IssueRecord, TypeOK
  <2>2. today \in today .. LastDay
    BY GatewayAssumption DEF TypeOK, Days
  <2>3. CanCharge(r, k, p)' => CanCharge(r, k, p)
    BY <2>1, <2>2 DEF CanCharge, Kinds
  <2> QED
    BY <1>1, <1>6, <2>3 DEF IssueRecord, TypeOK
<1>7. ASSUME NEW r \in Requests, CheckRate(r)
      PROVE  BoundOf(k, p)' /\ UnspentOf(k, p)'
  <2>1. CASE CanCharge(r, k, p)'
    <3>1. \/ pc'[r] = "day" /\ asked'[r] = today
          \/ pc'[r] = "limited"
      BY <1>7 DEF CheckRate, TypeOK
    <3>2. /\ \E d \in today .. LastDay : PeriodOf[k][d] = p
          /\ PeriodOf[k][today] # p
      BY <1>7, <2>1, <3>1 DEF CanCharge, CheckRate, Kinds
    <3> QED
      BY <1>3, <1>7, <3>2 DEF CheckRate
  <2>2. CASE ~CanCharge(r, k, p)'
    BY <1>1, <1>7, <2>2 DEF CheckRate, TypeOK
  <2> QED
    BY <2>1, <2>2
<1>8. ASSUME NEW r \in Requests, ReadDay(r)
      PROVE  BoundOf(k, p)' /\ UnspentOf(k, p)'
  <2>1. /\ pc[r] = "day" /\ pc'[r] = "month" /\ asked'[r] = today
        /\ dayOver'[r] = Exhausted("day", spent["day"][PeriodOf["day"][asked[r]]])
        /\ UNCHANGED <<today, spent>>
    BY <1>8 DEF ReadDay, TypeOK
  <2>2. CASE ~CanCharge(r, k, p)' \/ CanCharge(r, k, p)
    BY <1>1, <1>8, <2>2 DEF ReadDay, TypeOK
  <2>3. CASE CanCharge(r, k, p)' /\ ~CanCharge(r, k, p) /\ k = "month"
    <3>1. /\ \E d \in today .. LastDay : PeriodOf[k][d] = p
          /\ PeriodOf[k][today] # p
      BY <2>1, <2>3 DEF CanCharge
    <3> QED
      BY <1>3, <2>1, <3>1
  <2>4. CASE CanCharge(r, k, p)' /\ ~CanCharge(r, k, p) /\ k = "day"
    <3>1. PeriodOf[k][asked[r]] = p /\ ~dayOver'[r]
      BY <2>1, <2>4 DEF CanCharge
    <3>2. spent[k][p] \in Nat /\ ~Exhausted(k, spent[k][p])
      BY <2>1, <2>4, <3>1 DEF TypeOK
    <3> QED
      BY <1>2, <2>1, <3>2, NotExhausted
  <2> QED
    BY <2>2, <2>3, <2>4 DEF Kinds
<1>9. ASSUME NEW r \in Requests, ReadMonth(r)
      PROVE  BoundOf(k, p)' /\ UnspentOf(k, p)'
  <2>1. /\ pc[r] = "month" /\ UNCHANGED <<today, spent, asked, dayOver, stamp>>
        /\ pc'[r] \in {"overBudget", "admitted"}
        /\ pc'[r] = "admitted" =>
             /\ ~dayOver[r]
             /\ ~Exhausted("month", spent["month"][PeriodOf["month"][asked[r]]])
    BY <1>9 DEF ReadMonth, TypeOK, handlerVars
  <2>2. CASE ~CanCharge(r, k, p)' \/ CanCharge(r, k, p)
    BY <1>1, <1>9, <2>2 DEF ReadMonth, TypeOK, handlerVars
  <2>3. CASE CanCharge(r, k, p)' /\ ~CanCharge(r, k, p)
    <3>1. pc'[r] = "admitted" /\ \E d \in today .. LastDay : PeriodOf[k][d] = p
      BY <2>1, <2>3 DEF CanCharge, Kinds
    <3>2. k = "month" /\ PeriodOf[k][asked[r]] = p
      BY <2>1, <2>3, <3>1 DEF CanCharge, Kinds
    <3>3. spent[k][p] \in Nat /\ ~Exhausted(k, spent[k][p])
      BY <2>1, <3>1, <3>2 DEF TypeOK
    <3> QED
      BY <1>2, <2>1, <3>3, NotExhausted
  <2> QED
    BY <2>2, <2>3
<1>10. ASSUME NEW r \in Requests, Record(r) \/ BackendFault(r) \/ Disconnect(r)
       PROVE  BoundOf(k, p)' /\ UnspentOf(k, p)'
  <2>1. /\ UNCHANGED <<today, asked, dayOver, stamp>>
        /\ \A q \in Requests \ {r} : pc'[q] = pc[q]
        /\ pc'[r] \in EndPCs \cup {"recorded"}
    BY <1>10 DEF Record, BackendFault, Disconnect, TypeOK
  <2>2. CASE pc[r] = "recording" /\ Stored(r)
    BY <1>0, <2>1, <2>2, StoredBudget
  <2>3. CASE UNCHANGED spent
    <3>1. ~CanCharge(r, k, p)'
      <4>1. pc'[r] \notin {"recording"} \cup Kinds \cup Underway
        BY <2>1 DEF Kinds
      <4> QED
        BY <4>1 DEF CanCharge, Kinds
    <3> QED
      BY <1>1, <2>1, <2>3, <3>1
  <2> QED
    BY <1>10, <2>2, <2>3 DEF Record, BackendFault, Disconnect, RecordLost
<1>11. CASE Midnight
  <2>1. today \in Nat /\ LastDay \in Nat /\ today' = today + 1
    BY <1>11, GatewayAssumption DEF Midnight, TypeOK, Days
  <2>2. today' .. LastDay \subseteq today .. LastDay /\ 0 .. today \subseteq 0 .. today'
    BY <2>1
  <2>3. \A q \in Requests : CanCharge(q, k, p)' => CanCharge(q, k, p)
    BY <1>11, <2>2 DEF CanCharge, Midnight, handlerVars
  <2> QED
    BY <1>0, <1>11, <2>2, <2>3, BoundKept DEF Midnight, UnspentOf
<1>12. CASE UNCHANGED vars
  <2>1. \A q \in Requests : CanCharge(q, k, p)' => CanCharge(q, k, p)
    BY <1>12 DEF CanCharge, vars, handlerVars
  <2> QED
    BY <1>0, <1>12, <2>1, BoundKept DEF vars, UnspentOf
<1> QED
  BY <1>4, <1>5, <1>6, <1>7, <1>8, <1>9, <1>10, <1>11, <1>12
     DEF Next, Handler, RouterReturns

LEMMA BudgetInit == Init => BudgetInv
<1> SUFFICES ASSUME Init, NEW k \in Kinds, NEW p \in Days
             PROVE  BoundOf(k, p) /\ UnspentOf(k, p)
  BY DEF BudgetInv
<1>1. /\ MaxCost * Cardinality(Chargers(k, p)) \in Nat
      /\ MaxCost * Cardinality(Chargers(k, p)) <= MaxCost * Cardinality(Requests)
      /\ MaxCost * Cardinality(Requests) \in Nat
  BY SlotsFinite DEF Chargers
<1>2. spent[k][p] = 0 /\ Limit[k] \in Int
  BY GatewayAssumption DEF Init, NoLimit
<1> QED
  BY <1>1, <1>2 DEF BoundOf, UnspentOf

\* How far a budget can be passed: by less than the greatest cost of the
\* requests in progress at once (the gate of BudgetManager.allowed read before
\* the call, the charge of usage_record after it, every midnight in between).
THEOREM OvershootIsBounded == Spec => []OvershootBounded
<1>1. TypeOK /\ BudgetInv => OvershootBounded
  <2> SUFFICES ASSUME TypeOK, BudgetInv, NEW k \in Kinds, NEW p \in Days, Limit[k] > 0
               PROVE  spent[k][p] < Limit[k] + MaxCost * Cardinality(Requests)
    BY DEF OvershootBounded
  <2>1. spent[k][p] + MaxCost * Cardinality(Chargers(k, p))
          < Limit[k] + MaxCost * Cardinality(Requests)
    BY DEF BudgetInv, BoundOf
  <2>2. /\ MaxCost * Cardinality(Chargers(k, p)) \in Nat
        /\ MaxCost * Cardinality(Requests) \in Nat
    BY SlotsFinite DEF Chargers
  <2>3. spent[k][p] \in Nat /\ Limit[k] \in Int
    BY GatewayAssumption DEF TypeOK, NoLimit
  <2> QED
    BY <2>1, <2>2, <2>3
<1> QED
  BY <1>1, BudgetInit, BudgetStep, TypeInit, TypeStep, PTL DEF Spec

-----------------------------------------------------------------------------
(* The accounts.  AnswersAccounted looks at requests that have ended; the   *)
(* ledger and the metrics of a request on its way are determined by where   *)
(* it is.                                                                   *)

Uncharged == {"policy", "rate", "day", "month", "admitted"}

AccountOf(r) ==
  /\ pc[r] \in {"idle", "recording"} \cup Uncharged \cup Underway \cup Refused =>
       recorded[r] = 0 /\ ~metered[r]
  /\ pc[r] \in Uncharged \cup {"idle", "denied", "limited", "overBudget", "badRequest"} =>
       outcome[r] = "idle"
  /\ pc[r] \in {"served", "recording", "recorded", "answered"} => outcome[r] = "served"
  /\ pc[r] = "badGateway" => outcome[r] = "exhausted"
  /\ pc[r] = "recorded" => recorded[r] = 1 /\ ~metered[r]
  /\ pc[r] = "answered" => recorded[r] = 1 /\ metered[r]
  /\ pc[r] \in Failing => recorded[r] \in {0, 1} /\ ~metered[r]

Accounts == \A r \in Requests : AccountOf(r)

\* What an action of r leaves alone of another request.
Same(q) ==
  /\ pc'[q] = pc[q] /\ recorded'[q] = recorded[q]
  /\ metered'[q] = metered[q] /\ outcome'[q] = outcome[q]

LEMMA SameAccount ==
  ASSUME NEW q \in Requests, AccountOf(q), Same(q)
  PROVE  AccountOf(q)'
BY DEF AccountOf, Same

\* Every action concerns one request.
LEMMA OthersSame ==
  ASSUME TypeOK, NEW r \in Requests,
         Arrive(r) \/ Handler(r) \/ RouterReturns(r) \/ UsageChunk(r)
           \/ BackendFault(r) \/ Disconnect(r) \/ Leave(r),
         NEW q \in Requests \ {r}
  PROVE  Same(q)
<1> USE DEF TypeOK, Same, Goto, handlerVars, contractVars, Stored, RecordLost,
            Accept, Serve, Exhaust, Crash, Break, Abort, End, Release
<1>1. CASE Arrive(r)
  BY <1>1 DEF Arrive
<1>2. CASE EvaluatePolicy(r)
  BY <1>2 DEF EvaluatePolicy
<1>3. CASE CheckRate(r)
  BY <1>3 DEF CheckRate
<1>4. CASE ReadDay(r)
  BY <1>4 DEF ReadDay
<1>5. CASE ReadMonth(r)
  BY <1>5 DEF ReadMonth
<1>6. CASE CallRouter(r)
  BY <1>6 DEF CallRouter
<1>7. CASE BadRequest(r)
  BY <1>7 DEF BadRequest
<1>8. CASE IssueRecord(r)
  BY <1>8 DEF IssueRecord
<1>9. CASE Record(r)
  BY <1>9 DEF Record
<1>10. CASE Finish(r)
  BY <1>10 DEF Finish
<1>11. CASE StartStream(r)
  BY <1>11 DEF StartStream
<1>12. CASE RouterServes(r)
  BY <1>12 DEF RouterServes
<1>13. CASE RouterFails(r)
  BY <1>13 DEF RouterFails
<1>14. CASE UsageChunk(r)
  BY <1>14 DEF UsageChunk
<1>15. CASE BackendFault(r)
  BY <1>15 DEF BackendFault
<1>16. CASE Disconnect(r)
  BY <1>16 DEF Disconnect
<1>17. CASE Leave(r)
  BY <1>17 DEF Leave
<1> QED
  BY <1>1, <1>2, <1>3, <1>4, <1>5, <1>6, <1>7, <1>8, <1>9, <1>10, <1>11,
     <1>12, <1>13, <1>14, <1>15, <1>16, <1>17 DEF Handler, RouterReturns

LEMMA OwnAccount ==
  ASSUME TypeOK, NEW r \in Requests, AccountOf(r),
         Arrive(r) \/ Handler(r) \/ RouterReturns(r) \/ UsageChunk(r)
           \/ BackendFault(r) \/ Disconnect(r) \/ Leave(r)
  PROVE  AccountOf(r)'
<1> USE DEF TypeOK, AccountOf, Goto, handlerVars, contractVars, Uncharged,
            Underway, Refused, Failing
<1>1. CASE Arrive(r)
  BY <1>1 DEF Arrive
<1>2. CASE EvaluatePolicy(r)
  BY <1>2 DEF EvaluatePolicy
<1>3. CASE CheckRate(r)
  BY <1>3 DEF CheckRate
<1>4. CASE ReadDay(r)
  BY <1>4 DEF ReadDay
<1>5. CASE ReadMonth(r)
  BY <1>5 DEF ReadMonth
<1>6. CASE CallRouter(r)
  BY <1>6 DEF CallRouter, Accept
<1>7. CASE BadRequest(r)
  BY <1>7 DEF BadRequest
<1>8. CASE IssueRecord(r)
  BY <1>8 DEF IssueRecord
<1>9. CASE Record(r)
  BY <1>9 DEF Record, Stored
<1>10. CASE Finish(r)
  BY <1>10 DEF Finish
<1>11. CASE StartStream(r)
  BY <1>11 DEF StartStream
<1>12. CASE RouterServes(r)
  BY <1>12 DEF RouterServes, Serve, End
<1>13. CASE RouterFails(r)
  BY <1>13 DEF RouterFails, Exhaust, Crash, Break, End
<1>14. CASE UsageChunk(r)
  BY <1>14 DEF UsageChunk
<1>15. CASE BackendFault(r)
  <2>1. CASE /\ \/ pc[r] \in Uncharged
                \/ pc[r] \in {"served", "recorded"} /\ ~streaming[r]
             /\ Goto(r, "error")
             /\ UNCHANGED <<spent, recorded, contractVars>>
    BY <1>15, <2>1 DEF BackendFault
  <2>2. CASE pc[r] = "streaming" /\ Abort(r) /\ Goto(r, "broken")
             /\ UNCHANGED <<spent, recorded>>
    BY <1>15, <2>2 DEF BackendFault, Abort, End
  <2>3. CASE /\ RecordLost(r) /\ UNCHANGED contractVars
             /\ Goto(r, IF streaming[r] THEN "broken" ELSE "error")
    <3>1. recorded[r] = 0 /\ ~metered[r] /\ recorded'[r] \in {0, 1}
      BY <2>3 DEF RecordLost, Stored
    <3>2. pc'[r] \in {"broken", "error"} /\ metered'[r] = metered[r]
      BY <1>15, <2>3 DEF BackendFault
    <3> QED BY <3>1, <3>2
  <2> QED
    BY <1>15, <2>1, <2>2, <2>3 DEF BackendFault
<1>16. CASE Disconnect(r)
  BY <1>16 DEF Disconnect, RecordLost, Stored, Abort, End
<1>17. CASE Leave(r)
  BY <1>17 DEF Leave, Release
<1> QED
  BY <1>1, <1>2, <1>3, <1>4, <1>5, <1>6, <1>7, <1>8, <1>9, <1>10, <1>11,
     <1>12, <1>13, <1>14, <1>15, <1>16, <1>17 DEF Handler, RouterReturns

LEMMA AccountsStep == TypeOK /\ Accounts /\ [Next]_vars => Accounts'
<1> SUFFICES ASSUME TypeOK, Accounts, [Next]_vars, NEW q \in Requests
             PROVE  AccountOf(q)'
  BY DEF Accounts
<1>1. AccountOf(q)
  BY DEF Accounts
<1>2. CASE Midnight \/ UNCHANGED vars
  <2>1. Same(q)
    BY <1>2 DEF Midnight, vars, handlerVars, contractVars, Same
  <2> QED BY <1>1, <2>1, SameAccount
<1>3. CASE \E r \in Requests :
             Arrive(r) \/ Handler(r) \/ RouterReturns(r) \/ UsageChunk(r)
               \/ BackendFault(r) \/ Disconnect(r) \/ Leave(r)
  BY <1>1, <1>3, OthersSame, OwnAccount, SameAccount
<1> QED
  BY <1>2, <1>3 DEF Next

\* Answers, ledger and metrics agree (chat_completions and _stream_response:
\* record first, then metrics, then the answer or [DONE]).
THEOREM EveryAnswerIsAccounted == Spec => []AnswersAccounted
<1>1. Init => Accounts
  BY DEF Init, ContractInit, Accounts, AccountOf, Uncharged, Underway, Refused, Failing
<1>2. TypeOK /\ Accounts => AnswersAccounted
  BY DEF TypeOK, Accounts, AccountOf, AnswersAccounted, Uncharged, Underway,
         Working, Refused, Failing, EndPCs
<1> QED
  BY <1>1, <1>2, AccountsStep, TypeInit, TypeStep, PTL DEF Spec
=============================================================================
