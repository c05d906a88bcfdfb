---------------------------- MODULE RouterProofs ----------------------------
(***************************************************************************)
(* Theorems about module Router for every number of requests, every set of *)
(* providers and candidate lists, every threshold, recovery interval and   *)
(* retry setting.                                                          *)
(***************************************************************************)
EXTENDS Router, TLAPS

LEMMA RetryLimitNat == RetryLimit \in Nat
  BY RouterAssumption DEF RetryLimit

\* Counting a failure gives a circuit again.
LEMMA FailedType ==
  ASSUME NEW c \in Circuit, NEW t \in Nat
  PROVE  Failed(c, t) \in Circuit
  BY CircuitAssumption DEF Circuit, Failed, Opens, Never

\* Writing the attempts list of one request keeps its type.
LEMMA NoteType ==
  ASSUME NEW r \in Requests, TypeOK,
         NEW status \in {"skipped", "failed", "success", "stream_selected"},
         Note(r, status)
  PROVE  attempts' \in [Requests -> Seq(Attempt)]
<1> DEFINE a == [target |-> idx[r], retry |-> retry[r], status |-> status]
<1>1. a \in Attempt
  BY RetryLimitNat DEF TypeOK, Attempt
<1>2. Append(attempts[r], a) \in Seq(Attempt)
  BY <1>1 DEF TypeOK
<1> QED
  BY <1>2 DEF TypeOK, Note

\* A report leaves every circuit a circuit.
LEMMA SuccessType ==
  ASSUME NEW r \in Requests, TypeOK, pc[r] = "succeeded", SuccessStored(r)
  PROVE  /\ circuit' \in [Providers -> Circuit]
         /\ overtaken' \in [Requests -> BOOLEAN]
  BY DEF TypeOK, SuccessStored, Circuit, Closed, Never

LEMMA FailureType ==
  ASSUME NEW r \in Requests, TypeOK, pc[r] = "failing", FailureStored(r)
  PROVE  /\ circuit' \in [Providers -> Circuit]
         /\ overtaken' \in [Requests -> BOOLEAN]
<1>1. ASSUME Current(r) \in Providers
      PROVE  Failed(circuit[Current(r)], stamp[r]) \in Circuit
  BY <1>1, FailedType DEF TypeOK
<1> QED
  BY <1>1 DEF TypeOK, FailureStored

LEMMA LostType ==
  ASSUME NEW r \in Requests, TypeOK, ReportLost(r)
  PROVE  /\ circuit' \in [Providers -> Circuit]
         /\ overtaken' \in [Requests -> BOOLEAN]
  BY SuccessType, FailureType DEF ReportLost, TypeOK

\* Leaving a target keeps the loop counters in their ranges.
LEMMA NextTargetType ==
  ASSUME NEW r \in Requests, TypeOK, NextTarget(r)
  PROVE  /\ pc' = [pc EXCEPT ![r] = "select"]
         /\ idx' \in [Requests -> Nat \ {0}]
         /\ \A q \in Requests \ {r} : idx'[q] = idx[q]
         /\ retry' \in [Requests -> 0 .. RetryLimit]
<1>1. idx[r] + 1 \in Nat \ {0}
  BY DEF TypeOK
<1>2. 0 \in 0 .. RetryLimit
  BY RetryLimitNat
<1> QED
  BY <1>1, <1>2 DEF TypeOK, NextTarget, Goto

LEMMA TypeInit == Init => TypeOK
  BY RetryLimitNat DEF Init, TypeOK, Circuit, Closed, Never, InFlight,
     RoutingPCs, EndPCs

LEMMA TypeStep == TypeOK /\ [Next]_vars => TypeOK'
<1> SUFFICES ASSUME TypeOK, [Next]_vars PROVE TypeOK'
  OBVIOUS
<1> USE DEF InFlight, RoutingPCs, EndPCs
<1>1. ASSUME NEW r \in Requests, Begin(r) PROVE TypeOK'
  BY <1>1 DEF TypeOK, Begin, Goto, history
<1>2. ASSUME NEW r \in Requests, SkipTarget(r) PROVE TypeOK'
  <2>1. attempts' \in [Requests -> Seq(Attempt)]
    BY <1>2, NoteType DEF SkipTarget
  <2> QED
    BY <1>2, <2>1, NextTargetType DEF TypeOK, SkipTarget, history
<1>3. ASSUME NEW r \in Requests, ReadCircuit(r) PROVE TypeOK'
  <2>1. Current(r) \in Providers
    BY <1>3, RouterAssumption DEF TypeOK, ReadCircuit, Current
  <2> QED
    BY <1>3, <2>1 DEF TypeOK, ReadCircuit, Goto
<1>4. ASSUME NEW r \in Requests, AdmitTarget(r) PROVE TypeOK'
  <2>1. attempts' \in [Requests -> Seq(Attempt)]
    BY <1>4, NoteType DEF AdmitTarget, TypeOK
  <2> QED
    BY <1>4, <2>1 DEF TypeOK, AdmitTarget, Goto
<1>5. ASSUME NEW r \in Requests, SkipOpen(r) PROVE TypeOK'
  <2>1. attempts' \in [Requests -> Seq(Attempt)]
    BY <1>5, NoteType DEF SkipOpen
  <2> QED
    BY <1>5, <2>1, NextTargetType DEF TypeOK, SkipOpen, history
<1>6. ASSUME NEW r \in Requests, ReportSuccess(r) PROVE TypeOK'
  <2>1. attempts' \in [Requests -> Seq(Attempt)]
    BY <1>6, NoteType DEF ReportSuccess, TypeOK
  <2> QED
    BY <1>6, <2>1, SuccessType DEF TypeOK, ReportSuccess, Goto
<1>7. ASSUME NEW r \in Requests, ReportFailure(r) PROVE TypeOK'
  <2>1. /\ circuit' \in [Providers -> Circuit]
        /\ overtaken' \in [Requests -> BOOLEAN]
    BY <1>7, FailureType DEF ReportFailure
  <2>2. attempts' \in [Requests -> Seq(Attempt)]
    BY <1>7, NoteType DEF ReportFailure, AfterFailure, TypeOK
  <2>3. AfterFailure(r)
    BY <1>7 DEF ReportFailure
  <2>4. /\ pc' \in [Requests -> {"idle"} \cup RoutingPCs \cup EndPCs]
        /\ idx' \in [Requests -> Nat \ {0}]
        /\ retry' \in [Requests -> 0 .. RetryLimit]
    <3>1. CASE stream[r]
      BY <2>3, <3>1 DEF TypeOK, AfterFailure, Goto
    <3>2. CASE ~stream[r] /\ RetriesLeft(r)
      <4>1. retry[r] + 1 \in 0 .. RetryLimit
        BY <3>2, RetryLimitNat DEF TypeOK, RetriesLeft
      <4>2. /\ pc' = [pc EXCEPT ![r] = "calling"]
            /\ retry' = [retry EXCEPT ![r] = retry[r] + 1]
            /\ idx' = idx
        BY <2>3, <3>2 DEF AfterFailure, Goto
      <4>3. retry' \in [Requests -> 0 .. RetryLimit]
        BY <4>1, <4>2 DEF TypeOK
      <4>4. pc' \in [Requests -> {"idle"} \cup RoutingPCs \cup EndPCs]
        BY <4>2 DEF TypeOK, RoutingPCs, InFlight
      <4> QED
        BY <4>2, <4>3, <4>4 DEF TypeOK
    <3>3. CASE ~stream[r] /\ ~RetriesLeft(r)
      BY <2>3, <3>3, NextTargetType DEF TypeOK, AfterFailure
    <3> QED
      BY <3>1, <3>2, <3>3
  <2>5. \A q \in Requests :
          /\ pc'[q] \in InFlight \cup {"decide"} => idx'[q] \in 1 .. Len(targets[q])
          /\ pc'[q] # "idle" => targets[q] \in CandidateLists
    BY <1>7, <2>3 DEF TypeOK, AfterFailure, Goto, NextTarget, ReportFailure
  <2> QED
    BY <1>7, <2>1, <2>2, <2>4, <2>5 DEF TypeOK, ReportFailure
<1>8. ASSUME NEW r \in Requests, GiveUp(r) PROVE TypeOK'
  BY <1>8 DEF TypeOK, GiveUp, Goto, requestVars, history
<1>9. ASSUME NEW r \in Requests, Return(r) PROVE TypeOK'
  <2>1. CASE ProviderAnswers(r)
    BY <2>1 DEF TypeOK, ProviderAnswers, Goto, requestVars, history
  <2>2. CASE ProviderFails(r)
    BY <2>2 DEF TypeOK, ProviderFails, Goto, history
  <2>3. CASE ProviderCrashes(r)
    BY <2>3 DEF TypeOK, ProviderCrashes, Unhandled, Goto, requestVars, history
  <2> QED
    BY <1>9, <2>1, <2>2, <2>3 DEF Return
<1>10. ASSUME NEW r \in Requests, BackendFault(r) PROVE TypeOK'
  <2>1. /\ circuit' \in [Providers -> Circuit]
        /\ overtaken' \in [Requests -> BOOLEAN]
    BY <1>10, LostType DEF BackendFault, TypeOK
  <2> QED
    BY <1>10, <2>1 DEF TypeOK, BackendFault, Unhandled, Goto, requestVars
<1>11. ASSUME NEW r \in Requests, Disconnect(r) PROVE TypeOK'
  BY <1>11, LostType DEF TypeOK, Disconnect, Goto, requestVars
<1>12. ASSUME Tick PROVE TypeOK'
  BY <1>12 DEF TypeOK, Tick, requestVars, history
<1>13. ASSUME UNCHANGED vars PROVE TypeOK'
  BY <1>13 DEF TypeOK, vars, requestVars, history
<1> QED
  BY <1>1, <1>2, <1>3, <1>4, <1>5, <1>6, <1>7, <1>8, <1>9, <1>10, <1>11,
     <1>12, <1>13 DEF Next, Internal

\* Type correctness of the router's state.
THEOREM TypeCorrect == Spec => []TypeOK
  BY TypeInit, TypeStep, PTL DEF Spec

-----------------------------------------------------------------------------
(* AdmissionWindow. *)

\* A circuit that is open while r decides about it, or uses it, is the one r
\* read, unless it was opened after r had read it.
WindowOf(r) ==
  LET opened == circuit[Current(r)].openedAt IN
    /\ pc[r] = "decide" =>
         opened = Never \/ overtaken[r] \/ opened = seen[r].openedAt
    /\ pc[r] \in InFlight =>
         \/ opened = Never
         \/ overtaken[r]
         \/ admittedAt[r] - opened >= RecoverySeconds

WindowInv == \A r \in Requests : WindowOf(r)

\* A report leaves the opening time of every circuit alone, or deletes it, or
\* has overtaken every request that had read that circuit.
LEMMA StoredWindow ==
  ASSUME NEW r \in Requests, TypeOK, ReportLost(r),
         NEW q \in Requests, pc[q] \in InFlight \cup {"decide"}
  PROVE  /\ overtaken[q] => overtaken'[q]
         /\ \/ circuit'[Current(q)].openedAt = Never
            \/ overtaken'[q]
            \/ circuit'[Current(q)].openedAt = circuit[Current(q)].openedAt
<1>1. /\ Current(q) \in Providers
      /\ pc[r] \in InFlight => Current(r) \in Providers
  BY RouterAssumption DEF TypeOK, Current
<1>2. CASE UNCHANGED <<circuit, overtaken>>
  BY <1>2
<1>3. CASE pc[r] = "succeeded" /\ SuccessStored(r)
  BY <1>1, <1>3 DEF SuccessStored, TypeOK, Closed, InFlight
<1>4. CASE pc[r] = "failing" /\ FailureStored(r)
  <2>1. CASE Opens(circuit[Current(r)]) /\ Current(q) = Current(r)
    BY <1>4, <2>1 DEF FailureStored
  <2>2. CASE ~Opens(circuit[Current(r)]) \/ Current(q) # Current(r)
    BY <1>1, <1>4, <2>2 DEF FailureStored, TypeOK, Failed, InFlight
  <2> QED
    BY <1>4, <2>1, <2>2 DEF FailureStored
<1> QED
  BY <1>2, <1>3, <1>4 DEF ReportLost

\* What a request's own window rests on, when a step leaves it where it is.
LEMMA WindowKept ==
  ASSUME NEW q \in Requests, WindowOf(q), pc'[q] = pc[q],
         pc[q] \in InFlight \cup {"decide"} =>
           /\ Current(q)' = Current(q)
           /\ seen'[q] = seen[q] /\ admittedAt'[q] = admittedAt[q]
           /\ overtaken[q] => overtaken'[q]
           /\ \/ circuit'[Current(q)].openedAt = Never
              \/ overtaken'[q]
              \/ circuit'[Current(q)].openedAt = circuit[Current(q)].openedAt
  PROVE  WindowOf(q)'
  BY DEF WindowOf, InFlight

LEMMA WindowStep ==
  TypeOK /\ WindowInv /\ [Next]_vars => WindowInv'
<1> SUFFICES ASSUME TypeOK, WindowInv, [Next]_vars, NEW q \in Requests
             PROVE  WindowOf(q)'
  BY DEF WindowInv
<1> USE DEF InFlight
<1>0. WindowOf(q) /\ (pc[q] \in InFlight \cup {"decide"} => Current(q) \in Providers)
  BY RouterAssumption DEF WindowInv, TypeOK, Current
<1>1. ASSUME NEW r \in Requests, Begin(r) PROVE WindowOf(q)'
  BY <1>0, <1>1 DEF WindowOf, TypeOK, Begin, Goto, history, Current
<1>2. ASSUME NEW r \in Requests, SkipTarget(r) PROVE WindowOf(q)'
  BY <1>0, <1>2 DEF WindowOf, TypeOK, SkipTarget, NextTarget, Goto, history, Current
<1>3. ASSUME NEW r \in Requests, ReadCircuit(r) PROVE WindowOf(q)'
  BY <1>0, <1>3 DEF WindowOf, TypeOK, ReadCircuit, Goto, Current
<1>4. ASSUME NEW r \in Requests, AdmitTarget(r) PROVE WindowOf(q)'
  <2>1. CASE q = r
    <3>1. Current(r)' = Current(r)
      BY <1>4 DEF AdmitTarget, Current
    <3>2. pc'[r] = "calling" /\ admittedAt'[r] = now
      BY <1>4 DEF AdmitTarget, TypeOK, Goto
    <3>3. \/ circuit[Current(r)].openedAt = Never
          \/ overtaken[r]
          \/ now - circuit[Current(r)].openedAt >= RecoverySeconds
      BY <1>0, <1>4, <2>1 DEF WindowOf, AdmitTarget, Allows
    <3> QED
      BY <1>4, <2>1, <3>1, <3>2, <3>3 DEF WindowOf, AdmitTarget
  <2>2. CASE q # r
    BY <1>0, <1>4, <2>2, WindowKept DEF AdmitTarget, TypeOK, Goto, Current
  <2> QED
    BY <2>1, <2>2
<1>5. ASSUME NEW r \in Requests, SkipOpen(r) PROVE WindowOf(q)'
  BY <1>0, <1>5 DEF WindowOf, TypeOK, SkipOpen, NextTarget, Goto, history, Current
<1>6. ASSUME NEW r \in Requests, ReportSuccess(r) PROVE WindowOf(q)'
  <2>1. CASE q = r
    BY <1>6, <2>1 DEF WindowOf, ReportSuccess, Goto, TypeOK
  <2>2. CASE q # r
    <3>1. pc[q] \in InFlight \cup {"decide"} =>
          /\ overtaken[q] => overtaken'[q]
          /\ \/ circuit'[Current(q)].openedAt = Never
             \/ overtaken'[q]
             \/ circuit'[Current(q)].openedAt = circuit[Current(q)].openedAt
      <4>1. ReportLost(r)
        BY <1>6 DEF ReportSuccess, ReportLost
      <4> QED
        BY <4>1, StoredWindow
    <3>2. pc'[q] = pc[q] /\ Current(q)' = Current(q)
      BY <1>6, <2>2 DEF ReportSuccess, Goto, TypeOK, Current
    <3> QED
      BY <1>0, <1>6, <3>1, <3>2, WindowKept DEF ReportSuccess
  <2> QED
    BY <2>1, <2>2
<1>7. ASSUME NEW r \in Requests, ReportFailure(r) PROVE WindowOf(q)'
  <2>1. /\ pc[r] = "failing" /\ FailureStored(r) /\ AfterFailure(r)
        /\ UNCHANGED <<targets, seen, admittedAt>>
    BY <1>7 DEF ReportFailure
  <2>2. pc[q] \in InFlight \cup {"decide"} =>
          /\ overtaken[q] => overtaken'[q]
          /\ \/ circuit'[Current(q)].openedAt = Never
             \/ overtaken'[q]
             \/ circuit'[Current(q)].openedAt = circuit[Current(q)].openedAt
    <3>1. ReportLost(r)
      BY <2>1 DEF ReportLost
    <3> QED
      BY <3>1, StoredWindow
  <2>3. CASE q = r
    <3>1. CASE pc'[r] \in InFlight
      <4>1. Current(r)' = Current(r)
        BY <2>1, <3>1 DEF AfterFailure, NextTarget, Goto, Current, TypeOK
      <4>2. pc'[r] # "decide"
        BY <3>1
      <4> QED
        BY <1>0, <2>1, <2>2, <2>3, <4>1, <4>2 DEF WindowOf
    <3>2. CASE pc'[r] \notin InFlight
      <4>1. pc'[r] # "decide"
        BY <2>1 DEF AfterFailure, NextTarget, Goto, TypeOK
      <4> QED
        BY <2>3, <3>2, <4>1 DEF WindowOf
    <3> QED
      BY <3>1, <3>2
  <2>4. CASE q # r
    <3>1. pc'[q] = pc[q] /\ Current(q)' = Current(q)
      BY <2>1, <2>4 DEF AfterFailure, NextTarget, Goto, TypeOK, Current
    <3> QED
      BY <1>0, <2>1, <2>2, <3>1, WindowKept
  <2> QED
    BY <2>3, <2>4
<1>8. ASSUME NEW r \in Requests, GiveUp(r) PROVE WindowOf(q)'
  BY <1>0, <1>8 DEF WindowOf, TypeOK, GiveUp, Goto, requestVars, history, Current
<1>9. ASSUME NEW r \in Requests, Return(r) PROVE WindowOf(q)'
  BY <1>0, <1>9 DEF WindowOf, TypeOK, Return, ProviderAnswers, ProviderFails,
     ProviderCrashes, Unhandled, Goto, requestVars, history, Current
<1>10. ASSUME NEW r \in Requests, BackendFault(r) \/ Disconnect(r)
       PROVE  WindowOf(q)'
  <2>1. /\ UNCHANGED <<requestVars, admittedAt>>
        /\ pc' = [pc EXCEPT ![r] = pc'[r]]
        /\ pc'[r] \in EndPCs
    BY <1>10 DEF BackendFault, Disconnect, Goto, Unhandled, TypeOK, EndPCs
  <2>2. ReportLost(r)
    BY <1>10 DEF BackendFault, Disconnect, ReportLost
  <2>3. CASE q = r
    BY <2>1, <2>3 DEF WindowOf, EndPCs
  <2>4. CASE q # r
    <3>1. pc'[q] = pc[q] /\ Current(q)' = Current(q)
      BY <2>1, <2>4 DEF TypeOK, Current, requestVars
    <3>2. pc[q] \in InFlight \cup {"decide"} =>
          /\ overtaken[q] => overtaken'[q]
          /\ \/ circuit'[Current(q)].openedAt = Never
             \/ overtaken'[q]
             \/ circuit'[Current(q)].openedAt = circuit[Current(q)].openedAt
      BY <2>2, StoredWindow
    <3> QED
      BY <1>0, <2>1, <3>1, <3>2, WindowKept DEF requestVars
  <2> QED
    BY <2>3, <2>4
<1>11. CASE Tick
  BY <1>0, <1>11 DEF WindowOf, Tick, requestVars, history, Current
<1>12. CASE UNCHANGED vars
  BY <1>0, <1>12 DEF WindowOf, vars, requestVars, history, Current
<1> QED
  BY <1>1, <1>2, <1>3, <1>4, <1>5, <1>6, <1>7, <1>8, <1>9, <1>10, <1>11,
     <1>12 DEF Next, Internal

\* What an open circuit lets through: only requests that had read it before it
\* opened, or were admitted after the recovery interval (circuit_allow,
\* circuit_success and circuit_failure under every interleaving).
THEOREM OpenCircuitAdmitsOnlyOvertaken == Spec => []AdmissionWindow
<1>1. Init => WindowInv
  BY DEF Init, WindowInv, WindowOf, InFlight
<1>2. WindowInv => AdmissionWindow
  BY DEF WindowInv, WindowOf, AdmissionWindow
<1> QED
  BY <1>1, <1>2, TypeInit, TypeStep, WindowStep, PTL DEF Spec

-----------------------------------------------------------------------------
(* The contract. *)

\* No reliable provider's circuit ever opens, so no request passes one by.
ReliableInv ==
  /\ \A p \in ReliableProviders : circuit[p].openedAt = Never
  /\ \A r \in Requests :
       /\ pc[r] = "decide" /\ Current(r) \in ReliableProviders =>
            seen[r].openedAt = Never
       /\ pc[r] = "failing" => Current(r) \notin ReliableProviders
       /\ \A i \in 1 .. Len(targets[r]) :
            i < idx[r] => ProviderOf[targets[r][i]] \notin ReliableProviders
       /\ pc[r] = "idle" => idx[r] = 1

\* A report never opens the circuit of a reliable provider.
LEMMA StoredReliable ==
  ASSUME TypeOK, ReliableInv, NEW r \in Requests, ReportLost(r),
         NEW p \in ReliableProviders
  PROVE  circuit'[p].openedAt = Never
<1>1. p \in Providers /\ circuit[p].openedAt = Never
  BY RouterAssumption DEF ReliableInv
<1>2. CASE UNCHANGED <<circuit, overtaken>>
  BY <1>1, <1>2
<1>3. CASE pc[r] = "succeeded" /\ SuccessStored(r)
  BY <1>1, <1>3 DEF SuccessStored, TypeOK, Closed
<1>4. CASE pc[r] = "failing" /\ FailureStored(r)
  <2>1. Current(r) # p
    BY <1>4 DEF ReliableInv
  <2> QED
    BY <1>1, <1>4, <2>1 DEF FailureStored, TypeOK
<1> QED
  BY <1>2, <1>3, <1>4 DEF ReportLost

\* The candidates passed by stay without a reliable provider when the request
\* leaves one that is not reliable.
LEMMA NextTargetReliable ==
  ASSUME TypeOK, ReliableInv, NEW r \in Requests, NextTarget(r),
         UNCHANGED targets, Current(r) \notin ReliableProviders,
         NEW q \in Requests, NEW i \in 1 .. Len(targets[q]), i < idx'[q]
  PROVE  ProviderOf[targets[q][i]] \notin ReliableProviders
<1>1. CASE q = r /\ i = idx[r]
  BY <1>1 DEF Current
<1>2. CASE q # r \/ i # idx[r]
  BY <1>2 DEF TypeOK, ReliableInv, NextTarget
<1> QED
  BY <1>1, <1>2

LEMMA ReliableStep == TypeOK /\ ReliableInv /\ [Next]_vars => ReliableInv'
<1> SUFFICES ASSUME TypeOK, ReliableInv, [Next]_vars PROVE ReliableInv'
  OBVIOUS
<1>1. ASSUME NEW r \in Requests, Begin(r) PROVE ReliableInv'
  BY <1>1 DEF TypeOK, ReliableInv, Begin, Goto, history, Current
<1>2. ASSUME NEW r \in Requests, SkipTarget(r) \/ SkipOpen(r)
      PROVE  ReliableInv'
  <2>1. /\ NextTarget(r)
        /\ pc' = [pc EXCEPT ![r] = "select"]
        /\ UNCHANGED <<circuit, targets, seen>>
    BY <1>2 DEF SkipTarget, SkipOpen, NextTarget, Goto
  <2>2. Current(r) \notin ReliableProviders
    <3>1. CASE SkipTarget(r)
      BY <3>1, RouterAssumption DEF SkipTarget, Skipped
    <3>2. CASE SkipOpen(r)
      BY <3>2 DEF SkipOpen, Allows, ReliableInv
    <3> QED
      BY <1>2, <3>1, <3>2
  <2>3. \A q \in Requests : \A i \in 1 .. Len(targets[q]) :
          i < idx'[q] => ProviderOf[targets[q][i]] \notin ReliableProviders
    BY <2>1, <2>2, NextTargetReliable
  <2>4. \A q \in Requests \ {r} : Current(q)' = Current(q) /\ idx'[q] = idx[q]
    BY <2>1 DEF NextTarget, Current, TypeOK
  <2>5. pc'[r] = "select"
    BY <2>1 DEF TypeOK
  <2> QED
    BY <2>1, <2>3, <2>4, <2>5 DEF ReliableInv, TypeOK
<1>3. ASSUME NEW r \in Requests, ReadCircuit(r) PROVE ReliableInv'
  BY <1>3, RouterAssumption
     DEF TypeOK, ReliableInv, ReadCircuit, Goto, Current
<1>4. ASSUME NEW r \in Requests, AdmitTarget(r) PROVE ReliableInv'
  BY <1>4 DEF TypeOK, ReliableInv, AdmitTarget, Goto, Current
<1>5. ASSUME NEW r \in Requests, ReportSuccess(r) PROVE ReliableInv'
  <2>1. ReportLost(r)
    BY <1>5 DEF ReportSuccess, ReportLost
  <2>2. \A p \in ReliableProviders : circuit'[p].openedAt = Never
    BY <2>1, StoredReliable
  <2> QED
    BY <1>5, <2>2 DEF TypeOK, ReliableInv, ReportSuccess, Goto, Current
<1>6. ASSUME NEW r \in Requests, ReportFailure(r) PROVE ReliableInv'
  <2>1. /\ pc[r] = "failing" /\ FailureStored(r) /\ AfterFailure(r)
        /\ UNCHANGED <<targets, seen>>
    BY <1>6 DEF ReportFailure
  <2>2. \A p \in ReliableProviders : circuit'[p].openedAt = Never
    <3>1. ReportLost(r)
      BY <2>1 DEF ReportLost
    <3> QED
      BY <3>1, StoredReliable
  <2>3. \A q \in Requests : \A i \in 1 .. Len(targets[q]) :
          i < idx'[q] => ProviderOf[targets[q][i]] \notin ReliableProviders
    <3>1. CASE NextTarget(r)
      BY <2>1, <3>1, NextTargetReliable DEF ReliableInv
    <3>2. CASE UNCHANGED idx
      BY <3>2 DEF ReliableInv
    <3> QED
      BY <2>1, <3>1, <3>2 DEF AfterFailure
  <2>4. \A q \in Requests \ {r} : /\ Current(q)' = Current(q)
                                  /\ idx'[q] = idx[q] /\ pc'[q] = pc[q]
    BY <2>1 DEF AfterFailure, NextTarget, Goto, Current, TypeOK
  <2>5. pc'[r] \in {"select", "calling", "broken"}
    BY <2>1 DEF AfterFailure, NextTarget, Goto, TypeOK
  <2> QED
    BY <2>1, <2>2, <2>3, <2>4, <2>5 DEF ReliableInv
<1>7. ASSUME NEW r \in Requests, GiveUp(r) PROVE ReliableInv'
  BY <1>7 DEF TypeOK, ReliableInv, GiveUp, Goto, requestVars, history, Current
<1>8. ASSUME NEW r \in Requests, Return(r) PROVE ReliableInv'
  BY <1>8 DEF TypeOK, ReliableInv, Return, ProviderAnswers, ProviderFails,
     ProviderCrashes, Unhandled, Goto, requestVars, history, Current
<1>9. ASSUME NEW r \in Requests, BackendFault(r) \/ Disconnect(r)
      PROVE  ReliableInv'
  <2>1. /\ UNCHANGED requestVars
        /\ pc' = [pc EXCEPT ![r] = pc'[r]]
        /\ pc'[r] \in EndPCs
    BY <1>9 DEF BackendFault, Disconnect, Goto, Unhandled, TypeOK, EndPCs
  <2>2. \A p \in ReliableProviders : circuit'[p].openedAt = Never
    <3>1. ReportLost(r)
      BY <1>9 DEF BackendFault, Disconnect, ReportLost
    <3> QED
      BY <3>1, StoredReliable
  <2> QED
    BY <2>1, <2>2 DEF TypeOK, ReliableInv, requestVars, Current, EndPCs
<1>10. CASE Tick
  BY <1>10 DEF ReliableInv, Tick, requestVars, history, Current
<1>11. CASE UNCHANGED vars
  BY <1>11 DEF ReliableInv, vars, requestVars, history, Current
<1> QED
  BY <1>1, <1>2, <1>3, <1>4, <1>5, <1>6, <1>7, <1>8, <1>9, <1>10, <1>11
     DEF Next, Internal

\* A step that leaves the lists alone and every request routing, or where it
\* was, is a stutter of the contract.
LEMMA StutterStep ==
  ASSUME UNCHANGED <<targets, stream>>,
         \A q \in Requests : \/ pc'[q] = pc[q]
                             \/ pc[q] \in RoutingPCs /\ pc'[q] \in RoutingPCs
  PROVE  UNCHANGED Contract!contractVars
<1>1. \A q \in Requests : Outcome(q)' = Outcome(q)
  BY DEF Outcome
<1> QED
  BY <1>1 DEF Contract!contractVars

\* A step that takes one routed request to an end is an End of the contract.
LEMMA EndStep ==
  ASSUME TypeOK, NEW r \in Requests, NEW how \in EndPCs,
         pc[r] \in RoutingPCs, pc' = [pc EXCEPT ![r] = how],
         UNCHANGED <<targets, stream>>
  PROVE  Contract!End(r, how)
<1>1. Outcome(r) = "routing"
  BY DEF Outcome
<1>2. \A q \in Requests :
        Outcome(q)' = IF q = r THEN how ELSE Outcome(q)
  BY DEF Outcome, TypeOK, RoutingPCs, InFlight, EndPCs
<1> QED
  BY <1>1, <1>2 DEF Contract!End

LEMMA ContractStep ==
  TypeOK /\ ReliableInv /\ [Next]_vars
    => [Contract!ContractNext]_(Contract!contractVars)
<1> SUFFICES ASSUME TypeOK, ReliableInv, [Next]_vars
             PROVE  \/ UNCHANGED Contract!contractVars
                    \/ Contract!ContractNext
  OBVIOUS
<1> USE DEF RoutingPCs, InFlight, EndPCs
<1>1. ASSUME NEW r \in Requests, Begin(r) PROVE Contract!ContractNext
  <2>1. Outcome(r) = "idle"
    BY <1>1 DEF Begin, Outcome
  <2>2. \A q \in Requests :
          Outcome(q)' = IF q = r THEN "routing" ELSE Outcome(q)
    BY <1>1 DEF Begin, Goto, TypeOK, Outcome
  <2>3. Contract!Accept(r)
    BY <1>1, <2>1, <2>2 DEF Begin, Contract!Accept
  <2> QED
    BY <2>3 DEF Contract!ContractNext
<1>2. ASSUME NEW r \in Requests,
             \/ SkipTarget(r) \/ ReadCircuit(r) \/ AdmitTarget(r) \/ SkipOpen(r)
             \/ ProviderAnswers(r) \/ ProviderFails(r)
      PROVE  UNCHANGED Contract!contractVars
  <2>1. UNCHANGED <<targets, stream>>
    BY <1>2 DEF SkipTarget, ReadCircuit, AdmitTarget, SkipOpen,
       ProviderAnswers, ProviderFails, requestVars
  <2>2. pc[r] \in RoutingPCs
    BY <1>2 DEF SkipTarget, ReadCircuit, AdmitTarget, SkipOpen,
       ProviderAnswers, ProviderFails
  <2>3. \E label \in RoutingPCs : pc' = [pc EXCEPT ![r] = label]
    BY <1>2 DEF SkipTarget, ReadCircuit, AdmitTarget, SkipOpen,
       ProviderAnswers, ProviderFails, NextTarget, Goto
  <2> QED
    BY <2>1, <2>2, <2>3, StutterStep DEF TypeOK
<1>3. ASSUME NEW r \in Requests, ReportSuccess(r) PROVE Contract!ContractNext
  <2>1. Contract!End(r, "served")
    BY <1>3, EndStep DEF ReportSuccess, Goto
  <2> QED
    BY <2>1 DEF Contract!ContractNext, Contract!Serve
<1>4. ASSUME NEW r \in Requests, ReportFailure(r)
      PROVE  UNCHANGED Contract!contractVars \/ Contract!ContractNext
  <2>1. /\ pc[r] = "failing" /\ AfterFailure(r)
        /\ UNCHANGED <<targets, stream>>
    BY <1>4 DEF ReportFailure
  <2>2. CASE stream[r]
    <3>1. Contract!End(r, "broken")
      BY <2>1, <2>2, EndStep DEF AfterFailure, Goto
    <3> QED
      BY <2>2, <3>1 DEF Contract!ContractNext, Contract!Break
  <2>3. CASE ~stream[r]
    <3>1. \E label \in RoutingPCs : pc' = [pc EXCEPT ![r] = label]
      BY <2>1, <2>3 DEF AfterFailure, NextTarget, Goto
    <3> QED
      BY <2>1, <3>1, StutterStep DEF TypeOK
  <2> QED
    BY <2>2, <2>3
<1>5. ASSUME NEW r \in Requests, GiveUp(r) PROVE Contract!ContractNext
  <2>1. Contract!End(r, "exhausted")
    BY <1>5, EndStep DEF GiveUp, Goto, requestVars
  <2>2. \A i \in 1 .. Len(targets[r]) :
          ProviderOf[targets[r][i]] \notin ReliableProviders
    BY <1>5 DEF GiveUp, ReliableInv, TypeOK
  <2>3. targets[r] \in CandidateLists
    BY <1>5 DEF GiveUp, TypeOK
  <2> QED
    BY <2>1, <2>2, <2>3 DEF Contract!ContractNext, Contract!Exhaust
<1>6. ASSUME NEW r \in Requests, ProviderCrashes(r) PROVE Contract!ContractNext
  <2>1. Contract!End(r, Unhandled(r))
    BY <1>6, EndStep DEF ProviderCrashes, Unhandled, Goto, requestVars
  <2> QED
    BY <2>1 DEF Unhandled, Contract!ContractNext, Contract!Break, Contract!Crash
<1>7. ASSUME NEW r \in Requests, BackendFault(r) PROVE Contract!ContractNext
  <2>1. /\ pc[r] \in RoutingPCs
        /\ UNCHANGED <<targets, stream>>
        /\ \/ pc' = [pc EXCEPT ![r] = "error"]
           \/ stream[r] /\ pc' = [pc EXCEPT ![r] = "broken"]
    BY <1>7 DEF BackendFault, Unhandled, Goto, requestVars
  <2>2. CASE pc' = [pc EXCEPT ![r] = "error"]
    <3>1. Contract!End(r, "error")
      BY <2>1, <2>2, EndStep
    <3> QED
      BY <3>1 DEF Contract!ContractNext, Contract!Crash
  <2>3. CASE stream[r] /\ pc' = [pc EXCEPT ![r] = "broken"]
    <3>1. Contract!End(r, "broken")
      BY <2>1, <2>3, EndStep
    <3> QED
      BY <2>3, <3>1 DEF Contract!ContractNext, Contract!Break
  <2> QED
    BY <2>1, <2>2, <2>3
<1>8. ASSUME NEW r \in Requests, Disconnect(r) PROVE Contract!ContractNext
  <2>1. Contract!End(r, "aborted")
    BY <1>8, EndStep DEF Disconnect, Goto, requestVars
  <2> QED
    BY <1>8, <2>1 DEF Disconnect, Contract!ContractNext, Contract!Abort
<1>9. CASE Tick \/ UNCHANGED vars
  BY <1>9, StutterStep DEF Tick, vars, requestVars
<1> QED
  BY <1>1, <1>2, <1>3, <1>4, <1>5, <1>6, <1>7, <1>8, <1>9
     DEF Next, Internal, Return

\* The router implements RouteContract: it ends each request once, and answers
\* 502 only when no candidate's provider is reliable.
THEOREM RouterMeetsContract == Spec => MeetsContract
<1>1. Init => ReliableInv
  BY RouterAssumption DEF Init, ReliableInv, Closed
<1>2. Init => Contract!ContractInit
  BY DEF Init, Contract!ContractInit, Outcome, RoutingPCs, InFlight
<1> QED
  BY <1>1, <1>2, TypeInit, TypeStep, ReliableStep, ContractStep, PTL
     DEF Spec, MeetsContract, Contract!ContractSpec

-----------------------------------------------------------------------------
(* TargetsInOrder. *)

Ordered(list) ==
  \A k \in 1 .. Len(list) - 1 : list[k].target <= list[k + 1].target

Attempted(i, n, status) == [target |-> i, retry |-> n, status |-> status]

\* The last n attempts failed at target i, and all before them were made at
\* earlier ones.
FailedSoFar(list, i, n) ==
  /\ n <= Len(list)
  /\ \A k \in 1 .. Len(list) - n : list[k].target < i
  /\ \A k \in Len(list) - n + 1 .. Len(list) :
       list[k] = Attempted(i, k - (Len(list) - n) - 1, "failed")

\* What a request has noted down where it stands: nothing yet of its current
\* target while it selects it, one failure for every retry afterwards.
OrderOf(r) ==
  /\ Ordered(attempts[r])
  /\ \A i \in 1 .. idx[r] - 1 : GivenUp(attempts[r], i, stream[r])
  /\ pc[r] \in {"idle", "select", "decide"} =>
       retry[r] = 0 /\ FailedSoFar(attempts[r], idx[r], 0)
  /\ pc[r] \in InFlight /\ ~stream[r] =>
       FailedSoFar(attempts[r], idx[r], retry[r])
  /\ pc[r] = "idle" => idx[r] = 1
  /\ pc[r] # "idle" => idx[r] <= Len(targets[r]) + 1
  /\ pc[r] = "exhausted" => idx[r] = Len(targets[r]) + 1

OrderInv == \A r \in Requests : OrderOf(r)

LEMMA TargetNat ==
  ASSUME NEW list \in Seq(Attempt), NEW k \in 1 .. Len(list)
  PROVE  list[k].target \in Nat
<1>1. list[k] \in Attempt
  OBVIOUS
<1> QED
  BY <1>1 DEF Attempt

\* Nothing has been noted down of a target that is still ahead.
LEMMA NothingYet ==
  ASSUME NEW list \in Seq(Attempt), NEW i \in Nat,
         \A k \in 1 .. Len(list) : list[k].target < i
  PROVE  FailedSoFar(list, i, 0)
<1>1. Len(list) \in Nat /\ Len(list) - 0 = Len(list)
  OBVIOUS
<1>2. \A k \in Len(list) - 0 + 1 .. Len(list) : FALSE
  BY <1>1
<1> QED
  BY <1>1, <1>2 DEF FailedSoFar

\* The attempts made at i so far end the list.
LEMMA LastTarget ==
  ASSUME NEW list \in Seq(Attempt), NEW i \in Nat, NEW n \in Nat,
         FailedSoFar(list, i, n), Len(list) > 0
  PROVE  list[Len(list)].target <= i
<1>1. Len(list) \in Nat /\ list[Len(list)] \in Attempt
  OBVIOUS
<1>2. CASE n = 0
  BY <1>1, <1>2 DEF FailedSoFar, Attempt
<1>3. CASE n > 0
  <2>1. Len(list) \in Len(list) - n + 1 .. Len(list)
    BY <1>1, <1>3
  <2>2. list[Len(list)] = Attempted(i, Len(list) - (Len(list) - n) - 1, "failed")
    BY <2>1 DEF FailedSoFar
  <2> QED
    BY <2>2 DEF Attempted
<1> QED
  BY <1>2, <1>3

\* One more attempt at the current target keeps the order.
LEMMA AppendOrdered ==
  ASSUME NEW list \in Seq(Attempt), NEW a \in Attempt, NEW n \in Nat,
         Ordered(list), FailedSoFar(list, a.target, n)
  PROVE  Ordered(Append(list, a))
<1> DEFINE more == Append(list, a)
<1>1. /\ Len(more) = Len(list) + 1 /\ Len(list) \in Nat
      /\ \A k \in 1 .. Len(list) : more[k] = list[k]
      /\ more[Len(list) + 1] = a
  OBVIOUS
<1>2. Len(list) > 0 => list[Len(list)].target <= a.target
  BY LastTarget DEF Attempt
<1> HIDE DEF more
<1>3. \A k \in 1 .. Len(more) - 1 : more[k].target <= more[k + 1].target
  <2> TAKE k \in 1 .. Len(more) - 1
  <2>1. CASE k < Len(list)
    BY <1>1, <2>1 DEF Ordered
  <2>2. CASE k = Len(list)
    BY <1>1, <1>2, <2>2
  <2> QED
    BY <1>1, <2>1, <2>2
<1> QED
  BY <1>3 DEF Ordered, more

\* An attempt at another target leaves what was given up.
LEMMA GivenUpKept ==
  ASSUME NEW list \in Seq(Attempt), NEW a \in Attempt, NEW i \in Nat,
         NEW streamed \in BOOLEAN, GivenUp(list, i, streamed), a.target # i
  PROVE  GivenUp(Append(list, a), i, streamed)
<1> DEFINE more == Append(list, a)
<1>1. /\ DOMAIN more = 1 .. Len(list) + 1 /\ DOMAIN list = 1 .. Len(list)
      /\ Len(list) \in Nat
      /\ \A k \in 1 .. Len(list) : more[k] = list[k]
      /\ more[Len(list) + 1] = a
  OBVIOUS
<1> HIDE DEF more
<1>2. Tried(more, i) = Tried(list, i)
  BY <1>1 DEF Tried
<1>3. Tried(list, i) \subseteq 1 .. Len(list)
  BY <1>1 DEF Tried
<1>4. PICK first \in DOMAIN list :
        \/ /\ Tried(list, i) = {first}
           /\ list[first] = [target |-> i, retry |-> 0, status |-> "skipped"]
        \/ /\ ~streamed
           /\ Tried(list, i) = first .. first + RetryLimit
           /\ \A k \in first .. first + RetryLimit :
                list[k] = [target |-> i, retry |-> k - first, status |-> "failed"]
  BY DEF GivenUp
<1>5. \/ /\ Tried(more, i) = {first}
         /\ more[first] = [target |-> i, retry |-> 0, status |-> "skipped"]
      \/ /\ ~streamed
         /\ Tried(more, i) = first .. first + RetryLimit
         /\ \A k \in first .. first + RetryLimit :
              more[k] = [target |-> i, retry |-> k - first, status |-> "failed"]
  <2>1. CASE Tried(list, i) = first .. first + RetryLimit
    <3>1. \A k \in first .. first + RetryLimit : more[k] = list[k]
      BY <1>1, <1>3, <2>1
    <3> QED
      BY <1>1, <1>2, <1>4, <3>1
  <2>2. CASE Tried(list, i) = {first}
    BY <1>1, <1>2, <1>4, <2>2
  <2> QED
    BY <1>4, <2>1, <2>2
<1>6. first \in DOMAIN more
  BY <1>1
<1>7. GivenUp(more, i, streamed)
  BY <1>5, <1>6 DEF GivenUp
<1> QED
  BY <1>7 DEF more

\* A failed attempt is one more failure at the current target.
LEMMA FailedOnce ==
  ASSUME NEW list \in Seq(Attempt), NEW i \in Nat, NEW n \in Nat,
         FailedSoFar(list, i, n), Attempted(i, n, "failed") \in Attempt
  PROVE  FailedSoFar(Append(list, Attempted(i, n, "failed")), i, n + 1)
<1> DEFINE a == Attempted(i, n, "failed")
           more == Append(list, a)
<1> HIDE DEF a
<1>1. a \in Attempt
  BY DEF a
<1>2. /\ Len(more) = Len(list) + 1 /\ Len(list) \in Nat
      /\ \A k \in 1 .. Len(list) : more[k] = list[k]
      /\ more[Len(list) + 1] = a
  BY <1>1
<1> HIDE DEF more
<1>3. n + 1 <= Len(more)
  BY <1>2 DEF FailedSoFar
<1>4. \A k \in 1 .. Len(more) - (n + 1) : more[k].target < i
  BY <1>2 DEF FailedSoFar
<1>5. ASSUME NEW k \in Len(more) - (n + 1) + 1 .. Len(more)
      PROVE  more[k] = Attempted(i, k - (Len(more) - (n + 1)) - 1, "failed")
  <2>1. n <= Len(list)
    BY DEF FailedSoFar
  <2>2. k - (Len(more) - (n + 1)) - 1 = k - (Len(list) - n) - 1
    BY <1>2
  <2>3. CASE k = Len(more)
    <3>1. k - (Len(list) - n) - 1 = n
      BY <1>2, <2>3
    <3> QED
      BY <1>2, <2>2, <2>3, <3>1 DEF a
  <2>4. CASE k # Len(more)
    <3>1. k \in Len(list) - n + 1 .. Len(list) /\ k \in 1 .. Len(list)
      BY <1>2, <2>1, <2>4
    <3>2. list[k] = Attempted(i, k - (Len(list) - n) - 1, "failed")
      BY <3>1 DEF FailedSoFar
    <3> QED
      BY <1>2, <2>2, <3>1, <3>2
  <2> QED
    BY <2>3, <2>4
<1>6. FailedSoFar(more, i, n + 1)
  BY <1>3, <1>4, <1>5 DEF FailedSoFar
<1> QED
  BY <1>6 DEF more, a

\* RetryLimit + 1 failures give a target up.
LEMMA FailedOften ==
  ASSUME NEW list \in Seq(Attempt), NEW i \in Nat,
         FailedSoFar(list, i, RetryLimit + 1)
  PROVE  GivenUp(list, i, FALSE) /\ FailedSoFar(list, i + 1, 0)
<1> DEFINE first == Len(list) - RetryLimit
<1>1. /\ RetryLimit \in Nat /\ Len(list) \in Nat /\ DOMAIN list = 1 .. Len(list)
      /\ first \in DOMAIN list /\ first + RetryLimit = Len(list)
      /\ Len(list) - (RetryLimit + 1) = first - 1
  BY RetryLimitNat DEF FailedSoFar
<1>2. first - 1 + 1 = first /\ first \in Int
  BY <1>1
<1> HIDE DEF first
<1>3. \A k \in 1 .. first - 1 : list[k].target < i
  BY <1>1 DEF FailedSoFar
<1>4. ASSUME NEW k \in first .. first + RetryLimit
      PROVE  /\ list[k] = [target |-> i, retry |-> k - first, status |-> "failed"]
             /\ list[k].target = i
  <2>1. k \in Len(list) - (RetryLimit + 1) + 1 .. Len(list)
    BY <1>1, <1>2
  <2>2. list[k] = Attempted(i, k - (Len(list) - (RetryLimit + 1)) - 1, "failed")
    BY <2>1 DEF FailedSoFar
  <2>3. k - (Len(list) - (RetryLimit + 1)) - 1 = k - first
    BY <1>1, <1>2
  <2> QED
    BY <2>2, <2>3 DEF Attempted
<1>5. Tried(list, i) = first .. first + RetryLimit
  <2>1. ASSUME NEW k \in first .. first + RetryLimit PROVE k \in Tried(list, i)
    <3>1. k \in DOMAIN list
      BY <1>1, <1>2
    <3>2. list[k].target = i
      BY <1>4
    <3> QED
      BY <3>1, <3>2 DEF Tried
  <2>2. ASSUME NEW k \in Tried(list, i) PROVE k \in first .. first + RetryLimit
    <3>1. k \in 1 .. Len(list) /\ list[k].target = i
      BY <1>1 DEF Tried
    <3>2. ~(k \in 1 .. first - 1)
      BY <1>3, <3>1
    <3> QED
      BY <1>1, <1>2, <3>1, <3>2
  <2> QED
    BY <2>1, <2>2
<1>6. GivenUp(list, i, FALSE)
  BY <1>1, <1>4, <1>5 DEF GivenUp
<1>7. ASSUME NEW k \in 1 .. Len(list) PROVE list[k].target < i + 1
  <2>1. CASE k < first
    <3>1. k \in 1 .. first - 1
      BY <1>1, <1>2, <2>1
    <3>2. list[k].target < i /\ list[k].target \in Nat
      BY <1>3, <3>1, TargetNat
    <3> QED
      BY <3>2
  <2>2. CASE ~(k < first)
    <3>1. k \in first .. first + RetryLimit
      BY <1>1, <1>2, <2>2
    <3>2. list[k].target = i
      BY <1>4, <3>1
    <3> QED
      BY <3>2
  <2> QED
    BY <2>1, <2>2
<1>8. FailedSoFar(list, i + 1, 0)
  BY <1>7, NothingYet
<1> QED
  BY <1>6, <1>8

\* One skip gives a target up.
LEMMA SkippedOnce ==
  ASSUME NEW list \in Seq(Attempt), NEW i \in Nat, NEW streamed \in BOOLEAN,
         FailedSoFar(list, i, 0), Attempted(i, 0, "skipped") \in Attempt
  PROVE  LET more == Append(list, Attempted(i, 0, "skipped")) IN
           GivenUp(more, i, streamed) /\ FailedSoFar(more, i + 1, 0)
<1> DEFINE a == Attempted(i, 0, "skipped")
           more == Append(list, a)
           first == Len(list) + 1
<1> HIDE DEF a
<1>1. a \in Attempt /\ a = [target |-> i, retry |-> 0, status |-> "skipped"]
  BY DEF a, Attempted
<1>2. /\ Len(more) = Len(list) + 1 /\ Len(list) \in Nat
      /\ DOMAIN more = 1 .. Len(list) + 1
      /\ \A k \in 1 .. Len(list) : more[k] = list[k]
      /\ more[Len(list) + 1] = a
  BY <1>1
<1>3. \A k \in 1 .. Len(list) : list[k].target \in Nat
  BY TargetNat
<1> HIDE DEF more
<1>4. \A k \in 1 .. Len(list) : more[k].target < i
  BY <1>2 DEF FailedSoFar
<1>5. Tried(more, i) = {first}
  BY <1>1, <1>2, <1>4 DEF Tried
<1>6. GivenUp(more, i, streamed)
  BY <1>1, <1>2, <1>5 DEF GivenUp
<1>7. \A k \in 1 .. Len(more) : more[k].target < i + 1
  BY <1>1, <1>2, <1>3, <1>4
<1>8. FailedSoFar(more, i + 1, 0)
  BY <1>2, <1>7 DEF FailedSoFar
<1> QED
  BY <1>6, <1>8 DEF more, a

\* Writing an attempt down appends it to the request's own list.
LEMMA NoteAppends ==
  ASSUME TypeOK, NEW r \in Requests,
         NEW status \in {"skipped", "failed", "success", "stream_selected"},
         Note(r, status)
  PROVE  /\ Attempted(idx[r], retry[r], status) \in Attempt
         /\ attempts'[r] = Append(attempts[r], Attempted(idx[r], retry[r], status))
         /\ \A q \in Requests \ {r} : attempts'[q] = attempts[q]
BY RetryLimitNat DEF TypeOK, Note, Attempted, Attempt

\* What such an attempt leaves in order.
LEMMA NoteOrder ==
  ASSUME TypeOK, NEW r \in Requests, OrderOf(r),
         NEW status \in {"skipped", "failed", "success", "stream_selected"},
         Note(r, status), FailedSoFar(attempts[r], idx[r], retry[r])
  PROVE  /\ Ordered(attempts'[r])
         /\ \A i \in 1 .. idx[r] - 1 : GivenUp(attempts'[r], i, stream[r])
<1> DEFINE a == Attempted(idx[r], retry[r], status)
<1>1. /\ a \in Attempt /\ a.target = idx[r]
      /\ attempts'[r] = Append(attempts[r], a)
  BY NoteAppends DEF Attempted
<1>2. /\ attempts[r] \in Seq(Attempt) /\ stream[r] \in BOOLEAN
      /\ idx[r] \in Nat /\ retry[r] \in Nat
  BY RetryLimitNat DEF TypeOK
<1> HIDE DEF a
<1>3. Ordered(attempts[r])
  BY DEF OrderOf
<1>4. Ordered(Append(attempts[r], a))
  BY <1>1, <1>2, <1>3, AppendOrdered
<1>5. ASSUME NEW i \in 1 .. idx[r] - 1
      PROVE  GivenUp(Append(attempts[r], a), i, stream[r])
  <2>1. GivenUp(attempts[r], i, stream[r])
    BY DEF OrderOf
  <2>2. i \in Nat /\ a.target # i
    BY <1>1, <1>2
  <2> QED
    BY <1>1, <1>2, <2>1, <2>2, GivenUpKept
<1> QED
  BY <1>1, <1>4, <1>5

\* A step of another request leaves a request's order alone.
LEMMA OrderKept ==
  ASSUME NEW q \in Requests, OrderOf(q), pc'[q] = pc[q],
         targets'[q] = targets[q], stream'[q] = stream[q], idx'[q] = idx[q],
         retry'[q] = retry[q], attempts'[q] = attempts[q]
  PROVE  OrderOf(q)'
BY DEF OrderOf

\* Leaving the current target, given up, for the next one.
LEMMA NextTargetOrder ==
  ASSUME TypeOK, NEW r \in Requests, NextTarget(r), UNCHANGED <<targets, stream>>,
         idx[r] <= Len(targets[r]), Ordered(attempts'[r]),
         \A i \in 1 .. idx[r] - 1 : GivenUp(attempts'[r], i, stream[r]),
         GivenUp(attempts'[r], idx[r], stream[r]),
         FailedSoFar(attempts'[r], idx[r] + 1, 0)
  PROVE  OrderOf(r)'
<1>1. /\ idx'[r] = idx[r] + 1 /\ retry'[r] = 0 /\ pc'[r] = "select"
      /\ idx[r] \in Nat \ {0} /\ Len(targets[r]) \in Nat
  BY RouterAssumption DEF TypeOK, NextTarget, Goto
<1>2. \A i \in 1 .. idx'[r] - 1 : GivenUp(attempts'[r], i, stream'[r])
  <2> TAKE i \in 1 .. idx'[r] - 1
  <2>1. i \in 1 .. idx[r] - 1 \/ i = idx[r]
    BY <1>1
  <2> QED
    BY <2>1
<1>3. idx'[r] <= Len(targets'[r]) + 1
  BY <1>1
<1> QED
  BY <1>1, <1>2, <1>3 DEF OrderOf, InFlight

LEMMA OrderStep == TypeOK /\ OrderInv /\ [Next]_vars => OrderInv'
<1> SUFFICES ASSUME TypeOK, OrderInv, [Next]_vars, NEW q \in Requests
             PROVE  OrderOf(q)'
  BY DEF OrderInv
<1>0. /\ OrderOf(q) /\ idx[q] \in Nat \ {0} /\ retry[q] \in Nat
      /\ attempts[q] \in Seq(Attempt) /\ stream[q] \in BOOLEAN
      /\ Len(targets[q]) \in Nat
      /\ \A r \in Requests : OrderOf(r)
  BY RetryLimitNat, RouterAssumption DEF OrderInv, TypeOK
<1>1. ASSUME NEW r \in Requests, Begin(r) PROVE OrderOf(q)'
  <2>1. CASE q = r
    <3>1. /\ pc[q] = "idle" /\ pc'[q] = "select" /\ targets'[q] \in CandidateLists
          /\ UNCHANGED <<idx, retry, attempts>>
      BY <1>1, <2>1 DEF Begin, Goto, TypeOK
    <3>2. Len(targets'[q]) \in Nat /\ idx[q] = 1
      BY <1>0, <3>1, RouterAssumption DEF OrderOf
    <3>3. \A i \in 1 .. idx[q] - 1 : FALSE
      BY <3>2
    <3> QED
      BY <1>0, <3>1, <3>2, <3>3 DEF OrderOf, InFlight
  <2>2. CASE q # r
    BY <1>0, <1>1, <2>2, OrderKept DEF Begin, Goto, TypeOK
  <2> QED
    BY <2>1, <2>2
<1>2. ASSUME NEW r \in Requests, SkipTarget(r) \/ SkipOpen(r)
      PROVE  OrderOf(q)'
  <2>1. /\ Note(r, "skipped") /\ NextTarget(r) /\ UNCHANGED <<targets, stream>>
        /\ pc[r] \in {"select", "decide"} /\ idx[r] <= Len(targets[r])
    BY <1>2 DEF SkipTarget, SkipOpen, TypeOK, InFlight
  <2>2. CASE q = r
    <3>1. retry[q] = 0 /\ FailedSoFar(attempts[q], idx[q], 0)
      BY <1>0, <2>1, <2>2 DEF OrderOf
    <3>2. /\ Ordered(attempts'[q])
          /\ \A i \in 1 .. idx[q] - 1 : GivenUp(attempts'[q], i, stream[q])
      BY <1>0, <2>1, <2>2, <3>1, NoteOrder
    <3>3. /\ Attempted(idx[q], 0, "skipped") \in Attempt
          /\ attempts'[q] = Append(attempts[q], Attempted(idx[q], 0, "skipped"))
      BY <2>1, <2>2, <3>1, NoteAppends
    <3>4. /\ GivenUp(attempts'[q], idx[q], stream[q])
          /\ FailedSoFar(attempts'[q], idx[q] + 1, 0)
      BY <1>0, <3>1, <3>3, SkippedOnce
    <3> QED
      BY <2>1, <2>2, <3>2, <3>4, NextTargetOrder
  <2>3. CASE q # r
    <3>1. attempts'[q] = attempts[q]
      BY <2>1, <2>3, NoteAppends
    <3> QED
      BY <1>0, <2>1, <2>3, <3>1, OrderKept DEF NextTarget, Goto, TypeOK
  <2> QED
    BY <2>2, <2>3
<1>3. ASSUME NEW r \in Requests, ReadCircuit(r) PROVE OrderOf(q)'
  <2>1. CASE q = r
    <3>1. /\ pc[q] = "select" /\ pc'[q] = "decide"
          /\ UNCHANGED <<targets, stream, idx, retry, attempts>>
      BY <1>3, <2>1 DEF ReadCircuit, Goto, TypeOK
    <3> QED
      BY <1>0, <3>1 DEF OrderOf, InFlight
  <2>2. CASE q # r
    BY <1>0, <1>3, <2>2, OrderKept DEF ReadCircuit, Goto, TypeOK
  <2> QED
    BY <2>1, <2>2
<1>4. ASSUME NEW r \in Requests, AdmitTarget(r) PROVE OrderOf(q)'
  <2>1. /\ pc[r] = "decide" /\ pc' = [pc EXCEPT ![r] = "calling"]
        /\ UNCHANGED <<targets, stream, idx, retry>>
        /\ \/ stream[r] /\ Note(r, "stream_selected")
           \/ ~stream[r] /\ UNCHANGED attempts
    BY <1>4 DEF AdmitTarget, Goto
  <2>2. CASE q = r
    <3>1. retry[q] = 0 /\ FailedSoFar(attempts[q], idx[q], 0) /\ pc'[q] = "calling"
      BY <1>0, <2>1, <2>2 DEF OrderOf, TypeOK
    <3>2. /\ Ordered(attempts'[q])
          /\ \A i \in 1 .. idx[q] - 1 : GivenUp(attempts'[q], i, stream[q])
      <4>1. CASE UNCHANGED attempts
        BY <1>0, <4>1 DEF OrderOf
      <4>2. CASE Note(r, "stream_selected")
        BY <1>0, <2>2, <3>1, <4>2, NoteOrder
      <4> QED
        BY <2>1, <4>1, <4>2
    <3> QED
      BY <1>0, <2>1, <2>2, <3>1, <3>2 DEF OrderOf
  <2>3. CASE q # r
    <3>1. attempts'[q] = attempts[q]
      BY <2>1, <2>3, NoteAppends
    <3> QED
      BY <1>0, <2>1, <2>3, <3>1, OrderKept DEF TypeOK
  <2> QED
    BY <2>2, <2>3
<1>5. ASSUME NEW r \in Requests, ReportSuccess(r) PROVE OrderOf(q)'
  <2>1. /\ pc[r] = "succeeded" /\ pc' = [pc EXCEPT ![r] = "served"]
        /\ UNCHANGED <<targets, stream, idx, retry>>
        /\ \/ stream[r] /\ UNCHANGED attempts
           \/ ~stream[r] /\ Note(r, "success")
    BY <1>5 DEF ReportSuccess, Goto
  <2>2. CASE q = r
    <3>1. /\ pc'[q] = "served"
          /\ ~stream[q] => FailedSoFar(attempts[q], idx[q], retry[q])
      BY <1>0, <2>1, <2>2 DEF OrderOf, TypeOK, InFlight
    <3>2. /\ Ordered(attempts'[q])
          /\ \A i \in 1 .. idx[q] - 1 : GivenUp(attempts'[q], i, stream[q])
      <4>1. CASE UNCHANGED attempts
        BY <1>0, <4>1 DEF OrderOf
      <4>2. CASE ~stream[r] /\ Note(r, "success")
        BY <1>0, <2>2, <3>1, <4>2, NoteOrder
      <4> QED
        BY <2>1, <4>1, <4>2
    <3> QED
      BY <1>0, <2>1, <2>2, <3>1, <3>2 DEF OrderOf, InFlight
  <2>3. CASE q # r
    <3>1. attempts'[q] = attempts[q]
      BY <2>1, <2>3, NoteAppends
    <3> QED
      BY <1>0, <2>1, <2>3, <3>1, OrderKept DEF TypeOK
  <2> QED
    BY <2>2, <2>3
<1>6. ASSUME NEW r \in Requests, ReportFailure(r) PROVE OrderOf(q)'
  <2>1. /\ pc[r] = "failing" /\ AfterFailure(r) /\ UNCHANGED <<targets, stream>>
    BY <1>6 DEF ReportFailure
  <2>2. CASE q # r
    <3>1. attempts'[q] = attempts[q]
      BY <2>1, <2>2, NoteAppends DEF AfterFailure
    <3> QED
      BY <1>0, <2>1, <2>2, <3>1, OrderKept DEF AfterFailure, NextTarget, Goto, TypeOK
  <2>3. CASE q = r /\ stream[r]
    <3>1. pc'[q] = "broken" /\ UNCHANGED <<idx, retry, attempts>>
      BY <2>1, <2>3 DEF AfterFailure, Goto, TypeOK
    <3> QED
      BY <1>0, <2>1, <2>3, <3>1 DEF OrderOf, InFlight
  <2>4. CASE q = r /\ ~stream[r]
    <3>1. Note(r, "failed") /\ FailedSoFar(attempts[q], idx[q], retry[q])
      BY <1>0, <2>1, <2>4 DEF AfterFailure, OrderOf, InFlight
    <3>2. /\ Ordered(attempts'[q])
          /\ \A i \in 1 .. idx[q] - 1 : GivenUp(attempts'[q], i, stream[q])
      BY <1>0, <2>4, <3>1, NoteOrder
    <3>3. /\ Attempted(idx[q], retry[q], "failed") \in Attempt
          /\ attempts'[q] =
               Append(attempts[q], Attempted(idx[q], retry[q], "failed"))
      BY <2>4, <3>1, NoteAppends
    <3>4. FailedSoFar(attempts'[q], idx[q], retry[q] + 1)
      BY <1>0, <3>1, <3>3, FailedOnce
    <3>5. idx[q] <= Len(targets[q])
      BY <2>1, <2>4 DEF TypeOK, InFlight
    <3>6. CASE RetriesLeft(r)
      <4>1. /\ pc'[q] = "calling" /\ retry'[q] = retry[q] + 1 /\ idx'[q] = idx[q]
        BY <2>1, <2>4, <3>6 DEF AfterFailure, Goto, TypeOK
      <4> QED
        BY <1>0, <2>1, <3>2, <3>4, <3>5, <4>1 DEF OrderOf
    <3>7. CASE ~RetriesLeft(r)
      <4>1. NextTarget(r)
        BY <2>1, <2>4, <3>7 DEF AfterFailure
      <4>2. retry[q] = RetryLimit
        BY <2>4, <3>7, RetryLimitNat DEF TypeOK, RetriesLeft
      <4>3. attempts'[q] \in Seq(Attempt)
        BY <1>0, <3>3
      <4>4. /\ GivenUp(attempts'[q], idx[q], FALSE)
            /\ FailedSoFar(attempts'[q], idx[q] + 1, 0)
        BY <1>0, <3>4, <4>2, <4>3, FailedOften
      <4>5. GivenUp(attempts'[q], idx[q], stream[q])
        BY <1>0, <2>4, <4>4
      <4> QED
        BY <2>1, <2>4, <3>2, <3>5, <4>1, <4>4, <4>5, NextTargetOrder
    <3> QED
      BY <3>6, <3>7
  <2> QED
    BY <2>2, <2>3, <2>4
<1>7. ASSUME NEW r \in Requests, GiveUp(r) PROVE OrderOf(q)'
  <2>1. UNCHANGED <<targets, stream, idx, retry, attempts>>
    BY <1>7 DEF GiveUp, requestVars
  <2>2. CASE q = r
    <3>1. pc[q] = "select" /\ pc'[q] = "exhausted" /\ idx[q] > Len(targets[q])
      BY <1>7, <2>2 DEF GiveUp, Goto, TypeOK
    <3>2. idx[q] = Len(targets[q]) + 1
      BY <1>0, <3>1 DEF OrderOf
    <3> QED
      BY <1>0, <2>1, <3>1, <3>2 DEF OrderOf, InFlight
  <2>3. CASE q # r
    BY <1>0, <1>7, <2>1, <2>3, OrderKept DEF GiveUp, Goto, TypeOK
  <2> QED
    BY <2>2, <2>3
<1>8. ASSUME NEW r \in Requests,
             \/ Return(r) \/ BackendFault(r) \/ Disconnect(r)
      PROVE  OrderOf(q)'
  <2>1. /\ UNCHANGED <<targets, stream, idx, retry, attempts>>
        /\ pc' = [pc EXCEPT ![r] = pc'[r]]
        /\ pc[r] \in InFlight \/ pc[r] = "select"
        /\ \/ pc[r] \in InFlight /\ pc'[r] \in InFlight
           \/ pc'[r] \in EndPCs \ {"exhausted"}
    BY <1>8 DEF Return, ProviderAnswers, ProviderFails, ProviderCrashes,
       BackendFault, Disconnect, Unhandled, Goto, requestVars, TypeOK, InFlight,
       EndPCs
  <2>2. CASE q = r
    BY <1>0, <2>1, <2>2 DEF OrderOf, InFlight, EndPCs
  <2>3. CASE q # r
    BY <1>0, <2>1, <2>3, OrderKept DEF TypeOK
  <2> QED
    BY <2>2, <2>3
<1>9. CASE Tick \/ UNCHANGED vars
  BY <1>0, <1>9, OrderKept DEF Tick, vars, requestVars
<1> QED
  BY <1>1, <1>2, <1>3, <1>4, <1>5, <1>6, <1>7, <1>8, <1>9 DEF Next, Internal

\* route leaves a target behind only after one skip or RetryLimit + 1 failures,
\* in the order of the candidates, and gives up only past the last one.
THEOREM TargetsTriedInOrder == Spec => []TargetsInOrder
<1>1. Init => OrderInv
  <2> SUFFICES ASSUME Init, NEW r \in Requests PROVE OrderOf(r)
    BY DEF OrderInv
  <2>1. /\ pc[r] = "idle" /\ idx[r] = 1 /\ retry[r] = 0 /\ attempts[r] = <<>>
    BY DEF Init
  <2>2. \A k \in 1 .. Len(<<>>) : FALSE
    OBVIOUS
  <2>3. <<>> \in Seq(Attempt) /\ Len(<<>>) = 0
    OBVIOUS
  <2>4. FailedSoFar(<<>>, 1, 0)
    BY <2>2, <2>3, NothingYet
  <2>5. Ordered(<<>>)
    BY <2>3 DEF Ordered
  <2> QED
    BY <2>1, <2>4, <2>5 DEF OrderOf, InFlight
<1>2. TypeOK /\ OrderInv => TargetsInOrder
  BY DEF OrderInv, OrderOf, Ordered, TargetsInOrder
<1> QED
  BY <1>1, <1>2, TypeInit, TypeStep, OrderStep, PTL DEF Spec
=============================================================================
