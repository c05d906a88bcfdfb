-------------------------- MODULE GovernanceProofs --------------------------
(***************************************************************************)
(* Theorems about module GovernanceStore, for both backends, any number of *)
(* operations, any configuration and any length of the log; and, in the    *)
(* last part, about the requests of module GovernanceReads that read what  *)
(* these operations write, any number of them with any settings.           *)
(***************************************************************************)
EXTENDS GovernanceReads, SequenceTheorems, TLAPS

Config == [Fields -> Accepted \cup {None}]

-----------------------------------------------------------------------------
(* Sequences. *)

LEMMA PushOntoSeq ==
  ASSUME NEW S, NEW s \in Seq(S), NEW e \in S
  PROVE  /\ <<e>> \o s \in Seq(S)
         /\ Len(<<e>> \o s) = Len(s) + 1
         /\ (<<e>> \o s)[1] = e
         /\ \A i \in 1 .. Len(s) : (<<e>> \o s)[i + 1] = s[i]
<1>1. <<e>> \in Seq(S) /\ Len(<<e>>) = 1 /\ <<e>>[1] = e
  OBVIOUS
<1>2. Len(s) \in Nat
  BY LenProperties
<1>3. /\ <<e>> \o s \in Seq(S)
      /\ Len(<<e>> \o s) = 1 + Len(s)
      /\ \A i \in 1 .. 1 + Len(s) : (<<e>> \o s)[i] = IF i <= 1 THEN <<e>>[i] ELSE s[i - 1]
  BY <1>1, ConcatProperties
<1>4. ASSUME NEW i \in 1 .. Len(s) PROVE (<<e>> \o s)[i + 1] = s[i]
  <2>1. i + 1 \in 1 .. 1 + Len(s) /\ ~(i + 1 <= 1) /\ (i + 1) - 1 = i
    BY <1>2
  <2> QED
    BY <1>3, <2>1
<1> QED
  BY <1>1, <1>2, <1>3, <1>4

LEMMA CutSeq ==
  ASSUME NEW S, NEW s \in Seq(S), NEW n \in Nat, n <= Len(s)
  PROVE  /\ SubSeq(s, 1, n) \in Seq(S)
         /\ Len(SubSeq(s, 1, n)) = n
         /\ \A i \in 1 .. n : SubSeq(s, 1, n)[i] = s[i]
<1>1. Len(s) \in Nat
  BY LenProperties
<1>2. \A i \in 1 .. n : s[i] \in S
  BY <1>1, ElementOfSeq
<1> QED
  BY <1>1, <1>2

LEMMA AppendToSeq ==
  ASSUME NEW S, NEW s \in Seq(S), NEW e \in S
  PROVE  /\ Append(s, e) \in Seq(S) /\ Append(s, e) # <<>>
         /\ Len(Append(s, e)) = Len(s) + 1
         /\ Append(s, e)[Len(s) + 1] = e
         /\ \A i \in 1 .. Len(s) : Append(s, e)[i] = s[i]
  BY AppendProperties

-----------------------------------------------------------------------------
(* The commands. *)

LEMMA WrittenType ==
  ASSUME TypeOK, NEW a \in Admins, Written(a)
  PROVE  /\ dynamic' \in Config
         /\ configs' \in Seq(Config) /\ configs' # <<>>
         /\ Len(configs') = Len(configs) + 1
         /\ configs'[Len(configs')] = dynamic'
         /\ \A i \in 1 .. Len(configs) : configs'[i] = configs[i]
         /\ event' = [event EXCEPT ![a].id = Len(configs) + 1]
         /\ event[a] \in Event
         /\ event'[a] \in Event
         /\ event'[a] = [event[a] EXCEPT !.id = Len(configs) + 1]
         /\ \A b \in Admins \ {a} : event'[b] = event[b]
         /\ UNCHANGED auditVars
<1>1. event[a] \in Event
  BY DEF TypeOK, Written, Waiting
<1>2. dynamic' \in Config
  BY <1>1 DEF TypeOK, Written, Event, Config
<1>3. configs \in Seq(Config)
  BY DEF TypeOK, Config
<1>4. Len(configs) \in Nat
  BY <1>3, LenProperties
<1>5. event'[a] = [event[a] EXCEPT !.id = Len(configs) + 1]
  BY DEF TypeOK, Written
<1>6. event'[a] \in Event
  BY <1>1, <1>4, <1>5 DEF Event
<1>7. \A b \in Admins \ {a} : event'[b] = event[b]
  BY DEF TypeOK, Written
<1>8. /\ configs' \in Seq(Config) /\ configs' # <<>>
      /\ Len(configs') = Len(configs) + 1
      /\ configs'[Len(configs) + 1] = dynamic'
      /\ \A i \in 1 .. Len(configs) : configs'[i] = configs[i]
  BY <1>2, <1>3, AppendToSeq DEF Written
<1>9. UNCHANGED auditVars
  BY DEF Written
<1>10. event' = [event EXCEPT ![a].id = Len(configs) + 1]
  BY DEF Written
<1> QED
  BY <1>1, <1>2, <1>5, <1>6, <1>7, <1>8, <1>9, <1>10

LEMMA PushedType ==
  ASSUME TypeOK, NEW a \in Admins, Pushed(a)
  PROVE  /\ log' \in Seq(Event) /\ pushed' \in Seq(Event)
         /\ Len(log') = Len(log) + 1 /\ log'[1] = event[a]
         /\ \A i \in 1 .. Len(log) : log'[i + 1] = log[i]
         /\ Len(pushed') = Len(pushed) + 1 /\ pushed'[1] = event[a]
         /\ \A i \in 1 .. Len(pushed) : pushed'[i + 1] = pushed[i]
         /\ untrimmed' = untrimmed + 1 /\ untrimmed' \in Nat
         /\ event[a] \in Event
         /\ UNCHANGED <<storeVars, event>>
<1>1. event[a] \in Event
  BY DEF TypeOK, Pushed, Waiting
<1>2. log \in Seq(Event) /\ pushed \in Seq(Event) /\ untrimmed \in Nat
  BY DEF TypeOK
<1>3. log' = <<event[a]>> \o log /\ pushed' = <<event[a]>> \o pushed
  BY DEF Pushed
<1>4. /\ log' \in Seq(Event) /\ Len(log') = Len(log) + 1 /\ log'[1] = event[a]
      /\ \A i \in 1 .. Len(log) : log'[i + 1] = log[i]
  BY <1>1, <1>2, <1>3, PushOntoSeq
<1>5. /\ pushed' \in Seq(Event) /\ Len(pushed') = Len(pushed) + 1 /\ pushed'[1] = event[a]
      /\ \A i \in 1 .. Len(pushed) : pushed'[i + 1] = pushed[i]
  BY <1>1, <1>2, <1>3, PushOntoSeq
<1>6. untrimmed' = untrimmed + 1 /\ UNCHANGED <<storeVars, event>>
  BY DEF Pushed
<1> QED
  BY <1>1, <1>2, <1>4, <1>5, <1>6

LEMMA TrimmedType ==
  ASSUME TypeOK, NEW a \in Admins, Trimmed(a)
  PROVE  /\ log' \in Seq(Event)
         /\ Len(log') <= Keep /\ Len(log') <= Len(log)
         /\ Len(log') = Len(log) \/ Len(log') = Keep
         /\ \A i \in 1 .. Len(log') : log'[i] = log[i]
         /\ untrimmed' = 0
         /\ UNCHANGED <<storeVars, event, pushed>>
<1>1. log \in Seq(Event) /\ Keep \in Nat
  BY GovernanceAssumption DEF TypeOK
<1>2. Len(log) \in Nat
  BY <1>1, LenProperties
<1>3. untrimmed' = 0 /\ UNCHANGED <<storeVars, event, pushed>>
  BY DEF Trimmed
<1>4. CASE Len(log) <= Keep
  <2>1. log' = log
    BY <1>4 DEF Trimmed
  <2> QED
    BY <1>1, <1>2, <1>3, <1>4, <2>1
<1>5. CASE ~(Len(log) <= Keep)
  <2>1. log' = SubSeq(log, 1, Keep) /\ Keep <= Len(log)
    BY <1>1, <1>2, <1>5 DEF Trimmed
  <2> QED
    BY <1>1, <1>2, <1>3, <2>1, CutSeq
<1> QED
  BY <1>4, <1>5

-----------------------------------------------------------------------------
(* Type correctness. *)

\* Moving a task on keeps the types of pc and loop.
LEMMA GotoType ==
  ASSUME TypeOK, NEW t \in Tasks, NEW label \in Labels, NEW waits,
         GotoIf(t, label, waits)
  PROVE  /\ suspending' \in BOOLEAN
         /\ loop' \in Tasks \cup {None} /\ pc' \in [Tasks -> Labels]
         /\ pc'[t] = label /\ \A u \in Tasks \ {t} : pc'[u] = pc[u]
  BY DEF TypeOK, GotoIf

\* What an admin step must keep besides the types of pc and loop.
Kept ==
  /\ dynamic' \in Config
  /\ log' \in Seq(Event) /\ pushed' \in Seq(Event)
  /\ untrimmed' \in Nat
  /\ event' \in [Admins -> Event \cup {None}]
  /\ configs' \in Seq(Config) /\ configs' # <<>>
  /\ returned' \in 1 .. Len(configs') /\ contested' \subseteq Fields

\* An admin step by a keeps the types, if it leaves its own operation ready.
LEMMA AdminType ==
  ASSUME TypeOK, NEW a \in Admins, NEW label \in Labels, Goto(a, label), Kept,
         Len(configs) <= Len(configs'),
         \A b \in Admins \ {a} : event'[b] = event[b],
         label \in Waiting => event'[a] \in Event,
         label \in {"push", "trim"} => event'[a].id \in 2 .. Len(configs')
  PROVE  TypeOK'
<1>1. a \in Tasks
  BY DEF Tasks
<1>2. /\ suspending' \in BOOLEAN /\ loop' \in Tasks \cup {None} /\ pc' \in [Tasks -> Labels]
      /\ pc'[a] = label /\ \A u \in Tasks \ {a} : pc'[u] = pc[u]
  BY <1>1, GotoType DEF Goto
<1>3. Len(configs) \in Nat /\ Len(configs') \in Nat
  BY LenProperties DEF TypeOK, Kept, Config
<1>4. ASSUME NEW b \in Admins
      PROVE  /\ pc'[b] \in Waiting => event'[b] \in Event
             /\ pc'[b] \in {"push", "trim"} => event'[b].id \in 2 .. Len(configs')
  <2>1. CASE b = a
    BY <1>2, <2>1
  <2>2. CASE b # a
    <3>1. pc'[b] = pc[b] /\ event'[b] = event[b]
      BY <1>2, <2>2 DEF Tasks
    <3>2. /\ pc[b] \in Waiting => event[b] \in Event
          /\ pc[b] \in {"push", "trim"} => event[b].id \in 2 .. Len(configs)
      BY DEF TypeOK
    <3> QED
      BY <1>3, <3>1, <3>2
  <2> QED
    BY <2>1, <2>2
<1> QED
  BY <1>2, <1>4 DEF TypeOK, Kept, Config

LEMMA TypeInit == Init => TypeOK
<1> SUFFICES ASSUME Init PROVE TypeOK
  OBVIOUS
<1>1. dynamic \in Config
  BY DEF Init, Config
<1>2. configs \in Seq(Config) /\ configs # <<>> /\ Len(configs) = 1
  BY <1>1 DEF Init
<1>3. log \in Seq(Event) /\ pushed \in Seq(Event)
  BY DEF Init
<1>4. pc \in [Tasks -> Labels] /\ \A a \in Admins : pc[a] = "idle"
  BY DEF Init, Labels, Tasks
<1> QED
  BY <1>1, <1>2, <1>3, <1>4 DEF Init, TypeOK, Config, Waiting

LEMMA ConfigsType ==
  ASSUME TypeOK
  PROVE  /\ configs \in Seq(Config) /\ Len(configs) \in Nat /\ 1 <= Len(configs)
         /\ Len(log) \in Nat /\ Len(pushed) \in Nat /\ Keep \in Nat \ {0}
         /\ dynamic \in Config
<1>1. configs \in Seq(Config) /\ configs # <<>>
  BY DEF TypeOK, Config
<1>2. log \in Seq(Event) /\ pushed \in Seq(Event)
  BY DEF TypeOK
<1>3. Len(configs) \in Nat \ {0}
  BY <1>1, EmptySeq
<1> QED
  BY <1>1, <1>2, <1>3, LenProperties, GovernanceAssumption DEF TypeOK, Config

LEMMA StartType ==
  ASSUME TypeOK, NEW a \in Admins, NEW f \in Fields, NEW v \in Accepted \cup {None},
         Start(a, f, v)
  PROVE  /\ event' = [event EXCEPT ![a] = [id |-> 0, field |-> f, value |-> v]]
         /\ event' \in [Admins -> Event \cup {None}]
         /\ event'[a] \in Event /\ event'[a].field = f
         /\ \A b \in Admins \ {a} : event'[b] = event[b]
         /\ UNCHANGED <<storeVars, auditVars, returned, lost, contested>>
         /\ Goto(a, "write")
<1>1. [id |-> 0, field |-> f, value |-> v] \in Event
  BY DEF Event
<1>2. event' = [event EXCEPT ![a] = [id |-> 0, field |-> f, value |-> v]]
  BY DEF Start
<1> QED
  BY <1>1, <1>2 DEF Start, TypeOK

LEMMA ContestsKnown ==
  ASSUME TypeOK, NEW a \in Admins, event[a] \in Event, Contests(a)
  PROVE  /\ contested' \subseteq Fields
         /\ IF Recording(event[a].field) THEN contested' = contested \cup {event[a].field}
                                         ELSE contested' = contested \ {event[a].field}
<1>1. event[a].field \in Fields /\ contested \subseteq Fields
  BY DEF TypeOK, Event
<1> QED
  BY <1>1 DEF Contests

\* The two outcomes of a fault: a write that is never recorded, and the rest.
Loses(a) ==
  /\ Written(a) \/ Unanswered(a, "push")
  /\ lost' = lost \cup {event'[a].id}
  /\ contested' = contested \cup {event[a].field}

LosesNothing(a) ==
  /\ Unanswered(a, "write") \/ Pushed(a) \/ Trimmed(a) \/ Unanswered(a, "trim")
  /\ lost' = lost /\ contested' = contested

LEMMA FaultLeaves ==
  ASSUME TypeOK, NEW a \in Admins, Fault(a)
  PROVE  /\ Goto(a, "failed") /\ returned' = returned
         /\ event[a] \in Event /\ contested' \subseteq Fields
         /\ Loses(a) \/ LosesNothing(a)
<1>1. pc[a] \in Waiting
  BY DEF Fault, Written, Pushed, Trimmed, Unanswered, Waiting
<1>2. event[a] \in Event /\ contested \subseteq Fields
  BY <1>1 DEF TypeOK
<1>3. event[a].field \in Fields
  BY <1>2 DEF Event
<1> QED
  BY <1>2, <1>3 DEF Fault, Loses, LosesNothing

LEMMA TypeStep == TypeOK /\ [Next]_vars => TypeOK'
<1> SUFFICES ASSUME TypeOK, [Next]_vars PROVE TypeOK'
  OBVIOUS
<1>0. /\ configs \in Seq(Config) /\ configs # <<>> /\ Len(configs) \in Nat
      /\ event \in [Admins -> Event \cup {None}] /\ contested \subseteq Fields
      /\ returned \in 1 .. Len(configs)
  BY ConfigsType DEF TypeOK, Config
<1>1. ASSUME NEW a \in Admins, NEW f \in Fields, NEW v \in Accepted \cup {None}, Start(a, f, v)
      PROVE  TypeOK'
  <2>1. Kept
    BY <1>1, <1>0, StartType DEF Kept, TypeOK, storeVars, auditVars, Config
  <2>2. Len(configs) <= Len(configs')
    BY <1>1, <1>0 DEF Start, storeVars
  <2> QED
    BY <1>1, <2>1, <2>2, StartType, AdminType DEF Labels, Waiting
<1>2. ASSUME NEW a \in Admins, Reject(a) PROVE TypeOK'
  <2>1. Kept /\ Len(configs) <= Len(configs')
    BY <1>2, <1>0 DEF Reject, Kept, TypeOK, storeVars, auditVars, Config
  <2> QED
    BY <1>2, <2>1, AdminType DEF Reject, Labels, Waiting
<1>3. ASSUME NEW a \in Admins, Write(a) PROVE TypeOK'
  <2>1. Written(a) /\ Goto(a, "push") /\ UNCHANGED <<returned, lost>> /\ Contests(a)
    BY <1>3 DEF Write
  <2>0. contested' \subseteq Fields
    BY <2>1, <1>0, WrittenType, ContestsKnown
  <2>2. /\ event' \in [Admins -> Event \cup {None}]
        /\ event'[a].id = Len(configs) + 1
    BY <2>1, <1>0, WrittenType DEF Event
  <2>3. Kept
    BY <2>0, <2>1, <2>2, <1>0, WrittenType DEF Kept, TypeOK, auditVars
  <2>4. /\ Len(configs) <= Len(configs')
        /\ event'[a] \in Event
        /\ event'[a].id \in 2 .. Len(configs')
    BY <2>1, <2>2, <1>0, ConfigsType, WrittenType
  <2>5. \A b \in Admins \ {a} : event'[b] = event[b]
    BY <2>1, WrittenType
  <2>6. "push" \in Labels
    BY DEF Labels, Waiting
  <2> QED
    BY <2>1, <2>3, <2>4, <2>5, <2>6, AdminType
<1>4. ASSUME NEW a \in Admins, Push(a) PROVE TypeOK'
  <2>1. Pushed(a) /\ Goto(a, "trim") /\ UNCHANGED <<returned, lost, contested>>
    BY <1>4 DEF Push
  <2>2. Kept /\ Len(configs) <= Len(configs')
    BY <2>1, <1>0, PushedType DEF Kept, TypeOK, storeVars, Config
  <2>3. event' = event /\ event[a] \in Event /\ event[a].id \in 2 .. Len(configs)
    BY <2>1, PushedType DEF TypeOK, Pushed
  <2>4. configs' = configs /\ "trim" \in Labels
    BY <2>1 DEF Pushed, storeVars, Labels, Waiting
  <2> QED
    BY <2>1, <2>2, <2>3, <2>4, AdminType
<1>5. ASSUME NEW a \in Admins, Trim(a) PROVE TypeOK'
  <2>1. Trimmed(a) /\ Goto(a, "returned") /\ UNCHANGED <<lost, contested>>
    BY <1>5 DEF Trim
  <2>2. event[a].id \in 2 .. Len(configs)
    BY <2>1 DEF Trimmed, TypeOK
  <2>3. configs' = configs /\ event' = event
    BY <2>1, TrimmedType DEF storeVars
  <2>4. returned' \in 1 .. Len(configs')
    BY <1>0, <1>5, <2>2, <2>3 DEF Trim
  <2>5. Kept
    BY <2>1, <2>3, <2>4, <1>0, TrimmedType DEF Kept, TypeOK, storeVars, Config
  <2>6. "returned" \in Labels \ Waiting /\ Len(configs) <= Len(configs')
    BY <1>0, <2>3 DEF Labels, Waiting
  <2> QED
    BY <2>1, <2>3, <2>5, <2>6, AdminType DEF Waiting
<1>6. ASSUME NEW a \in Admins, Fault(a) PROVE TypeOK'
  <2>1. Goto(a, "failed") /\ returned' = returned
    BY <1>6, FaultLeaves
  <2>2. contested' \subseteq Fields
    BY <1>6, FaultLeaves
  <2>3. "failed" \in Labels \ Waiting
    BY DEF Labels, Waiting
  <2>4. CASE Written(a)
    <3>0. Len(configs') = Len(configs) + 1 /\ event'[a] \in Event
      BY <2>4, WrittenType
    <3>1. event' \in [Admins -> Event \cup {None}]
      <4>1. event' = [event EXCEPT ![a].id = Len(configs) + 1]
        BY <2>4, WrittenType
      <4> QED
        BY <3>0, <4>1, <1>0
    <3>2. returned' \in 1 .. Len(configs') /\ Len(configs) <= Len(configs')
      BY <2>1, <3>0, <1>0
    <3>3. Kept
      BY <2>2, <2>4, <3>1, <3>2, <1>0, WrittenType DEF Kept, TypeOK, auditVars
    <3>4. \A b \in Admins \ {a} : event'[b] = event[b]
      BY <2>4, WrittenType
    <3> QED
      BY <2>1, <2>3, <3>2, <3>3, <3>4, AdminType DEF Waiting
  <2>5. CASE Pushed(a)
    <3>1. Kept /\ Len(configs) <= Len(configs') /\ event' = event
      BY <2>1, <2>2, <2>5, <1>0, PushedType DEF Kept, TypeOK, storeVars, Config
    <3> QED
      BY <2>1, <2>3, <3>1, AdminType DEF Waiting
  <2>6. CASE Trimmed(a)
    <3>1. Kept /\ Len(configs) <= Len(configs') /\ event' = event
      BY <2>1, <2>2, <2>6, <1>0, TrimmedType DEF Kept, TypeOK, storeVars, Config
    <3> QED
      BY <2>1, <2>3, <3>1, AdminType DEF Waiting
  <2>7. CASE UNCHANGED <<storeVars, auditVars, event>>
    <3>1. Kept /\ Len(configs) <= Len(configs') /\ event' = event
      BY <2>1, <2>2, <2>7, <1>0 DEF Kept, TypeOK, storeVars, auditVars, Config
    <3> QED
      BY <2>1, <2>3, <3>1, AdminType DEF Waiting
  <2> QED
    BY <1>6, <2>4, <2>5, <2>6, <2>7 DEF Fault, Unanswered
<1>7. ASSUME NEW a \in Admins, Leave(a) PROVE TypeOK'
  <2>1. Kept /\ Len(configs) <= Len(configs')
    BY <1>7, <1>0 DEF Leave, Kept, TypeOK, storeVars, auditVars, Config
  <2>2. \A b \in Admins \ {a} : event'[b] = event[b]
    BY <1>7, <1>0 DEF Leave
  <2>3. "idle" \in Labels \ Waiting /\ Goto(a, "idle")
    BY <1>7 DEF Labels, Waiting, Leave
  <2> QED
    BY <2>1, <2>2, <2>3, AdminType DEF Waiting
<1>8. CASE UNCHANGED vars
  BY <1>8 DEF TypeOK, vars, storeVars, auditVars
<1> QED
  BY <1>1, <1>2, <1>3, <1>4, <1>5, <1>6, <1>7, <1>8 DEF Next, Upsert, Delete

\* Type correctness of the store's state: an operation of the admin API always
\* has the field and value it is about to write or to record.
THEOREM TypeCorrect == Spec => []TypeOK
  BY TypeInit, TypeStep, PTL DEF Spec

-----------------------------------------------------------------------------
(* The audit log is the newest part of all that was pushed. *)

Window ==
  /\ Len(log) <= Len(pushed)
  /\ Len(log) = Len(pushed) \/ Keep <= Len(log)
  /\ \A i \in 1 .. Len(log) : log[i] = pushed[i]

LEMMA AuditMoves ==
  ASSUME [Next]_vars
  PROVE  \/ \E a \in Admins : Pushed(a) \/ Trimmed(a)
         \/ UNCHANGED auditVars
<1>1. CASE UNCHANGED vars
  BY <1>1 DEF vars
<1>2. ASSUME NEW a \in Admins, Upsert(a) \/ Delete(a)
      PROVE  UNCHANGED auditVars
  BY <1>2 DEF Upsert, Delete, Start
<1>3. ASSUME NEW a \in Admins, Reject(a) \/ Leave(a) \/ Write(a)
      PROVE  UNCHANGED auditVars
  BY <1>3 DEF Reject, Leave, Write, Written
<1>4. ASSUME NEW a \in Admins, Push(a) \/ Trim(a)
      PROVE  Pushed(a) \/ Trimmed(a)
  BY <1>4 DEF Push, Trim
<1>5. ASSUME NEW a \in Admins, Fault(a)
      PROVE  Pushed(a) \/ Trimmed(a) \/ UNCHANGED auditVars
  BY <1>5 DEF Fault, Written, Unanswered
<1> QED
  BY <1>1, <1>2, <1>3, <1>4, <1>5 DEF Next

LEMMA WindowStep == TypeOK /\ Window /\ [Next]_vars => Window'
<1> SUFFICES ASSUME TypeOK, Window, [Next]_vars PROVE Window'
  OBVIOUS
<1>0. Len(log) \in Nat /\ Len(pushed) \in Nat /\ Keep \in Nat \ {0}
  BY ConfigsType
<1>1. ASSUME NEW a \in Admins, Pushed(a) PROVE Window'
  <2>1. /\ Len(log') = Len(log) + 1 /\ log'[1] = event[a]
        /\ \A i \in 1 .. Len(log) : log'[i + 1] = log[i]
        /\ Len(pushed') = Len(pushed) + 1 /\ pushed'[1] = event[a]
        /\ \A i \in 1 .. Len(pushed) : pushed'[i + 1] = pushed[i]
    BY <1>1, PushedType
  <2>2. ASSUME NEW i \in 1 .. Len(log') PROVE log'[i] = pushed'[i]
    <3>1. CASE i = 1
      BY <2>1, <3>1
    <3>2. CASE i # 1
      <4>1. PICK j \in 1 .. Len(log) : i = j + 1
        <5>1. i - 1 \in 1 .. Len(log) /\ i = (i - 1) + 1
          BY <1>0, <2>1, <3>2
        <5> QED
          BY <5>1
      <4>2. j \in 1 .. Len(pushed)
        BY <1>0 DEF Window
      <4>3. log[j] = pushed[j]
        BY DEF Window
      <4> QED
        BY <2>1, <4>1, <4>2, <4>3
    <3> QED
      BY <3>1, <3>2
  <2> QED
    BY <1>0, <2>1, <2>2 DEF Window
<1>2. ASSUME NEW a \in Admins, Trimmed(a) PROVE Window'
  <2>1. /\ Len(log') <= Keep /\ Len(log') <= Len(log)
        /\ Len(log') = Len(log) \/ Len(log') = Keep
        /\ \A i \in 1 .. Len(log') : log'[i] = log[i]
        /\ pushed' = pushed
        /\ log' \in Seq(Event)
    BY <1>2, TrimmedType
  <2>2. Len(log') \in Nat
    BY <2>1, LenProperties
  <2> QED
    BY <1>0, <2>1, <2>2 DEF Window
<1>3. CASE UNCHANGED auditVars
  BY <1>3 DEF Window, auditVars
<1> QED
  BY <1>1, <1>2, <1>3, AuditMoves

LEMMA WindowInit == Init => Window
  BY DEF Init, Window

LEMMA WindowShown == TypeOK /\ Window => AuditWindow
<1> SUFFICES ASSUME TypeOK, Window, NEW limit \in -1 .. Keep + 2
             PROVE  LET asked == IF limit < 1 THEN 1
                                 ELSE IF limit > Keep THEN Keep ELSE limit
                        shown == AuditEvents(limit)
                    IN
                    /\ Len(shown) = IF Len(pushed) < asked THEN Len(pushed) ELSE asked
                    /\ \A i \in DOMAIN shown : shown[i] = pushed[i]
  BY DEF AuditWindow
<1> DEFINE asked == IF limit < 1 THEN 1 ELSE IF limit > Keep THEN Keep ELSE limit
           shown == AuditEvents(limit)
<1>0. /\ Len(log) \in Nat /\ Len(pushed) \in Nat /\ Keep \in Nat \ {0}
      /\ log \in Seq(Event)
  BY ConfigsType DEF TypeOK
<1>1. asked \in 1 .. Keep
  BY <1>0
<1>2. shown = IF Len(log) <= asked THEN log ELSE SubSeq(log, 1, asked)
  BY DEF AuditEvents
<1> HIDE DEF asked, shown
<1>3. CASE Len(log) <= asked
  <2>1. shown = log
    BY <1>2, <1>3
  <2>2. Len(log) = IF Len(pushed) < asked THEN Len(pushed) ELSE asked
    BY <1>0, <1>1, <1>3 DEF Window
  <2>3. DOMAIN log = 1 .. Len(log)
    BY <1>0, LenProperties
  <2> QED
    BY <2>1, <2>2, <2>3 DEF Window, asked, shown
<1>4. CASE ~(Len(log) <= asked)
  <2>1. asked \in Nat /\ asked <= Len(log) /\ ~(Len(pushed) < asked)
    BY <1>0, <1>1, <1>4 DEF Window
  <2>2. /\ shown \in Seq(Event) /\ Len(shown) = asked
        /\ \A i \in 1 .. asked : shown[i] = log[i]
    BY <1>0, <1>2, <1>4, <2>1, CutSeq
  <2>3. DOMAIN shown = 1 .. asked
    BY <2>2, LenProperties
  <2>4. \A i \in 1 .. asked : log[i] = pushed[i]
    BY <1>0, <2>1 DEF Window
  <2> QED
    BY <2>1, <2>2, <2>3, <2>4 DEF asked, shown
<1> QED
  BY <1>3, <1>4

\* audit_events shows the newest events, however the LPUSH and LTRIM of several
\* operations interleave and whichever of them fail.
THEOREM AuditShowsTheNewest == Spec => []AuditWindow
<1>1. Init => TypeOK /\ Window
  BY TypeInit, WindowInit
<1>2. TypeOK /\ Window /\ [Next]_vars => TypeOK' /\ Window'
  BY TypeStep, WindowStep
<1> QED
  BY <1>1, <1>2, WindowShown, PTL DEF Spec

LEMMA BoundedStep == TypeOK /\ LogBounded /\ [Next]_vars => LogBounded'
<1> SUFFICES ASSUME TypeOK, LogBounded, [Next]_vars PROVE LogBounded'
  OBVIOUS
<1>0. Len(log) \in Nat /\ Keep \in Nat /\ untrimmed \in Nat
  BY ConfigsType DEF TypeOK
<1>1. ASSUME NEW a \in Admins, Pushed(a) PROVE LogBounded'
  <2>1. Len(log') = Len(log) + 1 /\ untrimmed' = untrimmed + 1
    BY <1>1, PushedType
  <2> QED
    BY <1>0, <2>1 DEF LogBounded
<1>2. ASSUME NEW a \in Admins, Trimmed(a) PROVE LogBounded'
  <2>1. Len(log') <= Keep /\ untrimmed' = 0 /\ log' \in Seq(Event)
    BY <1>2, TrimmedType
  <2> QED
    BY <1>0, <2>1, LenProperties DEF LogBounded
<1>3. CASE UNCHANGED auditVars
  BY <1>3 DEF LogBounded, auditVars
<1> QED
  BY <1>1, <1>2, <1>3, AuditMoves

\* governance:audit outgrows its bound by what has not been trimmed yet, and no
\* more, also if every LTRIM fails.
THEOREM LogIsBounded == Spec => []LogBounded
<1>1. Init => LogBounded
  BY GovernanceAssumption DEF Init, LogBounded
<1> QED
  BY <1>1, TypeInit, TypeStep, BoundedStep, PTL DEF Spec

-----------------------------------------------------------------------------
(* Every write leaves its event. *)

Accounted(i) ==
  \/ i \in lost
  \/ \E a \in Admins : pc[a] = "push" /\ event[a].id = i
  \/ \E k \in 1 .. Len(pushed) : pushed[k].id = i

Truthful(e) == e.id \in 2 .. Len(configs) /\ configs[e.id][e.field] = e.value

Recorded ==
  /\ \A i \in 2 .. Len(configs) : Accounted(i)
  /\ \A k \in 1 .. Len(pushed) : Truthful(pushed[k])
  /\ \A a \in Admins : pc[a] = "push" => Truthful(event[a])

LEMMA RecordedShown == TypeOK /\ Recorded => AuditComplete
<1> SUFFICES ASSUME TypeOK, Recorded PROVE AuditComplete
  OBVIOUS
<1>1. DOMAIN configs = 1 .. Len(configs) /\ DOMAIN pushed = 1 .. Len(pushed)
  BY ConfigsType, LenProperties DEF TypeOK
<1>2. DOMAIN configs \ {1} = 2 .. Len(configs)
  BY <1>1, ConfigsType
<1> QED
  BY <1>1, <1>2 DEF Recorded, AuditComplete, Accounted, Truthful

LEMMA GotoMoves ==
  ASSUME TypeOK, NEW a \in Admins, NEW label \in Labels, Goto(a, label)
  PROVE  pc'[a] = label /\ \A b \in Admins \ {a} : pc'[b] = pc[b]
<1>1. a \in Tasks /\ \A b \in Admins \ {a} : b \in Tasks \ {a}
  BY DEF Tasks
<1> QED
  BY <1>1, GotoType DEF Goto

\* Steps that write nothing and push nothing: a leaves none of its own behind.
LEMMA RecordedFrame ==
  ASSUME TypeOK, Recorded, NEW a \in Admins, NEW label \in Labels \ {"push"},
         Goto(a, label), configs' = configs, pushed' = pushed, lost \subseteq lost',
         \A b \in Admins \ {a} : event'[b] = event[b],
         pc[a] = "push" => event[a].id \in lost'
  PROVE  Recorded'
<1>1. pc'[a] = label /\ \A b \in Admins \ {a} : pc'[b] = pc[b]
  BY GotoMoves
<1>2. ASSUME NEW i \in 2 .. Len(configs') PROVE Accounted(i)'
  <2>1. Accounted(i)
    BY DEF Recorded
  <2>2. CASE \E b \in Admins : pc[b] = "push" /\ event[b].id = i
    <3>1. PICK b \in Admins : pc[b] = "push" /\ event[b].id = i
      BY <2>2
    <3>2. CASE b = a
      BY <3>1, <3>2 DEF Accounted
    <3>3. CASE b # a
      BY <1>1, <3>1, <3>3 DEF Accounted
    <3> QED
      BY <3>2, <3>3
  <2> QED
    BY <2>1, <2>2 DEF Accounted
<1>3. \A e : Truthful(e)' <=> Truthful(e)
  BY DEF Truthful
<1>4. ASSUME NEW b \in Admins, pc'[b] = "push" PROVE Truthful(event[b])'
  <2>1. b # a /\ pc[b] = "push" /\ event'[b] = event[b]
    BY <1>1, <1>4
  <2> QED
    BY <2>1, <1>3 DEF Recorded, Truthful
<1>5. ASSUME NEW k \in 1 .. Len(pushed') PROVE Truthful(pushed[k])'
  BY DEF Recorded, Truthful
<1> QED
  BY <1>2, <1>4, <1>5 DEF Recorded

\* A write, whose event is then to be pushed or whose operation has failed.
LEMMA RecordedWritten ==
  ASSUME TypeOK, Recorded, NEW a \in Admins, NEW label \in Labels, Goto(a, label),
         Written(a), lost \subseteq lost',
         label = "push" \/ event'[a].id \in lost'
  PROVE  Recorded'
<1> DEFINE n == Len(configs)
<1>1. pc'[a] = label /\ \A b \in Admins \ {a} : pc'[b] = pc[b]
  BY GotoMoves
<1>2. /\ Len(configs') = n + 1 /\ configs'[n + 1] = dynamic' /\ n \in Nat /\ 1 <= n
      /\ \A i \in 1 .. n : configs'[i] = configs[i]
      /\ event[a] \in Event /\ event'[a] = [event[a] EXCEPT !.id = n + 1]
      /\ \A b \in Admins \ {a} : event'[b] = event[b]
      /\ pushed' = pushed
  BY WrittenType, ConfigsType DEF auditVars
<1>3. /\ event'[a].id = n + 1 /\ event'[a].field = event[a].field
      /\ event'[a].value = event[a].value /\ pc[a] = "write"
  BY <1>2 DEF Event, Written
<1>4. dynamic'[event[a].field] = event[a].value
  BY <1>2 DEF TypeOK, Written, Event
<1> HIDE DEF n
<1>5. Truthful(event[a])'
  BY <1>2, <1>3, <1>4 DEF Truthful
<1>6. ASSUME NEW e, Truthful(e)
      PROVE  e.id \in 2 .. Len(configs') /\ configs'[e.id][e.field] = e.value
  BY <1>2, <1>6 DEF Truthful, n
<1>7. ASSUME NEW i \in 2 .. Len(configs') PROVE Accounted(i)'
  <2>1. CASE i = n + 1
    BY <1>1, <1>3, <2>1 DEF Accounted
  <2>2. CASE i # n + 1
    <3>1. Accounted(i)
      BY <1>2, <2>2 DEF Recorded, n
    <3>2. CASE \E b \in Admins : pc[b] = "push" /\ event[b].id = i
      <4>1. PICK b \in Admins : pc[b] = "push" /\ event[b].id = i
        BY <3>2
      <4>2. b # a
        BY <1>3, <4>1
      <4> QED
        BY <1>1, <1>2, <4>1, <4>2 DEF Accounted
    <3> QED
      BY <1>2, <3>1, <3>2 DEF Accounted
  <2> QED
    BY <2>1, <2>2
<1>8. ASSUME NEW b \in Admins, pc'[b] = "push" PROVE Truthful(event[b])'
  <2>1. CASE b = a
    BY <1>5, <2>1
  <2>2. CASE b # a
    <3>1. pc[b] = "push" /\ event'[b] = event[b]
      BY <1>1, <1>2, <1>8, <2>2
    <3>2. Truthful(event[b])
      BY <3>1 DEF Recorded
    <3> QED
      BY <3>1, <3>2, <1>6 DEF Truthful
  <2> QED
    BY <2>1, <2>2
<1>9. ASSUME NEW k \in 1 .. Len(pushed') PROVE Truthful(pushed[k])'
  <2>1. Truthful(pushed[k]) /\ pushed'[k] = pushed[k]
    BY <1>2 DEF Recorded
  <2> QED
    BY <2>1, <1>6 DEF Truthful
<1> QED
  BY <1>7, <1>8, <1>9 DEF Recorded

LEMMA RecordedPushed ==
  ASSUME TypeOK, Recorded, NEW a \in Admins, NEW label \in Labels \ {"push"},
         Goto(a, label), Pushed(a), lost \subseteq lost'
  PROVE  Recorded'
<1>1. pc'[a] = label /\ \A b \in Admins \ {a} : pc'[b] = pc[b]
  BY GotoMoves
<1>2. /\ Len(pushed') = Len(pushed) + 1 /\ pushed'[1] = event[a]
      /\ \A i \in 1 .. Len(pushed) : pushed'[i + 1] = pushed[i]
      /\ configs' = configs /\ event' = event /\ Len(pushed) \in Nat
      /\ pc[a] = "push"
  BY PushedType, ConfigsType DEF storeVars, Pushed
<1>3. ASSUME NEW i \in 2 .. Len(configs') PROVE Accounted(i)'
  <2>1. Accounted(i)
    BY <1>2 DEF Recorded
  <2>2. CASE \E b \in Admins : pc[b] = "push" /\ event[b].id = i
    <3>1. PICK b \in Admins : pc[b] = "push" /\ event[b].id = i
      BY <2>2
    <3>2. CASE b = a
      <4>1. 1 \in 1 .. Len(pushed') /\ pushed'[1].id = i
        BY <1>2, <3>1, <3>2
      <4> QED
        BY <4>1 DEF Accounted
    <3>3. CASE b # a
      BY <1>1, <1>2, <3>1, <3>3 DEF Accounted
    <3> QED
      BY <3>2, <3>3
  <2>3. CASE \E k \in 1 .. Len(pushed) : pushed[k].id = i
    <3>1. PICK k \in 1 .. Len(pushed) : pushed[k].id = i
      BY <2>3
    <3>2. k + 1 \in 1 .. Len(pushed') /\ pushed'[k + 1].id = i
      BY <1>2, <3>1
    <3> QED
      BY <3>2 DEF Accounted
  <2> QED
    BY <2>1, <2>2, <2>3 DEF Accounted
<1>4. ASSUME NEW b \in Admins, pc'[b] = "push" PROVE Truthful(event[b])'
  <2>1. b # a /\ pc[b] = "push"
    BY <1>1, <1>4
  <2> QED
    BY <1>2, <2>1 DEF Recorded, Truthful
<1>5. ASSUME NEW k \in 1 .. Len(pushed') PROVE Truthful(pushed[k])'
  <2>1. CASE k = 1
    BY <1>2, <2>1 DEF Recorded, Truthful
  <2>2. CASE k # 1
    <3>1. k - 1 \in 1 .. Len(pushed) /\ k = (k - 1) + 1
      BY <1>2, <2>2
    <3>2. pushed'[k] = pushed[k - 1] /\ Truthful(pushed[k - 1])
      BY <1>2, <3>1 DEF Recorded
    <3> QED
      BY <1>2, <3>2 DEF Truthful
  <2> QED
    BY <2>1, <2>2
<1> QED
  BY <1>3, <1>4, <1>5 DEF Recorded

LEMMA RecordedStep == TypeOK /\ Recorded /\ [Next]_vars => Recorded'
<1> SUFFICES ASSUME TypeOK, Recorded, [Next]_vars PROVE Recorded'
  OBVIOUS
<1> USE DEF Labels, Waiting
<1>1. ASSUME NEW a \in Admins, NEW f \in Fields, NEW v \in Accepted \cup {None}, Start(a, f, v)
      PROVE  Recorded'
  <2>1. /\ Goto(a, "write") /\ configs' = configs /\ pushed' = pushed /\ lost' = lost
        /\ \A b \in Admins \ {a} : event'[b] = event[b] /\ pc[a] = "idle"
    BY <1>1, StartType DEF Start, storeVars, auditVars
  <2>2. pc[a] = "idle"
    BY <1>1 DEF Start
  <2> QED
    BY <2>1, <2>2, RecordedFrame
<1>2. ASSUME NEW a \in Admins, Reject(a) PROVE Recorded'
  <2>1. /\ Goto(a, "rejected") /\ configs' = configs /\ pushed' = pushed /\ lost' = lost
        /\ event' = event /\ pc[a] = "idle"
    BY <1>2 DEF Reject, storeVars, auditVars
  <2> QED
    BY <2>1, RecordedFrame
<1>3. ASSUME NEW a \in Admins, Write(a) PROVE Recorded'
  <2>1. Written(a) /\ Goto(a, "push") /\ lost' = lost
    BY <1>3 DEF Write
  <2> QED
    BY <2>1, RecordedWritten
<1>4. ASSUME NEW a \in Admins, Push(a) PROVE Recorded'
  <2>1. Pushed(a) /\ Goto(a, "trim") /\ lost' = lost
    BY <1>4 DEF Push
  <2> QED
    BY <2>1, RecordedPushed
<1>5. ASSUME NEW a \in Admins, Trim(a) PROVE Recorded'
  <2>1. /\ Goto(a, "returned") /\ configs' = configs /\ pushed' = pushed /\ lost' = lost
        /\ event' = event /\ pc[a] = "trim"
    BY <1>5 DEF Trim, Trimmed, storeVars
  <2> QED
    BY <2>1, RecordedFrame
<1>6. ASSUME NEW a \in Admins, Fault(a) PROVE Recorded'
  <2>1. Goto(a, "failed") /\ (Loses(a) \/ LosesNothing(a))
    BY <1>6, FaultLeaves
  <2>2. CASE Loses(a) /\ Written(a)
    BY <2>1, <2>2, RecordedWritten DEF Loses
  <2>3. CASE Loses(a) /\ Unanswered(a, "push")
    <3>1. configs' = configs /\ pushed' = pushed /\ event' = event
      BY <2>3 DEF Unanswered, storeVars, auditVars
    <3>2. lost \subseteq lost' /\ event[a].id \in lost'
      BY <2>3, <3>1 DEF Loses
    <3> QED
      BY <2>1, <3>1, <3>2, RecordedFrame
  <2>4. CASE LosesNothing(a) /\ Pushed(a)
    BY <2>1, <2>4, RecordedPushed DEF LosesNothing
  <2>5. CASE LosesNothing(a) /\ ~Pushed(a)
    <3>1. configs' = configs /\ pushed' = pushed /\ event' = event /\ pc[a] # "push"
      BY <2>5 DEF LosesNothing, Trimmed, Unanswered, storeVars, auditVars
    <3> QED
      BY <2>1, <2>5, <3>1, RecordedFrame DEF LosesNothing
  <2> QED
    BY <2>1, <2>2, <2>3, <2>4, <2>5 DEF Loses
<1>7. ASSUME NEW a \in Admins, Leave(a) PROVE Recorded'
  <2>1. /\ Goto(a, "idle") /\ configs' = configs /\ pushed' = pushed /\ lost' = lost
        /\ \A b \in Admins \ {a} : event'[b] = event[b]
    BY <1>7 DEF Leave, storeVars, auditVars, TypeOK
  <2>2. pc[a] # "push"
    BY <1>7 DEF Leave
  <2> QED
    BY <2>1, <2>2, RecordedFrame
<1>8. CASE UNCHANGED vars
  BY <1>8 DEF Recorded, Accounted, Truthful, vars, storeVars, auditVars
<1> QED
  BY <1>1, <1>2, <1>3, <1>4, <1>5, <1>6, <1>7, <1>8 DEF Next, Upsert, Delete

LEMMA RecordedInit == Init => Recorded
<1> SUFFICES ASSUME Init PROVE Recorded
  OBVIOUS
<1>1. Len(configs) = 1 /\ Len(pushed) = 0 /\ \A a \in Admins : pc[a] = "idle"
  BY DEF Init, Tasks
<1> QED
  BY <1>1 DEF Recorded

\* Nothing is written (_hset, _hdel) without an event of audit, nor recorded
\* without a write.
THEOREM AuditIsComplete == Spec => []AuditComplete
<1>1. Init => TypeOK /\ Recorded
  BY TypeInit, RecordedInit
<1>2. TypeOK /\ Recorded /\ [Next]_vars => TypeOK' /\ Recorded'
  BY TypeStep, RecordedStep
<1> QED
  BY <1>1, <1>2, RecordedShown, PTL DEF Spec

-----------------------------------------------------------------------------
(* The newest event of a field tells what is configured. *)

Told(f) ==
  \A k \in 1 .. Len(pushed) :
    (pushed[k].field = f /\ \A j \in 1 .. k - 1 : pushed[j].field # f)
      => pushed[k].value = dynamic[f]

Tells ==
  /\ \A a, b \in Admins :
       (a # b /\ pc[a] = "push" /\ pc[b] = "push" /\ event[a].field = event[b].field)
         => event[a].field \in contested
  /\ \A a \in Admins :
       (pc[a] = "push" /\ event[a].field \notin contested)
         => event[a].value = dynamic[event[a].field]
  /\ \A f \in Fields \ contested : Told(f) \/ Recording(f)

LEMMA TellsShown == TypeOK /\ Window /\ Tells => LogTellsState
<1> SUFFICES ASSUME TypeOK, Window, Tells, NEW k \in DOMAIN log,
                    log[k].field \notin contested, ~Recording(log[k].field),
                    \A j \in 1 .. k - 1 : log[j].field # log[k].field
             PROVE  log[k].value = dynamic[log[k].field]
  BY DEF LogTellsState
<1>1. k \in 1 .. Len(log) /\ log[k] \in Event
  BY LenProperties, ElementOfSeq DEF TypeOK
<1>2. Len(log) \in Nat /\ Len(pushed) \in Nat
  BY ConfigsType
<1>3. /\ k \in 1 .. Len(pushed)
      /\ \A j \in 1 .. k : log[j] = pushed[j]
  BY <1>1, <1>2 DEF Window
<1>4. log[k].field \in Fields \ contested
  BY <1>1 DEF Event
<1>5. Told(log[k].field)
  BY <1>4 DEF Tells
<1>6. \A j \in 1 .. k - 1 : pushed[j].field # log[k].field
  BY <1>1, <1>2, <1>3
<1> QED
  BY <1>1, <1>2, <1>3, <1>5, <1>6 DEF Told

\* Steps that write nothing and push nothing.
LEMMA TellsFrame ==
  ASSUME TypeOK, Tells, NEW a \in Admins, NEW label \in Labels \ {"push"}, Goto(a, label),
         dynamic' = dynamic, pushed' = pushed, contested \subseteq contested',
         \A b \in Admins \ {a} : event'[b] = event[b],
         pc[a] = "push" => event[a].field \in contested'
  PROVE  Tells'
<1>1. pc'[a] = label /\ \A b \in Admins \ {a} : pc'[b] = pc[b]
  BY GotoMoves
<1>2. ASSUME NEW b \in Admins, pc'[b] = "push"
      PROVE  b # a /\ pc[b] = "push" /\ event'[b] = event[b]
  BY <1>1, <1>2
<1>3. \A b, c \in Admins :
        (b # c /\ pc'[b] = "push" /\ pc'[c] = "push" /\ event'[b].field = event'[c].field)
          => event'[b].field \in contested'
  BY <1>2 DEF Tells
<1>4. ASSUME NEW b \in Admins, pc'[b] = "push", event'[b].field \notin contested'
      PROVE  event'[b].value = dynamic'[event'[b].field]
  BY <1>2, <1>4 DEF Tells
<1>5. ASSUME NEW f \in Fields \ contested' PROVE (Told(f) \/ Recording(f))'
  <2>1. Told(f) \/ Recording(f)
    BY DEF Tells
  <2>2. CASE Told(f)
    BY <2>2 DEF Told
  <2>3. CASE Recording(f)
    <3>1. PICK b \in Admins : pc[b] = "push" /\ event[b].field = f
      BY <2>3 DEF Recording
    <3>2. b # a
      BY <3>1
    <3> QED
      BY <1>1, <3>1, <3>2 DEF Recording
  <2> QED
    BY <2>1, <2>2, <2>3
<1> QED
  BY <1>3, <1>4, <1>5 DEF Tells

\* A write leaves its field contested, or its own event the only one under way.
LEMMA TellsWritten ==
  ASSUME TypeOK, Tells, NEW a \in Admins, NEW label \in Labels, Goto(a, label),
         Written(a), contested \ {event[a].field} \subseteq contested',
         \/ event[a].field \in contested'
         \/ label = "push" /\ ~Recording(event[a].field)
  PROVE  Tells'
<1>1. pc'[a] = label /\ \A b \in Admins \ {a} : pc'[b] = pc[b]
  BY GotoMoves
<1>2. /\ event[a] \in Event /\ event'[a] = [event[a] EXCEPT !.id = Len(configs) + 1]
      /\ \A b \in Admins \ {a} : event'[b] = event[b]
      /\ pushed' = pushed
  BY WrittenType DEF auditVars
<1>3. /\ event'[a].field = event[a].field /\ event'[a].value = event[a].value
      /\ pc[a] = "write"
  BY <1>2 DEF Event, Written
<1>4. /\ dynamic' = [dynamic EXCEPT ![event[a].field] = event[a].value]
      /\ event[a].field \in Fields /\ dynamic \in Config
  BY <1>2 DEF TypeOK, Written, Event, Config
<1>5. ASSUME NEW b \in Admins \ {a}, pc'[b] = "push"
      PROVE  pc[b] = "push" /\ event'[b] = event[b] /\ event[b].field \in Fields
  <2>1. pc[b] = "push" /\ event'[b] = event[b]
    BY <1>1, <1>2, <1>5
  <2>2. event[b] \in Event
    BY <2>1 DEF TypeOK, Waiting
  <2> QED
    BY <2>1, <2>2 DEF Event
<1>6. ASSUME NEW b \in Admins \ {a}, pc'[b] = "push", event'[b].field \notin contested'
      PROVE  event[b].field # event[a].field /\ event[b].field \notin contested
  <2>1. pc[b] = "push" /\ event'[b] = event[b]
    BY <1>5, <1>6
  <2>2. event[b].field # event[a].field
    BY <1>6, <2>1 DEF Recording
  <2> QED
    BY <1>6, <2>1, <2>2
<1>7. ASSUME NEW b \in Admins, NEW c \in Admins, b # c, pc'[b] = "push", pc'[c] = "push",
             event'[b].field = event'[c].field, event'[b].field \notin contested'
      PROVE  FALSE
  <2>1. CASE b = a
    BY <1>3, <1>5, <1>6, <1>7, <2>1
  <2>2. CASE c = a
    BY <1>3, <1>5, <1>6, <1>7, <2>2
  <2>3. CASE b # a /\ c # a
    <3>1. /\ pc[b] = "push" /\ pc[c] = "push" /\ event[b].field = event[c].field
          /\ event[b].field \notin contested
      BY <1>5, <1>6, <1>7, <2>3
    <3> QED
      BY <1>7, <3>1 DEF Tells
  <2> QED
    BY <2>1, <2>2, <2>3
<1>8. ASSUME NEW b \in Admins, pc'[b] = "push", event'[b].field \notin contested'
      PROVE  event'[b].value = dynamic'[event'[b].field]
  <2>1. CASE b = a
    BY <1>3, <1>4, <2>1 DEF Config
  <2>2. CASE b # a
    <3>1. /\ pc[b] = "push" /\ event'[b] = event[b] /\ event[b].field \in Fields
          /\ event[b].field # event[a].field /\ event[b].field \notin contested
      BY <1>5, <1>6, <1>8, <2>2
    <3>2. event[b].value = dynamic[event[b].field]
      BY <3>1 DEF Tells
    <3> QED
      BY <1>4, <3>1, <3>2 DEF Config
  <2> QED
    BY <2>1, <2>2
<1>9. ASSUME NEW f \in Fields \ contested' PROVE (Told(f) \/ Recording(f))'
  <2>1. CASE f = event[a].field
    BY <1>1, <1>3, <2>1 DEF Recording
  <2>2. CASE f # event[a].field
    <3>1. dynamic'[f] = dynamic[f] /\ f \in Fields \ contested
      BY <1>4, <2>2 DEF Config
    <3>2. Told(f) \/ Recording(f)
      BY <3>1 DEF Tells
    <3>3. CASE Told(f)
      BY <1>2, <3>1, <3>3 DEF Told
    <3>4. CASE Recording(f)
      <4>1. PICK b \in Admins : pc[b] = "push" /\ event[b].field = f
        BY <3>4 DEF Recording
      <4>2. b # a
        BY <1>3, <4>1
      <4> QED
        BY <1>1, <1>2, <4>1, <4>2 DEF Recording
    <3> QED
      BY <3>2, <3>3, <3>4
  <2> QED
    BY <2>1, <2>2
<1> QED
  BY <1>7, <1>8, <1>9 DEF Tells

LEMMA TellsPushed ==
  ASSUME TypeOK, Tells, NEW a \in Admins, NEW label \in Labels \ {"push"}, Goto(a, label),
         Pushed(a), contested \subseteq contested'
  PROVE  Tells'
<1>1. pc'[a] = label /\ \A b \in Admins \ {a} : pc'[b] = pc[b]
  BY GotoMoves
<1>2. /\ Len(pushed') = Len(pushed) + 1 /\ pushed'[1] = event[a]
      /\ \A i \in 1 .. Len(pushed) : pushed'[i + 1] = pushed[i]
      /\ dynamic' = dynamic /\ event' = event /\ Len(pushed) \in Nat
      /\ pc[a] = "push"
  BY PushedType, ConfigsType DEF storeVars, Pushed
<1>3. \A b, c \in Admins :
        (b # c /\ pc'[b] = "push" /\ pc'[c] = "push" /\ event'[b].field = event'[c].field)
          => event'[b].field \in contested'
  BY <1>1, <1>2 DEF Tells
<1>4. ASSUME NEW b \in Admins, pc'[b] = "push", event'[b].field \notin contested'
      PROVE  event'[b].value = dynamic'[event'[b].field]
  <2>1. b # a /\ pc[b] = "push"
    BY <1>1, <1>4
  <2> QED
    BY <1>2, <1>4, <2>1 DEF Tells
<1>5. ASSUME NEW f \in Fields \ contested' PROVE (Told(f) \/ Recording(f))'
  <2>1. CASE f = event[a].field
    <3>1. event[a].value = dynamic[f]
      BY <1>2, <2>1 DEF Tells
    <3>2. ASSUME NEW k \in 1 .. Len(pushed'), pushed'[k].field = f,
                 \A j \in 1 .. k - 1 : pushed'[j].field # f
          PROVE  pushed'[k].value = dynamic'[f]
      <4>1. k = 1
        <5>1. SUFFICES ASSUME k # 1 PROVE FALSE
          OBVIOUS
        <5>2. 1 \in 1 .. k - 1
          BY <1>2, <5>1
        <5> QED
          BY <1>2, <2>1, <3>2, <5>2
      <4> QED
        BY <1>2, <3>1, <4>1
    <3> QED
      BY <3>2 DEF Told
  <2>2. CASE f # event[a].field
    <3>1. Told(f) \/ Recording(f)
      BY DEF Tells
    <3>2. CASE Recording(f)
      <4>1. PICK b \in Admins : pc[b] = "push" /\ event[b].field = f
        BY <3>2 DEF Recording
      <4>2. b # a
        BY <2>2, <4>1
      <4> QED
        BY <1>1, <1>2, <4>1, <4>2 DEF Recording
    <3>3. ASSUME Told(f), NEW k \in 1 .. Len(pushed'), pushed'[k].field = f,
                 \A j \in 1 .. k - 1 : pushed'[j].field # f
          PROVE  pushed'[k].value = dynamic'[f]
      <4>1. k # 1
        BY <1>2, <2>2, <3>3
      <4>2. PICK i \in 1 .. Len(pushed) : k = i + 1
        <5>1. k - 1 \in 1 .. Len(pushed) /\ k = (k - 1) + 1
          BY <1>2, <4>1
        <5> QED
          BY <5>1
      <4>3. pushed[i].field = f
        BY <1>2, <3>3, <4>2
      <4>4. ASSUME NEW j \in 1 .. i - 1 PROVE pushed[j].field # f
        <5>1. j + 1 \in 1 .. k - 1 /\ j \in 1 .. Len(pushed)
          BY <1>2, <4>2
        <5> QED
          BY <1>2, <3>3, <5>1
      <4>5. pushed[i].value = dynamic[f]
        BY <3>3, <4>3, <4>4 DEF Told
      <4> QED
        BY <1>2, <4>2, <4>5
    <3> QED
      BY <3>1, <3>2, <3>3 DEF Told
  <2> QED
    BY <2>1, <2>2
<1> QED
  BY <1>3, <1>4, <1>5 DEF Tells

LEMMA TellsStep == TypeOK /\ Tells /\ [Next]_vars => Tells'
<1> SUFFICES ASSUME TypeOK, Tells, [Next]_vars PROVE Tells'
  OBVIOUS
<1>0. /\ {"write", "trim", "rejected", "returned", "failed", "idle"} \subseteq Labels \ {"push"}
      /\ "push" \in Labels
  BY DEF Labels, Waiting
<1>1. ASSUME NEW a \in Admins, NEW f \in Fields, NEW v \in Accepted \cup {None}, Start(a, f, v)
      PROVE  Tells'
  <2>1. /\ Goto(a, "write") /\ dynamic' = dynamic /\ pushed' = pushed
        /\ contested' = contested /\ \A b \in Admins \ {a} : event'[b] = event[b]
    BY <1>1, StartType DEF storeVars, auditVars
  <2>2. pc[a] = "idle"
    BY <1>1 DEF Start
  <2> QED
    BY <1>0, <2>1, <2>2, TellsFrame
<1>2. ASSUME NEW a \in Admins, Reject(a) PROVE Tells'
  <2>1. /\ Goto(a, "rejected") /\ dynamic' = dynamic /\ pushed' = pushed
        /\ contested' = contested /\ event' = event /\ pc[a] = "idle"
    BY <1>2 DEF Reject, storeVars, auditVars
  <2> QED
    BY <1>0, <2>1, TellsFrame
<1>3. ASSUME NEW a \in Admins, Write(a) PROVE Tells'
  <2>1. Written(a) /\ Goto(a, "push") /\ Contests(a)
    BY <1>3 DEF Write
  <2>2. IF Recording(event[a].field) THEN contested' = contested \cup {event[a].field}
                                     ELSE contested' = contested \ {event[a].field}
    BY <2>1, WrittenType, ContestsKnown
  <2>3. CASE Recording(event[a].field)
    BY <1>0, <2>1, <2>2, <2>3, TellsWritten
  <2>4. CASE ~Recording(event[a].field)
    BY <1>0, <2>1, <2>2, <2>4, TellsWritten
  <2> QED
    BY <2>3, <2>4
<1>4. ASSUME NEW a \in Admins, Push(a) PROVE Tells'
  <2>1. Pushed(a) /\ Goto(a, "trim") /\ contested' = contested
    BY <1>4 DEF Push
  <2> QED
    BY <1>0, <2>1, TellsPushed
<1>5. ASSUME NEW a \in Admins, Trim(a) PROVE Tells'
  <2>1. /\ Goto(a, "returned") /\ dynamic' = dynamic /\ pushed' = pushed
        /\ contested' = contested /\ event' = event /\ pc[a] = "trim"
    BY <1>5 DEF Trim, Trimmed, storeVars
  <2> QED
    BY <1>0, <2>1, TellsFrame
<1>6. ASSUME NEW a \in Admins, Fault(a) PROVE Tells'
  <2>1. Goto(a, "failed") /\ (Loses(a) \/ LosesNothing(a))
    BY <1>6, FaultLeaves
  <2>2. CASE Loses(a) /\ Written(a)
    <3>1. contested \ {event[a].field} \subseteq contested' /\ event[a].field \in contested'
      BY <2>2 DEF Loses
    <3> QED
      BY <1>0, <2>1, <2>2, <3>1, TellsWritten
  <2>3. CASE Loses(a) /\ Unanswered(a, "push")
    <3>1. dynamic' = dynamic /\ pushed' = pushed /\ event' = event
      BY <2>3 DEF Unanswered, storeVars, auditVars
    <3>2. contested \subseteq contested' /\ event[a].field \in contested'
      BY <2>3 DEF Loses
    <3> QED
      BY <1>0, <2>1, <3>1, <3>2, TellsFrame
  <2>4. CASE LosesNothing(a) /\ Pushed(a)
    BY <1>0, <2>1, <2>4, TellsPushed DEF LosesNothing
  <2>5. CASE LosesNothing(a) /\ ~Pushed(a)
    <3>1. /\ dynamic' = dynamic /\ pushed' = pushed /\ event' = event /\ pc[a] # "push"
          /\ contested' = contested
      BY <2>5 DEF LosesNothing, Trimmed, Unanswered, storeVars, auditVars
    <3> QED
      BY <1>0, <2>1, <3>1, TellsFrame
  <2> QED
    BY <2>1, <2>2, <2>3, <2>4, <2>5 DEF Loses
<1>7. ASSUME NEW a \in Admins, Leave(a) PROVE Tells'
  <2>1. /\ Goto(a, "idle") /\ dynamic' = dynamic /\ pushed' = pushed
        /\ contested' = contested /\ \A b \in Admins \ {a} : event'[b] = event[b]
    BY <1>7 DEF Leave, storeVars, auditVars, TypeOK
  <2>2. pc[a] # "push"
    BY <1>7 DEF Leave
  <2> QED
    BY <1>0, <2>1, <2>2, TellsFrame
<1>8. CASE UNCHANGED vars
  BY <1>8 DEF Tells, Told, Recording, vars, storeVars, auditVars
<1> QED
  BY <1>1, <1>2, <1>3, <1>4, <1>5, <1>6, <1>7, <1>8 DEF Next, Upsert, Delete

LEMMA TellsInit == Init => Tells
<1> SUFFICES ASSUME Init PROVE Tells
  OBVIOUS
<1>1. Len(pushed) = 0 /\ \A a \in Admins : pc[a] = "idle"
  BY DEF Init, Tasks
<1> QED
  BY <1>1 DEF Tells, Told, Recording

\* The newest event of a field tells what is configured unless its last write
\* met another's on its way to the log or lost its event; one clean write to
\* the field makes up for both.
THEOREM LogTellsTheState == Spec => []LogTellsState
<1>1. Init => TypeOK /\ Window /\ Tells
  BY TypeInit, WindowInit, TellsInit
<1>2. TypeOK /\ Window /\ Tells /\ [Next]_vars => TypeOK' /\ Window' /\ Tells'
  BY TypeStep, WindowStep, TellsStep
<1> QED
  BY <1>1, <1>2, TellsShown, PTL DEF Spec

-----------------------------------------------------------------------------
(* The reads of a request, module GovernanceReads. *)

\* The request steps are typed, and the latest configuration is in force.
ReadsTyped ==
  /\ use \in [Requests -> Uses] /\ at \in [Requests -> 1 .. 5]
  /\ view \in [Requests -> [Uses -> Config]]
  /\ floor \in [Requests -> Nat]
  /\ \A r \in Requests : floor[r] \in 1 .. Len(configs)
  /\ configs[Len(configs)] = dynamic

\* What is read one after the other, from the policies that judge on.
Chain == <<"policies", "aliases", "pools", "pricing", "settings">>

Link(r, k, i) == Shows(r, IF k = 1 THEN "judge" ELSE "route", Chain[k], i)

\* As far as the request has read, every part is of a moment of its own, none
\* before the one that was read earlier.
Chained(r) ==
  \E m \in [1 .. 5 -> Nat] :
    \A k \in 1 .. at[r] :
      /\ m[k] \in Since(floor[r]) /\ Link(r, k, m[k])
      /\ k > 1 => m[k - 1] <= m[k]

PriceSeen(r) == \E i \in Since(floor[r]) : Shows(r, "price", "pricing", i)

ReadSoFar(r) ==
  /\ pc[r] = "called" /\ use[r] = "route" => at[r] = 5
  /\ pc[r] = "charged" => use[r] = "price" /\ at[r] = 5
  /\ use[r] = "route" => Chained(r)
  /\ use[r] = "price" /\ at[r] > 3 => PriceSeen(r)

ReadsInv == TypeOK /\ ReadsTyped /\ \A r \in Requests : ReadSoFar(r)

LEMMA SectionsRead ==
  /\ Len(Sections) = 5
  /\ \A k \in 1 .. 4 : Sections[k] = Chain[k + 1]
  /\ Sections[5] = Chain[1]
  /\ \A i, k \in 1 .. 5 : i # k => Chain[i] # Chain[k]
  /\ Chain[4] = "pricing"
<1>1. Len(Sections) = 5
  BY DEF Sections
<1>2. /\ Sections[1] = "aliases" /\ Sections[2] = "pools" /\ Sections[3] = "pricing"
      /\ Sections[4] = "settings" /\ Sections[5] = "policies"
  BY DEF Sections
<1>3. /\ Chain[1] = "policies" /\ Chain[2] = "aliases" /\ Chain[3] = "pools"
      /\ Chain[4] = "pricing" /\ Chain[5] = "settings"
  BY DEF Chain
<1>4. \A k \in 1 .. 4 : k = 1 \/ k = 2 \/ k = 3 \/ k = 4
  OBVIOUS
<1>5. \A k \in 1 .. 5 : k = 1 \/ k = 2 \/ k = 3 \/ k = 4 \/ k = 5
  OBVIOUS
<1>6. \A k \in 1 .. 4 : Sections[k] = Chain[k + 1]
  BY <1>2, <1>3, <1>4
<1>7. \A i, k \in 1 .. 5 : i # k => Chain[i] # Chain[k]
  BY <1>3, <1>5
<1> QED
  BY <1>1, <1>2, <1>3, <1>6, <1>7

-----------------------------------------------------------------------------
(* A read shows the configuration in force, and disturbs nothing else. *)

LEMMA EffectiveType ==
  ASSUME NEW c \in Config PROVE Effective(c) \in Config
  BY ReadsAssumption DEF Effective, Config

LEMMA ReadShows ==
  ASSUME TypeOK, ReadsTyped, NEW r \in Requests, Read(r), configs' = configs
  PROVE  /\ view' \in [Requests -> [Uses -> Config]]
         /\ \A u \in Uses, i \in Nat, k \in 1 .. 5 :
              (u = use[r] /\ Sections[at[r]] = Chain[k] /\ i = Len(configs))
                => Shows(r, u, Chain[k], i)'
         /\ \A u \in Uses, i \in Nat, k \in 1 .. 5 :
              (u # use[r] \/ Sections[at[r]] # Chain[k]) /\ Shows(r, u, Chain[k], i)
                => Shows(r, u, Chain[k], i)'
         /\ \A q \in Requests \ {r} : view'[q] = view[q]
<1> DEFINE new == [f \in Fields |-> IF SectionOf[f] = Sections[at[r]]
                                    THEN Effective(dynamic)[f] ELSE view[r][use[r]][f]]
<1>1. dynamic \in Config /\ Effective(dynamic) \in Config
  BY ConfigsType, EffectiveType
<1>2. use[r] \in Uses /\ view[r] \in [Uses -> Config] /\ view[r][use[r]] \in Config
  BY DEF ReadsTyped
<1>3. new \in Config
  BY <1>1, <1>2 DEF Config
<1>4. view' = [view EXCEPT ![r] = [view[r] EXCEPT ![use[r]] = new]]
  BY DEF Read, ReadsTyped
<1> HIDE DEF new
<1>5. view \in [Requests -> [Uses -> Config]]
  BY DEF ReadsTyped
<1>6. view'[r] = [view[r] EXCEPT ![use[r]] = new]
  BY <1>4, <1>5
<1>7. view'[r][use[r]] = new /\ \A u \in Uses \ {use[r]} : view'[r][u] = view[r][u]
  BY <1>2, <1>6
<1>8. view' \in [Requests -> [Uses -> Config]]
  BY <1>2, <1>3, <1>4, <1>5
<1>9. \A q \in Requests \ {r} : view'[q] = view[q]
  BY <1>4, <1>5
<1>10. ASSUME NEW u \in Uses, NEW i \in Nat, NEW k \in 1 .. 5,
              u = use[r], Sections[at[r]] = Chain[k], i = Len(configs)
       PROVE  Shows(r, u, Chain[k], i)'
  <2>1. SUFFICES ASSUME NEW f \in Fields, SectionOf[f] = Chain[k]
                 PROVE  view'[r][u][f] = Effective(configs'[i])[f]
    BY DEF Shows
  <2>2. configs'[i] = dynamic
    BY <1>10 DEF ReadsTyped
  <2>3. new[f] = Effective(dynamic)[f]
    BY <1>10, <2>1 DEF new
  <2> QED
    BY <1>7, <1>10, <2>2, <2>3
<1>11. ASSUME NEW u \in Uses, NEW i \in Nat, NEW k \in 1 .. 5,
              u # use[r] \/ Sections[at[r]] # Chain[k], Shows(r, u, Chain[k], i)
       PROVE  Shows(r, u, Chain[k], i)'
  <2>1. SUFFICES ASSUME NEW f \in Fields, SectionOf[f] = Chain[k]
                 PROVE  view'[r][u][f] = view[r][u][f]
    BY <1>11, <2>1 DEF Shows
  <2>2. CASE u # use[r]
    BY <1>7, <2>2
  <2>3. CASE u = use[r]
    <3>1. new[f] = view[r][use[r]][f]
      BY <1>11, <2>1, <2>3 DEF new
    <3> QED
      BY <1>7, <2>3, <3>1
  <2> QED
    BY <2>2, <2>3
<1> QED
  BY <1>8, <1>9, <1>10, <1>11

-----------------------------------------------------------------------------
(* The steps of the operations. *)

Grows ==
  /\ configs' \in Seq(Config) /\ Len(configs) <= Len(configs')
  /\ \A i \in 1 .. Len(configs) : configs'[i] = configs[i]
  /\ configs'[Len(configs')] = dynamic'

LEMMA AdminMoves ==
  ASSUME TypeOK, ReadsTyped, [Next]_vars
  PROVE  Grows /\ \A r \in Requests : pc'[r] = pc[r]
<1>1. /\ configs \in Seq(Config) /\ Len(configs) \in Nat
      /\ configs[Len(configs)] = dynamic
  BY ConfigsType DEF ReadsTyped
<1>2. ASSUME configs' = configs, dynamic' = dynamic PROVE Grows
  BY <1>1, <1>2 DEF Grows
<1>3. ASSUME NEW a \in Admins, Written(a) PROVE Grows
  <2>1. /\ configs' \in Seq(Config) /\ Len(configs') = Len(configs) + 1
        /\ configs'[Len(configs')] = dynamic'
        /\ \A i \in 1 .. Len(configs) : configs'[i] = configs[i]
    BY <1>3, WrittenType
  <2> QED
    BY <1>1, <2>1 DEF Grows
<1>4. ASSUME NEW a \in Admins, NEW label, Goto(a, label)
      PROVE  \A r \in Requests : pc'[r] = pc[r]
  <2>1. SUFFICES ASSUME NEW r \in Requests PROVE pc'[r] = pc[r]
    OBVIOUS
  <2>2. a # r /\ r \in Tasks
    BY GovernanceAssumption DEF Tasks
  <2>3. pc \in [Tasks -> Labels] /\ pc' = [pc EXCEPT ![a] = label]
    BY <1>4 DEF Goto, GotoIf, TypeOK
  <2> QED
    BY <2>2, <2>3
<1>5. ASSUME NEW a \in Admins, NEW f, NEW v, Start(a, f, v)
      PROVE  Grows /\ \A r \in Requests : pc'[r] = pc[r]
  BY <1>2, <1>4, <1>5 DEF Start, storeVars
<1>6. ASSUME NEW a \in Admins, Reject(a) PROVE Grows /\ \A r \in Requests : pc'[r] = pc[r]
  BY <1>2, <1>4, <1>6 DEF Reject, storeVars
<1>7. ASSUME NEW a \in Admins, Write(a) PROVE Grows /\ \A r \in Requests : pc'[r] = pc[r]
  BY <1>3, <1>4, <1>7 DEF Write
<1>8. ASSUME NEW a \in Admins, Push(a) PROVE Grows /\ \A r \in Requests : pc'[r] = pc[r]
  BY <1>2, <1>4, <1>8 DEF Push, Pushed, storeVars
<1>9. ASSUME NEW a \in Admins, Trim(a) PROVE Grows /\ \A r \in Requests : pc'[r] = pc[r]
  BY <1>2, <1>4, <1>9 DEF Trim, Trimmed, storeVars
<1>10. ASSUME NEW a \in Admins, Fault(a) PROVE Grows /\ \A r \in Requests : pc'[r] = pc[r]
  <2>1. \A r \in Requests : pc'[r] = pc[r]
    BY <1>4, <1>10 DEF Fault
  <2>2. CASE Written(a)
    BY <1>3, <2>1, <2>2
  <2>3. CASE ~Written(a)
    BY <1>2, <1>10, <2>1, <2>3 DEF Fault, Unanswered, Pushed, Trimmed, storeVars
  <2> QED
    BY <2>2, <2>3
<1>11. ASSUME NEW a \in Admins, Leave(a) PROVE Grows /\ \A r \in Requests : pc'[r] = pc[r]
  BY <1>2, <1>4, <1>11 DEF Leave, storeVars
<1>12. CASE UNCHANGED vars
  BY <1>2, <1>12 DEF vars, storeVars
<1> QED
  BY <1>5, <1>6, <1>7, <1>8, <1>9, <1>10, <1>11, <1>12 DEF Next, Upsert, Delete

\* What a request has read keeps its moments while others go on.
LEMMA OthersGoOn ==
  ASSUME TypeOK, ReadsTyped, NEW r \in Requests, ReadSoFar(r), Grows,
         pc'[r] = pc[r], use'[r] = use[r], at'[r] = at[r], view'[r] = view[r],
         floor'[r] = floor[r]
  PROVE  ReadSoFar(r)'
<1>1. Len(configs) \in Nat /\ Len(configs') \in Nat /\ floor[r] \in 1 .. Len(configs)
  BY ConfigsType, LenProperties DEF Grows, ReadsTyped
<1>2. ASSUME NEW u \in Uses, NEW s, NEW i \in Since(floor[r]), Shows(r, u, s, i)
      PROVE  Shows(r, u, s, i)'
  <2>1. i \in 1 .. Len(configs)
    BY <1>1 DEF Since
  <2>2. configs'[i] = configs[i]
    BY <2>1 DEF Grows
  <2> QED
    BY <1>2, <2>2 DEF Shows, Effective
<1>3. ASSUME NEW i \in Since(floor[r]) PROVE i \in Since(floor[r])'
  BY <1>1, <1>3 DEF Since, Grows
<1>4. Chained(r) => Chained(r)'
  <2>1. SUFFICES ASSUME NEW m \in [1 .. 5 -> Nat],
                        \A k \in 1 .. at[r] :
                          /\ m[k] \in Since(floor[r]) /\ Link(r, k, m[k])
                          /\ k > 1 => m[k - 1] <= m[k]
                 PROVE  Chained(r)'
    BY DEF Chained
  <2>2. ASSUME NEW k \in 1 .. at[r]
        PROVE  m[k] \in Since(floor[r])' /\ Link(r, k, m[k])'
    <3>1. m[k] \in Since(floor[r]) /\ Link(r, k, m[k])
      BY <2>1, <2>2
    <3>2. Shows(r, IF k = 1 THEN "judge" ELSE "route", Chain[k], m[k])
      BY <3>1 DEF Link
    <3>3. (IF k = 1 THEN "judge" ELSE "route") \in Uses
      BY DEF Uses
    <3>4. Shows(r, IF k = 1 THEN "judge" ELSE "route", Chain[k], m[k])'
      BY <1>2, <3>1, <3>2, <3>3
    <3> QED
      BY <1>3, <3>1, <3>4 DEF Link
  <2> QED
    BY <2>1, <2>2 DEF Chained
<1>5. PriceSeen(r) => PriceSeen(r)'
  <2>1. "price" \in Uses
    BY DEF Uses
  <2> QED
    BY <1>2, <1>3, <2>1 DEF PriceSeen
<1> QED
  BY <1>4, <1>5 DEF ReadSoFar

LEMMA AdminKeeps ==
  ASSUME ReadsInv, [Next]_vars, UNCHANGED readVars
  PROVE  ReadsInv'
<1>1. TypeOK' /\ Grows /\ \A r \in Requests : pc'[r] = pc[r]
  BY TypeStep, AdminMoves DEF ReadsInv
<1>2. Len(configs) \in Nat /\ Len(configs') \in Nat
  BY <1>1, ConfigsType, LenProperties DEF Grows, ReadsInv
<1>3. ReadsTyped'
  BY <1>1, <1>2 DEF ReadsInv, ReadsTyped, readVars, Grows
<1>4. ASSUME NEW r \in Requests PROVE ReadSoFar(r)'
  BY <1>1, OthersGoOn DEF ReadsInv, readVars
<1> QED
  BY <1>1, <1>3, <1>4 DEF ReadsInv

-----------------------------------------------------------------------------
(* The steps of the requests. *)

LEMMA ProceedMoves ==
  ASSUME TypeOK, ReadsTyped, NEW r \in Requests, NEW label \in Labels \ Waiting,
         Proceed(r, label)
  PROVE  /\ TypeOK' /\ Grows /\ configs' = configs /\ dynamic' = dynamic
         /\ pc'[r] = label /\ \A q \in Requests \ {r} : pc'[q] = pc[q]
<1>1. /\ r \in Tasks /\ \A a \in Admins : a \in Tasks /\ a # r
      /\ \A q \in Requests \ {r} : q \in Tasks \ {r}
  BY GovernanceAssumption DEF Tasks
<1>2. /\ GotoIf(r, label, label = "read")
      /\ UNCHANGED <<storeVars, auditVars, event, returned, lost, contested>>
  BY DEF Proceed
<1>3. /\ suspending' \in BOOLEAN /\ loop' \in Tasks \cup {None} /\ pc' \in [Tasks -> Labels]
      /\ pc'[r] = label /\ \A u \in Tasks \ {r} : pc'[u] = pc[u]
  BY <1>1, <1>2, GotoType
<1>4. TypeOK'
  BY <1>1, <1>2, <1>3 DEF TypeOK, storeVars, auditVars
<1>5. Grows
  BY <1>2, ConfigsType DEF Grows, storeVars, ReadsTyped
<1> QED
  BY <1>1, <1>2, <1>3, <1>4, <1>5 DEF storeVars

\* It remains to see what the request itself has read.
LEMMA RequestKeeps ==
  ASSUME ReadsInv, NEW r \in Requests, NEW label \in Labels \ Waiting,
         Proceed(r, label),
         use' \in [Requests -> Uses], at' \in [Requests -> 1 .. 5],
         view' \in [Requests -> [Uses -> Config]], floor' \in [Requests -> Nat],
         floor'[r] \in 1 .. Len(configs),
         \A q \in Requests \ {r} : /\ use'[q] = use[q] /\ at'[q] = at[q]
                                   /\ view'[q] = view[q] /\ floor'[q] = floor[q],
         ReadSoFar(r)'
  PROVE  ReadsInv'
<1>1. /\ TypeOK' /\ Grows /\ configs' = configs /\ dynamic' = dynamic
      /\ \A q \in Requests \ {r} : pc'[q] = pc[q]
  BY ProceedMoves DEF ReadsInv
<1>2. ReadsTyped'
  BY <1>1 DEF ReadsTyped, ReadsInv
<1>3. ASSUME NEW q \in Requests PROVE ReadSoFar(q)'
  <2>1. CASE q = r
    BY <2>1
  <2>2. CASE q # r
    BY <1>1, <2>2, OthersGoOn DEF ReadsInv
  <2> QED
    BY <2>1, <2>2
<1> QED
  BY <1>1, <1>2, <1>3 DEF ReadsInv

LEMMA BeginKeeps ==
  ASSUME ReadsInv, NEW r \in Requests, NEW u \in {"judge", "price"},
         BeginSnapshot(r, u), Proceed(r, "read"), view' = view
  PROVE  ReadsInv'
<1>1. TypeOK /\ ReadsTyped
  BY DEF ReadsInv
<1>2. returned \in 1 .. Len(configs) /\ returned \in Nat
  BY <1>1, ConfigsType DEF TypeOK
<1>3. /\ use' = [use EXCEPT ![r] = u] /\ at' = [at EXCEPT ![r] = 1]
      /\ floor' = [floor EXCEPT ![r] = returned]
  BY DEF BeginSnapshot
<1>4. /\ use' \in [Requests -> Uses] /\ at' \in [Requests -> 1 .. 5]
      /\ floor' \in [Requests -> Nat] /\ floor'[r] \in 1 .. Len(configs)
      /\ use'[r] = u /\ at'[r] = 1
      /\ \A q \in Requests \ {r} : use'[q] = use[q] /\ at'[q] = at[q] /\ floor'[q] = floor[q]
  BY <1>1, <1>2, <1>3 DEF ReadsTyped, Uses
<1>5. "read" \in Labels \ Waiting
  BY DEF Labels, Waiting
<1>6. pc'[r] = "read"
  BY <1>1, <1>5, ProceedMoves
<1>7. ReadSoFar(r)'
  BY <1>4, <1>6 DEF ReadSoFar
<1> QED
  BY <1>1, <1>4, <1>5, <1>7, RequestKeeps DEF ReadsTyped

\* One more section is shown as it is now, and every earlier one as before.
LEMMA ChainGrows ==
  ASSUME TypeOK, ReadsTyped, NEW r \in Requests, Read(r), configs' = configs,
         use[r] = "route", at[r] < 5, Chained(r),
         at'[r] = at[r] + 1, floor'[r] = floor[r]
  PROVE  Chained(r)'
<1>0. at[r] \in 1 .. 4 /\ Len(configs) \in Nat /\ floor[r] \in 1 .. Len(configs)
  BY ConfigsType DEF ReadsTyped
<1>1. PICK n, now : n \in 1 .. 4 /\ now \in Nat /\ n = at[r] /\ now = Len(configs)
  BY <1>0
<1>2. Sections[n] = Chain[n + 1] /\ n + 1 \in 1 .. 5
  BY <1>0, <1>1, SectionsRead
<1>3. PICK m : /\ m \in [1 .. 5 -> Nat]
               /\ \A k \in 1 .. n : /\ m[k] \in Since(floor[r]) /\ Link(r, k, m[k])
                                    /\ k > 1 => m[k - 1] <= m[k]
  BY <1>1 DEF Chained
<1>4. PICK w : /\ w \in [1 .. 5 -> Nat] /\ w[n + 1] = now
               /\ \A k \in 1 .. n : w[k] = m[k]
  <2> DEFINE v == [m EXCEPT ![n + 1] = now]
  <2>1. m \in [1 .. 5 -> Nat] /\ now \in Nat /\ n + 1 \in 1 .. 5
    BY <1>1, <1>2, <1>3
  <2>2. \A k \in 1 .. n : k \in 1 .. 5 /\ k # n + 1
    BY <1>1
  <2>3. v \in [1 .. 5 -> Nat] /\ v[n + 1] = now
    BY <2>1
  <2>4. \A k \in 1 .. n : v[k] = m[k]
    BY <2>1, <2>2
  <2> HIDE DEF v
  <2> QED
    BY <2>3, <2>4
<1>5. ASSUME NEW k \in 1 .. n
      PROVE  /\ w[k] \in Since(floor[r])' /\ Link(r, k, w[k])'
             /\ k > 1 => w[k - 1] <= w[k]
  <2>0. k \in 1 .. 5
    BY <1>1
  <2>1. /\ m[k] \in Since(floor[r]) /\ Link(r, k, m[k]) /\ w[k] = m[k]
        /\ m[k] \in Nat /\ k \in 1 .. 5
    BY <1>3, <1>4, <2>0
  <2>2. w[k] \in Since(floor[r])'
    BY <1>0, <1>1, <2>1 DEF Since
  <2>3. Chain[k] # Chain[n + 1]
    BY <1>1, <1>2, <2>1, SectionsRead
  <2>4. (IF k = 1 THEN "judge" ELSE "route") \in Uses
    BY DEF Uses
  <2>5. Shows(r, IF k = 1 THEN "judge" ELSE "route", Chain[k], m[k])'
    BY <1>1, <1>2, <2>1, <2>3, <2>4, ReadShows DEF Link
  <2>6. Link(r, k, w[k])'
    BY <2>1, <2>5 DEF Link
  <2>7. ASSUME k > 1 PROVE w[k - 1] <= w[k]
    <3>1. k - 1 \in 1 .. n
      BY <1>1, <2>7
    <3>2. m[k - 1] <= m[k]
      BY <1>3, <2>7
    <3> QED
      BY <1>4, <3>1, <3>2
  <2> QED
    BY <2>2, <2>6, <2>7
<1>6. /\ w[n + 1] \in Since(floor[r])' /\ Link(r, n + 1, w[n + 1])'
      /\ w[n] <= w[n + 1]
  <2>1. w[n + 1] \in Since(floor[r])'
    BY <1>0, <1>1, <1>4 DEF Since
  <2>2. "route" \in Uses /\ n + 1 # 1
    BY <1>1 DEF Uses
  <2>3. Shows(r, "route", Chain[n + 1], now)'
    BY <1>1, <1>2, <2>2, ReadShows
  <2>4. Link(r, n + 1, w[n + 1])'
    BY <1>4, <2>2, <2>3 DEF Link
  <2>5. m[n] \in Since(floor[r]) /\ w[n] = m[n]
    <3>1. n \in 1 .. n
      BY <1>1
    <3> QED
      BY <1>3, <1>4, <3>1
  <2>6. w[n] <= now
    BY <1>0, <1>1, <2>5 DEF Since
  <2> QED
    BY <1>4, <2>1, <2>4, <2>6
<1>7. \A k \in 1 .. n + 1 : k \in 1 .. n \/ k = n + 1
  BY <1>1
<1>8. \A k \in 1 .. n + 1 :
        /\ w[k] \in Since(floor[r])' /\ Link(r, k, w[k])'
        /\ k > 1 => w[k - 1] <= w[k]
  <2>1. (n + 1) - 1 = n
    BY <1>1
  <2> QED
    BY <1>5, <1>6, <1>7, <2>1
<1>9. at'[r] = n + 1
  BY <1>1
<1> QED
  BY <1>4, <1>8, <1>9 DEF Chained

\* The routing snapshot ends with policies, which nothing in it stands for.
LEMMA ChainCompletes ==
  ASSUME TypeOK, ReadsTyped, NEW r \in Requests, Read(r), configs' = configs,
         use[r] = "route", at[r] = 5, Chained(r),
         at'[r] = at[r], floor'[r] = floor[r]
  PROVE  Chained(r)'
<1>1. PICK m : /\ m \in [1 .. 5 -> Nat]
               /\ \A k \in 1 .. 5 : /\ m[k] \in Since(floor[r]) /\ Link(r, k, m[k])
                                    /\ k > 1 => m[k - 1] <= m[k]
  BY DEF Chained
<1>2. Sections[5] = Chain[1] /\ \A k \in 1 .. 5 : k # 1 => Chain[k] # Chain[1]
  BY SectionsRead
<1>3. ASSUME NEW k \in 1 .. 5
      PROVE  m[k] \in Since(floor[r])' /\ Link(r, k, m[k])'
  <2>1. m[k] \in Since(floor[r]) /\ Link(r, k, m[k]) /\ m[k] \in Nat
    BY <1>1
  <2>2. (IF k = 1 THEN "judge" ELSE "route") \in Uses
    BY DEF Uses
  <2>3. (IF k = 1 THEN "judge" ELSE "route") # use[r] \/ Sections[at[r]] # Chain[k]
    BY <1>2
  <2>4. Shows(r, IF k = 1 THEN "judge" ELSE "route", Chain[k], m[k])'
    BY <2>1, <2>2, <2>3, ReadShows DEF Link
  <2>5. m[k] \in Since(floor[r])'
    BY <2>1 DEF Since
  <2> QED
    BY <2>4, <2>5 DEF Link
<1> QED
  BY <1>1, <1>3 DEF Chained

LEMMA JudgedChains ==
  ASSUME TypeOK, ReadsTyped, NEW r \in Requests, Read(r), configs' = configs,
         use[r] = "judge", at[r] = 5, at'[r] = 1, floor'[r] = floor[r]
  PROVE  Chained(r)'
<1>1. PICK now : now = Len(configs) /\ now \in Nat
  BY ConfigsType
<1>2. floor[r] \in 1 .. now /\ Sections[5] = Chain[1] /\ "judge" \in Uses
  BY <1>1, SectionsRead DEF ReadsTyped, Uses
<1>3. Shows(r, "judge", Chain[1], now)'
  BY <1>1, <1>2, ReadShows
<1>4. PICK m : m \in [1 .. 5 -> Nat] /\ m[1] = now
  <2> DEFINE v == [k \in 1 .. 5 |-> now]
  <2>1. v \in [1 .. 5 -> Nat] /\ v[1] = now
    BY <1>1
  <2> QED
    BY <2>1
<1>5. m[1] \in Since(floor[r])' /\ Link(r, 1, m[1])'
  BY <1>1, <1>2, <1>3, <1>4 DEF Since, Link
<1>6. ASSUME NEW k \in 1 .. at'[r] PROVE k = 1
  OBVIOUS
<1> QED
  BY <1>4, <1>5, <1>6 DEF Chained

LEMMA PriceRead ==
  ASSUME TypeOK, ReadsTyped, NEW r \in Requests, Read(r), configs' = configs,
         use[r] = "price", at[r] \in 3 .. 5, at[r] > 3 => PriceSeen(r),
         floor'[r] = floor[r]
  PROVE  PriceSeen(r)'
<1>1. PICK now : now = Len(configs) /\ now \in Nat
  BY ConfigsType
<1>2. floor[r] \in 1 .. now /\ "price" \in Uses /\ Chain[4] = "pricing"
  BY <1>1, SectionsRead DEF ReadsTyped, Uses
<1>3. CASE at[r] = 3
  <2>1. Sections[3] = Chain[4]
    BY SectionsRead
  <2>2. Shows(r, "price", "pricing", now)'
    BY <1>1, <1>2, <1>3, <2>1, ReadShows
  <2>3. now \in Since(floor[r])'
    BY <1>1, <1>2 DEF Since
  <2> QED
    BY <2>2, <2>3 DEF PriceSeen
<1>4. CASE at[r] \in 4 .. 5
  <2>1. PICK i : i \in Since(floor[r]) /\ Shows(r, "price", "pricing", i)
    BY <1>4 DEF PriceSeen
  <2>2. i \in Nat /\ i \in Since(floor[r])'
    BY <1>1, <1>2, <2>1 DEF Since
  <2>3. Sections[at[r]] # Chain[4]
    BY <1>4, SectionsRead
  <2>4. Shows(r, "price", "pricing", i)'
    BY <1>2, <2>1, <2>2, <2>3, ReadShows
  <2> QED
    BY <2>2, <2>4 DEF PriceSeen
<1> QED
  BY <1>3, <1>4

LEMMA RequestStep ==
  ASSUME ReadsInv, NEW r \in Requests, Reading(r)
  PROVE  ReadsInv'
<1>0. /\ TypeOK /\ ReadsTyped /\ ReadSoFar(r)
      /\ use \in [Requests -> Uses] /\ at \in [Requests -> 1 .. 5]
      /\ view \in [Requests -> [Uses -> Config]] /\ floor \in [Requests -> Nat]
      /\ floor[r] \in 1 .. Len(configs)
  BY DEF ReadsInv, ReadsTyped
<1>1. {"read", "called", "charged", "idle"} \subseteq Labels \ Waiting
  BY DEF Labels, Waiting
<1>2. ASSUME NEW label \in {"read", "called", "charged", "idle"}, Proceed(r, label)
      PROVE  pc'[r] = label /\ configs' = configs
  BY <1>0, <1>1, <1>2, ProceedMoves
<1>3. ASSUME Read(r)
      PROVE  configs' = configs => /\ view' \in [Requests -> [Uses -> Config]]
                                   /\ \A q \in Requests \ {r} : view'[q] = view[q]
  BY <1>0, <1>3, ReadShows
<1>4. Len(Sections) = 5
  BY SectionsRead
<1>5. CASE Arrive(r) \/ Answered(r)
  BY <1>5, BeginKeeps DEF Arrive, Answered
<1>6. CASE ReadOn(r)
  <2>1. /\ Read(r) /\ Proceed(r, "read") /\ use' = use /\ floor' = floor
        /\ at' = [at EXCEPT ![r] = @ + 1] /\ at[r] < 5
    BY <1>4, <1>6 DEF ReadOn
  <2>2. pc'[r] = "read" /\ configs' = configs
    BY <1>2, <2>1
  <2>3. /\ at' \in [Requests -> 1 .. 5] /\ at'[r] = at[r] + 1
        /\ \A q \in Requests \ {r} : at'[q] = at[q]
    <3>1. at[r] \in 1 .. 5
      BY <1>0
    <3>2. at[r] + 1 \in 1 .. 5
      BY <2>1, <3>1
    <3> QED
      BY <1>0, <2>1, <3>2
  <2>4. use[r] = "route" => Chained(r)'
    BY <1>0, <2>1, <2>2, <2>3, ChainGrows DEF ReadSoFar
  <2>5. ASSUME use[r] = "price", at'[r] > 3 PROVE PriceSeen(r)'
    <3>1. at[r] \in 3 .. 5
      BY <1>0, <2>3, <2>5
    <3>2. at[r] > 3 => PriceSeen(r)
      BY <1>0, <2>5 DEF ReadSoFar
    <3> QED
      BY <1>0, <2>1, <2>2, <2>5, <3>1, <3>2, PriceRead
  <2>6. ReadSoFar(r)'
    BY <2>1, <2>2, <2>4, <2>5 DEF ReadSoFar
  <2> QED
    BY <1>0, <1>1, <1>3, <2>1, <2>2, <2>3, <2>6, RequestKeeps
<1>7. CASE Judged(r)
  <2>1. /\ Read(r) /\ Proceed(r, "read") /\ floor' = floor
        /\ use' = [use EXCEPT ![r] = "route"] /\ at' = [at EXCEPT ![r] = 1]
        /\ use[r] = "judge" /\ at[r] = 5
    BY <1>4, <1>7 DEF Judged
  <2>2. pc'[r] = "read" /\ configs' = configs
    BY <1>2, <2>1
  <2>3. /\ at' \in [Requests -> 1 .. 5] /\ at'[r] = 1
        /\ use' \in [Requests -> Uses] /\ use'[r] = "route"
        /\ \A q \in Requests \ {r} : at'[q] = at[q] /\ use'[q] = use[q]
    BY <1>0, <2>1 DEF Uses
  <2>4. Chained(r)'
    BY <1>0, <2>1, <2>2, <2>3, JudgedChains
  <2>5. ReadSoFar(r)'
    BY <2>2, <2>3, <2>4 DEF ReadSoFar
  <2> QED
    BY <1>0, <1>1, <1>3, <2>1, <2>2, <2>3, <2>5, RequestKeeps
<1>8. CASE Routed(r)
  <2>1. /\ Read(r) /\ Proceed(r, "called") /\ UNCHANGED <<use, at, floor>>
        /\ use[r] = "route" /\ at[r] = 5
    BY <1>4, <1>8 DEF Routed
  <2>2. pc'[r] = "called" /\ configs' = configs
    BY <1>2, <2>1
  <2>3. Chained(r)'
    BY <1>0, <2>1, <2>2, ChainCompletes DEF ReadSoFar
  <2>4. ReadSoFar(r)'
    BY <2>1, <2>2, <2>3 DEF ReadSoFar
  <2> QED
    BY <1>0, <1>1, <1>3, <2>1, <2>2, <2>4, RequestKeeps
<1>9. CASE Priced(r)
  <2>1. /\ Read(r) /\ Proceed(r, "charged") /\ UNCHANGED <<use, at, floor>>
        /\ use[r] = "price" /\ at[r] = 5
    BY <1>4, <1>9 DEF Priced
  <2>2. pc'[r] = "charged" /\ configs' = configs
    BY <1>2, <2>1
  <2>3. PriceSeen(r)'
    BY <1>0, <2>1, <2>2, PriceRead DEF ReadSoFar
  <2>4. ReadSoFar(r)'
    BY <2>1, <2>2, <2>3 DEF ReadSoFar
  <2> QED
    BY <1>0, <1>1, <1>3, <2>1, <2>2, <2>4, RequestKeeps
<1>10. CASE NextChunk(r)
  <2>1. Proceed(r, "called") /\ UNCHANGED readVars /\ pc[r] = "charged"
    BY <1>10 DEF NextChunk
  <2>2. pc'[r] = "called" /\ configs' = configs
    BY <1>2, <2>1
  <2>3. use[r] = "price" /\ at[r] = 5 /\ PriceSeen(r)
    BY <1>0, <2>1 DEF ReadSoFar
  <2>4. PriceSeen(r)'
    BY <2>1, <2>2, <2>3 DEF PriceSeen, Shows, Since, readVars
  <2>5. ReadSoFar(r)'
    BY <2>1, <2>2, <2>3, <2>4 DEF ReadSoFar, readVars
  <2> QED
    BY <1>0, <1>1, <2>1, <2>5, RequestKeeps DEF readVars
<1>11. CASE End(r)
  <2>1. /\ Proceed(r, "idle") /\ use' = [use EXCEPT ![r] = "judge"]
        /\ at' = [at EXCEPT ![r] = 1] /\ view' = [view EXCEPT ![r] = NoView]
        /\ floor' = [floor EXCEPT ![r] = 1]
    BY <1>11 DEF End
  <2>2. pc'[r] = "idle"
    BY <1>2, <2>1
  <2>3. NoView \in [Uses -> Config]
    BY DEF NoView, Config
  <2>4. /\ at' \in [Requests -> 1 .. 5] /\ use' \in [Requests -> Uses]
        /\ view' \in [Requests -> [Uses -> Config]] /\ floor' \in [Requests -> Nat]
        /\ use'[r] = "judge" /\ floor'[r] = 1
        /\ \A q \in Requests \ {r} : /\ at'[q] = at[q] /\ use'[q] = use[q]
                                     /\ view'[q] = view[q] /\ floor'[q] = floor[q]
    BY <1>0, <2>1, <2>3 DEF Uses
  <2>5. floor'[r] \in 1 .. Len(configs)
    BY <1>0, <2>4, ConfigsType
  <2>6. ReadSoFar(r)'
    BY <2>2, <2>4 DEF ReadSoFar
  <2> QED
    BY <1>1, <2>1, <2>4, <2>5, <2>6, RequestKeeps
<1> QED
  BY <1>5, <1>6, <1>7, <1>8, <1>9, <1>10, <1>11 DEF Reading

-----------------------------------------------------------------------------
LEMMA ReadsStart == ReadsInit => ReadsInv
<1> SUFFICES ASSUME ReadsInit PROVE ReadsInv
  OBVIOUS
<1>1. TypeOK
  BY TypeInit DEF ReadsInit
<1>2. /\ Len(configs) \in Nat /\ 1 <= Len(configs) /\ configs[Len(configs)] = dynamic
  BY <1>1, ConfigsType DEF ReadsInit, Init
<1>3. NoView \in [Uses -> Config]
  BY DEF NoView, Config
<1>4. ReadsTyped
  BY <1>2, <1>3 DEF ReadsInit, ReadsTyped, Uses
<1>5. ASSUME NEW r \in Requests PROVE ReadSoFar(r)
  BY DEF ReadsInit, Init, ReadSoFar, Tasks
<1> QED
  BY <1>1, <1>4, <1>5 DEF ReadsInv

LEMMA ReadsStep == ReadsInv /\ [ReadsNext]_allVars => ReadsInv'
<1> SUFFICES ASSUME ReadsInv, [ReadsNext]_allVars PROVE ReadsInv'
  OBVIOUS
<1>1. CASE Next /\ UNCHANGED readVars
  BY <1>1, AdminKeeps
<1>2. CASE \E r \in Requests : Reading(r)
  BY <1>2, RequestStep
<1>3. CASE UNCHANGED allVars
  BY <1>3, AdminKeeps DEF allVars
<1> QED
  BY <1>1, <1>2, <1>3 DEF ReadsNext

LEMMA ReadsShown == ReadsInv => SnapshotInOrder /\ PriceOfAnswer
<1> SUFFICES ASSUME ReadsInv PROVE SnapshotInOrder /\ PriceOfAnswer
  OBVIOUS
<1>1. ASSUME NEW r \in Requests, pc[r] = "called", use[r] = "route"
      PROVE  \E h \in Since(floor[r]) : Shows(r, "judge", "policies", h) /\
             \E i \in Since(h) : Shows(r, "route", "aliases", i) /\
             \E j \in Since(i) : Shows(r, "route", "pools", j) /\
             \E k \in Since(j) : Shows(r, "route", "pricing", k) /\
             \E l \in Since(k) : Shows(r, "route", "settings", l)
  <2>1. Chained(r) /\ at[r] = 5
    BY <1>1 DEF ReadsInv, ReadSoFar
  <2>2. PICK m : /\ m \in [1 .. 5 -> Nat]
                 /\ \A k \in 1 .. 5 : /\ m[k] \in Since(floor[r]) /\ Link(r, k, m[k])
                                      /\ k > 1 => m[k - 1] <= m[k]
    BY <2>1 DEF Chained
  <2>3. /\ Chain[1] = "policies" /\ Chain[2] = "aliases" /\ Chain[3] = "pools"
        /\ Chain[4] = "pricing" /\ Chain[5] = "settings"
    BY DEF Chain
  <2>4. /\ Shows(r, "judge", "policies", m[1]) /\ Shows(r, "route", "aliases", m[2])
        /\ Shows(r, "route", "pools", m[3]) /\ Shows(r, "route", "pricing", m[4])
        /\ Shows(r, "route", "settings", m[5])
    BY <2>2, <2>3 DEF Link
  <2>5. /\ m[1] \in Since(floor[r]) /\ m[2] \in Since(floor[r]) /\ m[3] \in Since(floor[r])
        /\ m[4] \in Since(floor[r]) /\ m[5] \in Since(floor[r])
    BY <2>2
  <2>6. m[1] <= m[2] /\ m[2] <= m[3] /\ m[3] <= m[4] /\ m[4] <= m[5]
    BY <2>2
  <2>7. /\ m[1] \in Nat /\ m[2] \in Nat /\ m[3] \in Nat /\ m[4] \in Nat /\ m[5] \in Nat
    BY <2>2
  <2>8. m[2] \in Since(m[1]) /\ m[3] \in Since(m[2]) /\ m[4] \in Since(m[3]) /\ m[5] \in Since(m[4])
    BY <2>5, <2>6, <2>7 DEF Since
  <2> QED
    BY <2>4, <2>5, <2>8
<1>2. ASSUME NEW r \in Requests, pc[r] = "charged" PROVE PriceSeen(r)
  BY <1>2 DEF ReadsInv, ReadSoFar
<1> QED
  BY <1>1, <1>2 DEF SnapshotInOrder, PriceOfAnswer, PriceSeen

\* What routes a request was read after the policies that judged it, section
\* by section, whatever is changed in between.
THEOREM RoutingFollowsJudgement == ReadsSpec => []SnapshotInOrder
<1>1. ReadsSpec => []ReadsInv
  BY ReadsStart, ReadsStep, PTL DEF ReadsSpec
<1> QED
  BY <1>1, ReadsShown, PTL

\* The price charged (_calculate_cost) was in force after the provider had
\* answered.
THEOREM AnswersPayTheirPrice == ReadsSpec => []PriceOfAnswer
<1>1. ReadsSpec => []ReadsInv
  BY ReadsStart, ReadsStep, PTL DEF ReadsSpec
<1> QED
  BY <1>1, ReadsShown, PTL

-----------------------------------------------------------------------------
(***************************************************************************)
(* The memory backend.  A request that reads keeps the event loop from the *)
(* first section of the snapshot that judges it to the last of the one     *)
(* that routes it, so that all of them are of one configuration.           *)
(***************************************************************************)
WholeSoFar(r) ==
  /\ pc[r] = "read" => loop = r
  /\ pc[r] = "read" /\ use[r] = "route" =>
       \A k \in 1 .. at[r] : Link(r, k, Len(configs))
  /\ pc[r] = "called" /\ use[r] = "route" =>
       \E i \in 1 .. Len(configs) : \A k \in 1 .. 5 : Link(r, k, i)

WholeInv == ReadsInv /\ (~suspending => \A r \in Requests : WholeSoFar(r))

\* A request that does not read keeps what it has seen while others move.
LEMMA WholeRests ==
  ASSUME TypeOK, NEW r \in Requests, WholeSoFar(r), Grows, pc[r] # "read",
         pc'[r] = pc[r], use'[r] = use[r], view'[r] = view[r]
  PROVE  WholeSoFar(r)'
<1>1. Len(configs) \in Nat /\ Len(configs') \in Nat
  BY ConfigsType, LenProperties DEF Grows
<1>2. SUFFICES ASSUME pc[r] = "called", use[r] = "route"
               PROVE  \E i \in 1 .. Len(configs') : \A k \in 1 .. 5 : Link(r, k, i)'
  BY DEF WholeSoFar
<1>3. PICK i \in 1 .. Len(configs) : \A k \in 1 .. 5 : Link(r, k, i)
  BY <1>2 DEF WholeSoFar
<1>4. configs'[i] = configs[i] /\ i \in 1 .. Len(configs')
  BY <1>1 DEF Grows
<1>5. ASSUME NEW k \in 1 .. 5 PROVE Link(r, k, i)'
  <2>1. Shows(r, IF k = 1 THEN "judge" ELSE "route", Chain[k], i)
    BY <1>3 DEF Link
  <2>2. Shows(r, IF k = 1 THEN "judge" ELSE "route", Chain[k], i)'
    BY <1>4, <2>1 DEF Shows, Effective
  <2> QED
    BY <2>2 DEF Link
<1> QED
  BY <1>4, <1>5

LEMMA WholeAdmin ==
  ASSUME WholeInv, ~suspending, [Next]_vars, UNCHANGED readVars
  PROVE  \A r \in Requests : WholeSoFar(r)'
<1> SUFFICES ASSUME NEW r \in Requests PROVE WholeSoFar(r)'
  OBVIOUS
<1>1. TypeOK /\ Grows /\ pc'[r] = pc[r]
  BY AdminMoves DEF WholeInv, ReadsInv
<1>2. CASE UNCHANGED vars
  BY <1>2 DEF WholeInv, WholeSoFar, Link, Shows, Effective, vars, storeVars, readVars
<1>3. CASE Next
  <2>1. PICK a \in Admins : loop \in {None, a}
    BY <1>3 DEF WholeInv, Next, Upsert, Delete, Start, Reject, Write, Push, Trim, Fault, Leave,
                Goto, GotoIf
  <2>2. pc[r] # "read"
    BY <2>1, GovernanceAssumption DEF WholeInv, WholeSoFar, Tasks
  <2> QED
    BY <1>1, <2>2, WholeRests DEF WholeInv, readVars
<1> QED
  BY <1>2, <1>3

\* One more section is of the configuration in force, as those before it are.
LEMMA WholeGrows ==
  ASSUME TypeOK, ReadsTyped, NEW r \in Requests, Read(r), configs' = configs,
         use[r] = "route", \A k \in 1 .. at[r] : Link(r, k, Len(configs)),
         NEW last \in 1 .. 5, last = (IF at[r] < 5 THEN at[r] + 1 ELSE 5)
  PROVE  \A k \in 1 .. last : Link(r, k, Len(configs))'
<1>1. PICK now : now = Len(configs) /\ now \in Nat
  BY ConfigsType
<1>2. PICK n : n = at[r] /\ n \in 1 .. 5
  BY DEF ReadsTyped
<1>3. "route" \in Uses /\ "judge" \in Uses
  BY DEF Uses
<1>4. ASSUME NEW k \in 1 .. n PROVE Link(r, k, now)'
  <2>1. k \in 1 .. 5 /\ Shows(r, IF k = 1 THEN "judge" ELSE "route", Chain[k], now)
    BY <1>1, <1>2 DEF Link
  <2>2. k = 1 \/ Sections[n] # Chain[k]
    <3>1. CASE n = 5
      BY <2>1, <3>1, SectionsRead
    <3>2. CASE n < 5
      <4>1. Sections[n] = Chain[n + 1] /\ n + 1 \in 1 .. 5 /\ k # n + 1
        BY <1>2, <3>2, SectionsRead
      <4> QED
        BY <2>1, <4>1, SectionsRead
    <3> QED
      BY <1>2, <3>1, <3>2
  <2>3. Shows(r, IF k = 1 THEN "judge" ELSE "route", Chain[k], now)'
    BY <1>1, <1>2, <1>3, <2>1, <2>2, ReadShows
  <2> QED
    BY <2>3 DEF Link
<1>5. ASSUME n < 5 PROVE Link(r, n + 1, now)'
  <2>1. Sections[n] = Chain[n + 1] /\ n + 1 \in 1 .. 5 /\ n + 1 # 1
    BY <1>2, <1>5, SectionsRead
  <2>2. Shows(r, "route", Chain[n + 1], now)'
    BY <1>1, <1>2, <1>3, <2>1, ReadShows
  <2> QED
    BY <2>1, <2>2 DEF Link
<1>6. \A k \in 1 .. last : k \in 1 .. n \/ (n < 5 /\ k = n + 1)
  BY <1>2
<1>7. \A k \in 1 .. last : Link(r, k, now)'
  BY <1>4, <1>5, <1>6
<1> QED
  BY <1>1, <1>7 DEF Link, Shows

LEMMA WholeRequest ==
  ASSUME WholeInv, ~suspending, NEW r \in Requests, Reading(r)
  PROVE  \A q \in Requests : WholeSoFar(q)'
<1>0. /\ TypeOK /\ ReadsTyped /\ WholeSoFar(r)
      /\ use \in [Requests -> Uses] /\ at \in [Requests -> 1 .. 5]
      /\ view \in [Requests -> [Uses -> Config]]
  BY DEF WholeInv, ReadsInv, ReadsTyped
<1>1. PICK label \in {"read", "called", "charged", "idle"} : Proceed(r, label)
  BY DEF Reading, Arrive, ReadOn, Judged, Routed, Answered, Priced, NextChunk, End
<1>2. label \in Labels \ Waiting
  BY DEF Labels, Waiting
<1>3. /\ Grows /\ configs' = configs
      /\ pc'[r] = label /\ \A q \in Requests \ {r} : pc'[q] = pc[q]
  BY <1>0, <1>1, <1>2, ProceedMoves
<1>4. loop \in {None, r} /\ loop' = IF label = "read" THEN r ELSE None
  BY <1>1 DEF Proceed, GotoIf
<1>5. Len(Sections) = 5 /\ Len(configs) \in Nat /\ 1 <= Len(configs)
  BY <1>0, SectionsRead, ConfigsType
<1>6. ASSUME NEW q \in Requests, q # r PROVE WholeSoFar(q)'
  <2>1. use'[q] = use[q] /\ view'[q] = view[q]
    <3>1. Read(r) => view'[q] = view[q]
      BY <1>0, <1>3, <1>6, ReadShows
    <3> QED
      BY <1>0, <1>6, <3>1 DEF Reading, Arrive, BeginSnapshot, ReadOn, Judged, Routed, Answered,
                         Priced, NextChunk, End, readVars
  <2>2. pc[q] # "read"
    BY <1>4, <1>6, GovernanceAssumption DEF WholeInv, WholeSoFar, Tasks
  <2> QED
    BY <1>0, <1>3, <1>6, <2>1, <2>2, WholeRests DEF WholeInv
<1>7. WholeSoFar(r)'
  <2>1. CASE Arrive(r) \/ Answered(r)
    <3>1. use'[r] # "route"
      BY <1>0, <2>1 DEF Arrive, Answered, BeginSnapshot
    <3> QED
      BY <1>3, <1>4, <3>1 DEF WholeSoFar
  <2>2. CASE ReadOn(r)
    <3>1. /\ Read(r) /\ use'[r] = use[r] /\ at'[r] = at[r] + 1 /\ at[r] < 5
          /\ pc[r] = "read" /\ Proceed(r, "read") /\ at[r] \in 1 .. 5
      BY <1>0, <1>5, <2>2 DEF ReadOn, Read
    <3>2. pc'[r] = "read" /\ loop' = r
      <4>1. pc \in [Tasks -> Labels] /\ r \in Tasks
        BY <1>0 DEF TypeOK, Tasks
      <4> QED
        BY <3>1, <4>1 DEF Proceed, GotoIf, WholeInv
    <3>3. ASSUME use[r] = "route" PROVE \A k \in 1 .. at'[r] : Link(r, k, Len(configs))'
      <4>1. at'[r] \in 1 .. 5 /\ at'[r] = IF at[r] < 5 THEN at[r] + 1 ELSE 5
        BY <3>1
      <4>2. \A k \in 1 .. at[r] : Link(r, k, Len(configs))
        BY <1>0, <3>1, <3>3 DEF WholeSoFar
      <4> QED
        BY <1>0, <1>3, <3>1, <3>3, <4>1, <4>2, WholeGrows
    <3> QED
      BY <3>1, <3>2, <3>3 DEF WholeSoFar
  <2>3. CASE Judged(r)
    <3>1. /\ Read(r) /\ use[r] = "judge" /\ use'[r] = "route" /\ at[r] = 5 /\ at'[r] = 1
          /\ Proceed(r, "read")
      BY <1>0, <1>5, <2>3 DEF Judged
    <3>2. pc'[r] = "read" /\ loop' = r
      <4>1. pc \in [Tasks -> Labels] /\ r \in Tasks
        BY <1>0 DEF TypeOK, Tasks
      <4> QED
        BY <3>1, <4>1 DEF Proceed, GotoIf, WholeInv
    <3>3. Shows(r, "judge", Chain[1], Len(configs))'
      <4>1. "judge" \in Uses /\ Sections[5] = Chain[1]
        BY SectionsRead DEF Uses
      <4>2. PICK now : now = Len(configs) /\ now \in Nat
        BY <1>5
      <4>3. Shows(r, "judge", Chain[1], now)'
        BY <1>0, <1>3, <3>1, <4>1, <4>2, ReadShows
      <4> QED
        BY <1>3, <4>2, <4>3 DEF Shows
    <3>4. \A k \in 1 .. at'[r] : Link(r, k, Len(configs))'
      <4>1. \A k \in 1 .. at'[r] : k = 1
        BY <3>1
      <4> QED
        BY <3>3, <4>1 DEF Link
    <3> QED
      BY <3>1, <3>2, <3>4 DEF WholeSoFar
  <2>4. CASE Routed(r)
    <3>1. /\ Read(r) /\ use[r] = "route" /\ at[r] = 5 /\ pc[r] = "read"
          /\ Proceed(r, "called")
      BY <1>5, <2>4 DEF Routed, Read
    <3>2. pc'[r] = "called"
      <4>1. "called" \in Labels \ Waiting
        BY DEF Labels, Waiting
      <4> QED
        BY <1>0, <3>1, <4>1, ProceedMoves
    <3>3. \A k \in 1 .. 5 : Link(r, k, Len(configs))'
      <4>1. \A k \in 1 .. at[r] : Link(r, k, Len(configs))
        BY <1>0, <3>1 DEF WholeSoFar
      <4> QED
        BY <1>0, <1>3, <3>1, <4>1, WholeGrows
    <3>4. \E i \in 1 .. Len(configs') : \A k \in 1 .. 5 : Link(r, k, i)'
      <4>1. PICK now : now = Len(configs) /\ now \in 1 .. Len(configs')
        BY <1>3, <1>5
      <4>2. \A k \in 1 .. 5 : Link(r, k, now)'
        BY <1>3, <3>3, <4>1 DEF Link, Shows
      <4> QED
        BY <4>1, <4>2
    <3> QED
      BY <3>2, <3>4 DEF WholeSoFar
  <2>5. CASE Priced(r) \/ NextChunk(r)
    <3>1. use'[r] = "price"
      BY <1>0, <2>5 DEF Priced, NextChunk, readVars, WholeInv, ReadsInv, ReadSoFar
    <3>2. pc'[r] # "read"
      <4>1. PICK l \in {"called", "charged"} : Proceed(r, l)
        BY <2>5 DEF Priced, NextChunk
      <4>2. l \in Labels \ Waiting
        BY DEF Labels, Waiting
      <4> QED
        BY <1>0, <4>1, <4>2, ProceedMoves
    <3> QED
      BY <3>1, <3>2 DEF WholeSoFar
  <2>6. CASE End(r)
    <3>1. use'[r] = "judge" /\ Proceed(r, "idle")
      BY <1>0, <2>6 DEF End
    <3>2. pc'[r] = "idle"
      <4>1. "idle" \in Labels \ Waiting
        BY DEF Labels, Waiting
      <4> QED
        BY <1>0, <3>1, <4>1, ProceedMoves
    <3> QED
      BY <3>1, <3>2 DEF WholeSoFar
  <2> QED
    BY <2>1, <2>2, <2>3, <2>4, <2>5, <2>6 DEF Reading
<1> QED
  BY <1>6, <1>7

LEMMA WholeStep == WholeInv /\ [ReadsNext]_allVars => WholeInv'
<1> SUFFICES ASSUME WholeInv, [ReadsNext]_allVars PROVE WholeInv'
  OBVIOUS
<1>1. ReadsInv'
  BY ReadsStep DEF WholeInv
<1>2. suspending' = suspending
  <2>1. [Next]_vars => suspending' = suspending
    BY DEF Next, Upsert, Delete, Start, Reject, Write, Push, Trim, Fault, Leave, Goto, GotoIf,
           vars
  <2>2. \A r \in Requests : Reading(r) => suspending' = suspending
    BY DEF Reading, Arrive, ReadOn, Judged, Routed, Answered, Priced, NextChunk, End,
           Proceed, GotoIf
  <2> QED
    BY <2>1, <2>2 DEF ReadsNext, allVars, vars
<1>3. ASSUME ~suspending PROVE \A r \in Requests : WholeSoFar(r)'
  <2>1. CASE Next /\ UNCHANGED readVars
    BY <1>3, <2>1, WholeAdmin
  <2>2. CASE \E r \in Requests : Reading(r)
    BY <1>3, <2>2, WholeRequest
  <2>3. CASE UNCHANGED allVars
    BY <1>3, <2>3, WholeAdmin DEF allVars
  <2> QED
    BY <2>1, <2>2, <2>3 DEF ReadsNext
<1> QED
  BY <1>1, <1>2, <1>3 DEF WholeInv

\* With the memory backend there is one configuration that both the policies
\* that judge a request and everything that routes it are taken from, although
\* chat_completions takes a snapshot and ModelRouter.candidates another.
THEOREM OneConfigurationInMemory == ReadsSpec => []OneSnapshotInMemory
<1>1. ReadsInit => WholeInv
  BY ReadsStart DEF WholeInv, WholeSoFar, ReadsInit, Init, Tasks
<1>2. WholeInv => OneSnapshotInMemory
  <2>1. SUFFICES ASSUME WholeInv, ~suspending, NEW r \in Requests,
                        pc[r] = "called", use[r] = "route"
                 PROVE  \E i \in DOMAIN configs :
                          /\ Shows(r, "judge", "policies", i)
                          /\ \A s \in ToSet(Sections) \ {"policies"} : Shows(r, "route", s, i)
    BY DEF OneSnapshotInMemory, OneEffectiveSnapshot
  <2>2. PICK i \in 1 .. Len(configs) : \A k \in 1 .. 5 : Link(r, k, i)
    BY <2>1 DEF WholeInv, WholeSoFar
  <2>3. i \in DOMAIN configs
    BY <2>1, ConfigsType, LenProperties DEF WholeInv, ReadsInv
  <2>4. /\ Chain[1] = "policies" /\ Chain[2] = "aliases" /\ Chain[3] = "pools"
        /\ Chain[4] = "pricing" /\ Chain[5] = "settings"
    BY DEF Chain
  <2>5. /\ Shows(r, "judge", "policies", i) /\ Shows(r, "route", "aliases", i)
        /\ Shows(r, "route", "pools", i) /\ Shows(r, "route", "pricing", i)
        /\ Shows(r, "route", "settings", i)
    BY <2>2, <2>4 DEF Link
  <2>6. ToSet(Sections) = {"aliases", "pools", "pricing", "settings", "policies"}
    BY DEF ToSet, Sections
  <2> QED
    BY <2>3, <2>5, <2>6
<1> QED
  BY <1>1, <1>2, WholeStep, PTL DEF ReadsSpec
=============================================================================
