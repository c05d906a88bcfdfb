--------------------------- MODULE GovernanceStore ---------------------------
(***************************************************************************)
(* The dynamic configuration of GovernanceStore (app/governance.py) and    *)
(* its audit log, under the operations of the admin API (app/admin.py).    *)
(* A field is one entry of a section: an alias, a pool, a price, a policy, *)
(* or the routing policy, which nothing deletes.                           *)
(*                                                                         *)
(* suspending = TRUE is the Redis backend: the write, the LPUSH of the     *)
(* audit event and the LTRIM are three round trips, and each can fail      *)
(* whether or not it has been executed, which ends its operation just as   *)
(* the death of the replica does.  suspending = FALSE is the memory        *)
(* backend, where an operation keeps the event loop to its end.            *)
(*                                                                         *)
(* The operations on clients (ClientRegistry) end in the same audit call.  *)
(***************************************************************************)
EXTENDS Integers, SequencesExt

CONSTANTS
  Admins,      \* admin requests in progress
  Requests,    \* chat requests in progress (GovernanceReads)
  Fields,      \* what can be configured
  Permanent,   \* the fields that no operation deletes
  Values,      \* what a request may ask to store
  Malformed,   \* those of them that raise ValueError
  Keep,        \* 200, the events kept by LTRIM and by audit_events
  MaxWrites,   \* bound on the writes, for the model checker only
  None         \* nothing stored, no event, no task

Tasks == Admins \cup Requests
Accepted == Values \ Malformed

ASSUME GovernanceAssumption ==
  /\ Admins \cap Requests = {} /\ None \notin Tasks
  /\ None \notin Values
  /\ Keep \in Nat \ {0}
  /\ MaxWrites \in Nat

Event == [id : Nat, field : Fields, value : Accepted \cup {None}]

VARIABLES
  suspending, \* the backend is Redis
  dynamic,    \* the hashes, a value or None for every field
  log,        \* governance:audit, the newest event first
  loop,       \* the task that keeps the event loop
  pc,         \* the command the task waits for
  event,      \* what the operation writes and records; id = 0 before the write
  \* history:
  configs,    \* every configuration so far; write i made the i-th
  pushed,     \* every event so far, the newest first
  returned,   \* the newest write whose operation has returned
  lost,       \* the writes whose operation has failed before it pushed the event
  untrimmed,  \* events pushed since the last LTRIM
  contested   \* fields written while the event of an earlier write was on its
              \* way, or whose last write is lost

storeVars == <<dynamic, configs>>
auditVars == <<log, pushed, untrimmed>>
vars == <<suspending, storeVars, auditVars, loop, pc, event, returned, lost, contested>>

Waiting == {"write", "push", "trim"}
Labels ==
  Waiting \cup {"idle", "returned", "rejected", "failed"} \cup {"read", "called", "charged"}

Init ==
  /\ suspending \in BOOLEAN
  /\ dynamic = [f \in Fields |-> None]
  /\ configs = <<dynamic>>
  /\ log = <<>> /\ pushed = <<>> /\ untrimmed = 0
  /\ loop = None
  /\ pc = [t \in Tasks |-> "idle"]
  /\ event = [a \in Admins |-> None]
  /\ returned = 1 /\ lost = {} /\ contested = {}

\* Without a suspension the task goes on to its end before any other runs.
GotoIf(t, label, waits) ==
  /\ suspending \/ loop \in {None, t}
  /\ UNCHANGED suspending
  /\ pc' = [pc EXCEPT ![t] = label]
  /\ loop' = IF ~suspending /\ waits THEN t ELSE None

Goto(a, label) == GotoIf(a, label, label \in Waiting)

-----------------------------------------------------------------------------
\* Up to the HSET or HDEL.
Start(a, f, v) ==
  /\ pc[a] = "idle"
  /\ Len(configs) + Cardinality({b \in Admins : pc[b] = "write"}) <= MaxWrites
  /\ event' = [event EXCEPT ![a] = [id |-> 0, field |-> f, value |-> v]]
  /\ Goto(a, "write")
  /\ UNCHANGED <<storeVars, auditVars, returned, lost, contested>>

\* Mutant: the form of the value is not checked.
UpsertUnchecked(a) == \E f \in Fields, v \in Values : Start(a, f, v)

Upsert(a) == \E f \in Fields, v \in Accepted : Start(a, f, v)
Delete(a) == \E f \in Fields \ Permanent : Start(a, f, None)

\* ValueError, answered 400.
Reject(a) ==
  /\ pc[a] = "idle" /\ Malformed # {}
  /\ Goto(a, "rejected")
  /\ UNCHANGED <<storeVars, auditVars, event, returned, lost, contested>>

-----------------------------------------------------------------------------
(* The commands, as Redis executes them. *)

Written(a) ==
  /\ pc[a] = "write"
  /\ dynamic' = [dynamic EXCEPT ![event[a].field] = event[a].value]
  /\ configs' = Append(configs, dynamic')
  /\ event' = [event EXCEPT ![a].id = Len(configs) + 1]
  /\ UNCHANGED auditVars

\* Mutant: RPUSH for LPUSH.
PushedLast(a) ==
  /\ pc[a] = "push"
  /\ log' = Append(log, event[a])
  /\ pushed' = <<event[a]>> \o pushed
  /\ untrimmed' = untrimmed + 1
  /\ UNCHANGED <<storeVars, event>>

Pushed(a) ==
  /\ pc[a] = "push"
  /\ log' = <<event[a]>> \o log
  /\ pushed' = <<event[a]>> \o pushed
  /\ untrimmed' = untrimmed + 1
  /\ UNCHANGED <<storeVars, event>>

\* Mutant: LTRIM 0 200.
TrimmedLong(a) ==
  /\ pc[a] = "trim"
  /\ log' = IF Len(log) <= Keep + 1 THEN log ELSE SubSeq(log, 1, Keep + 1)
  /\ untrimmed' = 0
  /\ UNCHANGED <<storeVars, event, pushed>>

\* Mutant: LTRIM 0 198.
TrimmedShort(a) ==
  /\ pc[a] = "trim"
  /\ log' = IF Len(log) < Keep THEN log ELSE SubSeq(log, 1, Keep - 1)
  /\ untrimmed' = 0
  /\ UNCHANGED <<storeVars, event, pushed>>

Trimmed(a) ==
  /\ pc[a] = "trim"
  /\ log' = IF Len(log) <= Keep THEN log ELSE SubSeq(log, 1, Keep)
  /\ untrimmed' = 0
  /\ UNCHANGED <<storeVars, event, pushed>>

\* The event of a write to f is on its way.
Recording(f) == \E a \in Admins : pc[a] = "push" /\ event[a].field = f

\* A write that no other is under way to record settles what earlier ones left.
Contests(a) ==
  LET f == event[a].field IN
  contested' = IF Recording(f) THEN contested \cup {f} ELSE contested \ {f}

\* Mutant: the audit call of a delete is forgotten.
WriteSilently(a) ==
  /\ Written(a) /\ Contests(a)
  /\ Goto(a, IF event[a].value = None THEN "returned" ELSE "push")
  /\ UNCHANGED <<returned, lost>>

Write(a) ==
  /\ Written(a) /\ Contests(a)
  /\ Goto(a, "push")
  /\ UNCHANGED <<returned, lost>>

Push(a) ==
  /\ Pushed(a)
  /\ Goto(a, "trim")
  /\ UNCHANGED <<returned, lost, contested>>

Trim(a) ==
  /\ Trimmed(a)
  /\ returned' = IF event[a].id > returned THEN event[a].id ELSE returned
  /\ Goto(a, "returned")
  /\ UNCHANGED <<lost, contested>>

Unanswered(a, label) == pc[a] = label /\ UNCHANGED <<storeVars, auditVars, event>>

\* RedisError, or the death of the replica, before or after the command; in two
\* of the cases a write is never recorded.
Fault(a) ==
  /\ suspending
  /\ \/ /\ Written(a) \/ Unanswered(a, "push")
        /\ lost' = lost \cup {event'[a].id}
        /\ contested' = contested \cup {event[a].field}
     \/ /\ Unanswered(a, "write") \/ Pushed(a) \/ Trimmed(a) \/ Unanswered(a, "trim")
        /\ UNCHANGED <<lost, contested>>
  /\ Goto(a, "failed")
  /\ UNCHANGED returned

Leave(a) ==
  /\ pc[a] \in {"returned", "rejected", "failed"}
  /\ event' = [event EXCEPT ![a] = None]
  /\ Goto(a, "idle")
  /\ UNCHANGED <<storeVars, auditVars, returned, lost, contested>>

Next ==
  \E a \in Admins :
    \/ Upsert(a) \/ Delete(a) \/ Reject(a)
    \/ Write(a) \/ Push(a) \/ Trim(a) \/ Fault(a) \/ Leave(a)

Spec == Init /\ [][Next]_vars

-----------------------------------------------------------------------------
(* Properties. *)

\* audit_events
AuditEvents(limit) ==
  LET shown == IF limit < 1 THEN 1 ELSE IF limit > Keep THEN Keep ELSE limit
  IN IF Len(log) <= shown THEN log ELSE SubSeq(log, 1, shown)

\* The state has the shape of the code's, and every operation under way has
\* what it is about to write or to record.
TypeOK ==
  /\ suspending \in BOOLEAN
  /\ dynamic \in [Fields -> Accepted \cup {None}]
  /\ log \in Seq(Event) /\ pushed \in Seq(Event)
  /\ untrimmed \in Nat
  /\ loop \in Tasks \cup {None}
  /\ pc \in [Tasks -> Labels]
  /\ event \in [Admins -> Event \cup {None}]
  /\ configs \in Seq([Fields -> Accepted \cup {None}]) /\ configs # <<>>
  /\ returned \in 1 .. Len(configs) /\ contested \subseteq Fields
  /\ \A a \in Admins :
       /\ pc[a] \in Waiting => event[a] \in Event
       /\ pc[a] \in {"push", "trim"} => event[a].id \in 2 .. Len(configs)

\* However pushes and trims of several operations interleave, and whichever
\* of them fail, what audit_events shows is the newest events that were
\* recorded, the newest first, none missing in between: as many as were asked
\* for, and as there are.
AuditWindow ==
  \A limit \in -1 .. Keep + 2 :
    LET asked == IF limit < 1 THEN 1 ELSE IF limit > Keep THEN Keep ELSE limit
        shown == AuditEvents(limit)
    IN
    /\ Len(shown) = IF Len(pushed) < asked THEN Len(pushed) ELSE asked
    /\ \A i \in DOMAIN shown : shown[i] = pushed[i]

\* The log never outgrows Keep by more than the events whose LTRIM is still
\* to come or has failed, and the next LTRIM makes up for all of them.
LogBounded == Len(log) <= Keep + untrimmed

\* Every write leaves its event, with the field and the value it wrote, before
\* its operation returns: the only ones without are those of an operation that
\* has yet to push it, or has failed between the write and the push (which are
\* two commands, so that a crash there does lose the entry).  And no event is
\* recorded for a write that did not happen.
AuditComplete ==
  /\ \A i \in DOMAIN configs \ {1} :
       \/ i \in lost
       \/ \E a \in Admins : pc[a] = "push" /\ event[a].id = i
       \/ \E k \in DOMAIN pushed : pushed[k].id = i
  /\ \A k \in DOMAIN pushed :
       /\ pushed[k].id \in DOMAIN configs \ {1}
       /\ configs[pushed[k].id][pushed[k].field] = pushed[k].value

\* The newest event of a field tells what is configured, whatever operations
\* on it overlap or fail, unless the last write to it was executed between
\* another's write and its push, or is lost: then the log may tell otherwise,
\* but only until the field is written by an operation that meets neither.
LogTellsState ==
  \A k \in DOMAIN log : LET f == log[k].field IN
    (/\ f \notin contested /\ ~Recording(f)
     /\ \A j \in 1 .. k - 1 : log[j].field # f) => log[k].value = dynamic[f]
=============================================================================
