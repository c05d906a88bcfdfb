---------------------------- MODULE UsageLedger ----------------------------
(***************************************************************************)
(* The usage ledger of both backends (app/state.py) behind UsageStore.     *)
(* The memory backend keeps the list of all records and computes every     *)
(* figure from it; the Redis backend keeps the figures themselves and the  *)
(* latest records, and reads them back command by command while other      *)
(* requests go on recording.  Here "log" is that list, which Redis does    *)
(* not have, and the operators named Memory... are what the memory backend *)
(* computes from it: they say what the Redis backend must agree with.      *)
(*                                                                         *)
(* The token counts are counters like the cost and are left out.  Nothing  *)
(* in the running gateway calls reset.                                     *)
(***************************************************************************)
EXTENDS Integers, FiniteSets, Sequences, SequencesExt

CONSTANTS
  Tasks,       \* requests that record or read
  Models,      \* "provider:model" strings
  Costs,       \* what one request can cost
  Dates,       \* dates of timestamps
  Periods,     \* days and months
  PeriodsOf,   \* the day and the month of a date
  RecentSize,  \* how many latest records are kept (20)
  MaxRecords   \* bound on the list, for the model checker only

ASSUME LedgerAssumption ==
  /\ Costs \subseteq Nat
  /\ PeriodsOf \in [Dates -> SUBSET Periods]
  /\ RecentSize \in Nat \ {0}
  /\ MaxRecords \in Nat

Entry == [model : Models, cost : Costs, date : Dates]

\* A hash of counters; one that does not exist reads as zeros.
Row == [requests : Nat, cost : Nat]
EmptyRow == [requests |-> 0, cost |-> 0]

VARIABLES
  totals,   \* usage:totals
  rows,     \* usage:model:<model>
  models,   \* usage:models
  spent,    \* usage:cost:<kind>:<period>
  recent,   \* usage:recent, the latest record first
  pc,       \* what the task waits for
  item,     \* the record it stores
  snap,     \* the snapshot it reads
  unread,   \* the models whose rows it has still to read
  \* history:
  log,      \* every record, in the order Redis has executed them
  since     \* how many there were when the snapshot was begun

figures == <<totals, rows, models, spent, recent>>
vars == <<figures, pc, item, snap, unread, log, since>>

Snapshot == [totals : Row, rows : [Models -> Row], recent : Seq(Entry)]
EmptySnapshot ==
  [totals |-> EmptyRow, rows |-> [m \in Models |-> EmptyRow], recent |-> <<>>]
NoEntry == [model |-> "", cost |-> 0, date |-> 0]

Init ==
  /\ totals = EmptyRow
  /\ rows = [m \in Models |-> EmptyRow]
  /\ models = {}
  /\ spent = [p \in Periods |-> 0]
  /\ recent = <<>>
  /\ pc = [t \in Tasks |-> "idle"]
  /\ item = [t \in Tasks |-> NoEntry]
  /\ snap = [t \in Tasks |-> EmptySnapshot]
  /\ unread = [t \in Tasks |-> {}]
  /\ log = <<>>
  /\ since = [t \in Tasks |-> 0]

Goto(t, label) == pc' = [pc EXCEPT ![t] = label]

-----------------------------------------------------------------------------
(* What the memory backend computes from a list of records. *)

\* The chosen places' costs added up, in the order of the list.
MemorySum(list, chosen) ==
  LET upTo[n \in 0 .. Len(list)] ==
        IF n = 0 THEN 0 ELSE upTo[n - 1] + IF n \in chosen THEN list[n].cost ELSE 0
  IN  upTo[Len(list)]

MemoryCount(list, chosen) ==
  [requests |-> Cardinality(chosen), cost |-> MemorySum(list, chosen)]

MemoryTotals(list) == MemoryCount(list, DOMAIN list)

OfModel(list, m) == {i \in DOMAIN list : list[i].model = m}

MemoryRow(list, m) == MemoryCount(list, OfModel(list, m))

InPeriod(list, p) == {i \in DOMAIN list : p \in PeriodsOf[list[i].date]}

MemoryPeriodCost(list, p) == MemorySum(list, InPeriod(list, p))

\* records[-20:]
MemoryRecent(list) ==
  SubSeq(list, IF Len(list) > RecentSize THEN Len(list) - RecentSize + 1 ELSE 1,
         Len(list))

-----------------------------------------------------------------------------
(* usage_record *)

\* The record is stamped and its transaction sent; the date is any, because a
\* transaction may be overtaken by others.
StartRecord(t) ==
  /\ pc[t] = "idle" /\ Len(log) < MaxRecords
  /\ \E e \in Entry : item' = [item EXCEPT ![t] = e]
  /\ Goto(t, "record")
  /\ UNCHANGED <<figures, snap, unread, log, since>>

Counted(row, e) == [requests |-> row.requests + 1, cost |-> row.cost + e.cost]

\* Mutant: LTRIM of the list from 0 to 20.
TrimmedLong(list) ==
  SubSeq(list, 1, IF Len(list) > RecentSize + 1 THEN RecentSize + 1 ELSE Len(list))

\* LTRIM of the list from 0 to 19.
Trimmed(list) ==
  SubSeq(list, 1, IF Len(list) > RecentSize THEN RecentSize ELSE Len(list))

\* MULTI ... EXEC: all the counters at once.
Stored(t) ==
  /\ totals' = Counted(totals, item[t])
  /\ rows' = [rows EXCEPT ![item[t].model] = Counted(@, item[t])]
  /\ models' = models \cup {item[t].model}
  /\ spent' = [p \in Periods |-> spent[p] +
       (IF p \in PeriodsOf[item[t].date] THEN item[t].cost ELSE 0)]
  /\ recent' = Trimmed(<<item[t]>> \o recent)
  /\ log' = Append(log, item[t])

Record(t) ==
  /\ pc[t] = "record"
  /\ Stored(t)
  /\ Goto(t, "done")
  /\ UNCHANGED <<item, snap, unread, since>>

-----------------------------------------------------------------------------
(* usage_snapshot: totals, names of models, their rows, recent records. *)

StartSnapshot(t) ==
  /\ pc[t] = "idle"
  /\ Goto(t, "totals")
  /\ UNCHANGED <<figures, item, snap, unread, log, since>>

ReadTotals(t) ==
  /\ pc[t] = "totals"
  /\ snap' = [snap EXCEPT ![t].totals = totals]
  /\ since' = [since EXCEPT ![t] = Len(log)]
  /\ Goto(t, "models")
  /\ UNCHANGED <<figures, item, unread, log>>

\* Without a model there is no pipeline of rows.
ReadModels(t) ==
  /\ pc[t] = "models"
  /\ unread' = [unread EXCEPT ![t] = models]
  /\ Goto(t, IF models = {} THEN "recent" ELSE "rows")
  /\ UNCHANGED <<figures, item, snap, log, since>>

\* The pipeline is no transaction: others may come between its commands.  The
\* code's order is the alphabet's; here it is any.
ReadRow(t) ==
  /\ pc[t] = "rows"
  /\ \E m \in unread[t] :
       /\ snap' = [snap EXCEPT ![t].rows[m] = rows[m]]
       /\ unread' = [unread EXCEPT ![t] = @ \ {m}]
       /\ Goto(t, IF unread[t] = {m} THEN "recent" ELSE "rows")
  /\ UNCHANGED <<figures, item, log, since>>

\* Mutant: the totals are read last.
ReadRecentAndTotals(t) ==
  /\ pc[t] = "recent"
  /\ snap' = [snap EXCEPT ![t].recent = Reverse(recent), ![t].totals = totals]
  /\ Goto(t, "shown")
  /\ UNCHANGED <<figures, item, unread, log, since>>

ReadRecent(t) ==
  /\ pc[t] = "recent"
  /\ snap' = [snap EXCEPT ![t].recent = Reverse(recent)]
  /\ Goto(t, "shown")
  /\ UNCHANGED <<figures, item, unread, log, since>>

\* RedisError at any command; a transaction may have been executed.
Fault(t) ==
  /\ pc[t] \in {"record", "totals", "models", "rows", "recent"}
  /\ (pc[t] = "record" /\ Stored(t)) \/ UNCHANGED <<figures, log>>
  /\ Goto(t, "done")
  /\ UNCHANGED <<item, snap, unread, since>>

\* The answer is on its way and the slot is free.
Leave(t) ==
  /\ pc[t] \in {"done", "shown"}
  /\ Goto(t, "idle")
  /\ item' = [item EXCEPT ![t] = NoEntry]
  /\ snap' = [snap EXCEPT ![t] = EmptySnapshot]
  /\ unread' = [unread EXCEPT ![t] = {}]
  /\ since' = [since EXCEPT ![t] = 0]
  /\ UNCHANGED <<figures, log>>

Next ==
  \E t \in Tasks :
    \/ StartRecord(t) \/ Record(t) \/ StartSnapshot(t) \/ ReadTotals(t)
    \/ ReadModels(t) \/ ReadRow(t) \/ ReadRecent(t) \/ Fault(t) \/ Leave(t)

Spec == Init /\ [][Next]_vars

-----------------------------------------------------------------------------
(* Properties. *)

\* The two backends agree: every figure that Redis keeps is the one that the
\* memory backend would compute from all the records, whatever was lost on
\* the way and in whichever order the transactions arrived.
BackendsAgree ==
  /\ totals = MemoryTotals(log)
  /\ \A m \in Models : rows[m] = MemoryRow(log, m)
  /\ models = {m \in Models : rows[m].requests > 0}
  /\ \A p \in Periods : spent[p] = MemoryPeriodCost(log, p)
  /\ Reverse(recent) = MemoryRecent(log)

NoMoreThan(row, other) == row.requests <= other.requests /\ row.cost <= other.cost

\* A snapshot that was read while others recorded is not of one moment, but
\* its error has one direction: the totals are those of its beginning, every
\* row is of its beginning or later, and the recent records are of its end (or
\* earlier than the present), so the rows and the list account for every
\* request in the totals and the rows never show one that was not recorded.
SnapshotBounds ==
  \A t \in Tasks :
    pc[t] = "shown" =>
      /\ snap[t].totals = MemoryTotals(SubSeq(log, 1, since[t]))
      /\ \A m \in Models :
           /\ NoMoreThan(MemoryRow(SubSeq(log, 1, since[t]), m), snap[t].rows[m])
           /\ NoMoreThan(snap[t].rows[m], MemoryRow(log, m))
      /\ \E end \in since[t] .. Len(log) :
           snap[t].recent = MemoryRecent(SubSeq(log, 1, end))
=============================================================================
