----------------------------- MODULE LedgerProofs -----------------------------
(***************************************************************************)
(* Theorems about module UsageLedger, for any number of tasks and records, *)
(* any models, costs and periods, and any length of the recent list.       *)
(***************************************************************************)
EXTENDS UsageLedger, FiniteSetTheorems, SequenceTheorems, WellFoundedInduction,
        TLAPS

-----------------------------------------------------------------------------
(* Sums.  The loop over the records is a recursive function; that there is *)
(* one, and only one, follows from the least place where it would fail.    *)

LEMMA Least ==
  ASSUME NEW T \in SUBSET Nat, T # {}
  PROVE  \E x \in T : \A y \in T : x <= y
<1> DEFINE less == OpToRel(<, Nat)
<1>1. IsWellFoundedOn(less, Nat)
  BY NatLessThanWellFounded
<1>2. \A x, y \in Nat : y < x => <<y, x>> \in less
  <2> TAKE x \in Nat, y \in Nat
  <2>1. <<y, x>> \in Nat \X Nat
    OBVIOUS
  <2> QED
    BY <2>1 DEF OpToRel
<1> HIDE DEF less
<1>3. PICK x \in T : \A y \in T : ~ (<<y, x>> \in less)
  BY <1>1, WFMin
<1>4. ASSUME NEW y \in T PROVE x <= y
  <2>1. x \in Nat /\ y \in Nat
    OBVIOUS
  <2>2. ~(y < x)
    BY <1>2, <1>3, <2>1
  <2> QED
    BY <2>1, <2>2
<1> QED
  BY <1>4

\* f holds the sums of the first i amounts, for i up to n.
Runs(f, n, amounts) ==
  f = [i \in 0 .. n |-> IF i = 0 THEN 0 ELSE f[i - 1] + amounts[i]]

LEMMA RunsStep ==
  ASSUME NEW n \in Nat, NEW amounts, NEW f, Runs(f, n, amounts)
  PROVE  /\ f[0] = 0
         /\ \A i \in 1 .. n : i - 1 \in 0 .. n /\ f[i] = f[i - 1] + amounts[i]
<1> DEFINE value(i) == IF i = 0 THEN 0 ELSE f[i - 1] + amounts[i]
<1>1. f = [i \in 0 .. n |-> value(i)]
  BY DEF Runs
<1> HIDE DEF value
<1>2. \A i \in 0 .. n : f[i] = value(i)
  BY <1>1
<1>3. 0 \in 0 .. n /\ \A i \in 1 .. n : i \in 0 .. n /\ i - 1 \in 0 .. n
  OBVIOUS
<1>4. f[0] = 0
  BY <1>2, <1>3 DEF value
<1>5. ASSUME NEW i \in 1 .. n PROVE f[i] = f[i - 1] + amounts[i]
  <2>1. f[i] = value(i) /\ i # 0
    BY <1>2, <1>3
  <2> QED
    BY <2>1 DEF value
<1> QED
  BY <1>3, <1>4, <1>5

LEMMA RunsFrom ==
  ASSUME NEW n \in Nat, NEW amounts, NEW f, f = [i \in 0 .. n |-> f[i]], f[0] = 0,
         \A i \in 1 .. n : f[i] = f[i - 1] + amounts[i]
  PROVE  Runs(f, n, amounts)
<1>1. \A i \in 0 .. n : f[i] = IF i = 0 THEN 0 ELSE f[i - 1] + amounts[i]
  OBVIOUS
<1> QED
  BY <1>1 DEF Runs

\* Running sums over amounts that agree are the same, as far as both go.
LEMMA RunsAgree ==
  ASSUME NEW n \in Nat, NEW k \in 0 .. n, NEW f, NEW g,
         NEW amounts, NEW others,
         \A i \in 1 .. k : amounts[i] \in Nat /\ amounts[i] = others[i],
         Runs(f, k, amounts), Runs(g, n, others)
  PROVE  \A i \in 0 .. k : f[i] \in Nat /\ f[i] = g[i]
<1> DEFINE Bad == {i \in 0 .. k : ~(f[i] \in Nat /\ f[i] = g[i])}
<1>1. /\ f[0] = 0 /\ g[0] = 0
      /\ \A i \in 1 .. k : f[i] = f[i - 1] + amounts[i]
      /\ \A i \in 1 .. n : g[i] = g[i - 1] + others[i]
  BY RunsStep
<1>2. SUFFICES ASSUME Bad # {} PROVE FALSE
  OBVIOUS
<1>3. PICK i \in Bad : \A j \in Bad : i <= j
  <2>1. Bad \in SUBSET Nat
    OBVIOUS
  <2> HIDE DEF Bad
  <2> QED
    BY <1>2, <2>1, Least
<1>4. i # 0
  BY <1>1
<1>5. i \in 1 .. k /\ i \in 1 .. n /\ i - 1 \in 0 .. k
  BY <1>4
<1>6. i - 1 \notin Bad
  <2> HIDE DEF Bad
  <2> QED
    BY <1>3, <1>5
<1>7. f[i - 1] \in Nat /\ f[i - 1] = g[i - 1]
  BY <1>5, <1>6
<1>8. f[i] \in Nat /\ f[i] = g[i]
  BY <1>1, <1>5, <1>7
<1> QED
  BY <1>8

LEMMA RunsExist ==
  ASSUME NEW n \in Nat, NEW amounts
  PROVE  \E f : Runs(f, n, amounts)
<1> DEFINE Bad == {k \in Nat : ~ \E f : Runs(f, k, amounts)}
<1>1. SUFFICES ASSUME Bad # {} PROVE FALSE
  OBVIOUS
<1>2. PICK k \in Bad : \A j \in Bad : k <= j
  <2>1. Bad \in SUBSET Nat
    OBVIOUS
  <2> HIDE DEF Bad
  <2> QED
    BY <1>1, <2>1, Least
<1>3. k # 0
  <2>1. ASSUME k = 0 PROVE \E f : Runs(f, k, amounts)
    <3> DEFINE g == [i \in 0 .. k |-> 0]
    <3>1. k \in Nat /\ g[0] = 0 /\ g = [i \in 0 .. k |-> g[i]]
      BY <2>1
    <3> HIDE DEF g
    <3>2. \A i \in 1 .. k : g[i] = g[i - 1] + amounts[i]
      BY <2>1
    <3> QED
      BY <3>1, <3>2, RunsFrom
  <2> QED
    BY <2>1
<1>4. k \in Nat /\ k - 1 \in Nat
  BY <1>3
<1>5. k - 1 \notin Bad
  <2> HIDE DEF Bad
  <2> QED
    BY <1>2, <1>4
<1>6. PICK f : Runs(f, k - 1, amounts)
  BY <1>4, <1>5
<1>7. /\ f[0] = 0
      /\ \A i \in 1 .. k - 1 : f[i] = f[i - 1] + amounts[i]
  BY <1>4, <1>6, RunsStep
<1> DEFINE g == [i \in 0 .. k |-> IF i = k THEN f[k - 1] + amounts[k] ELSE f[i]]
<1>8. /\ g[0] = f[0] /\ g[k] = f[k - 1] + amounts[k]
      /\ \A i \in 0 .. k - 1 : g[i] = f[i]
      /\ g = [i \in 0 .. k |-> g[i]]
  BY <1>3, <1>4
<1> HIDE DEF g
<1>9. ASSUME NEW i \in 1 .. k PROVE g[i] = g[i - 1] + amounts[i]
  <2>1. i - 1 \in 0 .. k - 1 /\ (i # k => i \in 0 .. k - 1 /\ i \in 1 .. k - 1)
    BY <1>4
  <2> QED
    BY <1>7, <1>8, <2>1
<1>10. Runs(g, k, amounts)
  BY <1>4, <1>7, <1>8, <1>9, RunsFrom
<1> QED
  BY <1>10

\* A number added at the end of the list adds its cost to the sum of the
\* places that it is among, and changes no other.
Amounts(list, chosen) ==
  [i \in 1 .. Len(list) |-> IF i \in chosen THEN list[i].cost ELSE 0]

LEMMA SumRuns ==
  ASSUME NEW list, Len(list) \in Nat, NEW chosen
  PROVE  \E f : /\ Runs(f, Len(list), Amounts(list, chosen))
                /\ MemorySum(list, chosen) = f[Len(list)]
<1> DEFINE size == Len(list)
           Loop(f) == f = [n \in 0 .. Len(list) |->
                             IF n = 0 THEN 0
                             ELSE f[n - 1] + IF n \in chosen THEN list[n].cost ELSE 0]
<1>1. ASSUME NEW f PROVE Loop(f) <=> Runs(f, size, Amounts(list, chosen))
  <2>1. \A n \in 0 .. Len(list) : n # 0 =>
          Amounts(list, chosen)[n] = IF n \in chosen THEN list[n].cost ELSE 0
    BY DEF Amounts
  <2>2. [n \in 0 .. Len(list) |->
           IF n = 0 THEN 0
           ELSE f[n - 1] + IF n \in chosen THEN list[n].cost ELSE 0]
        = [n \in 0 .. Len(list) |->
             IF n = 0 THEN 0 ELSE f[n - 1] + Amounts(list, chosen)[n]]
    BY <2>1
  <2> QED
    BY <2>2 DEF Runs
<1>2. MemorySum(list, chosen) = (CHOOSE f : Loop(f))[size]
  BY DEF MemorySum
<1> HIDE DEF Loop, size
<1>3. \E f : Loop(f)
  BY <1>1, RunsExist DEF size
<1>4. Loop(CHOOSE f : Loop(f))
  BY <1>3
<1> QED
  BY <1>1, <1>2, <1>4 DEF size

LEMMA SumOfNone == MemorySum(<<>>, {}) = 0
<1>1. Len(<<>>) = 0 /\ Len(<<>>) \in Nat
  OBVIOUS
<1>2. PICK f : /\ Runs(f, Len(<<>>), Amounts(<<>>, {}))
               /\ MemorySum(<<>>, {}) = f[Len(<<>>)]
  BY <1>1, SumRuns
<1> QED
  BY <1>1, <1>2, RunsStep

LEMMA SumGrows ==
  ASSUME NEW list \in Seq(Entry), NEW e \in Entry,
         NEW chosen \in SUBSET DOMAIN list
  PROVE  /\ MemorySum(list, chosen) \in Nat
         /\ MemorySum(Append(list, e), chosen) = MemorySum(list, chosen)
         /\ MemorySum(Append(list, e), chosen \cup {Len(list) + 1})
              = MemorySum(list, chosen) + e.cost
<1> DEFINE k == Len(list)
           longer == Append(list, e)
<1>1. /\ k \in Nat /\ DOMAIN list = 1 .. k /\ Len(longer) = k + 1
      /\ longer[k + 1] = e /\ \A i \in 1 .. k : longer[i] = list[i] /\ list[i].cost \in Nat
      /\ e.cost \in Nat
  <2>1. k \in Nat /\ DOMAIN list = 1 .. k /\ \A i \in 1 .. k : list[i] \in Entry
    OBVIOUS
  <2>2. Len(longer) = k + 1 /\ longer[k + 1] = e /\ \A i \in 1 .. k : longer[i] = list[i]
    BY AppendProperties
  <2>3. \A x \in Entry : x.cost \in Nat
    BY LedgerAssumption DEF Entry
  <2> QED
    BY <2>1, <2>2, <2>3
<1>2. PICK f : Runs(f, k, Amounts(list, chosen)) /\ MemorySum(list, chosen) = f[k]
  BY <1>1, SumRuns
<1>3. ASSUME NEW added \in SUBSET {k + 1}
      PROVE  /\ MemorySum(list, chosen) \in Nat
             /\ MemorySum(longer, chosen \cup added)
                  = MemorySum(list, chosen) + IF added = {} THEN 0 ELSE e.cost
  <2> DEFINE all == chosen \cup added
  <2>1. PICK g : Runs(g, k + 1, Amounts(longer, all)) /\ MemorySum(longer, all) = g[k + 1]
    <3>1. Len(longer) = k + 1 /\ Len(longer) \in Nat
      BY <1>1
    <3> HIDE DEF k, longer, all
    <3> QED
      BY <3>1, SumRuns
  <2>2. \A i \in 1 .. k : /\ Amounts(list, chosen)[i] \in Nat
                          /\ Amounts(list, chosen)[i] = Amounts(longer, all)[i]
    BY <1>1 DEF Amounts
  <2>3. Amounts(longer, all)[k + 1] = IF added = {} THEN 0 ELSE e.cost
    BY <1>1 DEF Amounts
  <2>4. k + 1 \in Nat /\ k \in 0 .. k + 1 /\ k \in 0 .. k /\ k + 1 \in 1 .. k + 1
        /\ (k + 1) - 1 = k
    BY <1>1
  <2> HIDE DEF k, longer, all
  <2>5. f[k] \in Nat /\ f[k] = g[k]
    BY <1>1, <1>2, <2>1, <2>2, <2>4, RunsAgree
  <2>6. g[k + 1] = g[k] + Amounts(longer, all)[k + 1]
    BY <2>1, <2>4, RunsStep
  <2> QED
    BY <1>2, <2>1, <2>3, <2>5, <2>6 DEF all
<1>4. chosen \cup {} = chosen
  OBVIOUS
<1> HIDE DEF k, longer
<1>5. {} \in SUBSET {k + 1} /\ {k + 1} \in SUBSET {k + 1} /\ {k + 1} # {}
  OBVIOUS
<1>6. /\ MemorySum(list, chosen) \in Nat
      /\ MemorySum(longer, chosen) = MemorySum(list, chosen) + 0
  BY <1>3, <1>4, <1>5
<1>7. MemorySum(longer, chosen \cup {k + 1}) = MemorySum(list, chosen) + e.cost
  BY <1>3, <1>5
<1> QED
  BY <1>6, <1>7 DEF k, longer

-----------------------------------------------------------------------------
(* What the memory backend computes, as the list grows. *)

LEMMA Appended ==
  ASSUME NEW list \in Seq(Entry), NEW e \in Entry
  PROVE  /\ Append(list, e) \in Seq(Entry)
         /\ Len(list) \in Nat /\ Len(Append(list, e)) = Len(list) + 1
         /\ DOMAIN list = 1 .. Len(list) /\ DOMAIN Append(list, e) = 1 .. Len(list) + 1
         /\ Append(list, e)[Len(list) + 1] = e
         /\ \A i \in 1 .. Len(list) : Append(list, e)[i] = list[i] /\ list[i] \in Entry
  BY AppendProperties

LEMMA CountGrows ==
  ASSUME NEW list \in Seq(Entry), NEW e \in Entry,
         NEW chosen \in SUBSET DOMAIN list
  PROVE  /\ MemoryCount(list, chosen) \in Row
         /\ MemoryCount(Append(list, e), chosen) = MemoryCount(list, chosen)
         /\ MemoryCount(Append(list, e), chosen \cup {Len(list) + 1})
              = Counted(MemoryCount(list, chosen), e)
<1>1. Len(list) \in Nat /\ DOMAIN list = 1 .. Len(list)
  OBVIOUS
<1>2. IsFiniteSet(chosen) /\ Cardinality(chosen) \in Nat
  <2>1. IsFiniteSet(1 .. Len(list))
    BY <1>1, FS_Interval
  <2>2. IsFiniteSet(chosen)
    BY <1>1, <2>1, FS_Subset
  <2> QED
    BY <2>2, FS_CardinalityType
<1>3. Len(list) + 1 \notin chosen
  BY <1>1
<1>4. Cardinality(chosen \cup {Len(list) + 1}) = Cardinality(chosen) + 1
  BY <1>2, <1>3, FS_AddElement
<1> QED
  BY <1>2, <1>4, SumGrows DEF MemoryCount, Counted, Row

LEMMA TotalsGrow ==
  ASSUME NEW list \in Seq(Entry), NEW e \in Entry
  PROVE  /\ MemoryTotals(list) \in Row
         /\ MemoryTotals(Append(list, e)) = Counted(MemoryTotals(list), e)
<1>1. DOMAIN Append(list, e) = DOMAIN list \cup {Len(list) + 1}
  BY Appended
<1> QED
  BY <1>1, CountGrows DEF MemoryTotals

LEMMA RowGrows ==
  ASSUME NEW list \in Seq(Entry), NEW e \in Entry, NEW m
  PROVE  /\ MemoryRow(list, m) \in Row
         /\ MemoryRow(Append(list, e), m) =
              IF e.model = m THEN Counted(MemoryRow(list, m), e) ELSE MemoryRow(list, m)
<1> DEFINE k == Len(list)
<1>1. OfModel(list, m) \in SUBSET DOMAIN list
  BY DEF OfModel
<1>2. \A i : i \in OfModel(Append(list, e), m) <=>
         i \in OfModel(list, m) \/ (i = k + 1 /\ e.model = m)
  BY Appended DEF OfModel
<1>3. CASE e.model = m
  <2>1. OfModel(Append(list, e), m) = OfModel(list, m) \cup {k + 1}
    BY <1>2, <1>3
  <2>2. /\ MemoryRow(list, m) = MemoryCount(list, OfModel(list, m))
        /\ MemoryRow(Append(list, e), m)
             = MemoryCount(Append(list, e), OfModel(list, m) \cup {k + 1})
    BY <2>1 DEF MemoryRow
  <2> QED
    BY <1>1, <1>3, <2>2, CountGrows
<1>4. CASE e.model # m
  <2>1. OfModel(Append(list, e), m) = OfModel(list, m)
    BY <1>2, <1>4
  <2>2. /\ MemoryRow(list, m) = MemoryCount(list, OfModel(list, m))
        /\ MemoryRow(Append(list, e), m) = MemoryCount(Append(list, e), OfModel(list, m))
    BY <2>1 DEF MemoryRow
  <2> QED
    BY <1>1, <1>4, <2>2, CountGrows
<1> QED
  BY <1>3, <1>4

LEMMA PeriodGrows ==
  ASSUME NEW list \in Seq(Entry), NEW e \in Entry, NEW p
  PROVE  /\ MemoryPeriodCost(list, p) \in Nat
         /\ MemoryPeriodCost(Append(list, e), p) =
              MemoryPeriodCost(list, p) + IF p \in PeriodsOf[e.date] THEN e.cost ELSE 0
<1> DEFINE k == Len(list)
<1>1. InPeriod(list, p) \in SUBSET DOMAIN list
  BY DEF InPeriod
<1>2. \A i : i \in InPeriod(Append(list, e), p) <=>
         i \in InPeriod(list, p) \/ (i = k + 1 /\ p \in PeriodsOf[e.date])
  BY Appended DEF InPeriod
<1>3. CASE p \in PeriodsOf[e.date]
  <2>1. InPeriod(Append(list, e), p) = InPeriod(list, p) \cup {k + 1}
    BY <1>2, <1>3
  <2>2. /\ MemoryPeriodCost(list, p) = MemorySum(list, InPeriod(list, p))
        /\ MemoryPeriodCost(Append(list, e), p)
             = MemorySum(Append(list, e), InPeriod(list, p) \cup {k + 1})
    BY <2>1 DEF MemoryPeriodCost
  <2> QED
    BY <1>1, <1>3, <2>2, SumGrows
<1>4. CASE p \notin PeriodsOf[e.date]
  <2>1. InPeriod(Append(list, e), p) = InPeriod(list, p)
    BY <1>2, <1>4
  <2>2. /\ MemoryPeriodCost(list, p) = MemorySum(list, InPeriod(list, p))
        /\ MemoryPeriodCost(Append(list, e), p)
             = MemorySum(Append(list, e), InPeriod(list, p))
    BY <2>1 DEF MemoryPeriodCost
  <2>3. /\ MemorySum(list, InPeriod(list, p)) \in Nat
        /\ MemorySum(Append(list, e), InPeriod(list, p)) = MemorySum(list, InPeriod(list, p))
    BY <1>1, SumGrows
  <2> QED
    BY <1>4, <2>2, <2>3
<1> QED
  BY <1>3, <1>4

LEMMA NothingYet ==
  /\ MemoryTotals(<<>>) = EmptyRow
  /\ \A m : MemoryRow(<<>>, m) = EmptyRow
  /\ \A p : MemoryPeriodCost(<<>>, p) = 0
<1>1. MemoryCount(<<>>, {}) = EmptyRow
  BY SumOfNone, FS_EmptySet DEF MemoryCount, EmptyRow
<1>2. DOMAIN <<>> = {}
  OBVIOUS
<1>3. \A x : OfModel(<<>>, x) = {} /\ InPeriod(<<>>, x) = {}
  BY <1>2 DEF OfModel, InPeriod
<1> QED
  BY <1>1, <1>2, <1>3, SumOfNone DEF MemoryTotals, MemoryRow, MemoryPeriodCost

LEMMA CountedMore ==
  ASSUME NEW row \in Row, NEW e \in Entry
  PROVE  /\ Counted(row, e) \in Row
         /\ NoMoreThan(row, row) /\ NoMoreThan(row, Counted(row, e))
         /\ Counted(row, e).requests > 0
<1>1. e.cost \in Nat
  BY LedgerAssumption DEF Entry
<1> QED
  BY <1>1 DEF Row, Counted, NoMoreThan

-----------------------------------------------------------------------------
(* What Redis keeps. *)

Figured ==
  /\ totals \in Row
  /\ rows \in [Models -> Row]
  /\ models \in SUBSET Models
  /\ spent \in [Periods -> Nat]
  /\ recent \in Seq(Entry)
  /\ log \in Seq(Entry)

Tasked ==
  /\ DOMAIN pc = Tasks
  /\ DOMAIN item = Tasks
  /\ \A t \in Tasks : pc[t] = "record" => item[t] \in Entry
  /\ snap \in [Tasks -> Snapshot]
  /\ unread \in [Tasks -> SUBSET Models]
  /\ since \in [Tasks -> Nat]

Shape == Figured /\ Tasked

\* The list of Redis is the end of the log, backwards.
Latest ==
  /\ Len(recent) = IF Len(log) > RecentSize THEN RecentSize ELSE Len(log)
  /\ \A i \in 1 .. Len(recent) : recent[i] = log[Len(log) + 1 - i]

FiguresAgree ==
  /\ totals = MemoryTotals(log)
  /\ \A m \in Models : rows[m] = MemoryRow(log, m)
  /\ \A m \in Models : m \in models <=> rows[m].requests > 0
  /\ \A m \in Models : rows[m].requests = 0 => rows[m] = EmptyRow
  /\ \A p \in Periods : spent[p] = MemoryPeriodCost(log, p)

LedgerInv == Shape /\ Latest /\ FiguresAgree

LEMMA ReversedList ==
  ASSUME NEW list \in Seq(Entry)
  PROVE  Reverse(list) \in Seq(Entry) /\ Len(Reverse(list)) = Len(list)
<1> DEFINE n == Len(list)
<1>1. n \in Nat /\ \A i \in 1 .. n : list[i] \in Entry /\ (n - i) + 1 \in 1 .. n
  OBVIOUS
<1>2. Reverse(list) = [i \in 1 .. n |-> list[(n - i) + 1]]
  BY DEF Reverse
<1> HIDE DEF n
<1>3. Reverse(list) \in [1 .. n -> Entry]
  BY <1>1, <1>2
<1> QED
  BY <1>1, <1>3 DEF n

LEMMA LedgerInit == Init => LedgerInv
<1> SUFFICES ASSUME Init PROVE LedgerInv
  OBVIOUS
<1>1. /\ totals = EmptyRow /\ models = {} /\ recent = <<>> /\ log = <<>>
      /\ rows = [m \in Models |-> EmptyRow]
      /\ spent = [p \in Periods |-> 0]
      /\ pc = [t \in Tasks |-> "idle"] /\ item = [t \in Tasks |-> NoEntry]
      /\ snap = [t \in Tasks |-> EmptySnapshot]
      /\ unread = [t \in Tasks |-> {}] /\ since = [t \in Tasks |-> 0]
  BY DEF Init
<1>2. EmptyRow \in Row /\ EmptyRow.requests = 0
  BY DEF EmptyRow, Row
<1>3. Shape
  <2>1. EmptySnapshot \in Snapshot
    BY <1>2 DEF EmptySnapshot, Snapshot
  <2>2. Figured
    BY <1>1, <1>2 DEF Figured
  <2>3. Tasked
    BY <1>1, <2>1 DEF Tasked
  <2> QED
    BY <2>2, <2>3 DEF Shape
<1>4. Latest
  BY <1>1, LedgerAssumption DEF Latest
<1>5. FiguresAgree
  BY <1>1, <1>2, NothingYet DEF FiguresAgree
<1> QED
  BY <1>3, <1>4, <1>5 DEF LedgerInv

\* The list with a record before it, cut to its length.
LEMMA TrimmedList ==
  ASSUME Shape, Latest, NEW e \in Entry
  PROVE  LET kept == Trimmed(<<e>> \o recent)
             longer == Append(log, e)
         IN  /\ kept \in Seq(Entry)
             /\ Len(kept) = IF Len(longer) > RecentSize THEN RecentSize ELSE Len(longer)
             /\ \A i \in 1 .. Len(kept) : kept[i] = longer[Len(longer) + 1 - i]
<1> DEFINE more == <<e>> \o recent
           kept == Trimmed(<<e>> \o recent)
           longer == Append(log, e)
           size == IF Len(more) > RecentSize THEN RecentSize ELSE Len(more)
<1>1. RecentSize \in Nat /\ RecentSize # 0
  BY LedgerAssumption
<1>2. /\ recent \in Seq(Entry) /\ Len(recent) \in Nat
      /\ log \in Seq(Entry) /\ Len(log) \in Nat
      /\ Len(recent) = IF Len(log) > RecentSize THEN RecentSize ELSE Len(log)
      /\ \A i \in 1 .. Len(recent) : recent[i] = log[Len(log) + 1 - i]
  BY DEF Shape, Figured, Latest
<1>3. /\ more \in Seq(Entry) /\ Len(more) = Len(recent) + 1
      /\ more[1] = e /\ \A i \in 2 .. Len(recent) + 1 : more[i] = recent[i - 1]
  <2>1. <<e>> \in Seq(Entry) /\ Len(<<e>>) = 1 /\ <<e>>[1] = e
    OBVIOUS
  <2>2. /\ more \in Seq(Entry) /\ Len(more) = 1 + Len(recent)
        /\ \A i \in 1 .. 1 + Len(recent) :
             more[i] = IF i <= 1 THEN <<e>>[i] ELSE recent[i - 1]
    BY <1>2, <2>1, ConcatProperties
  <2>3. 1 \in 1 .. 1 + Len(recent) /\ 2 .. Len(recent) + 1 \subseteq 1 .. 1 + Len(recent)
    BY <1>2
  <2> HIDE DEF more
  <2> QED
    BY <1>2, <2>1, <2>2, <2>3
<1>4. /\ Len(longer) = Len(log) + 1 /\ longer[Len(log) + 1] = e
      /\ \A i \in 1 .. Len(log) : longer[i] = log[i]
  BY <1>2, Appended
<1>5. kept = SubSeq(more, 1, size)
  BY DEF Trimmed
<1>6. size \in Nat /\ size <= Len(more) /\ size >= 1
  BY <1>1, <1>2, <1>3
<1> HIDE DEF more, kept, longer, size
<1>7. /\ kept \in Seq(Entry) /\ Len(kept) = size
      /\ \A i \in 1 .. size : kept[i] = more[i]
  BY <1>3, <1>5, <1>6, SubSeqProperties
<1>8. size = IF Len(longer) > RecentSize THEN RecentSize ELSE Len(longer)
  BY <1>1, <1>2, <1>3, <1>4 DEF size
<1>9. ASSUME NEW i \in 1 .. size PROVE kept[i] = longer[Len(longer) + 1 - i]
  <2>1. CASE i = 1
    <3>1. Len(longer) + 1 - i = Len(log) + 1
      BY <1>2, <1>4, <2>1
    <3>2. kept[i] = e
      BY <1>3, <1>7, <2>1
    <3> QED
      BY <1>4, <3>1, <3>2
  <2>2. CASE i # 1
    <3>0. Len(recent) \in Nat /\ size <= Len(recent) + 1 /\ size \in Nat
      BY <1>2, <1>3, <1>6 DEF size
    <3>1. i \in 2 .. Len(recent) + 1 /\ i - 1 \in 1 .. Len(recent)
      BY <2>2, <3>0
    <3>2. /\ Len(log) + 1 - (i - 1) \in 1 .. Len(log)
          /\ Len(longer) + 1 - i = Len(log) + 1 - (i - 1)
      BY <1>1, <1>2, <1>4, <3>1
    <3>3. kept[i] = more[i] /\ more[i] = recent[i - 1]
      BY <1>3, <1>7, <3>1
    <3>4. recent[i - 1] = log[Len(log) + 1 - (i - 1)]
      BY <1>2, <3>1
    <3>5. log[Len(log) + 1 - (i - 1)] = longer[Len(log) + 1 - (i - 1)]
      BY <1>4, <3>2
    <3> QED
      BY <3>2, <3>3, <3>4, <3>5
  <2> QED
    BY <2>1, <2>2
<1> QED
  BY <1>7, <1>8, <1>9 DEF kept, longer

\* A transaction keeps the figures of Redis and of memory the same.
LEMMA StoredKeeps ==
  ASSUME LedgerInv, NEW t \in Tasks, item[t] \in Entry, Stored(t)
  PROVE  /\ totals' \in Row /\ rows' \in [Models -> Row] /\ models' \in SUBSET Models
         /\ spent' \in [Periods -> Nat]
         /\ recent' \in Seq(Entry) /\ log' \in Seq(Entry)
         /\ Latest' /\ FiguresAgree'
         /\ log' = Append(log, item[t])
         /\ \A m \in Models : NoMoreThan(rows[m], rows'[m])
<1> DEFINE e == item[t]
<1>1. /\ e \in Entry /\ e.model \in Models /\ e.cost \in Nat
  BY LedgerAssumption DEF Entry
<1>2. /\ totals' = Counted(totals, e)
      /\ rows' = [rows EXCEPT ![e.model] = Counted(rows[e.model], e)]
      /\ models' = models \cup {e.model}
      /\ spent' = [p \in Periods |-> spent[p] +
                     (IF p \in PeriodsOf[e.date] THEN e.cost ELSE 0)]
      /\ recent' = Trimmed(<<e>> \o recent)
      /\ log' = Append(log, e)
  BY DEF Stored
<1>3. Shape /\ Latest /\ FiguresAgree
  BY DEF LedgerInv
<1> HIDE DEF e
<1>4. recent' \in Seq(Entry) /\ log' \in Seq(Entry) /\ Latest'
  <2>1. log' \in Seq(Entry)
    BY <1>1, <1>2, <1>3, Appended DEF Shape, Figured
  <2>2. recent' \in Seq(Entry) /\ Latest'
    BY <1>1, <1>2, <1>3, TrimmedList DEF Latest
  <2> QED
    BY <2>1, <2>2
<1>5. totals' \in Row /\ totals' = MemoryTotals(log')
  BY <1>1, <1>2, <1>3, TotalsGrow, CountedMore DEF Shape, Figured, FiguresAgree
<1>6. /\ rows' \in [Models -> Row]
      /\ \A m \in Models : rows'[m] = IF m = e.model THEN Counted(rows[m], e) ELSE rows[m]
  BY <1>1, <1>2, <1>3, CountedMore DEF Shape, Figured
<1>7. ASSUME NEW m \in Models
      PROVE  /\ rows'[m] = MemoryRow(log', m)
             /\ NoMoreThan(rows[m], rows'[m])
             /\ m \in models' <=> rows'[m].requests > 0
             /\ rows'[m].requests = 0 => rows'[m] = EmptyRow
  <2>1. rows[m] \in Row /\ rows[m].requests \in Nat
    BY <1>3 DEF Shape, Figured, Row
  <2>2. /\ rows[m] = MemoryRow(log, m)
        /\ m \in models <=> rows[m].requests > 0
        /\ rows[m].requests = 0 => rows[m] = EmptyRow
    BY <1>3 DEF FiguresAgree
  <2>3. rows'[m] = MemoryRow(log', m)
    BY <1>1, <1>2, <1>3, <1>6, <2>2, RowGrows DEF Shape, Figured
  <2>4. NoMoreThan(rows[m], rows'[m])
    BY <1>1, <1>6, <2>1, CountedMore
  <2>5. CASE m = e.model
    <3>1. Counted(rows[m], e).requests > 0 /\ Counted(rows[m], e) \in Row
      BY <1>1, <2>1, CountedMore
    <3>2. rows'[m].requests > 0 /\ rows'[m].requests \in Nat
      BY <1>6, <2>5, <3>1 DEF Row
    <3> QED
      BY <1>2, <2>3, <2>4, <2>5, <3>2
  <2>6. CASE m # e.model
    BY <1>2, <1>6, <2>2, <2>3, <2>4, <2>6
  <2> QED
    BY <2>5, <2>6
<1>8. models' \in SUBSET Models
  BY <1>1, <1>2, <1>3 DEF Shape, Figured
<1>9. /\ spent' \in [Periods -> Nat]
      /\ \A p \in Periods : spent'[p] = MemoryPeriodCost(log', p)
  <2>1. ASSUME NEW p \in Periods
        PROVE  spent'[p] \in Nat /\ spent'[p] = MemoryPeriodCost(log', p)
    <3>1. spent[p] \in Nat /\ spent[p] = MemoryPeriodCost(log, p)
      BY <1>3 DEF Shape, Figured, FiguresAgree
    <3>2. spent'[p] = spent[p] + IF p \in PeriodsOf[e.date] THEN e.cost ELSE 0
      BY <1>2
    <3>3. spent'[p] \in Nat
      BY <1>1, <3>1, <3>2
    <3>4. MemoryPeriodCost(log', p) =
            MemoryPeriodCost(log, p) + IF p \in PeriodsOf[e.date] THEN e.cost ELSE 0
      BY <1>1, <1>2, <1>3, PeriodGrows DEF Shape, Figured
    <3> QED
      BY <3>1, <3>2, <3>3, <3>4
  <2> QED
    BY <1>2, <2>1
<1>10. FiguresAgree'
  BY <1>5, <1>7, <1>9 DEF FiguresAgree
<1> QED
  BY <1>2, <1>4, <1>5, <1>6, <1>7, <1>8, <1>9, <1>10 DEF e

LEMMA GoesOn ==
  ASSUME DOMAIN pc = Tasks, NEW t \in Tasks, NEW label, Goto(t, label)
  PROVE  /\ DOMAIN pc' = Tasks /\ pc'[t] = label
         /\ \A u \in Tasks : u # t => pc'[u] = pc[u]
  BY DEF Goto

\* A step of a task keeps the shape of what the tasks hold.
LEMMA TaskedStep ==
  ASSUME Figured, Tasked, NEW t \in Tasks,
         \/ StartRecord(t) \/ Record(t) \/ StartSnapshot(t) \/ ReadTotals(t)
         \/ ReadModels(t) \/ ReadRow(t) \/ ReadRecent(t) \/ Fault(t) \/ Leave(t)
  PROVE  Tasked'
<1>1. /\ DOMAIN pc = Tasks /\ DOMAIN item = Tasks
      /\ \A u \in Tasks : pc[u] = "record" => item[u] \in Entry
      /\ snap \in [Tasks -> Snapshot] /\ unread \in [Tasks -> SUBSET Models]
      /\ since \in [Tasks -> Nat]
  BY DEF Tasked
<1>2. ASSUME NEW label, Goto(t, label), label # "record", item' = item,
             snap' \in [Tasks -> Snapshot], unread' \in [Tasks -> SUBSET Models],
             since' \in [Tasks -> Nat]
      PROVE  Tasked'
  BY <1>1, <1>2, GoesOn DEF Tasked
<1>3. ASSUME NEW s \in Snapshot, snap' = [snap EXCEPT ![t] = s]
      PROVE  snap' \in [Tasks -> Snapshot]
  BY <1>1, <1>3
<1>4. CASE StartRecord(t)
  <2>1. PICK e \in Entry : item' = [item EXCEPT ![t] = e]
    BY <1>4 DEF StartRecord
  <2>2. DOMAIN item' = Tasks /\ item'[t] = e /\ \A u \in Tasks : u # t => item'[u] = item[u]
    BY <1>1, <2>1
  <2>3. /\ DOMAIN pc' = Tasks
        /\ \A u \in Tasks : u # t => pc'[u] = pc[u]
    BY <1>1, <1>4, GoesOn DEF StartRecord
  <2> QED
    BY <1>1, <1>4, <2>2, <2>3 DEF StartRecord, Tasked
<1>5. CASE Record(t)
  BY <1>1, <1>2, <1>5 DEF Record
<1>6. CASE StartSnapshot(t)
  BY <1>1, <1>2, <1>6 DEF StartSnapshot
<1>7. CASE ReadTotals(t)
  <2>1. snap' \in [Tasks -> Snapshot]
    BY <1>1, <1>7 DEF ReadTotals, Snapshot, Figured
  <2>2. since' \in [Tasks -> Nat]
    BY <1>1, <1>7 DEF ReadTotals, Figured
  <2> QED
    BY <1>1, <1>2, <1>7, <2>1, <2>2 DEF ReadTotals
<1>8. CASE ReadModels(t)
  <2>1. unread' \in [Tasks -> SUBSET Models]
    BY <1>1, <1>8 DEF ReadModels, Figured
  <2>2. PICK label \in {"recent", "rows"} : Goto(t, label)
    BY <1>8 DEF ReadModels
  <2> QED
    BY <1>1, <1>2, <1>8, <2>1, <2>2 DEF ReadModels
<1>9. CASE ReadRow(t)
  <2>1. PICK m \in unread[t] :
          /\ snap' = [snap EXCEPT ![t].rows[m] = rows[m]]
          /\ unread' = [unread EXCEPT ![t] = unread[t] \ {m}]
          /\ Goto(t, IF unread[t] = {m} THEN "recent" ELSE "rows")
    BY <1>9 DEF ReadRow
  <2>2. m \in Models
    BY <1>1
  <2>3. snap' \in [Tasks -> Snapshot]
    BY <1>1, <2>1, <2>2 DEF Snapshot, Figured
  <2>4. unread' \in [Tasks -> SUBSET Models]
    BY <1>1, <2>1
  <2>5. PICK label \in {"recent", "rows"} : Goto(t, label)
    BY <2>1
  <2> QED
    BY <1>1, <1>2, <1>9, <2>3, <2>4, <2>5 DEF ReadRow
<1>10. CASE ReadRecent(t)
  <2>1. Reverse(recent) \in Seq(Entry)
    BY ReversedList DEF Figured
  <2>2. snap' \in [Tasks -> Snapshot]
    BY <1>1, <1>10, <2>1 DEF ReadRecent, Snapshot
  <2> QED
    BY <1>1, <1>2, <1>10, <2>2 DEF ReadRecent
<1>11. CASE Fault(t)
  BY <1>1, <1>2, <1>11 DEF Fault
<1>12. CASE Leave(t)
  <2>1. EmptySnapshot \in Snapshot
    BY DEF EmptySnapshot, Snapshot, EmptyRow, Row
  <2>2. snap' \in [Tasks -> Snapshot] /\ unread' \in [Tasks -> SUBSET Models]
        /\ since' \in [Tasks -> Nat]
    BY <1>1, <1>12, <2>1 DEF Leave
  <2>3. DOMAIN item' = Tasks /\ \A u \in Tasks : u # t => item'[u] = item[u]
    BY <1>1, <1>12 DEF Leave
  <2>4. /\ DOMAIN pc' = Tasks /\ pc'[t] = "idle"
        /\ \A u \in Tasks : u # t => pc'[u] = pc[u]
    BY <1>1, <1>12, GoesOn DEF Leave
  <2> QED
    BY <1>1, <2>2, <2>3, <2>4 DEF Tasked
<1> QED
  BY <1>4, <1>5, <1>6, <1>7, <1>8, <1>9, <1>10, <1>11, <1>12

\* The figures change by transactions only.
LEMMA FiguresStep ==
  ASSUME NEW t \in Tasks,
         \/ StartRecord(t) \/ Record(t) \/ StartSnapshot(t) \/ ReadTotals(t)
         \/ ReadModels(t) \/ ReadRow(t) \/ ReadRecent(t) \/ Fault(t) \/ Leave(t)
  PROVE  \/ pc[t] = "record" /\ Stored(t)
         \/ UNCHANGED <<figures, log>>
  BY DEF StartRecord, Record, StartSnapshot, ReadTotals, ReadModels, ReadRow,
         ReadRecent, Fault, Leave

LEMMA LedgerStep == LedgerInv /\ [Next]_vars => LedgerInv'
<1> SUFFICES ASSUME LedgerInv, [Next]_vars PROVE LedgerInv'
  OBVIOUS
<1>1. Figured /\ Tasked /\ Latest /\ FiguresAgree
  BY DEF LedgerInv, Shape
<1>2. CASE UNCHANGED vars
  BY <1>1, <1>2 DEF LedgerInv, Shape, Figured, Tasked, Latest, FiguresAgree, vars, figures
<1>3. ASSUME NEW t \in Tasks,
             \/ StartRecord(t) \/ Record(t) \/ StartSnapshot(t) \/ ReadTotals(t)
             \/ ReadModels(t) \/ ReadRow(t) \/ ReadRecent(t) \/ Fault(t) \/ Leave(t)
      PROVE  LedgerInv'
  <2>1. Tasked'
    BY <1>1, <1>3, TaskedStep
  <2>2. CASE pc[t] = "record" /\ Stored(t)
    <3>1. item[t] \in Entry
      BY <1>1, <2>2 DEF Tasked
    <3>2. Figured' /\ Latest' /\ FiguresAgree'
      BY <2>2, <3>1, StoredKeeps DEF Figured
    <3> QED
      BY <2>1, <3>2 DEF LedgerInv, Shape
  <2>3. CASE UNCHANGED <<figures, log>>
    BY <1>1, <2>1, <2>3 DEF LedgerInv, Shape, Figured, Latest, FiguresAgree, figures
  <2> QED
    BY <1>3, <2>2, <2>3, FiguresStep
<1> QED
  BY <1>2, <1>3 DEF Next

\* The last records of the log are the list of Redis, turned round.
LEMMA LatestTurned ==
  ASSUME Shape, Latest
  PROVE  Reverse(recent) = MemoryRecent(log)
<1> DEFINE n == Len(log)
           k == Len(recent)
           first == IF Len(log) > RecentSize THEN Len(log) - RecentSize + 1 ELSE 1
<1>1. /\ RecentSize \in Nat /\ n \in Nat /\ k \in Nat /\ log \in Seq(Entry)
      /\ k = IF n > RecentSize THEN RecentSize ELSE n
      /\ \A i \in 1 .. k : recent[i] = log[n + 1 - i]
  BY LedgerAssumption DEF Shape, Figured, Latest
<1>2. first \in 1 .. n + 1 /\ first = n - k + 1
  BY <1>1
<1>3. MemoryRecent(log) = SubSeq(log, first, n)
  BY DEF MemoryRecent
<1>4. Reverse(recent) = [i \in 1 .. k |-> recent[(k - i) + 1]]
  BY DEF Reverse
<1> HIDE DEF n, k, first
<1>5. /\ SubSeq(log, first, n) \in Seq(Entry)
      /\ Len(SubSeq(log, first, n)) = k
      /\ \A i \in 1 .. k : SubSeq(log, first, n)[i] = log[first + i - 1]
  <2>1. n = Len(log)
    BY DEF n
  <2>2. first \in Int /\ n \in Int /\ n - first + 1 = k /\ (first <= n <=> k # 0)
    BY <1>1, <1>2
  <2>3. \A i \in first .. n : log[i] \in Entry
    BY <1>1, <1>2, <2>1
  <2> QED
    BY <1>1, <2>2, <2>3, SubSeqProperties
<1>6. SubSeq(log, first, n) = [i \in 1 .. k |-> SubSeq(log, first, n)[i]]
  BY <1>5
<1>7. ASSUME NEW i \in 1 .. k PROVE recent[(k - i) + 1] = SubSeq(log, first, n)[i]
  <2>1. (k - i) + 1 \in 1 .. k /\ n + 1 - ((k - i) + 1) = first + i - 1
    BY <1>1, <1>2
  <2> QED
    BY <1>1, <1>5, <2>1
<1> QED
  BY <1>3, <1>4, <1>6, <1>7

\* Whatever was lost on the way and whichever transaction came first, every
\* figure of Redis is the one that the memory backend would compute.
THEOREM LedgersAgree == Spec => []BackendsAgree
<1>1. LedgerInv => BackendsAgree
  <2> SUFFICES ASSUME LedgerInv PROVE BackendsAgree
    OBVIOUS
  <2>1. Shape /\ Latest /\ FiguresAgree
    BY DEF LedgerInv
  <2>2. models = {m \in Models : rows[m].requests > 0}
    BY <2>1 DEF Shape, Figured, FiguresAgree
  <2>3. Reverse(recent) = MemoryRecent(log)
    BY <2>1, LatestTurned
  <2> QED
    BY <2>1, <2>2, <2>3 DEF BackendsAgree, FiguresAgree
<1> QED
  BY <1>1, LedgerInit, LedgerStep, PTL DEF Spec

-----------------------------------------------------------------------------
(* Snapshots. *)

\* The log when the snapshot was begun.
Before(t) == SubSeq(log, 1, since[t])

SnapshotOf(t) ==
  /\ pc[t] \in {"idle", "totals", "models"} => snap[t].rows = EmptySnapshot.rows
  /\ pc[t] \in {"models", "rows", "recent", "shown"} =>
       /\ since[t] <= Len(log)
       /\ snap[t].totals = MemoryTotals(Before(t))
       /\ \A m \in Models : NoMoreThan(MemoryRow(Before(t), m), rows[m])
  /\ pc[t] \in {"rows", "recent", "shown"} =>
       \A m \in Models : m \notin unread[t] =>
         /\ NoMoreThan(MemoryRow(Before(t), m), snap[t].rows[m])
         /\ NoMoreThan(snap[t].rows[m], rows[m])
  /\ pc[t] \in {"recent", "shown"} => unread[t] = {}
  /\ pc[t] = "shown" =>
       \E end \in since[t] .. Len(log) :
         snap[t].recent = MemoryRecent(SubSeq(log, 1, end))

SnapshotInv == LedgerInv /\ \A t \in Tasks : SnapshotOf(t)

LEMMA PrefixKept ==
  ASSUME NEW list \in Seq(Entry), NEW e \in Entry, NEW k \in 0 .. Len(list)
  PROVE  SubSeq(Append(list, e), 1, k) = SubSeq(list, 1, k)
<1> DEFINE longer == Append(list, e)
<1>1. /\ Len(list) \in Nat /\ k \in Int /\ k \in Nat /\ k - 1 + 1 = k
      /\ \A i \in 1 .. k : longer[i] = list[i] /\ list[i] \in Entry
  BY Appended
<1> HIDE DEF longer
<1>2. /\ SubSeq(longer, 1, k) \in Seq(Entry) /\ SubSeq(list, 1, k) \in Seq(Entry)
      /\ Len(SubSeq(longer, 1, k)) = Len(SubSeq(list, 1, k))
      /\ Len(SubSeq(list, 1, k)) = k
      /\ \A i \in 1 .. k : /\ SubSeq(longer, 1, k)[i] = longer[1 + i - 1]
                           /\ SubSeq(list, 1, k)[i] = list[1 + i - 1]
  BY <1>1, SubSeqProperties
<1>3. \A i \in 1 .. k : SubSeq(longer, 1, k)[i] = SubSeq(list, 1, k)[i]
  BY <1>1, <1>2
<1>4. SubSeq(longer, 1, k) = SubSeq(list, 1, k)
  BY <1>2, <1>3, SeqEqual
<1> QED
  BY <1>4 DEF longer

LEMMA NoMoreThanIsAnOrder ==
  ASSUME NEW a \in Row, NEW b \in Row, NEW c \in Row
  PROVE  /\ NoMoreThan(a, a)
         /\ NoMoreThan(a, b) /\ NoMoreThan(b, c) => NoMoreThan(a, c)
  BY DEF Row, NoMoreThan

\* A task that does not move keeps what it has read, whatever is recorded.
LEMMA SnapshotKept ==
  ASSUME LedgerInv, NEW t \in Tasks, SnapshotOf(t), NEW u \in Tasks,
         (pc[u] = "record" /\ Stored(u)) \/ UNCHANGED <<figures, log>>,
         pc'[t] = pc[t], snap'[t] = snap[t], unread'[t] = unread[t],
         since'[t] = since[t]
  PROVE  SnapshotOf(t)'
<1>1. CASE UNCHANGED <<figures, log>>
  BY <1>1 DEF SnapshotOf, Before, figures
<1>2. CASE pc[u] = "record" /\ Stored(u)
  <2>1. item[u] \in Entry /\ log \in Seq(Entry) /\ Len(log) \in Nat
        /\ rows \in [Models -> Row] /\ since[t] \in Nat /\ snap[t].rows \in [Models -> Row]
    BY <1>2 DEF LedgerInv, Shape, Figured, Tasked, Snapshot
  <2>2. /\ log' = Append(log, item[u]) /\ Len(log') = Len(log) + 1
        /\ rows' \in [Models -> Row]
        /\ \A m \in Models : NoMoreThan(rows[m], rows'[m])
    BY <1>2, <2>1, StoredKeeps, Appended
  <2>3. since[t] <= Len(log) => /\ Before(t)' = Before(t) /\ Before(t) \in Seq(Entry)
    <3> SUFFICES ASSUME since[t] <= Len(log)
                 PROVE  Before(t)' = Before(t) /\ Before(t) \in Seq(Entry)
      OBVIOUS
    <3>1. since[t] \in 0 .. Len(log) /\ since[t] \in Int
          /\ \A i \in 1 .. since[t] : log[i] \in Entry
      BY <2>1
    <3>2. Before(t) \in Seq(Entry)
      BY <3>1, SubSeqProperties DEF Before
    <3> QED
      BY <2>1, <2>2, <3>1, <3>2, PrefixKept DEF Before
  <2>4. \A m \in Models : since[t] <= Len(log) => MemoryRow(Before(t), m) \in Row
    BY <2>1, <2>3, RowGrows
  <2>5. pc'[t] \in {"models", "rows", "recent", "shown"} =>
          /\ since'[t] <= Len(log')
          /\ snap'[t].totals = MemoryTotals(Before(t)')
          /\ \A m \in Models : NoMoreThan(MemoryRow(Before(t)', m), rows'[m])
    <3> SUFFICES ASSUME pc'[t] \in {"models", "rows", "recent", "shown"}
                 PROVE  /\ since'[t] <= Len(log')
                        /\ snap'[t].totals = MemoryTotals(Before(t)')
                        /\ \A m \in Models : NoMoreThan(MemoryRow(Before(t)', m), rows'[m])
      OBVIOUS
    <3>1. /\ since[t] <= Len(log) /\ snap[t].totals = MemoryTotals(Before(t))
          /\ \A m \in Models : NoMoreThan(MemoryRow(Before(t), m), rows[m])
      BY DEF SnapshotOf
    <3>2. since'[t] <= Len(log')
      BY <2>1, <2>2, <3>1
    <3>3. Before(t)' = Before(t)
      BY <2>3, <3>1
    <3>4. ASSUME NEW m \in Models PROVE NoMoreThan(MemoryRow(Before(t), m), rows'[m])
      <4>1. MemoryRow(Before(t), m) \in Row /\ rows[m] \in Row /\ rows'[m] \in Row
        BY <2>1, <2>2, <2>4, <3>1
      <4> QED
        BY <2>2, <3>1, <4>1, NoMoreThanIsAnOrder
    <3> QED
      BY <3>1, <3>2, <3>3, <3>4
  <2>6. pc'[t] \in {"rows", "recent", "shown"} =>
          \A m \in Models : m \notin unread'[t] =>
            /\ NoMoreThan(MemoryRow(Before(t)', m), snap'[t].rows[m])
            /\ NoMoreThan(snap'[t].rows[m], rows'[m])
    <3> SUFFICES ASSUME pc'[t] \in {"rows", "recent", "shown"},
                        NEW m \in Models, m \notin unread'[t]
                 PROVE  /\ NoMoreThan(MemoryRow(Before(t)', m), snap'[t].rows[m])
                        /\ NoMoreThan(snap'[t].rows[m], rows'[m])
      OBVIOUS
    <3>1. /\ since[t] <= Len(log)
          /\ NoMoreThan(MemoryRow(Before(t), m), snap[t].rows[m])
          /\ NoMoreThan(snap[t].rows[m], rows[m])
      BY DEF SnapshotOf
    <3>2. snap[t].rows[m] \in Row /\ rows[m] \in Row /\ rows'[m] \in Row
      BY <2>1, <2>2
    <3>3. NoMoreThan(snap[t].rows[m], rows'[m])
      BY <2>2, <3>1, <3>2, NoMoreThanIsAnOrder
    <3> QED
      BY <2>3, <3>1, <3>3
  <2>7. pc'[t] = "shown" =>
          \E end \in since'[t] .. Len(log') :
            snap'[t].recent = MemoryRecent(SubSeq(log', 1, end))
    <3> SUFFICES ASSUME pc'[t] = "shown"
                 PROVE  \E end \in since'[t] .. Len(log') :
                          snap'[t].recent = MemoryRecent(SubSeq(log', 1, end))
      OBVIOUS
    <3>1. PICK end \in since[t] .. Len(log) :
            snap[t].recent = MemoryRecent(SubSeq(log, 1, end))
      BY DEF SnapshotOf
    <3>2. end \in since[t] .. Len(log') /\ end \in 0 .. Len(log)
      BY <2>1, <2>2
    <3>3. SubSeq(log', 1, end) = SubSeq(log, 1, end)
      BY <2>1, <2>2, <3>2, PrefixKept
    <3> QED
      BY <3>1, <3>2, <3>3
  <2> QED
    BY <2>5, <2>6, <2>7 DEF SnapshotOf
<1> QED
  BY <1>1, <1>2

\* A task's own step reads what its snapshot may show.
LEMMA SnapshotRead ==
  ASSUME LedgerInv, NEW t \in Tasks, SnapshotOf(t),
         \/ StartRecord(t) \/ Record(t) \/ StartSnapshot(t) \/ ReadTotals(t)
         \/ ReadModels(t) \/ ReadRow(t) \/ ReadRecent(t) \/ Fault(t) \/ Leave(t)
  PROVE  SnapshotOf(t)'
<1>1. /\ DOMAIN pc = Tasks /\ snap \in [Tasks -> Snapshot]
      /\ unread \in [Tasks -> SUBSET Models] /\ since \in [Tasks -> Nat]
      /\ log \in Seq(Entry) /\ Len(log) \in Nat /\ rows \in [Models -> Row]
      /\ models \in SUBSET Models
  BY DEF LedgerInv, Shape, Figured, Tasked
<1>2. ASSUME NEW label, Goto(t, label)
      PROVE  pc'[t] = label
  BY <1>1, <1>2 DEF Goto
<1>3. ASSUME pc'[t] \in {"record", "done"} PROVE SnapshotOf(t)'
  BY <1>3 DEF SnapshotOf
<1>4. CASE StartRecord(t)
  BY <1>2, <1>3, <1>4 DEF StartRecord
<1>5. CASE Record(t)
  BY <1>2, <1>3, <1>5 DEF Record
<1>6. CASE Fault(t)
  BY <1>2, <1>3, <1>6 DEF Fault
<1>7. CASE StartSnapshot(t)
  <2>1. pc[t] = "idle" /\ pc'[t] = "totals" /\ snap'[t] = snap[t]
    BY <1>2, <1>7 DEF StartSnapshot
  <2> QED
    BY <2>1 DEF SnapshotOf
<1>8. CASE ReadTotals(t)
  <2>1. /\ pc[t] = "totals" /\ pc'[t] = "models" /\ log' = log /\ rows' = rows
        /\ snap'[t].totals = totals /\ snap'[t].rows = snap[t].rows
        /\ since'[t] = Len(log)
    BY <1>1, <1>2, <1>8 DEF ReadTotals, figures, Snapshot
  <2>2. Before(t)' = log
    BY <1>1, <2>1, SubSeqFull DEF Before
  <2>3. totals = MemoryTotals(log) /\ \A m \in Models : rows[m] = MemoryRow(log, m)
    BY DEF LedgerInv, FiguresAgree
  <2>4. \A m \in Models : NoMoreThan(MemoryRow(log, m), rows[m])
    BY <1>1, <2>3, NoMoreThanIsAnOrder
  <2>5. snap[t].rows = EmptySnapshot.rows
    BY <2>1 DEF SnapshotOf
  <2> QED
    BY <1>1, <2>1, <2>2, <2>3, <2>4, <2>5 DEF SnapshotOf
<1>9. CASE ReadModels(t)
  <2>1. /\ pc[t] = "models" /\ log' = log /\ rows' = rows
        /\ snap'[t] = snap[t] /\ since'[t] = since[t] /\ unread'[t] = models
        /\ pc'[t] = IF models = {} THEN "recent" ELSE "rows"
    BY <1>1, <1>2, <1>9 DEF ReadModels, figures
  <2>2. Before(t)' = Before(t)
    BY <2>1 DEF Before
  <2>3. /\ snap[t].rows = EmptySnapshot.rows
        /\ since[t] <= Len(log)
        /\ snap[t].totals = MemoryTotals(Before(t))
        /\ \A m \in Models : NoMoreThan(MemoryRow(Before(t), m), rows[m])
    BY <2>1 DEF SnapshotOf
  <2>4. ASSUME NEW m \in Models, m \notin models
        PROVE  rows[m] = EmptyRow /\ snap[t].rows[m] = EmptyRow
    <3>1. rows[m].requests \in Nat
      BY <1>1 DEF Row
    <3>2. ~(rows[m].requests > 0) /\ (rows[m].requests = 0 => rows[m] = EmptyRow)
      BY <2>4 DEF LedgerInv, FiguresAgree
    <3>3. snap[t].rows[m] = EmptyRow
      BY <2>3 DEF EmptySnapshot
    <3> QED
      BY <3>1, <3>2, <3>3
  <2>5. NoMoreThan(EmptyRow, EmptyRow)
    BY DEF NoMoreThan, EmptyRow
  <2>6. \A m \in Models : m \notin unread'[t] =>
          /\ NoMoreThan(MemoryRow(Before(t)', m), snap'[t].rows[m])
          /\ NoMoreThan(snap'[t].rows[m], rows'[m])
    BY <2>1, <2>2, <2>3, <2>4, <2>5
  <2> QED
    BY <2>1, <2>2, <2>3, <2>6 DEF SnapshotOf
<1>10. CASE ReadRow(t)
  <2>1. PICK m \in unread[t] :
          /\ snap' = [snap EXCEPT ![t].rows[m] = rows[m]]
          /\ unread' = [unread EXCEPT ![t] = unread[t] \ {m}]
          /\ Goto(t, IF unread[t] = {m} THEN "recent" ELSE "rows")
    BY <1>10 DEF ReadRow
  <2>2. /\ pc[t] = "rows" /\ log' = log /\ rows' = rows /\ since' = since
        /\ pc'[t] = IF unread[t] = {m} THEN "recent" ELSE "rows"
    BY <1>2, <1>10, <2>1 DEF ReadRow, figures
  <2>3. /\ m \in Models /\ unread'[t] = unread[t] \ {m}
        /\ snap'[t].totals = snap[t].totals
        /\ \A k \in Models :
             snap'[t].rows[k] = IF k = m THEN rows[m] ELSE snap[t].rows[k]
    BY <1>1, <2>1 DEF Snapshot
  <2>4. Before(t)' = Before(t)
    BY <2>2 DEF Before
  <2>5. /\ since[t] <= Len(log)
        /\ snap[t].totals = MemoryTotals(Before(t))
        /\ \A k \in Models : NoMoreThan(MemoryRow(Before(t), k), rows[k])
        /\ \A k \in Models : k \notin unread[t] =>
             /\ NoMoreThan(MemoryRow(Before(t), k), snap[t].rows[k])
             /\ NoMoreThan(snap[t].rows[k], rows[k])
    BY <2>2 DEF SnapshotOf
  <2>6. \A k \in Models : k \notin unread'[t] =>
          /\ NoMoreThan(MemoryRow(Before(t)', k), snap'[t].rows[k])
          /\ NoMoreThan(snap'[t].rows[k], rows'[k])
    <3> SUFFICES ASSUME NEW k \in Models, k \notin unread'[t]
                 PROVE  /\ NoMoreThan(MemoryRow(Before(t)', k), snap'[t].rows[k])
                        /\ NoMoreThan(snap'[t].rows[k], rows'[k])
      OBVIOUS
    <3>1. NoMoreThan(rows[m], rows[m])
      BY <1>1, <2>3, NoMoreThanIsAnOrder
    <3> QED
      BY <2>2, <2>3, <2>4, <2>5, <3>1
  <2>7. pc'[t] = "recent" => unread'[t] = {}
    BY <2>2, <2>3
  <2> QED
    BY <2>2, <2>3, <2>4, <2>5, <2>6, <2>7 DEF SnapshotOf
<1>11. CASE ReadRecent(t)
  <2>1. /\ pc[t] = "recent" /\ pc'[t] = "shown" /\ log' = log /\ rows' = rows
        /\ since' = since /\ unread' = unread
        /\ snap'[t].recent = Reverse(recent)
        /\ snap'[t].totals = snap[t].totals /\ snap'[t].rows = snap[t].rows
    BY <1>1, <1>2, <1>11 DEF ReadRecent, figures, Snapshot
  <2>2. Before(t)' = Before(t)
    BY <2>1 DEF Before
  <2>3. since[t] <= Len(log) /\ since[t] \in Nat
    BY <1>1, <2>1 DEF SnapshotOf
  <2>4. snap'[t].recent = MemoryRecent(SubSeq(log, 1, Len(log)))
    <3>1. SubSeq(log, 1, Len(log)) = log
      BY <1>1, SubSeqFull
    <3> QED
      BY <2>1, <3>1, LatestTurned DEF LedgerInv
  <2>5. Len(log) \in since[t] .. Len(log)
    BY <1>1, <2>3
  <2> QED
    BY <2>1, <2>2, <2>4, <2>5 DEF SnapshotOf
<1>12. CASE Leave(t)
  <2>1. pc'[t] = "idle" /\ snap'[t] = EmptySnapshot
    BY <1>1, <1>2, <1>12 DEF Leave
  <2> QED
    BY <2>1 DEF SnapshotOf
<1> QED
  BY <1>4, <1>5, <1>6, <1>7, <1>8, <1>9, <1>10, <1>11, <1>12

LEMMA SnapshotStep == SnapshotInv /\ [Next]_vars => SnapshotInv'
<1> SUFFICES ASSUME SnapshotInv, [Next]_vars PROVE SnapshotInv'
  OBVIOUS
<1>1. LedgerInv /\ LedgerInv' /\ \A t \in Tasks : SnapshotOf(t)
  BY LedgerStep DEF SnapshotInv
<1>2. CASE UNCHANGED vars
  BY <1>1, <1>2 DEF SnapshotInv, SnapshotOf, Before, vars, figures
<1>3. ASSUME NEW u \in Tasks,
             \/ StartRecord(u) \/ Record(u) \/ StartSnapshot(u) \/ ReadTotals(u)
             \/ ReadModels(u) \/ ReadRow(u) \/ ReadRecent(u) \/ Fault(u) \/ Leave(u),
             NEW t \in Tasks
      PROVE  SnapshotOf(t)'
  <2>1. CASE t = u
    BY <1>1, <1>3, <2>1, SnapshotRead
  <2>2. CASE t # u
    <3>1. /\ pc'[t] = pc[t] /\ snap'[t] = snap[t] /\ unread'[t] = unread[t]
          /\ since'[t] = since[t]
      <4>1. DOMAIN pc = Tasks /\ snap \in [Tasks -> Snapshot]
            /\ unread \in [Tasks -> SUBSET Models] /\ since \in [Tasks -> Nat]
        BY <1>1 DEF LedgerInv, Shape, Tasked
      <4> QED
        BY <1>3, <2>2, <4>1
           DEF StartRecord, Record, StartSnapshot, ReadTotals, ReadModels, ReadRow,
               ReadRecent, Fault, Leave, Goto
    <3>2. (pc[u] = "record" /\ Stored(u)) \/ UNCHANGED <<figures, log>>
      BY <1>3, FiguresStep
    <3> QED
      BY <1>1, <3>1, <3>2, SnapshotKept
  <2> QED
    BY <2>1, <2>2
<1>4. CASE Next
  <2>1. \A t \in Tasks : SnapshotOf(t)'
    BY <1>3, <1>4 DEF Next
  <2> QED
    BY <1>1, <2>1 DEF SnapshotInv
<1> QED
  BY <1>2, <1>4

\* A snapshot read while others recorded errs in one direction only: totals
\* of its beginning, rows of its beginning or later, records of its end.
THEOREM SnapshotsErrOneWay == Spec => []SnapshotBounds
<1>1. Init => SnapshotInv
  <2> SUFFICES ASSUME Init PROVE SnapshotInv
    OBVIOUS
  <2>1. \A t \in Tasks : pc[t] = "idle" /\ snap[t] = EmptySnapshot
    BY DEF Init
  <2> QED
    BY <2>1, LedgerInit DEF SnapshotInv, SnapshotOf
<1>2. SnapshotInv => SnapshotBounds
  <2> SUFFICES ASSUME SnapshotInv, NEW t \in Tasks, pc[t] = "shown"
               PROVE  /\ snap[t].totals = MemoryTotals(SubSeq(log, 1, since[t]))
                      /\ \A m \in Models :
                           /\ NoMoreThan(MemoryRow(SubSeq(log, 1, since[t]), m),
                                         snap[t].rows[m])
                           /\ NoMoreThan(snap[t].rows[m], MemoryRow(log, m))
                      /\ \E end \in since[t] .. Len(log) :
                           snap[t].recent = MemoryRecent(SubSeq(log, 1, end))
    BY DEF SnapshotBounds
  <2>1. SnapshotOf(t) /\ \A m \in Models : rows[m] = MemoryRow(log, m)
    BY DEF SnapshotInv, LedgerInv, FiguresAgree
  <2> QED
    BY <2>1 DEF SnapshotOf, Before
<1> QED
  BY <1>1, <1>2, SnapshotStep, PTL DEF Spec
=============================================================================
