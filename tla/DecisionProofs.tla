--------------------------- MODULE DecisionProofs ---------------------------
(***************************************************************************)
(* Theorems about modules Candidates and PolicyEngine, for any number of   *)
(* requests, any names, configurations, rules and edits.                   *)
(***************************************************************************)
EXTENDS Candidates, PolicyEngine, FiniteSetTheorems, SequenceTheorems, TLAPS

-----------------------------------------------------------------------------
(* Sorted. *)

StrictOrder(S, less) ==
  /\ \A x \in S : <<x, x>> \notin less
  /\ \A x, y \in S : x # y => <<x, y>> \in less \/ <<y, x>> \in less
  /\ \A x, y, z \in S :
       <<x, y>> \in less /\ <<y, z>> \in less => <<x, z>> \in less

Below(S, less, x) == {y \in S : <<y, x>> \in less}

\* What comes later in a finite order has more below it.
LEMMA RankGrows ==
  ASSUME NEW S, IsFiniteSet(S), NEW less, StrictOrder(S, less), NEW x \in S
  PROVE  /\ Cardinality(Below(S, less, x)) \in 0 .. Cardinality(S) - 1
         /\ \A y \in S : <<x, y>> \in less =>
              Cardinality(Below(S, less, x)) < Cardinality(Below(S, less, y))
<1>1. ASSUME NEW y \in S
      PROVE  IsFiniteSet(Below(S, less, y)) /\ Cardinality(Below(S, less, y)) \in Nat
  <2>1. Below(S, less, y) \in SUBSET S
    BY DEF Below
  <2> QED
    BY <2>1, FS_Subset, FS_CardinalityType
<1>2. Cardinality(Below(S, less, x)) < Cardinality(S)
  <2>1. Below(S, less, x) \in SUBSET S /\ Below(S, less, x) # S
    BY DEF Below, StrictOrder
  <2>2. Cardinality(Below(S, less, x)) <= Cardinality(S)
    BY <2>1, FS_Subset
  <2>3. Cardinality(Below(S, less, x)) # Cardinality(S)
    BY <2>1, FS_Subset
  <2> QED
    BY <1>1, <2>2, <2>3, FS_CardinalityType
<1>3. ASSUME NEW y \in S, <<x, y>> \in less
      PROVE  Cardinality(Below(S, less, x)) < Cardinality(Below(S, less, y))
  <2>1. /\ Below(S, less, x) \in SUBSET Below(S, less, y)
        /\ Below(S, less, x) # Below(S, less, y)
    BY <1>3 DEF Below, StrictOrder
  <2>2. Cardinality(Below(S, less, x)) <= Cardinality(Below(S, less, y))
    BY <1>1, <2>1, FS_Subset
  <2>3. Cardinality(Below(S, less, x)) # Cardinality(Below(S, less, y))
    BY <1>1, <2>1, FS_Subset
  <2> QED
    BY <1>1, <2>2, <2>3
<1> QED
  BY <1>1, <1>2, <1>3, FS_CardinalityType

\* Sorted lists every member of a finite set once, in the given order.
LEMMA SortedLists ==
  ASSUME NEW S, IsFiniteSet(S), NEW less, StrictOrder(S, less)
  PROVE  /\ Cardinality(S) \in Nat
         /\ Sorted(S, less) \in [1 .. Cardinality(S) -> S]
         /\ \A x \in S : \E k \in 1 .. Cardinality(S) : Sorted(S, less)[k] = x
         /\ \A i, j \in 1 .. Cardinality(S) :
              /\ i < j => <<Sorted(S, less)[i], Sorted(S, less)[j]>> \in less
              /\ i # j => Sorted(S, less)[i] # Sorted(S, less)[j]
<1> DEFINE n == Cardinality(S)
           rank == [x \in S |-> Cardinality(Below(S, less, x))]
           T == 0 .. n - 1
           sorted == Sorted(S, less)
<1>1. n \in Nat
  BY FS_CardinalityType
<1>2. \A x \in S : rank[x] \in T
  BY RankGrows
<1>3. \A x, y \in S : <<x, y>> \in less => rank[x] < rank[y]
  BY RankGrows
<1>4. \A x, y \in S : x # y => rank[x] # rank[y]
  <2> SUFFICES ASSUME NEW x \in S, NEW y \in S, x # y PROVE rank[x] # rank[y]
    OBVIOUS
  <2>1. rank[x] \in Int /\ rank[y] \in Int
    BY <1>1, <1>2
  <2>2. <<x, y>> \in less \/ <<y, x>> \in less
    BY DEF StrictOrder
  <2> QED
    BY <1>3, <2>1, <2>2
<1>5. rank \in Injection(S, T)
  BY <1>2, <1>4 DEF Injection, IsInjective
<1>6. IsFiniteSet(T) /\ Cardinality(T) = n
  BY <1>1, FS_Interval
<1>7. rank \in Surjection(S, T)
  BY <1>5, <1>6, FS_Injection
<1>8. \A k \in T : \E x \in S : rank[x] = k
  BY <1>7 DEF Surjection
<1>9. ASSUME NEW k \in 1 .. n PROVE sorted[k] \in S /\ rank[sorted[k]] = k - 1
  <2>1. k - 1 \in T
    BY <1>1
  <2>2. \E x \in S : Cardinality(Below(S, less, x)) = k - 1
    BY <1>8, <2>1
  <2>3. sorted[k] = CHOOSE x \in S : Cardinality(Below(S, less, x)) = k - 1
    BY DEF Sorted, Below
  <2> QED
    BY <2>2, <2>3
<1>10. sorted \in [1 .. n -> S]
  <2> DEFINE member(k) ==
        CHOOSE x \in S : Cardinality({y \in S : <<y, x>> \in less}) = k - 1
  <2>1. sorted = [k \in 1 .. n |-> member(k)]
    BY DEF Sorted
  <2> HIDE DEF member, sorted
  <2>2. \A k \in 1 .. n : member(k) \in S
    BY <1>9, <2>1
  <2> QED
    BY <2>1, <2>2
<1>11. ASSUME NEW x \in S PROVE \E k \in 1 .. n : sorted[k] = x
  <2>1. PICK k \in 1 .. n : k - 1 = rank[x]
    <3>1. rank[x] \in T
      BY <1>2
    <3> HIDE DEF rank
    <3>2. rank[x] + 1 \in 1 .. n /\ (rank[x] + 1) - 1 = rank[x]
      BY <1>1, <3>1
    <3> QED
      BY <3>2
  <2>2. rank[sorted[k]] = rank[x] /\ sorted[k] \in S
    BY <1>9, <2>1
  <2> QED
    BY <1>4, <2>2
<1>12. ASSUME NEW i \in 1 .. n, NEW j \in 1 .. n
       PROVE  /\ i < j => <<sorted[i], sorted[j]>> \in less
              /\ i # j => sorted[i] # sorted[j]
  <2>1. /\ sorted[i] \in S /\ rank[sorted[i]] = i - 1
        /\ sorted[j] \in S /\ rank[sorted[j]] = j - 1
    BY <1>9
  <2>2. i # j => sorted[i] # sorted[j]
    BY <1>1, <2>1
  <2>3. ~(i < j /\ <<sorted[j], sorted[i]>> \in less)
    BY <1>1, <1>3, <2>1
  <2> QED
    BY <1>1, <2>1, <2>2, <2>3 DEF StrictOrder
<1> HIDE DEF rank, T, sorted
<1> QED
  BY <1>1, <1>10, <1>11, <1>12 DEF sorted

\* A finite order has a first member.
LEMMA FirstExists ==
  ASSUME NEW S, IsFiniteSet(S), NEW less, StrictOrder(S, less), S # {}
  PROVE  \E x \in S : \A y \in S \ {x} : <<x, y>> \in less
<1> DEFINE n == Cardinality(S)
           sorted == Sorted(S, less)
<1>1. /\ n \in Nat /\ sorted \in [1 .. n -> S]
      /\ \A x \in S : \E k \in 1 .. n : sorted[k] = x
      /\ \A i, j \in 1 .. n : i < j => <<sorted[i], sorted[j]>> \in less
  BY SortedLists
<1> HIDE DEF n, sorted
<1>2. 1 \in 1 .. n
  BY <1>1
<1>3. ASSUME NEW y \in S \ {sorted[1]} PROVE <<sorted[1], y>> \in less
  <2>1. PICK k \in 1 .. n : sorted[k] = y
    BY <1>1
  <2>2. 1 < k
    BY <1>1, <2>1
  <2> QED
    BY <1>1, <1>2, <2>1, <2>2
<1> QED
  BY <1>1, <1>2, <1>3

\* The numbers are ordered by size.
LEMMA SizeOrders ==
  ASSUME NEW S \in SUBSET Nat
  PROVE  StrictOrder(S, {p \in S \X S : p[1] < p[2]})
BY DEF StrictOrder

-----------------------------------------------------------------------------
(* The targets that the names of a request stand for. *)

LEMMA ResolveType ==
  ASSUME NEW s \in Snapshots, NEW name \in Names
  PROVE  Resolve(name, s) \in Names
BY CandidatesAssumption DEF Resolve, Range

LEMMA CandidatesType ==
  ASSUME NEW s \in Snapshots, NEW m \in Models
  PROVE  Candidates(m, s) \in Seq(Names) /\ Candidates(m, s) # <<>>
<1> DEFINE base == IF m \in DOMAIN s.pools /\ s.pools[m] # <<>>
                   THEN s.pools[m] ELSE <<m>>
<1>1. base \in Seq(Names) /\ base # <<>>
  BY CandidatesAssumption DEF Range
<1>2. Fallbacks \in Seq(Names)
  BY CandidatesAssumption
<1>3. Candidates(m, s) = base \o Fallbacks
  BY DEF Candidates
<1> HIDE DEF base
<1> QED
  BY <1>1, <1>2, <1>3, ConcatProperties, EmptySeq

\* Every target that is named is named somewhere for the first time.
LEMMA FirstPlace ==
  ASSUME NEW names \in Seq(Names), NEW s, NEW i \in DOMAIN names
  PROVE  \E j \in FirstNamed(names, s) : Resolve(names[j], s) = Resolve(names[i], s)
<1> DEFINE same == {j \in 1 .. Len(names) : Resolve(names[j], s) = Resolve(names[i], s)}
           less == {p \in same \X same : p[1] < p[2]}
<1>1. DOMAIN names = 1 .. Len(names) /\ Len(names) \in Nat
  OBVIOUS
<1>2. IsFiniteSet(1 .. Len(names))
  BY <1>1, FS_Interval
<1>3. same \in SUBSET (1 .. Len(names))
  OBVIOUS
<1>4. IsFiniteSet(same) /\ same # {}
  BY <1>1, <1>2, <1>3, FS_Subset
<1>5. StrictOrder(same, less)
  BY <1>1, <1>3, SizeOrders
<1> HIDE DEF same, less
<1>6. PICK j \in same : \A k \in same \ {j} : <<j, k>> \in less
  BY <1>4, <1>5, FirstExists
<1>7. /\ j \in 1 .. Len(names) /\ Resolve(names[j], s) = Resolve(names[i], s)
      /\ \A k \in same \ {j} : j < k
  BY <1>6 DEF same, less
<1>8. ASSUME NEW k \in 1 .. j - 1, Resolve(names[k], s) = Resolve(names[j], s)
      PROVE  FALSE
  <2>1. k \in same /\ k # j /\ ~(j < k)
    BY <1>1, <1>7, <1>8 DEF same
  <2> QED
    BY <1>7, <2>1
<1> QED
  BY <1>1, <1>7, <1>8 DEF FirstNamed

\* list is what is left of names, place telling where each target comes from.
Keeps(list, names, s, place) ==
  /\ list \in Seq(Names)
  /\ place \in [1 .. Len(list) -> FirstNamed(names, s)]
  /\ \A i, j \in 1 .. Len(list) : i < j => place[i] < place[j]
  /\ \A k \in 1 .. Len(list) : list[k] = Resolve(names[place[k]], s)
  /\ \A i \in DOMAIN names : \E k \in 1 .. Len(list) : list[k] = Resolve(names[i], s)

LEMMA DistinctKeeps ==
  ASSUME NEW s \in Snapshots, NEW names \in Seq(Names)
  PROVE  \E place : Keeps(Distinct(names, s), names, s, place)
<1> DEFINE places == FirstNamed(names, s)
           less == {p \in places \X places : p[1] < p[2]}
           place == Sorted(places, less)
           list == Distinct(names, s)
           n == Cardinality(places)
<1>1. DOMAIN names = 1 .. Len(names) /\ Len(names) \in Nat
  OBVIOUS
<1>2. places \in SUBSET (1 .. Len(names)) /\ places \in SUBSET Nat
  BY <1>1 DEF FirstNamed
<1>3. IsFiniteSet(places)
  <2>1. IsFiniteSet(1 .. Len(names))
    BY <1>1, FS_Interval
  <2> HIDE DEF places
  <2> QED
    BY <1>2, <2>1, FS_Subset
<1>4. StrictOrder(places, less)
  BY <1>2, SizeOrders
<1>5. /\ n \in Nat /\ place \in [1 .. n -> places]
      /\ \A i \in places : \E k \in 1 .. n : place[k] = i
      /\ \A i, j \in 1 .. n : i < j => <<place[i], place[j]>> \in less
  <2> HIDE DEF places, less
  <2> QED
    BY <1>3, <1>4, SortedLists
<1>6. list = [k \in DOMAIN place |-> Resolve(names[place[k]], s)]
  BY DEF Distinct
<1>7. \A i \in places : Resolve(names[i], s) \in Names
  BY <1>1, <1>2, ResolveType
<1>8. \A i, j \in 1 .. n : i < j => place[i] < place[j]
  BY <1>5
<1>9. \A i \in DOMAIN names : \E j \in places : Resolve(names[j], s) = Resolve(names[i], s)
  BY FirstPlace
<1> HIDE DEF place, places, list, n
<1>10. /\ list \in Seq(Names) /\ Len(list) = n
       /\ \A k \in 1 .. n : list[k] = Resolve(names[place[k]], s)
  BY <1>5, <1>6, <1>7
<1>11. \A i \in DOMAIN names : \E k \in 1 .. n : list[k] = Resolve(names[i], s)
  BY <1>5, <1>9, <1>10
<1> QED
  BY <1>5, <1>8, <1>10, <1>11 DEF Keeps, places, list

\* Of one target the list has one place.
LEMMA KeepsOnce ==
  ASSUME NEW s, NEW names \in Seq(Names), NEW list, NEW place,
         Keeps(list, names, s, place), NEW i \in 1 .. Len(list), NEW j \in 1 .. Len(list)
  PROVE  /\ place[i] \in 1 .. Len(names)
         /\ list[i] = list[j] => i = j
<1>1. /\ place[i] \in FirstNamed(names, s) /\ place[j] \in FirstNamed(names, s)
      /\ list[i] = Resolve(names[place[i]], s) /\ list[j] = Resolve(names[place[j]], s)
      /\ i < j => place[i] < place[j]
      /\ j < i => place[j] < place[i]
      /\ i \in Int /\ j \in Int
  <2>1. /\ place \in [1 .. Len(list) -> FirstNamed(names, s)]
        /\ \A k, l \in 1 .. Len(list) : k < l => place[k] < place[l]
        /\ \A k \in 1 .. Len(list) : list[k] = Resolve(names[place[k]], s)
    BY DEF Keeps
  <2> QED
    BY <2>1
<1>2. /\ place[i] \in 1 .. Len(names) /\ place[j] \in 1 .. Len(names)
      /\ \A k \in 1 .. place[i] - 1 : Resolve(names[k], s) # list[i]
      /\ \A k \in 1 .. place[j] - 1 : Resolve(names[k], s) # list[j]
  BY <1>1 DEF FirstNamed
<1>3. ASSUME i < j, list[i] = list[j] PROVE FALSE
  <2>1. place[i] \in 1 .. place[j] - 1
    BY <1>1, <1>2, <1>3
  <2> QED
    BY <1>1, <1>2, <1>3, <2>1
<1>4. ASSUME j < i, list[i] = list[j] PROVE FALSE
  <2>1. place[j] \in 1 .. place[i] - 1
    BY <1>1, <1>2, <1>4
  <2> QED
    BY <1>1, <1>2, <1>4, <2>1
<1> QED
  BY <1>1, <1>2, <1>3, <1>4

Meant(names, s) == {Resolve(names[i], s) : i \in DOMAIN names}

\* The list holds every target that is named, once.
LEMMA KeepsAll ==
  ASSUME NEW s, NEW names \in Seq(Names), NEW list, NEW place,
         Keeps(list, names, s, place)
  PROVE  /\ ToSet(list) = Meant(names, s)
         /\ Len(list) = Cardinality(Meant(names, s))
         /\ names # <<>> => list # <<>>
<1> DEFINE standing == Meant(names, s)
<1>1. /\ list \in Seq(Names) /\ Len(list) \in Nat /\ DOMAIN list = 1 .. Len(list)
      /\ DOMAIN names = 1 .. Len(names)
      /\ \A k \in 1 .. Len(list) : list[k] = Resolve(names[place[k]], s)
      /\ \A i \in DOMAIN names : \E k \in 1 .. Len(list) : list[k] = Resolve(names[i], s)
  BY DEF Keeps
<1>2. \A k \in 1 .. Len(list) : place[k] \in DOMAIN names
  BY <1>1, KeepsOnce
<1>3. \A k \in 1 .. Len(list) : list[k] \in standing
  BY <1>1, <1>2 DEF Meant
<1>4. \A t \in standing : \E k \in 1 .. Len(list) : list[k] = t
  BY <1>1 DEF Meant
<1> HIDE DEF standing
<1>5. ToSet(list) = standing
  <2>1. ToSet(list) = {list[k] : k \in 1 .. Len(list)}
    BY <1>1 DEF ToSet
  <2>2. \A t \in standing : t \in ToSet(list)
    BY <1>4, <2>1
  <2>3. \A t \in ToSet(list) : t \in standing
    BY <1>3, <2>1
  <2> QED
    BY <2>2, <2>3
<1>6. Len(list) = Cardinality(standing)
  <2>1. list \in [1 .. Len(list) -> standing]
    BY <1>1, <1>3
  <2>2. IsInjective(list)
    BY <1>1, KeepsOnce DEF IsInjective
  <2>3. list \in Bijection(1 .. Len(list), standing)
    BY <1>4, <2>1, <2>2 DEF Bijection, Injection, Surjection
  <2> QED
    BY <1>1, <2>3, FS_CountingElements DEF ExistsBijection
<1>7. ASSUME names # <<>> PROVE list # <<>>
  <2>1. 1 \in DOMAIN names
    BY <1>1, <1>7
  <2>2. PICK k \in 1 .. Len(list) : list[k] = Resolve(names[1], s)
    BY <1>1, <2>1
  <2> QED
    BY <1>1, <2>2
<1> QED
  BY <1>5, <1>6, <1>7 DEF standing

-----------------------------------------------------------------------------
(* The four orders. *)

\* new has at every place what list has at another one, and leaves none out.
Rearranged(new, list, p) ==
  /\ p \in [1 .. Len(list) -> 1 .. Len(list)]
  /\ \A j \in 1 .. Len(list) : \E i \in 1 .. Len(list) : p[i] = j
  /\ new = [k \in 1 .. Len(list) |-> list[p[k]]]

LEMMA RearrangedSame ==
  ASSUME NEW list \in Seq(Names), NEW new, NEW p, Rearranged(new, list, p)
  PROVE  new \in Seq(Names) /\ Len(new) = Len(list) /\ ToSet(new) = ToSet(list)
<1>1. Len(list) \in Nat /\ DOMAIN list = 1 .. Len(list)
  OBVIOUS
<1>2. new \in Seq(Names) /\ Len(new) = Len(list) /\ DOMAIN new = 1 .. Len(list)
  <2>1. \A k \in 1 .. Len(list) : list[p[k]] \in Names
    BY DEF Rearranged
  <2>2. new \in [1 .. Len(list) -> Names]
    BY <2>1 DEF Rearranged
  <2> QED
    BY <1>1, <2>2
<1>3. ToSet(new) = ToSet(list)
  BY <1>1, <1>2 DEF ToSet, Rearranged
<1> QED
  BY <1>2, <1>3

LEMMA ShuffledRearranged ==
  ASSUME NEW list \in Seq(Names), NEW new \in Shuffles(list)
  PROVE  \E p : Rearranged(new, list, p)
<1>1. DOMAIN list = 1 .. Len(list)
  OBVIOUS
<1>2. PICK p \in Bijection(DOMAIN list, DOMAIN list) :
        new = [i \in DOMAIN list |-> list[p[i]]]
  BY DEF Shuffles
<1>3. Rearranged(new, list, p)
  BY <1>1, <1>2 DEF Rearranged, Bijection, Surjection
<1> QED
  BY <1>3

LEMMA CostOrders ==
  ASSUME NEW list \in Seq(Names), NEW pricing, pricing \in [DOMAIN pricing -> Nat]
  PROVE  StrictOrder(1 .. Len(list), CostOrder(list, pricing))
<1> DEFINE less == CostOrder(list, pricing)
           Leads(i, j) == \/ Cheaper(list[i], list[j], pricing)
                          \/ ~Cheaper(list[j], list[i], pricing) /\ i < j
<1>1. DOMAIN list = 1 .. Len(list) /\ Len(list) \in Nat
  OBVIOUS
<1>2. \A i, j \in 1 .. Len(list) : <<i, j>> \in less <=> Leads(i, j)
  BY <1>1 DEF CostOrder
<1>3. \A t \in DOMAIN pricing : pricing[t] \in Nat
  OBVIOUS
<1> HIDE DEF less
<1>4. \A i \in 1 .. Len(list) : ~Leads(i, i)
  BY <1>1, <1>3 DEF Cheaper
<1>5. \A i, j \in 1 .. Len(list) : i # j => Leads(i, j) \/ Leads(j, i)
  BY <1>1, <1>3 DEF Cheaper
<1>6. \A i, j, k \in 1 .. Len(list) : Leads(i, j) /\ Leads(j, k) => Leads(i, k)
  BY <1>1, <1>3 DEF Cheaper
<1> HIDE DEF Leads
<1> QED
  BY <1>2, <1>4, <1>5, <1>6 DEF StrictOrder, less

\* The list by cost, with the places its targets had before.
LEMMA ByCostRearranged ==
  ASSUME NEW list \in Seq(Names), NEW pricing, pricing \in [DOMAIN pricing -> Nat]
  PROVE  \E p :
           /\ Rearranged(ByCost(list, pricing), list, p)
           /\ \A i, j \in 1 .. Len(list) : i < j =>
                \/ Cheaper(list[p[i]], list[p[j]], pricing)
                \/ ~Cheaper(list[p[j]], list[p[i]], pricing) /\ p[i] < p[j]
<1> DEFINE S == 1 .. Len(list)
           less == CostOrder(list, pricing)
           p == Sorted(S, less)
<1>1. DOMAIN list = S /\ Len(list) \in Nat /\ IsFiniteSet(S)
      /\ Cardinality(S) = Len(list)
  BY FS_Interval
<1>2. StrictOrder(S, less)
  BY CostOrders
<1>3. /\ p \in [1 .. Cardinality(S) -> S]
      /\ \A x \in S : \E k \in 1 .. Cardinality(S) : p[k] = x
      /\ \A i, j \in 1 .. Cardinality(S) : i < j => <<p[i], p[j]>> \in less
  <2>1. IsFiniteSet(S)
    BY <1>1
  <2> HIDE DEF S, less
  <2> QED
    BY <1>2, <2>1, SortedLists
<1>4. ByCost(list, pricing) = [k \in DOMAIN p |-> list[p[k]]]
  BY <1>1 DEF ByCost
<1> HIDE DEF p
<1>5. Rearranged(ByCost(list, pricing), list, p)
  BY <1>1, <1>3, <1>4 DEF Rearranged
<1>6. ASSUME NEW i \in S, NEW j \in S, i < j
      PROVE  \/ Cheaper(list[p[i]], list[p[j]], pricing)
             \/ ~Cheaper(list[p[j]], list[p[i]], pricing) /\ p[i] < p[j]
  <2>1. <<p[i], p[j]>> \in less
    BY <1>1, <1>3, <1>6
  <2> QED
    BY <2>1 DEF CostOrder
<1> QED
  BY <1>5, <1>6

\* Where a list turned around by k begins again.
Turned(n, k) == [i \in 1 .. n |-> IF i <= n - k THEN i + k ELSE i - (n - k)]

LEMMA RotatedRearranged ==
  ASSUME NEW list \in Seq(Names), NEW k \in 0 .. Len(list) - 1
  PROVE  Rearranged(Rotated(list, k), list, Turned(Len(list), k))
<1> DEFINE n == Len(list)
           front == SubSeq(list, k + 1, n)
           back == SubSeq(list, 1, k)
           p == Turned(n, k)
<1>1. n \in Nat /\ k \in Nat /\ k < n /\ \A i \in 1 .. n : list[i] \in Names
  OBVIOUS
<1> HIDE DEF n
<1>2. /\ front \in Seq(Names) /\ Len(front) = n - k
      /\ \A i \in 1 .. n - k : front[i] = list[i + k]
  <2>1. /\ \A i \in k + 1 .. n : list[i] \in Names
        /\ k + 1 \in Int /\ n \in Int /\ k + 1 <= n /\ n - (k + 1) + 1 = n - k
    BY <1>1
  <2>2. /\ front \in Seq(Names) /\ Len(front) = n - (k + 1) + 1
        /\ \A i \in 1 .. n - (k + 1) + 1 : front[i] = list[k + 1 + i - 1]
    BY <2>1, SubSeqProperties
  <2>3. \A i \in 1 .. n - k : k + 1 + i - 1 = i + k
    BY <1>1
  <2> QED
    BY <2>1, <2>2, <2>3
<1>3. /\ back \in Seq(Names) /\ Len(back) = k
      /\ \A i \in 1 .. k : back[i] = list[i]
  <2>1. /\ \A i \in 1 .. k : list[i] \in Names
        /\ 1 \in Int /\ k \in Int /\ k - 1 + 1 = k /\ (IF 1 <= k THEN k ELSE 0) = k
    BY <1>1
  <2>2. /\ back \in Seq(Names) /\ Len(back) = IF 1 <= k THEN k - 1 + 1 ELSE 0
        /\ \A i \in 1 .. k - 1 + 1 : back[i] = list[1 + i - 1]
    BY <2>1, SubSeqProperties
  <2>3. \A i \in 1 .. k : 1 + i - 1 = i
    BY <1>1
  <2> QED
    BY <2>1, <2>2, <2>3
<1> HIDE DEF front, back
<1>4. /\ front \o back \in Seq(Names) /\ Len(front \o back) = n
      /\ \A i \in 1 .. n : (front \o back)[i] =
                             IF i <= n - k THEN front[i] ELSE back[i - (n - k)]
  <2>1. /\ front \o back \in Seq(Names)
        /\ Len(front \o back) = Len(front) + Len(back)
        /\ \A i \in 1 .. Len(front) + Len(back) : (front \o back)[i] =
             IF i <= Len(front) THEN front[i] ELSE back[i - Len(front)]
    BY <1>2, <1>3, ConcatProperties
  <2>2. Len(front) + Len(back) = n
    BY <1>1, <1>2, <1>3
  <2> QED
    BY <1>2, <2>1, <2>2
<1>5. /\ p \in [1 .. n -> 1 .. n]
      /\ \A i \in 1 .. n : p[i] = IF i <= n - k THEN i + k ELSE i - (n - k)
  BY <1>1 DEF Turned
<1> HIDE DEF p
<1>6. ASSUME NEW i \in 1 .. n PROVE (front \o back)[i] = list[p[i]]
  <2>1. CASE i <= n - k
    <3>1. i \in 1 .. n - k
      BY <1>1, <2>1
    <3> QED
      BY <1>2, <1>4, <1>5, <2>1, <3>1
  <2>2. CASE ~(i <= n - k)
    <3>1. i - (n - k) \in 1 .. k
      BY <1>1, <2>2
    <3> QED
      BY <1>3, <1>4, <1>5, <2>2, <3>1
  <2> QED
    BY <2>1, <2>2
<1>7. ASSUME NEW j \in 1 .. n PROVE \E i \in 1 .. n : p[i] = j
  <2>1. CASE j > k
    <3>1. j - k \in 1 .. n /\ p[j - k] = j
      BY <1>1, <1>5, <2>1
    <3> QED
      BY <3>1
  <2>2. CASE j <= k
    <3>1. j + (n - k) \in 1 .. n /\ p[j + (n - k)] = j
      BY <1>1, <1>5, <2>2
    <3> QED
      BY <3>1
  <2> QED
    BY <1>1, <2>1, <2>2
<1>8. front \o back = [i \in 1 .. n |-> list[p[i]]]
  <2>1. \A joined \in Seq(Names) : joined = [i \in 1 .. Len(joined) |-> joined[i]]
    OBVIOUS
  <2>2. front \o back = [i \in 1 .. n |-> (front \o back)[i]]
    BY <1>4, <2>1
  <2> QED
    BY <1>6, <2>2
<1>9. Rotated(list, k) = front \o back
  BY DEF Rotated, front, back, n
<1> QED
  BY <1>5, <1>7, <1>8, <1>9 DEF Rearranged, n, p

-----------------------------------------------------------------------------
(* The cursor. *)

\* The next turn is the next place, or the first one again.
LEMMA NextTurn ==
  ASSUME NEW c \in Nat, NEW n \in Nat \ {0}
  PROVE  /\ (c % n) \in 0 .. n - 1
         /\ ((c + 1) % n) = IF (c % n) = n - 1 THEN 0 ELSE (c % n) + 1
<1>1. /\ c = n * (c \div n) + (c % n) /\ (c % n) \in 0 .. n - 1 /\ c \div n \in Int
      /\ c + 1 = n * ((c + 1) \div n) + ((c + 1) % n)
      /\ ((c + 1) % n) \in 0 .. n - 1 /\ (c + 1) \div n \in Int
  OBVIOUS
<1>2. ASSUME NEW a \in Int, NEW b \in Int, NEW x \in 0 .. n - 1, NEW y \in 0 .. n - 1,
             n * a + x = n * b + y
      PROVE  x = y
  <2>1. n * (a - b) = y - x
    BY <1>2
  <2>2. ~(a - b >= 1)
    <3>1. a - b >= 1 => n * (a - b) >= n
      OBVIOUS
    <3> QED
      BY <2>1, <3>1
  <2>3. ~(b - a >= 1)
    <3>1. b - a >= 1 => n * (b - a) >= n
      OBVIOUS
    <3>2. n * (b - a) = x - y
      BY <1>2
    <3> QED
      BY <3>1, <3>2
  <2>4. a = b
    BY <2>2, <2>3
  <2> QED
    BY <2>1, <2>4
<1>3. CASE (c % n) = n - 1
  <2>1. c + 1 = n * (c \div n + 1) + 0
    BY <1>1, <1>3
  <2>2. c \div n + 1 \in Int /\ 0 \in 0 .. n - 1
    BY <1>1
  <2>3. ((c + 1) % n) = 0
    BY <1>1, <1>2, <2>1, <2>2
  <2> QED
    BY <1>1, <1>3, <2>3
<1>4. CASE (c % n) # n - 1
  <2>1. c + 1 = n * (c \div n) + ((c % n) + 1)
    BY <1>1
  <2>2. (c % n) + 1 \in 0 .. n - 1
    BY <1>1, <1>4
  <2>3. ((c + 1) % n) = (c % n) + 1
    BY <1>1, <1>2, <2>1, <2>2
  <2> QED
    BY <1>1, <1>4, <2>3
<1> QED
  BY <1>3, <1>4

\* How many turns ago place i came first, if the next turn is that of p + 1.
Age(i, p, n) == IF i <= p THEN p - i ELSE p - i + n

\* Every place came first q times, and those of the latest d turns once more.
Even(first, n, p) ==
  \E q \in Nat, d \in 0 .. n - 1 :
    \A i \in 1 .. n : first[i] = IF Age(i, p, n) < d THEN q + 1 ELSE q

LEMMA EvenStart ==
  ASSUME NEW n \in Nat \ {0}, NEW p \in 0 .. n - 1
  PROVE  Even([i \in 1 .. n |-> 0], n, p)
<1>1. \A i \in 1 .. n : ~(Age(i, p, n) < 0)
  BY DEF Age
<1>2. 0 \in Nat /\ 0 \in 0 .. n - 1
  OBVIOUS
<1> QED
  BY <1>1, <1>2 DEF Even

LEMMA EvenTurn ==
  ASSUME NEW n \in Nat \ {0}, NEW p \in 0 .. n - 1,
         NEW first \in [1 .. n -> Nat], Even(first, n, p)
  PROVE  Even([first EXCEPT ![p + 1] = @ + 1], n, IF p = n - 1 THEN 0 ELSE p + 1)
<1> DEFINE next == IF p = n - 1 THEN 0 ELSE p + 1
           more == [first EXCEPT ![p + 1] = @ + 1]
<1>1. PICK q \in Nat, d \in 0 .. n - 1 :
        \A i \in 1 .. n : first[i] = IF Age(i, p, n) < d THEN q + 1 ELSE q
  BY DEF Even
<1>2. /\ p + 1 \in 1 .. n /\ Age(p + 1, p, n) = n - 1 /\ Age(p + 1, next, n) = 0
      /\ \A i \in 1 .. n \ {p + 1} :
           Age(i, p, n) \in 0 .. n - 2 /\ Age(i, next, n) = Age(i, p, n) + 1
  BY DEF Age
<1>3. /\ more[p + 1] = first[p + 1] + 1
      /\ \A i \in 1 .. n \ {p + 1} : more[i] = first[i]
  BY <1>2
<1>4. first[p + 1] = q
  BY <1>1, <1>2
<1> HIDE DEF next, more
<1>5. CASE d < n - 1
  <2>1. d + 1 \in 0 .. n - 1
    BY <1>5
  <2>2. \A i \in 1 .. n : more[i] = IF Age(i, next, n) < d + 1 THEN q + 1 ELSE q
    <3> TAKE i \in 1 .. n
    <3>1. CASE i = p + 1
      BY <1>2, <1>3, <1>4, <3>1
    <3>2. CASE i # p + 1
      <4>1. /\ more[i] = IF Age(i, p, n) < d THEN q + 1 ELSE q
            /\ Age(i, p, n) \in Int /\ Age(i, next, n) = Age(i, p, n) + 1
        <5>1. i \in 1 .. n \ {p + 1}
          BY <3>2
        <5>2. Age(i, p, n) \in 0 .. n - 2 /\ Age(i, next, n) = Age(i, p, n) + 1
          BY <1>2, <5>1
        <5>3. more[i] = first[i]
          BY <1>3, <5>1
        <5> QED
          BY <1>1, <5>2, <5>3
      <4> QED
        BY <4>1
    <3> QED
      BY <3>1, <3>2
  <2>3. Even(more, n, next)
    BY <2>1, <2>2 DEF Even
  <2> QED
    BY <2>3 DEF more, next
<1>6. CASE d = n - 1
  <2>1. \A i \in 1 .. n : more[i] = q + 1
    BY <1>1, <1>2, <1>3, <1>4, <1>6
  <2>2. ASSUME NEW i \in 1 .. n PROVE ~(Age(i, next, n) < 0)
    <3>1. CASE i = p + 1
      BY <1>2, <3>1
    <3>2. CASE i # p + 1
      <4>1. Age(i, p, n) \in 0 .. n - 2 /\ Age(i, next, n) = Age(i, p, n) + 1
        BY <1>2, <3>2
      <4> QED
        BY <4>1
    <3> QED
      BY <3>1, <3>2
  <2>3. q + 1 \in Nat /\ 0 \in 0 .. n - 1
    OBVIOUS
  <2>4. Even(more, n, next)
    BY <2>1, <2>2, <2>3 DEF Even
  <2> QED
    BY <2>4 DEF more, next
<1> QED
  BY <1>5, <1>6

LEMMA EvenBound ==
  ASSUME NEW n \in Nat, NEW p, NEW first, Even(first, n, p),
         NEW i \in 1 .. n, NEW j \in 1 .. n
  PROVE  first[i] <= first[j] + 1
BY DEF Even

LEMMA TurnOfNone ==
  ASSUME NEW list \in Seq(Names), Len(list) > 0
  PROVE  Rotated(list, 0) = list
<1>1. Len(list) \in Nat /\ 0 \in 0 .. Len(list) - 1
      /\ list = [i \in 1 .. Len(list) |-> list[i]]
  OBVIOUS
<1>2. Rearranged(Rotated(list, 0), list, Turned(Len(list), 0))
  BY <1>1, RotatedRearranged
<1>3. \A i \in 1 .. Len(list) : Turned(Len(list), 0)[i] = i
  BY <1>1 DEF Turned
<1> QED
  BY <1>1, <1>2, <1>3 DEF Rearranged

-----------------------------------------------------------------------------
(* The requests that are given their list. *)

AsOrdered(new, list, kind, pricing) ==
  /\ kind = "priority" => new = list
  /\ kind = "random" => new \in Shuffles(list)
  /\ kind = "cost" => new = ByCost(list, pricing)
  /\ kind = "round_robin" =>
       \E k \in 0 .. Len(list) - 1 : new = Rotated(list, k)

Deduplicated(r) == Distinct(Named(r), snapshot[r])

ListingPCs == {"turn", "ordered", "badRequest"}

ListOf(r) ==
  /\ pc[r] \in ListingPCs => model[r] \in Models /\ snapshot[r] \in Snapshots
  /\ pc[r] = "turn" =>
       /\ policy[r] = "round_robin" /\ targets[r] = Deduplicated(r)
       /\ Len(targets[r]) > 1
  /\ pc[r] = "ordered" =>
       /\ policy[r] \in Policies
       /\ AsOrdered(targets[r], Deduplicated(r), policy[r], snapshot[r].pricing)
  /\ pc[r] = "badRequest" =>
       Unresolved(Named(r), snapshot[r]) \/ policy[r] \notin Policies

\* The turns of a model are even up to the place of the next one.
TurnsOf(m) ==
  LET w == window[m]
      n == Len(w.list)
  IN
  /\ w = [list |-> w.list, first |-> w.first]
  /\ w.list \in Seq(Names) /\ w.first \in [1 .. n -> Nat]
  /\ n > 0 => Even(w.first, n, cursor[m] % n)

ListInv ==
  /\ pc = [r \in Requests |-> pc[r]]
  /\ model = [r \in Requests |-> model[r]]
  /\ policy = [r \in Requests |-> policy[r]]
  /\ snapshot = [r \in Requests |-> snapshot[r]]
  /\ targets = [r \in Requests |-> targets[r]]
  /\ cursor \in [Models -> Nat]
  /\ window = [m \in Models |-> window[m]]
  /\ \A r \in Requests : ListOf(r)
  /\ \A m \in Models : TurnsOf(m)

\* The deduplicated list of any model that is asked for.
LEMMA DistinctListed ==
  ASSUME NEW m \in Models, NEW s \in Snapshots
  PROVE  /\ Distinct(Candidates(m, s), s) \in Seq(Names)
         /\ Len(Distinct(Candidates(m, s), s)) \in Nat \ {0}
<1> DEFINE names == Candidates(m, s)
           list == Distinct(names, s)
<1>1. names \in Seq(Names) /\ names # <<>>
  BY CandidatesType
<1> HIDE DEF names
<1>2. PICK place : Keeps(list, names, s, place)
  BY <1>1, DistinctKeeps
<1> HIDE DEF list
<1>3. list \in Seq(Names) /\ list # <<>>
  BY <1>1, <1>2, KeepsAll DEF Keeps
<1>4. list \in Seq(Names) /\ Len(list) \in Nat \ {0}
  BY <1>3
<1> QED
  BY <1>4 DEF list, names

LEMMA ListKept ==
  ASSUME NEW q \in Requests, ListOf(q), pc'[q] = pc[q], model'[q] = model[q],
         policy'[q] = policy[q], snapshot'[q] = snapshot[q], targets'[q] = targets[q]
  PROVE  ListOf(q)'
<1>1. Named(q)' = Named(q) /\ Deduplicated(q)' = Deduplicated(q)
  BY DEF Named, Deduplicated
<1> QED
  BY <1>1 DEF ListOf

\* A turn is given evenly, on the window of the list or on a new one.
LEMMA TurnGiven ==
  ASSUME ListInv, NEW r \in Requests, pc[r] = "turn", Incremented(r)
  PROVE  /\ cursor' \in [Models -> Nat]
         /\ window' = [m \in Models |-> window'[m]]
         /\ \A m \in Models : TurnsOf(m)'
<1> DEFINE mine == model[r]
           list == targets[r]
           n == Len(list)
           p == cursor[mine] % n
           w == IF window[mine].list = list THEN window[mine] ELSE NoTurns(list)
           v == [w EXCEPT !.first[p + 1] = @ + 1]
<1>1. /\ mine \in Models /\ snapshot[r] \in Snapshots /\ n > 1
      /\ list = Distinct(Candidates(mine, snapshot[r]), snapshot[r])
  BY DEF ListInv, ListOf, ListingPCs, Deduplicated, Named
<1>2. list \in Seq(Names) /\ n \in Nat \ {0}
  BY <1>1, DistinctListed
<1>3. cursor[mine] \in Nat
  BY <1>1 DEF ListInv
<1>4. /\ p \in 0 .. n - 1
      /\ ((cursor[mine] + 1) % n) = IF p = n - 1 THEN 0 ELSE p + 1
  BY <1>2, <1>3, NextTurn
<1>5. /\ cursor' = [cursor EXCEPT ![mine] = cursor[mine] + 1]
      /\ window' = [window EXCEPT ![mine] = v]
  BY DEF Incremented, CursorOf
<1>6. /\ w = [list |-> list, first |-> w.first] /\ w.list = list
      /\ w.first \in [1 .. n -> Nat] /\ Even(w.first, n, p)
  <2>1. CASE window[mine].list = list
    <3>1. TurnsOf(mine) /\ w = window[mine]
      BY <1>1, <2>1 DEF ListInv
    <3> HIDE DEF w
    <3> QED
      BY <1>2, <2>1, <3>1 DEF TurnsOf
  <2>2. CASE window[mine].list # list
    <3>1. w = [list |-> list, first |-> [i \in 1 .. n |-> 0]]
      BY <2>2 DEF NoTurns
    <3>2. Even([i \in 1 .. n |-> 0], n, p)
      BY <1>2, <1>4, EvenStart
    <3> HIDE DEF w, n, list, p
    <3> QED
      BY <3>1, <3>2
  <2> QED
    BY <2>1, <2>2
<1> HIDE DEF w, p
<1>7. v = [list |-> list, first |-> [w.first EXCEPT ![p + 1] = @ + 1]]
  <2>1. PICK count : w = [list |-> list, first |-> count]
    BY <1>6
  <2>2. w.first = count
    BY <2>1
  <2> QED
    BY <2>1, <2>2
<1>8. Even([w.first EXCEPT ![p + 1] = @ + 1], n, IF p = n - 1 THEN 0 ELSE p + 1)
  <2> DEFINE first == w.first
  <2>1. first \in [1 .. n -> Nat] /\ Even(first, n, p)
    BY <1>6
  <2> HIDE DEF first, n
  <2>2. Even([first EXCEPT ![p + 1] = @ + 1], n, IF p = n - 1 THEN 0 ELSE p + 1)
    BY <1>2, <1>4, <2>1, EvenTurn
  <2> QED
    BY <2>2 DEF first
<1>9. [w.first EXCEPT ![p + 1] = @ + 1] \in [1 .. n -> Nat]
  BY <1>4, <1>6
<1> HIDE DEF v
<1>10. /\ cursor'[mine] = cursor[mine] + 1 /\ window'[mine] = v
       /\ \A m \in Models \ {mine} : cursor'[m] = cursor[m] /\ window'[m] = window[m]
       /\ cursor' \in [Models -> Nat] /\ window' = [m \in Models |-> window'[m]]
  <2>1. cursor \in [Models -> Nat] /\ window = [m \in Models |-> window[m]]
    BY DEF ListInv
  <2> HIDE DEF mine, list, n
  <2>2. window' = [m \in Models |-> IF m = mine THEN v ELSE window[m]]
    BY <1>1, <1>5, <2>1
  <2>3. /\ cursor' \in [Models -> Nat] /\ cursor'[mine] = cursor[mine] + 1
        /\ \A m \in Models \ {mine} : cursor'[m] = cursor[m]
    BY <1>1, <1>3, <1>5, <2>1
  <2>4. window' = [m \in Models |-> window'[m]]
    BY <2>2
  <2> QED
    BY <1>1, <2>2, <2>3, <2>4
<1>11. ASSUME NEW m \in Models PROVE TurnsOf(m)'
  <2>1. CASE m = mine
    <3>1. /\ window'[m] = [list |-> list, first |-> [w.first EXCEPT ![p + 1] = @ + 1]]
          /\ cursor'[m] = cursor[mine] + 1
      BY <1>7, <1>10, <2>1
    <3> HIDE DEF n, list, mine
    <3>2. Even([w.first EXCEPT ![p + 1] = @ + 1], n, cursor'[m] % n)
      BY <1>4, <1>8, <3>1
    <3> QED
      BY <1>2, <1>9, <3>1, <3>2 DEF TurnsOf, n
  <2>2. CASE m # mine
    BY <1>10, <2>2 DEF ListInv, TurnsOf
  <2> QED
    BY <2>1, <2>2
<1> QED
  BY <1>10, <1>11

LEMMA ListInit == Init => ListInv
<1> SUFFICES ASSUME Init PROVE ListInv
  OBVIOUS
<1>1. \A r \in Requests : ListOf(r)
  BY DEF Init, ListOf, ListingPCs
<1>2. \A m \in Models : TurnsOf(m)
  <2>1. \A m \in Models : window[m] = [list |-> <<>>, first |-> [i \in 1 .. 0 |-> 0]]
    BY DEF Init, NoTurns
  <2>2. <<>> \in Seq(Names) /\ Len(<<>>) = 0 /\ [i \in 1 .. 0 |-> 0] \in [1 .. 0 -> Nat]
    OBVIOUS
  <2>3. ASSUME NEW m \in Models
        PROVE  /\ window[m] = [list |-> window[m].list, first |-> window[m].first]
               /\ window[m].list = <<>> /\ window[m].first = [i \in 1 .. 0 |-> 0]
    BY <2>1
  <2> TAKE m \in Models
  <2>4. /\ Len(window[m].list) = 0 /\ window[m].list \in Seq(Names)
        /\ window[m].first \in [1 .. Len(window[m].list) -> Nat]
    BY <2>2, <2>3
  <2> QED
    BY <2>3, <2>4 DEF TurnsOf
<1> QED
  BY <1>1, <1>2 DEF Init, ListInv

LEMMA ListStep == ListInv /\ [Next]_vars => ListInv'
<1> SUFFICES ASSUME ListInv, [Next]_vars PROVE ListInv'
  OBVIOUS
<1>1. ASSUME NEW r \in Requests, Begin(r) PROVE ListInv'
  <2>1. PICK m \in Models, asked \in Policies \cup {None}, s \in Snapshots :
          LET kind == IF asked = None THEN s.routing_policy ELSE asked
              names == Candidates(m, s)
              list == Distinct(names, s)
          IN
          /\ model' = [model EXCEPT ![r] = m]
          /\ policy' = [policy EXCEPT ![r] = kind]
          /\ snapshot' = [snapshot EXCEPT ![r] = s]
          /\ IF Unresolved(names, s) \/ kind \notin Policies
             THEN Goto(r, "badRequest") /\ UNCHANGED targets
             ELSE /\ Goto(r, IF NeedsTurn(list, kind) THEN "turn" ELSE "ordered")
                  /\ \E o \in Orders(list, kind, s) :
                       targets' = [targets EXCEPT ![r] = o]
    BY <1>1 DEF Begin
  <2> DEFINE kind == IF asked = None THEN s.routing_policy ELSE asked
             names == Candidates(m, s)
             list == Distinct(names, s)
  <2>2. list \in Seq(Names) /\ Len(list) \in Nat \ {0}
    BY DistinctListed
  <2> HIDE DEF kind, names, list
  <2>3. /\ model' = [model EXCEPT ![r] = m]
        /\ policy' = [policy EXCEPT ![r] = kind]
        /\ snapshot' = [snapshot EXCEPT ![r] = s]
        /\ IF Unresolved(names, s) \/ kind \notin Policies
           THEN Goto(r, "badRequest") /\ UNCHANGED targets
           ELSE /\ Goto(r, IF NeedsTurn(list, kind) THEN "turn" ELSE "ordered")
                /\ \E o \in Orders(list, kind, s) :
                     targets' = [targets EXCEPT ![r] = o]
    BY <2>1 DEF kind, names, list
  <2>4. UNCHANGED <<cursor, window>>
    BY <1>1 DEF Begin
  <2>5. /\ model'[r] = m /\ policy'[r] = kind /\ snapshot'[r] = s
        /\ \A q \in Requests \ {r} :
             /\ pc'[q] = pc[q] /\ model'[q] = model[q] /\ policy'[q] = policy[q]
             /\ snapshot'[q] = snapshot[q] /\ targets'[q] = targets[q]
        /\ pc' = [q \in Requests |-> pc'[q]]
        /\ model' = [q \in Requests |-> model'[q]]
        /\ policy' = [q \in Requests |-> policy'[q]]
        /\ snapshot' = [q \in Requests |-> snapshot'[q]]
        /\ targets' = [q \in Requests |-> targets'[q]]
    BY <2>3 DEF ListInv, Goto
  <2>6. Named(r)' = names /\ Deduplicated(r)' = list
    BY <2>5 DEF Named, Deduplicated, names, list
  <2>7. ListOf(r)'
    <3>1. CASE Unresolved(names, s) \/ kind \notin Policies
      <4>1. pc'[r] = "badRequest"
        BY <2>3, <3>1 DEF Goto, ListInv
      <4> QED
        BY <2>5, <2>6, <3>1, <4>1 DEF ListOf
    <3>2. CASE ~(Unresolved(names, s) \/ kind \notin Policies)
      <4>1. /\ kind \in Policies /\ targets'[r] \in Orders(list, kind, s)
            /\ pc'[r] = IF NeedsTurn(list, kind) THEN "turn" ELSE "ordered"
        BY <2>3, <3>2 DEF Goto, ListInv
      <4>2. CASE NeedsTurn(list, kind)
        <5>1. targets'[r] = list /\ pc'[r] = "turn" /\ kind = "round_robin"
              /\ Len(list) > 1
          BY <4>1, <4>2 DEF NeedsTurn, Orders
        <5> QED
          BY <2>5, <2>6, <5>1 DEF ListOf
      <4>3. CASE ~NeedsTurn(list, kind)
        <5>1. AsOrdered(targets'[r], list, kind, s.pricing)
          <6>1. CASE kind = "cost"
            BY <4>1, <6>1 DEF AsOrdered, Orders
          <6>2. CASE kind = "random"
            BY <4>1, <6>2 DEF AsOrdered, Orders
          <6>3. CASE kind = "priority"
            BY <4>1, <6>3 DEF AsOrdered, Orders
          <6>4. CASE kind = "round_robin"
            <7>1. targets'[r] = list
              BY <4>1, <6>4 DEF Orders
            <7>2. Rotated(list, 0) = list
              BY <2>2, TurnOfNone
            <7>3. 0 \in 0 .. Len(list) - 1
              BY <2>2
            <7> QED
              BY <6>4, <7>1, <7>2, <7>3 DEF AsOrdered
          <6> QED
            BY <4>1, <6>1, <6>2, <6>3, <6>4 DEF Policies
        <5>2. pc'[r] = "ordered"
          BY <4>1, <4>3
        <5> QED
          BY <2>5, <2>6, <4>1, <5>1, <5>2 DEF ListOf
      <4> QED
        BY <4>2, <4>3
    <3> QED
      BY <3>1, <3>2
  <2>8. \A q \in Requests : ListOf(q)'
    BY <2>5, <2>7, ListKept DEF ListInv
  <2>9. \A k \in Models : TurnsOf(k)'
    BY <2>4 DEF ListInv, TurnsOf
  <2> QED
    BY <2>4, <2>5, <2>8, <2>9 DEF ListInv
<1>2. ASSUME NEW r \in Requests, TakeTurn(r) PROVE ListInv'
  <2>1. /\ pc[r] = "turn" /\ Incremented(r) /\ UNCHANGED <<model, policy, snapshot>>
        /\ targets' = [targets EXCEPT ![r] =
             Rotated(targets[r], cursor[model[r]] % Len(targets[r]))]
        /\ pc' = [pc EXCEPT ![r] = "ordered"]
    BY <1>2 DEF TakeTurn, Goto, CursorOf
  <2>2. ListOf(r)'
    <3>1. /\ model[r] \in Models /\ snapshot[r] \in Snapshots
          /\ policy[r] = "round_robin" /\ targets[r] = Deduplicated(r)
      BY <2>1 DEF ListInv, ListOf, ListingPCs
    <3>2. Len(targets[r]) \in Nat \ {0} /\ cursor[model[r]] \in Nat
      BY <3>1, DistinctListed DEF Deduplicated, Named, ListInv
    <3>3. (cursor[model[r]] % Len(targets[r])) \in 0 .. Len(targets[r]) - 1
      BY <3>2, NextTurn
    <3>4. AsOrdered(targets'[r], Deduplicated(r), policy[r], snapshot[r].pricing)
      BY <2>1, <3>1, <3>3 DEF AsOrdered, ListInv
    <3>5. Named(r)' = Named(r) /\ Deduplicated(r)' = Deduplicated(r)
      BY <2>1 DEF Named, Deduplicated
    <3> QED
      BY <2>1, <3>1, <3>4, <3>5 DEF ListOf, ListInv, Policies
  <2>3. \A q \in Requests \ {r} : ListOf(q)'
    BY <2>1, ListKept DEF ListInv
  <2> QED
    BY <2>1, <2>2, <2>3, TurnGiven DEF ListInv
<1>3. ASSUME NEW r \in Requests, Fault(r) PROVE ListInv'
  <2>1. /\ pc[r] = "turn" /\ pc' = [pc EXCEPT ![r] = "error"]
        /\ UNCHANGED <<model, policy, snapshot, targets>>
        /\ Incremented(r) \/ UNCHANGED <<cursor, window>>
    BY <1>3 DEF Fault, Goto, requestVars
  <2>2. /\ cursor' \in [Models -> Nat] /\ window' = [m \in Models |-> window'[m]]
        /\ \A m \in Models : TurnsOf(m)'
    <3>1. CASE Incremented(r)
      BY <2>1, <3>1, TurnGiven
    <3>2. CASE UNCHANGED <<cursor, window>>
      BY <3>2 DEF ListInv, TurnsOf
    <3> QED
      BY <2>1, <3>1, <3>2
  <2>3. ListOf(r)'
    BY <2>1 DEF ListOf, ListInv, ListingPCs
  <2>4. \A q \in Requests \ {r} : ListOf(q)'
    BY <2>1, ListKept DEF ListInv
  <2> QED
    BY <2>1, <2>2, <2>3, <2>4 DEF ListInv
<1>4. ASSUME NEW r \in Requests, Leave(r) PROVE ListInv'
  <2>1. /\ pc'[r] = "idle" /\ UNCHANGED <<cursor, window>>
        /\ \A q \in Requests \ {r} :
             /\ pc'[q] = pc[q] /\ model'[q] = model[q] /\ policy'[q] = policy[q]
             /\ snapshot'[q] = snapshot[q] /\ targets'[q] = targets[q]
        /\ pc' = [q \in Requests |-> pc'[q]]
        /\ model' = [q \in Requests |-> model'[q]]
        /\ policy' = [q \in Requests |-> policy'[q]]
        /\ snapshot' = [q \in Requests |-> snapshot'[q]]
        /\ targets' = [q \in Requests |-> targets'[q]]
    BY <1>4 DEF Leave, Goto, ListInv
  <2>2. ListOf(r)'
    BY <2>1 DEF ListOf, ListingPCs
  <2>3. \A q \in Requests \ {r} : ListOf(q)'
    BY <2>1, ListKept DEF ListInv
  <2>4. \A m \in Models : TurnsOf(m)'
    BY <2>1 DEF ListInv, TurnsOf
  <2> QED
    BY <2>1, <2>2, <2>3, <2>4 DEF ListInv
<1>5. CASE UNCHANGED vars
  <2>1. UNCHANGED <<cursor, pc, model, policy, snapshot, targets, window>>
    BY <1>5 DEF vars, requestVars
  <2>2. \A q \in Requests : ListOf(q)'
    BY <2>1, ListKept DEF ListInv
  <2>3. \A m \in Models : TurnsOf(m)'
    BY <2>1 DEF ListInv, TurnsOf
  <2> QED
    BY <2>1, <2>2, <2>3 DEF ListInv
<1> QED
  BY <1>1, <1>2, <1>3, <1>4, <1>5 DEF Next

\* Round robin is even, whatever the cursors count and the lists change to.
THEOREM RoundRobinIsEven == Spec => []EvenTurns
<1>1. ListInv => EvenTurns
  <2> SUFFICES ASSUME ListInv, NEW m \in Models,
                      NEW i \in DOMAIN window[m].list, NEW j \in DOMAIN window[m].list
               PROVE  window[m].first[i] <= window[m].first[j] + 1
    BY DEF EvenTurns
  <2> DEFINE n == Len(window[m].list)
             first == window[m].first
             p == cursor[m] % n
  <2>1. window[m].list \in Seq(Names) /\ (n > 0 => Even(first, n, p))
    BY DEF ListInv, TurnsOf
  <2>2. n \in Nat /\ i \in 1 .. n /\ j \in 1 .. n
    BY <2>1
  <2> HIDE DEF n, first, p
  <2>3. Even(first, n, p)
    BY <2>1, <2>2
  <2>4. first[i] <= first[j] + 1
    BY <2>2, <2>3, EvenBound
  <2> QED
    BY <2>4 DEF first
<1> QED
  BY <1>1, ListInit, ListStep, PTL DEF Spec

\* What a request under way was given, with the places its targets come from.
LEMMA WhatIsListed ==
  ASSUME ListInv, NEW r \in Requests, pc[r] \in {"turn", "ordered"}
  PROVE  /\ Named(r) \in Seq(Names) /\ Named(r) # <<>>
         /\ snapshot[r] \in Snapshots
         /\ snapshot[r].pricing \in [DOMAIN snapshot[r].pricing -> Nat]
         /\ Deduplicated(r) \in Seq(Names)
         /\ \E place : Keeps(Deduplicated(r), Named(r), snapshot[r], place)
<1>1. ListOf(r) /\ model[r] \in Models /\ snapshot[r] \in Snapshots
  BY DEF ListInv, ListOf, ListingPCs
<1>2. Named(r) \in Seq(Names) /\ Named(r) # <<>>
  BY <1>1, CandidatesType DEF Named
<1>3. \E place : Keeps(Deduplicated(r), Named(r), snapshot[r], place)
  BY <1>1, <1>2, DistinctKeeps DEF Deduplicated
<1>4. Deduplicated(r) \in Seq(Names)
  BY <1>3 DEF Keeps
<1>5. snapshot[r].pricing \in [DOMAIN snapshot[r].pricing -> Nat]
  BY <1>1, CandidatesAssumption
<1> QED
  BY <1>1, <1>2, <1>3, <1>4, <1>5

\* Every order is a rearrangement of the list.
LEMMA OrderedRearranged ==
  ASSUME NEW list \in Seq(Names), NEW new, NEW kind \in Policies,
         NEW pricing, pricing \in [DOMAIN pricing -> Nat],
         AsOrdered(new, list, kind, pricing), Len(list) > 0
  PROVE  \E p : Rearranged(new, list, p)
<1>1. CASE kind = "cost"
  BY <1>1, ByCostRearranged DEF AsOrdered
<1>2. CASE kind = "random"
  BY <1>2, ShuffledRearranged DEF AsOrdered
<1>3. CASE kind = "round_robin"
  BY <1>3, RotatedRearranged DEF AsOrdered
<1>4. CASE kind = "priority"
  <2>1. new = Rotated(list, 0) /\ 0 \in 0 .. Len(list) - 1
    BY <1>4, TurnOfNone DEF AsOrdered
  <2> QED
    BY <2>1, RotatedRearranged
<1> QED
  BY <1>1, <1>2, <1>3, <1>4 DEF Policies

\* The router's assumption about its list: every target that some name of the
\* request stands for, once, and no other; and only requests that name none,
\* or an unknown policy, are refused.
THEOREM ListsEveryTargetOnce == Spec => []EveryTargetOnce
<1>1. ListInv => EveryTargetOnce
  <2> SUFFICES ASSUME ListInv, NEW r \in Requests
               PROVE  /\ pc[r] \in {"turn", "ordered"} =>
                           /\ targets[r] # <<>>
                           /\ ToSet(targets[r]) = Standing(r)
                           /\ Len(targets[r]) = Cardinality(Standing(r))
                      /\ pc[r] = "badRequest" =>
                           ~(Standing(r) \subseteq Targets) \/ policy[r] \notin Policies
    BY DEF EveryTargetOnce
  <2>1. ASSUME pc[r] \in {"turn", "ordered"}
        PROVE  /\ targets[r] # <<>>
               /\ ToSet(targets[r]) = Standing(r)
               /\ Len(targets[r]) = Cardinality(Standing(r))
    <3> DEFINE list == Deduplicated(r)
    <3>1. /\ Named(r) \in Seq(Names) /\ Named(r) # <<>>
          /\ snapshot[r].pricing \in [DOMAIN snapshot[r].pricing -> Nat]
          /\ list \in Seq(Names)
      BY <2>1, WhatIsListed
    <3>2. PICK place : Keeps(list, Named(r), snapshot[r], place)
      BY <2>1, WhatIsListed
    <3>3. /\ ToSet(list) = Standing(r) /\ Len(list) = Cardinality(Standing(r))
          /\ list # <<>>
      <4>1. Standing(r) = Meant(Named(r), snapshot[r])
        BY DEF Standing, Meant
      <4> HIDE DEF list
      <4> QED
        BY <3>1, <3>2, <4>1, KeepsAll
    <3>4. CASE pc[r] = "turn"
      BY <3>3, <3>4 DEF ListInv, ListOf
    <3>5. CASE pc[r] = "ordered"
      <4>1. /\ policy[r] \in Policies
            /\ AsOrdered(targets[r], list, policy[r], snapshot[r].pricing)
        BY <3>5 DEF ListInv, ListOf
      <4> HIDE DEF list
      <4>2. Len(list) \in Nat \ {0}
        BY <3>1, <3>3
      <4>3. PICK p : Rearranged(targets[r], list, p)
        BY <3>1, <4>1, <4>2, OrderedRearranged
      <4>4. /\ targets[r] \in Seq(Names) /\ Len(targets[r]) = Len(list)
            /\ ToSet(targets[r]) = ToSet(list)
        BY <3>1, <4>3, RearrangedSame
      <4> QED
        BY <3>3, <4>2, <4>4
    <3> QED
      BY <2>1, <3>4, <3>5
  <2>2. ASSUME pc[r] = "badRequest", policy[r] \in Policies
        PROVE  ~(Standing(r) \subseteq Targets)
    <3>1. Unresolved(Named(r), snapshot[r])
      BY <2>2 DEF ListInv, ListOf
    <3> QED
      BY <3>1 DEF Unresolved, Standing
  <2> QED
    BY <2>1, <2>2
<1> QED
  BY <1>1, ListInit, ListStep, PTL DEF Spec

\* The place of a target is the one it was kept for.
LEMMA PlaceKept ==
  ASSUME NEW r \in Requests, Named(r) \in Seq(Names), NEW list, NEW place,
         Keeps(list, Named(r), snapshot[r], place), NEW k \in 1 .. Len(list)
  PROVE  Place(r, list[k]) = place[k]
<1> DEFINE First(i) ==
      /\ Resolve(Named(r)[i], snapshot[r]) = list[k]
      /\ \A j \in 1 .. i - 1 : Resolve(Named(r)[j], snapshot[r]) # list[k]
<1>1. /\ place[k] \in FirstNamed(Named(r), snapshot[r])
      /\ list[k] = Resolve(Named(r)[place[k]], snapshot[r])
  BY DEF Keeps
<1>2. place[k] \in DOMAIN Named(r) /\ First(place[k])
  BY <1>1 DEF FirstNamed
<1>3. DOMAIN Named(r) = 1 .. Len(Named(r)) /\ Len(Named(r)) \in Nat
  OBVIOUS
<1>4. ASSUME NEW i \in DOMAIN Named(r), First(i) PROVE i = place[k]
  <2>1. ~(i \in 1 .. place[k] - 1) /\ ~(place[k] \in 1 .. i - 1)
    BY <1>2, <1>4
  <2> QED
    BY <1>2, <1>3, <2>1
<1>5. Place(r, list[k]) = CHOOSE i \in DOMAIN Named(r) : First(i)
  BY DEF Place
<1> HIDE DEF First
<1> QED
  BY <1>2, <1>4, <1>5

\* The list has the order of the policy: the configured one, the same turned
\* around, or by price with equals as configured.
THEOREM ListsInPolicyOrder == Spec => []PolicyOrder
<1>1. ListInv => PolicyOrder
  <2> SUFFICES ASSUME ListInv, NEW r \in Requests, pc[r] = "ordered"
               PROVE  LET list == targets[r]
                          pricing == snapshot[r].pricing
                          Earlier(i, j) == Place(r, list[i]) < Place(r, list[j])
                          Wraps == {i \in 1 .. Len(list) - 1 : ~Earlier(i, i + 1)}
                      IN
                      /\ policy[r] = "priority" => Wraps = {}
                      /\ policy[r] = "round_robin" =>
                           \/ Wraps = {}
                           \/ Cardinality(Wraps) = 1 /\ Earlier(Len(list), 1)
                      /\ policy[r] = "cost" =>
                           \A i, j \in DOMAIN list : i < j =>
                             IF list[j] \in DOMAIN pricing
                             THEN /\ list[i] \in DOMAIN pricing
                                  /\ pricing[list[i]] <= pricing[list[j]]
                                  /\ pricing[list[i]] = pricing[list[j]] =>
                                       Earlier(i, j)
                             ELSE list[i] \in DOMAIN pricing \/ Earlier(i, j)
    BY DEF PolicyOrder
  <2> DEFINE list == targets[r]
             base == Deduplicated(r)
             n == Len(base)
             pricing == snapshot[r].pricing
             Earlier(i, j) == Place(r, list[i]) < Place(r, list[j])
             Wraps == {i \in 1 .. Len(list) - 1 : ~Earlier(i, i + 1)}
  <2>1. /\ Named(r) \in Seq(Names) /\ base \in Seq(Names)
        /\ pricing \in [DOMAIN pricing -> Nat]
    BY WhatIsListed
  <2>2. PICK place : Keeps(base, Named(r), snapshot[r], place)
    BY WhatIsListed
  <2>3. /\ \A k \in 1 .. n : place[k] \in Nat /\ Place(r, base[k]) = place[k]
        /\ \A i, j \in 1 .. n : i < j => place[i] < place[j]
    <3>1. \A k \in 1 .. n : place[k] \in 1 .. Len(Named(r))
      BY <2>1, <2>2, KeepsOnce
    <3>2. \A k \in 1 .. n : Place(r, base[k]) = place[k]
      BY <2>1, <2>2, PlaceKept
    <3> QED
      BY <2>2, <3>1, <3>2 DEF Keeps
  <2>4. AsOrdered(list, base, policy[r], pricing)
    BY DEF ListInv, ListOf
  <2>5. n \in Nat /\ DOMAIN base = 1 .. n
    BY <2>1
  <2> HIDE DEF list, base, n, pricing
  <2>6. ASSUME policy[r] = "priority" PROVE Wraps = {}
    <3>1. list = base
      BY <2>4, <2>6 DEF AsOrdered
    <3> QED
      BY <2>3, <2>5, <3>1 DEF n
  <2>7. ASSUME policy[r] = "round_robin"
        PROVE  Wraps = {} \/ (Cardinality(Wraps) = 1 /\ Earlier(Len(list), 1))
    <3>1. PICK k \in 0 .. n - 1 : list = Rotated(base, k)
      BY <2>4, <2>7 DEF AsOrdered, n
    <3>2. Rearranged(list, base, Turned(n, k))
      BY <2>1, <3>1, RotatedRearranged DEF n
    <3>3. /\ Len(list) = n
          /\ \A i \in 1 .. n : list[i] = base[IF i <= n - k THEN i + k ELSE i - (n - k)]
      <4>1. Len(list) = n
        BY <2>1, <3>2, RearrangedSame DEF n
      <4>2. list = [i \in 1 .. n |-> base[Turned(n, k)[i]]]
        BY <3>2 DEF Rearranged, n
      <4>3. \A i \in 1 .. n :
              Turned(n, k)[i] = IF i <= n - k THEN i + k ELSE i - (n - k)
        BY DEF Turned
      <4> QED
        BY <4>1, <4>2, <4>3
    <3>4. /\ \A i \in 1 .. n - k : Place(r, list[i]) = place[i + k]
          /\ \A i \in n - k + 1 .. n : Place(r, list[i]) = place[i - (n - k)]
      <4>1. ASSUME NEW i \in 1 .. n - k PROVE Place(r, list[i]) = place[i + k]
        <5>1. i \in 1 .. n /\ i + k \in 1 .. n /\ i <= n - k
          BY <2>5
        <5> QED
          BY <2>3, <3>3, <5>1
      <4>2. ASSUME NEW i \in n - k + 1 .. n
            PROVE  Place(r, list[i]) = place[i - (n - k)]
        <5>1. i \in 1 .. n /\ i - (n - k) \in 1 .. n /\ ~(i <= n - k)
          BY <2>5
        <5> QED
          BY <2>3, <3>3, <5>1
      <4> QED
        BY <4>1, <4>2
    <3>5. ASSUME NEW i \in 1 .. n - 1, i # n - k PROVE Earlier(i, i + 1)
      <4>1. CASE i < n - k
        <5>1. /\ i \in 1 .. n - k /\ i + 1 \in 1 .. n - k
              /\ i + k \in 1 .. n /\ i + 1 + k \in 1 .. n /\ i + k < i + 1 + k
          BY <2>5, <4>1
        <5> QED
          BY <2>3, <3>4, <5>1
      <4>2. CASE i > n - k
        <5>1. PICK j \in n - k + 1 .. n : j = i + 1
          BY <2>5, <4>2
        <5>2. /\ i \in n - k + 1 .. n /\ i - (n - k) < j - (n - k)
              /\ i - (n - k) \in 1 .. n /\ j - (n - k) \in 1 .. n
          BY <2>5, <4>2, <5>1
        <5>3. /\ Place(r, list[i]) = place[i - (n - k)]
              /\ Place(r, list[j]) = place[j - (n - k)]
          BY <3>4, <5>2
        <5>4. place[i - (n - k)] < place[j - (n - k)]
          BY <2>3, <5>2
        <5> QED
          BY <5>1, <5>3, <5>4
      <4> QED
        BY <2>5, <3>5, <4>1, <4>2
    <3>6. Wraps \subseteq {n - k}
      BY <2>5, <3>3, <3>5
    <3>7. CASE k = 0
      <4>1. n - k \notin 1 .. n - 1
        BY <2>5, <3>7
      <4> QED
        BY <3>3, <3>6, <4>1
    <3>8. CASE k > 0
      <4>1. Wraps = {} \/ Wraps = {n - k}
        BY <3>6
      <4>2. Earlier(Len(list), 1)
        <5>1. /\ n \in n - k + 1 .. n /\ 1 \in 1 .. n - k
              /\ n - (n - k) = k /\ k \in 1 .. n /\ 1 + k \in 1 .. n /\ k < 1 + k
          BY <2>5, <3>8
        <5>2. Place(r, list[n]) = place[k] /\ Place(r, list[1]) = place[1 + k]
          BY <3>4, <5>1
        <5> QED
          BY <2>3, <3>3, <5>1, <5>2
      <4> QED
        BY <4>1, <4>2, FS_Singleton
    <3> QED
      BY <3>7, <3>8
  <2>8. ASSUME policy[r] = "cost", NEW i \in DOMAIN list, NEW j \in DOMAIN list, i < j
        PROVE  IF list[j] \in DOMAIN pricing
               THEN /\ list[i] \in DOMAIN pricing
                    /\ pricing[list[i]] <= pricing[list[j]]
                    /\ pricing[list[i]] = pricing[list[j]] => Earlier(i, j)
               ELSE list[i] \in DOMAIN pricing \/ Earlier(i, j)
    <3>1. list = ByCost(base, pricing)
      BY <2>4, <2>8 DEF AsOrdered
    <3>2. PICK p :
            /\ Rearranged(list, base, p)
            /\ \A x, y \in 1 .. n : x < y =>
                 \/ Cheaper(base[p[x]], base[p[y]], pricing)
                 \/ ~Cheaper(base[p[y]], base[p[x]], pricing) /\ p[x] < p[y]
      BY <2>1, <3>1, ByCostRearranged DEF n
    <3>3. /\ p \in [1 .. n -> 1 .. n] /\ list = [x \in 1 .. n |-> base[p[x]]]
      BY <3>2 DEF Rearranged, n
    <3>4. /\ i \in 1 .. n /\ j \in 1 .. n /\ p[i] \in 1 .. n /\ p[j] \in 1 .. n
          /\ list[i] = base[p[i]] /\ list[j] = base[p[j]]
      BY <2>8, <3>3
    <3>5. \/ Cheaper(list[i], list[j], pricing)
          \/ ~Cheaper(list[j], list[i], pricing) /\ p[i] < p[j]
      BY <2>8, <3>2, <3>4
    <3>6. p[i] < p[j] => Earlier(i, j)
      BY <2>3, <3>4
    <3>7. \A t \in DOMAIN pricing : pricing[t] \in Nat
      BY <2>1
    <3> HIDE DEF Earlier
    <3> QED
      BY <3>5, <3>6, <3>7 DEF Cheaper
  <2> QED
    BY <2>6, <2>7, <2>8 DEF list, pricing
<1> QED
  BY <1>1, ListInit, ListStep, PTL DEF Spec

-----------------------------------------------------------------------------
(* Policies. *)

\* The store enumerates every dynamic policy once.
PolicyInv ==
  /\ dynamic \in [PolicyNames -> Rules \cup {NoRule}]
  /\ IsFiniteSet(Stored)
  /\ order \in Bijection(1 .. Cardinality(Stored), Stored)

LEMMA Enumerated ==
  ASSUME NEW S, IsFiniteSet(S), NEW o \in [1 .. Cardinality(S) -> S], IsInjective(o)
  PROVE  o \in Bijection(1 .. Cardinality(S), S)
<1> DEFINE n == Cardinality(S)
<1>1. n \in Nat
  BY FS_CardinalityType
<1> HIDE DEF n
<1>2. IsFiniteSet(1 .. n) /\ Cardinality(1 .. n) = n
  BY <1>1, FS_Interval
<1>3. o \in Injection(1 .. n, S)
  BY DEF Injection, n
<1>4. Cardinality(1 .. n) = Cardinality(S)
  BY <1>2 DEF n
<1>5. o \in Surjection(1 .. n, S)
  BY <1>3, <1>4, FS_Injection
<1> QED
  BY <1>3, <1>5 DEF Bijection, n

LEMMA PolicyInitInv == PolicyInit => PolicyInv
<1> SUFFICES ASSUME PolicyInit PROVE PolicyInv
  OBVIOUS
<1>1. dynamic \in [PolicyNames -> Rules \cup {NoRule}] /\ Stored = {}
  BY DEF PolicyInit, Stored
<1>2. IsFiniteSet({}) /\ Cardinality({}) = 0
  BY FS_EmptySet
<1>3. <<>> \in [1 .. 0 -> {}] /\ IsInjective(<<>>)
  BY DEF IsInjective
<1>4. <<>> \in Bijection(1 .. 0, {})
  BY <1>2, <1>3, Enumerated
<1> QED
  BY <1>1, <1>2, <1>4 DEF PolicyInv, PolicyInit

LEMMA PolicyStep == PolicyInv /\ [PolicyNext]_policyVars => PolicyInv'
<1> SUFFICES ASSUME PolicyInv, [PolicyNext]_policyVars PROVE PolicyInv'
  OBVIOUS
<1>1. CASE UNCHANGED policyVars
  BY <1>1 DEF policyVars, PolicyInv, Stored
<1>2. CASE PolicyNext
  <2>1. /\ dynamic' \in [PolicyNames -> Rules \cup {NoRule}]
        /\ \/ \E n \in PolicyNames : Stored' = Stored \cup {n}
           \/ \E n \in PolicyNames : Stored' = Stored \ {n}
           \/ Stored' = Stored
    <3>1. CASE SetPolicy
      <4>1. PICK n \in PolicyNames, rule \in Rules :
              dynamic' = [dynamic EXCEPT ![n] = rule]
        BY <3>1 DEF SetPolicy
      <4>2. rule # NoRule
        BY PolicyAssumption
      <4>3. Stored' = Stored \cup {n}
        BY <4>1, <4>2 DEF Stored, PolicyInv
      <4> QED
        BY <4>1, <4>3 DEF PolicyInv
    <3>2. CASE DeletePolicy
      <4>1. PICK n \in PolicyNames : dynamic' = [dynamic EXCEPT ![n] = NoRule]
        BY <3>2 DEF DeletePolicy
      <4>2. Stored' = Stored \ {n}
        BY <4>1 DEF Stored, PolicyInv
      <4> QED
        BY <4>1, <4>2 DEF PolicyInv
    <3>3. CASE Rehash
      BY <3>3 DEF Rehash, Stored, PolicyInv
    <3> QED
      BY <1>2, <3>1, <3>2, <3>3 DEF PolicyNext
  <2>2. IsFiniteSet(Stored')
    <3>1. IsFiniteSet(Stored)
      BY DEF PolicyInv
    <3> QED
      BY <2>1, <3>1, FS_AddElement, FS_RemoveElement
  <2>3. order' \in [1 .. Cardinality(Stored') -> Stored'] /\ IsInjective(order')
    BY <1>2 DEF PolicyNext, SetPolicy, DeletePolicy, Rehash, Reordered
  <2>4. order' \in Bijection(1 .. Cardinality(Stored'), Stored')
    BY <2>2, <2>3, Enumerated
  <2> QED
    BY <2>1, <2>2, <2>4 DEF PolicyInv
<1> QED
  BY <1>1, <1>2

LEMMA RuleTyped ==
  ASSUME PolicyInv, NEW n \in Known
  PROVE  n \in PolicyNames /\ Rule(n).priority \in Int /\ Rule(n) # NoRule
<1>1. CASE n \in Stored
  <2>1. n \in PolicyNames /\ Rule(n) = dynamic[n] /\ dynamic[n] \in Rules
    BY <1>1 DEF Stored, Rule, PolicyInv
  <2> QED
    BY <2>1, PolicyAssumption
<1>2. CASE n \notin Stored
  <2>1. n \in ToSet(SettingsOrder)
    BY <1>2 DEF Known
  <2>2. n \in PolicyNames
    BY <2>1, PolicyAssumption DEF ToSet
  <2>3. Rule(n) = SettingsRules[n] /\ SettingsRules[n] \in Range(SettingsRules)
    BY <1>2, <2>1, <2>2, PolicyAssumption DEF Stored, Rule, Range
  <2> QED
    BY <2>2, <2>3, PolicyAssumption
<1> QED
  BY <1>1, <1>2

\* Every known policy has a position of its own.
LEMMA OwnPosition ==
  ASSUME PolicyInv, NEW m \in Known, NEW n \in Known
  PROVE  /\ Position(m) \in Nat
         /\ Position(m) = Position(n) => m = n
<1> DEFINE listed == ToSet(SettingsOrder)
           size == Len(SettingsOrder)
<1>1. /\ SettingsOrder \in Seq(PolicyNames) /\ size \in Nat
      /\ DOMAIN SettingsOrder = 1 .. size
  BY PolicyAssumption
<1>2. ASSUME NEW x \in listed
      PROVE  /\ IndexIn(SettingsOrder, x) \in 1 .. size
             /\ SettingsOrder[IndexIn(SettingsOrder, x)] = x
  BY <1>1 DEF IndexIn, ToSet
<1>3. ASSUME NEW x \in Known \ listed
      PROVE  /\ IndexIn(order, x) \in Nat \ {0}
             /\ order[IndexIn(order, x)] = x
  <2>1. x \in Stored
    BY DEF Known
  <2>2. DOMAIN order = 1 .. Cardinality(Stored) /\ Cardinality(Stored) \in Nat
    BY FS_CardinalityType DEF PolicyInv, Bijection, Injection
  <2>3. \E i \in DOMAIN order : order[i] = x
    BY <2>1, <2>2 DEF PolicyInv, Bijection, Surjection
  <2>4. IndexIn(order, x) \in DOMAIN order /\ order[IndexIn(order, x)] = x
    BY <2>3 DEF IndexIn
  <2> QED
    BY <2>2, <2>4
<1>4. \A x \in Known :
        Position(x) = IF x \in listed THEN IndexIn(SettingsOrder, x)
                      ELSE size + IndexIn(order, x)
  BY DEF Position
<1> HIDE DEF listed, size
<1>5. CASE m \in listed /\ n \in listed
  BY <1>2, <1>4, <1>5
<1>6. CASE m \in listed /\ n \notin listed
  BY <1>1, <1>2, <1>3, <1>4, <1>6
<1>7. CASE m \notin listed /\ n \in listed
  BY <1>1, <1>2, <1>3, <1>4, <1>7
<1>8. CASE m \notin listed /\ n \notin listed
  BY <1>1, <1>3, <1>4, <1>8
<1> QED
  BY <1>5, <1>6, <1>7, <1>8

\* Of the rules that decide a request one comes first, and settles it.
LEMMA OneSettles ==
  ASSUME PolicyInv, NEW q, Deciding(q) # {}
  PROVE  \E n \in Deciding(q) :
           /\ \A m \in Deciding(q) \ {n} : Precedes(n, m)
           /\ Verdict(q) = Decide(Rule(n), q)
<1> DEFINE found == Deciding(q)
           less == {p \in found \X found : Precedes(p[1], p[2])}
           First(n) == \A m \in found \ {n} : Precedes(n, m)
<1>1. found \in SUBSET Known
  BY DEF Deciding
<1>2. IsFiniteSet(found)
  <2>1. IsFiniteSet(Stored)
    BY DEF PolicyInv
  <2>2. IsFiniteSet(ToSet(SettingsOrder))
    <3>1. /\ SettingsOrder \in Surjection(1 .. Len(SettingsOrder), ToSet(SettingsOrder))
          /\ Len(SettingsOrder) \in Nat
      BY PolicyAssumption DEF Surjection, ToSet
    <3>2. IsFiniteSet(1 .. Len(SettingsOrder))
      BY <3>1, FS_Interval
    <3> QED
      BY <3>1, <3>2, FS_Surjection
  <2>3. IsFiniteSet(Known)
    BY <2>1, <2>2, FS_Union DEF Known
  <2> QED
    BY <1>1, <2>3, FS_Subset
<1>3. StrictOrder(found, less)
  <2>1. \A m \in found : Rule(m).priority \in Int /\ Position(m) \in Int
    BY <1>1, RuleTyped, OwnPosition
  <2>2. \A m, n \in found : Position(m) = Position(n) => m = n
    BY <1>1, OwnPosition
  <2>3. \A m \in found : ~Precedes(m, m)
    BY <2>1 DEF Precedes
  <2>4. \A m, n \in found : m # n => Precedes(m, n) \/ Precedes(n, m)
    BY <2>1, <2>2 DEF Precedes
  <2>5. \A m, n, k \in found : Precedes(m, n) /\ Precedes(n, k) => Precedes(m, k)
    BY <2>1 DEF Precedes
  <2> HIDE DEF found
  <2> QED
    BY <2>3, <2>4, <2>5 DEF StrictOrder
<1>4. \E n \in found : \A m \in found \ {n} : <<n, m>> \in less
  <2> HIDE DEF found, less
  <2> QED
    BY <1>2, <1>3, FirstExists DEF found
<1>5. \E n \in found : First(n)
  BY <1>4
<1>6. Verdict(q) = Decide(Rule(CHOOSE n \in found : First(n)), q)
  BY DEF Verdict
<1> HIDE DEF First, found
<1>7. PICK n \in found : n = (CHOOSE x \in found : First(x)) /\ First(n)
  BY <1>5
<1> QED
  BY <1>6, <1>7 DEF First, found

\* "Lower number evaluated first", whatever the order of the store.
THEOREM LowestNumberSettles == PolicySpec => []LowestNumberRules
<1>1. PolicyInv => LowestNumberRules
  <2> SUFFICES ASSUME PolicyInv, NEW q \in Inquiries, NEW n \in Deciding(q),
                      \A k \in Deciding(q) \ {n} : Rule(k).priority > Rule(n).priority
               PROVE  Verdict(q) = Decide(Rule(n), q)
    BY DEF LowestNumberRules
  <2>1. PICK m \in Deciding(q) :
          /\ \A k \in Deciding(q) \ {m} : Precedes(m, k)
          /\ Verdict(q) = Decide(Rule(m), q)
    BY OneSettles
  <2>2. /\ m \in Known /\ n \in Known
        /\ Rule(m).priority \in Int /\ Rule(n).priority \in Int
    BY RuleTyped DEF Deciding
  <2>3. m = n
    BY <2>1, <2>2 DEF Precedes
  <2> QED
    BY <2>1, <2>3
<1> QED
  BY <1>1, PolicyInitInv, PolicyStep, PTL DEF PolicySpec

\* What those three lemmas say of a state, and so of the next one too.
PolicyFacts ==
  /\ \A n \in Known : n \in PolicyNames /\ Rule(n).priority \in Int /\ Rule(n) # NoRule
  /\ \A n \in Known : Position(n) \in Nat
  /\ \A q : Deciding(q) # {} =>
       \E n \in Deciding(q) :
         /\ \A m \in Deciding(q) \ {n} : Precedes(n, m)
         /\ Verdict(q) = Decide(Rule(n), q)

LEMMA PolicyKnown == PolicyInv => PolicyFacts
  BY RuleTyped, OwnPosition, OneSettles DEF PolicyFacts

LEMMA PolicyKnownNext == PolicyInv' => PolicyFacts'
  BY PolicyKnown, PTL

\* Where a step changes nothing about two rules that come first before and
\* after it, they agree or tie.
LEMMA FirstsAgree ==
  ASSUME PolicyInv, PolicyFacts', NEW q, NEW f, NEW g,
         f \in Deciding(q), g \in Deciding(q), f \in Known', g \in Known',
         Rule(f)' = Rule(f), Rule(g)' = Rule(g),
         \A m \in Deciding(q) \ {f} : Precedes(f, m),
         f # g => Precedes(g, f)', ~Tied(q)
  PROVE  Decide(Rule(f), q) = Decide(Rule(g), q)
<1>1. CASE f = g
  BY <1>1
<1>2. CASE f # g
  <2>1. /\ f \in Known /\ g \in Known
        /\ Rule(f).priority \in Int /\ Rule(g).priority \in Int
    BY RuleTyped DEF Deciding
  <2>2. Precedes(f, g) /\ Precedes(g, f)'
    BY <1>2
  <2>3. Rule(f).priority = Rule(g).priority /\ Position(f) < Position(g)
        /\ Position(g)' < Position(f)'
    BY <2>1, <2>2 DEF Precedes
  <2>4. /\ Position(f) \in Int /\ Position(g) \in Int
        /\ Position(f)' \in Int /\ Position(g)' \in Int
    <3>1. Position(f) \in Nat /\ Position(g) \in Nat
      BY <2>1, OwnPosition
    <3>2. Position(f)' \in Nat /\ Position(g)' \in Nat
      BY DEF PolicyFacts
    <3> QED
      BY <3>1, <3>2
  <2>5. {f, g} \cap Stored # {}
    <3>1. ASSUME f \in ToSet(SettingsOrder), g \in ToSet(SettingsOrder) PROVE FALSE
      <4>1. Position(f)' = Position(f) /\ Position(g)' = Position(g)
        BY <3>1 DEF Position
      <4> QED
        BY <2>3, <2>4, <4>1
    <3> QED
      BY <2>1, <3>1 DEF Known
  <2>6. \A k \in Deciding(q) : Rule(k).priority >= Rule(f).priority
    <3> TAKE k \in Deciding(q)
    <3>1. Rule(k).priority \in Int
      BY RuleTyped DEF Deciding
    <3>2. k = f \/ Precedes(f, k)
      OBVIOUS
    <3> QED
      BY <2>1, <3>1, <3>2 DEF Precedes
  <2> QED
    BY <2>3, <2>5, <2>6 DEF Tied
<1> QED
  BY <1>1, <1>2

\* Edits and the order of the hash concern nobody whose rules they leave
\* alone, unless rules of equal priority disagree.
THEOREM EditsKeepOtherVerdicts == PolicySpec => VerdictsAreStable
<1>1. PolicyInv /\ PolicyInv' /\ [PolicyNext]_policyVars =>
        [dynamic' # dynamic \/ order' # order =>
           \A q \in Inquiries :
             (\A n \in PolicyNames : Bearing(n, q)' = Bearing(n, q)) /\ ~Tied(q)
               => Verdict(q)' = Verdict(q)]_policyVars
  <2> SUFFICES ASSUME PolicyInv, PolicyFacts', NEW q \in Inquiries,
                      \A n \in PolicyNames : Bearing(n, q)' = Bearing(n, q), ~Tied(q)
               PROVE  Verdict(q)' = Verdict(q)
    BY PolicyKnownNext
  <2>1. ASSUME NEW n PROVE n \in Deciding(q) => /\ n \in Deciding(q)'
                                                /\ Rule(n)' = Rule(n)
    <3> SUFFICES ASSUME n \in Deciding(q)
                 PROVE  n \in Deciding(q)' /\ Rule(n)' = Rule(n)
      OBVIOUS
    <3>1. /\ n \in Known /\ Matches(Rule(n), q)
          /\ Decide(Rule(n), q) \in {"allow", "deny"}
      BY DEF Deciding
    <3>2. n \in PolicyNames /\ Rule(n) # NoRule /\ Bearing(n, q) = Rule(n)
      BY <3>1, RuleTyped DEF Bearing
    <3>3. Bearing(n, q)' = Rule(n)
      BY <3>2
    <3>4. n \in Known' /\ Rule(n)' = Rule(n)
      BY <3>2, <3>3 DEF Bearing
    <3> QED
      BY <3>1, <3>4 DEF Deciding, Matches, Decide, Capped
  <2>2. ASSUME NEW n PROVE n \in Deciding(q)' => n \in Deciding(q)
    <3> SUFFICES ASSUME n \in Deciding(q)' PROVE n \in Deciding(q)
      OBVIOUS
    <3>1. n \in Known' /\ Matches(Rule(n), q)' /\ (Decide(Rule(n), q) \in {"allow", "deny"})'
      BY DEF Deciding
    <3>2. n \in PolicyNames /\ Rule(n)' # NoRule
      BY <3>1 DEF PolicyFacts
    <3>3. Bearing(n, q)' = Rule(n)'
      BY <3>1 DEF Bearing
    <3>4. n \in Known /\ Rule(n)' = Rule(n)
      BY <3>2, <3>3 DEF Bearing
    <3> QED
      BY <3>1, <3>4 DEF Deciding, Matches, Decide, Capped
  <2>3. Deciding(q)' = Deciding(q)
    BY <2>1, <2>2
  <2>4. CASE Deciding(q) = {}
    BY <2>3, <2>4 DEF Verdict
  <2>5. CASE Deciding(q) # {}
    <3>1. PICK f \in Deciding(q) :
            /\ \A m \in Deciding(q) \ {f} : Precedes(f, m)
            /\ Verdict(q) = Decide(Rule(f), q)
      BY <2>5, OneSettles
    <3>2. \E n \in Deciding(q)' :
            /\ \A m \in Deciding(q)' \ {n} : Precedes(n, m)'
            /\ Verdict(q)' = Decide(Rule(n)', q)
      BY <2>3, <2>5 DEF PolicyFacts
    <3>3. PICK g \in Deciding(q) :
            /\ \A m \in Deciding(q) \ {g} : Precedes(g, m)'
            /\ Verdict(q)' = Decide(Rule(g)', q)
      BY <2>3, <3>2
    <3>4. /\ Rule(f)' = Rule(f) /\ Rule(g)' = Rule(g)
          /\ f \in Known' /\ g \in Known'
      BY <2>1, <2>3 DEF Deciding
    <3>5. f # g => Precedes(g, f)'
      BY <3>3
    <3>6. Decide(Rule(f), q) = Decide(Rule(g), q)
      BY <3>1, <3>4, <3>5, FirstsAgree
    <3> QED
      BY <3>1, <3>3, <3>4, <3>6
  <2> QED
    BY <2>4, <2>5
<1> QED
  BY <1>1, PolicyInitInv, PolicyStep, PTL DEF PolicySpec, VerdictsAreStable

\* A rule that is added to deny comes first, and denies, or leaves the first
\* rule of before in its place, unless that one ties with another.
THEOREM DeniedStaysDenied == PolicySpec => DenyStands
<1>1. PolicyInv /\ PolicyInv' /\ [PolicyNext]_policyVars =>
        [\A n \in PolicyNames :
           (/\ n \notin Known /\ n \in Known' /\ Rule(n)'.effect = "deny")
             => \A q \in Inquiries :
                  Verdict(q) = "deny" => Verdict(q)' = "deny" \/ Tied(q)]_policyVars
  <2> SUFFICES ASSUME PolicyInv, PolicyFacts', [PolicyNext]_policyVars,
                      NEW n \in PolicyNames, NEW q \in Inquiries,
                      n \notin Known, n \in Known', Rule(n)'.effect = "deny",
                      Verdict(q) = "deny", ~Tied(q)
               PROVE  Verdict(q)' = "deny"
    BY PolicyKnownNext
  <2>1. \A k \in PolicyNames \ {n} : dynamic'[k] = dynamic[k]
    <3>1. n \in Stored' /\ n \notin Stored
      BY DEF Known
    <3>2. dynamic'[n] # dynamic[n]
      BY <3>1 DEF Stored
    <3>3. PICK m \in PolicyNames :
            \E rule : dynamic' = [dynamic EXCEPT ![m] = rule]
      BY <3>2 DEF PolicyNext, SetPolicy, DeletePolicy, Rehash, policyVars
    <3> QED
      BY <3>2, <3>3 DEF PolicyInv
  <2>2. ASSUME NEW k \in Known
        PROVE  k \in Known' /\ Rule(k)' = Rule(k)
    <3>1. k \in PolicyNames \ {n}
      BY RuleTyped
    <3> QED
      BY <2>1, <3>1 DEF Known, Stored, Rule
  <2>3. ASSUME NEW k \in Known', k # n PROVE k \in Known
    <3>1. k \in PolicyNames
      BY DEF PolicyFacts
    <3> QED
      BY <2>1, <2>3, <3>1 DEF Known, Stored
  <2>4. ASSUME NEW k \in Deciding(q) PROVE k \in Known /\ k \in Deciding(q)'
    <3>1. /\ k \in Known /\ Matches(Rule(k), q)
          /\ Decide(Rule(k), q) \in {"allow", "deny"}
      BY DEF Deciding
    <3> QED
      BY <2>2, <3>1 DEF Deciding, Matches, Decide, Capped
  <2>5. ASSUME NEW k \in Deciding(q)', k # n PROVE k \in Deciding(q)
    <3>1. /\ k \in Known' /\ Matches(Rule(k), q)'
          /\ (Decide(Rule(k), q) \in {"allow", "deny"})'
      BY DEF Deciding
    <3>2. k \in Known /\ Rule(k)' = Rule(k)
      BY <2>2, <2>3, <2>5, <3>1
    <3> QED
      BY <3>1, <3>2 DEF Deciding, Matches, Decide, Capped
  <2>6. Deciding(q) # {}
    BY DEF Verdict
  <2>7. PICK f \in Deciding(q) :
          /\ \A m \in Deciding(q) \ {f} : Precedes(f, m)
          /\ Verdict(q) = Decide(Rule(f), q)
    BY <2>6, OneSettles
  <2>8. Deciding(q)' # {}
    BY <2>4, <2>6
  <2>9. PICK g \in Deciding(q)' :
          /\ \A m \in Deciding(q)' \ {g} : Precedes(g, m)'
          /\ Verdict(q)' = Decide(Rule(g)', q)
    BY <2>8 DEF PolicyFacts
  <2>10. CASE g = n
    BY <2>9, <2>10 DEF Decide
  <2>11. CASE g # n
    <3>1. g \in Deciding(q) /\ f \in Deciding(q)'
      BY <2>4, <2>5, <2>11
    <3>2. /\ Rule(f)' = Rule(f) /\ Rule(g)' = Rule(g)
          /\ f \in Known' /\ g \in Known'
      BY <2>2, <2>4, <3>1
    <3>3. f # g => Precedes(g, f)'
      BY <2>9, <3>1
    <3>4. Decide(Rule(f), q) = Decide(Rule(g), q)
      BY <2>7, <3>1, <3>2, <3>3, FirstsAgree
    <3> QED
      BY <2>7, <2>9, <3>2, <3>4
  <2> QED
    BY <2>10, <2>11
<1> QED
  BY <1>1, PolicyInitInv, PolicyStep, PTL DEF PolicySpec, DenyStands
=============================================================================
