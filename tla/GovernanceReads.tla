--------------------------- MODULE GovernanceReads ---------------------------
(***************************************************************************)
(* GovernanceStore.snapshot (app/governance.py) as a chat request takes it *)
(* (app/main.py, app/router.py): once for the policies that judge the      *)
(* request, once for the aliases, pools, prices and routing policy that    *)
(* route it, and once for the price of the provider's answer, or of every  *)
(* chunk of a stream that reports usage.  Every snapshot reads five        *)
(* hashes, one HGETALL after the other, while the admin operations of      *)
(* GovernanceStore go on: with Redis between any two commands, with the    *)
(* memory backend only while the request waits for the provider.           *)
(***************************************************************************)
EXTENDS GovernanceStore

CONSTANTS
  SectionOf,  \* the section of every field
  Static      \* the value that the settings give it, or None

Sections == <<"aliases", "pools", "pricing", "settings", "policies">>
Uses == {"judge", "route", "price"}

ASSUME ReadsAssumption ==
  /\ SectionOf \in [Fields -> ToSet(Sections)]
  /\ Static \in [Fields -> Accepted \cup {None}]

VARIABLES
  use,    \* what the snapshot in progress is for
  at,     \* the section it reads next
  view,   \* the latest snapshot for every use
  floor   \* history: the newest write whose operation had returned as it began

readVars == <<use, at, view, floor>>
allVars == <<vars, readVars>>

NoView == [u \in Uses |-> [f \in Fields |-> None]]

ReadsInit ==
  /\ Init
  /\ use = [r \in Requests |-> "judge"]
  /\ at = [r \in Requests |-> 1]
  /\ view = [r \in Requests |-> NoView]
  /\ floor = [r \in Requests |-> 1]

\* Stored values override the settings.
Effective(config) ==
  [f \in Fields |-> IF config[f] # None THEN config[f] ELSE Static[f]]

Proceed(r, label) ==
  /\ GotoIf(r, label, label = "read")
  /\ UNCHANGED <<storeVars, auditVars, event, returned, lost, contested>>

\* The first of its five reads is next.
BeginSnapshot(r, u) ==
  /\ use' = [use EXCEPT ![r] = u]
  /\ at' = [at EXCEPT ![r] = 1]
  /\ floor' = [floor EXCEPT ![r] = returned]

-----------------------------------------------------------------------------
Arrive(r) ==
  /\ pc[r] = "idle"
  /\ BeginSnapshot(r, "judge")
  /\ Proceed(r, "read")
  /\ UNCHANGED view

\* Mutant: the order in which the sections are read is turned around.
ReadBackwards(r) ==
  /\ pc[r] = "read"
  /\ view' = [view EXCEPT ![r][use[r]] =
       [f \in Fields |-> IF SectionOf[f] = Sections[Len(Sections) + 1 - at[r]]
                         THEN Effective(dynamic)[f] ELSE @[f]]]

\* HGETALL
Read(r) ==
  /\ pc[r] = "read"
  /\ view' = [view EXCEPT ![r][use[r]] =
       [f \in Fields |-> IF SectionOf[f] = Sections[at[r]]
                         THEN Effective(dynamic)[f] ELSE @[f]]]

ReadOn(r) ==
  /\ Read(r) /\ at[r] < Len(Sections)
  /\ at' = [at EXCEPT ![r] = @ + 1]
  /\ Proceed(r, "read")
  /\ UNCHANGED <<use, floor>>

\* Mutant: a check between the two snapshots suspends.
JudgedSuspending(r) ==
  /\ Read(r) /\ at[r] = Len(Sections) /\ use[r] = "judge"
  /\ use' = [use EXCEPT ![r] = "route"]
  /\ at' = [at EXCEPT ![r] = 1]
  /\ GotoIf(r, "read", FALSE)
  /\ UNCHANGED <<storeVars, auditVars, event, returned, lost, contested, floor>>

\* The policies allow the request, rate limit and budget as well.
Judged(r) ==
  /\ Read(r) /\ at[r] = Len(Sections) /\ use[r] = "judge"
  /\ use' = [use EXCEPT ![r] = "route"]
  /\ at' = [at EXCEPT ![r] = 1]
  /\ Proceed(r, "read")
  /\ UNCHANGED floor

\* The list of targets is made and the provider called.
Routed(r) ==
  /\ Read(r) /\ at[r] = Len(Sections) /\ use[r] = "route"
  /\ Proceed(r, "called")
  /\ UNCHANGED <<use, at, floor>>

\* Mutant: the price is taken from the snapshot that routed the request.
AnsweredAtRoutedPrice(r) ==
  /\ pc[r] = "called"
  /\ view' = [view EXCEPT ![r]["price"] = view[r]["route"]]
  /\ use' = [use EXCEPT ![r] = "price"]
  /\ floor' = [floor EXCEPT ![r] = returned]
  /\ Proceed(r, "charged")
  /\ UNCHANGED at

\* The provider's answer, or a chunk that reports usage.
Answered(r) ==
  /\ pc[r] = "called"
  /\ BeginSnapshot(r, "price")
  /\ Proceed(r, "read")
  /\ UNCHANGED view

\* The cost is calculated.
Priced(r) ==
  /\ Read(r) /\ at[r] = Len(Sections) /\ use[r] = "price"
  /\ Proceed(r, "charged")
  /\ UNCHANGED <<use, at, floor>>

\* A stream goes on; a price is replaced by that of a later chunk.
NextChunk(r) ==
  /\ pc[r] = "charged"
  /\ Proceed(r, "called")
  /\ UNCHANGED readVars

\* The answer is out; or a policy, the rate limit, the budget or the router
\* refuses; or a provider, or with Redis a command, has failed.
End(r) ==
  /\ \/ pc[r] \in {"called", "charged"}
     \/ /\ pc[r] = "read"
        /\ suspending \/ (use[r] # "price" /\ at[r] = Len(Sections))
  /\ Proceed(r, "idle")
  /\ use' = [use EXCEPT ![r] = "judge"]
  /\ at' = [at EXCEPT ![r] = 1]
  /\ view' = [view EXCEPT ![r] = NoView]
  /\ floor' = [floor EXCEPT ![r] = 1]

Reading(r) ==
  \/ Arrive(r) \/ ReadOn(r) \/ Judged(r) \/ Routed(r) \/ Answered(r) \/ Priced(r)
  \/ NextChunk(r) \/ End(r)

ReadsNext ==
  \/ Next /\ UNCHANGED readVars
  \/ \E r \in Requests : Reading(r)

ReadsSpec == ReadsInit /\ [][ReadsNext]_allVars

-----------------------------------------------------------------------------
(* Properties. *)

\* The snapshot has the section as the i-th configuration had it.
Shows(r, u, section, i) ==
  \A f \in Fields : SectionOf[f] = section =>
    view[r][u][f] = Effective(configs[i])[f]

Since(i) == i .. Len(configs)

\* A request is never routed by anything older than the policies that judged
\* it, nor by a pool older than its aliases, a price older than its pools, or
\* a routing policy older than its prices; and none of them is older than the
\* changes whose operations had returned when the request arrived.  So what
\* an administrator removes in the order pool, alias, policy is never seen
\* half removed by one snapshot in a way that leaves a pool without its alias.
SnapshotInOrder ==
  \A r \in Requests : pc[r] = "called" /\ use[r] = "route" =>
    \E h \in Since(floor[r]) : Shows(r, "judge", "policies", h) /\
    \E i \in Since(h) : Shows(r, "route", "aliases", i) /\
    \E j \in Since(i) : Shows(r, "route", "pools", j) /\
    \E k \in Since(j) : Shows(r, "route", "pricing", k) /\
    \E l \in Since(k) : Shows(r, "route", "settings", l)

\* The price that is charged was in force after the provider had answered,
\* and has every change whose operation had returned by then, though the
\* request was admitted and routed under an earlier one.
PriceOfAnswer ==
  \A r \in Requests : pc[r] = "charged" =>
    \E i \in Since(floor[r]) : Shows(r, "price", "pricing", i)

\* "Policies are part of the same effective Governance Snapshot as aliases,
\* pools, pricing, and routing settings": there was a moment at which all that
\* judged and routed the request was in force.
OneEffectiveSnapshot ==
  \A r \in Requests : pc[r] = "called" /\ use[r] = "route" =>
    \E i \in DOMAIN configs :
      /\ Shows(r, "judge", "policies", i)
      /\ \A s \in ToSet(Sections) \ {"policies"} : Shows(r, "route", s, i)

\* With the memory backend it is so, although a request takes two snapshots.
OneSnapshotInMemory == ~suspending => OneEffectiveSnapshot
=============================================================================
