----------------------------- MODULE Candidates -----------------------------
(***************************************************************************)
(* ModelRouter.candidates (app/router.py): from the model a request names  *)
(* to the list of targets that the router tries, for any number of         *)
(* requests at once, with the round-robin cursor they share (app/state.py).*)
(* The snapshot is one of Snapshots; module GovernanceStore says which     *)
(* ones can be read.  The only await after it is the INCR of the cursor;   *)
(* with the memory backend it does not suspend, which leaves a part of the *)
(* behaviours below.                                                       *)
(***************************************************************************)
EXTENDS Integers, SequencesExt

CONSTANTS
  Requests,   \* calls of candidates in progress
  Names,      \* the strings that stand for models: aliases, pools, targets
  Models,     \* those that requests name
  Targets,    \* those of the form "provider:model", neither part empty
  Snapshots,  \* effective aliases, pools, pricing and routing_policy
  Fallbacks,  \* settings.fallback_models
  MaxTurns,   \* bound on a cursor, for the model checker only
  None        \* no model, no policy, no snapshot

Policies == {"priority", "round_robin", "random", "cost"}

\* The settings' routing policy is any string, a request's is one of Policies.
ASSUME CandidatesAssumption ==
  /\ Targets \subseteq Names /\ Models \subseteq Names
  /\ Fallbacks \in Seq(Names)
  /\ \A s \in Snapshots :
       /\ DOMAIN s.aliases \subseteq Names /\ Range(s.aliases) \subseteq Names
       /\ DOMAIN s.pools \subseteq Names /\ Range(s.pools) \subseteq Seq(Names)
       /\ s.pricing \in [DOMAIN s.pricing -> Nat]
  /\ MaxTurns \in Nat
  /\ None \notin Names \cup Policies
  /\ None \notin Snapshots

VARIABLES
  cursor,    \* round-robin:<model>, the turns given so far
  pc,        \* where the call is suspended, or how it ended
  model,     \* request.model
  policy,    \* the policy in force for the request
  snapshot,  \* the configuration it has read
  targets,   \* the list it returns
  window     \* history: the list of the latest turns, and how often each place came first

requestVars == <<model, policy, snapshot, targets>>
vars == <<cursor, pc, requestVars, window>>

NoTurns(list) == [list |-> list, first |-> [i \in 1 .. Len(list) |-> 0]]

Init ==
  /\ cursor = [m \in Models |-> 0]
  /\ pc = [r \in Requests |-> "idle"]
  /\ model = [r \in Requests |-> None]
  /\ policy = [r \in Requests |-> None]
  /\ snapshot = [r \in Requests |-> None]
  /\ targets = [r \in Requests |-> <<>>]
  /\ window = [m \in Models |-> NoTurns(<<>>)]

-----------------------------------------------------------------------------
(* The list, before the policy orders it. *)

\* A pool that is missing or empty leaves the requested model by itself.
Candidates(m, s) ==
  (IF m \in DOMAIN s.pools /\ s.pools[m] # <<>> THEN s.pools[m] ELSE <<m>>)
    \o Fallbacks

\* _resolve; what is not in Targets raises ValueError.
Resolve(name, s) == IF name \in DOMAIN s.aliases THEN s.aliases[name] ELSE name

\* The members of S in the order of less, a set of pairs: the k-th is the one
\* with k - 1 before it.
Sorted(S, less) ==
  [k \in 1 .. Cardinality(S) |->
     CHOOSE x \in S : Cardinality({y \in S : <<y, x>> \in less}) = k - 1]

\* Mutant: a name is looked up among the names seen, not its target among the
\* targets.
FirstNames(names, s) ==
  {i \in DOMAIN names : \A j \in 1 .. i - 1 : names[j] # names[i]}

\* Where a name stands for a target that no name before it stands for.
FirstNamed(names, s) ==
  {i \in DOMAIN names :
     \A j \in 1 .. i - 1 : Resolve(names[j], s) # Resolve(names[i], s)}

\* _dedupe_targets keeps the first name of every target.
Distinct(names, s) ==
  LET places == FirstNamed(names, s)
      order == Sorted(places, {p \in places \X places : p[1] < p[2]})
  IN [k \in DOMAIN order |-> Resolve(names[order[k]], s)]

Unresolved(names, s) == \E i \in DOMAIN names : Resolve(names[i], s) \notin Targets

-----------------------------------------------------------------------------
(* The four orders. *)

Rotated(list, k) == SubSeq(list, k + 1, Len(list)) \o SubSeq(list, 1, k)

\* Mutant: a target without a price counts as free.
CheaperIfFree(t, u, pricing) ==
  LET Score(c) == IF c \in DOMAIN pricing THEN pricing[c] ELSE 0 IN Score(t) < Score(u)

\* _cost_score: a target without a price costs inf.
Cheaper(t, u, pricing) ==
  t \in DOMAIN pricing /\ (u \in DOMAIN pricing => pricing[t] < pricing[u])

\* sorted is stable.
CostOrder(list, pricing) ==
  {p \in (DOMAIN list) \X (DOMAIN list) :
     \/ Cheaper(list[p[1]], list[p[2]], pricing)
     \/ ~Cheaper(list[p[2]], list[p[1]], pricing) /\ p[1] < p[2]}

ByCost(list, pricing) ==
  LET order == Sorted(DOMAIN list, CostOrder(list, pricing))
  IN [k \in DOMAIN order |-> list[order[k]]]

\* random.shuffle
Shuffles(list) ==
  {[i \in DOMAIN list |-> list[p[i]]] : p \in Bijection(DOMAIN list, DOMAIN list)}

\* A list of one target needs no turn.
Orders(list, kind, s) ==
  CASE kind = "cost" -> {ByCost(list, s.pricing)}
    [] kind = "random" -> Shuffles(list)
    [] OTHER -> {list}

NeedsTurn(list, kind) == kind = "round_robin" /\ Len(list) > 1

Goto(r, label) == pc' = [pc EXCEPT ![r] = label]

\* From the snapshot to the first await, or to the end.
Begin(r) ==
  /\ pc[r] = "idle"
  /\ \E m \in Models, asked \in Policies \cup {None}, s \in Snapshots :
       LET kind == IF asked = None THEN s.routing_policy ELSE asked
           names == Candidates(m, s)
           list == Distinct(names, s)
       IN
       /\ model' = [model EXCEPT ![r] = m]
       /\ policy' = [policy EXCEPT ![r] = kind]
       /\ snapshot' = [snapshot EXCEPT ![r] = s]
       /\ IF Unresolved(names, s) \/ kind \notin Policies
          THEN Goto(r, "badRequest") /\ UNCHANGED targets
          ELSE /\ Goto(r, IF NeedsTurn(list, kind) THEN "turn" ELSE "ordered")
               /\ \E o \in Orders(list, kind, s) : targets' = [targets EXCEPT ![r] = o]
  /\ UNCHANGED <<cursor, window>>

-----------------------------------------------------------------------------
\* Mutant: one cursor for all pools.
CursorShared(r) == CHOOSE m \in Models : TRUE

\* The cursor belongs to the requested model.
CursorOf(r) == model[r]

\* round_robin_index: INCR, or the increment under the lock.
Incremented(r) ==
  LET index == cursor[CursorOf(r)] % Len(targets[r])
      w == IF window[model[r]].list = targets[r] THEN window[model[r]]
           ELSE NoTurns(targets[r])
  IN
  /\ cursor[CursorOf(r)] < MaxTurns
  /\ cursor' = [cursor EXCEPT ![CursorOf(r)] = @ + 1]
  /\ window' = [window EXCEPT ![model[r]] = [w EXCEPT !.first[index + 1] = @ + 1]]

TakeTurn(r) ==
  /\ pc[r] = "turn"
  /\ Incremented(r)
  /\ targets' = [targets EXCEPT ![r] = Rotated(@, cursor[CursorOf(r)] % Len(@))]
  /\ Goto(r, "ordered")
  /\ UNCHANGED <<model, policy, snapshot>>

\* RedisError: the turn is given, or not, but nobody takes it.
Fault(r) ==
  /\ pc[r] = "turn"
  /\ Incremented(r) \/ UNCHANGED <<cursor, window>>
  /\ Goto(r, "error")
  /\ UNCHANGED requestVars

\* The router takes the list over; the slot is free.
Leave(r) ==
  /\ pc[r] \in {"ordered", "badRequest", "error"}
  /\ Goto(r, "idle")
  /\ model' = [model EXCEPT ![r] = None]
  /\ policy' = [policy EXCEPT ![r] = None]
  /\ snapshot' = [snapshot EXCEPT ![r] = None]
  /\ targets' = [targets EXCEPT ![r] = <<>>]
  /\ UNCHANGED <<cursor, window>>

Next == \E r \in Requests : Begin(r) \/ TakeTurn(r) \/ Fault(r) \/ Leave(r)

Spec == Init /\ [][Next]_vars

-----------------------------------------------------------------------------
(* Properties. *)

Named(r) == Candidates(model[r], snapshot[r])
Standing(r) == {Resolve(Named(r)[i], snapshot[r]) : i \in DOMAIN Named(r)}

\* Where a target is first named, before any ordering.
Place(r, t) ==
  CHOOSE i \in DOMAIN Named(r) :
    /\ Resolve(Named(r)[i], snapshot[r]) = t
    /\ \A j \in 1 .. i - 1 : Resolve(Named(r)[j], snapshot[r]) # t

\* What the router assumes of its list, whatever pools, aliases, fallbacks and
\* orders make of it: every target that some name of the request stands for is
\* in it, once, and nothing else; it is never empty.  A request is refused
\* only for a name that stands for no target, or for an unknown policy.
EveryTargetOnce ==
  \A r \in Requests :
    /\ pc[r] \in {"turn", "ordered"} =>
         /\ targets[r] # <<>>
         /\ ToSet(targets[r]) = Standing(r)
         /\ Len(targets[r]) = Cardinality(Standing(r))
    /\ pc[r] = "badRequest" =>
         ~(Standing(r) \subseteq Targets) \/ policy[r] \notin Policies

\* The order is the policy's: priority keeps the configured one, round robin
\* turns it around, cost puts the priced targets first, the cheapest before
\* the dearer, and leaves equals as configured.
PolicyOrder ==
  \A r \in Requests : pc[r] = "ordered" =>
    LET list == targets[r]
        pricing == snapshot[r].pricing
        Earlier(i, j) == Place(r, list[i]) < Place(r, list[j])
        Wraps == {i \in 1 .. Len(list) - 1 : ~Earlier(i, i + 1)}
    IN
    /\ policy[r] = "priority" => Wraps = {}
    /\ policy[r] = "round_robin" =>
         \/ Wraps = {}
         \/ Cardinality(Wraps) = 1 /\ Earlier(Len(list), 1)
    /\ policy[r] = "cost" =>
         \A i, j \in DOMAIN list : i < j =>
           IF list[j] \in DOMAIN pricing
           THEN /\ list[i] \in DOMAIN pricing
                /\ pricing[list[i]] <= pricing[list[j]]
                /\ pricing[list[i]] = pricing[list[j]] => Earlier(i, j)
           ELSE list[i] \in DOMAIN pricing \/ Earlier(i, j)

\* Round robin is even: among consecutive turns of one model over one list,
\* however the requests overlap, which of them fail, and which other models
\* and lists take turns in between, no target comes first twice more often
\* than another.
EvenTurns ==
  \A m \in Models : LET w == window[m] IN
    \A i, j \in DOMAIN w.list : w.first[i] <= w.first[j] + 1
=============================================================================
