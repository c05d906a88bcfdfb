---------------------------- MODULE PolicyEngine ----------------------------
(***************************************************************************)
(* PolicyEngine.evaluate (app/policy.py) over the policies that are        *)
(* effective: those of the settings, overridden and extended by the        *)
(* dynamic ones of the governance store.  The state is what the            *)
(* administrators make of the dynamic policies, and the order in which     *)
(* the store enumerates them: the order of insertion in memory, and any    *)
(* order, which may change at any time, for a hash of Redis.               *)
(***************************************************************************)
EXTENDS Integers, SequencesExt

CONSTANTS
  PolicyNames,    \* names of policies
  Rules,          \* what PolicyUpdate accepts for a dynamic policy
  SettingsOrder,  \* the names of POLICIES_JSON, in order
  SettingsRules,  \* their rules
  Inquiries,      \* requests: client, role, model, tokens, stream
  NoRule          \* no policy of that name

\* A rule without roles, clients or models is given all of them.  A glob is
\* the set of models it matches.  tokens is 0 for a request without max_tokens.
NoCap == -1
Effects == {"allow", "deny", "other"}
ASSUME PolicyAssumption ==
  /\ SettingsOrder \in Seq(PolicyNames) /\ IsInjective(SettingsOrder)
  /\ DOMAIN SettingsRules = ToSet(SettingsOrder)
  /\ \A rule \in Rules : rule.effect \in Effects \ {"other"}
  /\ \A rule \in Rules \cup Range(SettingsRules) : rule.priority \in Int
  /\ NoRule \notin Rules \cup Range(SettingsRules)

VARIABLES
  dynamic,  \* governance:policies, a rule or NoRule for every name
  order     \* the order in which the store enumerates its names

policyVars == <<dynamic, order>>

Stored == {n \in PolicyNames : dynamic[n] # NoRule}

PolicyInit ==
  /\ dynamic = [n \in PolicyNames |-> NoRule]
  /\ order = <<>>

-----------------------------------------------------------------------------
Known == Stored \cup ToSet(SettingsOrder)

Rule(n) == IF dynamic[n] # NoRule THEN dynamic[n] ELSE SettingsRules[n]

IndexIn(list, n) == CHOOSE i \in DOMAIN list : list[i] = n

\* dict.update: an overridden policy keeps its place, new ones come after.
Position(n) ==
  IF n \in ToSet(SettingsOrder) THEN IndexIn(SettingsOrder, n)
  ELSE Len(SettingsOrder) + IndexIn(order, n)

\* Mutant: the largest number first.
PrecedesDown(m, n) ==
  \/ Rule(m).priority > Rule(n).priority
  \/ Rule(m).priority = Rule(n).priority /\ Position(m) < Position(n)

\* Mutant: the order of the dictionary.
PrecedesUnsorted(m, n) == Position(m) < Position(n)

\* sorted by priority, which is stable.
Precedes(m, n) ==
  \/ Rule(m).priority < Rule(n).priority
  \/ Rule(m).priority = Rule(n).priority /\ Position(m) < Position(n)

\* _matches, for the rules that are enabled.
Matches(rule, inquiry) ==
  /\ rule.enabled
  /\ inquiry.role \in rule.roles
  /\ inquiry.client \in rule.clients
  /\ inquiry.model \in rule.models

Capped(rule, inquiry) == rule.max_tokens # NoCap /\ inquiry.tokens > rule.max_tokens

\* Mutant: a rule that mentions streaming settles it.
DecideStreams(rule, inquiry) ==
  IF Capped(rule, inquiry) THEN "deny"
  ELSE IF inquiry.stream THEN IF rule.allow_stream THEN "allow" ELSE "deny"
  ELSE rule.effect

\* What a matching rule makes of a request.  An effect that is neither, which
\* only the settings can hold, leaves it to the rules after it.
Decide(rule, inquiry) ==
  IF Capped(rule, inquiry) \/ (inquiry.stream /\ ~rule.allow_stream)
  THEN "deny"
  ELSE rule.effect

\* The loop goes on over the rules that do not match or do not decide.
Deciding(inquiry) ==
  {n \in Known :
    /\ Matches(Rule(n), inquiry)
    /\ Decide(Rule(n), inquiry) \in {"allow", "deny"}}

\* evaluate, reduced to allowed or denied.
Verdict(inquiry) ==
  LET found == Deciding(inquiry) IN
  IF found = {} THEN "allow"
  ELSE Decide(Rule(CHOOSE n \in found : \A m \in found \ {n} : Precedes(n, m)), inquiry)

-----------------------------------------------------------------------------
Reordered == order' \in {o \in [1 .. Cardinality(Stored') -> Stored'] : IsInjective(o)}

SetPolicy ==
  /\ \E n \in PolicyNames, rule \in Rules : dynamic' = [dynamic EXCEPT ![n] = rule]
  /\ Reordered

DeletePolicy ==
  /\ \E n \in PolicyNames : dynamic' = [dynamic EXCEPT ![n] = NoRule]
  /\ Reordered

\* Redis rehashes, or a replica with another build of Redis takes over.
Rehash == UNCHANGED dynamic /\ Reordered

PolicyNext == SetPolicy \/ DeletePolicy \/ Rehash

PolicySpec == PolicyInit /\ [][PolicyNext]_policyVars

-----------------------------------------------------------------------------
(* Properties. *)

\* Rules of one priority, not all of the settings, disagree, and no rule with
\* a lower number comes before them.
Tied(inquiry) ==
  \E m, n \in Deciding(inquiry) :
    /\ {m, n} \cap Stored # {}
    /\ Rule(m).priority = Rule(n).priority
    /\ Decide(Rule(m), inquiry) # Decide(Rule(n), inquiry)
    /\ \A k \in Deciding(inquiry) : Rule(k).priority >= Rule(m).priority

\* "Lower number evaluated first": a rule that decides a request, and has a
\* smaller number than every other that would, is the one that does.
LowestNumberRules ==
  \A q \in Inquiries : \A n \in Deciding(q) :
    (\A k \in Deciding(q) \ {n} : Rule(k).priority > Rule(n).priority)
      => Verdict(q) = Decide(Rule(n), q)

\* The rule of n as far as it concerns the request.
Bearing(n, inquiry) ==
  IF n \in Known /\ Matches(Rule(n), inquiry) THEN Rule(n) ELSE NoRule

\* An edit concerns nobody but the requests that the rule matches before or
\* after it, and the order of the hash nobody at all, unless rules of equal
\* priority disagree about the request.
VerdictsAreStable ==
  [][dynamic' # dynamic \/ order' # order =>
       \A q \in Inquiries :
         (\A n \in PolicyNames : Bearing(n, q)' = Bearing(n, q)) /\ ~Tied(q)
           => Verdict(q)' = Verdict(q)]_policyVars

\* A rule that is added to deny never lets anything through that was denied
\* before, whatever else the rule says and wherever its priority puts it.
DenyStands ==
  [][\A n \in PolicyNames :
       (/\ n \notin Known /\ n \in Known' /\ Rule(n)'.effect = "deny")
         => \A q \in Inquiries :
              Verdict(q) = "deny" => Verdict(q)' = "deny" \/ Tied(q)]_policyVars
=============================================================================
