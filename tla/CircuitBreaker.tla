--------------------------- MODULE CircuitBreaker ---------------------------
(***************************************************************************)
(* The per-provider circuit kept by the state backend (app/state.py) and   *)
(* driven through the facade in app/resilience.py.  A circuit is the pair  *)
(* of fields stored under the provider's name; a missing entry is the      *)
(* value Closed.  The memory and the Redis backend compute the same        *)
(* values; they differ in which of the steps below can be separated by     *)
(* other work, and that is the business of the modules that use these      *)
(* operators.  Time is a clock in whole ticks.                             *)
(***************************************************************************)
EXTENDS Integers

CONSTANTS
  FailureThreshold,  \* circuit_failure_threshold: failures that open a circuit
  RecoverySeconds    \* circuit_recovery_seconds: ticks an open circuit rejects

\* Neither setting is validated by the program: any integer may be configured.
ASSUME CircuitAssumption ==
  /\ FailureThreshold \in Int
  /\ RecoverySeconds \in Int

Never == -1          \* opened_at is None

Circuit == [failures : Nat, openedAt : Nat \cup {Never}]

\* circuit_success drops the entry, which every reader takes for this value.
Closed == [failures |-> 0, openedAt |-> Never]

\* Mutant: the recovery interval is one tick short.
AllowsEarly(c, t) == c.openedAt = Never \/ t - c.openedAt + 1 >= RecoverySeconds

\* circuit_allow: an entry without opened_at admits, an open one admits once
\* the recovery interval has passed.
Allows(c, t) == c.openedAt = Never \/ t - c.openedAt >= RecoverySeconds

\* circuit_failure: from the threshold on, every failure stamps opened_at.
Opens(c) == c.failures + 1 >= FailureThreshold

\* circuit_failure: count, and stamp with t, the caller's clock when it
\* issued the call.
Failed(c, t) ==
  [failures |-> c.failures + 1,
   openedAt |-> IF Opens(c) THEN t ELSE c.openedAt]
=============================================================================
