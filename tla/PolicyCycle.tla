----------------------------- MODULE PolicyCycle -----------------------------
(***************************************************************************)
(* One failure policy driven by executions that share it.                  *)
(*                                                                         *)
(* A policy belongs to one client, use case and provider, so every perform *)
(* of that use case calls the same object.  Each execution follows the     *)
(* cycle that the policy documents (beforeExecution, then afterFailure or  *)
(* afterSuccess, a retry jumps back to beforeExecution); executions        *)
(* interleave at the awaits between the calls.                             *)
(***************************************************************************)
EXTENDS FailurePolicies

CONSTANTS Executions,   \* the executions that may be in flight at once
          Config,       \* configuration of the policy
          MaxTime,      \* bound of the clock
          MaxUps,       \* bound of the net backoff.up() calls
          MaxStreak     \* bound of a streak of either sign

ASSUME ConfigAssumption == Config \in PolicyConfig
ASSUME BoundsAssumption ==
  MaxTime \in Nat /\ MaxUps \in Nat /\ MaxStreak \in Nat

VARIABLES policy,     \* state of the policy object
          now,        \* timers.now()
          exec,       \* progress of every execution
          failures,   \* history: failures in a row since success or recovery
          trippedAt,  \* history: time the breaker last opened
          event       \* history: the last call and what it returned

vars == <<policy, now, exec, failures, trippedAt, event>>

ExecState == {"idle", "running", "retrying", "threw"}
Call      == {"none", "before", "failure", "bind-failure", "success", "abandon",
              "reset", "tick"}
Answer    == {"continue", "backoff", "abort", "retry", "throw", "none"}

TypeOK ==
  /\ policy \in PolicyState
  /\ now \in 0..MaxTime
  /\ exec \in [Executions -> ExecState]
  /\ failures \in Nat
  /\ trippedAt \in 0..MaxTime
  /\ event \in [call : Call, answer : Answer]

Init ==
  /\ policy = NewPolicy
  /\ now = 0
  /\ exec = [e \in Executions |-> "idle"]
  /\ failures = 0
  /\ trippedAt = 0
  /\ event = [call |-> "none", answer |-> "none"]

(* A bind failure uses up the whole allowance of retries at once.          *)
CountFailure(f) ==
  IF f = "bind" THEN MathMax(1, Retries(Config) + 1) ELSE failures + 1

-----------------------------------------------------------------------------

Before(e) ==
  LET out == BeforeExecution(Config, policy, now)
  IN /\ exec[e] \in {"idle", "running", "retrying"}
     /\ policy' = out.policy
     /\ exec' = [exec EXCEPT ![e] =
                   IF out.resolution.kind = "abort" THEN "idle" ELSE "running"]
     /\ failures' = IF out.policy.state = "half-open" THEN 0 ELSE failures
     /\ event' = [call |-> "before", answer |-> out.resolution.kind]
     /\ UNCHANGED <<now, trippedAt>>

Fail(e, f) ==
  LET out == AfterFailure(Config, policy, f, now)
  IN /\ exec[e] = "running"
     /\ policy.ups < MaxUps /\ failures < MaxStreak
     /\ policy' = out.policy
     /\ exec' = [exec EXCEPT ![e] =
                   CASE out.resolution.kind = "retry" -> "retrying"
                     [] out.resolution.kind = "throw" -> "threw"
                     [] OTHER                         -> "idle"]
     /\ failures' = IF policy.state = "closed" THEN CountFailure(f) ELSE failures
     /\ trippedAt' = IF out.policy.state = "open" /\ policy.state # "open"
                     THEN now ELSE trippedAt
     /\ event' = [call   |-> IF f = "bind" THEN "bind-failure" ELSE "failure",
                   answer |-> out.resolution.kind]
     /\ UNCHANGED now

Succeed(e) ==
  LET out == AfterSuccess(Config, policy, now)
  IN /\ exec[e] = "running"
     /\ policy.streak < MaxStreak
     /\ policy' = out.policy
     /\ exec' = [exec EXCEPT ![e] =
                   IF out.resolution.kind = "throw" THEN "threw" ELSE "idle"]
     /\ failures' = IF out.resolution.kind = "throw" THEN failures ELSE 0
     /\ event' = [call |-> "success", answer |-> out.resolution.kind]
     /\ UNCHANGED <<now, trippedAt>>

(* A perform that ends with an error no policy is told about, for example  *)
(* an error outcome of the map or an invalid result.                       *)
Abandon(e) ==
  /\ exec[e] = "running"
  /\ exec' = [exec EXCEPT ![e] = "idle"]
  /\ event' = [call |-> "abandon", answer |-> "none"]
  /\ UNCHANGED <<policy, now, failures, trippedAt>>

Reset ==
  /\ policy' = ResetPolicy(Config, policy)
  /\ failures' = 0
  /\ event' = [call |-> "reset", answer |-> "none"]
  /\ UNCHANGED <<now, exec, trippedAt>>

Tick ==
  /\ now < MaxTime
  /\ now' = now + 1
  /\ event' = [call |-> "tick", answer |-> "none"]
  /\ UNCHANGED <<policy, exec, failures, trippedAt>>

Next ==
  \/ \E e \in Executions : \/ Before(e)
                           \/ \E f \in FailureKind : Fail(e, f)
                           \/ Succeed(e)
                           \/ Abandon(e)
  \/ Reset
  \/ Tick

Spec == Init /\ [][Next]_vars

-----------------------------------------------------------------------------
(* The backoff a policy has built up is exactly what its balance says it   *)
(* still has to take back, so a reset or enough successes always return it *)
(* to the initial value and never below it.                                *)
BackoffMatchesBalance ==
  policy.balance <= 0 /\ policy.ups + policy.balance = 0

(* A closed breaker has never let more failures in a row pass than its     *)
(* threshold allows, counted since the last success or recovery, whichever *)
(* executions reported them.                                               *)
ClosedBelowThreshold ==
  (Config.kind = "circuit-breaker" /\ policy.state = "closed") =>
    failures <= MathMax(0, Retries(Config))

(* A closed breaker trips on a full streak of failures and on nothing less *)
(* (an early trip would take a healthy provider out of service).           *)
TripsOnlyAtThreshold ==
  [][policy.state = "closed" /\ policy'.state = "open" =>
       failures' > Retries(Config)]_vars

(* "In this state, the breaker will abort any outgoing request until a     *)
(* configured timeout is reached": while it is open no beforeExecution     *)
(* answers anything but abort before the timeout since the trip is over.   *)
OpenAdmitsNobody ==
  [][policy.state = "open" /\ event'.call = "before" /\ event'.answer # "abort" =>
       now >= trippedAt + Config.openTime]_vars

(* "the breaker closes again and is in the same state as at the            *)
(* beginning": after recovery there is no backoff and no started streak.   *)
RecoveryIsFresh ==
  [][policy.state = "half-open" /\ policy'.state = "closed" =>
       /\ policy'.balance = 0 /\ policy'.ups = 0
       /\ policy'.streak >= 0 /\ failures' = 0]_vars

(* The branches of the breaker that throw 'Unreachable circuit breaker     *)
(* state' and 'Unreachable' are unreachable.                               *)
NeverThrows == \A e \in Executions : exec[e] # "threw"

(* A policy asks for a retry only while the failures in a row, counted     *)
(* over all executions that share it, stay within maxContiguousRetries.    *)
RetriesWithinAllowance ==
  [][event'.answer = "retry" => failures' <= Retries(Config)]_vars

-----------------------------------------------------------------------------
(* The policy with its inner RetryPolicy, seen as the breaker it promises  *)
(* to be: the negative part of the streak is the count of failures, and    *)
(* the time of the trip matters only while the breaker is open.            *)
Breaker == INSTANCE CircuitBreaker WITH
  Threshold <- Config.maxContiguousRetries,
  OpenTime  <- Config.openTime,
  state     <- policy.state,
  failed    <- MathMax(0, -policy.streak),
  until     <- IF policy.state = "open"
               THEN policy.openTime + Config.openTime ELSE 0,
  call      <- event.call,
  answer    <- event.answer

(* "If a streak of failures reaches the configured threshold the breaker   *)
(* trips [...] After this timeout, the breaker goes into half-open state   *)
(* where any failure will trip it again": shared by any executions, with   *)
(* streaks, balances and late reports, CircuitBreakerPolicy does at every  *)
(* call what the breaker of CircuitBreaker may do, and answers the same.   *)
ImplementsBreaker == Breaker!Spec

-----------------------------------------------------------------------------
(* The inductive invariant behind the properties above: the history        *)
(* variables agree with what the policy remembers.                         *)
HistoryMatches ==
  /\ policy.state = "open" => trippedAt = policy.openTime
  /\ policy.state = "half-open" => failures = 0
  /\ (Config.kind # "none" /\ policy.state = "closed") =>
       failures = MathMax(0, -policy.streak)

OnlyBreakersTrip ==
  Config.kind # "circuit-breaker" =>
    policy.state = "closed" /\ policy.openTime = 0

IInv == TypeOK /\ SoundPolicy(policy) /\ OnlyBreakersTrip /\ HistoryMatches
          /\ ClosedBelowThreshold
=============================================================================
