-------------------------- MODULE FailurePolicies --------------------------
(***************************************************************************)
(* The failure policies of one provider of one use case, as operators:     *)
(* AbortPolicy, RetryPolicy and CircuitBreakerPolicy with the Backoff they *)
(* own.  Every method of a policy becomes an operator that takes the       *)
(* configuration c, the state s of the policy and the arguments of the     *)
(* call, and yields an Outcome: the state after the call and what the call *)
(* returns (or that it throws).                                            *)
(*                                                                         *)
(* Data abstraction: a reason, a request timeout and the id of the use     *)
(* case are left out, the kinds of a failure are kept, and a Backoff is    *)
(* the number of .up() calls that no .down() call has undone.              *)
(***************************************************************************)
EXTENDS Integers

MathMax(a, b) == IF a >= b THEN a ELSE b
MathMin(a, b) == IF a <= b THEN a ELSE b

-----------------------------------------------------------------------------
(* Configurations: what instantiateFailurePolicy reads from super.json.    *)

PolicyKind  == {"none", "simple", "circuit-breaker"}
FailureKind == {"network", "request", "http", "unknown", "bind"}

PolicyConfig ==
  [kind : PolicyKind,
   maxContiguousRetries : Nat,
   start : Nat,          \* initial backoff, in ticks of the clock
   factor : Nat,         \* base of the exponential backoff
   openTime : Nat]       \* time a tripped breaker stays open

(* The retries the RetryPolicy of a provider is constructed with: the      *)
(* breaker hands its inner policy one less than its failure threshold.     *)
Retries(c) == IF c.kind = "circuit-breaker"
              THEN c.maxContiguousRetries - 1
              ELSE c.maxContiguousRetries

(* Backoff.current.  A simple policy has a ConstantBackoff(0), a breaker   *)
(* an ExponentialBackoff without minimum and maximum.                      *)
BackoffCurrent(c, ups) == IF c.kind = "simple" THEN 0
                          ELSE c.start * c.factor ^ ups

-----------------------------------------------------------------------------
(* The state of a policy.  The fields of the inner RetryPolicy and of the  *)
(* breaker are kept side by side; a policy that lacks a field never        *)
(* changes it.                                                             *)

BreakerState == {"closed", "open", "half-open"}

PolicyState ==
  [streak : Int, balance : Int, ups : Int, lastCallTime : Nat,
   state : BreakerState, openTime : Nat]

NewPolicy == [streak |-> 0, balance |-> 0, ups |-> 0, lastCallTime |-> 0,
              state |-> "closed", openTime |-> 0]

Outcome(s, r)  == [policy |-> s, resolution |-> r]
Resolution(k)  == [kind |-> k]
BackoffFor(n)  == [kind |-> "backoff", backoff |-> n]
Throws         == Resolution("throw")

-----------------------------------------------------------------------------
(* RetryPolicy                                                             *)

RetryBeforeExecution(c, s, time) ==
  Outcome(s, IF s.balance >= 0
             THEN Resolution("continue")
             ELSE BackoffFor(MathMax(0, BackoffCurrent(c, s.ups)
                                          - (time - s.lastCallTime))))

(* Mutated form, which the properties must tell from the code: the limit   *)
(* on the streak is one too low.                                           *)
RetryUpTo(limit, c, s, failure, time) ==
  LET before == IF failure = "bind" THEN -limit ELSE s.streak
      failed == [s EXCEPT !.streak = MathMin(-1, before - 1),
                          !.lastCallTime = time]
  IN IF -failed.streak > limit
     THEN Outcome(failed, Resolution("abort"))
     ELSE Outcome([failed EXCEPT !.balance = @ - 1, !.ups = @ + 1],
                  Resolution("retry"))

RetryTooFew(c, s, failure, time) == RetryUpTo(Retries(c) - 1, c, s, failure, time)

RetryAfterFailure(c, s, failure, time) ==
  LET before == IF failure = "bind" THEN -Retries(c) ELSE s.streak
      failed == [s EXCEPT !.streak = MathMin(-1, before - 1),
                          !.lastCallTime = time]
  IN IF -failed.streak > Retries(c)
     THEN Outcome(failed, Resolution("abort"))
     ELSE Outcome([failed EXCEPT !.balance = @ - 1, !.ups = @ + 1],
                  Resolution("retry"))

(* Mutated form: takes back backoff that was never built up.               *)
RetrySuccessUnguarded(s, time) ==
  Outcome([s EXCEPT !.streak = MathMax(1, @ + 1), !.lastCallTime = time,
                    !.balance = @ + 1, !.ups = @ - 1],
          Resolution("continue"))

RetryAfterSuccess(s, time) ==
  LET succeeded == [s EXCEPT !.streak = MathMax(1, @ + 1),
                             !.lastCallTime = time]
  IN Outcome(IF s.balance >= 0 THEN succeeded
             ELSE [succeeded EXCEPT !.balance = @ + 1, !.ups = @ - 1],
             Resolution("continue"))

(* The loop calls backoff.down() once for every unit of balance below 0.   *)
RetryReset(s) ==
  [s EXCEPT !.streak = 0, !.lastCallTime = 0,
            !.ups = @ + MathMin(0, s.balance),
            !.balance = MathMax(0, @)]

-----------------------------------------------------------------------------
(* CircuitBreakerPolicy                                                    *)

(* Mutated form: the inner policy is not reset.                            *)
OpenWithoutReset(s, time) ==
  [s EXCEPT !.state = "open", !.openTime = time]
Open(s, time) == [RetryReset(s) EXCEPT !.state = "open", !.openTime = time]
HalfOpen(s)   == [s EXCEPT !.state = "half-open"]
Close(s)      == [s EXCEPT !.state = "closed"]

(* Mutated form: asks the inner policy without looking at the breaker.     *)
BreakerAlwaysDelegates(c, s, time) == RetryBeforeExecution(c, s, time)

(* Mutated form: a call that an open breaker refuses starts its wait anew. *)
BreakerWaitsAnew(c, s, time) ==
  IF s.state = "open"
  THEN IF time >= s.openTime + c.openTime
       THEN Outcome(HalfOpen(s), Resolution("continue"))
       ELSE Outcome(Open(s, time), Resolution("abort"))
  ELSE RetryBeforeExecution(c, s, time)

BreakerBeforeExecution(c, s, time) ==
  IF s.state = "open"
  THEN IF time >= s.openTime + c.openTime
       THEN Outcome(HalfOpen(s), Resolution("continue"))
       ELSE Outcome(s, Resolution("abort"))
  ELSE RetryBeforeExecution(c, s, time)   \* the inner policy never aborts here

BreakerAfterFailure(c, s, failure, time) ==
  CASE s.state = "half-open" -> Outcome(Open(s, time), Resolution("abort"))
    [] s.state = "open"      -> Outcome(s, Throws)
    [] s.state = "closed"    ->
         LET inner == RetryAfterFailure(c, s, failure, time)
         IN IF inner.resolution.kind = "abort"
            THEN Outcome(Open(inner.policy, time), Resolution("abort"))
            ELSE inner

BreakerAfterSuccess(s, time) ==
  CASE s.state = "half-open" -> RetryAfterSuccess(Close(s), time)
    [] s.state = "open"      -> Outcome(s, Throws)
    [] s.state = "closed"    -> RetryAfterSuccess(s, time)

-----------------------------------------------------------------------------
(* The FailurePolicy interface: dispatch on the class of the policy.       *)

BeforeExecution(c, s, time) ==
  CASE c.kind = "none"            -> Outcome(s, Resolution("continue"))
    [] c.kind = "simple"          -> RetryBeforeExecution(c, s, time)
    [] c.kind = "circuit-breaker" -> BreakerBeforeExecution(c, s, time)

AfterFailure(c, s, failure, time) ==
  CASE c.kind = "none"            -> Outcome(s, Resolution("abort"))
    [] c.kind = "simple"          -> RetryAfterFailure(c, s, failure, time)
    [] c.kind = "circuit-breaker" -> BreakerAfterFailure(c, s, failure, time)

AfterSuccess(c, s, time) ==
  CASE c.kind = "none"            -> Outcome(s, Resolution("continue"))
    [] c.kind = "simple"          -> RetryAfterSuccess(s, time)
    [] c.kind = "circuit-breaker" -> BreakerAfterSuccess(s, time)

ResetPolicy(c, s) ==
  CASE c.kind = "none"            -> s
    [] c.kind = "simple"          -> RetryReset(s)
    [] c.kind = "circuit-breaker" ->
         [RetryReset(s) EXCEPT !.state = "closed", !.openTime = 0]

-----------------------------------------------------------------------------
(* What every call leaves true of a policy, whoever makes the calls and in *)
(* whatever order: the backoff owes exactly what the balance says, and a   *)
(* policy that is not closed carries no streak and no backoff.             *)
SoundPolicy(s) ==
  /\ s.balance <= 0
  /\ s.ups + s.balance = 0
  /\ s.state # "closed" => s.streak = 0 /\ s.balance = 0
=============================================================================
