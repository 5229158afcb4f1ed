-------------------------- MODULE PolicyCycleProofs --------------------------
(***************************************************************************)
(* Proofs about PolicyCycle, for any set of executions, any configuration  *)
(* and any bounds.  IInv is inductive; the invariants follow from it, and  *)
(* so do the action properties, one step at a time.                        *)
(***************************************************************************)
EXTENDS PolicyCycle, FailurePolicyLemmas

USE ConfigAssumption, BoundsAssumption

LEMMA InitIInv == Init => IInv
<1> SUFFICES ASSUME Init PROVE IInv
  OBVIOUS
<1> USE DEF Init
<1>1. policy \in PolicyState /\ SoundPolicy(policy)
  BY NewPolicySound
<1>2. TypeOK
  BY <1>1 DEF TypeOK, ExecState, Call, Answer
<1>3. policy.state = "closed" /\ policy.openTime = 0 /\ policy.streak = 0
  BY DEF NewPolicy
<1>4. failures = 0
  OBVIOUS
<1>5. MathMax(0, -policy.streak) = 0
  BY <1>1, <1>3 DEF MathMax, PolicyState
<1>6. HistoryMatches /\ OnlyBreakersTrip
  BY <1>3, <1>4, <1>5 DEF HistoryMatches, OnlyBreakersTrip
<1>7. ClosedBelowThreshold
  BY <1>4, RetriesType DEF ClosedBelowThreshold, MathMax
<1>8. QED
  BY <1>1, <1>2, <1>6, <1>7 DEF IInv

(* The constants every step needs: the policy fits its lemmas.             *)
LEMMA PolicyFits ==
  IInv => /\ Config \in PolicyConfig /\ policy \in PolicyState
          /\ SoundPolicy(policy) /\ now \in Nat
          /\ Config.kind # "circuit-breaker" => policy.state = "closed"
          /\ Retries(Config) \in Int
  BY RetriesType DEF IInv, TypeOK, OnlyBreakersTrip

(* A failure reported to a closed policy is counted by its streak.         *)
LEMMA ClosedFailure ==
  ASSUME IInv, Config.kind # "none", policy.state = "closed",
         NEW f \in FailureKind
  PROVE  LET inner == RetryAfterFailure(Config, policy, f, now)
         IN /\ CountFailure(f) = MathMax(0, -inner.policy.streak)
            /\ inner.resolution.kind = "abort" =>
                 CountFailure(f) > Retries(Config)
            /\ inner.resolution.kind = "retry" =>
                 CountFailure(f) <= Retries(Config)
            /\ CountFailure(f) \in Nat
<1> DEFINE inner  == RetryAfterFailure(Config, policy, f, now)
           before == IF f = "bind" THEN -Retries(Config) ELSE policy.streak
<1>1. /\ inner.policy \in PolicyState
      /\ inner.resolution.kind = "retry" => -inner.policy.streak <= Retries(Config)
      /\ inner.resolution.kind = "abort" => -inner.policy.streak > Retries(Config)
      /\ inner.policy.streak = MathMin(-1, before - 1)
  BY PolicyFits, RetryAfterFailureSound
<1>2. policy.streak \in Int /\ inner.policy.streak \in Int
      /\ Retries(Config) \in Int /\ failures \in Nat
  BY <1>1, PolicyFits DEF PolicyState, IInv, TypeOK
<1>3. failures = MathMax(0, -policy.streak)
  BY DEF IInv, HistoryMatches
<1> HIDE DEF inner
<1>4. /\ CountFailure(f) = -inner.policy.streak
      /\ -inner.policy.streak >= 1
  BY <1>1, <1>2, <1>3 DEF CountFailure, MathMax, MathMin
<1>5. QED
  BY <1>1, <1>2, <1>4 DEF inner, MathMax

LEMMA BeforeIInv == ASSUME IInv, NEW e \in Executions, Before(e) PROVE IInv'
<1> DEFINE out == BeforeExecution(Config, policy, now)
<1>1. /\ out.policy \in PolicyState /\ SoundPolicy(out.policy)
      /\ out.resolution.kind \in {"continue", "backoff", "abort"}
      /\ out.policy = policy \/ out.policy = HalfOpen(policy)
      /\ out.policy = policy \/ (policy.state = "open" /\ now >= policy.openTime + Config.openTime)
  BY PolicyFits, BeforeExecutionSound
<1>2. /\ policy' = out.policy
      /\ failures' = IF out.policy.state = "half-open" THEN 0 ELSE failures
      /\ exec' = [exec EXCEPT ![e] =
                    IF out.resolution.kind = "abort" THEN "idle" ELSE "running"]
      /\ event' = [call |-> "before", answer |-> out.resolution.kind]
      /\ UNCHANGED <<now, trippedAt>>
  BY DEF Before
<1> HIDE DEF out
<1>3. TypeOK'
  BY <1>1, <1>2 DEF IInv, TypeOK, ExecState, Call, Answer
<1>4. CASE policy' = policy
  BY <1>1, <1>2, <1>3, <1>4
     DEF IInv, HistoryMatches, OnlyBreakersTrip, ClosedBelowThreshold
<1>5. CASE policy.state = "open" /\ policy' = HalfOpen(policy)
  <2>1. policy'.state = "half-open"
    BY <1>5, PolicyFits DEF HalfOpen, PolicyState
  <2>2. failures' = 0 /\ Config.kind = "circuit-breaker"
    BY <1>2, <1>5, <2>1, PolicyFits
  <2>3. QED
    BY <1>1, <1>2, <1>3, <2>1, <2>2
       DEF IInv, HistoryMatches, OnlyBreakersTrip, ClosedBelowThreshold
<1>6. QED
  BY <1>1, <1>2, <1>4, <1>5

LEMMA FailIInv ==
  ASSUME IInv, NEW e \in Executions, NEW f \in FailureKind, Fail(e, f)
  PROVE  IInv'
<1> DEFINE out == AfterFailure(Config, policy, f, now)
<1>1. /\ out.policy \in PolicyState /\ SoundPolicy(out.policy)
      /\ out.resolution.kind \in {"retry", "abort", "throw"}
      /\ out.resolution.kind = "throw" <=>
           (Config.kind = "circuit-breaker" /\ policy.state = "open")
      /\ Config.kind # "circuit-breaker" => out.policy.state = "closed"
      /\ (Config.kind = "circuit-breaker" /\ out.resolution.kind = "abort") =>
           (out.policy.state = "open" /\ out.policy.openTime = now)
      /\ out.resolution.kind = "throw" => out.policy = policy
      /\ out.resolution.kind = "retry" =>
           (policy.state = "closed" /\ out.policy.state = "closed")
  BY PolicyFits, AfterFailureSound
<1>2. /\ policy' = out.policy
      /\ failures' = IF policy.state = "closed" THEN CountFailure(f) ELSE failures
      /\ trippedAt' = IF out.policy.state = "open" /\ policy.state # "open"
                      THEN now ELSE trippedAt
      /\ exec' = [exec EXCEPT ![e] =
                    CASE out.resolution.kind = "retry" -> "retrying"
                      [] out.resolution.kind = "throw" -> "threw"
                      [] OTHER                         -> "idle"]
      /\ event' = [call   |-> IF f = "bind" THEN "bind-failure" ELSE "failure",
                    answer |-> out.resolution.kind]
      /\ now' = now
  BY DEF Fail
<1>3. CountFailure(f) \in Nat
  BY PolicyFits DEF CountFailure, MathMax, IInv, TypeOK
<1> HIDE DEF out
<1>4. TypeOK'
  <2>1. exec' \in [Executions -> ExecState]
    BY <1>1, <1>2 DEF IInv, TypeOK, ExecState
  <2>2. trippedAt' \in 0..MaxTime /\ failures' \in Nat
    BY <1>2, <1>3 DEF IInv, TypeOK
  <2>3. QED
    BY <1>1, <1>2, <2>1, <2>2 DEF IInv, TypeOK, Call, Answer
<1>5. CASE Config.kind = "none"
  <2>1. policy' = policy
    BY <1>2, <1>5 DEF out, AfterFailure, Outcome
  <2>2. QED
    BY <1>1, <1>2, <1>4, <1>5, <2>1
       DEF IInv, HistoryMatches, OnlyBreakersTrip, ClosedBelowThreshold
<1>6. CASE Config.kind = "simple"
  <2>1. out = RetryAfterFailure(Config, policy, f, now) /\ policy.state = "closed"
    BY <1>6, PolicyFits DEF out, AfterFailure
  <2>2. /\ failures' = MathMax(0, -policy'.streak)
        /\ policy'.openTime = policy.openTime
    BY <1>2, <1>6, <2>1, ClosedFailure, PolicyFits, RetryAfterFailureSound
  <2>3. QED
    BY <1>1, <1>2, <1>4, <1>6, <2>2
       DEF IInv, HistoryMatches, OnlyBreakersTrip, ClosedBelowThreshold
<1>7. CASE Config.kind = "circuit-breaker" /\ out.resolution.kind = "abort"
  BY <1>1, <1>2, <1>4, <1>7
     DEF IInv, HistoryMatches, OnlyBreakersTrip, ClosedBelowThreshold
<1>8. CASE Config.kind = "circuit-breaker" /\ out.resolution.kind = "throw"
  BY <1>1, <1>2, <1>4, <1>8
     DEF IInv, HistoryMatches, OnlyBreakersTrip, ClosedBelowThreshold
<1>9. CASE Config.kind = "circuit-breaker" /\ out.resolution.kind = "retry"
  <2> DEFINE inner == RetryAfterFailure(Config, policy, f, now)
  <2>1. policy.state = "closed" /\ policy'.state = "closed"
    BY <1>1, <1>2, <1>9
  <2>2. out = IF inner.resolution.kind = "abort"
              THEN Outcome(Open(inner.policy, now), Resolution("abort"))
              ELSE inner
    BY <1>9, <2>1 DEF out, AfterFailure, BreakerAfterFailure
  <2>3. inner.resolution.kind # "abort"
    BY <1>9, <2>2 DEF Outcome, Resolution
  <2>4. out = inner
    BY <2>2, <2>3
  <2>5. /\ failures' = MathMax(0, -policy'.streak)
        /\ failures' <= Retries(Config)
    BY <1>2, <1>9, <2>1, <2>4, ClosedFailure
  <2>6. failures' <= MathMax(0, Retries(Config))
    BY <1>4, <2>5, PolicyFits DEF MathMax, TypeOK
  <2>7. QED
    BY <1>1, <1>2, <1>4, <1>9, <2>1, <2>5, <2>6
       DEF IInv, HistoryMatches, OnlyBreakersTrip, ClosedBelowThreshold
<1>10. QED
  BY <1>1, <1>5, <1>6, <1>7, <1>8, <1>9 DEF PolicyConfig, PolicyKind

LEMMA SucceedIInv == ASSUME IInv, NEW e \in Executions, Succeed(e) PROVE IInv'
<1> DEFINE out == AfterSuccess(Config, policy, now)
<1>1. /\ out.policy \in PolicyState /\ SoundPolicy(out.policy)
      /\ out.resolution.kind \in {"continue", "throw"}
      /\ out.resolution.kind = "throw" <=>
           (Config.kind = "circuit-breaker" /\ policy.state = "open")
      /\ out.resolution.kind = "throw" => out.policy = policy
      /\ out.resolution.kind = "continue" => out.policy.state = "closed"
      /\ out.policy.openTime = policy.openTime
      /\ (Config.kind # "none" /\ out.resolution.kind = "continue") =>
           out.policy.streak >= 1
  BY PolicyFits, AfterSuccessSound
<1>2. /\ policy' = out.policy
      /\ failures' = IF out.resolution.kind = "throw" THEN failures ELSE 0
      /\ exec' = [exec EXCEPT ![e] =
                    IF out.resolution.kind = "throw" THEN "threw" ELSE "idle"]
      /\ event' = [call |-> "success", answer |-> out.resolution.kind]
      /\ UNCHANGED <<now, trippedAt>>
  BY DEF Succeed
<1> HIDE DEF out
<1>3. TypeOK'
  BY <1>1, <1>2 DEF IInv, TypeOK, ExecState, Call, Answer
<1>4. CASE out.resolution.kind = "throw"
  BY <1>1, <1>2, <1>3, <1>4
     DEF IInv, HistoryMatches, OnlyBreakersTrip, ClosedBelowThreshold
<1>5. CASE out.resolution.kind = "continue"
  <2>1. failures' = 0 /\ policy'.state = "closed"
    BY <1>1, <1>2, <1>5
  <2>2. Config.kind # "none" => MathMax(0, -policy'.streak) = 0
    BY <1>1, <1>2, <1>5 DEF MathMax, PolicyState
  <2>3. 0 <= MathMax(0, Retries(Config))
    BY PolicyFits DEF MathMax
  <2>4. QED
    BY <1>1, <1>2, <1>3, <2>1, <2>2, <2>3
       DEF IInv, HistoryMatches, OnlyBreakersTrip, ClosedBelowThreshold
<1>6. QED
  BY <1>1, <1>4, <1>5

LEMMA ResetIInv == ASSUME IInv, Reset PROVE IInv'
<1>1. CASE Config.kind = "none"
  <2>1. policy' = policy /\ failures' = 0
    BY <1>1 DEF Reset, ResetPolicy
  <2>2. QED
    BY <1>1, <2>1 DEF Reset, IInv, TypeOK, Call, Answer, HistoryMatches,
                      OnlyBreakersTrip, ClosedBelowThreshold
<1>2. CASE Config.kind # "none"
  <2>1. policy' = NewPolicy /\ failures' = 0
    BY <1>2, PolicyFits, ResetPolicyIsNew DEF Reset, IInv, OnlyBreakersTrip
  <2>2. policy'.state = "closed" /\ policy'.streak = 0 /\ policy'.openTime = 0
    BY <2>1 DEF NewPolicy
  <2>3. policy' \in PolicyState /\ SoundPolicy(policy')
    BY <2>1, NewPolicySound
  <2>4. MathMax(0, -policy'.streak) = 0
    BY <2>2, <2>3 DEF MathMax, PolicyState
  <2>5. 0 <= MathMax(0, Retries(Config))
    BY PolicyFits DEF MathMax
  <2>6. TypeOK'
    BY <2>1, <2>3 DEF Reset, IInv, TypeOK, Call, Answer
  <2>7. QED
    BY <2>1, <2>2, <2>3, <2>4, <2>5, <2>6
       DEF IInv, HistoryMatches, OnlyBreakersTrip, ClosedBelowThreshold
<1>3. QED
  BY <1>1, <1>2

LEMMA NextIInv == IInv /\ [Next]_vars => IInv'
<1> SUFFICES ASSUME IInv, [Next]_vars PROVE IInv'
  OBVIOUS
<1>1. ASSUME NEW e \in Executions, Before(e) PROVE IInv'
  BY <1>1, BeforeIInv
<1>2. ASSUME NEW e \in Executions, NEW f \in FailureKind, Fail(e, f) PROVE IInv'
  BY <1>2, FailIInv
<1>3. ASSUME NEW e \in Executions, Succeed(e) PROVE IInv'
  BY <1>3, SucceedIInv
<1>4. ASSUME NEW e \in Executions, Abandon(e) PROVE IInv'
  BY <1>4 DEF Abandon, IInv, TypeOK, ExecState, Call, Answer, HistoryMatches,
              OnlyBreakersTrip, ClosedBelowThreshold
<1>5. CASE Reset
  BY <1>5, ResetIInv
<1>6. CASE Tick
  BY <1>6 DEF Tick, IInv, TypeOK, Call, Answer, HistoryMatches,
              OnlyBreakersTrip, ClosedBelowThreshold
<1>7. CASE UNCHANGED vars
  BY <1>7 DEF vars, IInv, TypeOK, HistoryMatches, OnlyBreakersTrip,
              ClosedBelowThreshold
<1>8. QED
  BY <1>1, <1>2, <1>3, <1>4, <1>5, <1>6, <1>7 DEF Next

(* IInv is an invariant: the history variables always agree with what the  *)
(* policy object remembers, whoever calls it and in whatever order.        *)
THEOREM InductiveInvariant == Spec => []IInv
<1>1. Init => IInv
  BY InitIInv
<1>2. IInv /\ [Next]_vars => IInv'
  BY NextIInv
<1>3. QED
  BY <1>1, <1>2, PTL DEF Spec

(* Every variable keeps its type.                                          *)
THEOREM TypeCorrect == Spec => []TypeOK
<1>1. IInv => TypeOK
  BY DEF IInv
<1>2. QED
  BY <1>1, InductiveInvariant, PTL

(* The backoff of a policy is never anything but what its balance owes.    *)
THEOREM BackoffBalanced == Spec => []BackoffMatchesBalance
<1>1. IInv => BackoffMatchesBalance
  BY DEF IInv, SoundPolicy, BackoffMatchesBalance
<1>2. QED
  BY <1>1, InductiveInvariant, PTL

(* No interleaving of executions gets a closed breaker past its threshold. *)
THEOREM ThresholdHolds == Spec => []ClosedBelowThreshold
<1>1. IInv => ClosedBelowThreshold
  BY DEF IInv
<1>2. QED
  BY <1>1, InductiveInvariant, PTL

(* An open breaker turns every execution away until its open time is over. *)
THEOREM OpenBreakerBlocks == Spec => OpenAdmitsNobody
<1> DEFINE Admit == policy.state = "open" /\ event'.call = "before"
                      /\ event'.answer # "abort" =>
                    now >= trippedAt + Config.openTime
<1>1. IInv /\ [Next]_vars => Admit \/ UNCHANGED vars
  <2> SUFFICES ASSUME IInv, Next, policy.state = "open",
                      event'.call = "before", event'.answer # "abort"
               PROVE  now >= trippedAt + Config.openTime
    OBVIOUS
  <2>1. PICK e \in Executions : Before(e)
    BY DEF Next, Fail, Succeed, Abandon, Reset, Tick
  <2> DEFINE out == BeforeExecution(Config, policy, now)
  <2>2. out.resolution.kind # "abort" => now >= policy.openTime + Config.openTime
    BY PolicyFits, BeforeExecutionSound DEF IInv, OnlyBreakersTrip
  <2>3. event'.answer = out.resolution.kind
    BY <2>1 DEF Before
  <2> HIDE DEF out
  <2>4. QED
    BY <2>2, <2>3 DEF IInv, HistoryMatches
<1>2. QED
  BY <1>1, InductiveInvariant, PTL DEF Spec, OpenAdmitsNobody

(* A closed breaker trips on a full streak of failures only.               *)
THEOREM NoEarlyTrip == Spec => TripsOnlyAtThreshold
<1>1. IInv /\ [Next]_vars =>
        (policy.state = "closed" /\ policy'.state = "open" =>
           failures' > Retries(Config)) \/ UNCHANGED vars
  <2> SUFFICES ASSUME IInv, Next, policy.state = "closed", policy'.state = "open"
               PROVE  failures' > Retries(Config)
    OBVIOUS
  <2>0. IInv'
    BY NextIInv
  <2>1. Config.kind = "circuit-breaker"
    BY <2>0 DEF IInv, OnlyBreakersTrip
  <2>2. ASSUME NEW e \in Executions, Before(e) PROVE FALSE
    BY <2>2, PolicyFits, BeforeExecutionSound DEF Before
  <2>3. ASSUME NEW e \in Executions, Succeed(e) PROVE FALSE
    <3>1. AfterSuccess(Config, policy, now).policy.state = "closed"
      BY PolicyFits, AfterSuccessSound
    <3>2. QED
      BY <2>3, <3>1 DEF Succeed
  <2>4. ASSUME NEW e \in Executions, Abandon(e) PROVE FALSE
    BY <2>4 DEF Abandon
  <2>5. ~Reset
    <3>1. ResetPolicy(Config, policy) = NewPolicy
      BY <2>1, PolicyFits, ResetPolicyIsNew
    <3>2. QED
      BY <3>1 DEF Reset, NewPolicy
  <2>6. ~Tick
    BY DEF Tick
  <2>7. PICK e \in Executions, f \in FailureKind : Fail(e, f)
    BY <2>2, <2>3, <2>4, <2>5, <2>6 DEF Next
  <2> DEFINE inner == RetryAfterFailure(Config, policy, f, now)
             out   == AfterFailure(Config, policy, f, now)
  <2>8. out = IF inner.resolution.kind = "abort"
              THEN Outcome(Open(inner.policy, now), Resolution("abort"))
              ELSE inner
    BY <2>1 DEF AfterFailure, BreakerAfterFailure
  <2>9. policy' = out.policy /\ failures' = CountFailure(f)
    BY <2>7 DEF Fail
  <2>10. inner.policy.state = "closed"
    BY PolicyFits, RetryAfterFailureSound
  <2>11. inner.resolution.kind = "abort" => CountFailure(f) > Retries(Config)
    BY <2>1, ClosedFailure
  <2> HIDE DEF inner, out
  <2>12. QED
    BY <2>8, <2>9, <2>10, <2>11
<1>2. QED
  BY <1>1, InductiveInvariant, PTL DEF Spec, TripsOnlyAtThreshold

(* A retry is only ever asked for within the allowance of the policy.      *)
THEOREM RetriesBounded == Spec => RetriesWithinAllowance
<1>1. IInv /\ [Next]_vars =>
        (event'.answer = "retry" => failures' <= Retries(Config)) \/ UNCHANGED vars
  <2> SUFFICES ASSUME IInv, Next, event'.answer = "retry"
               PROVE  failures' <= Retries(Config)
    OBVIOUS
  <2>1. ASSUME NEW e \in Executions, Before(e) PROVE FALSE
    <3>1. BeforeExecution(Config, policy, now).resolution.kind # "retry"
      BY PolicyFits, BeforeExecutionSound
    <3>2. QED
      BY <2>1, <3>1 DEF Before
  <2>2. ASSUME NEW e \in Executions, Succeed(e) PROVE FALSE
    <3>1. AfterSuccess(Config, policy, now).resolution.kind # "retry"
      BY PolicyFits, AfterSuccessSound
    <3>2. QED
      BY <2>2, <3>1 DEF Succeed
  <2>3. PICK e \in Executions, f \in FailureKind : Fail(e, f)
    BY <2>1, <2>2 DEF Next, Abandon, Reset, Tick
  <2> DEFINE inner == RetryAfterFailure(Config, policy, f, now)
             out   == AfterFailure(Config, policy, f, now)
  <2>4. out.resolution.kind = "retry"
    BY <2>3 DEF Fail
  <2>5. policy.state = "closed"
    BY <2>4, PolicyFits, AfterFailureSound
  <2>6. Config.kind # "none"
    BY <2>4 DEF AfterFailure, Outcome, Resolution
  <2>7. inner.resolution.kind = "retry"
    BY <2>4, <2>5, <2>6
       DEF AfterFailure, BreakerAfterFailure, Outcome, Resolution,
           PolicyConfig, PolicyKind
  <2>8. failures' = CountFailure(f)
    BY <2>3, <2>5 DEF Fail
  <2>9. QED
    BY <2>5, <2>6, <2>7, <2>8, ClosedFailure
<1>2. QED
  BY <1>1, InductiveInvariant, PTL DEF Spec, RetriesWithinAllowance

(* A breaker that recovers owes no backoff and remembers no failure,       *)
(* whoever trips it, probes it and resets it meanwhile.                    *)
THEOREM RecoversAfresh == Spec => RecoveryIsFresh
<1>1. IInv /\ [Next]_vars =>
        (policy.state = "half-open" /\ policy'.state = "closed" =>
           /\ policy'.balance = 0 /\ policy'.ups = 0
           /\ policy'.streak >= 0 /\ failures' = 0) \/ UNCHANGED vars
  <2> SUFFICES ASSUME IInv, Next, policy.state = "half-open", policy'.state = "closed"
               PROVE  /\ policy'.balance = 0 /\ policy'.ups = 0
                      /\ policy'.streak >= 0 /\ failures' = 0
    OBVIOUS
  <2>1. /\ Config.kind = "circuit-breaker" /\ policy \in PolicyState
        /\ policy.streak = 0 /\ policy.balance = 0 /\ policy.ups = 0
    BY DEF IInv, TypeOK, OnlyBreakersTrip, SoundPolicy, PolicyState
  <2>2. ASSUME NEW e \in Executions, Before(e) PROVE FALSE
    BY <2>2, PolicyFits, BeforeExecutionSound DEF Before
  <2>3. ASSUME NEW e \in Executions, NEW f \in FailureKind, Fail(e, f) PROVE FALSE
    <3>1. AfterFailure(Config, policy, f, now) = Outcome(Open(policy, now), Resolution("abort"))
      BY <2>1 DEF AfterFailure, BreakerAfterFailure
    <3>2. Open(policy, now).state = "open"
      BY <2>1, PolicyFits, OpenSound DEF SoundPolicy
    <3>3. QED
      BY <2>3, <3>1, <3>2 DEF Fail, Outcome
  <2>4. ASSUME NEW e \in Executions, Succeed(e)
        PROVE  /\ policy'.balance = 0 /\ policy'.ups = 0
               /\ policy'.streak >= 0 /\ failures' = 0
    <3> DEFINE out == AfterSuccess(Config, policy, now)
    <3>1. out = RetryAfterSuccess(Close(policy), now)
      BY <2>1 DEF AfterSuccess, BreakerAfterSuccess
    <3>2. /\ Close(policy) \in PolicyState /\ Close(policy).streak = 0
          /\ Close(policy).balance = 0 /\ Close(policy).ups = 0
      BY <2>1 DEF Close, PolicyState, BreakerState
    <3>3. /\ out.resolution.kind = "continue"
          /\ out.policy.balance = 0 /\ out.policy.ups = 0 /\ out.policy.streak = 1
      <4> DEFINE closed    == Close(policy)
                 succeeded == [closed EXCEPT !.streak = MathMax(1, @ + 1), !.lastCallTime = now]
      <4>1. /\ succeeded.balance = 0 /\ succeeded.ups = 0 /\ succeeded.streak = 1
        <5> HIDE DEF closed
        <5>1. MathMax(1, closed.streak + 1) = 1
          BY <3>2 DEF MathMax, closed
        <5>2. QED
          BY <3>2, <5>1 DEF PolicyState, closed
      <4>2. out = Outcome(succeeded, Resolution("continue"))
        BY <3>1, <3>2 DEF RetryAfterSuccess
      <4> HIDE DEF closed, succeeded, out
      <4>3. QED
        BY <4>1, <4>2 DEF Outcome, Resolution
    <3> HIDE DEF out
    <3>4. policy' = out.policy /\ failures' = 0
      BY <2>4, <3>3 DEF Succeed, out
    <3>5. QED
      BY <3>3, <3>4
  <2>5. ASSUME Reset
        PROVE  /\ policy'.balance = 0 /\ policy'.ups = 0
               /\ policy'.streak >= 0 /\ failures' = 0
    <3>1. ResetPolicy(Config, policy) = NewPolicy
      BY <2>1, PolicyFits, ResetPolicyIsNew
    <3>2. QED
      BY <2>5, <3>1 DEF Reset, NewPolicy
  <2>6. QED
    BY <2>2, <2>3, <2>4, <2>5 DEF Next, Abandon, Tick
<1>2. QED
  BY <1>1, InductiveInvariant, PTL DEF Spec, RecoveryIsFresh

(* With one execution at a time, each asking beforeExecution before it     *)
(* reports, the 'Unreachable' branches of the breaker are unreachable.     *)
OneAtATime == \A e1, e2 \in Executions : e1 = e2

RunningIsAdmitted ==
  \A e \in Executions : exec[e] = "running" => policy.state # "open"

THEOREM SequentialNeverThrows == OneAtATime => (Spec => []NeverThrows)
<1> SUFFICES ASSUME OneAtATime PROVE Spec => []NeverThrows
  OBVIOUS
<1> DEFINE Inv == IInv /\ RunningIsAdmitted /\ NeverThrows
<1>1. Init => Inv
  BY InitIInv DEF Init, RunningIsAdmitted, NeverThrows
<1>2. Inv /\ [Next]_vars => Inv'
  <2> SUFFICES ASSUME Inv, [Next]_vars PROVE Inv'
    OBVIOUS
  <2>0. IInv'
    BY NextIInv
  <2> USE DEF RunningIsAdmitted, NeverThrows
  <2>1. ASSUME NEW e \in Executions, Before(e) PROVE Inv'
    <3> DEFINE out == BeforeExecution(Config, policy, now)
    <3>1. /\ policy' = out.policy
          /\ exec' = [exec EXCEPT ![e] =
                        IF out.resolution.kind = "abort" THEN "idle" ELSE "running"]
      BY <2>1 DEF Before
    <3>2. out.resolution.kind # "abort" => out.policy.state # "open"
      BY PolicyFits, BeforeExecutionSound DEF IInv, OnlyBreakersTrip
    <3> HIDE DEF out
    <3>3. QED
      BY <2>0, <3>1, <3>2 DEF OneAtATime, IInv, TypeOK
  <2>2. ASSUME NEW e \in Executions, NEW f \in FailureKind, Fail(e, f) PROVE Inv'
    <3> DEFINE out == AfterFailure(Config, policy, f, now)
    <3>1. /\ exec[e] = "running"
          /\ exec' = [exec EXCEPT ![e] =
                        CASE out.resolution.kind = "retry" -> "retrying"
                          [] out.resolution.kind = "throw" -> "threw"
                          [] OTHER                         -> "idle"]
      BY <2>2 DEF Fail
    <3>2. out.resolution.kind # "throw"
      BY <3>1, PolicyFits, AfterFailureSound
    <3> HIDE DEF out
    <3>3. exec' \in [Executions -> ExecState] /\ exec'[e] \in {"retrying", "idle"}
      BY <3>1, <3>2 DEF IInv, TypeOK, ExecState
    <3>4. QED
      BY <2>0, <3>3 DEF OneAtATime
  <2>3. ASSUME NEW e \in Executions, Succeed(e) PROVE Inv'
    <3> DEFINE out == AfterSuccess(Config, policy, now)
    <3>1. /\ exec[e] = "running"
          /\ exec' = [exec EXCEPT ![e] =
                        IF out.resolution.kind = "throw" THEN "threw" ELSE "idle"]
      BY <2>3 DEF Succeed
    <3>2. out.resolution.kind # "throw"
      BY <3>1, PolicyFits, AfterSuccessSound
    <3> HIDE DEF out
    <3>3. exec' \in [Executions -> ExecState] /\ exec'[e] = "idle"
      BY <3>1, <3>2 DEF IInv, TypeOK, ExecState
    <3>4. QED
      BY <2>0, <3>3 DEF OneAtATime
  <2>4. ASSUME NEW e \in Executions, Abandon(e) PROVE Inv'
    BY <2>0, <2>4 DEF Abandon, IInv, TypeOK
  <2>5. CASE Reset
    <3>1. Config.kind # "circuit-breaker" => policy'.state = "closed"
      BY <2>0 DEF IInv, OnlyBreakersTrip
    <3>2. Config.kind = "circuit-breaker" => policy' = NewPolicy
      BY <2>5, PolicyFits, ResetPolicyIsNew DEF Reset
    <3>3. policy'.state # "open"
      BY <3>1, <3>2 DEF NewPolicy
    <3>4. QED
      BY <2>0, <2>5, <3>3 DEF Reset
  <2>6. CASE Tick
    BY <2>0, <2>6 DEF Tick
  <2>7. CASE UNCHANGED vars
    BY <2>0, <2>7 DEF vars
  <2>8. QED
    BY <2>1, <2>2, <2>3, <2>4, <2>5, <2>6, <2>7 DEF Next
<1>3. Inv => NeverThrows
  OBVIOUS
<1>4. QED
  BY <1>1, <1>2, <1>3, PTL DEF Spec

-----------------------------------------------------------------------------
(* Every step of the policy is a step of the breaker it promises to be.    *)

LEMMA BeforeIsBefore ==
  ASSUME IInv, Config.kind = "circuit-breaker", NEW e \in Executions, Before(e)
  PROVE  Breaker!Before
<1> DEFINE out == BeforeExecution(Config, policy, now)
<1>1. /\ policy' = out.policy /\ now' = now
      /\ event' = [call |-> "before", answer |-> out.resolution.kind]
  BY DEF Before
<1>2. event'.call = "before" /\ event'.answer = out.resolution.kind
  BY <1>1
<1>3. CASE policy.state = "open" /\ now >= policy.openTime + Config.openTime
  <2>1. out.policy = HalfOpen(policy) /\ out.resolution.kind = "continue"
    BY <1>3 DEF BeforeExecution, BreakerBeforeExecution, Outcome, Resolution
  <2>2. policy'.state = "half-open" /\ policy'.streak = policy.streak
    BY <1>1, <2>1, PolicyFits DEF HalfOpen, PolicyState
  <2>3. Breaker!Trial
    BY <1>2, <1>3, <2>1, <2>2 DEF Breaker!Trial
  <2>4. QED
    BY <1>1, <1>2, <2>3 DEF Breaker!Before
<1>4. CASE policy.state = "open" /\ ~ now >= policy.openTime + Config.openTime
  <2>1. out.policy = policy /\ out.resolution.kind = "abort"
    BY <1>4 DEF BeforeExecution, BreakerBeforeExecution, Outcome, Resolution
  <2>2. now < policy.openTime + Config.openTime
    BY <1>4, PolicyFits DEF PolicyState, PolicyConfig
  <2>3. Breaker!Refuse
    BY <1>1, <1>2, <1>4, <2>1, <2>2 DEF Breaker!Refuse
  <2>4. QED
    BY <1>1, <1>2, <2>3 DEF Breaker!Before
<1>5. CASE policy.state # "open"
  <2>1. out = RetryBeforeExecution(Config, policy, now)
    BY <1>5 DEF BeforeExecution, BreakerBeforeExecution
  <2>2. /\ out.policy = policy
        /\ out.resolution.kind = IF policy.balance >= 0 THEN "continue" ELSE "backoff"
    BY <2>1 DEF RetryBeforeExecution, Outcome, Resolution, BackoffFor
  <2>3. policy.state \in {"closed", "half-open"}
    BY <1>5, PolicyFits DEF PolicyState, BreakerState
  <2>4. policy.state = "half-open" => policy.balance >= 0
    BY PolicyFits DEF SoundPolicy
  <2>5. Breaker!Admit
    BY <1>1, <1>2, <1>5, <2>2, <2>3, <2>4 DEF Breaker!Admit
  <2>6. QED
    BY <1>1, <1>2, <2>5 DEF Breaker!Before
<1>6. QED
  BY <1>3, <1>4, <1>5

LEMMA FailIsFailure ==
  ASSUME IInv, Config.kind = "circuit-breaker",
         NEW e \in Executions, NEW f \in FailureKind, Fail(e, f)
  PROVE  Breaker!Failure
<1> DEFINE out   == AfterFailure(Config, policy, f, now)
           inner == RetryAfterFailure(Config, policy, f, now)
<1>1. /\ policy' = out.policy /\ now' = now
      /\ event'.call = IF f = "bind" THEN "bind-failure" ELSE "failure"
      /\ event'.answer = out.resolution.kind
  BY DEF Fail
<1>2. out = BreakerAfterFailure(Config, policy, f, now)
  BY DEF AfterFailure
<1>3. /\ policy.streak \in Int /\ Config.maxContiguousRetries \in Nat
      /\ Retries(Config) = Config.maxContiguousRetries - 1
  BY PolicyFits DEF PolicyState, PolicyConfig, Retries
<1>4. CASE policy.state = "half-open"
  <2>1. out.policy = Open(policy, now) /\ out.resolution.kind = "abort"
    BY <1>2, <1>4 DEF BreakerAfterFailure, Outcome, Resolution
  <2>2. /\ policy'.state = "open" /\ policy'.openTime = now
        /\ policy'.streak = 0
    BY <1>1, <2>1, PolicyFits, OpenSound DEF SoundPolicy
  <2>3. Breaker!Trip
    BY <1>1, <1>4, <2>1, <2>2 DEF Breaker!Trip, MathMax
  <2>4. QED
    BY <1>1, <2>3 DEF Breaker!Failure
<1>5. CASE policy.state = "open"
  <2>1. out.policy = policy /\ out.resolution.kind = "throw"
    BY <1>2, <1>5 DEF BreakerAfterFailure, Outcome, Throws, Resolution
  <2>2. Breaker!Late
    BY <1>1, <1>5, <2>1 DEF Breaker!Late
  <2>3. QED
    BY <1>1, <2>2 DEF Breaker!Failure
<1>6. CASE policy.state = "closed"
  <2>1. /\ inner.policy \in PolicyState
        /\ inner.policy.balance <= 0 /\ inner.policy.ups + inner.policy.balance = 0
        /\ inner.policy.state = "closed"
        /\ inner.resolution.kind \in {"retry", "abort"}
        /\ inner.resolution.kind = "retry" => -inner.policy.streak <= Retries(Config)
        /\ inner.resolution.kind = "abort" => -inner.policy.streak > Retries(Config)
        /\ inner.policy.streak =
             MathMin(-1, (IF f = "bind" THEN -Retries(Config) ELSE policy.streak) - 1)
    BY <1>6, PolicyFits, RetryAfterFailureSound
  <2>2. out = IF inner.resolution.kind = "abort"
              THEN Outcome(Open(inner.policy, now), Resolution("abort"))
              ELSE inner
    BY <1>2, <1>6 DEF BreakerAfterFailure
  <2>3. inner.policy.streak \in Int
    BY <2>1 DEF PolicyState
  <2> HIDE DEF inner, out
  <2>4. CASE inner.resolution.kind = "retry"
    <3>1. policy' = inner.policy /\ event'.answer = "retry"
      BY <1>1, <2>2, <2>4
    <3>2. f # "bind"
      BY <1>3, <2>1, <2>3, <2>4 DEF MathMin
    <3>3. /\ MathMax(0, -inner.policy.streak) = MathMax(0, -policy.streak) + 1
          /\ MathMax(0, -policy.streak) + 1 < Config.maxContiguousRetries
      BY <1>3, <2>1, <2>3, <2>4, <3>2 DEF MathMin, MathMax
    <3>4. Breaker!Retry
      BY <1>1, <1>6, <2>1, <3>1, <3>2, <3>3 DEF Breaker!Retry
    <3>5. QED
      BY <1>1, <3>4 DEF Breaker!Failure
  <2>5. CASE inner.resolution.kind = "abort"
    <3>1. out.policy = Open(inner.policy, now) /\ out.resolution.kind = "abort"
      BY <2>2, <2>5 DEF Outcome, Resolution
    <3>2. /\ policy'.state = "open" /\ policy'.openTime = now
          /\ policy'.streak = 0
      BY <1>1, <2>1, <3>1, PolicyFits, OpenSound
    <3>3. f # "bind" => MathMax(0, -policy.streak) + 1 >= Config.maxContiguousRetries
      BY <1>3, <2>1, <2>3, <2>5 DEF MathMin, MathMax
    <3>4. Breaker!Trip
      BY <1>1, <1>6, <3>1, <3>2, <3>3 DEF Breaker!Trip, MathMax
    <3>5. QED
      BY <1>1, <3>4 DEF Breaker!Failure
  <2>6. QED
    BY <2>1, <2>4, <2>5
<1>7. QED
  BY <1>4, <1>5, <1>6, PolicyFits DEF PolicyState, BreakerState

LEMMA SucceedIsSuccess ==
  ASSUME IInv, Config.kind = "circuit-breaker", NEW e \in Executions, Succeed(e)
  PROVE  Breaker!Success
<1> DEFINE out == AfterSuccess(Config, policy, now)
<1>1. /\ policy' = out.policy /\ now' = now
      /\ event'.call = "success" /\ event'.answer = out.resolution.kind
  BY DEF Succeed
<1>2. /\ out.policy \in PolicyState
      /\ out.resolution.kind \in {"continue", "throw"}
      /\ out.resolution.kind = "throw" <=> policy.state = "open"
      /\ out.resolution.kind = "throw" => out.policy = policy
      /\ out.resolution.kind = "continue" =>
           out.policy.state = "closed" /\ out.policy.streak >= 1
  BY PolicyFits, AfterSuccessSound
<1> HIDE DEF out
<1>3. CASE policy.state = "open"
  <2>1. Breaker!Late
    BY <1>1, <1>2, <1>3 DEF Breaker!Late
  <2>2. QED
    BY <1>1, <2>1 DEF Breaker!Success
<1>4. CASE policy.state # "open"
  <2>1. policy'.state = "closed" /\ event'.answer = "continue"
    BY <1>1, <1>2, <1>4
  <2>2. MathMax(0, -policy'.streak) = 0
    BY <1>1, <1>2, <1>4 DEF MathMax, PolicyState
  <2>3. Breaker!Recover
    BY <1>4, <2>1, <2>2 DEF Breaker!Recover
  <2>4. QED
    BY <1>1, <2>3 DEF Breaker!Success
<1>5. QED
  BY <1>3, <1>4

LEMMA StepIsBreakerStep ==
  ASSUME IInv, Config.kind = "circuit-breaker", [Next]_vars
  PROVE  [Breaker!Next]_(Breaker!vars)
<1>1. ASSUME NEW e \in Executions, Before(e) PROVE Breaker!Next
  BY <1>1, BeforeIsBefore DEF Breaker!Next
<1>2. ASSUME NEW e \in Executions, NEW f \in FailureKind, Fail(e, f)
      PROVE  Breaker!Next
  BY <1>2, FailIsFailure DEF Breaker!Next
<1>3. ASSUME NEW e \in Executions, Succeed(e) PROVE Breaker!Next
  BY <1>3, SucceedIsSuccess DEF Breaker!Next
<1>4. ASSUME NEW e \in Executions, Abandon(e) PROVE Breaker!Idle
  BY <1>4, PolicyFits DEF Abandon, Breaker!Idle
<1>5. CASE Reset
  <2>1. policy' = NewPolicy
    BY <1>5, PolicyFits, ResetPolicyIsNew DEF Reset
  <2>2. policy'.state = "closed" /\ policy'.streak = 0
    BY <2>1 DEF NewPolicy
  <2>3. Breaker!Reset
    BY <1>5, <2>2 DEF Reset, Breaker!Reset, MathMax
  <2>4. QED
    BY <2>3 DEF Breaker!Next
<1>6. CASE Tick
  <2>1. Breaker!Idle
    BY <1>6, PolicyFits DEF Tick, Breaker!Idle
  <2>2. QED
    BY <2>1 DEF Breaker!Next
<1>7. CASE UNCHANGED vars
  BY <1>7 DEF vars, Breaker!vars
<1>8. QED
  BY <1>1, <1>2, <1>3, <1>4, <1>5, <1>6, <1>7 DEF Next, Breaker!Next

(* A CircuitBreakerPolicy, whatever executions share it and however their  *)
(* reports interleave, is the breaker that CircuitBreaker describes.       *)
THEOREM PolicyIsABreaker ==
  Config.kind = "circuit-breaker" => (Spec => ImplementsBreaker)
<1> SUFFICES ASSUME Config.kind = "circuit-breaker"
             PROVE  Spec => ImplementsBreaker
  OBVIOUS
<1>1. Init => Breaker!Init
  BY DEF Init, Breaker!Init, NewPolicy, MathMax
<1>2. IInv /\ [Next]_vars => [Breaker!Next]_(Breaker!vars)
  BY StepIsBreakerStep
<1>3. QED
  BY <1>1, <1>2, InductiveInvariant, PTL DEF Spec, ImplementsBreaker, Breaker!Spec
=============================================================================
