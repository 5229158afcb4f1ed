------------------------- MODULE FailurePolicyLemmas -------------------------
(***************************************************************************)
(* Lemmas about the operators of the policies and of their router, for     *)
(* every configuration, priority, state and time: each call keeps the type *)
(* of a policy and its soundness, and what the resolution says about the   *)
(* state it leaves; every method keeps the router well typed and sound,    *)
(* and when it may change the current provider.  The modules that drive    *)
(* policies and routers cite them instead of expanding the operators.      *)
(***************************************************************************)
EXTENDS FailurePolicyRouter, WellFoundedInduction, TLAPS

(* The number of retries of any configuration is an integer (a breaker     *)
(* with a threshold of 0 hands -1 to its inner policy).                    *)
LEMMA RetriesType == ASSUME NEW c \in PolicyConfig
                     PROVE  Retries(c) \in Int
  BY DEF PolicyConfig, Retries, PolicyKind

(* Updating fields of a policy with values of their types keeps its type.  *)
LEMMA UpdateStreak ==
  ASSUME NEW s \in PolicyState, NEW n \in Int, NEW t \in Nat
  PROVE  [s EXCEPT !.streak = n, !.lastCallTime = t] \in PolicyState
  BY DEF PolicyState

LEMMA UpdateBackoff ==
  ASSUME NEW s \in PolicyState, NEW b \in Int, NEW u \in Int
  PROVE  [s EXCEPT !.balance = b, !.ups = u] \in PolicyState
  BY DEF PolicyState

LEMMA UpdateInner ==
  ASSUME NEW s \in PolicyState, NEW n \in Int, NEW t \in Nat, NEW u \in Int,
         NEW b \in Int
  PROVE  [s EXCEPT !.streak = n, !.lastCallTime = t, !.ups = u, !.balance = b]
           \in PolicyState
  BY DEF PolicyState

LEMMA UpdateBreaker ==
  ASSUME NEW s \in PolicyState, NEW q \in BreakerState, NEW t \in Nat
  PROVE  [s EXCEPT !.state = q, !.openTime = t] \in PolicyState
  BY DEF PolicyState

(* The inner policy: a failure keeps the type and the balance of a closed  *)
(* policy, does not open it, and is answered with retry or abort.          *)
LEMMA RetryAfterFailureSound ==
  ASSUME NEW c \in PolicyConfig, NEW s \in PolicyState, SoundPolicy(s),
         s.state = "closed", NEW f \in FailureKind, NEW t \in Nat
  PROVE  LET out == RetryAfterFailure(c, s, f, t)
         IN /\ out.policy \in PolicyState
            /\ out.policy.balance <= 0 /\ out.policy.ups + out.policy.balance = 0
            /\ out.policy.state = "closed"
            /\ out.policy.openTime = s.openTime
            /\ out.resolution.kind \in {"retry", "abort"}
            /\ out.resolution.kind = "retry" =>
                 -out.policy.streak <= Retries(c)
            /\ out.resolution.kind = "abort" =>
                 -out.policy.streak > Retries(c)
            /\ out.policy.streak =
                 MathMin(-1, (IF f = "bind" THEN -Retries(c) ELSE s.streak) - 1)
<1> DEFINE before == IF f = "bind" THEN -Retries(c) ELSE s.streak
           n      == MathMin(-1, before - 1)
           failed == [s EXCEPT !.streak = n, !.lastCallTime = t]
           up     == [failed EXCEPT !.balance = @ - 1, !.ups = @ + 1]
           out    == RetryAfterFailure(c, s, f, t)
<1>1. n \in Int
  BY RetriesType DEF MathMin, PolicyState
<1>2. out = IF -failed.streak > Retries(c)
            THEN Outcome(failed, Resolution("abort"))
            ELSE Outcome(up, Resolution("retry"))
  BY DEF RetryAfterFailure
<1>3. n = MathMin(-1, (IF f = "bind" THEN -Retries(c) ELSE s.streak) - 1)
  OBVIOUS
<1> HIDE DEF n, out
<1>4. /\ failed \in PolicyState
      /\ failed.balance = s.balance /\ failed.ups = s.ups /\ failed.streak = n
      /\ failed.state = "closed" /\ failed.openTime = s.openTime
  BY <1>1, UpdateStreak DEF PolicyState
<1> HIDE DEF failed
<1>5. failed.balance - 1 \in Int /\ failed.ups + 1 \in Int
  BY <1>4 DEF PolicyState
<1>6. /\ up \in PolicyState
      /\ up.balance = s.balance - 1 /\ up.ups = s.ups + 1 /\ up.streak = n
      /\ up.state = "closed" /\ up.openTime = s.openTime
  BY <1>4, <1>5, UpdateBackoff DEF PolicyState
<1> HIDE DEF up
<1>7. CASE -n > Retries(c)
  <2>1. out = Outcome(failed, Resolution("abort"))
    BY <1>2, <1>4, <1>7
  <2>2. QED
    BY <2>1, <1>3, <1>4, <1>7 DEF out, Outcome, Resolution, SoundPolicy
<1>8. CASE ~(-n > Retries(c))
  <2>1. out = Outcome(up, Resolution("retry"))
    BY <1>2, <1>4, <1>8
  <2>2. -n <= Retries(c)
    BY <1>1, <1>8, RetriesType
  <2>3. up.balance <= 0 /\ up.ups + up.balance = 0
    BY <1>6 DEF SoundPolicy, PolicyState
  <2>4. QED
    BY <2>1, <2>2, <2>3, <1>3, <1>6 DEF out, Outcome, Resolution
<1>9. QED
  BY <1>7, <1>8

LEMMA RetryAfterSuccessSound ==
  ASSUME NEW s \in PolicyState, SoundPolicy(s), s.state = "closed", NEW t \in Nat
  PROVE  LET out == RetryAfterSuccess(s, t)
         IN /\ out.policy \in PolicyState /\ SoundPolicy(out.policy)
            /\ out.policy.state = "closed"
            /\ out.policy.openTime = s.openTime
            /\ out.policy.streak >= 1
            /\ out.resolution.kind = "continue"
<1> DEFINE n         == MathMax(1, s.streak + 1)
           succeeded == [s EXCEPT !.streak = n, !.lastCallTime = t]
           down      == [succeeded EXCEPT !.balance = @ + 1, !.ups = @ - 1]
<1>1. n \in Int /\ n >= 1
  BY DEF MathMax, PolicyState
<1>2. RetryAfterSuccess(s, t) =
        Outcome(IF s.balance >= 0 THEN succeeded ELSE down,
                Resolution("continue"))
  BY DEF RetryAfterSuccess
<1> HIDE DEF n
<1>4. /\ succeeded \in PolicyState
      /\ succeeded.balance = s.balance /\ succeeded.ups = s.ups
      /\ succeeded.streak = n /\ succeeded.state = s.state
      /\ succeeded.openTime = s.openTime
  BY <1>1, UpdateStreak DEF PolicyState
<1> HIDE DEF succeeded
<1>5. succeeded.balance + 1 \in Int /\ succeeded.ups - 1 \in Int
  BY <1>4 DEF PolicyState
<1>6. /\ down \in PolicyState
      /\ down.balance = s.balance + 1 /\ down.ups = s.ups - 1
      /\ down.streak = n /\ down.state = s.state
      /\ down.openTime = s.openTime
  BY <1>4, <1>5, UpdateBackoff DEF PolicyState
<1> HIDE DEF down
<1>7. CASE s.balance >= 0
  BY <1>1, <1>2, <1>4, <1>7 DEF Outcome, Resolution, SoundPolicy
<1>8. CASE ~(s.balance >= 0)
  BY <1>1, <1>2, <1>6, <1>8 DEF Outcome, Resolution, SoundPolicy, PolicyState
<1>9. QED
  BY <1>7, <1>8

(* Resetting takes back the whole backoff of a balanced policy.            *)
LEMMA RetryResetSound ==
  ASSUME NEW s \in PolicyState, s.balance <= 0, s.ups + s.balance = 0
  PROVE  /\ RetryReset(s) \in PolicyState
         /\ RetryReset(s).streak = 0 /\ RetryReset(s).balance = 0
         /\ RetryReset(s).ups = 0 /\ RetryReset(s).lastCallTime = 0
         /\ RetryReset(s).state = s.state
         /\ RetryReset(s).openTime = s.openTime
<1>1. s.ups + MathMin(0, s.balance) = 0 /\ MathMax(0, s.balance) = 0
  BY DEF PolicyState, MathMin, MathMax
<1>2. RetryReset(s) =
        [s EXCEPT !.streak = 0, !.lastCallTime = 0, !.ups = 0, !.balance = 0]
  BY <1>1 DEF RetryReset
<1>3. RetryReset(s) \in PolicyState
  <2>1. \A n, u, b \in Int, t \in Nat :
          [s EXCEPT !.streak = n, !.lastCallTime = t, !.ups = u, !.balance = b]
            \in PolicyState
    BY UpdateInner
  <2>2. 0 \in Int /\ 0 \in Nat
    OBVIOUS
  <2>3. [s EXCEPT !.streak = 0, !.lastCallTime = 0, !.ups = 0, !.balance = 0]
          \in PolicyState
    BY <2>1, <2>2, Zenon
  <2>4. QED
    BY <1>2, <2>3
<1>4. QED
  BY <1>2, <1>3 DEF PolicyState

LEMMA OpenSound ==
  ASSUME NEW s \in PolicyState, s.balance <= 0, s.ups + s.balance = 0, NEW t \in Nat
  PROVE  /\ Open(s, t) \in PolicyState /\ SoundPolicy(Open(s, t))
         /\ Open(s, t).state = "open" /\ Open(s, t).openTime = t
         /\ Open(s, t).streak = 0
<1> DEFINE r == RetryReset(s)
<1>1. r \in PolicyState /\ r.streak = 0 /\ r.balance = 0 /\ r.ups = 0
  BY RetryResetSound
<1>2. Open(s, t) = [r EXCEPT !.state = "open", !.openTime = t]
  BY DEF Open
<1> HIDE DEF r
<1>3. "open" \in BreakerState
  BY DEF BreakerState
<1>4. Open(s, t) \in PolicyState
  BY <1>1, <1>2, <1>3, UpdateBreaker
<1>5. QED
  BY <1>1, <1>2, <1>4 DEF PolicyState, SoundPolicy

LEMMA NewPolicySound == NewPolicy \in PolicyState /\ SoundPolicy(NewPolicy)
<1>1. NewPolicy \in PolicyState
  <2>1. \A n, b, u \in Int, t, o \in Nat, q \in BreakerState :
          [streak |-> n, balance |-> b, ups |-> u, lastCallTime |-> t,
           state |-> q, openTime |-> o] \in PolicyState
    BY DEF PolicyState
  <2>2. 0 \in Int /\ 0 \in Nat /\ "closed" \in BreakerState
    BY DEF BreakerState
  <2>3. QED
    BY <2>1, <2>2, Zenon DEF NewPolicy
<1>2. SoundPolicy(NewPolicy)
  <2>1. /\ NewPolicy.balance = 0 /\ NewPolicy.ups = 0
        /\ NewPolicy.state = "closed"
    BY DEF NewPolicy
  <2>2. QED
    BY <1>1, <2>1 DEF SoundPolicy, PolicyState
<1>3. QED
  BY <1>1, <1>2

(* beforeExecution: the only state it changes is a breaker from open to    *)
(* half-open, and only once the open time has passed.                      *)
LEMMA BeforeExecutionSound ==
  ASSUME NEW c \in PolicyConfig, NEW s \in PolicyState, SoundPolicy(s),
         NEW t \in Nat
  PROVE  LET out == BeforeExecution(c, s, t)
         IN /\ out.policy \in PolicyState /\ SoundPolicy(out.policy)
            /\ out.resolution.kind \in {"continue", "backoff", "abort"}
            /\ out.policy = s \/ out.policy = HalfOpen(s)
            /\ out.policy = s \/ (s.state = "open" /\ t >= s.openTime + c.openTime)
            /\ (c.kind = "circuit-breaker" /\ s.state = "open"
                 /\ out.resolution.kind # "abort") =>
                    t >= s.openTime + c.openTime
            /\ (c.kind = "circuit-breaker" /\ out.resolution.kind # "abort") =>
                    out.policy.state # "open"
<1>1. CASE c.kind = "none"
  BY <1>1 DEF BeforeExecution, Outcome, Resolution
<1>2. CASE c.kind = "simple"
  BY <1>2 DEF BeforeExecution, RetryBeforeExecution, Outcome, Resolution, BackoffFor
<1>3. CASE c.kind = "circuit-breaker" /\ s.state = "open"
  BY <1>3 DEF BeforeExecution, BreakerBeforeExecution, Outcome, Resolution,
              HalfOpen, PolicyState, SoundPolicy, BreakerState, PolicyConfig
<1>4. CASE c.kind = "circuit-breaker" /\ s.state # "open"
  BY <1>4 DEF BeforeExecution, BreakerBeforeExecution, RetryBeforeExecution,
              Outcome, Resolution, BackoffFor
<1>5. QED
  BY <1>1, <1>2, <1>3, <1>4 DEF PolicyConfig, PolicyKind

(* afterFailure keeps a policy sound, throws only where a breaker is       *)
(* already open, and leaves a breaker open exactly when it aborts.         *)
LEMMA AfterFailureSound ==
  ASSUME NEW c \in PolicyConfig, NEW s \in PolicyState, SoundPolicy(s),
         NEW f \in FailureKind, NEW t \in Nat,
         c.kind # "circuit-breaker" => s.state = "closed"
  PROVE  LET out == AfterFailure(c, s, f, t)
         IN /\ out.policy \in PolicyState /\ SoundPolicy(out.policy)
            /\ out.resolution.kind \in {"retry", "abort", "throw"}
            /\ out.resolution.kind = "throw" <=>
                 (c.kind = "circuit-breaker" /\ s.state = "open")
            /\ c.kind # "circuit-breaker" =>
                 out.policy.state = "closed" /\ out.policy.openTime = s.openTime
            /\ (c.kind = "circuit-breaker" /\ out.resolution.kind = "abort") =>
                 (out.policy.state = "open" /\ out.policy.openTime = t)
            /\ out.resolution.kind = "throw" => out.policy = s
            /\ out.resolution.kind = "retry" =>
                 (s.state = "closed" /\ out.policy.state = "closed")
<1>1. CASE c.kind = "none"
  BY <1>1 DEF AfterFailure, Outcome, Resolution
<1>2. CASE c.kind = "simple"
  <2>1. AfterFailure(c, s, f, t) = RetryAfterFailure(c, s, f, t)
    BY <1>2 DEF AfterFailure
  <2>2. QED
    BY <1>2, <2>1, RetryAfterFailureSound DEF SoundPolicy
<1>3. CASE c.kind = "circuit-breaker" /\ s.state = "half-open"
  <2>1. AfterFailure(c, s, f, t) = Outcome(Open(s, t), Resolution("abort"))
    BY <1>3 DEF AfterFailure, BreakerAfterFailure
  <2>2. QED
    BY <1>3, <2>1, OpenSound DEF Outcome, Resolution, SoundPolicy
<1>4. CASE c.kind = "circuit-breaker" /\ s.state = "open"
  BY <1>4 DEF AfterFailure, BreakerAfterFailure, Outcome, Throws, Resolution
<1>5. CASE c.kind = "circuit-breaker" /\ s.state = "closed"
  <2> DEFINE inner == RetryAfterFailure(c, s, f, t)
  <2>1. AfterFailure(c, s, f, t) =
          IF inner.resolution.kind = "abort"
          THEN Outcome(Open(inner.policy, t), Resolution("abort"))
          ELSE inner
    BY <1>5 DEF AfterFailure, BreakerAfterFailure
  <2>2. /\ inner.policy \in PolicyState
        /\ inner.policy.balance <= 0 /\ inner.policy.ups + inner.policy.balance = 0
        /\ inner.policy.state = "closed"
        /\ inner.resolution.kind \in {"retry", "abort"}
    BY <1>5, RetryAfterFailureSound
  <2>3. CASE inner.resolution.kind = "abort"
    <3> HIDE DEF inner
    <3>1. /\ Open(inner.policy, t) \in PolicyState
          /\ SoundPolicy(Open(inner.policy, t))
          /\ Open(inner.policy, t).state = "open"
          /\ Open(inner.policy, t).openTime = t
      BY <2>2, OpenSound
    <3>2. QED
      BY <1>5, <2>1, <2>3, <3>1 DEF Outcome, Resolution
  <2>4. CASE inner.resolution.kind = "retry"
    <3> HIDE DEF inner
    <3>1. QED
      BY <1>5, <2>1, <2>2, <2>4 DEF SoundPolicy
  <2>5. QED
    BY <2>2, <2>3, <2>4
<1>6. QED
  BY <1>1, <1>2, <1>3, <1>4, <1>5
     DEF PolicyConfig, PolicyKind, PolicyState, BreakerState

LEMMA AfterSuccessSound ==
  ASSUME NEW c \in PolicyConfig, NEW s \in PolicyState, SoundPolicy(s),
         NEW t \in Nat, c.kind # "circuit-breaker" => s.state = "closed"
  PROVE  LET out == AfterSuccess(c, s, t)
         IN /\ out.policy \in PolicyState /\ SoundPolicy(out.policy)
            /\ out.resolution.kind \in {"continue", "throw"}
            /\ out.resolution.kind = "throw" <=>
                 (c.kind = "circuit-breaker" /\ s.state = "open")
            /\ out.resolution.kind = "throw" => out.policy = s
            /\ out.resolution.kind = "continue" => out.policy.state = "closed"
            /\ out.policy.openTime = s.openTime
            /\ (c.kind # "none" /\ out.resolution.kind = "continue") =>
                 out.policy.streak >= 1
<1>1. CASE c.kind = "none"
  BY <1>1 DEF AfterSuccess, Outcome, Resolution
<1>2. CASE c.kind = "simple"
  <2>1. AfterSuccess(c, s, t) = RetryAfterSuccess(s, t)
    BY <1>2 DEF AfterSuccess
  <2>2. QED
    BY <1>2, <2>1, RetryAfterSuccessSound
<1>3. CASE c.kind = "circuit-breaker" /\ s.state = "half-open"
  <2>1. AfterSuccess(c, s, t) = RetryAfterSuccess(Close(s), t)
    BY <1>3 DEF AfterSuccess, BreakerAfterSuccess
  <2>2. /\ Close(s) \in PolicyState /\ SoundPolicy(Close(s))
        /\ Close(s).state = "closed" /\ Close(s).openTime = s.openTime
    BY <1>3 DEF Close, PolicyState, SoundPolicy, BreakerState
  <2>3. QED
    BY <1>3, <2>1, <2>2, RetryAfterSuccessSound
<1>4. CASE c.kind = "circuit-breaker" /\ s.state = "open"
  BY <1>4 DEF AfterSuccess, BreakerAfterSuccess, Outcome, Throws, Resolution
<1>5. CASE c.kind = "circuit-breaker" /\ s.state = "closed"
  <2>1. AfterSuccess(c, s, t) = RetryAfterSuccess(s, t)
    BY <1>5 DEF AfterSuccess, BreakerAfterSuccess
  <2>2. QED
    BY <1>5, <2>1, RetryAfterSuccessSound
<1>6. QED
  BY <1>1, <1>2, <1>3, <1>4, <1>5
     DEF PolicyConfig, PolicyKind, PolicyState, BreakerState

(* A reset policy is indistinguishable from a new one.                     *)
LEMMA ResetPolicyIsNew ==
  ASSUME NEW c \in PolicyConfig, c.kind # "none",
         NEW s \in PolicyState, SoundPolicy(s),
         c.kind = "simple" => s.state = "closed" /\ s.openTime = 0
  PROVE  ResetPolicy(c, s) = NewPolicy
<1>1. /\ RetryReset(s) \in PolicyState
      /\ RetryReset(s).streak = 0 /\ RetryReset(s).balance = 0
      /\ RetryReset(s).ups = 0 /\ RetryReset(s).lastCallTime = 0
      /\ RetryReset(s).state = s.state
      /\ RetryReset(s).openTime = s.openTime
  BY RetryResetSound DEF SoundPolicy
<1>2. CASE c.kind = "simple"
  BY <1>1, <1>2 DEF ResetPolicy, NewPolicy, PolicyState
<1>3. CASE c.kind = "circuit-breaker"
  BY <1>1, <1>3 DEF ResetPolicy, NewPolicy, PolicyState
<1>4. QED
  BY <1>2, <1>3 DEF PolicyConfig, PolicyKind

(* A policy that lets an execution in would let another one in as well, and *)
(* one that does not has not changed.                                      *)
LEMMA BeforeExecutionDecides ==
  ASSUME NEW c \in PolicyConfig, NEW s \in PolicyState, SoundPolicy(s),
         NEW t \in Nat
  PROVE  LET out == BeforeExecution(c, s, t)
         IN /\ out.resolution.kind = "continue" =>
                 BeforeExecution(c, out.policy, t).resolution.kind = "continue"
            /\ out.resolution.kind # "continue" => out.policy = s
<1>1. CASE c.kind = "none"
  BY <1>1 DEF BeforeExecution, Outcome, Resolution
<1>2. CASE c.kind = "simple"
  BY <1>2 DEF BeforeExecution, RetryBeforeExecution, Outcome, Resolution, BackoffFor
<1>3. CASE c.kind = "circuit-breaker" /\ s.state = "open"
  <2>1. /\ HalfOpen(s).state = "half-open" /\ HalfOpen(s).balance = 0
    BY <1>3 DEF HalfOpen, PolicyState, SoundPolicy
  <2>2. BeforeExecution(c, HalfOpen(s), t).resolution.kind = "continue"
    BY <1>3, <2>1 DEF BeforeExecution, BreakerBeforeExecution,
                      RetryBeforeExecution, Outcome, Resolution
  <2>3. BeforeExecution(c, s, t) = IF t >= s.openTime + c.openTime
                                   THEN Outcome(HalfOpen(s), Resolution("continue"))
                                   ELSE Outcome(s, Resolution("abort"))
    BY <1>3 DEF BeforeExecution, BreakerBeforeExecution
  <2>4. QED
    BY <2>2, <2>3 DEF Outcome, Resolution
<1>4. CASE c.kind = "circuit-breaker" /\ s.state # "open"
  BY <1>4 DEF BeforeExecution, BreakerBeforeExecution, RetryBeforeExecution,
              Outcome, Resolution, BackoffFor
<1>5. QED
  BY <1>1, <1>2, <1>3, <1>4 DEF PolicyConfig, PolicyKind

(* Resetting a sound policy of any class leaves a sound closed one.        *)
LEMMA ResetPolicySound ==
  ASSUME NEW c \in PolicyConfig, NEW s \in PolicyState, SoundPolicy(s),
         c.kind # "circuit-breaker" => s.state = "closed" /\ s.openTime = 0
  PROVE  LET out == ResetPolicy(c, s)
         IN /\ out \in PolicyState /\ SoundPolicy(out)
            /\ out.state = "closed" /\ out.openTime = 0
<1>1. CASE c.kind = "none"
  BY <1>1 DEF ResetPolicy
<1>2. CASE c.kind # "none"
  <2>1. ResetPolicy(c, s) = NewPolicy
    BY <1>2, ResetPolicyIsNew
  <2>2. NewPolicy.state = "closed" /\ NewPolicy.openTime = 0
    BY DEF NewPolicy
  <2>3. QED
    BY <2>1, <2>2, NewPolicySound
<1>3. QED
  BY <1>1, <1>2

-----------------------------------------------------------------------------
(* The router                                                              *)

USE RouterAssumption

GoodRouter(r) == IsRouter(r) /\ SoundRouter(r)

LEMMA PriorityType ==
  /\ DOMAIN Priority \subseteq Nat
  /\ \A i \in DOMAIN Priority : Priority[i] \in Providers
  /\ PrioritySet \subseteq Providers
  BY DEF PrioritySet

LEMMA NewRouterGood == GoodRouter(NewRouter)
<1>1. PrioritySet \subseteq Providers
  BY PriorityType
<1>2. NewRouter.policies \in [PrioritySet -> PolicyState]
  BY NewPolicySound DEF NewRouter
<1>3. IsRouter(NewRouter)
  BY <1>1, <1>2 DEF NewRouter, IsRouter
<1>4. NewPolicy.state = "closed" /\ NewPolicy.openTime = 0
  BY DEF NewPolicy
<1>5. SoundRouter(NewRouter)
  BY <1>4, NewPolicySound DEF NewRouter, SoundRouter
<1>6. QED
  BY <1>3, <1>5 DEF GoodRouter

(* A router built field by field is well typed.                            *)
LEMMA RouterFields ==
  ASSUME NEW p \in Providers \cup {NoProvider}, NEW allow \in BOOLEAN,
         NEW D \in SUBSET Providers, NEW f \in [D -> PolicyState],
         NEW s, s = [current |-> p, allowFailover |-> allow, policies |-> f]
  PROVE  IsRouter(s)
<1>1. s.policies = f /\ DOMAIN f = D
  OBVIOUS
<1>2. QED
  BY <1>1 DEF IsRouter

LEMMA SetCurrentProviderGood ==
  ASSUME NEW r, GoodRouter(r), NEW p \in Providers
  PROVE  LET s == SetCurrentProvider(r, p)
         IN /\ GoodRouter(s) /\ s.current = p
            /\ s.allowFailover = r.allowFailover
            /\ DOMAIN s.policies = (DOMAIN r.policies) \cup {p}
            /\ \A q \in DOMAIN r.policies : s.policies[q] = r.policies[q]
<1> DEFINE s == SetCurrentProvider(r, p)
           known == (DOMAIN r.policies) \cup {p}
           policies == [q \in known |-> IF q \in DOMAIN r.policies
                                        THEN r.policies[q] ELSE NewPolicy]
<1>1. r.policies \in [DOMAIN r.policies -> PolicyState]
      /\ DOMAIN r.policies \subseteq Providers
  BY DEF GoodRouter, IsRouter
<1>2. policies \in [known -> PolicyState] /\ known \in SUBSET Providers
  BY <1>1, NewPolicySound
<1>3. s = [current |-> p, allowFailover |-> r.allowFailover, policies |-> policies]
  BY DEF SetCurrentProvider
<1>4. /\ policies = [q \in known |-> IF q \in DOMAIN r.policies
                                     THEN r.policies[q] ELSE NewPolicy]
      /\ known = (DOMAIN r.policies) \cup {p}
  OBVIOUS
<1> HIDE DEF s, policies, known
<1>5. r.allowFailover \in BOOLEAN /\ p \in Providers \cup {NoProvider}
  BY DEF GoodRouter, IsRouter
<1>6. /\ IsRouter(s)
      /\ s.current = p /\ s.policies = policies
      /\ s.allowFailover = r.allowFailover
  BY <1>2, <1>3, <1>5, RouterFields
<1>7. NewPolicy.state = "closed" /\ NewPolicy.openTime = 0
  BY DEF NewPolicy
<1>8. SoundRouter(s)
  BY <1>4, <1>6, <1>7, NewPolicySound DEF SoundRouter, GoodRouter
<1>9. QED
  BY <1>4, <1>6, <1>8 DEF s, GoodRouter

LEMMA SetPolicyGood ==
  ASSUME NEW r, GoodRouter(r), NEW p \in DOMAIN r.policies,
         NEW s \in PolicyState, SoundPolicy(s),
         Configs[p].kind # "circuit-breaker" => s.state = "closed" /\ s.openTime = 0
  PROVE  /\ GoodRouter(SetPolicy(r, p, s))
         /\ SetPolicy(r, p, s).current = r.current
         /\ SetPolicy(r, p, s).allowFailover = r.allowFailover
         /\ SetPolicy(r, p, s).policies = [r.policies EXCEPT ![p] = s]
<1> DEFINE t == SetPolicy(r, p, s)
           policies == [r.policies EXCEPT ![p] = s]
<1>1. policies \in [DOMAIN r.policies -> PolicyState]
  BY DEF GoodRouter, IsRouter
<1>2. /\ t.current = r.current /\ t.allowFailover = r.allowFailover
      /\ t.policies = policies
      /\ t = [current |-> r.current, allowFailover |-> r.allowFailover,
              policies |-> policies]
  BY DEF SetPolicy, GoodRouter, IsRouter
<1> HIDE DEF t
<1>3. IsRouter(t)
  BY <1>1, <1>2 DEF GoodRouter, IsRouter
<1>4. SoundRouter(t)
  BY <1>1, <1>2 DEF GoodRouter, IsRouter, SoundRouter
<1>5. QED
  BY <1>2, <1>3, <1>4 DEF t, GoodRouter

(* A set of natural numbers that is not empty has a least element, which   *)
(* is the one Min chooses.                                                 *)
LEMMA LeastNatural ==
  ASSUME NEW T \in SUBSET Nat, T # {}
  PROVE  Min(T) \in T /\ \A y \in T : Min(T) <= y
<1> DEFINE R == OpToRel(<, Nat)
<1>1. IsWellFoundedOn(R, Nat)
  BY NatLessThanWellFounded
<1>2. \A y, x \in Nat : y < x => <<y, x>> \in R
  BY DEF OpToRel
<1> HIDE DEF R
<1>3. PICK x \in T : \A y \in T : ~ (<<y, x>> \in R)
  BY <1>1, WFMin
<1>4. \A y \in T : ~ (y < x)
  BY <1>2, <1>3, Zenon
<1>5. \A y \in T : x <= y
  BY <1>4
<1>6. QED
  BY <1>5 DEF Min

(* What a policy of a good router answers before an execution, and that    *)
(* its state afterwards may be stored in the router.                       *)
LEMMA ProbeGood ==
  ASSUME NEW r, GoodRouter(r), NEW p \in DOMAIN r.policies, NEW time \in Nat
  PROVE  LET out == Probe(r, p, time)
         IN /\ out.policy \in PolicyState /\ SoundPolicy(out.policy)
            /\ Configs[p].kind # "circuit-breaker" =>
                 out.policy.state = "closed" /\ out.policy.openTime = 0
            /\ out.resolution.kind \in {"continue", "backoff", "abort"}
<1>1. /\ r.policies[p] \in PolicyState /\ SoundPolicy(r.policies[p])
      /\ Configs[p] \in PolicyConfig
      /\ Configs[p].kind # "circuit-breaker" =>
           r.policies[p].state = "closed" /\ r.policies[p].openTime = 0
  BY DEF GoodRouter, IsRouter, SoundRouter
<1> DEFINE out == BeforeExecution(Configs[p], r.policies[p], time)
<1>2. /\ out.policy \in PolicyState /\ SoundPolicy(out.policy)
      /\ out.resolution.kind \in {"continue", "backoff", "abort"}
      /\ \/ out.policy = r.policies[p]
         \/ r.policies[p].state = "open"
  BY <1>1, BeforeExecutionSound
<1>3. Probe(r, p, time) = out
  BY DEF Probe
<1> HIDE DEF out
<1>4. QED
  BY <1>1, <1>2, <1>3

LEMMA SetPolicySame ==
  ASSUME NEW r, GoodRouter(r), NEW p \in DOMAIN r.policies
  PROVE  SetPolicy(r, p, r.policies[p]) = r
<1>1. [r.policies EXCEPT ![p] = r.policies[p]] = r.policies
  BY DEF GoodRouter, IsRouter
<1>2. SetPolicy(r, p, r.policies[p]) = [r EXCEPT !.policies = r.policies]
  BY <1>1 DEF SetPolicy
<1>3. QED
  BY <1>2 DEF GoodRouter, IsRouter

(* Who of the candidates lets an execution in, and the answer when the     *)
(* first of some providers is taken.                                       *)
Accepting(r, candidates, time) ==
  {i \in candidates : Probe(r, Priority[i], time).resolution.kind = "continue"}

FirstOf(r, accepting, time) ==
  LET found == Priority[Min(accepting)]
  IN IF accepting = {} THEN Answered(r, Resolution("none"))
     ELSE Answered(SetCurrentProvider(
                     SetPolicy(r, found, Probe(r, found, time).policy), found),
                   SwitchTo(found))

(* One more candidate is asked in vain, or is the first to let one in.     *)
LEMMA TryDecides ==
  ASSUME NEW r, GoodRouter(r), NEW i \in DOMAIN Priority, NEW time \in Nat
  PROVE  LET p == Priority[i]
             probed == Probe(r, p, time)
         IN Try(r, p, time) =
              IF probed.resolution.kind = "continue"
              THEN Answered(SetCurrentProvider(SetPolicy(r, p, probed.policy), p), SwitchTo(p))
              ELSE Answered(r, Resolution("none"))
<1> DEFINE p == Priority[i]
           probed == Probe(r, p, time)
<1>1. p \in DOMAIN r.policies /\ p \in Providers
  BY PriorityType DEF GoodRouter, SoundRouter, PrioritySet
<1> HIDE DEF p
<1>2. /\ r.policies[p] \in PolicyState /\ SoundPolicy(r.policies[p])
      /\ Configs[p] \in PolicyConfig
  BY <1>1 DEF GoodRouter, IsRouter, SoundRouter
<1>3. probed.resolution.kind # "continue" => probed.policy = r.policies[p]
  BY <1>2, BeforeExecutionDecides DEF Probe
<1>4. SetPolicy(r, p, r.policies[p]) = r
  BY <1>1, SetPolicySame
<1>5. Try(r, p, time) =
        IF probed.resolution.kind = "continue"
        THEN Answered(SetCurrentProvider(SetPolicy(r, p, probed.policy), p), SwitchTo(p))
        ELSE Answered(SetPolicy(r, p, probed.policy), Resolution("none"))
  BY DEF Try
<1> HIDE DEF probed
<1>6. Try(r, p, time) =
        IF probed.resolution.kind = "continue"
        THEN Answered(SetCurrentProvider(SetPolicy(r, p, probed.policy), p), SwitchTo(p))
        ELSE Answered(r, Resolution("none"))
  BY <1>3, <1>4, <1>5
<1>7. QED
  BY <1>6 DEF p, probed

(* The search comes to the first candidate that lets an execution in, and  *)
(* those asked before it are as they were.                                 *)
LEMMA AttemptSwitchFinds ==
  ASSUME NEW r, GoodRouter(r), NEW candidates \in SUBSET DOMAIN Priority,
         NEW time \in Nat
  PROVE  AttemptSwitch(r, candidates, time) =
           FirstOf(r, Accepting(r, candidates, time), time)
<1> DEFINE L == Len(Priority)
           Goes(x, i) == IF x.resolution.kind = "switch-provider" \/ i \notin candidates
                         THEN x ELSE Try(x.router, Priority[i], time)
           Rule(f) == f = [i \in 0..L |->
                             IF i = 0 THEN Answered(r, Resolution("none"))
                             ELSE IF f[i - 1].resolution.kind = "switch-provider"
                                       \/ i \notin candidates
                             THEN f[i - 1]
                             ELSE Try(f[i - 1].router, Priority[i], time)]
           search == CHOOSE f : Rule(f)
           Upto(i) == {j \in Accepting(r, candidates, time) : j <= i}
           G(i) == FirstOf(r, Upto(i), time)
<1>1. AttemptSwitch(r, candidates, time) = search[L]
  BY Zenon DEF AttemptSwitch
<1>2. L \in Nat /\ DOMAIN Priority = 1..L
  BY PriorityType
<1>3. G(0) = Answered(r, Resolution("none"))
  <2>1. Upto(0) = {}
    BY <1>2 DEF Accepting
  <2>2. QED
    BY <2>1 DEF FirstOf
<1>4. ASSUME NEW i \in 1..L
      PROVE  G(i) = Goes(G(i - 1), i)
  <2>1. Upto(i) \in SUBSET Nat /\ Upto(i - 1) \in SUBSET Nat
    BY <1>2 DEF Accepting
  <2>2. CASE Upto(i - 1) # {}
    <3> DEFINE m == Min(Upto(i - 1))
               n == Min(Upto(i))
    <3>1. m \in Upto(i - 1) /\ \A y \in Upto(i - 1) : m <= y
      BY <2>1, <2>2, LeastNatural
    <3>2. m \in Upto(i) /\ Upto(i) # {}
      BY <2>1, <3>1
    <3>3. n \in Upto(i) /\ \A y \in Upto(i) : n <= y
      BY <2>1, <3>2, LeastNatural
    <3>4. m \in Nat /\ n \in Nat /\ n <= m /\ m <= i - 1
      BY <2>1, <3>1, <3>2, <3>3
    <3>5. n \in Upto(i - 1)
      BY <3>3, <3>4
    <3> HIDE DEF m, n
    <3>6. m = n
      BY <3>1, <3>4, <3>5
    <3>7. G(i) = G(i - 1)
      BY <2>2, <3>2, <3>6 DEF FirstOf, m, n
    <3>8. G(i - 1).resolution.kind = "switch-provider"
      <4> HIDE DEF Upto
      <4>1. QED
        BY <2>2 DEF FirstOf, Answered, SwitchTo
    <3> HIDE DEF G
    <3>9. QED
      BY <3>7, <3>8
  <2>3. CASE Upto(i - 1) = {}
    <3>1. G(i - 1) = Answered(r, Resolution("none"))
      BY <2>3 DEF FirstOf
    <3>2. G(i - 1).router = r /\ G(i - 1).resolution.kind = "none"
      BY <3>1 DEF Answered, Resolution
    <3>3. Upto(i) = IF i \in Accepting(r, candidates, time) THEN {i} ELSE {}
      BY <1>2, <2>3 DEF Accepting
    <3>4. CASE i \notin candidates
      <4>1. Upto(i) = {}
        BY <3>3, <3>4 DEF Accepting
      <4>2. G(i) = Answered(r, Resolution("none"))
        BY <4>1 DEF FirstOf
      <4> HIDE DEF G
      <4>3. QED
        BY <3>1, <3>2, <3>4, <4>2
    <3>5. CASE i \in candidates
      <4> DEFINE p == Priority[i]
                 probed == Probe(r, p, time)
      <4>1. Goes(G(i - 1), i) = Try(r, p, time)
        <5> HIDE DEF G
        <5>1. QED
          BY <3>2, <3>5
      <4>2. Try(r, p, time) =
              IF probed.resolution.kind = "continue"
              THEN Answered(SetCurrentProvider(SetPolicy(r, p, probed.policy), p), SwitchTo(p))
              ELSE Answered(r, Resolution("none"))
        BY <1>2, TryDecides
      <4>3. CASE probed.resolution.kind = "continue"
        <5>1. Upto(i) = {i}
          BY <3>3, <3>5, <4>3 DEF Accepting
        <5>2. Min(Upto(i)) = i
          BY <2>1, <5>1, LeastNatural
        <5>3. G(i) = Answered(SetCurrentProvider(SetPolicy(r, p, probed.policy), p), SwitchTo(p))
          <6>1. Upto(i) # {}
            BY <5>1
          <6> HIDE DEF Upto
          <6>2. QED
            BY <5>2, <6>1 DEF FirstOf
        <5> HIDE DEF G
        <5>4. QED
          BY <4>1, <4>2, <4>3, <5>3
      <4>4. CASE probed.resolution.kind # "continue"
        <5>1. Upto(i) = {}
          BY <3>3, <3>5, <4>4 DEF Accepting
        <5>2. G(i) = Answered(r, Resolution("none"))
          BY <5>1 DEF FirstOf
        <5> HIDE DEF G
        <5>3. QED
          BY <4>1, <4>2, <4>4, <5>2
      <4>5. QED
        BY <4>3, <4>4
    <3>6. QED
      BY <3>4, <3>5
  <2>4. QED
    BY <2>2, <2>3
<1>5. Upto(L) = Accepting(r, candidates, time)
  BY <1>2 DEF Accepting
<1> HIDE DEF L, G, Upto
<1>6. \E f : Rule(f)
  <2> DEFINE f == [i \in 0..L |-> G(i)]
  <2>1. \A i \in 0..L : f[i] = G(i)
    OBVIOUS
  <2>2. \A i \in 1..L : i \in 0..L /\ i - 1 \in 0..L /\ i # 0
    BY <1>2
  <2>3. \A i \in 1..L : f[i] = Goes(f[i - 1], i)
    BY <1>4, <2>1, <2>2
  <2>4. 0 \in 0..L /\ f[0] = Answered(r, Resolution("none"))
    BY <1>2, <1>3, <2>1
  <2>5. f = [i \in 0..L |-> f[i]]
    OBVIOUS
  <2>6. \A i \in 0..L : i # 0 => i \in 1..L
    BY <1>2
  <2> HIDE DEF f
  <2>7. Rule(f)
    BY <2>3, <2>4, <2>5, <2>6
  <2>8. QED
    BY <2>7, Zenon
<1>7. Rule(search)
  BY <1>6, Zenon
<1> HIDE DEF search
<1>8. /\ search[0] = Answered(r, Resolution("none"))
      /\ \A i \in 1..L : search[i] = Goes(search[i - 1], i)
  <2>1. \A i \in 1..L : i \in 0..L /\ i # 0
    BY <1>2
  <2>2. 0 \in 0..L
    BY <1>2
  <2>3. QED
    BY <1>7, <2>1, <2>2
<1>9. search[L] = G(L)
  <2> DEFINE Bad == {i \in 0..L : search[i] # G(i)}
  <2> SUFFICES ASSUME Bad # {} PROVE FALSE
    BY <1>2
  <2>1. Bad \in SUBSET Nat
    BY <1>2
  <2> DEFINE m == Min(Bad)
  <2>2. m \in Bad /\ \A y \in Bad : m <= y
    BY <2>1, LeastNatural
  <2> HIDE DEF m
  <2>3. m \in 1..L
    BY <1>2, <1>3, <1>8, <2>2
  <2>4. m - 1 \in 0..L /\ m - 1 \notin Bad
    BY <1>2, <2>2, <2>3
  <2>5. search[m - 1] = G(m - 1)
    BY <2>4
  <2>6. search[m] = G(m)
    BY <1>4, <1>8, <2>3, <2>5
  <2>7. QED
    BY <2>2, <2>6
<1>10. QED
  BY <1>1, <1>5, <1>9 DEF G

(* From router r to s the first candidate that admits an execution became  *)
(* the current provider, and at most its policy changed.                   *)
Switched(r, s, candidates, time) ==
  \E i \in candidates :
    /\ s.current = Priority[i]
    /\ Probe(r, Priority[i], time).resolution.kind = "continue"
    /\ \A j \in candidates :
         j < i => Probe(r, Priority[j], time).resolution.kind # "continue"
    /\ s.policies = [r.policies EXCEPT ![Priority[i]] =
                       Probe(r, Priority[i], time).policy]

NoneAdmits(r, candidates, time) ==
  \A i \in candidates : Probe(r, Priority[i], time).resolution.kind # "continue"

(* A search for a provider that admits an execution changes nothing when   *)
(* it finds none, and otherwise makes one of its candidates current.       *)
LEMMA AttemptSwitchGood ==
  ASSUME NEW r, GoodRouter(r), NEW candidates \in SUBSET DOMAIN Priority,
         NEW time \in Nat
  PROVE  LET out == AttemptSwitch(r, candidates, time)
         IN /\ GoodRouter(out.router)
            /\ out.router.allowFailover = r.allowFailover
            /\ DOMAIN out.router.policies = DOMAIN r.policies
            /\ \/ /\ out.resolution.kind = "none" /\ out.router = r
                  /\ NoneAdmits(r, candidates, time)
               \/ /\ out.resolution.kind = "switch-provider"
                  /\ Switched(r, out.router, candidates, time)
<1> DEFINE accepting == {i \in candidates :
                          Probe(r, Priority[i], time).resolution.kind = "continue"}
           i     == Min(accepting)
           found == Priority[i]
           out   == AttemptSwitch(r, candidates, time)
<1>0. out = FirstOf(r, accepting, time)
  BY AttemptSwitchFinds DEF Accepting
<1>1. CASE accepting = {}
  <2>1. out = Answered(r, Resolution("none"))
    BY <1>0, <1>1 DEF FirstOf
  <2>2. out.router = r /\ out.resolution.kind = "none"
    BY <2>1 DEF Answered, Resolution
  <2>3. \A j \in candidates : Probe(r, Priority[j], time).resolution.kind # "continue"
    BY <1>1
  <2> HIDE DEF out
  <2>4. QED
    BY <2>2, <2>3 DEF out, NoneAdmits
<1>2. CASE accepting # {}
  <2>1. accepting \in SUBSET Nat
    BY PriorityType
  <2>2. i \in accepting /\ \A j \in accepting : i <= j
    BY <1>2, <2>1, LeastNatural
  <2>3. i \in candidates /\ i \in Nat
        /\ Probe(r, found, time).resolution.kind = "continue"
    BY <2>1, <2>2
  <2>4. \A j \in candidates : j < i =>
          Probe(r, Priority[j], time).resolution.kind # "continue"
    <3> SUFFICES ASSUME NEW j \in candidates, j < i,
                        Probe(r, Priority[j], time).resolution.kind = "continue"
                 PROVE  FALSE
      OBVIOUS
    <3>1. j \in accepting
      OBVIOUS
    <3> HIDE DEF accepting, i
    <3>2. j \in Nat /\ i \in Nat /\ i <= j
      BY <3>1, <2>1, <2>2, <2>3
    <3>3. QED
      BY <3>2
  <2> DEFINE probed  == Probe(r, found, time)
             changed == SetPolicy(r, found, probed.policy)
             moved   == SetCurrentProvider(changed, found)
  <2>5. out = Answered(moved, SwitchTo(found))
    BY <1>0, <1>2 DEF FirstOf
  <2>6. out.router = moved /\ out.resolution.kind = "switch-provider"
    BY <2>5 DEF Answered, SwitchTo
  <2> HIDE DEF accepting, i, out
  <2>7. found \in Providers /\ found \in DOMAIN r.policies
    BY <2>3, PriorityType DEF GoodRouter, SoundRouter, PrioritySet
  <2> HIDE DEF found
  <2>8. /\ probed.policy \in PolicyState /\ SoundPolicy(probed.policy)
        /\ Configs[found].kind # "circuit-breaker" =>
             probed.policy.state = "closed" /\ probed.policy.openTime = 0
    BY <2>7, ProbeGood
  <2> HIDE DEF probed
  <2>9. /\ GoodRouter(changed)
        /\ changed.allowFailover = r.allowFailover
        /\ changed.policies = [r.policies EXCEPT ![found] = probed.policy]
    BY <2>7, <2>8, SetPolicyGood
  <2> HIDE DEF changed
  <2>10. DOMAIN changed.policies = DOMAIN r.policies
    BY <2>9
  <2>11. /\ GoodRouter(moved) /\ moved.current = found
         /\ moved.allowFailover = changed.allowFailover
         /\ DOMAIN moved.policies = (DOMAIN changed.policies) \cup {found}
         /\ \A q \in DOMAIN changed.policies : moved.policies[q] = changed.policies[q]
    BY <2>7, <2>9, SetCurrentProviderGood
  <2> HIDE DEF moved
  <2>12. DOMAIN moved.policies = DOMAIN r.policies
    BY <2>7, <2>10, <2>11
  <2>13. moved.policies = changed.policies
    BY <2>9, <2>10, <2>11, <2>12 DEF GoodRouter, IsRouter
  <2>14. moved.policies = [r.policies EXCEPT ![found] = probed.policy]
    BY <2>9, <2>13
  <2>15. QED
    BY <2>3, <2>4, <2>6, <2>9, <2>11, <2>12, <2>14 DEF found, probed, out, Switched
<1>3. QED
  BY <1>1, <1>2

(* A provider a router switched to lets another execution in as well, and  *)
(* no policy but that provider's changed.                                  *)
LEMMA SwitchedAdmits ==
  ASSUME NEW r, GoodRouter(r), NEW s, NEW candidates \in SUBSET DOMAIN Priority,
         NEW time \in Nat, Switched(r, s, candidates, time)
  PROVE  /\ Probe(s, s.current, time).resolution.kind = "continue"
         /\ \A q \in (DOMAIN r.policies) \ {s.current} :
              s.policies[q] = r.policies[q]
<1>1. PICK i \in candidates :
        /\ s.current = Priority[i]
        /\ Probe(r, Priority[i], time).resolution.kind = "continue"
        /\ s.policies = [r.policies EXCEPT ![Priority[i]] =
                           Probe(r, Priority[i], time).policy]
  BY DEF Switched
<1> DEFINE p == Priority[i]
<1>2. p \in DOMAIN r.policies /\ p \in Providers
  BY PriorityType DEF GoodRouter, SoundRouter, PrioritySet
<1>3. s.current = p /\ s.policies = [r.policies EXCEPT ![p] = Probe(r, p, time).policy]
      /\ Probe(r, p, time).resolution.kind = "continue"
  BY <1>1
<1> HIDE DEF p
<1>4. s.policies[p] = Probe(r, p, time).policy
      /\ \A q \in (DOMAIN r.policies) \ {p} : s.policies[q] = r.policies[q]
  BY <1>2, <1>3
<1>5. /\ r.policies[p] \in PolicyState /\ SoundPolicy(r.policies[p])
      /\ Configs[p] \in PolicyConfig
  BY <1>2 DEF GoodRouter, IsRouter, SoundRouter
<1>6. Probe(r, p, time) = BeforeExecution(Configs[p], r.policies[p], time)
      /\ Probe(s, p, time) = BeforeExecution(Configs[p], s.policies[p], time)
  BY DEF Probe
<1>7. Probe(s, p, time).resolution.kind = "continue"
  BY <1>3, <1>4, <1>5, <1>6, BeforeExecutionDecides
<1>8. QED
  BY <1>3, <1>4, <1>7

LEMMA CandidatesType ==
  ASSUME NEW r, NEW check
  PROVE  /\ FailoverCandidates(r) \in SUBSET DOMAIN Priority
         /\ RestoreCandidates(r, check) \in SUBSET DOMAIN Priority
         /\ ~r.allowFailover => FailoverCandidates(r) = {}
                                 /\ RestoreCandidates(r, check) = {}
         /\ \A i \in FailoverCandidates(r) : i > IndexOf(r.current)
  BY DEF FailoverCandidates, RestoreCandidates

(* Failover leaves the router and the resolution alone, or it answers an   *)
(* abort with the first provider further down that admits an execution.    *)
LEMMA HandleFailoverGood ==
  ASSUME NEW r, GoodRouter(r), NEW resolution, NEW time \in Nat
  PROVE  LET out == HandleFailover(r, resolution, time)
         IN /\ GoodRouter(out.router)
            /\ out.router.allowFailover = r.allowFailover
            /\ DOMAIN out.router.policies = DOMAIN r.policies
            /\ \/ /\ out.router = r /\ out.resolution = resolution
                  /\ resolution.kind = "abort" =>
                       NoneAdmits(r, FailoverCandidates(r), time)
               \/ /\ resolution.kind = "abort"
                  /\ out.resolution.kind = "switch-provider"
                  /\ Switched(r, out.router, FailoverCandidates(r), time)
<1> DEFINE failover == AttemptSwitch(r, FailoverCandidates(r), time)
           out      == HandleFailover(r, resolution, time)
<1>1. /\ GoodRouter(failover.router)
      /\ failover.router.allowFailover = r.allowFailover
      /\ DOMAIN failover.router.policies = DOMAIN r.policies
      /\ \/ /\ failover.resolution.kind = "none" /\ failover.router = r
            /\ NoneAdmits(r, FailoverCandidates(r), time)
         \/ /\ failover.resolution.kind = "switch-provider"
            /\ Switched(r, failover.router, FailoverCandidates(r), time)
  BY CandidatesType, AttemptSwitchGood
<1>2. out = IF resolution.kind = "abort" /\ failover.resolution.kind = "switch-provider"
            THEN failover
            ELSE Answered(r, resolution)
  <2> HIDE DEF failover
  <2>1. out = IF resolution.kind # "abort" THEN Answered(r, resolution)
              ELSE IF failover.resolution.kind = "switch-provider" THEN failover
              ELSE Answered(failover.router, resolution)
    BY DEF HandleFailover, failover
  <2> HIDE DEF out
  <2>2. QED
    BY <1>1, <2>1
<1> HIDE DEF failover, out
<1>3. CASE resolution.kind = "abort" /\ failover.resolution.kind = "switch-provider"
  BY <1>1, <1>2, <1>3 DEF out
<1>4. CASE ~(resolution.kind = "abort" /\ failover.resolution.kind = "switch-provider")
  <2>1. out.router = r /\ out.resolution = resolution
    BY <1>2, <1>4 DEF Answered
  <2>2. QED
    BY <1>1, <1>4, <2>1 DEF out
<1>5. QED
  BY <1>3, <1>4

(* beforeExecution of a router with a provider: a restore; or the answer   *)
(* of the current policy; or, when that aborts and so has not changed, a   *)
(* failover.                                                               *)
LEMMA RouterBeforeGood ==
  ASSUME NEW r, GoodRouter(r), r.current # NoProvider, NEW time \in Nat,
         NEW check \in BOOLEAN
  PROVE  LET out   == RouterBeforeExecution(r, time, check)
             inner == Probe(r, r.current, time)
         IN /\ GoodRouter(out.router)
            /\ out.router.allowFailover = r.allowFailover
            /\ DOMAIN out.router.policies = DOMAIN r.policies
            /\ \/ /\ out.resolution.kind = "switch-provider"
                  /\ Switched(r, out.router, RestoreCandidates(r, check), time)
               \/ /\ NoneAdmits(r, RestoreCandidates(r, check), time)
                  /\ out.resolution.kind \in {"continue", "backoff", "abort"}
                  /\ out.router.current = r.current
                  /\ \A q \in (DOMAIN r.policies) \ {r.current} :
                       out.router.policies[q] = r.policies[q]
                  /\ out.resolution.kind = "abort" =>
                       NoneAdmits(r, FailoverCandidates(r), time)
               \/ /\ NoneAdmits(r, RestoreCandidates(r, check), time)
                  /\ inner.resolution.kind = "abort"
                  /\ out.resolution.kind = "switch-provider"
                  /\ Switched(r, out.router, FailoverCandidates(r), time)
<1> DEFINE restore == AttemptSwitch(r, RestoreCandidates(r, check), time)
           inner   == Probe(r, r.current, time)
           probed  == SetPolicy(r, r.current, inner.policy)
           out     == RouterBeforeExecution(r, time, check)
<1>1. /\ GoodRouter(restore.router)
      /\ restore.router.allowFailover = r.allowFailover
      /\ DOMAIN restore.router.policies = DOMAIN r.policies
      /\ \/ /\ restore.resolution.kind = "none" /\ restore.router = r
            /\ NoneAdmits(r, RestoreCandidates(r, check), time)
         \/ /\ restore.resolution.kind = "switch-provider"
            /\ Switched(r, restore.router, RestoreCandidates(r, check), time)
  BY CandidatesType, AttemptSwitchGood
<1>2. out = IF restore.resolution.kind = "switch-provider" THEN restore
            ELSE HandleFailover(probed, inner.resolution, time)
  <2> HIDE DEF restore
  <2>1. out = IF restore.resolution.kind = "switch-provider" THEN restore
              ELSE LET asked == Probe(restore.router, r.current, time)
                   IN HandleFailover(SetPolicy(restore.router, r.current, asked.policy),
                                     asked.resolution, time)
    BY DEF RouterBeforeExecution, restore
  <2> HIDE DEF out
  <2>2. QED
    BY <1>1, <2>1
<1> HIDE DEF restore
<1>3. /\ r.current \in DOMAIN r.policies /\ r.current \in Providers
      /\ r.policies[r.current] \in PolicyState /\ SoundPolicy(r.policies[r.current])
      /\ Configs[r.current] \in PolicyConfig
  BY DEF GoodRouter, IsRouter, SoundRouter
<1>4. /\ inner.policy \in PolicyState /\ SoundPolicy(inner.policy)
      /\ Configs[r.current].kind # "circuit-breaker" =>
           inner.policy.state = "closed" /\ inner.policy.openTime = 0
      /\ inner.resolution.kind \in {"continue", "backoff", "abort"}
  BY <1>3, ProbeGood
<1>5. inner.resolution.kind = "abort" => inner.policy = r.policies[r.current]
  BY <1>3, BeforeExecutionDecides DEF Probe
<1> HIDE DEF inner
<1>6. /\ GoodRouter(probed) /\ probed.allowFailover = r.allowFailover
      /\ probed.current = r.current
      /\ probed.policies = [r.policies EXCEPT ![r.current] = inner.policy]
  BY <1>3, <1>4, SetPolicyGood
<1>7. inner.resolution.kind = "abort" => probed = r
  BY <1>3, <1>5, SetPolicySame
<1> HIDE DEF out
<1>8. CASE restore.resolution.kind = "switch-provider"
  BY <1>1, <1>2, <1>8 DEF out
<1>9. CASE restore.resolution.kind # "switch-provider"
  <2> DEFINE handled == HandleFailover(probed, inner.resolution, time)
  <2>1. out = handled /\ NoneAdmits(r, RestoreCandidates(r, check), time)
    BY <1>1, <1>2, <1>9
  <2> HIDE DEF probed
  <2>2. /\ GoodRouter(handled.router)
        /\ handled.router.allowFailover = r.allowFailover
        /\ DOMAIN handled.router.policies = DOMAIN probed.policies
        /\ \/ /\ handled.router = probed /\ handled.resolution = inner.resolution
              /\ inner.resolution.kind = "abort" =>
                   NoneAdmits(probed, FailoverCandidates(probed), time)
           \/ /\ inner.resolution.kind = "abort"
              /\ handled.resolution.kind = "switch-provider"
              /\ Switched(probed, handled.router, FailoverCandidates(probed), time)
    BY <1>6, HandleFailoverGood
  <2>3. /\ DOMAIN probed.policies = DOMAIN r.policies
        /\ \A q \in (DOMAIN r.policies) \ {r.current} :
             probed.policies[q] = r.policies[q]
    BY <1>3, <1>6
  <2> HIDE DEF handled
  <2>4. QED
    BY <2>1, <2>2, <2>3, <1>4, <1>6, <1>7 DEF out, inner
<1>10. QED
  BY <1>8, <1>9

(* afterFailure of a router with a provider: the answer of its policy, or  *)
(* a failover.                                                             *)
LEMMA RouterFailureGood ==
  ASSUME NEW r, GoodRouter(r), r.current # NoProvider, NEW time \in Nat,
         NEW failure \in FailureKind
  PROVE  LET out     == RouterAfterFailure(r, failure, time)
             inner   == AfterFailure(Configs[r.current], r.policies[r.current],
                                     failure, time)
             changed == SetPolicy(r, r.current, inner.policy)
         IN /\ GoodRouter(out.router)
            /\ out.router.allowFailover = r.allowFailover
            /\ DOMAIN out.router.policies = DOMAIN r.policies
            /\ GoodRouter(changed)
            /\ DOMAIN changed.policies = DOMAIN r.policies
            /\ changed.current = r.current
            /\ \A q \in (DOMAIN r.policies) \ {r.current} :
                 changed.policies[q] = r.policies[q]
            /\ FailoverCandidates(changed) = FailoverCandidates(r)
            /\ \/ /\ out.resolution.kind \in {"retry", "abort", "throw"}
                  /\ out.router = changed
                  /\ out.resolution.kind = "abort" =>
                       NoneAdmits(changed, FailoverCandidates(r), time)
               \/ /\ out.resolution.kind = "switch-provider"
                  /\ Switched(changed, out.router, FailoverCandidates(r), time)
<1> DEFINE inner   == AfterFailure(Configs[r.current], r.policies[r.current],
                                   failure, time)
           changed == SetPolicy(r, r.current, inner.policy)
           out     == RouterAfterFailure(r, failure, time)
<1>1. out = HandleFailover(changed, inner.resolution, time)
  BY DEF RouterAfterFailure
<1>2. /\ r.current \in DOMAIN r.policies /\ r.current \in Providers
      /\ r.policies[r.current] \in PolicyState /\ SoundPolicy(r.policies[r.current])
      /\ Configs[r.current] \in PolicyConfig
      /\ Configs[r.current].kind # "circuit-breaker" =>
           r.policies[r.current].state = "closed" /\ r.policies[r.current].openTime = 0
  BY DEF GoodRouter, IsRouter, SoundRouter
<1>3. /\ inner.policy \in PolicyState /\ SoundPolicy(inner.policy)
      /\ Configs[r.current].kind # "circuit-breaker" =>
           inner.policy.state = "closed" /\ inner.policy.openTime = 0
      /\ inner.resolution.kind \in {"retry", "abort", "throw"}
  BY <1>2, AfterFailureSound
<1> HIDE DEF inner, out
<1>4. /\ GoodRouter(changed) /\ changed.allowFailover = r.allowFailover
      /\ changed.current = r.current
      /\ changed.policies = [r.policies EXCEPT ![r.current] = inner.policy]
  BY <1>2, <1>3, SetPolicyGood
<1> HIDE DEF changed
<1>5. DOMAIN changed.policies = DOMAIN r.policies
      /\ \A q \in (DOMAIN r.policies) \ {r.current} :
           changed.policies[q] = r.policies[q]
  BY <1>4
<1>6. FailoverCandidates(changed) = FailoverCandidates(r)
  BY <1>4 DEF FailoverCandidates
<1>7. /\ GoodRouter(out.router)
      /\ out.router.allowFailover = changed.allowFailover
      /\ DOMAIN out.router.policies = DOMAIN changed.policies
      /\ \/ /\ out.router = changed /\ out.resolution = inner.resolution
            /\ inner.resolution.kind = "abort" =>
                 NoneAdmits(changed, FailoverCandidates(changed), time)
         \/ /\ inner.resolution.kind = "abort"
            /\ out.resolution.kind = "switch-provider"
            /\ Switched(changed, out.router, FailoverCandidates(changed), time)
  BY <1>1, <1>4, HandleFailoverGood
<1>8. QED
  BY <1>3, <1>4, <1>5, <1>6, <1>7 DEF out, changed, inner

LEMMA RouterSuccessGood ==
  ASSUME NEW r, GoodRouter(r), r.current # NoProvider, NEW time \in Nat
  PROVE  LET out == RouterAfterSuccess(r, time)
         IN /\ GoodRouter(out.router)
            /\ out.router.current = r.current
            /\ DOMAIN out.router.policies = DOMAIN r.policies
            /\ \A q \in (DOMAIN r.policies) \ {r.current} :
                 out.router.policies[q] = r.policies[q]
            /\ out.resolution.kind \in {"continue", "throw"}
<1> DEFINE inner   == AfterSuccess(Configs[r.current], r.policies[r.current], time)
           changed == SetPolicy(r, r.current, inner.policy)
           out     == RouterAfterSuccess(r, time)
<1>1. out = Answered(changed, inner.resolution)
  BY DEF RouterAfterSuccess
<1>2. /\ r.current \in DOMAIN r.policies /\ r.current \in Providers
      /\ r.policies[r.current] \in PolicyState /\ SoundPolicy(r.policies[r.current])
      /\ Configs[r.current] \in PolicyConfig
      /\ Configs[r.current].kind # "circuit-breaker" =>
           r.policies[r.current].state = "closed" /\ r.policies[r.current].openTime = 0
  BY DEF GoodRouter, IsRouter, SoundRouter
<1>3. /\ inner.policy \in PolicyState /\ SoundPolicy(inner.policy)
      /\ Configs[r.current].kind # "circuit-breaker" =>
           inner.policy.state = "closed" /\ inner.policy.openTime = 0
      /\ inner.resolution.kind \in {"continue", "throw"}
  BY <1>2, AfterSuccessSound
<1> HIDE DEF inner, out
<1>4. /\ GoodRouter(changed) /\ changed.current = r.current
      /\ changed.policies = [r.policies EXCEPT ![r.current] = inner.policy]
  BY <1>2, <1>3, SetPolicyGood
<1> HIDE DEF changed
<1>5. out.router = changed /\ out.resolution = inner.resolution
  BY <1>1 DEF Answered
<1>6. QED
  BY <1>3, <1>4, <1>5 DEF out

(* reset() makes the first provider of the priority current, with every    *)
(* policy closed and without backoff.                                      *)
LEMMA RouterResetGood ==
  ASSUME NEW r, GoodRouter(r), Len(Priority) > 0
  PROVE  GoodRouter(RouterReset(r))
<1> DEFINE p        == Priority[1]
           first    == SetCurrentProvider(r, p)
           policies == [q \in DOMAIN first.policies |->
                          ResetPolicy(Configs[q], first.policies[q])]
           s        == RouterReset(r)
<1>1. p \in Providers
  BY PriorityType
<1>2. GoodRouter(first) /\ first.current = p
  BY <1>1, SetCurrentProviderGood
<1>3. s = [first EXCEPT !.policies = policies]
  BY DEF RouterReset
<1> HIDE DEF p, first, s
<1>4. \A q \in DOMAIN first.policies :
        /\ q \in Providers /\ Configs[q] \in PolicyConfig
        /\ first.policies[q] \in PolicyState /\ SoundPolicy(first.policies[q])
        /\ Configs[q].kind # "circuit-breaker" =>
             first.policies[q].state = "closed" /\ first.policies[q].openTime = 0
  BY <1>2 DEF GoodRouter, IsRouter, SoundRouter
<1>5. \A q \in DOMAIN first.policies :
        /\ policies[q] \in PolicyState /\ SoundPolicy(policies[q])
        /\ policies[q].state = "closed" /\ policies[q].openTime = 0
  BY <1>4, ResetPolicySound
<1>6. policies \in [DOMAIN first.policies -> PolicyState]
  BY <1>5
<1>7. /\ s = [current |-> first.current, allowFailover |-> first.allowFailover,
              policies |-> policies]
      /\ DOMAIN policies = DOMAIN first.policies
  BY <1>2, <1>3 DEF GoodRouter, IsRouter
<1> HIDE DEF policies
<1>8. IsRouter(s)
  <2>1. /\ first.current \in Providers \cup {NoProvider}
        /\ first.allowFailover \in BOOLEAN
        /\ DOMAIN first.policies \in SUBSET Providers
    BY <1>2 DEF GoodRouter, IsRouter
  <2>2. QED
    BY <1>6, <1>7, <2>1, RouterFields
<1>9. SoundRouter(s)
  BY <1>2, <1>5, <1>6, <1>7 DEF GoodRouter, SoundRouter
<1>10. QED
  BY <1>8, <1>9 DEF GoodRouter, s

LEMMA SetAllowFailoverGood ==
  ASSUME NEW r, GoodRouter(r), NEW allow \in BOOLEAN
  PROVE  LET s == SetAllowFailover(r, allow)
         IN GoodRouter(s) /\ s.current = r.current /\ s.policies = r.policies
  BY DEF GoodRouter, IsRouter, SoundRouter, SetAllowFailover

(* indexOf finds the first place of a provider.                            *)
LEMMA IndexOfFirst ==
  /\ \A p : IndexOf(p) \in Nat
  /\ \A i \in DOMAIN Priority :
       /\ IndexOf(Priority[i]) \in DOMAIN Priority
       /\ Priority[IndexOf(Priority[i])] = Priority[i]
       /\ IndexOf(Priority[i]) <= i
<1>1. ASSUME NEW p, p \in PrioritySet
      PROVE  /\ IndexOf(p) \in DOMAIN Priority /\ Priority[IndexOf(p)] = p
             /\ \A i \in DOMAIN Priority : Priority[i] = p => IndexOf(p) <= i
  <2> DEFINE places == {i \in DOMAIN Priority : Priority[i] = p}
  <2>1. IndexOf(p) = Min(places)
    BY <1>1 DEF IndexOf
  <2>2. places # {} /\ places \in SUBSET Nat
    BY <1>1, PriorityType DEF PrioritySet
  <2>3. Min(places) \in places /\ \A y \in places : Min(places) <= y
    BY <2>2, LeastNatural
  <2>4. QED
    BY <2>1, <2>3
<1>2. \A p : IndexOf(p) \in Nat
  BY <1>1, PriorityType DEF IndexOf
<1>3. \A i \in DOMAIN Priority : Priority[i] \in PrioritySet
  BY DEF PrioritySet
<1>4. QED
  BY <1>1, <1>2, <1>3

(* No provider is listed twice in the priority.  The code does not check   *)
(* this; what depends on it says so.                                       *)
NoDuplicates == \A i, j \in DOMAIN Priority : Priority[i] = Priority[j] => i = j

LEMMA IndexWithoutDuplicates ==
  ASSUME NoDuplicates, NEW i \in DOMAIN Priority
  PROVE  IndexOf(Priority[i]) = i
  BY IndexOfFirst DEF NoDuplicates
=============================================================================
