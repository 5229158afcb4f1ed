---------------------------- MODULE PerformProofs ----------------------------
(***************************************************************************)
(* Proofs about Perform, for any providers, priority, configurations,      *)
(* options and bounds.  For performs that overlap in any way: the types    *)
(* and the soundness of the routers.  For one perform at a time on one     *)
(* object: the invariant IInv and what follows from it.                    *)
(***************************************************************************)
EXTENDS Perform, FailurePolicyLemmas, FiniteSetTheorems

USE RouterAssumption, PerformAssumption

-----------------------------------------------------------------------------
(* What the router answers.                                                *)

(* A policy that does not abort before an execution is not open after it.  *)
LEMMA ProbeNotOpen ==
  ASSUME NEW r, GoodRouter(r), NEW p \in DOMAIN r.policies, NEW time \in Nat,
         Probe(r, p, time).resolution.kind # "abort"
  PROVE  Probe(r, p, time).policy.state # "open"
<1>1. /\ r.policies[p] \in PolicyState /\ SoundPolicy(r.policies[p])
      /\ Configs[p] \in PolicyConfig
      /\ Configs[p].kind # "circuit-breaker" => r.policies[p].state = "closed"
  BY DEF GoodRouter, IsRouter, SoundRouter
<1> DEFINE out == BeforeExecution(Configs[p], r.policies[p], time)
<1>2. /\ out.policy = r.policies[p] \/ r.policies[p].state = "open"
      /\ (Configs[p].kind = "circuit-breaker" /\ out.resolution.kind # "abort") =>
           out.policy.state # "open"
  BY <1>1, BeforeExecutionSound
<1>3. Probe(r, p, time) = out
  BY DEF Probe
<1> HIDE DEF out
<1>4. QED
  BY <1>1, <1>2, <1>3

(* A search that finds a provider names it, and it may be called.          *)
LEMMA AttemptSwitchNames ==
  ASSUME NEW r, GoodRouter(r), NEW candidates \in SUBSET DOMAIN Priority,
         NEW time \in Nat,
         AttemptSwitch(r, candidates, time).resolution.kind = "switch-provider"
  PROVE  LET out == AttemptSwitch(r, candidates, time)
         IN /\ GoodRouter(out.router)
            /\ out.router.allowFailover = r.allowFailover
            /\ out.resolution = SwitchTo(out.router.current)
            /\ out.router.current \in Providers /\ MayCall(out.router)
            /\ \E i \in candidates : Priority[i] = out.router.current
<1> DEFINE out == AttemptSwitch(r, candidates, time)
           accepting == {i \in candidates :
                          Probe(r, Priority[i], time).resolution.kind = "continue"}
           found == Priority[Min(accepting)]
           moved == SetCurrentProvider(
                      SetPolicy(r, found, Probe(r, found, time).policy), found)
<1>1. /\ GoodRouter(out.router) /\ out.router.allowFailover = r.allowFailover
      /\ Switched(r, out.router, candidates, time)
  <2>1. /\ GoodRouter(out.router)
        /\ out.router.allowFailover = r.allowFailover
        /\ \/ out.resolution.kind = "none"
           \/ Switched(r, out.router, candidates, time)
    BY AttemptSwitchGood
  <2>2. QED
    BY <2>1
<1>2. out.resolution = SwitchTo(out.router.current)
  <2>1. out = IF accepting = {} THEN Answered(r, Resolution("none"))
              ELSE Answered(moved, SwitchTo(found))
    <3>1. out = FirstOf(r, Accepting(r, candidates, time), time)
      BY AttemptSwitchFinds
    <3>2. Accepting(r, candidates, time) = accepting
      BY DEF Accepting
    <3> HIDE DEF accepting, out
    <3>3. QED
      BY <3>1, <3>2 DEF FirstOf
  <2>2. moved.current = found
    BY DEF SetCurrentProvider
  <2> HIDE DEF moved, found, accepting
  <2>3. CASE accepting = {}
    BY <2>1, <2>3 DEF Answered, Resolution
  <2>4. CASE accepting # {}
    BY <2>1, <2>2, <2>4 DEF Answered
  <2>5. QED
    BY <2>3, <2>4
<1> HIDE DEF out
<1>3. PICK i \in candidates :
        /\ out.router.current = Priority[i]
        /\ Probe(r, Priority[i], time).resolution.kind = "continue"
        /\ out.router.policies = [r.policies EXCEPT ![Priority[i]] =
                                    Probe(r, Priority[i], time).policy]
  BY <1>1 DEF Switched
<1> DEFINE p == Priority[i]
<1>4. p \in DOMAIN r.policies /\ p \in Providers
  BY PriorityType DEF GoodRouter, SoundRouter, PrioritySet
<1>5. /\ out.router.current = p
      /\ Probe(r, p, time).resolution.kind = "continue"
      /\ out.router.policies = [r.policies EXCEPT ![p] = Probe(r, p, time).policy]
  BY <1>3
<1> HIDE DEF p
<1>6. Probe(r, p, time).policy.state # "open"
  BY <1>4, <1>5, ProbeNotOpen
<1>7. MayCall(out.router)
  BY <1>4, <1>5, <1>6 DEF MayCall
<1>8. QED
  BY <1>1, <1>2, <1>3, <1>4, <1>5, <1>7 DEF out

(* What a router answers when it switches from provider p.                 *)
SwitchesFrom(r, p, s, resolution) ==
  /\ r.allowFailover
  /\ s.current \in Providers /\ MayCall(s)
  /\ resolution.provider = s.current
  /\ \E i \in DOMAIN Priority : Priority[i] = s.current /\ i > IndexOf(p)

(* A failover, when there is one, goes down from the current provider.     *)
LEMMA FailoverNames ==
  ASSUME NEW r, GoodRouter(r), NEW resolution, NEW time \in Nat,
         resolution.kind # "switch-provider"
  PROVE  LET out == HandleFailover(r, resolution, time)
         IN /\ GoodRouter(out.router)
            /\ out.router.allowFailover = r.allowFailover
            /\ \/ out.router = r /\ out.resolution = resolution
               \/ /\ out.resolution.kind = "switch-provider"
                  /\ SwitchesFrom(r, r.current, out.router, out.resolution)
<1> DEFINE failover == AttemptSwitch(r, FailoverCandidates(r), time)
           out      == HandleFailover(r, resolution, time)
<1>1. /\ FailoverCandidates(r) \in SUBSET DOMAIN Priority
      /\ ~r.allowFailover => FailoverCandidates(r) = {}
      /\ \A i \in FailoverCandidates(r) : i > IndexOf(r.current)
  BY CandidatesType
<1>2. GoodRouter(out.router) /\ out.router.allowFailover = r.allowFailover
  BY HandleFailoverGood
<1>3. out = IF resolution.kind = "abort" /\ failover.resolution.kind = "switch-provider"
            THEN failover
            ELSE Answered(r, resolution)
  <2>1. failover.resolution.kind # "switch-provider" => failover.router = r
    BY <1>1, AttemptSwitchGood
  <2>2. out = IF resolution.kind # "abort" THEN Answered(r, resolution)
              ELSE IF failover.resolution.kind = "switch-provider" THEN failover
              ELSE Answered(failover.router, resolution)
    BY DEF HandleFailover
  <2> HIDE DEF failover, out
  <2>3. QED
    BY <2>1, <2>2
<1>4. failover.resolution.kind = "switch-provider" =>
        /\ failover.resolution = SwitchTo(failover.router.current)
        /\ failover.router.current \in Providers /\ MayCall(failover.router)
        /\ \E i \in FailoverCandidates(r) : Priority[i] = failover.router.current
  BY <1>1, AttemptSwitchNames
<1> HIDE DEF failover, out
<1>5. CASE resolution.kind = "abort" /\ failover.resolution.kind = "switch-provider"
  BY <1>1, <1>2, <1>3, <1>4, <1>5 DEF SwitchesFrom, SwitchTo, out
<1>6. CASE ~(resolution.kind = "abort" /\ failover.resolution.kind = "switch-provider")
  BY <1>2, <1>3, <1>6 DEF Answered, out
<1>7. QED
  BY <1>5, <1>6

(* The answer to beforeExecution: who is admitted may be called; a restore *)
(* or a failover switches, when it is allowed, and without the check for   *)
(* a restore only downwards.                                               *)
LEMMA BeforeAnswer ==
  ASSUME NEW r, GoodRouter(r), NEW time \in Nat, NEW check \in BOOLEAN
  PROVE  LET out  == RouterBeforeExecution(r, time, check)
             kind == out.resolution.kind
         IN /\ GoodRouter(out.router)
            /\ out.router.allowFailover = r.allowFailover
            /\ r.current = NoProvider => out.router = r /\ kind = "throw"
            /\ r.current # NoProvider =>
                 \/ /\ kind \in {"continue", "backoff", "abort"}
                    /\ out.router.current = r.current
                    /\ kind # "abort" => MayCall(out.router)
                 \/ /\ kind = "switch-provider"
                    /\ r.allowFailover
                    /\ out.router.current \in Providers /\ MayCall(out.router)
                    /\ out.resolution.provider = out.router.current
                    /\ ~check => SwitchesFrom(r, r.current, out.router, out.resolution)
<1> DEFINE restore == AttemptSwitch(r, RestoreCandidates(r, check), time)
           inner   == Probe(r, r.current, time)
           probed  == SetPolicy(r, r.current, inner.policy)
           handled == HandleFailover(probed, inner.resolution, time)
           out     == RouterBeforeExecution(r, time, check)
<1>1. CASE r.current = NoProvider
  <2>1. out = Answered(r, Throws)
    BY <1>1 DEF RouterBeforeExecution
  <2>2. QED
    BY <1>1, <2>1 DEF Answered, Throws, Resolution
<1>2. CASE r.current # NoProvider
  <2>1. out = IF restore.resolution.kind = "switch-provider" THEN restore ELSE handled
    <3>1. restore.resolution.kind # "switch-provider" => restore.router = r
      BY CandidatesType, AttemptSwitchGood
    <3> HIDE DEF restore
    <3>2. out = IF restore.resolution.kind = "switch-provider" THEN restore
                ELSE LET asked == Probe(restore.router, r.current, time)
                     IN HandleFailover(SetPolicy(restore.router, r.current, asked.policy),
                                       asked.resolution, time)
      BY <1>2 DEF RouterBeforeExecution, restore
    <3> HIDE DEF out
    <3>3. QED
      BY <3>1, <3>2
  <2>3. /\ RestoreCandidates(r, check) \in SUBSET DOMAIN Priority
        /\ ~r.allowFailover => RestoreCandidates(r, check) = {}
        /\ ~check => RestoreCandidates(r, check) = {}
    BY DEF RestoreCandidates
  <2>4. CASE restore.resolution.kind = "switch-provider"
    <3>1. /\ GoodRouter(restore.router)
          /\ restore.router.allowFailover = r.allowFailover
          /\ restore.resolution = SwitchTo(restore.router.current)
          /\ restore.router.current \in Providers /\ MayCall(restore.router)
          /\ \E i \in RestoreCandidates(r, check) : Priority[i] = restore.router.current
      BY <2>3, <2>4, AttemptSwitchNames
    <3> HIDE DEF restore, handled, out
    <3>2. QED
      BY <1>2, <2>1, <2>3, <2>4, <3>1 DEF SwitchTo, out
  <2>5. CASE restore.resolution.kind # "switch-provider"
    <3> HIDE DEF restore, out
    <3>1. r.current \in DOMAIN r.policies
      BY <1>2 DEF GoodRouter, SoundRouter
    <3>2. /\ inner.policy \in PolicyState /\ SoundPolicy(inner.policy)
          /\ Configs[r.current].kind # "circuit-breaker" =>
               inner.policy.state = "closed" /\ inner.policy.openTime = 0
          /\ inner.resolution.kind \in {"continue", "backoff", "abort"}
      BY <3>1, ProbeGood
    <3>3. inner.resolution.kind # "abort" => inner.policy.state # "open"
      BY <3>1, ProbeNotOpen
    <3> HIDE DEF inner
    <3>4. /\ GoodRouter(probed) /\ probed.allowFailover = r.allowFailover
          /\ probed.current = r.current
          /\ probed.policies = [r.policies EXCEPT ![r.current] = inner.policy]
      BY <3>1, <3>2, SetPolicyGood
    <3>5. inner.resolution.kind # "abort" => MayCall(probed)
      BY <3>1, <3>3, <3>4 DEF MayCall
    <3> HIDE DEF probed
    <3>6. GoodRouter(handled.router)
          /\ handled.router.allowFailover = probed.allowFailover
      BY <3>2, <3>4, FailoverNames
    <3>7. \/ handled.router = probed /\ handled.resolution = inner.resolution
          \/ /\ handled.resolution.kind = "switch-provider"
             /\ SwitchesFrom(probed, probed.current, handled.router, handled.resolution)
      BY <3>2, <3>4, FailoverNames
    <3> HIDE DEF handled
    <3>8. QED
      BY <1>2, <2>1, <2>5, <3>2, <3>4, <3>5, <3>6, <3>7 DEF out, SwitchesFrom
  <2>6. QED
    BY <2>4, <2>5
<1>3. QED
  BY <1>1, <1>2

(* The answer to afterFailure: it throws only without a provider or while  *)
(* the breaker is open, and after a retry the provider may be called.      *)
LEMMA FailureAnswer ==
  ASSUME NEW r, GoodRouter(r), NEW time \in Nat, NEW failure \in FailureKind
  PROVE  LET out  == RouterAfterFailure(r, failure, time)
             kind == out.resolution.kind
         IN /\ GoodRouter(out.router)
            /\ out.router.allowFailover = r.allowFailover
            /\ r.current = NoProvider => out.router = r /\ kind = "throw"
            /\ r.current # NoProvider =>
                 \/ /\ kind \in {"retry", "abort", "throw"}
                    /\ out.router.current = r.current
                    /\ kind = "retry" => MayCall(out.router)
                    /\ kind = "throw" => ~MayCall(r)
                 \/ /\ kind = "switch-provider"
                    /\ SwitchesFrom(r, r.current, out.router, out.resolution)
<1> DEFINE inner   == AfterFailure(Configs[r.current], r.policies[r.current],
                                   failure, time)
           changed == SetPolicy(r, r.current, inner.policy)
           out     == RouterAfterFailure(r, failure, time)
<1>1. CASE r.current = NoProvider
  <2>1. out = Answered(r, Throws)
    BY <1>1 DEF RouterAfterFailure
  <2>2. QED
    BY <1>1, <2>1 DEF Answered, Throws, Resolution
<1>2. CASE r.current # NoProvider
  <2>1. out = HandleFailover(changed, inner.resolution, time)
    BY <1>2 DEF RouterAfterFailure
  <2>2. /\ r.current \in DOMAIN r.policies
        /\ r.policies[r.current] \in PolicyState /\ SoundPolicy(r.policies[r.current])
        /\ Configs[r.current] \in PolicyConfig
        /\ Configs[r.current].kind # "circuit-breaker" =>
             r.policies[r.current].state = "closed" /\ r.policies[r.current].openTime = 0
    BY <1>2 DEF GoodRouter, IsRouter, SoundRouter
  <2>3. /\ inner.policy \in PolicyState /\ SoundPolicy(inner.policy)
        /\ Configs[r.current].kind # "circuit-breaker" =>
             inner.policy.state = "closed" /\ inner.policy.openTime = 0
        /\ inner.resolution.kind \in {"retry", "abort", "throw"}
        /\ inner.resolution.kind = "throw" => r.policies[r.current].state = "open"
        /\ inner.resolution.kind = "retry" => inner.policy.state = "closed"
    BY <2>2, AfterFailureSound
  <2> HIDE DEF inner, out
  <2>4. /\ GoodRouter(changed) /\ changed.allowFailover = r.allowFailover
        /\ changed.current = r.current
        /\ changed.policies = [r.policies EXCEPT ![r.current] = inner.policy]
    BY <2>2, <2>3, SetPolicyGood
  <2>5. inner.resolution.kind = "retry" => MayCall(changed)
    BY <2>2, <2>3, <2>4 DEF MayCall
  <2> HIDE DEF changed
  <2>6. /\ GoodRouter(out.router)
        /\ out.router.allowFailover = changed.allowFailover
        /\ \/ out.router = changed /\ out.resolution = inner.resolution
           \/ /\ out.resolution.kind = "switch-provider"
              /\ SwitchesFrom(changed, changed.current, out.router, out.resolution)
    BY <2>1, <2>3, <2>4, FailoverNames
  <2>7. QED
    BY <1>2, <2>3, <2>4, <2>5, <2>6 DEF out, MayCall, SwitchesFrom
<1>3. QED
  BY <1>1, <1>2

(* The answer to afterSuccess.                                             *)
LEMMA SuccessAnswer ==
  ASSUME NEW r, GoodRouter(r), NEW time \in Nat
  PROVE  LET out == RouterAfterSuccess(r, time)
         IN /\ GoodRouter(out.router)
            /\ out.router.current = r.current
            /\ r.current = NoProvider => out.router = r
            /\ r.current # NoProvider /\ MayCall(r) =>
                 out.resolution.kind # "throw"
<1> DEFINE inner   == AfterSuccess(Configs[r.current], r.policies[r.current], time)
           changed == SetPolicy(r, r.current, inner.policy)
           out     == RouterAfterSuccess(r, time)
<1>1. CASE r.current = NoProvider
  <2>1. out = Answered(r, Throws)
    BY <1>1 DEF RouterAfterSuccess
  <2>2. QED
    BY <1>1, <2>1 DEF Answered
<1>2. CASE r.current # NoProvider
  <2>1. out = Answered(changed, inner.resolution)
    BY <1>2 DEF RouterAfterSuccess
  <2>2. /\ r.policies[r.current] \in PolicyState /\ SoundPolicy(r.policies[r.current])
        /\ Configs[r.current] \in PolicyConfig
        /\ Configs[r.current].kind # "circuit-breaker" =>
             r.policies[r.current].state = "closed"
    BY <1>2 DEF GoodRouter, IsRouter, SoundRouter
  <2>3. inner.resolution.kind = "throw" => r.policies[r.current].state = "open"
    BY <2>2, AfterSuccessSound
  <2>4. GoodRouter(out.router) /\ out.router.current = r.current
    BY <1>2, RouterSuccessGood
  <2> HIDE DEF inner, changed
  <2>5. QED
    BY <1>2, <2>1, <2>3, <2>4 DEF Answered, MayCall
<1>3. QED
  BY <1>1, <1>2

-----------------------------------------------------------------------------
(* Types and sound routers, however performs overlap.                      *)

Typed == TypeOK /\ SoundState

HookOK ==
  /\ hook = [u \in UseCases |-> [router |-> hook[u].router,
                                 queuedAction |-> hook[u].queuedAction]]
  /\ \A u \in UseCases : GoodRouter(hook[u].router) /\ hook[u].queuedAction \in Action

Located(k) ==
  /\ k.at = "fetch-failed" => k.heard # NoUseCase
  /\ k.at \in WithProvider \ {"settle"} => k.target # NoProvider

PerformOK ==
  /\ perform \in [Performs -> PerformState]
  /\ \A p \in Performs : Located(perform[p])

RestOK ==
  /\ object \in [UseCaseObjects -> ObjectState]
  /\ fetchUse \in UseCases \cup {NoUseCase}
  /\ cache \subseteq Providers
  /\ now \in Nat

LEMMA TypedParts == Typed <=> HookOK /\ PerformOK /\ RestOK
  BY DEF Typed, TypeOK, SoundState, HookOK, PerformOK, RestOK, Located, GoodRouter

LEMMA TypedParts1 == Typed' <=> HookOK' /\ PerformOK' /\ RestOK'
  BY DEF Typed, TypeOK, SoundState, HookOK, PerformOK, RestOK, Located, GoodRouter

LEMMA UseCaseType == \A p \in Performs : UseCase(p) \in UseCases
  BY DEF UseCase

LEMMA ActionType ==
  /\ NoAction \in Action /\ FullAbort \in Action
  /\ \A p \in Providers \cup {NoProvider} :
       [kind |-> "switch-provider", provider |-> p] \in Action
  BY DEF NoAction, FullAbort, Action

(* One use case gets another router and queue ...                          *)
OthersKept(u) == \A v \in UseCases \ {u} : hook'[v] = hook[v]

Hooked(u, r, action) ==
  hook' = [hook EXCEPT ![u] = [router |-> r, queuedAction |-> action]]

LEMMA HookedStep ==
  ASSUME HookOK, NEW u \in UseCases, NEW r, GoodRouter(r), NEW action \in Action,
         Hooked(u, r, action)
  PROVE  /\ HookOK' /\ OthersKept(u)
         /\ hook'[u].router = r /\ hook'[u].queuedAction = action
  BY DEF HookOK, Hooked, OthersKept

(* ... or another router only.                                             *)
Routed(u, r) == hook' = [hook EXCEPT ![u].router = r]

LEMMA RoutedStep ==
  ASSUME HookOK, NEW u \in UseCases, NEW r, GoodRouter(r), Routed(u, r)
  PROVE  /\ HookOK' /\ OthersKept(u)
         /\ hook'[u].router = r
         /\ hook'[u].queuedAction = hook[u].queuedAction
<1> DEFINE h == hook[u]
<1>1. h = [router |-> h.router, queuedAction |-> h.queuedAction]
      /\ h.queuedAction \in Action
  BY DEF HookOK
<1>2. hook' = [hook EXCEPT ![u] = [h EXCEPT !.router = r]]
  BY DEF Routed
<1> HIDE DEF h
<1>3. [h EXCEPT !.router = r] = [router |-> r, queuedAction |-> h.queuedAction]
  BY <1>1
<1>4. Hooked(u, r, h.queuedAction)
  BY <1>2, <1>3 DEF Hooked
<1>5. QED
  BY <1>1, <1>4, HookedStep DEF h

LEMMA HookUnchanged ==
  ASSUME HookOK, UNCHANGED hook
  PROVE  HookOK' /\ \A u : OthersKept(u)
  BY DEF HookOK, OthersKept

(* A perform, field by field.                                              *)
Fields(at, provider, named, target, served, phase, heard, result, calls) ==
  [at |-> at, provider |-> provider, named |-> named, target |-> target,
   served |-> served, phase |-> phase, heard |-> heard, result |-> result,
   calls |-> calls]

(* One perform goes on to a place, with these values in its fields, and    *)
(* the others stay where they are.                                         *)
Moved(p, at, provider, named, target, served, phase, heard, result) ==
  /\ perform'[p].at = at /\ perform'[p].provider = provider
  /\ perform'[p].named = named /\ perform'[p].target = target
  /\ perform'[p].served = served /\ perform'[p].phase = phase
  /\ perform'[p].heard = heard /\ perform'[p].result = result
  /\ \A q \in Performs \ {p} : perform'[q] = perform[q]

Went(p, at, result) ==
  Moved(p, at, perform[p].provider, perform[p].named, perform[p].target,
        perform[p].served, perform[p].phase, perform[p].heard, result)

Becomes(p, k) == perform' = [perform EXCEPT ![p] = k]

(* The values fit the fields, and a perform that has them is located.      *)
Fit(at, provider, named, target, served, phase, heard, result, calls) ==
  /\ at \in Place /\ provider \in Providers \cup {NoProvider}
  /\ named \in BOOLEAN /\ target \in Providers \cup {NoProvider}
  /\ served \in Providers \cup {NoProvider} /\ phase \in {"bind", "map"}
  /\ heard \in UseCases \cup {NoUseCase} /\ result \in Settled
  /\ calls \in 0..MaxCalls
  /\ at = "fetch-failed" => heard # NoUseCase
  /\ at \in WithProvider \ {"settle"} => target # NoProvider

LEMMA FieldsStep ==
  ASSUME PerformOK, NEW p \in Performs,
         NEW at, NEW provider, NEW named, NEW target, NEW served, NEW phase,
         NEW heard, NEW result, NEW calls,
         Fit(at, provider, named, target, served, phase, heard, result, calls),
         Becomes(p, Fields(at, provider, named, target, served, phase, heard, result, calls))
  PROVE  /\ PerformOK'
         /\ Moved(p, at, provider, named, target, served, phase, heard, result)
<1> DEFINE k == Fields(at, provider, named, target, served, phase, heard, result, calls)
<1>1. k \in PerformState
  BY DEF PerformState, Fields, Fit
<1>2. /\ k.at = at /\ k.provider = provider /\ k.named = named /\ k.target = target
      /\ k.served = served /\ k.phase = phase /\ k.heard = heard /\ k.result = result
  BY DEF Fields
<1> HIDE DEF k
<1>3. perform' = [perform EXCEPT ![p] = k]
  BY DEF k, Becomes
<1>4. perform'[p] = k /\ \A q \in Performs \ {p} : perform'[q] = perform[q]
  BY <1>3 DEF PerformOK
<1>5. perform' \in [Performs -> PerformState]
  BY <1>1, <1>3 DEF PerformOK
<1>6. Located(k)
  BY <1>2 DEF Located, Fit
<1>7. PerformOK'
  BY <1>4, <1>5, <1>6 DEF PerformOK, Located
<1>8. QED
  BY <1>2, <1>4, <1>7 DEF Moved

(* What is known of the perform that takes a step.                         *)
LEMMA KnownFields ==
  ASSUME PerformOK, NEW p \in Performs, NEW k, k = perform[p]
  PROVE  /\ k \in PerformState /\ Located(k)
         /\ k = Fields(k.at, k.provider, k.named, k.target, k.served, k.phase,
                       k.heard, k.result, k.calls)
         /\ Fit(k.at, k.provider, k.named, k.target, k.served, k.phase,
                k.heard, k.result, k.calls)
<1>1. k \in PerformState /\ Located(k)
  BY DEF PerformOK
<1>2. k = Fields(k.at, k.provider, k.named, k.target, k.served, k.phase,
                 k.heard, k.result, k.calls)
  BY <1>1 DEF PerformState, Fields
<1>3. Fit(k.at, k.provider, k.named, k.target, k.served, k.phase,
          k.heard, k.result, k.calls)
  BY <1>1 DEF PerformState, Located, Fit
<1>4. QED
  BY <1>1, <1>2, <1>3

(* Each update of a perform that an action makes.                          *)
(* It goes on ...                                                          *)
LEMMA GotoStep ==
  ASSUME PerformOK, NEW p \in Performs, NEW place \in Place,
         place = "fetch-failed" => perform[p].heard # NoUseCase,
         place \in WithProvider \ {"settle"} => perform[p].target # NoProvider,
         Goto(p, place)
  PROVE  PerformOK' /\ Went(p, place, perform[p].result)
<1> DEFINE k == perform[p]
           k1 == [k EXCEPT !.at = place]
<1>1. Becomes(p, k1)
  BY DEF Becomes, Goto
<1>2. k = Fields(k.at, k.provider, k.named, k.target, k.served, k.phase,
              k.heard, k.result, k.calls)
  BY KnownFields
<1>3. Fit(k.at, k.provider, k.named, k.target, k.served, k.phase,
              k.heard, k.result, k.calls)
  BY KnownFields
<1>4. /\ place = "fetch-failed" => k.heard # NoUseCase
      /\ place \in WithProvider \ {"settle"} => k.target # NoProvider
  BY <1>3 DEF Fit
<1> HIDE DEF k
<1>5. k1 = Fields(place, k.provider, k.named, k.target, k.served, k.phase,
               k.heard, k.result, k.calls)
  BY <1>2, SMTT(20) DEF Fields
<1> HIDE DEF k1
<1>6. Becomes(p, Fields(place, k.provider, k.named, k.target, k.served, k.phase,
                        k.heard, k.result, k.calls))
  BY <1>1, <1>5
<1>7. Fit(place, k.provider, k.named, k.target, k.served, k.phase,
              k.heard, k.result, k.calls)
  BY <1>3, <1>4 DEF Fit, WithProvider, Place, Settled
<1>8. PerformOK' /\ Moved(p, place, k.provider, k.named, k.target,
            k.served, k.phase, k.heard, k.result)
  BY <1>6, <1>7, FieldsStep
<1>9. QED
  BY <1>8 DEF k, Went

(* ... with a result ...                                                   *)
LEMMA GotoWithStep ==
  ASSUME PerformOK, NEW p \in Performs, NEW place \in Place, NEW result \in Settled,
         place = "fetch-failed" => perform[p].heard # NoUseCase,
         place \in WithProvider \ {"settle"} => perform[p].target # NoProvider,
         GotoWith(p, place, result)
  PROVE  PerformOK' /\ Went(p, place, result)
<1> DEFINE k == perform[p]
           k1 == [k EXCEPT !.at = place]
           k2 == [k1 EXCEPT !.result = result]
<1>1. Becomes(p, k2)
  BY DEF Becomes, GotoWith
<1>2. k = Fields(k.at, k.provider, k.named, k.target, k.served, k.phase,
              k.heard, k.result, k.calls)
  BY KnownFields
<1>3. Fit(k.at, k.provider, k.named, k.target, k.served, k.phase,
              k.heard, k.result, k.calls)
  BY KnownFields
<1>4. /\ place = "fetch-failed" => k.heard # NoUseCase
      /\ place \in WithProvider \ {"settle"} => k.target # NoProvider
  BY <1>3 DEF Fit
<1> HIDE DEF k
<1>5. k1 = Fields(place, k.provider, k.named, k.target, k.served, k.phase,
               k.heard, k.result, k.calls)
  BY <1>2, SMTT(20) DEF Fields
<1> HIDE DEF k1
<1>6. k2 = Fields(place, k.provider, k.named, k.target, k.served, k.phase,
               k.heard, result, k.calls)
  BY <1>5 DEF Fields
<1> HIDE DEF k2
<1>7. Becomes(p, Fields(place, k.provider, k.named, k.target, k.served, k.phase,
                        k.heard, result, k.calls))
  BY <1>1, <1>6
<1>8. Fit(place, k.provider, k.named, k.target, k.served, k.phase,
              k.heard, result, k.calls)
  BY <1>3, <1>4 DEF Fit, WithProvider, Place, Settled
<1>9. PerformOK' /\ Moved(p, place, k.provider, k.named, k.target,
            k.served, k.phase, k.heard, result)
  BY <1>7, <1>8, FieldsStep
<1>10. QED
  BY <1>9 DEF k, Went

Started(p, place, result, choice) ==
  perform' = [perform EXCEPT ![p] =
                [@ EXCEPT !.at = place, !.result = result, !.provider = choice,
                          !.named = (choice # NoProvider)]]

(* ... is started ...                                                      *)
LEMMA StartedStep ==
  ASSUME PerformOK, NEW p \in Performs, NEW place \in {"bind", "post-bind"},
         NEW result \in Settled, NEW choice \in Providers \cup {NoProvider},
         Started(p, place, result, choice)
  PROVE  PerformOK' /\ Moved(p, place, choice, (choice # NoProvider), perform[p].target,
               perform[p].served, perform[p].phase, perform[p].heard, result)
<1> DEFINE k == perform[p]
           flag == (choice # NoProvider)
           k1 == [k EXCEPT !.at = place]
           k2 == [k1 EXCEPT !.result = result]
           k3 == [k2 EXCEPT !.provider = choice]
           k4 == [k3 EXCEPT !.named = flag]
<1>1. Becomes(p, k4)
  BY DEF Becomes, Started
<1>2. k = Fields(k.at, k.provider, k.named, k.target, k.served, k.phase,
              k.heard, k.result, k.calls)
  BY KnownFields
<1>3. Fit(k.at, k.provider, k.named, k.target, k.served, k.phase,
              k.heard, k.result, k.calls)
  BY KnownFields
<1>4. flag \in BOOLEAN
  OBVIOUS
<1> HIDE DEF k, flag
<1>5. k1 = Fields(place, k.provider, k.named, k.target, k.served, k.phase,
               k.heard, k.result, k.calls)
  BY <1>2, SMTT(20) DEF Fields
<1> HIDE DEF k1
<1>6. k2 = Fields(place, k.provider, k.named, k.target, k.served, k.phase,
               k.heard, result, k.calls)
  BY <1>5 DEF Fields
<1> HIDE DEF k2
<1>7. k3 = Fields(place, choice, k.named, k.target, k.served, k.phase,
               k.heard, result, k.calls)
  BY <1>6 DEF Fields
<1> HIDE DEF k3
<1>8. k4 = Fields(place, choice, flag, k.target, k.served, k.phase,
               k.heard, result, k.calls)
  BY <1>7 DEF Fields
<1> HIDE DEF k4
<1>9. Becomes(p, Fields(place, choice, flag, k.target, k.served, k.phase,
                        k.heard, result, k.calls))
  BY <1>1, <1>8
<1>10. Fit(place, choice, flag, k.target, k.served, k.phase,
              k.heard, result, k.calls)
  BY <1>3, <1>4 DEF Fit, WithProvider, Place, Settled
<1>11. PerformOK' /\ Moved(p, place, choice, flag, k.target,
            k.served, k.phase, k.heard, result)
  BY <1>9, <1>10, FieldsStep
<1>12. QED
  BY <1>11 DEF k, flag

BoundTo(p, place, target) ==
  perform' = [perform EXCEPT ![p] =
                [@ EXCEPT !.at = place, !.target = target, !.phase = "bind"]]

(* ... is bound to a provider ...                                          *)
LEMMA BoundToStep ==
  ASSUME PerformOK, NEW p \in Performs, NEW place \in {"assign", "load"},
         NEW target \in Providers, BoundTo(p, place, target)
  PROVE  PerformOK' /\ Moved(p, place, perform[p].provider, perform[p].named, target,
               perform[p].served, "bind", perform[p].heard, perform[p].result)
<1> DEFINE k == perform[p]
           k1 == [k EXCEPT !.at = place]
           k2 == [k1 EXCEPT !.target = target]
           k3 == [k2 EXCEPT !.phase = "bind"]
<1>1. Becomes(p, k3)
  BY DEF Becomes, BoundTo
<1>2. k = Fields(k.at, k.provider, k.named, k.target, k.served, k.phase,
              k.heard, k.result, k.calls)
  BY KnownFields
<1>3. Fit(k.at, k.provider, k.named, k.target, k.served, k.phase,
              k.heard, k.result, k.calls)
  BY KnownFields
<1>4. /\ target # NoProvider
  BY <1>3 DEF Fit
<1> HIDE DEF k
<1>5. k1 = Fields(place, k.provider, k.named, k.target, k.served, k.phase,
               k.heard, k.result, k.calls)
  BY <1>2, SMTT(20) DEF Fields
<1> HIDE DEF k1
<1>6. k2 = Fields(place, k.provider, k.named, target, k.served, k.phase,
               k.heard, k.result, k.calls)
  BY <1>5 DEF Fields
<1> HIDE DEF k2
<1>7. k3 = Fields(place, k.provider, k.named, target, k.served, "bind",
               k.heard, k.result, k.calls)
  BY <1>6 DEF Fields
<1> HIDE DEF k3
<1>8. Becomes(p, Fields(place, k.provider, k.named, target, k.served, "bind",
                        k.heard, k.result, k.calls))
  BY <1>1, <1>7
<1>9. Fit(place, k.provider, k.named, target, k.served, "bind",
              k.heard, k.result, k.calls)
  BY <1>3, <1>4 DEF Fit, WithProvider, Place, Settled
<1>10. PerformOK' /\ Moved(p, place, k.provider, k.named, target,
            k.served, "bind", k.heard, k.result)
  BY <1>8, <1>9, FieldsStep
<1>11. QED
  BY <1>10 DEF k

ServedBy(p, provider) ==
  perform' = [perform EXCEPT ![p] =
                [@ EXCEPT !.at = "map", !.phase = "map", !.served = provider]]

(* ... starts its map ...                                                  *)
LEMMA ServedByStep ==
  ASSUME PerformOK, NEW p \in Performs, perform[p].target # NoProvider,
         NEW provider \in Providers \cup {NoProvider}, ServedBy(p, provider)
  PROVE  PerformOK' /\ Moved(p, "map", perform[p].provider, perform[p].named, perform[p].target,
               provider, "map", perform[p].heard, perform[p].result)
<1> DEFINE k == perform[p]
           k1 == [k EXCEPT !.at = "map"]
           k2 == [k1 EXCEPT !.phase = "map"]
           k3 == [k2 EXCEPT !.served = provider]
<1>1. Becomes(p, k3)
  BY DEF Becomes, ServedBy
<1>2. k = Fields(k.at, k.provider, k.named, k.target, k.served, k.phase,
              k.heard, k.result, k.calls)
  BY KnownFields
<1>3. Fit(k.at, k.provider, k.named, k.target, k.served, k.phase,
              k.heard, k.result, k.calls)
  BY KnownFields
<1>4. /\ k.target # NoProvider
  BY <1>3 DEF Fit
<1> HIDE DEF k
<1>5. k1 = Fields("map", k.provider, k.named, k.target, k.served, k.phase,
               k.heard, k.result, k.calls)
  BY <1>2, SMTT(20) DEF Fields
<1> HIDE DEF k1
<1>6. k2 = Fields("map", k.provider, k.named, k.target, k.served, "map",
               k.heard, k.result, k.calls)
  BY <1>5 DEF Fields
<1> HIDE DEF k2
<1>7. k3 = Fields("map", k.provider, k.named, k.target, provider, "map",
               k.heard, k.result, k.calls)
  BY <1>6 DEF Fields
<1> HIDE DEF k3
<1>8. Becomes(p, Fields("map", k.provider, k.named, k.target, provider, "map",
                        k.heard, k.result, k.calls))
  BY <1>1, <1>7
<1>9. Fit("map", k.provider, k.named, k.target, provider, "map",
              k.heard, k.result, k.calls)
  BY <1>3, <1>4 DEF Fit, WithProvider, Place, Settled
<1>10. PerformOK' /\ Moved(p, "map", k.provider, k.named, k.target,
            provider, "map", k.heard, k.result)
  BY <1>8, <1>9, FieldsStep
<1>11. QED
  BY <1>10 DEF k

Calls(p) ==
  perform' = [perform EXCEPT ![p] =
                [@ EXCEPT !.at = "pre-fetch", !.calls = perform[p].calls + 1]]

(* ... makes an HTTP call ...                                              *)
LEMMA CallsStep ==
  ASSUME PerformOK, NEW p \in Performs, perform[p].target # NoProvider, perform[p].calls < MaxCalls,
         Calls(p)
  PROVE  PerformOK' /\ Moved(p, "pre-fetch", perform[p].provider, perform[p].named, perform[p].target,
               perform[p].served, perform[p].phase, perform[p].heard, perform[p].result)
<1> DEFINE k == perform[p]
           count == perform[p].calls + 1
           k1 == [k EXCEPT !.at = "pre-fetch"]
           k2 == [k1 EXCEPT !.calls = count]
<1>1. Becomes(p, k2)
  BY DEF Becomes, Calls
<1>2. k = Fields(k.at, k.provider, k.named, k.target, k.served, k.phase,
              k.heard, k.result, k.calls)
  BY KnownFields
<1>3. Fit(k.at, k.provider, k.named, k.target, k.served, k.phase,
              k.heard, k.result, k.calls)
  BY KnownFields
<1>4. /\ k.target # NoProvider
      /\ count \in 0..MaxCalls
  BY <1>3 DEF Fit
<1> HIDE DEF k, count
<1>5. k1 = Fields("pre-fetch", k.provider, k.named, k.target, k.served, k.phase,
               k.heard, k.result, k.calls)
  BY <1>2, SMTT(20) DEF Fields
<1> HIDE DEF k1
<1>6. k2 = Fields("pre-fetch", k.provider, k.named, k.target, k.served, k.phase,
               k.heard, k.result, count)
  BY <1>5 DEF Fields
<1> HIDE DEF k2
<1>7. Becomes(p, Fields("pre-fetch", k.provider, k.named, k.target, k.served, k.phase,
                        k.heard, k.result, count))
  BY <1>1, <1>6
<1>8. Fit("pre-fetch", k.provider, k.named, k.target, k.served, k.phase,
              k.heard, k.result, count)
  BY <1>3, <1>4 DEF Fit, WithProvider, Place, Settled
<1>9. PerformOK' /\ Moved(p, "pre-fetch", k.provider, k.named, k.target,
            k.served, k.phase, k.heard, k.result)
  BY <1>7, <1>8, FieldsStep
<1>10. QED
  BY <1>9 DEF k, count

HeardBy(p, u) ==
  perform' = [perform EXCEPT ![p] = [@ EXCEPT !.at = "fetch-failed", !.heard = u]]

(* ... is listened to by a use case ...                                    *)
LEMMA HeardByStep ==
  ASSUME PerformOK, NEW p \in Performs, perform[p].target # NoProvider, NEW u \in UseCases,
         HeardBy(p, u)
  PROVE  PerformOK' /\ Moved(p, "fetch-failed", perform[p].provider, perform[p].named, perform[p].target,
               perform[p].served, perform[p].phase, u, perform[p].result)
<1> DEFINE k == perform[p]
           k1 == [k EXCEPT !.at = "fetch-failed"]
           k2 == [k1 EXCEPT !.heard = u]
<1>1. Becomes(p, k2)
  BY DEF Becomes, HeardBy
<1>2. k = Fields(k.at, k.provider, k.named, k.target, k.served, k.phase,
              k.heard, k.result, k.calls)
  BY KnownFields
<1>3. Fit(k.at, k.provider, k.named, k.target, k.served, k.phase,
              k.heard, k.result, k.calls)
  BY KnownFields
<1>4. /\ k.target # NoProvider
      /\ u # NoUseCase
  BY <1>3 DEF Fit
<1> HIDE DEF k
<1>5. k1 = Fields("fetch-failed", k.provider, k.named, k.target, k.served, k.phase,
               k.heard, k.result, k.calls)
  BY <1>2, SMTT(20) DEF Fields
<1> HIDE DEF k1
<1>6. k2 = Fields("fetch-failed", k.provider, k.named, k.target, k.served, k.phase,
               u, k.result, k.calls)
  BY <1>5 DEF Fields
<1> HIDE DEF k2
<1>7. Becomes(p, Fields("fetch-failed", k.provider, k.named, k.target, k.served, k.phase,
                        u, k.result, k.calls))
  BY <1>1, <1>6
<1>8. Fit("fetch-failed", k.provider, k.named, k.target, k.served, k.phase,
              u, k.result, k.calls)
  BY <1>3, <1>4 DEF Fit, WithProvider, Place, Settled
<1>9. PerformOK' /\ Moved(p, "fetch-failed", k.provider, k.named, k.target,
            k.served, k.phase, u, k.result)
  BY <1>7, <1>8, FieldsStep
<1>10. QED
  BY <1>9 DEF k

(* ... and heard out, or is sent to another provider.                      *)
LEMMA HeardOutStep ==
  ASSUME PerformOK, NEW p \in Performs, NEW place \in {"post-bind", "pre-fetch"}, NEW result \in Settled,
         perform[p].target # NoProvider,
         HeardOut(p, place, result)
  PROVE  PerformOK' /\ Moved(p, place, perform[p].provider, perform[p].named, perform[p].target,
               perform[p].served, perform[p].phase, NoUseCase, result)
<1> DEFINE k == perform[p]
           k1 == [k EXCEPT !.at = place]
           k2 == [k1 EXCEPT !.result = result]
           k3 == [k2 EXCEPT !.heard = NoUseCase]
<1>1. Becomes(p, k3)
  BY DEF Becomes, HeardOut
<1>2. k = Fields(k.at, k.provider, k.named, k.target, k.served, k.phase,
              k.heard, k.result, k.calls)
  BY KnownFields
<1>3. Fit(k.at, k.provider, k.named, k.target, k.served, k.phase,
              k.heard, k.result, k.calls)
  BY KnownFields
<1>4. /\ k.target # NoProvider
  BY <1>3 DEF Fit
<1> HIDE DEF k
<1>5. k1 = Fields(place, k.provider, k.named, k.target, k.served, k.phase,
               k.heard, k.result, k.calls)
  BY <1>2, SMTT(20) DEF Fields
<1> HIDE DEF k1
<1>6. k2 = Fields(place, k.provider, k.named, k.target, k.served, k.phase,
               k.heard, result, k.calls)
  BY <1>5 DEF Fields
<1> HIDE DEF k2
<1>7. k3 = Fields(place, k.provider, k.named, k.target, k.served, k.phase,
               NoUseCase, result, k.calls)
  BY <1>6 DEF Fields
<1> HIDE DEF k3
<1>8. Becomes(p, Fields(place, k.provider, k.named, k.target, k.served, k.phase,
                        NoUseCase, result, k.calls))
  BY <1>1, <1>7
<1>9. Fit(place, k.provider, k.named, k.target, k.served, k.phase,
              NoUseCase, result, k.calls)
  BY <1>3, <1>4 DEF Fit, WithProvider, Place, Settled
<1>10. PerformOK' /\ Moved(p, place, k.provider, k.named, k.target,
            k.served, k.phase, NoUseCase, result)
  BY <1>8, <1>9, FieldsStep
<1>11. QED
  BY <1>10 DEF k

SentTo(p, provider) ==
  perform' = [perform EXCEPT ![p] =
                [@ EXCEPT !.at = "bind", !.result = "none", !.provider = provider]]

(* It is sent to another provider.                                         *)
LEMMA SentToStep ==
  ASSUME PerformOK, NEW p \in Performs, NEW provider \in Providers \cup {NoProvider},
         SentTo(p, provider)
  PROVE  PerformOK' /\ Moved(p, "bind", provider, perform[p].named, perform[p].target,
               perform[p].served, perform[p].phase, perform[p].heard, "none")
<1> DEFINE k == perform[p]
           k1 == [k EXCEPT !.at = "bind"]
           k2 == [k1 EXCEPT !.result = "none"]
           k3 == [k2 EXCEPT !.provider = provider]
<1>1. Becomes(p, k3)
  BY DEF Becomes, SentTo
<1>2. k = Fields(k.at, k.provider, k.named, k.target, k.served, k.phase,
              k.heard, k.result, k.calls)
  BY KnownFields
<1>3. Fit(k.at, k.provider, k.named, k.target, k.served, k.phase,
              k.heard, k.result, k.calls)
  BY KnownFields
<1> HIDE DEF k
<1>4. k1 = Fields("bind", k.provider, k.named, k.target, k.served, k.phase,
               k.heard, k.result, k.calls)
  BY <1>2, SMTT(20) DEF Fields
<1> HIDE DEF k1
<1>5. k2 = Fields("bind", k.provider, k.named, k.target, k.served, k.phase,
               k.heard, "none", k.calls)
  BY <1>4 DEF Fields
<1> HIDE DEF k2
<1>6. k3 = Fields("bind", provider, k.named, k.target, k.served, k.phase,
               k.heard, "none", k.calls)
  BY <1>5 DEF Fields
<1> HIDE DEF k3
<1>7. Becomes(p, Fields("bind", provider, k.named, k.target, k.served, k.phase,
                        k.heard, "none", k.calls))
  BY <1>1, <1>6
<1>8. Fit("bind", provider, k.named, k.target, k.served, k.phase,
              k.heard, "none", k.calls)
  BY <1>3 DEF Fit, WithProvider, Place, Settled
<1>9. PerformOK' /\ Moved(p, "bind", provider, k.named, k.target,
            k.served, k.phase, k.heard, "none")
  BY <1>7, <1>8, FieldsStep
<1>10. QED
  BY <1>9 DEF k

-----------------------------------------------------------------------------
(* What each action does to the perform that takes it, to the hook of one  *)
(* use case and to the shared state; the types and the soundness remain.   *)

(* Router r became s and queued an abort, or a switch to the provider s    *)
(* has; to one further down when no restore was looked for.                *)
QueuedFor(r, s, action, down) ==
  /\ action \in Action /\ action # NoAction /\ s.current # NoProvider
  /\ s.allowFailover = r.allowFailover
  /\ \/ action = FullAbort /\ s.current = r.current
     \/ /\ action.kind = "switch-provider" /\ action.provider = s.current
        /\ r.allowFailover /\ MayCall(s)
        /\ down => \E i \in DOMAIN Priority :
                     Priority[i] = s.current /\ i > IndexOf(r.current)

(* Router r admitted its current provider.                                 *)
Admitted(r, s) ==
  /\ r.current # NoProvider /\ s.current = r.current
  /\ s.allowFailover = r.allowFailover /\ MayCall(s)

LEMMA QueuedKinds ==
  ASSUME NEW resolution,
         \/ resolution.kind = "abort"
         \/ resolution.kind = "switch-provider" /\ resolution.provider \in Providers
  PROVE  /\ Queued(resolution) \in Action /\ Queued(resolution) # NoAction
         /\ resolution.kind = "abort" => Queued(resolution) = FullAbort
         /\ resolution.kind = "switch-provider" =>
              /\ Queued(resolution).kind = "switch-provider"
              /\ Queued(resolution).provider = resolution.provider
  BY ActionType DEF Queued, FullAbort, NoAction

LEMMA BeforeEffect ==
  ASSUME NEW r, GoodRouter(r), NEW time \in Nat, NEW check \in BOOLEAN
  PROVE  LET out  == RouterBeforeExecution(r, time, check)
             kind == out.resolution.kind
         IN /\ GoodRouter(out.router)
            /\ kind \in {"continue", "backoff"} => Admitted(r, out.router)
            /\ kind \in {"abort", "switch-provider"} =>
                 QueuedFor(r, out.router, Queued(out.resolution), ~check)
            /\ r.current # NoProvider =>
                 kind \in {"continue", "backoff", "abort", "switch-provider"}
<1> DEFINE out == RouterBeforeExecution(r, time, check)
           s   == out.router
           res == out.resolution
<1>1. /\ GoodRouter(s) /\ s.allowFailover = r.allowFailover
      /\ r.current = NoProvider => s = r /\ res.kind = "throw"
      /\ r.current # NoProvider =>
           \/ /\ res.kind \in {"continue", "backoff", "abort"}
              /\ s.current = r.current
              /\ res.kind # "abort" => MayCall(s)
           \/ /\ res.kind = "switch-provider"
              /\ r.allowFailover
              /\ s.current \in Providers /\ MayCall(s)
              /\ res.provider = s.current
              /\ ~check => SwitchesFrom(r, r.current, s, res)
  BY BeforeAnswer
<1> HIDE DEF out
<1> HIDE DEF s, res
<1>2. res.kind \in {"continue", "backoff"} => Admitted(r, s)
  BY <1>1 DEF Admitted
<1>3. res.kind \in {"abort", "switch-provider"} => QueuedFor(r, s, Queued(res), ~check)
  BY <1>1, QueuedKinds DEF QueuedFor, SwitchesFrom
<1>4. QED
  BY <1>1, <1>2, <1>3 DEF out, s, res

LEMMA FailureEffect ==
  ASSUME NEW r, GoodRouter(r), NEW time \in Nat, NEW failure \in FailureKind
  PROVE  LET out  == RouterAfterFailure(r, failure, time)
             kind == out.resolution.kind
         IN /\ GoodRouter(out.router)
            /\ kind = "retry" => Admitted(r, out.router)
            /\ kind = "throw" =>
                 /\ out.router.current = r.current
                 /\ out.router.allowFailover = r.allowFailover
                 /\ r.current = NoProvider => out.router = r
                 /\ r.current # NoProvider => ~MayCall(r)
            /\ kind \in {"abort", "switch-provider"} =>
                 QueuedFor(r, out.router, Queued(out.resolution), TRUE)
            /\ kind \in {"retry", "throw", "abort", "switch-provider"}
<1> DEFINE out == RouterAfterFailure(r, failure, time)
           s   == out.router
           res == out.resolution
<1>1. /\ GoodRouter(s) /\ s.allowFailover = r.allowFailover
      /\ r.current = NoProvider => s = r /\ res.kind = "throw"
      /\ r.current # NoProvider =>
           \/ /\ res.kind \in {"retry", "abort", "throw"}
              /\ s.current = r.current
              /\ res.kind = "retry" => MayCall(s)
              /\ res.kind = "throw" => ~MayCall(r)
           \/ /\ res.kind = "switch-provider"
              /\ SwitchesFrom(r, r.current, s, res)
  BY FailureAnswer
<1> HIDE DEF out
<1> HIDE DEF s, res
<1>2. res.kind = "retry" => Admitted(r, s)
  BY <1>1 DEF Admitted
<1>3. res.kind \in {"abort", "switch-provider"} => QueuedFor(r, s, Queued(res), TRUE)
  BY <1>1, QueuedKinds DEF QueuedFor, SwitchesFrom
<1>4. QED
  BY <1>1, <1>2, <1>3 DEF out, s, res

LEMMA StartEffect ==
  ASSUME Typed, NEW p \in Performs, NEW choice \in Options, Start(p, choice)
  PROVE  LET u == UseCase(p)
             r == hook[u].router
             s == hook'[u].router
             k == perform[p]
         IN /\ Typed' /\ OthersKept(u) /\ UNCHANGED <<object, fetchUse>>
            /\ k.at = "idle" /\ Cardinality(Running) < Concurrency
            /\ choice \in Providers \cup {NoProvider}
            /\ choice # NoProvider => ~s.allowFailover
            /\ perform'[p].named <=> choice # NoProvider
            /\ \/ /\ Moved(p, "bind", choice, (choice # NoProvider), k.target,
                           k.served, k.phase, k.heard, "none")
                  /\ hook'[u].queuedAction = hook[u].queuedAction
                  /\ s.current = r.current
                  /\ r.current = NoProvider => s.policies = r.policies
                  /\ choice = NoProvider => MayCall(s)
               \/ /\ Moved(p, "post-bind", choice, (choice # NoProvider), k.target,
                           k.served, k.phase, k.heard, "placeholder")
                  /\ choice = NoProvider /\ r.current # NoProvider
                  /\ hook'[u].queuedAction # NoAction /\ s.current # NoProvider
                  /\ hook'[u].queuedAction # FullAbort => MayCall(s)
                  /\ hook'[u].queuedAction.kind = "switch-provider" =>
                       hook'[u].queuedAction.provider = s.current
<1> DEFINE u == UseCase(p)
           r == hook[u].router
           k == perform[p]
           allowed == SetAllowFailover(r, choice = NoProvider)
           answer  == RouterBeforeExecution(allowed, now, TRUE)
<1>1. HookOK /\ PerformOK /\ RestOK /\ u \in UseCases /\ GoodRouter(r) /\ now \in Nat
  BY TypedParts, UseCaseType DEF HookOK, RestOK
<1>2. /\ choice \in Providers \cup {NoProvider}
      /\ k.at = "idle" /\ Cardinality(Running) < Concurrency
      /\ UNCHANGED <<object, fetchUse, cache, now, wake>>
  BY DEF Start
<1>3. RestOK'
  BY <1>1, <1>2 DEF RestOK
<1>4. /\ GoodRouter(allowed) /\ allowed.current = r.current
      /\ allowed.policies = r.policies
      /\ choice # NoProvider => ~allowed.allowFailover
  BY <1>1, SetAllowFailoverGood DEF SetAllowFailover, GoodRouter, IsRouter
<1>5. /\ GoodRouter(answer.router)
      /\ answer.resolution.kind \in {"continue", "backoff"} => Admitted(allowed, answer.router)
      /\ answer.resolution.kind \in {"abort", "switch-provider"} =>
           QueuedFor(allowed, answer.router, Queued(answer.resolution), FALSE)
      /\ allowed.current # NoProvider =>
           answer.resolution.kind \in {"continue", "backoff", "abort", "switch-provider"}
  BY <1>1, <1>4, BeforeEffect
<1>6. \/ /\ choice # NoProvider \/ allowed.current = NoProvider
         /\ Routed(u, allowed)
         /\ Started(p, "bind", "none", choice)
      \/ /\ choice = NoProvider /\ allowed.current # NoProvider
         /\ answer.resolution.kind \in {"continue", "backoff"}
         /\ Routed(u, answer.router)
         /\ Started(p, "bind", "none", choice)
      \/ /\ choice = NoProvider /\ allowed.current # NoProvider
         /\ answer.resolution.kind \notin {"continue", "backoff"}
         /\ Hooked(u, answer.router, Queued(answer.resolution))
         /\ Started(p, "post-bind", "placeholder", choice)
  BY DEF Start, Started, Routed, Hooked
<1> HIDE DEF answer, allowed
<1>7. CASE /\ choice # NoProvider \/ allowed.current = NoProvider
           /\ Routed(u, allowed)
           /\ Started(p, "bind", "none", choice)
  <2>1. /\ HookOK' /\ OthersKept(u) /\ hook'[u].router = allowed
        /\ hook'[u].queuedAction = hook[u].queuedAction
    BY <1>1, <1>4, <1>7, RoutedStep
  <2>2. PerformOK' /\ Moved(p, "bind", choice, (choice # NoProvider), k.target,
                            k.served, k.phase, k.heard, "none")
    BY <1>1, <1>2, <1>7, StartedStep DEF Settled
  <2>. perform'[p].named <=> choice # NoProvider
    BY <2>2 DEF Moved
  <2>3. choice = NoProvider => MayCall(allowed)
    BY <1>7 DEF MayCall
  <2> HIDE DEF u
  <2>4. QED
    BY <1>2, <1>3, <1>4, <2>1, <2>2, <2>3, TypedParts1 DEF u
<1>8. CASE /\ choice = NoProvider /\ allowed.current # NoProvider
           /\ answer.resolution.kind \in {"continue", "backoff"}
           /\ Routed(u, answer.router)
           /\ Started(p, "bind", "none", choice)
  <2> DEFINE s == answer.router
  <2>1. GoodRouter(s) /\ Admitted(allowed, s)
    BY <1>5, <1>8
  <2>2. Routed(u, s)
    BY <1>8
  <2> HIDE DEF s
  <2>3. /\ HookOK' /\ OthersKept(u) /\ hook'[u].router = s
        /\ hook'[u].queuedAction = hook[u].queuedAction
    BY <1>1, <2>1, <2>2, RoutedStep
  <2>4. PerformOK' /\ Moved(p, "bind", choice, (choice # NoProvider), k.target,
                            k.served, k.phase, k.heard, "none")
    BY <1>1, <1>2, <1>8, StartedStep DEF Settled
  <2>. perform'[p].named <=> choice # NoProvider
    BY <2>4 DEF Moved
  <2> HIDE DEF u
  <2>5. QED
    BY <1>2, <1>3, <1>4, <1>8, <2>1, <2>3, <2>4, TypedParts1 DEF u, Admitted
<1>9. CASE /\ choice = NoProvider /\ allowed.current # NoProvider
           /\ answer.resolution.kind \notin {"continue", "backoff"}
           /\ Hooked(u, answer.router, Queued(answer.resolution))
           /\ Started(p, "post-bind", "placeholder", choice)
  <2> DEFINE s == answer.router
             a == Queued(answer.resolution)
  <2>1. GoodRouter(s) /\ QueuedFor(allowed, s, a, FALSE)
    BY <1>5, <1>9
  <2>2. Hooked(u, s, a)
    BY <1>9
  <2> HIDE DEF s, a
  <2>3. /\ a \in Action /\ a # NoAction /\ s.current # NoProvider
        /\ a # FullAbort => MayCall(s)
        /\ a.kind = "switch-provider" => a.provider = s.current
    BY <2>1 DEF QueuedFor, FullAbort
  <2>4. /\ HookOK' /\ OthersKept(u) /\ hook'[u].router = s
        /\ hook'[u].queuedAction = a
    BY <1>1, <2>1, <2>2, <2>3, HookedStep
  <2>5. PerformOK' /\ Moved(p, "post-bind", choice, (choice # NoProvider), k.target,
                            k.served, k.phase, k.heard, "placeholder")
    BY <1>1, <1>2, <1>9, StartedStep DEF Settled
  <2>. perform'[p].named <=> choice # NoProvider
    BY <2>5 DEF Moved
  <2> HIDE DEF u
  <2>6. QED
    BY <1>2, <1>3, <1>4, <1>9, <2>1, <2>3, <2>4, <2>5, TypedParts1 DEF u
<1>10. QED
  BY <1>6, <1>7, <1>8, <1>9

(* A provider that is current already, or the first one, may be called     *)
(* after it is bound if it may be called before.                           *)
LEMMA BindEffect ==
  ASSUME Typed, NEW p \in Performs, Bind(p)
  PROVE  LET u == UseCase(p)
             o == ObjectOf[p]
             r == hook[u].router
             s == hook'[u].router
             k == perform[p]
         IN /\ Typed' /\ OthersKept(u) /\ UNCHANGED fetchUse
            /\ k.at = "bind"
            /\ \/ /\ Went(p, "post-bind", "sdk-error")
                  /\ k.provider = NoProvider /\ r.current = NoProvider
                  /\ UNCHANGED <<hook, object>>
               \/ LET target == perform'[p].target
                  IN
                    /\ perform'[p].at \in {"assign", "load"} /\ target \in Providers
                    /\ Moved(p, perform'[p].at, k.provider, k.named, target,
                             k.served, "bind", k.heard, k.result)
                    /\ target = IF k.provider # NoProvider THEN k.provider
                                ELSE IF r.current # NoProvider THEN r.current
                                ELSE DefaultProvider
                    /\ hook'[u].queuedAction = hook[u].queuedAction
                    /\ s.current = target /\ s.allowFailover = r.allowFailover
                    /\ target = r.current => s.policies[target] = r.policies[target]
                    /\ (\A d \in DOMAIN r.policies : r.policies[d].state = "closed") =>
                         s.policies[target].state = "closed"
                    /\ object'[o].provider = target
                    /\ object'[o].bound = object[o].bound
<1> DEFINE u == UseCase(p)
           o == ObjectOf[p]
           r == hook[u].router
           k == perform[p]
           target == IF k.provider # NoProvider THEN k.provider
                     ELSE IF r.current # NoProvider THEN r.current
                     ELSE DefaultProvider
           place == IF target \in cache THEN "assign" ELSE "load"
           t == SetCurrentProvider(r, target)
<1>1. HookOK /\ PerformOK /\ RestOK /\ u \in UseCases /\ GoodRouter(r) /\ o \in UseCaseObjects
  BY TypedParts, UseCaseType DEF HookOK
<1>2. k.at = "bind" /\ UNCHANGED <<fetchUse, cache, now, wake>>
  BY DEF Bind
<1>3. \/ /\ target = NoProvider /\ Return(p, "sdk-error")
         /\ UNCHANGED <<hook, object>>
      \/ /\ target # NoProvider
         /\ Routed(u, t)
         /\ object' = [object EXCEPT ![o].provider = target]
         /\ BoundTo(p, place, target)
  BY DEF Bind, Routed, BoundTo
<1>4. target \in Providers \cup {NoProvider}
  BY <1>1, KnownFields DEF Fit, GoodRouter, IsRouter
<1>5. CASE /\ target = NoProvider /\ Return(p, "sdk-error")
           /\ UNCHANGED <<hook, object>>
  <2>1. PerformOK' /\ Went(p, "post-bind", "sdk-error")
    BY <1>1, <1>5, GotoWithStep DEF Return, Place, WithProvider, Settled
  <2>2. HookOK' /\ OthersKept(u) /\ RestOK'
    BY <1>1, <1>2, <1>5, HookUnchanged DEF RestOK
  <2>3. k.provider = NoProvider /\ r.current = NoProvider
    BY <1>5
  <2> HIDE DEF target
  <2>4. QED
    BY <1>2, <1>5, <2>1, <2>2, <2>3, TypedParts1
<1>6. CASE /\ target # NoProvider
           /\ Routed(u, t)
           /\ object' = [object EXCEPT ![o].provider = target]
           /\ BoundTo(p, place, target)
  <2>1. place \in {"assign", "load"} /\ target \in Providers
    BY <1>4, <1>6
  <2>2. target = IF k.provider # NoProvider THEN k.provider
                 ELSE IF r.current # NoProvider THEN r.current
                 ELSE DefaultProvider
    OBVIOUS
  <2> HIDE DEF target, place
  <2>3. /\ GoodRouter(t) /\ t.current = target
        /\ t.allowFailover = r.allowFailover
        /\ DOMAIN t.policies = (DOMAIN r.policies) \cup {target}
        /\ \A q \in DOMAIN r.policies : t.policies[q] = r.policies[q]
    BY <1>1, <2>1, SetCurrentProviderGood
  <2>4. target \notin DOMAIN r.policies => t.policies[target].state = "closed"
    BY DEF SetCurrentProvider, NewPolicy
  <2>5. target = r.current => target \in DOMAIN r.policies
    BY <1>1, <1>6 DEF GoodRouter, SoundRouter
  <2> HIDE DEF t
  <2>6. /\ HookOK' /\ OthersKept(u) /\ hook'[u].router = t
        /\ hook'[u].queuedAction = hook[u].queuedAction
    BY <1>1, <1>6, <2>3, RoutedStep
  <2>7. PerformOK' /\ Moved(p, place, k.provider, k.named, target,
                            k.served, "bind", k.heard, k.result)
    BY <1>1, <1>6, <2>1, BoundToStep
  <2>8. /\ object' \in [UseCaseObjects -> ObjectState]
        /\ object'[o].provider = target /\ object'[o].bound = object[o].bound
    BY <1>1, <1>6, <2>1 DEF RestOK, ObjectState
  <2>9. RestOK'
    BY <1>1, <1>2, <2>8 DEF RestOK
  <2>10. /\ target = r.current => t.policies[target] = r.policies[target]
         /\ (\A d \in DOMAIN r.policies : r.policies[d].state = "closed") =>
              t.policies[target].state = "closed"
    BY <2>3, <2>4, <2>5
  <2>11. perform'[p].target = target /\ perform'[p].at = place
    BY <2>7 DEF Moved
  <2>12. LET s == hook'[u].router
         IN /\ s.current = target /\ s.allowFailover = r.allowFailover
            /\ target = r.current => s.policies[target] = r.policies[target]
            /\ (\A d \in DOMAIN r.policies : r.policies[d].state = "closed") =>
                 s.policies[target].state = "closed"
    BY <2>3, <2>6, <2>10
  <2>13. Typed'
    BY <2>3, <2>6, <2>7, <2>9, TypedParts1
  <2>14. QED
    BY <1>2, <2>1, <2>2, <2>6, <2>7, <2>8, <2>11, <2>12, <2>13
<1> HIDE DEF target, place, t
<1>7. QED
  BY <1>3, <1>5, <1>6

LEMMA LoadEffect ==
  ASSUME Typed, NEW p \in Performs, Load(p)
  PROVE  /\ Typed' /\ UNCHANGED <<hook, object>>
         /\ perform[p].at = "load"
         /\ \/ Went(p, "assign", perform[p].result) /\ fetchUse' = NoUseCase
            \/ Went(p, "pre-fetch", perform[p].result) /\ fetchUse' = fetchUse
            \/ /\ fetchUse' = fetchUse
               /\ \E result \in {"error", "sdk-error"} : Went(p, "post-bind", result)
<1>1. HookOK /\ PerformOK /\ RestOK /\ perform[p] \in PerformState /\ Located(perform[p])
  BY TypedParts, KnownFields
<1>2. perform[p].at = "load" /\ UNCHANGED <<hook, object, now, wake>>
  BY DEF Load
<1>3. perform[p].target # NoProvider /\ perform[p].target \in Providers
  BY <1>1, <1>2 DEF Located, WithProvider, PerformState
<1>4. HookOK'
  BY <1>1, <1>2, HookUnchanged
<1>5. CASE BoundProvider(p)
  <2>1. PerformOK' /\ Went(p, "assign", perform[p].result) /\ fetchUse' = NoUseCase
    BY <1>1, <1>3, <1>5, GotoStep DEF BoundProvider, Place
  <2>2. RestOK'
    BY <1>1, <1>2, <1>3, <1>5 DEF RestOK, BoundProvider
  <2>3. QED
    BY <1>2, <1>4, <2>1, <2>2, TypedParts1
<1>6. CASE Goto(p, "pre-fetch") /\ UNCHANGED <<fetchUse, cache>>
  <2>1. PerformOK' /\ Went(p, "pre-fetch", perform[p].result)
    BY <1>1, <1>3, <1>6, GotoStep DEF Place
  <2>2. RestOK'
    BY <1>1, <1>2, <1>6 DEF RestOK
  <2>3. QED
    BY <1>2, <1>4, <1>6, <2>1, <2>2, TypedParts1
<1>7. CASE /\ \E result \in {"error", "sdk-error"} : Return(p, result)
           /\ UNCHANGED <<fetchUse, cache>>
  <2>1. PICK result \in {"error", "sdk-error"} : Return(p, result)
    BY <1>7
  <2>2. PerformOK' /\ Went(p, "post-bind", result)
    BY <1>1, <2>1, GotoWithStep DEF Return, Place, Settled, WithProvider
  <2>3. RestOK'
    BY <1>1, <1>2, <1>7 DEF RestOK
  <2>4. QED
    BY <1>2, <1>4, <1>7, <2>2, <2>3, TypedParts1
<1>8. QED
  BY <1>5, <1>6, <1>7 DEF Load

LEMMA AssignEffect ==
  ASSUME Typed, NEW p \in Performs, Assign(p)
  PROVE  /\ Typed' /\ UNCHANGED <<hook, fetchUse>>
         /\ perform[p].at = "assign"
         /\ Went(p, "perform", perform[p].result)
         /\ object'[ObjectOf[p]].bound = perform[p].target
         /\ object'[ObjectOf[p]].provider = object[ObjectOf[p]].provider
<1>1. HookOK /\ PerformOK /\ RestOK /\ perform[p] \in PerformState /\ Located(perform[p])
  BY TypedParts, KnownFields
<1>2. perform[p].at = "assign" /\ UNCHANGED <<hook, fetchUse, cache, now, wake>>
  BY DEF Assign
<1>3. perform[p].target # NoProvider /\ perform[p].target \in Providers
  BY <1>1, <1>2 DEF Located, WithProvider, PerformState
<1>4. PerformOK' /\ Went(p, "perform", perform[p].result)
  BY <1>1, <1>3, GotoStep DEF Assign, Place
<1> DEFINE target == perform[p].target
<1>5. object' = [object EXCEPT ![ObjectOf[p]].bound = target]
  BY DEF Assign
<1>6. target \in Providers
  BY <1>3
<1> HIDE DEF target
<1>7. /\ object' \in [UseCaseObjects -> ObjectState]
      /\ object'[ObjectOf[p]].bound = target
      /\ object'[ObjectOf[p]].provider = object[ObjectOf[p]].provider
  <2> DEFINE o    == ObjectOf[p]
             ob   == object[o]
             next == [ob EXCEPT !.bound = target]
  <2>1. /\ object \in [UseCaseObjects -> ObjectState]
        /\ o \in UseCaseObjects /\ ob \in ObjectState
    BY <1>1 DEF RestOK
  <2>2. object' = [object EXCEPT ![o] = next]
    BY <1>5
  <2> HIDE DEF ob
  <2>3. /\ next \in ObjectState
        /\ next.bound = target /\ next.provider = ob.provider
    BY <1>6, <2>1 DEF ObjectState
  <2> HIDE DEF o, next
  <2>4. object' \in [UseCaseObjects -> ObjectState] /\ object'[o] = next
    BY <2>1, <2>2, <2>3
  <2>5. QED
    BY <2>3, <2>4 DEF o, ob
<1>8. HookOK' /\ RestOK'
  BY <1>1, <1>2, <1>7, HookUnchanged DEF RestOK
<1>9. QED
  BY <1>2, <1>4, <1>7, <1>8, TypedParts1 DEF target

LEMMA PerformBoundEffect ==
  ASSUME Typed, NEW p \in Performs, PerformBound(p)
  PROVE  LET k == perform[p]
         IN /\ Typed' /\ UNCHANGED <<hook, object>>
            /\ k.at = "perform" /\ fetchUse' = UseCase(p)
            /\ Moved(p, "map", k.provider, k.named, k.target,
                     object[ObjectOf[p]].bound, "map", k.heard, k.result)
<1>1. HookOK /\ PerformOK /\ RestOK /\ perform[p] \in PerformState /\ Located(perform[p])
  BY TypedParts, KnownFields
<1>2. /\ perform[p].at = "perform" /\ fetchUse' = UseCase(p)
      /\ UNCHANGED <<hook, object, cache, now, wake>>
      /\ ServedBy(p, object[ObjectOf[p]].bound)
  BY DEF PerformBound, ServedBy
<1>3. perform[p].target # NoProvider
  BY <1>1, <1>2 DEF Located, WithProvider
<1> DEFINE bound == object[ObjectOf[p]].bound
<1>4. bound \in Providers \cup {NoProvider}
  BY <1>1 DEF RestOK, ObjectState
<1>5. ServedBy(p, bound)
  BY <1>2
<1> HIDE DEF bound
<1>6. PerformOK' /\ Moved(p, "map", perform[p].provider, perform[p].named,
                          perform[p].target, bound, "map", perform[p].heard,
                          perform[p].result)
  BY <1>1, <1>3, <1>4, <1>5, ServedByStep
<1>7. HookOK' /\ RestOK'
  BY <1>1, <1>2, HookUnchanged, UseCaseType DEF RestOK
<1>8. QED
  BY <1>2, <1>6, <1>7, TypedParts1 DEF bound

LEMMA MapEndsEffect ==
  ASSUME Typed, NEW p \in Performs, NEW result \in {"ok", "error", "sdk-error"},
         MapEnds(p, result)
  PROVE  /\ Typed' /\ UNCHANGED <<hook, object, fetchUse>>
         /\ perform[p].at = "map" /\ Went(p, "post-bind", result)
<1>1. HookOK /\ PerformOK /\ RestOK
  BY TypedParts
<1>2. /\ perform[p].at = "map"
      /\ UNCHANGED <<hook, object, fetchUse, cache, now, wake>>
  BY DEF MapEnds
<1>3. PerformOK' /\ Went(p, "post-bind", result)
  BY <1>1, GotoWithStep DEF MapEnds, Return, Place, Settled, WithProvider
<1>4. HookOK' /\ RestOK'
  BY <1>1, <1>2, HookUnchanged DEF RestOK
<1>5. QED
  BY <1>2, <1>3, <1>4, TypedParts1

LEMMA MapCallsEffect ==
  ASSUME Typed, NEW p \in Performs, MapCalls(p)
  PROVE  /\ Typed' /\ UNCHANGED <<hook, object, fetchUse>>
         /\ perform[p].at = "map" /\ Went(p, "pre-fetch", perform[p].result)
<1>1. HookOK /\ PerformOK /\ RestOK /\ Located(perform[p])
  BY TypedParts, KnownFields
<1>2. /\ perform[p].at = "map" /\ perform[p].calls < MaxCalls /\ Calls(p)
      /\ UNCHANGED <<hook, object, fetchUse, cache, now, wake>>
  BY DEF MapCalls, Calls
<1>3. perform[p].target # NoProvider
  BY <1>1, <1>2 DEF Located, WithProvider
<1>4. PerformOK' /\ Went(p, "pre-fetch", perform[p].result)
  BY <1>1, <1>2, <1>3, CallsStep DEF Went
<1>5. HookOK' /\ RestOK'
  BY <1>1, <1>2, HookUnchanged DEF RestOK
<1>6. QED
  BY <1>2, <1>4, <1>5, TypedParts1

LEMMA WakeEffect ==
  ASSUME Typed, NEW p \in Performs, Wake(p)
  PROVE  /\ Typed' /\ UNCHANGED <<hook, object, fetchUse>>
         /\ perform[p].at = "sleep" /\ Went(p, "fetch", perform[p].result)
<1>1. HookOK /\ PerformOK /\ RestOK /\ Located(perform[p])
  BY TypedParts, KnownFields
<1>2. /\ perform[p].at = "sleep"
      /\ UNCHANGED <<hook, object, fetchUse, cache, now, wake>>
  BY DEF Wake
<1>3. perform[p].target # NoProvider
  BY <1>1, <1>2 DEF Located, WithProvider
<1>4. PerformOK' /\ Went(p, "fetch", perform[p].result)
  BY <1>1, <1>3, GotoStep DEF Wake, Place
<1>5. HookOK' /\ RestOK'
  BY <1>1, <1>2, HookUnchanged DEF RestOK
<1>6. QED
  BY <1>2, <1>4, <1>5, TypedParts1

LEMMA FetchEffect ==
  ASSUME Typed, NEW p \in Performs, NEW result \in {"ok", "http", "network"},
         Fetch(p, result)
  PROVE  /\ Typed' /\ UNCHANGED <<hook, object, fetchUse>>
         /\ perform[p].at = "fetch" /\ Went(p, "post-fetch", result)
<1>1. HookOK /\ PerformOK /\ RestOK /\ Located(perform[p])
  BY TypedParts, KnownFields
<1>2. /\ perform[p].at = "fetch"
      /\ UNCHANGED <<hook, object, fetchUse, cache, now, wake>>
  BY DEF Fetch
<1>3. perform[p].target # NoProvider
  BY <1>1, <1>2 DEF Located, WithProvider
<1>4. PerformOK' /\ Went(p, "post-fetch", result)
  BY <1>1, <1>3, GotoWithStep DEF Fetch, Place, Settled
<1>5. HookOK' /\ RestOK'
  BY <1>1, <1>2, HookUnchanged DEF RestOK
<1>6. QED
  BY <1>2, <1>4, <1>5, TypedParts1

LEMMA PreFetchEffect ==
  ASSUME Typed, NEW p \in Performs, PreFetch(p)
  PROVE  LET f == fetchUse
             r == hook[f].router
             s == hook'[f].router
             k == perform[p]
         IN /\ Typed' /\ UNCHANGED <<object, fetchUse>>
            /\ k.at = "pre-fetch"
            /\ \/ /\ f = NoUseCase /\ UNCHANGED hook
                  /\ Went(p, "fetch", k.result)
               \/ /\ f \in UseCases /\ OthersKept(f)
                  /\ hook'[f].queuedAction = hook[f].queuedAction
                  /\ Admitted(r, s)
                  /\ \/ Went(p, "fetch", k.result)
                     \/ Went(p, "sleep", k.result)
               \/ /\ f \in UseCases /\ OthersKept(f)
                  /\ QueuedFor(r, s, hook'[f].queuedAction, TRUE)
                  /\ Went(p, "post-fetch", "placeholder")
<1> DEFINE f == fetchUse
           r == hook[f].router
           k == perform[p]
           answer == RouterBeforeExecution(r, now, FALSE)
           kind == answer.resolution.kind
           action == Queued(answer.resolution)
<1>1. /\ HookOK /\ PerformOK /\ RestOK /\ Located(k)
      /\ now \in Nat /\ f \in UseCases \cup {NoUseCase}
  BY TypedParts, KnownFields DEF RestOK
<1>2. k.at = "pre-fetch" /\ UNCHANGED <<object, fetchUse, cache, now>>
  BY DEF PreFetch
<1>3. k.target # NoProvider
  BY <1>1, <1>2 DEF Located, WithProvider
<1>4. RestOK'
  BY <1>1, <1>2 DEF RestOK
<1>5. \/ f = NoUseCase /\ Goto(p, "fetch") /\ UNCHANGED hook
      \/ /\ f # NoUseCase /\ kind \in {"continue", "backoff"}
         /\ Routed(f, answer.router)
         /\ Goto(p, "fetch") \/ Goto(p, "sleep")
      \/ /\ f # NoUseCase /\ kind \in {"abort", "switch-provider"}
         /\ Hooked(f, answer.router, action)
         /\ GotoWith(p, "post-fetch", "placeholder")
  BY DEF PreFetch, Routed, Hooked
<1>6. f # NoUseCase => GoodRouter(r) /\ f \in UseCases
  BY <1>1 DEF HookOK
<1>7. f # NoUseCase =>
        /\ GoodRouter(answer.router)
        /\ kind \in {"continue", "backoff"} => Admitted(r, answer.router)
        /\ kind \in {"abort", "switch-provider"} =>
             QueuedFor(r, answer.router, action, TRUE)
  BY <1>1, <1>6, BeforeEffect
<1>8. CASE f = NoUseCase /\ Goto(p, "fetch") /\ UNCHANGED hook
  <2>1. PerformOK' /\ Went(p, "fetch", k.result)
    BY <1>1, <1>3, <1>8, GotoStep DEF Place
  <2>2. QED
    BY <1>1, <1>2, <1>4, <1>8, <2>1, HookUnchanged, TypedParts1
<1>9. CASE /\ f # NoUseCase /\ kind \in {"continue", "backoff"}
           /\ Routed(f, answer.router)
           /\ Goto(p, "fetch") \/ Goto(p, "sleep")
  <2> DEFINE s == answer.router
  <2>1. GoodRouter(s) /\ Admitted(r, s) /\ Routed(f, s)
    BY <1>7, <1>9
  <2> HIDE DEF s
  <2>2. /\ HookOK' /\ OthersKept(f) /\ hook'[f].router = s
        /\ hook'[f].queuedAction = hook[f].queuedAction
    BY <1>1, <1>6, <1>9, <2>1, RoutedStep
  <2>3. PerformOK' /\ (Went(p, "fetch", k.result) \/ Went(p, "sleep", k.result))
    BY <1>1, <1>3, <1>9, GotoStep DEF Place
  <2> HIDE DEF kind, answer
  <2>4. QED
    BY <1>2, <1>4, <1>6, <1>9, <2>1, <2>2, <2>3, TypedParts1
<1>10. CASE /\ f # NoUseCase /\ kind \in {"abort", "switch-provider"}
            /\ Hooked(f, answer.router, action)
            /\ GotoWith(p, "post-fetch", "placeholder")
  <2> DEFINE s == answer.router
  <2>1. GoodRouter(s) /\ QueuedFor(r, s, action, TRUE) /\ Hooked(f, s, action)
    BY <1>7, <1>10
  <2>2. GotoWith(p, "post-fetch", "placeholder")
    BY <1>10
  <2> HIDE DEF s, action, kind, answer
  <2>3. action \in Action
    BY <2>1 DEF QueuedFor
  <2>4. /\ HookOK' /\ OthersKept(f) /\ hook'[f].router = s
        /\ hook'[f].queuedAction = action
    BY <1>1, <1>6, <1>10, <2>1, <2>3, HookedStep
  <2>5. PerformOK' /\ Went(p, "post-fetch", "placeholder")
    BY <1>1, <1>3, <2>2, GotoWithStep DEF Place, Settled
  <2>6. QED
    BY <1>2, <1>4, <1>6, <1>10, <2>1, <2>4, <2>5, TypedParts1
<1> HIDE DEF action, kind, answer
<1>11. QED
  BY <1>5, <1>8, <1>9, <1>10

(* A response that no use case listens to.                                 *)
LEMMA FetchReturnsEffect ==
  ASSUME PerformOK, RestOK, NEW p \in Performs,
         perform[p].at = "post-fetch",
         FetchReturns(p, perform[p].result),
         UNCHANGED <<object, now>>
  PROVE  LET k == perform[p]
         IN /\ PerformOK' /\ RestOK'
            /\ \/ /\ k.phase = "map" /\ k.result \in {"ok", "http"}
                  /\ fetchUse' = fetchUse
                  /\ Went(p, "map", k.result) \/ Went(p, "unhandled", k.result)
               \/ /\ k.phase = "bind" /\ k.result = "ok"
                  /\ fetchUse' = NoUseCase /\ Went(p, "assign", k.result)
               \/ /\ fetchUse' = fetchUse
                  /\ \E result \in {"sdk-error", "error", k.result} :
                       /\ Went(p, "post-bind", result)
                       /\ result # "ok"
                       /\ k.phase = "map" => result = k.result
<1> DEFINE k == perform[p]
           result == k.result
<1>1. k.target # NoProvider /\ k.target \in Providers /\ result \in Settled
      /\ k.phase \in {"bind", "map"}
  BY KnownFields DEF Located, WithProvider, PerformState
<1>2. CASE k.phase = "map" /\ result \in {"ok", "http"}
  <2>1. /\ Goto(p, "map") \/ GotoWith(p, "unhandled", result)
        /\ UNCHANGED <<fetchUse, cache>>
    BY <1>2 DEF FetchReturns
  <2>2. PerformOK' /\ (Went(p, "map", result) \/ Went(p, "unhandled", result))
    <3>1. CASE Goto(p, "map")
      BY <1>1, <3>1, GotoStep DEF Place
    <3>2. CASE GotoWith(p, "unhandled", result)
      BY <1>1, <3>2, GotoWithStep DEF Place
    <3>3. QED
      BY <2>1, <3>1, <3>2
  <2>3. RestOK'
    BY <2>1 DEF RestOK
  <2>4. QED
    BY <1>2, <2>1, <2>2, <2>3
<1>3. CASE k.phase = "bind" /\ result = "ok"
  <2>1. \/ BoundProvider(p)
        \/ Return(p, "sdk-error") /\ UNCHANGED <<fetchUse, cache>>
    BY <1>3 DEF FetchReturns
  <2>2. CASE BoundProvider(p)
    <3>1. PerformOK' /\ Went(p, "assign", result) /\ fetchUse' = NoUseCase
      BY <1>1, <2>2, GotoStep DEF BoundProvider, Place
    <3>2. RestOK'
      BY <1>1, <2>2 DEF RestOK, BoundProvider
    <3>3. QED
      BY <1>3, <3>1, <3>2
  <2>3. CASE Return(p, "sdk-error") /\ UNCHANGED <<fetchUse, cache>>
    <3>1. PerformOK' /\ Went(p, "post-bind", "sdk-error")
      BY <2>3, GotoWithStep DEF Return, Place, Settled, WithProvider
    <3>2. RestOK'
      BY <2>3 DEF RestOK
    <3>3. QED
      BY <1>3, <2>3, <3>1, <3>2
  <2>4. QED
    BY <2>1, <2>2, <2>3
<1>4. CASE k.phase = "bind" /\ result = "http"
  <2>1. Return(p, "sdk-error") /\ UNCHANGED <<fetchUse, cache>>
    BY <1>4 DEF FetchReturns
  <2>2. PerformOK' /\ Went(p, "post-bind", "sdk-error")
    BY <2>1, GotoWithStep DEF Return, Place, Settled, WithProvider
  <2>3. RestOK'
    BY <2>1 DEF RestOK
  <2>4. QED
    BY <1>4, <2>1, <2>2, <2>3
<1>5. CASE result \notin {"ok", "http"}
  <2>1. /\ \E rejection \in Rejections(p, result) : Return(p, rejection)
        /\ UNCHANGED <<fetchUse, cache>>
    BY <1>5 DEF FetchReturns
  <2>2. PICK rejection \in Rejections(p, result) : Return(p, rejection)
    BY <2>1
  <2>3. /\ rejection \in {"error", result} /\ rejection # "ok"
        /\ k.phase = "map" => rejection = result
    BY <1>5, <2>2 DEF Rejections
  <2>4. rejection \in Settled
    BY <1>1, <2>3 DEF Settled
  <2>5. PerformOK' /\ Went(p, "post-bind", rejection)
    BY <2>2, <2>4, GotoWithStep DEF Return, Place, WithProvider
  <2>6. RestOK'
    BY <2>1 DEF RestOK
  <2>7. QED
    BY <1>5, <2>1, <2>3, <2>5, <2>6
<1>6. QED
  BY <1>1, <1>2, <1>3, <1>4, <1>5

LEMMA PostFetchEffect ==
  ASSUME Typed, NEW p \in Performs, PostFetch(p)
  PROVE  LET f == fetchUse
             k == perform[p]
             heard == /\ f # NoUseCase /\ hook[f].queuedAction = NoAction
                      /\ k.result \notin {"ok", "http"}
         IN /\ Typed' /\ UNCHANGED <<hook, object>>
            /\ k.at = "post-fetch"
            /\ \/ /\ heard /\ fetchUse' = f
                  /\ Moved(p, "fetch-failed", k.provider, k.named, k.target,
                           k.served, k.phase, f, k.result)
               \/ /\ k.phase = "map" /\ k.result \in {"ok", "http"} /\ fetchUse' = f
                  /\ Went(p, "map", k.result) \/ Went(p, "unhandled", k.result)
               \/ /\ k.phase = "bind" /\ k.result = "ok"
                  /\ fetchUse' = NoUseCase /\ Went(p, "assign", k.result)
               \/ /\ fetchUse' = f /\ ~heard
                  /\ \E result \in {"sdk-error", "error", k.result} :
                       /\ Went(p, "post-bind", result)
                       /\ result # "ok"
                       /\ k.phase = "map" => result = k.result
<1> DEFINE f == fetchUse
           k == perform[p]
           heard == /\ f # NoUseCase /\ hook[f].queuedAction = NoAction
                    /\ k.result \notin {"ok", "http"}
<1>1. /\ HookOK /\ PerformOK /\ RestOK /\ Located(k)
      /\ f \in UseCases \cup {NoUseCase}
  BY TypedParts, KnownFields DEF RestOK
<1>2. k.at = "post-fetch" /\ UNCHANGED <<hook, object, now, wake>>
  BY DEF PostFetch
<1>3. HookOK'
  BY <1>1, <1>2, HookUnchanged
<1>4. \/ ~heard /\ FetchReturns(p, k.result)
      \/ heard /\ HeardBy(p, f) /\ UNCHANGED <<fetchUse, cache>>
  BY DEF PostFetch, HeardBy
<1>5. CASE ~heard /\ FetchReturns(p, k.result)
  <2> DEFINE result == k.result
  <2>1. FetchReturns(p, result) /\ ~heard
    BY <1>5
  <2>2. /\ PerformOK' /\ RestOK'
        /\ \/ /\ k.phase = "map" /\ k.result \in {"ok", "http"}
              /\ fetchUse' = fetchUse
              /\ Went(p, "map", k.result) \/ Went(p, "unhandled", k.result)
           \/ /\ k.phase = "bind" /\ k.result = "ok"
              /\ fetchUse' = NoUseCase /\ Went(p, "assign", k.result)
           \/ /\ fetchUse' = fetchUse
              /\ \E rejection \in {"sdk-error", "error", k.result} :
                   /\ Went(p, "post-bind", rejection)
                   /\ rejection # "ok"
                   /\ k.phase = "map" => rejection = k.result
    BY <1>1, <1>2, <2>1, FetchReturnsEffect
  <2> HIDE DEF heard
  <2>3. QED
    BY <1>2, <1>3, <2>1, <2>2, TypedParts1 DEF heard
<1>6. CASE heard /\ HeardBy(p, f) /\ UNCHANGED <<fetchUse, cache>>
  <2>1. f \in UseCases /\ k.target # NoProvider
    BY <1>1, <1>2, <1>6 DEF Located, WithProvider
  <2>2. PerformOK' /\ Moved(p, "fetch-failed", k.provider, k.named, k.target,
                            k.served, k.phase, f, k.result)
    BY <1>1, <1>6, <2>1, HeardByStep
  <2>3. RestOK'
    BY <1>1, <1>2, <1>6 DEF RestOK
  <2>4. QED
    BY <1>2, <1>3, <1>6, <2>2, <2>3, TypedParts1
<1>7. QED
  BY <1>4, <1>5, <1>6

(* A failure of kind `failure` is put to the router r of use case u.       *)
LEMMA FailedRequestEffect ==
  ASSUME Typed, NEW u \in UseCases, NEW failure \in FailureKind
  PROVE  LET r    == hook[u].router
             out  == FailedRequest(u, failure)
             kind == out.resolution.kind
         IN /\ GoodRouter(out.router)
            /\ kind = "retry" => Admitted(r, out.router)
            /\ kind = "throw" =>
                 /\ out.router.current = r.current
                 /\ out.router.allowFailover = r.allowFailover
                 /\ r.current = NoProvider => out.router = r
                 /\ r.current # NoProvider => ~MayCall(r)
            /\ kind \in {"abort", "switch-provider"} =>
                 QueuedFor(r, out.router, Queued(out.resolution), TRUE)
            /\ kind \in {"retry", "throw", "abort", "switch-provider"}
<1>1. GoodRouter(hook[u].router) /\ now \in Nat
  BY TypedParts DEF HookOK, RestOK
<1>2. QED
  BY <1>1, FailureEffect DEF FailedRequest

LEMMA FetchFailedEffect ==
  ASSUME Typed, NEW p \in Performs, FetchFailed(p)
  PROVE  LET h == perform[p].heard
             r == hook[h].router
             s == hook'[h].router
             k == perform[p]
             result == perform'[p].result
             Out(place, res) ==
               Moved(p, place, k.provider, k.named, k.target, k.served,
                     k.phase, NoUseCase, res)
         IN /\ Typed' /\ UNCHANGED <<object, fetchUse>>
            /\ k.at = "fetch-failed" /\ h \in UseCases /\ OthersKept(h)
            /\ \/ /\ UNCHANGED hook
                  /\ r.current # NoProvider => ~MayCall(r)
                  /\ Out("post-bind", result) /\ result \in {"throw", "error"}
               \/ /\ hook'[h].queuedAction = hook[h].queuedAction
                  /\ Admitted(r, s)
                  /\ Out("pre-fetch", k.result)
               \/ /\ QueuedFor(r, s, hook'[h].queuedAction, TRUE)
                  /\ Out("post-bind", result) /\ result \in {"placeholder", "error"}
<1> DEFINE h == perform[p].heard
           r == hook[h].router
           k == perform[p]
           failure == FailureOf(k.result)
           answer == FailedRequest(h, failure)
           kind == answer.resolution.kind
           action == Queued(answer.resolution)
           Out(place, res) ==
             Moved(p, place, k.provider, k.named, k.target, k.served,
                   k.phase, NoUseCase, res)
<1>1. /\ HookOK /\ PerformOK /\ RestOK /\ Located(k) /\ k.result \in Settled
      /\ h \in UseCases \cup {NoUseCase} /\ k.phase \in {"bind", "map"}
  BY TypedParts, KnownFields DEF Fit
<1>2. /\ k.at = "fetch-failed"
      /\ UNCHANGED <<object, fetchUse, cache, now, wake>>
  BY DEF FetchFailed
<1>3. h \in UseCases /\ k.target # NoProvider
  BY <1>1, <1>2 DEF Located, WithProvider
<1>4. RestOK'
  BY <1>1, <1>2 DEF RestOK
<1>5. failure \in FailureKind
  BY DEF FailureKind, FailureOf
<1>6. \/ /\ kind = "throw" /\ UNCHANGED hook
         /\ \E result \in Rejections(p, "throw") : HeardOut(p, "post-bind", result)
      \/ /\ kind = "retry" /\ Routed(h, answer.router)
         /\ HeardOut(p, "pre-fetch", k.result)
      \/ /\ kind \in {"abort", "switch-provider"}
         /\ Hooked(h, answer.router, action)
         /\ \E result \in Rejections(p, "placeholder") :
              HeardOut(p, "post-bind", result)
  BY DEF FetchFailed, Routed, Hooked
<1> HIDE DEF failure
<1>7. /\ GoodRouter(answer.router)
      /\ kind = "retry" => Admitted(r, answer.router)
      /\ kind = "throw" => (r.current # NoProvider => ~MayCall(r))
      /\ kind \in {"abort", "switch-provider"} =>
           QueuedFor(r, answer.router, action, TRUE)
  BY <1>3, <1>5, FailedRequestEffect
<1> HIDE DEF action, kind, answer
<1>8. CASE /\ kind = "throw" /\ UNCHANGED hook
           /\ \E result \in Rejections(p, "throw") : HeardOut(p, "post-bind", result)
  <2>1. PICK result \in Rejections(p, "throw") : HeardOut(p, "post-bind", result)
    BY <1>8
  <2>2. result \in {"throw", "error"} /\ result \in Settled
    BY <2>1 DEF Rejections, Settled
  <2>3. PerformOK' /\ Out("post-bind", result) /\ perform'[p].result = result
    BY <1>1, <1>3, <2>1, <2>2, HeardOutStep DEF Moved
  <2>4. HookOK' /\ OthersKept(h)
    BY <1>1, <1>8, HookUnchanged
  <2>5. QED
    BY <1>2, <1>3, <1>4, <1>7, <1>8, <2>2, <2>3, <2>4, TypedParts1
<1>9. CASE /\ kind = "retry" /\ Routed(h, answer.router)
           /\ HeardOut(p, "pre-fetch", k.result)
  <2> DEFINE s == answer.router
  <2>1. GoodRouter(s) /\ Admitted(r, s) /\ Routed(h, s)
    BY <1>7, <1>9
  <2> HIDE DEF s
  <2>2. /\ HookOK' /\ OthersKept(h) /\ hook'[h].router = s
        /\ hook'[h].queuedAction = hook[h].queuedAction
    BY <1>1, <1>3, <2>1, RoutedStep
  <2> DEFINE result == k.result
  <2>3. HeardOut(p, "pre-fetch", result) /\ result \in Settled
    BY <1>1, <1>9
  <2> HIDE DEF result
  <2>4. PerformOK' /\ Out("pre-fetch", result)
    BY <1>1, <1>3, <2>3, HeardOutStep
  <2>5. QED
    BY <1>2, <1>3, <1>4, <2>1, <2>2, <2>4, TypedParts1 DEF result
<1>10. CASE /\ kind \in {"abort", "switch-provider"}
            /\ Hooked(h, answer.router, action)
            /\ \E result \in Rejections(p, "placeholder") :
                 HeardOut(p, "post-bind", result)
  <2> DEFINE s == answer.router
  <2>1. GoodRouter(s) /\ QueuedFor(r, s, action, TRUE) /\ Hooked(h, s, action)
    BY <1>7, <1>10
  <2> HIDE DEF s
  <2>2. action \in Action
    BY <2>1 DEF QueuedFor
  <2>3. /\ HookOK' /\ OthersKept(h) /\ hook'[h].router = s
        /\ hook'[h].queuedAction = action
    BY <1>1, <1>3, <2>1, <2>2, HookedStep
  <2>4. PICK result \in Rejections(p, "placeholder") : HeardOut(p, "post-bind", result)
    BY <1>10
  <2>5. result \in {"placeholder", "error"} /\ result \in Settled
    BY <2>4 DEF Rejections, Settled
  <2>6. PerformOK' /\ Out("post-bind", result) /\ perform'[p].result = result
    BY <1>1, <1>3, <2>4, <2>5, HeardOutStep DEF Moved
  <2>7. QED
    BY <1>2, <1>3, <1>4, <2>1, <2>3, <2>5, <2>6, TypedParts1
<1>11. QED
  BY <1>6, <1>8, <1>9, <1>10

LEMMA UnhandledHttpEffect ==
  ASSUME Typed, NEW p \in Performs, UnhandledHttp(p)
  PROVE  LET u == UseCase(p)
             r == hook[u].router
             s == hook'[u].router
             k == perform[p]
         IN /\ Typed' /\ UNCHANGED <<object, fetchUse>> /\ OthersKept(u)
            /\ k.at = "unhandled"
            /\ \/ k.result = "ok" /\ UNCHANGED hook /\ Went(p, "map", k.result)
               \/ /\ k.result = "http" /\ UNCHANGED hook
                  /\ hook[u].queuedAction # NoAction /\ Went(p, "post-bind", "error")
               \/ /\ k.result = "http" /\ UNCHANGED hook
                  /\ hook[u].queuedAction = NoAction
                  /\ r.current # NoProvider => ~MayCall(r)
                  /\ Went(p, "post-bind", "throw")
               \/ /\ hook'[u].queuedAction = hook[u].queuedAction
                  /\ Admitted(r, s) /\ Went(p, "pre-fetch", k.result)
               \/ /\ QueuedFor(r, s, hook'[u].queuedAction, TRUE)
                  /\ Went(p, "post-bind", "placeholder")
<1> DEFINE u == UseCase(p)
           r == hook[u].router
           k == perform[p]
           answer == FailedRequest(u, "http")
           kind == answer.resolution.kind
           action == Queued(answer.resolution)
<1>1. /\ HookOK /\ PerformOK /\ RestOK /\ Located(k) /\ u \in UseCases
      /\ "http" \in FailureKind
  BY TypedParts, KnownFields, UseCaseType DEF FailureKind
<1>2. k.at = "unhandled" /\ UNCHANGED <<object, fetchUse, cache, now, wake>>
  BY DEF UnhandledHttp
<1>3. k.target # NoProvider
  BY <1>1, <1>2 DEF Located, WithProvider
<1>4. RestOK'
  BY <1>1, <1>2 DEF RestOK
<1>5. /\ GoodRouter(answer.router)
      /\ kind = "retry" => Admitted(r, answer.router)
      /\ kind = "throw" => (r.current # NoProvider => ~MayCall(r))
      /\ kind \in {"abort", "switch-provider"} =>
           QueuedFor(r, answer.router, action, TRUE)
      /\ kind \in {"retry", "throw", "abort", "switch-provider"}
  BY <1>1, FailedRequestEffect
<1>6. \/ k.result = "ok" /\ Goto(p, "map") /\ UNCHANGED hook
      \/ /\ k.result = "http" /\ hook[u].queuedAction # NoAction
         /\ Return(p, "error") /\ UNCHANGED hook
      \/ /\ k.result = "http" /\ hook[u].queuedAction = NoAction
         /\ CASE kind = "throw" -> Return(p, "throw") /\ UNCHANGED hook
              [] kind = "retry" -> Routed(u, answer.router) /\ Goto(p, "pre-fetch")
              [] kind \in {"abort", "switch-provider"} ->
                   /\ Hooked(u, answer.router, action)
                   /\ Return(p, "placeholder")
  BY DEF UnhandledHttp, Routed, Hooked
<1> HIDE DEF action, kind, answer
<1>7. CASE k.result = "ok" /\ Goto(p, "map") /\ UNCHANGED hook
  <2>1. PerformOK' /\ Went(p, "map", k.result)
    BY <1>1, <1>3, <1>7, GotoStep DEF Place
  <2>2. QED
    BY <1>1, <1>2, <1>4, <1>7, <2>1, HookUnchanged, TypedParts1
<1>8. CASE /\ k.result = "http" /\ hook[u].queuedAction # NoAction
           /\ Return(p, "error") /\ UNCHANGED hook
  <2>1. PerformOK' /\ Went(p, "post-bind", "error")
    BY <1>1, <1>8, GotoWithStep DEF Return, Place, Settled, WithProvider
  <2>2. QED
    BY <1>1, <1>2, <1>4, <1>8, <2>1, HookUnchanged, TypedParts1
<1>9. ASSUME k.result = "http", hook[u].queuedAction = NoAction,
             kind = "throw", Return(p, "throw"), UNCHANGED hook
      PROVE  /\ Typed' /\ OthersKept(u) /\ Went(p, "post-bind", "throw")
             /\ r.current # NoProvider => ~MayCall(r)
  <2>1. PerformOK' /\ Went(p, "post-bind", "throw")
    BY <1>1, <1>9, GotoWithStep DEF Return, Place, Settled, WithProvider
  <2>2. QED
    BY <1>1, <1>4, <1>5, <1>9, <2>1, HookUnchanged, TypedParts1
<1>10. ASSUME kind = "retry", Routed(u, answer.router), Goto(p, "pre-fetch")
       PROVE  /\ Typed' /\ OthersKept(u) /\ Went(p, "pre-fetch", k.result)
              /\ hook'[u].queuedAction = hook[u].queuedAction
              /\ Admitted(r, hook'[u].router)
  <2> DEFINE s == answer.router
  <2>1. GoodRouter(s) /\ Admitted(r, s) /\ Routed(u, s)
    BY <1>5, <1>10
  <2> HIDE DEF s
  <2>2. /\ HookOK' /\ OthersKept(u) /\ hook'[u].router = s
        /\ hook'[u].queuedAction = hook[u].queuedAction
    BY <1>1, <2>1, RoutedStep
  <2>3. PerformOK' /\ Went(p, "pre-fetch", k.result)
    BY <1>1, <1>3, <1>10, GotoStep DEF Place
  <2>4. QED
    BY <1>4, <2>1, <2>2, <2>3, TypedParts1
<1>11. ASSUME kind \in {"abort", "switch-provider"},
              Hooked(u, answer.router, action), Return(p, "placeholder")
       PROVE  /\ Typed' /\ OthersKept(u) /\ Went(p, "post-bind", "placeholder")
              /\ QueuedFor(r, hook'[u].router, hook'[u].queuedAction, TRUE)
  <2> DEFINE s == answer.router
  <2>1. GoodRouter(s) /\ QueuedFor(r, s, action, TRUE) /\ Hooked(u, s, action)
    BY <1>5, <1>11
  <2> HIDE DEF s
  <2>2. action \in Action
    BY <2>1 DEF QueuedFor
  <2>3. /\ HookOK' /\ OthersKept(u) /\ hook'[u].router = s
        /\ hook'[u].queuedAction = action
    BY <1>1, <2>1, <2>2, HookedStep
  <2>4. PerformOK' /\ Went(p, "post-bind", "placeholder")
    BY <1>1, <1>11, GotoWithStep DEF Return, Place, Settled, WithProvider
  <2>5. QED
    BY <1>4, <2>1, <2>3, <2>4, TypedParts1
<1>12. QED
  BY <1>2, <1>5, <1>6, <1>7, <1>8, <1>9, <1>10, <1>11

(* A queued action is done: to another provider, or an abort's reason.     *)
Consumed(p, action) ==
  \/ /\ action.kind = "switch-provider"
     /\ Moved(p, "bind", action.provider, perform[p].named, perform[p].target,
              perform[p].served, perform[p].phase, perform[p].heard, "none")
  \/ action.kind # "switch-provider" /\ Went(p, "done", "reason")

LEMMA ConsumeEffect ==
  ASSUME HookOK, PerformOK, NEW p \in Performs, NEW u \in UseCases,
         NEW r, GoodRouter(r), NEW action \in Action, Consume(p, u, r, action)
  PROVE  /\ HookOK' /\ PerformOK' /\ OthersKept(u)
         /\ hook'[u].router = r /\ hook'[u].queuedAction = NoAction
         /\ Consumed(p, action)
<1>1. /\ Hooked(u, r, NoAction)
      /\ \/ action.kind = "switch-provider" /\ SentTo(p, action.provider)
         \/ action.kind # "switch-provider" /\ Finish(p, "reason")
  BY DEF Consume, Hooked, SentTo
<1>2. /\ HookOK' /\ OthersKept(u)
      /\ hook'[u].router = r /\ hook'[u].queuedAction = NoAction
  BY <1>1, HookedStep, ActionType
<1>3. CASE action.kind = "switch-provider" /\ SentTo(p, action.provider)
  <2> DEFINE provider == action.provider
  <2>1. provider \in Providers \cup {NoProvider} /\ SentTo(p, provider)
    BY <1>3 DEF Action
  <2> HIDE DEF provider
  <2>2. PerformOK' /\ Moved(p, "bind", provider, perform[p].named, perform[p].target,
                            perform[p].served, perform[p].phase, perform[p].heard, "none")
    BY <2>1, SentToStep
  <2>3. QED
    BY <1>2, <1>3, <2>2 DEF Consumed, provider
<1>4. CASE action.kind # "switch-provider" /\ Finish(p, "reason")
  <2>1. PerformOK' /\ Went(p, "done", "reason")
    BY <1>4, GotoWithStep DEF Finish, Place, Settled, WithProvider
  <2>2. QED
    BY <1>2, <1>4, <2>1 DEF Consumed
<1>5. QED
  BY <1>1, <1>3, <1>4

LEMMA PostBindEffect ==
  ASSUME Typed, NEW p \in Performs, PostBind(p)
  PROVE  LET u == UseCase(p)
             k == perform[p]
             q == hook[u].queuedAction
         IN /\ Typed' /\ UNCHANGED <<object, fetchUse>> /\ OthersKept(u)
            /\ k.at = "post-bind" /\ hook'[u].router = hook[u].router
            /\ \/ /\ object[ObjectOf[p]].provider = NoProvider
                  /\ hook'[u].queuedAction = q
                  /\ Went(p, "done", "invalid-context")
               \/ /\ object[ObjectOf[p]].provider # NoProvider
                  /\ q = NoAction /\ hook'[u].queuedAction = NoAction
                  /\ Went(p, "settle", k.result)
               \/ /\ object[ObjectOf[p]].provider # NoProvider
                  /\ q # NoAction /\ hook'[u].queuedAction = NoAction
                  /\ Consumed(p, q)
<1> DEFINE u == UseCase(p)
           r == hook[u].router
           k == perform[p]
           q == hook[u].queuedAction
           ob == object[ObjectOf[p]]
<1>1. /\ HookOK /\ PerformOK /\ RestOK /\ Located(k) /\ u \in UseCases
      /\ GoodRouter(r) /\ q \in Action
  BY TypedParts, KnownFields, UseCaseType DEF HookOK
<1>2. k.at = "post-bind" /\ UNCHANGED <<object, fetchUse, cache, now, wake>>
  BY DEF PostBind
<1>3. RestOK'
  BY <1>1, <1>2 DEF RestOK
<1>4. \/ /\ ob.provider = NoProvider
         /\ Finish(p, "invalid-context") /\ UNCHANGED hook
      \/ /\ ob.provider # NoProvider /\ q = NoAction
         /\ Goto(p, "settle") /\ UNCHANGED hook
      \/ /\ ob.provider # NoProvider /\ q # NoAction
         /\ Consume(p, u, r, q)
  BY DEF PostBind
<1>5. CASE ob.provider = NoProvider /\ Finish(p, "invalid-context") /\ UNCHANGED hook
  <2>1. PerformOK' /\ Went(p, "done", "invalid-context")
    BY <1>1, <1>5, GotoWithStep DEF Finish, Place, Settled, WithProvider
  <2>2. QED
    BY <1>1, <1>2, <1>3, <1>5, <2>1, HookUnchanged, TypedParts1
<1>6. CASE ob.provider # NoProvider /\ q = NoAction /\ Goto(p, "settle") /\ UNCHANGED hook
  <2>1. PerformOK' /\ Went(p, "settle", k.result)
    BY <1>1, <1>6, GotoStep DEF Place, WithProvider
  <2>2. QED
    BY <1>1, <1>2, <1>3, <1>6, <2>1, HookUnchanged, TypedParts1
<1>7. CASE ob.provider # NoProvider /\ q # NoAction /\ Consume(p, u, r, q)
  <2>1. Consume(p, u, r, q)
    BY <1>7
  <2>2. /\ HookOK' /\ PerformOK' /\ OthersKept(u)
        /\ hook'[u].router = r /\ hook'[u].queuedAction = NoAction
        /\ Consumed(p, q)
    BY <1>1, <2>1, ConsumeEffect
  <2>3. QED
    BY <1>2, <1>3, <1>7, <2>2, TypedParts1
<1>8. QED
  BY <1>4, <1>5, <1>6, <1>7

LEMMA SettleSuccessEffect ==
  ASSUME Typed, NEW p \in Performs, SettleSuccess(p)
  PROVE  LET u == UseCase(p)
             r == hook[u].router
             s == hook'[u].router
             k == perform[p]
         IN /\ Typed' /\ UNCHANGED <<object, fetchUse>> /\ OthersKept(u)
            /\ k.at = "settle" /\ k.result = "ok"
            /\ hook'[u].queuedAction = hook[u].queuedAction
            /\ s.current = r.current
            /\ r.current = NoProvider => s = r
            /\ \E result \in {"ok", "throw"} :
                 /\ Went(p, "done", result)
                 /\ r.current # NoProvider /\ MayCall(r) => result = "ok"
<1> DEFINE u == UseCase(p)
           r == hook[u].router
           k == perform[p]
           answer == RouterAfterSuccess(r, now)
           s == answer.router
           result == IF answer.resolution.kind = "throw" THEN "throw" ELSE "ok"
<1>1. /\ HookOK /\ PerformOK /\ RestOK /\ u \in UseCases /\ GoodRouter(r) /\ now \in Nat
  BY TypedParts, UseCaseType DEF HookOK, RestOK
<1>2. /\ k.at = "settle" /\ k.result = "ok"
      /\ UNCHANGED <<object, fetchUse, cache, now, wake>>
  BY DEF SettleSuccess
<1>3. Routed(u, s) /\ Finish(p, result)
  BY DEF SettleSuccess, Routed
<1>4. /\ GoodRouter(s) /\ s.current = r.current
      /\ r.current = NoProvider => s = r
      /\ r.current # NoProvider /\ MayCall(r) => result = "ok"
  BY <1>1, SuccessAnswer
<1>5. result \in {"ok", "throw"}
  OBVIOUS
<1> HIDE DEF result, s
<1>6. /\ HookOK' /\ OthersKept(u) /\ hook'[u].router = s
      /\ hook'[u].queuedAction = hook[u].queuedAction
  BY <1>1, <1>3, <1>4, RoutedStep
<1>7. PerformOK' /\ Went(p, "done", result)
  BY <1>1, <1>3, <1>5, GotoWithStep DEF Finish, Place, Settled, WithProvider
<1>8. RestOK'
  BY <1>1, <1>2 DEF RestOK
<1>9. QED
  BY <1>2, <1>4, <1>5, <1>6, <1>7, <1>8, TypedParts1

(* A failed bind takes the perform from router r to the provider s has.    *)
Diverted(r, s, provider) ==
  /\ r.allowFailover /\ s.allowFailover = r.allowFailover
  /\ s.current # NoProvider /\ provider = s.current /\ MayCall(s)
  /\ \E i \in DOMAIN Priority : Priority[i] = provider /\ i > IndexOf(r.current)

LEMMA SettleFailureEffect ==
  ASSUME Typed, NEW p \in Performs, SettleFailure(p)
  PROVE  LET u == UseCase(p)
             r == hook[u].router
             s == hook'[u].router
             k == perform[p]
             q == hook[u].queuedAction
         IN /\ Typed' /\ UNCHANGED <<object, fetchUse>> /\ OthersKept(u)
            /\ k.at = "settle" /\ k.result # "ok"
            /\ \/ /\ q # NoAction /\ hook'[u].queuedAction = NoAction
                  /\ Consumed(p, q)
               \/ /\ hook'[u].queuedAction = NoAction
                  /\ Diverted(r, s, perform'[p].provider)
                  /\ Moved(p, "bind", perform'[p].provider, k.named, k.target,
                           k.served, k.phase, k.heard, "none")
               \/ /\ hook'[u].queuedAction = q
                  /\ s.current = r.current
                  /\ r.current = NoProvider => s = r
                  /\ \/ Went(p, "done", k.result) /\ q = NoAction
                     \/ /\ Went(p, "done", "throw")
                        /\ r.current # NoProvider => ~MayCall(r)
<1> DEFINE u == UseCase(p)
           r == hook[u].router
           k == perform[p]
           q == hook[u].queuedAction
           bind   == k.result = "sdk-error"
           failed == FailedRequest(u, "bind")
           answer == IF bind THEN failed ELSE Answered(r, Resolution("none"))
           kind   == answer.resolution.kind
           s      == answer.router
           action == IF kind = "switch-provider" THEN Queued(answer.resolution) ELSE q
           result == IF kind = "throw" THEN "throw" ELSE k.result
<1>1. /\ HookOK /\ PerformOK /\ RestOK /\ u \in UseCases /\ GoodRouter(r)
      /\ q \in Action /\ k.result \in Settled /\ "bind" \in FailureKind
  BY TypedParts, UseCaseType, KnownFields DEF HookOK, FailureKind, Fit
<1>2. /\ k.at = "settle" /\ k.result # "ok"
      /\ UNCHANGED <<object, fetchUse, cache, now, wake>>
  BY DEF SettleFailure
<1>3. RestOK'
  BY <1>1, <1>2 DEF RestOK
<1>4. \/ action # NoAction /\ kind # "throw" /\ Consume(p, u, s, action)
      \/ /\ ~(action # NoAction /\ kind # "throw")
         /\ Routed(u, s) /\ Finish(p, result)
  BY DEF SettleFailure, Routed
<1>5. /\ GoodRouter(failed.router)
      /\ failed.resolution.kind = "retry" => Admitted(r, failed.router)
      /\ failed.resolution.kind = "throw" =>
           /\ failed.router.current = r.current
           /\ r.current = NoProvider => failed.router = r
           /\ r.current # NoProvider => ~MayCall(r)
      /\ failed.resolution.kind \in {"abort", "switch-provider"} =>
           QueuedFor(r, failed.router, Queued(failed.resolution), TRUE)
      /\ failed.resolution.kind \in {"retry", "throw", "abort", "switch-provider"}
  BY <1>1, FailedRequestEffect
<1>6. failed.resolution.kind = "abort" => Queued(failed.resolution) = FullAbort
  BY DEF Queued
<1>7. failed.resolution.kind = "switch-provider" =>
        Queued(failed.resolution).kind = "switch-provider"
  BY DEF Queued
<1> HIDE DEF failed
<1>8. ~bind => s = r /\ kind = "none"
  BY DEF Answered, Resolution
<1>9. bind => s = failed.router /\ kind = failed.resolution.kind
  OBVIOUS
<1>10. GoodRouter(s)
  BY <1>1, <1>5, <1>8, <1>9
<1>11. kind = "switch-provider" =>
         action.kind = "switch-provider" /\ QueuedFor(r, s, action, TRUE)
  BY <1>5, <1>7, <1>8, <1>9
<1>12. kind # "switch-provider" =>
         /\ s.current = r.current
         /\ r.current = NoProvider => s = r
  BY <1>5, <1>6, <1>8, <1>9 DEF Admitted, QueuedFor, FullAbort
<1>13. kind = "throw" => (r.current # NoProvider => ~MayCall(r))
  BY <1>5, <1>8, <1>9
<1>14. kind # "switch-provider" => action = q
  OBVIOUS
<1>15. action \in Action
  BY <1>1, <1>11, <1>14 DEF QueuedFor
<1>16. action # NoAction \/ kind # "switch-provider"
  BY <1>11 DEF QueuedFor
<1>17. result = IF kind = "throw" THEN "throw" ELSE k.result
  OBVIOUS
<1> HIDE DEF answer, kind, s, action, result
<1>18. CASE action # NoAction /\ kind # "throw" /\ Consume(p, u, s, action)
  <2>1. Consume(p, u, s, action)
    BY <1>18
  <2>2. /\ HookOK' /\ PerformOK' /\ OthersKept(u)
        /\ hook'[u].router = s /\ hook'[u].queuedAction = NoAction
        /\ Consumed(p, action)
    BY <1>1, <1>10, <1>15, <2>1, ConsumeEffect
  <2>3. CASE kind = "switch-provider"
    <3>1. /\ Moved(p, "bind", action.provider, k.named, k.target,
                   k.served, k.phase, k.heard, "none")
          /\ perform'[p].provider = action.provider
      BY <1>11, <2>2, <2>3 DEF Consumed, Moved
    <3>2. Diverted(r, s, action.provider)
      BY <1>11, <2>3 DEF QueuedFor, Diverted, FullAbort
    <3>3. QED
      BY <1>2, <1>3, <2>2, <3>1, <3>2, TypedParts1
  <2>4. CASE kind # "switch-provider"
    BY <1>2, <1>3, <1>14, <1>18, <2>2, <2>4, TypedParts1
  <2>5. QED
    BY <2>3, <2>4
<1>19. CASE /\ ~(action # NoAction /\ kind # "throw")
            /\ Routed(u, s) /\ Finish(p, result)
  <2>1. Routed(u, s) /\ Finish(p, result)
    BY <1>19
  <2>2. /\ HookOK' /\ OthersKept(u) /\ hook'[u].router = s
        /\ hook'[u].queuedAction = q
    BY <1>1, <1>10, <2>1, RoutedStep
  <2>3. result \in Settled
    BY <1>1, <1>17 DEF Settled
  <2>4. PerformOK' /\ Went(p, "done", result)
    BY <1>1, <2>1, <2>3, GotoWithStep DEF Finish, Place, Settled, WithProvider
  <2>5. /\ s.current = r.current
        /\ r.current = NoProvider => s = r
    BY <1>12, <1>16, <1>19
  <2>6. \/ Went(p, "done", k.result) /\ q = NoAction
        \/ /\ Went(p, "done", "throw")
           /\ r.current # NoProvider => ~MayCall(r)
    BY <1>13, <1>14, <1>16, <1>17, <1>19, <2>4
  <2>7. QED
    BY <1>2, <1>3, <2>2, <2>4, <2>5, <2>6, TypedParts1
<1>20. QED
  BY <1>4, <1>18, <1>19

LEMMA RestEffect ==
  ASSUME Typed, (Tick \/ UNCHANGED vars)
  PROVE  Typed' /\ UNCHANGED <<hook, object, fetchUse, perform>>
<1>1. /\ UNCHANGED <<hook, object, fetchUse, cache, perform>>
      /\ now' = now + 1 \/ now' = now
  BY DEF Tick, vars
<1>2. HookOK /\ PerformOK /\ RestOK
  BY TypedParts
<1>3. HookOK' /\ PerformOK' /\ RestOK'
  BY <1>1, <1>2, HookUnchanged DEF PerformOK, RestOK
<1>4. QED
  BY <1>1, <1>3, TypedParts1

LEMMA InitTyped == Init => Typed
<1> SUFFICES ASSUME Init PROVE Typed
  OBVIOUS
<1>1. HookOK
  <2> DEFINE h == [router |-> NewRouter, queuedAction |-> NoAction]
  <2>1. hook = [u \in UseCases |-> h] /\ h = [router |-> h.router, queuedAction |-> h.queuedAction]
    BY DEF Init
  <2>2. GoodRouter(h.router) /\ h.queuedAction \in Action
    BY NewRouterGood, ActionType
  <2> HIDE DEF h
  <2>3. QED
    BY <2>1, <2>2 DEF HookOK
<1>2. NewPerform \in PerformState /\ Located(NewPerform)
  BY DEF NewPerform, PerformState, Located, WithProvider, Place, Settled
<1>3. PerformOK
  BY <1>2 DEF Init, PerformOK
<1>4. RestOK
  BY DEF Init, RestOK, ObjectState
<1>5. QED
  BY <1>1, <1>3, <1>4, TypedParts

LEMMA NextTyped == Typed /\ [Next]_vars => Typed'
<1> SUFFICES ASSUME Typed, [Next]_vars PROVE Typed'
  OBVIOUS
<1>1. ASSUME NEW p \in Performs, NEW choice \in Options, Start(p, choice)
      PROVE  Typed'
  BY <1>1, StartEffect
<1>2. ASSUME NEW p \in Performs, Step(p)
      PROVE  Typed'
  <2>1. CASE Bind(p)
    BY <2>1, BindEffect
  <2>2. CASE Load(p)
    BY <2>2, LoadEffect
  <2>3. CASE Assign(p)
    BY <2>3, AssignEffect
  <2>4. CASE PerformBound(p)
    BY <2>4, PerformBoundEffect
  <2>5. CASE \E result \in {"ok", "error", "sdk-error"} : MapEnds(p, result)
    BY <2>5, MapEndsEffect
  <2>6. CASE MapCalls(p)
    BY <2>6, MapCallsEffect
  <2>7. CASE PreFetch(p)
    BY <2>7, PreFetchEffect
  <2>8. CASE Wake(p)
    BY <2>8, WakeEffect
  <2>9. CASE \E result \in {"ok", "http", "network"} : Fetch(p, result)
    BY <2>9, FetchEffect
  <2>10. CASE PostFetch(p)
    BY <2>10, PostFetchEffect
  <2>11. CASE FetchFailed(p)
    BY <2>11, FetchFailedEffect
  <2>12. CASE UnhandledHttp(p)
    BY <2>12, UnhandledHttpEffect
  <2>13. CASE PostBind(p)
    BY <2>13, PostBindEffect
  <2>14. CASE SettleSuccess(p)
    BY <2>14, SettleSuccessEffect
  <2>15. CASE SettleFailure(p)
    BY <2>15, SettleFailureEffect
  <2>16. QED
    BY <1>2, <2>1, <2>2, <2>3, <2>4, <2>5, <2>6, <2>7, <2>8, <2>9, <2>10,
       <2>11, <2>12, <2>13, <2>14, <2>15 DEF Step
<1>3. CASE Tick \/ UNCHANGED vars
  BY <1>3, RestEffect
<1>4. QED
  BY <1>1, <1>2, <1>3 DEF Next, AllDone

(* Performs may overlap in any way, on any objects: every router stays     *)
(* sound (its current provider has a policy, and every policy is one its   *)
(* configuration allows), a queued action is an abort or a switch to a     *)
(* known provider, a failed request that is listened to has a listener,    *)
(* and a perform past bind has a provider.                                 *)
THEOREM StaysSound == Spec => [](TypeOK /\ SoundState)
<1>1. Init => Typed
  BY InitTyped
<1>2. Typed /\ [Next]_vars => Typed'
  BY NextTyped
<1>3. Typed => TypeOK /\ SoundState
  BY DEF Typed
<1>4. QED
  BY <1>1, <1>2, <1>3, PTL DEF Spec

-----------------------------------------------------------------------------
(* Any number of performs at a time, on one object.                        *)

OnOneObject == \A p, q \in Performs : ObjectOf[p] = ObjectOf[q]

(* While others overlap, a perform takes a step: what it leaves at the     *)
(* places where an action may wait, in the terms of what it has changed.   *)
LEMMA AwaitedStep ==
  ASSUME OnOneObject, Typed, QueueAwaited, NEW p \in Performs, OthersKept(UseCase(p)),
         \A q \in Performs \ {p} : perform'[q] = perform[q],
         fetchUse' \in {fetchUse, NoUseCase, UseCase(p)},
         perform'[p].at = "fetch-failed" => perform'[p].heard = UseCase(p),
         object[ObjectOf[p]].provider # NoProvider =>
           object'[ObjectOf[p]].provider # NoProvider,
         (\/ perform'[p].at \notin {"idle", "bind", "post-bind", "done"}
          \/ hook'[UseCase(p)].router.current # NoProvider) =>
           object'[ObjectOf[p]].provider # NoProvider,
         \/ hook'[UseCase(p)].queuedAction = NoAction
         \/ /\ WaitsForHook(perform'[p])
            /\ object'[ObjectOf[p]].provider # NoProvider
         \/ /\ hook'[UseCase(p)].queuedAction = hook[UseCase(p)].queuedAction
            /\ WaitsForHook(perform[p]) /\ hook[UseCase(p)].queuedAction # NoAction
                 => WaitsForHook(perform'[p])
  PROVE  QueueAwaited'
<1> DEFINE u == UseCase(p)
           o == ObjectOf[p]
<1>1. \A q \in Performs : UseCase(q) = u /\ ObjectOf[q] = o
  BY DEF OnOneObject, UseCase
<1>2. ASSUME NEW q \in Performs
      PROVE  /\ fetchUse' \in {NoUseCase, UseCase(q)}
             /\ perform'[q].at = "fetch-failed" => perform'[q].heard = UseCase(q)
             /\ (\/ perform'[q].at \notin {"idle", "bind", "post-bind", "done"}
                 \/ hook'[UseCase(q)].router.current # NoProvider) =>
                  object'[ObjectOf[q]].provider # NoProvider
  BY <1>1 DEF QueueAwaited
<1>3. ASSUME NEW v \in UseCases, hook'[v].queuedAction # NoAction
      PROVE  \E q \in Performs : /\ UseCase(q) = v /\ WaitsForHook(perform'[q])
                                /\ object'[ObjectOf[q]].provider # NoProvider
  <2>1. CASE v # u
    <3>1. hook'[v] = hook[v]
      BY <2>1 DEF OthersKept
    <3>2. QED
      BY <1>1, <1>3, <2>1, <3>1 DEF QueueAwaited
  <2>2. CASE v = u /\ WaitsForHook(perform'[p]) /\ object'[o].provider # NoProvider
    BY <2>2
  <2>3. CASE /\ v = u /\ hook'[u].queuedAction = hook[u].queuedAction
             /\ WaitsForHook(perform[p]) /\ hook[u].queuedAction # NoAction
                  => WaitsForHook(perform'[p])
    <3>1. PICK q \in Performs : /\ UseCase(q) = v /\ WaitsForHook(perform[q])
                               /\ object[ObjectOf[q]].provider # NoProvider
      BY <1>3, <2>3 DEF QueueAwaited
    <3>2. WaitsForHook(perform'[q])
      <4>1. CASE q = p
        BY <1>3, <2>3, <3>1, <4>1
      <4>2. CASE q # p
        BY <3>1, <4>2
      <4>3. QED
        BY <4>1, <4>2
    <3>3. QED
      BY <1>1, <3>1, <3>2
  <2>4. QED
    BY <1>3, <2>1, <2>2, <2>3
<1>4. QED
  BY <1>2, <1>3 DEF QueueAwaited

(* What the step of one perform starts from.                               *)
LEMMA AwaitedFacts ==
  ASSUME OnOneObject, Typed, QueueAwaited, NEW p \in Performs
  PROVE  /\ UseCase(p) \in UseCases
         /\ fetchUse \in {NoUseCase, UseCase(p)}
         /\ perform[p].at = "fetch-failed" => perform[p].heard = UseCase(p)
         /\ (\/ perform[p].at \notin {"idle", "bind", "post-bind", "done"}
             \/ hook[UseCase(p)].router.current # NoProvider) =>
              object[ObjectOf[p]].provider # NoProvider
         /\ hook[UseCase(p)].queuedAction # NoAction =>
              object[ObjectOf[p]].provider # NoProvider
<1>1. \A q \in Performs : ObjectOf[q] = ObjectOf[p]
  BY DEF OnOneObject
<1>2. QED
  BY <1>1, UseCaseType DEF QueueAwaited

LEMMA StartAwaited ==
  ASSUME OnOneObject, Typed, QueueAwaited, NEW p \in Performs, NEW choice \in Options,
         Start(p, choice)
  PROVE  QueueAwaited'
<1>1. UNCHANGED <<object, fetchUse>> /\ OthersKept(UseCase(p)) /\ perform[p].at = "idle"
  BY StartEffect
<1>2. \/ /\ perform'[p].at = "bind"
         /\ \A q \in Performs \ {p} : perform'[q] = perform[q]
         /\ hook'[UseCase(p)].queuedAction = hook[UseCase(p)].queuedAction
         /\ hook'[UseCase(p)].router.current = hook[UseCase(p)].router.current
      \/ /\ perform'[p].at = "post-bind"
         /\ \A q \in Performs \ {p} : perform'[q] = perform[q]
         /\ hook[UseCase(p)].router.current # NoProvider
  BY StartEffect DEF Moved
<1>3. QED
  BY <1>1, <1>2, AwaitedFacts, AwaitedStep DEF WaitsForHook

LEMMA BindAwaited ==
  ASSUME OnOneObject, Typed, QueueAwaited, NEW p \in Performs, Bind(p)
  PROVE  QueueAwaited'
<1>1. UNCHANGED fetchUse /\ OthersKept(UseCase(p)) /\ perform[p].at = "bind"
  BY BindEffect
<1>2. \/ /\ perform'[p].at = "post-bind" /\ UNCHANGED <<hook, object>>
         /\ \A q \in Performs \ {p} : perform'[q] = perform[q]
      \/ /\ perform'[p].at \in {"assign", "load"}
         /\ \A q \in Performs \ {p} : perform'[q] = perform[q]
         /\ hook'[UseCase(p)].queuedAction = hook[UseCase(p)].queuedAction
         /\ perform'[p].target \in Providers
         /\ object'[ObjectOf[p]].provider = perform'[p].target
  BY BindEffect DEF Moved, Went
<1>3. NoProvider \notin Providers
  BY DEF RouterAssumption
<1>4. QED
  BY <1>1, <1>2, <1>3, AwaitedFacts, AwaitedStep DEF WaitsForHook

(* Steps between the first hook and the requests, and the requests.        *)
LEMMA PlainAwaited ==
  ASSUME OnOneObject, Typed, QueueAwaited, NEW p \in Performs,
         \/ Load(p) \/ Assign(p) \/ PerformBound(p)
         \/ \E result \in {"ok", "error", "sdk-error"} : MapEnds(p, result)
         \/ MapCalls(p) \/ Wake(p)
         \/ \E result \in {"ok", "http", "network"} : Fetch(p, result)
  PROVE  QueueAwaited'
<1>1. /\ UNCHANGED hook
      /\ fetchUse' \in {fetchUse, NoUseCase, UseCase(p)}
      /\ object'[ObjectOf[p]].provider = object[ObjectOf[p]].provider
      /\ perform[p].at \in {"load", "assign", "perform", "map", "sleep", "fetch"}
      /\ perform'[p].at # "fetch-failed"
      /\ \A q \in Performs \ {p} : perform'[q] = perform[q]
  <2>1. CASE Load(p)
    BY <2>1, LoadEffect DEF Went, Moved
  <2>2. CASE Assign(p)
    BY <2>2, AssignEffect DEF Went, Moved
  <2>3. CASE PerformBound(p)
    BY <2>3, PerformBoundEffect DEF Moved
  <2>4. CASE \E result \in {"ok", "error", "sdk-error"} : MapEnds(p, result)
    BY <2>4, MapEndsEffect DEF Went, Moved
  <2>5. CASE MapCalls(p)
    BY <2>5, MapCallsEffect DEF Went, Moved
  <2>6. CASE Wake(p)
    BY <2>6, WakeEffect DEF Went, Moved
  <2>7. CASE \E result \in {"ok", "http", "network"} : Fetch(p, result)
    BY <2>7, FetchEffect DEF Went, Moved
  <2>8. QED
    BY <2>1, <2>2, <2>3, <2>4, <2>5, <2>6, <2>7
<1>2. object[ObjectOf[p]].provider # NoProvider
  BY <1>1, AwaitedFacts
<1>3. ~WaitsForHook(perform[p])
  BY <1>1 DEF WaitsForHook
<1>4. OthersKept(UseCase(p))
  BY <1>1 DEF OthersKept
<1>5. QED
  BY <1>1, <1>2, <1>3, <1>4, AwaitedFacts, AwaitedStep

(* The hooks of a request: an action they queue waits at the place they    *)
(* send their perform to; after a request nobody hears of one while an     *)
(* action is waiting.                                                      *)
LEMMA RequestAwaited ==
  ASSUME OnOneObject, Typed, QueueAwaited, NEW p \in Performs,
         PreFetch(p) \/ PostFetch(p) \/ FetchFailed(p) \/ UnhandledHttp(p)
  PROVE  QueueAwaited'
<1> DEFINE u == UseCase(p)
<1>1. /\ u \in UseCases /\ fetchUse \in {NoUseCase, u} /\ NoUseCase \notin UseCases
      /\ perform[p].at = "fetch-failed" => perform[p].heard = u
  BY AwaitedFacts DEF PerformAssumption
<1>2. /\ UNCHANGED object /\ OthersKept(u)
      /\ fetchUse' \in {fetchUse, NoUseCase}
      /\ perform[p].at \in {"pre-fetch", "post-fetch", "fetch-failed", "unhandled"}
      /\ perform'[p].at = "fetch-failed" => perform'[p].heard = u
      /\ \A q \in Performs \ {p} : perform'[q] = perform[q]
      /\ \/ WaitsForHook(perform'[p])
         \/ /\ hook'[u].queuedAction = hook[u].queuedAction
            /\ WaitsForHook(perform[p]) /\ hook[u].queuedAction # NoAction
                 => WaitsForHook(perform'[p])
  <2>1. CASE PreFetch(p)
    BY <1>1, <2>1, PreFetchEffect DEF Went, Moved, WaitsForHook, OthersKept
  <2>2. CASE PostFetch(p)
    <3>1. /\ UNCHANGED <<hook, object>> /\ perform[p].at = "post-fetch"
          /\ fetchUse' \in {fetchUse, NoUseCase}
          /\ \A q \in Performs \ {p} : perform'[q] = perform[q]
      BY <2>2, PostFetchEffect DEF Went, Moved
    <3>2. \/ /\ fetchUse # NoUseCase /\ hook[fetchUse].queuedAction = NoAction
             /\ perform'[p].at = "fetch-failed" /\ perform'[p].heard = fetchUse
          \/ perform[p].result \in {"ok", "http"} /\ perform'[p].at # "fetch-failed"
          \/ perform'[p].at = "post-bind"
      BY <2>2, PostFetchEffect DEF Went, Moved
    <3>3. QED
      BY <1>1, <3>1, <3>2 DEF WaitsForHook, OthersKept
  <2>3. CASE FetchFailed(p)
    BY <1>1, <2>3, FetchFailedEffect DEF Moved, WaitsForHook, OthersKept
  <2>4. CASE UnhandledHttp(p)
    BY <1>1, <2>4, UnhandledHttpEffect DEF Went, Moved, WaitsForHook, OthersKept
  <2>5. QED
    BY <2>1, <2>2, <2>3, <2>4
<1>3. object[ObjectOf[p]].provider # NoProvider
  BY <1>2, AwaitedFacts
<1>4. QED
  BY <1>2, <1>3, AwaitedStep

(* The last hook takes the action, whoever queued it.                      *)
LEMMA PostBindAwaited ==
  ASSUME OnOneObject, Typed, QueueAwaited, NEW p \in Performs,
         PostBind(p) \/ SettleSuccess(p) \/ SettleFailure(p)
  PROVE  QueueAwaited'
<1> DEFINE u == UseCase(p)
<1>1. CASE PostBind(p)
  <2>1. /\ UNCHANGED <<object, fetchUse>> /\ OthersKept(u)
        /\ hook'[u].router = hook[u].router
        /\ perform'[p].at # "fetch-failed"
        /\ \A q \in Performs \ {p} : perform'[q] = perform[q]
        /\ \/ object[ObjectOf[p]].provider # NoProvider /\ hook'[u].queuedAction = NoAction
           \/ /\ object[ObjectOf[p]].provider = NoProvider /\ perform'[p].at = "done"
              /\ hook'[u].queuedAction = hook[u].queuedAction
    BY <1>1, PostBindEffect DEF Consumed, Went, Moved
  <2>2. QED
    BY <2>1, AwaitedFacts, AwaitedStep
<1>2. CASE SettleSuccess(p) \/ SettleFailure(p)
  <2>1. /\ UNCHANGED <<object, fetchUse>> /\ OthersKept(u)
        /\ perform[p].at = "settle" /\ perform'[p].at # "fetch-failed"
        /\ \A q \in Performs \ {p} : perform'[q] = perform[q]
        /\ \/ hook'[u].queuedAction = NoAction
           \/ hook'[u].queuedAction = hook[u].queuedAction
    <3>1. CASE SettleSuccess(p)
      BY <3>1, SettleSuccessEffect DEF Went, Moved
    <3>2. CASE SettleFailure(p)
      BY <3>2, SettleFailureEffect DEF Consumed, Went, Moved
    <3>3. QED
      BY <1>2, <3>1, <3>2
  <2>2. object[ObjectOf[p]].provider # NoProvider /\ ~WaitsForHook(perform[p])
    BY <2>1, AwaitedFacts DEF WaitsForHook
  <2>3. QED
    BY <2>1, <2>2, AwaitedStep
<1>3. QED
  BY <1>1, <1>2

(* Nothing is left in the queue of a use case when no perform runs,        *)
(* however many performs of an object have overlapped and whichever of     *)
(* them took the action of another.                                        *)
THEOREM QueueIsDrained == OnOneObject => (Spec => []QueueDrained)
<1> SUFFICES ASSUME OnOneObject PROVE Spec => []QueueDrained
  OBVIOUS
<1>1. Init => QueueAwaited
  <2> SUFFICES ASSUME Init PROVE QueueAwaited
    OBVIOUS
  <2>1. \A u \in UseCases : hook[u] = [router |-> NewRouter, queuedAction |-> NoAction]
    BY DEF Init
  <2>2. \A u \in UseCases : /\ hook[u].queuedAction = NoAction
                           /\ hook[u].router.current = NoProvider
    BY <2>1 DEF NewRouter
  <2>3. \A p \in Performs : perform[p].at = "idle" /\ UseCase(p) \in UseCases
    BY UseCaseType DEF Init, NewPerform
  <2>4. fetchUse = NoUseCase
    BY DEF Init
  <2>5. QED
    BY <2>2, <2>3, <2>4 DEF QueueAwaited
<1>2. Typed /\ QueueAwaited /\ [Next]_vars => QueueAwaited'
  <2> SUFFICES ASSUME Typed, QueueAwaited, [Next]_vars PROVE QueueAwaited'
    OBVIOUS
  <2>1. ASSUME NEW p \in Performs, NEW choice \in Options, Start(p, choice)
        PROVE  QueueAwaited'
    BY <2>1, StartAwaited
  <2>2. ASSUME NEW p \in Performs, Step(p)
        PROVE  QueueAwaited'
    BY <2>2, BindAwaited, PlainAwaited, RequestAwaited, PostBindAwaited DEF Step
  <2>3. CASE Tick \/ UNCHANGED vars
    BY <2>3, RestEffect DEF QueueAwaited, WaitsForHook
  <2>4. QED
    BY <2>1, <2>2, <2>3 DEF Next, AllDone
<1>3. QueueAwaited => QueueDrained
  BY DEF QueueAwaited, QueueDrained, Running, WaitsForHook
<1>4. Spec => []Typed
  BY InitTyped, NextTyped, PTL DEF Spec
<1>5. QED
  BY <1>1, <1>2, <1>3, <1>4, PTL DEF Spec

-----------------------------------------------------------------------------
(* One perform at a time, on one object.                                   *)

OneAtATime == Concurrency = 1 /\ OnOneObject

(* What the invariant says of one perform k and of what it shares.         *)
Shared(u, r, f, ob) ==
  /\ r.current = NoProvider <=> ob.provider = NoProvider
  /\ r.current = NoProvider =>
       \A d \in DOMAIN r.policies : r.policies[d].state = "closed"
  /\ f # NoUseCase => f = u /\ r.current # NoProvider

Local(k, u, r, q, f, ob) ==
  /\ AtRest(k) /\ Shared(u, r, f, ob)
  /\ k.at \in {"idle", "done"} => q = NoAction
  /\ k.at \notin {"idle", "done"} => Coherent(k, u, r, q, f, ob)

Knows(p) ==
  Local(perform[p], UseCase(p), hook[UseCase(p)].router,
        hook[UseCase(p)].queuedAction, fetchUse, object[ObjectOf[p]])

Alone(p) == \A q \in Performs \ {p} : perform[q].at \in {"idle", "done"}

(* The perform that takes a step is alone, and knows all this ...          *)
LEMMA Opens ==
  ASSUME OneAtATime, IInv, NEW p \in Performs, p \in Running \/ Running = {}
  PROVE  Typed /\ Knows(p) /\ Alone(p)
<1>1. Alone(p)
  BY DEF IInv, SharedState, Running, Alone
<1>2. Shared(UseCase(p), hook[UseCase(p)].router, fetchUse, object[ObjectOf[p]])
  BY UseCaseType DEF IInv, SharedState, Shared
<1>3. AtRest(perform[p])
  BY DEF IInv
<1>4. CASE p \in Running
  <2>1. perform[p].at \notin {"idle", "done"}
    BY <1>4 DEF Running
  <2>2. Coherent(perform[p], UseCase(p), hook[UseCase(p)].router,
                 hook[UseCase(p)].queuedAction, fetchUse, object[ObjectOf[p]])
    BY <1>4 DEF IInv
  <2>3. QED
    BY <1>1, <1>2, <1>3, <2>1, <2>2 DEF Knows, Local, IInv, Typed
<1>5. CASE Running = {}
  <2>1. perform[p].at \in {"idle", "done"}
    BY <1>5 DEF Running
  <2>2. hook[UseCase(p)].queuedAction = NoAction
    BY <1>5, UseCaseType DEF IInv, QueueDrained
  <2>3. QED
    BY <1>1, <1>2, <1>3, <2>1, <2>2 DEF Knows, Local, IInv, Typed
<1>6. QED
  BY <1>4, <1>5

(* ... and the invariant holds after the step if it knows it still.        *)
LEMMA Closes ==
  ASSUME OneAtATime, IInv, NEW p \in Performs, Alone(p), Typed',
         \A q \in Performs \ {p} : perform'[q] = perform[q],
         OthersKept(UseCase(p)), Knows(p)'
  PROVE  IInv'
<1> DEFINE u == UseCase(p)
           o == ObjectOf[p]
<1>1. \A q \in Performs : UseCase(q) = u /\ ObjectOf[q] = o
  BY DEF OneAtATime, OnOneObject, UseCase
<1>2. u \in UseCases
  BY UseCaseType
<1>3. \A q \in Performs \ {p} : perform'[q].at \in {"idle", "done"}
  BY DEF Alone
<1>4. \A q \in Running' : q = p
  BY <1>3 DEF Running
<1>5. Local(perform'[p], u, hook'[u].router, hook'[u].queuedAction, fetchUse', object'[o])
  BY DEF Knows, UseCase
<1> HIDE DEF u, o
<1>6. /\ AtRest(perform'[p]) /\ Shared(u, hook'[u].router, fetchUse', object'[o])
      /\ perform'[p].at \in {"idle", "done"} => hook'[u].queuedAction = NoAction
      /\ perform'[p].at \notin {"idle", "done"} =>
           Coherent(perform'[p], u, hook'[u].router, hook'[u].queuedAction,
                    fetchUse', object'[o])
  BY <1>5 DEF Local
<1>7. TypeOK' /\ SoundState'
  BY DEF Typed
<1>8. \A q \in Performs : AtRest(perform'[q])
  BY <1>6 DEF IInv
<1>9. \A v \in UseCases \ {u} :
        /\ hook'[v].queuedAction = NoAction
        /\ hook'[v].router.current = NoProvider =>
             \A d \in DOMAIN hook'[v].router.policies :
                hook'[v].router.policies[d].state = "closed"
  BY <1>1 DEF IInv, SharedState, OthersKept, Running, u
<1>10. SharedState'
  <2>1. \A q, w \in Running' : q = w
    BY <1>4
  <2>2. \A v \in UseCases : hook'[v].queuedAction # NoAction =>
          \E q \in Running' : UseCase(q) = v
    <3>1. perform'[p].at \notin {"idle", "done"} => p \in Running'
      BY DEF Running
    <3>2. QED
      BY <1>1, <1>6, <1>9, <3>1
  <2>3. \A v \in UseCases : hook'[v].router.current = NoProvider =>
          \A d \in DOMAIN hook'[v].router.policies :
             hook'[v].router.policies[d].state = "closed"
    BY <1>6, <1>9 DEF Shared
  <2>4. \A q \in Performs :
          /\ hook'[UseCase(q)].router.current = NoProvider
               <=> object'[ObjectOf[q]].provider = NoProvider
          /\ fetchUse' # NoUseCase =>
               fetchUse' = UseCase(q) /\ hook'[fetchUse'].router.current # NoProvider
    BY <1>1, <1>6 DEF Shared
  <2>5. QED
    BY <2>1, <2>2, <2>3, <2>4 DEF SharedState, UseCase
<1>11. \A q \in Running' :
         Coherent(perform'[q], UseCase(q), hook'[UseCase(q)].router,
                  hook'[UseCase(q)].queuedAction, fetchUse', object'[ObjectOf[q]])
  BY <1>1, <1>4, <1>6 DEF Running
<1>12. QueueDrained'
  BY <1>2, <1>6, <1>9 DEF QueueDrained, Running
<1>13. MapRequestsPoliced'
  <2>1. ASSUME NEW q \in Performs,
               perform'[q].at \in {"pre-fetch", "sleep", "fetch", "post-fetch"},
               perform'[q].phase = "map"
        PROVE  fetchUse' = UseCase(q)
    <3>1. q = p
      BY <1>3, <2>1
    <3>2. QED
      BY <1>1, <1>6, <2>1, <3>1 DEF Coherent, RequestKnown, InRequest, InMap
  <2>2. QED
    BY <2>1 DEF MapRequestsPoliced, UseCase
<1>14. UnnamedNeverThrows'
  BY <1>8 DEF UnnamedNeverThrows, AtRest
<1>15. QED
  BY <1>7, <1>8, <1>10, <1>11, <1>12, <1>13, <1>14 DEF IInv, UseCase

(* A step keeps what the perform knows.                                    *)
Keeps(p) ==
  /\ Typed' /\ Knows(p)' /\ OthersKept(UseCase(p))
  /\ \A q \in Performs \ {p} : perform'[q] = perform[q]

(* Where a perform was sent, where it is and who listens stays the same.   *)
Same(k, k1) ==
  /\ k1.provider = k.provider /\ k1.named = k.named /\ k1.target = k.target
  /\ k1.served = k.served /\ k1.phase = k.phase

LEMMA WentSame ==
  ASSUME NEW p, NEW at, NEW result, Went(p, at, result)
  PROVE  /\ perform'[p].at = at /\ perform'[p].result = result
         /\ Same(perform[p], perform'[p])
         /\ perform'[p].heard = perform[p].heard
         /\ \A q \in Performs \ {p} : perform'[q] = perform[q]
  BY DEF Went, Moved, Same

(* What a queued action leaves known of the router and the perform.        *)
LEMMA QueuedKnows ==
  ASSUME NEW r, NEW s, NEW a, NEW target, NEW named,
         QueuedFor(r, s, a, TRUE), r.current = target, named => ~r.allowFailover
  PROVE  /\ a # NoAction /\ s.current # NoProvider
         /\ named => ~s.allowFailover
         /\ a # FullAbort => MayCall(s)
         /\ a.kind = "switch-provider" =>
              /\ ~named /\ a.provider = s.current
              /\ \E i \in DOMAIN Priority :
                   Priority[i] = a.provider /\ i > IndexOf(target)
  BY DEF QueuedFor, FullAbort

LEMMA StartKeeps ==
  ASSUME Typed, NEW p \in Performs, Knows(p), NEW choice \in Options, Start(p, choice)
  PROVE  Keeps(p)
<1> DEFINE k  == perform[p]
           u  == UseCase(p)
           r  == hook[u].router
           q  == hook[u].queuedAction
           f  == fetchUse
           ob == object[ObjectOf[p]]
           k1 == perform'[p]
           s  == hook'[u].router
           a  == hook'[u].queuedAction
<1>1. Local(k, u, r, q, f, ob) /\ Located(k)
  BY KnownFields, TypedParts DEF Knows
<1>2. /\ k.at = "idle" /\ choice \in Providers \cup {NoProvider}
      /\ k1.provider = choice /\ (k1.named <=> choice # NoProvider)
      /\ k1.target = k.target
      /\ choice # NoProvider => ~s.allowFailover
      /\ \/ /\ k1.at = "bind" /\ k1.result = "none" /\ a = q
            /\ s.current = r.current
            /\ r.current = NoProvider => s.policies = r.policies
            /\ choice = NoProvider => MayCall(s)
         \/ /\ k1.at = "post-bind" /\ k1.result = "placeholder"
            /\ choice = NoProvider /\ r.current # NoProvider
            /\ a # NoAction /\ s.current # NoProvider
            /\ a # FullAbort => MayCall(s)
            /\ a.kind = "switch-provider" => a.provider = s.current
  BY StartEffect DEF Went, Moved, Same
<1>3. /\ Typed' /\ OthersKept(u)
      /\ \A w \in Performs \ {p} : perform'[w] = perform[w]
      /\ UNCHANGED <<object, fetchUse>>
  BY StartEffect, WentSame, HookUnchanged, TypedParts DEF Moved
<1> HIDE DEF k, u, r, q, f, ob, k1, s, a
<1>4. Local(k1, u, s, a, f, ob)
  <2>1. CASE k1.at = "bind"
    BY <1>1, <1>2, <2>1, PriorityType DEF Local, Shared, AtRest, Coherent, RouteKnown, QueueKnown,
       PolicyKnown, RequestKnown, WithProvider, InMap, InRequest, Same, NewPerform, NoAction, FullAbort
  <2>2. CASE k1.at = "post-bind"
    BY <1>1, <1>2, <2>2, PriorityType DEF Local, Shared, AtRest, Coherent, RouteKnown, QueueKnown,
       PolicyKnown, RequestKnown, WithProvider, InMap, InRequest, Same, NewPerform, NoAction, FullAbort
  <2>3. QED
    BY <1>2, <2>1, <2>2
<1>5. QED
  BY <1>3, <1>4 DEF Keeps, Knows, UseCase, k, u, r, q, f, ob, k1, s, a

LEMMA BindKeeps ==
  ASSUME Typed, NEW p \in Performs, Knows(p), Bind(p)
  PROVE  Keeps(p)
<1> DEFINE k  == perform[p]
           u  == UseCase(p)
           r  == hook[u].router
           q  == hook[u].queuedAction
           f  == fetchUse
           ob == object[ObjectOf[p]]
           k1 == perform'[p]
           s  == hook'[u].router
           a  == hook'[u].queuedAction
           ob1 == object'[ObjectOf[p]]
<1>1. Local(k, u, r, q, f, ob) /\ Located(k)
  BY KnownFields, TypedParts DEF Knows
<1>2. /\ k.at = "bind" /\ k1.provider = k.provider /\ k1.named = k.named
      /\ k1.served = k.served
      /\ \/ /\ k1.at = "post-bind" /\ k1.result = "sdk-error"
            /\ k1.target = k.target /\ k1.phase = k.phase
            /\ k.provider = NoProvider /\ r.current = NoProvider
            /\ s = r /\ a = q /\ ob1 = ob
         \/ /\ k1.at \in {"assign", "load"} /\ k1.target \in Providers
            /\ k1.phase = "bind" /\ k1.result = k.result
            /\ k1.target = IF k.provider # NoProvider THEN k.provider
                           ELSE IF r.current # NoProvider THEN r.current
                           ELSE DefaultProvider
            /\ a = q /\ s.current = k1.target /\ s.allowFailover = r.allowFailover
            /\ k1.target = r.current => s.policies[k1.target] = r.policies[k1.target]
            /\ (\A d \in DOMAIN r.policies : r.policies[d].state = "closed") =>
                 s.policies[k1.target].state = "closed"
            /\ ob1.provider = k1.target
  BY BindEffect, SMTT(20) DEF Went, Moved, Same
<1>3. /\ Typed' /\ OthersKept(u)
      /\ \A w \in Performs \ {p} : perform'[w] = perform[w]
      /\ UNCHANGED <<fetchUse>>
  BY BindEffect, WentSame, HookUnchanged, TypedParts DEF Moved, Same
<1> HIDE DEF k, u, r, q, f, ob, k1, s, a, ob1
<1>4. Local(k1, u, s, a, f, ob1)
  <2>1. CASE k1.at = "post-bind"
    BY <1>1, <1>2, <2>1 DEF Local, Shared, AtRest, Coherent, RouteKnown, QueueKnown,
       PolicyKnown, RequestKnown, WithProvider, InMap, InRequest, Same, NoAction, FullAbort, MayCall
  <2>2. CASE k1.at \in {"assign", "load"}
    BY <1>1, <1>2, <2>2 DEF Local, Shared, AtRest, Coherent, RouteKnown, QueueKnown,
       PolicyKnown, RequestKnown, WithProvider, InMap, InRequest, Same, NoAction, FullAbort, MayCall
  <2>3. QED
    BY <1>2, <2>1, <2>2
<1>5. QED
  BY <1>3, <1>4 DEF Keeps, Knows, UseCase, k, u, r, q, f, ob, k1, s, a, ob1

LEMMA LoadKeeps ==
  ASSUME Typed, NEW p \in Performs, Knows(p), Load(p)
  PROVE  Keeps(p)
<1> DEFINE k  == perform[p]
           u  == UseCase(p)
           r  == hook[u].router
           q  == hook[u].queuedAction
           f  == fetchUse
           ob == object[ObjectOf[p]]
           k1 == perform'[p]
           f1 == fetchUse'
<1>1. Local(k, u, r, q, f, ob) /\ Located(k)
  BY KnownFields, TypedParts DEF Knows
<1>2. /\ k.at = "load" /\ Same(k, k1)
      /\ \/ k1.at = "assign" /\ k1.result = k.result /\ f1 = NoUseCase
         \/ k1.at = "pre-fetch" /\ k1.result = k.result /\ f1 = f
         \/ k1.at = "post-bind" /\ k1.result \in {"error", "sdk-error"} /\ f1 = f
  BY LoadEffect DEF Went, Moved, Same
<1>3. /\ Typed' /\ OthersKept(u)
      /\ \A w \in Performs \ {p} : perform'[w] = perform[w]
      /\ UNCHANGED <<hook, object>>
  BY LoadEffect, WentSame, HookUnchanged, TypedParts DEF Moved
<1> HIDE DEF k, u, r, q, f, ob, k1, f1
<1>4. Local(k1, u, r, q, f1, ob)
  BY <1>1, <1>2 DEF Local, Shared, AtRest, Coherent, RouteKnown, QueueKnown,
     PolicyKnown, RequestKnown, WithProvider, InMap, InRequest, Same, Located
<1>5. QED
  BY <1>3, <1>4 DEF Keeps, Knows, UseCase, k, u, r, q, f, ob, k1, f1

LEMMA AssignKeeps ==
  ASSUME Typed, NEW p \in Performs, Knows(p), Assign(p)
  PROVE  Keeps(p)
<1> DEFINE k  == perform[p]
           u  == UseCase(p)
           r  == hook[u].router
           q  == hook[u].queuedAction
           f  == fetchUse
           ob == object[ObjectOf[p]]
           k1 == perform'[p]
           ob1 == object'[ObjectOf[p]]
<1>1. Local(k, u, r, q, f, ob) /\ Located(k)
  BY KnownFields, TypedParts DEF Knows
<1>2. /\ k.at = "assign" /\ k1.at = "perform" /\ k1.result = k.result /\ Same(k, k1)
      /\ ob1.bound = k.target /\ ob1.provider = ob.provider
  BY AssignEffect DEF Went, Moved, Same
<1>3. /\ Typed' /\ OthersKept(u)
      /\ \A w \in Performs \ {p} : perform'[w] = perform[w]
      /\ UNCHANGED <<hook, fetchUse>>
  BY AssignEffect, WentSame, HookUnchanged, TypedParts DEF Moved
<1> HIDE DEF k, u, r, q, f, ob, k1, ob1
<1>4. Local(k1, u, r, q, f, ob1)
  BY <1>1, <1>2 DEF Local, Shared, AtRest, Coherent, RouteKnown, QueueKnown,
     PolicyKnown, RequestKnown, WithProvider, InMap, InRequest, Same, Located
<1>5. QED
  BY <1>3, <1>4 DEF Keeps, Knows, UseCase, k, u, r, q, f, ob, k1, ob1

LEMMA PerformBoundKeeps ==
  ASSUME Typed, NEW p \in Performs, Knows(p), PerformBound(p)
  PROVE  Keeps(p)
<1> DEFINE k  == perform[p]
           u  == UseCase(p)
           r  == hook[u].router
           q  == hook[u].queuedAction
           f  == fetchUse
           ob == object[ObjectOf[p]]
           k1 == perform'[p]
           f1 == fetchUse'
<1>1. Local(k, u, r, q, f, ob) /\ Located(k)
  BY KnownFields, TypedParts DEF Knows
<1>2. /\ k.at = "perform" /\ k1.at = "map" /\ k1.result = k.result
      /\ k1.provider = k.provider /\ k1.named = k.named /\ k1.target = k.target
      /\ k1.served = ob.bound /\ k1.phase = "map" /\ f1 = u
  BY PerformBoundEffect DEF Went, Moved, Same
<1>3. /\ Typed' /\ OthersKept(u)
      /\ \A w \in Performs \ {p} : perform'[w] = perform[w]
      /\ UNCHANGED <<hook, object>>
  BY PerformBoundEffect, WentSame, HookUnchanged, TypedParts DEF Moved
<1> HIDE DEF k, u, r, q, f, ob, k1, f1
<1>4. Local(k1, u, r, q, f1, ob)
  BY <1>1, <1>2 DEF Local, Shared, AtRest, Coherent, RouteKnown, QueueKnown,
     PolicyKnown, RequestKnown, WithProvider, InMap, InRequest, Same, Located
<1>5. QED
  BY <1>3, <1>4 DEF Keeps, Knows, UseCase, k, u, r, q, f, ob, k1, f1

LEMMA MapEndsKeeps ==
  ASSUME Typed, NEW p \in Performs, Knows(p), NEW result \in {"ok", "error", "sdk-error"},
         MapEnds(p, result)
  PROVE  Keeps(p)
<1> DEFINE k  == perform[p]
           u  == UseCase(p)
           r  == hook[u].router
           q  == hook[u].queuedAction
           f  == fetchUse
           ob == object[ObjectOf[p]]
           k1 == perform'[p]
<1>1. Local(k, u, r, q, f, ob) /\ Located(k)
  BY KnownFields, TypedParts DEF Knows
<1>2. /\ k.at = "map" /\ k1.at = "post-bind" /\ k1.result = result /\ Same(k, k1)
  BY MapEndsEffect DEF Went, Moved, Same
<1>3. /\ Typed' /\ OthersKept(u)
      /\ \A w \in Performs \ {p} : perform'[w] = perform[w]
      /\ UNCHANGED <<hook, object, fetchUse>>
  BY MapEndsEffect, WentSame, HookUnchanged, TypedParts DEF Moved
<1> HIDE DEF k, u, r, q, f, ob, k1
<1>4. Local(k1, u, r, q, f, ob)
  BY <1>1, <1>2 DEF Local, Shared, AtRest, Coherent, RouteKnown, QueueKnown,
     PolicyKnown, RequestKnown, WithProvider, InMap, InRequest, Same, Located
<1>5. QED
  BY <1>3, <1>4 DEF Keeps, Knows, UseCase, k, u, r, q, f, ob, k1

LEMMA MapCallsKeeps ==
  ASSUME Typed, NEW p \in Performs, Knows(p), MapCalls(p)
  PROVE  Keeps(p)
<1> DEFINE k  == perform[p]
           u  == UseCase(p)
           r  == hook[u].router
           q  == hook[u].queuedAction
           f  == fetchUse
           ob == object[ObjectOf[p]]
           k1 == perform'[p]
<1>1. Local(k, u, r, q, f, ob) /\ Located(k)
  BY KnownFields, TypedParts DEF Knows
<1>2. /\ k.at = "map" /\ k1.at = "pre-fetch" /\ k1.result = k.result /\ Same(k, k1)
  BY MapCallsEffect DEF Went, Moved, Same
<1>3. /\ Typed' /\ OthersKept(u)
      /\ \A w \in Performs \ {p} : perform'[w] = perform[w]
      /\ UNCHANGED <<hook, object, fetchUse>>
  BY MapCallsEffect, WentSame, HookUnchanged, TypedParts DEF Moved
<1> HIDE DEF k, u, r, q, f, ob, k1
<1>4. Local(k1, u, r, q, f, ob)
  BY <1>1, <1>2 DEF Local, Shared, AtRest, Coherent, RouteKnown, QueueKnown,
     PolicyKnown, RequestKnown, WithProvider, InMap, InRequest, Same, Located
<1>5. QED
  BY <1>3, <1>4 DEF Keeps, Knows, UseCase, k, u, r, q, f, ob, k1

LEMMA PreFetchKeeps ==
  ASSUME Typed, NEW p \in Performs, Knows(p), PreFetch(p)
  PROVE  Keeps(p)
<1> DEFINE k  == perform[p]
           u  == UseCase(p)
           r  == hook[u].router
           q  == hook[u].queuedAction
           f  == fetchUse
           ob == object[ObjectOf[p]]
           k1 == perform'[p]
           s  == hook'[u].router
           a  == hook'[u].queuedAction
<1>1. Local(k, u, r, q, f, ob) /\ Located(k)
  BY KnownFields, TypedParts DEF Knows
<1>2. u # NoUseCase /\ (f = NoUseCase \/ f = u)
  BY <1>1, UseCaseType, PerformAssumption DEF Local, Shared
<1>3. /\ k.at = "pre-fetch" /\ Same(k, k1)
      /\ \/ /\ f = NoUseCase /\ s = r /\ a = q
            /\ k1.at = "fetch" /\ k1.result = k.result
         \/ /\ f = u /\ a = q /\ Admitted(r, s)
            /\ k1.at \in {"fetch", "sleep"} /\ k1.result = k.result
         \/ /\ f = u /\ QueuedFor(r, s, a, TRUE)
            /\ k1.at = "post-fetch" /\ k1.result = "placeholder"
  BY <1>2, PreFetchEffect, HookUnchanged, TypedParts, PerformAssumption DEF Went, Moved, Same
<1>4. /\ Typed' /\ OthersKept(u)
      /\ \A w \in Performs \ {p} : perform'[w] = perform[w]
      /\ UNCHANGED <<object, fetchUse>>
  BY <1>2, PreFetchEffect, WentSame, HookUnchanged, TypedParts, HookUnchanged, TypedParts, PerformAssumption DEF Moved
<1> HIDE DEF k, u, r, q, f, ob, k1, s, a
<1>5. Local(k1, u, s, a, f, ob)
  <2>1. CASE f = NoUseCase /\ s = r /\ a = q /\ k1.at = "fetch" /\ k1.result = k.result
    BY <1>1, <1>2, <1>3, <2>1 DEF Local, Shared, AtRest, Coherent, RouteKnown, QueueKnown,
       PolicyKnown, RequestKnown, WithProvider, InMap, InRequest, Same, Located, Admitted, NoAction, FullAbort
  <2>2. CASE f = u /\ Admitted(r, s) /\ k1.at \in {"fetch", "sleep"} /\ a = q /\ k1.result = k.result
    BY <1>1, <1>2, <1>3, <2>2 DEF Local, Shared, AtRest, Coherent, RouteKnown, QueueKnown,
       PolicyKnown, RequestKnown, WithProvider, InMap, InRequest, Same, Located, Admitted, NoAction, FullAbort
  <2>3. CASE f = u /\ QueuedFor(r, s, a, TRUE) /\ k1.at = "post-fetch" /\ k1.result = "placeholder"
    <3>1. (k.named => ~r.allowFailover) /\ r.current = k.target
      BY <1>1, <1>2, <1>3, <2>3 DEF Local, Coherent, RouteKnown, QueueKnown, PolicyKnown, WithProvider
    <3>2. QueuedFor(r, s, a, TRUE)
      BY <1>1, <1>2, <1>3, <2>3
    <3>3. /\ a # NoAction /\ s.current # NoProvider
          /\ k.named => ~s.allowFailover
          /\ a # FullAbort => MayCall(s)
          /\ a.kind = "switch-provider" =>
               /\ ~k.named /\ a.provider = s.current
               /\ \E i \in DOMAIN Priority :
                    Priority[i] = a.provider /\ i > IndexOf(k.target)
      BY <3>1, <3>2, QueuedKnows
    <3>4. QED
      BY <1>1, <1>2, <1>3, <2>3, <3>1, <3>3 DEF Local, Shared, AtRest, Coherent, RouteKnown, QueueKnown,
         PolicyKnown, RequestKnown, WithProvider, InMap, InRequest, Same, Located, Admitted, NoAction, FullAbort
  <2>4. QED
    BY <1>3, <2>1, <2>2, <2>3
<1>6. QED
  BY <1>4, <1>5 DEF Keeps, Knows, UseCase, k, u, r, q, f, ob, k1, s, a

LEMMA WakeKeeps ==
  ASSUME Typed, NEW p \in Performs, Knows(p), Wake(p)
  PROVE  Keeps(p)
<1> DEFINE k  == perform[p]
           u  == UseCase(p)
           r  == hook[u].router
           q  == hook[u].queuedAction
           f  == fetchUse
           ob == object[ObjectOf[p]]
           k1 == perform'[p]
<1>1. Local(k, u, r, q, f, ob) /\ Located(k)
  BY KnownFields, TypedParts DEF Knows
<1>2. /\ k.at = "sleep" /\ k1.at = "fetch" /\ k1.result = k.result /\ Same(k, k1)
  BY WakeEffect DEF Went, Moved, Same
<1>3. /\ Typed' /\ OthersKept(u)
      /\ \A w \in Performs \ {p} : perform'[w] = perform[w]
      /\ UNCHANGED <<hook, object, fetchUse>>
  BY WakeEffect, WentSame, HookUnchanged, TypedParts DEF Moved
<1> HIDE DEF k, u, r, q, f, ob, k1
<1>4. Local(k1, u, r, q, f, ob)
  BY <1>1, <1>2 DEF Local, Shared, AtRest, Coherent, RouteKnown, QueueKnown,
     PolicyKnown, RequestKnown, WithProvider, InMap, InRequest, Same, Located
<1>5. QED
  BY <1>3, <1>4 DEF Keeps, Knows, UseCase, k, u, r, q, f, ob, k1

LEMMA FetchKeeps ==
  ASSUME Typed, NEW p \in Performs, Knows(p), NEW result \in {"ok", "http", "network"},
         Fetch(p, result)
  PROVE  Keeps(p)
<1> DEFINE k  == perform[p]
           u  == UseCase(p)
           r  == hook[u].router
           q  == hook[u].queuedAction
           f  == fetchUse
           ob == object[ObjectOf[p]]
           k1 == perform'[p]
<1>1. Local(k, u, r, q, f, ob) /\ Located(k)
  BY KnownFields, TypedParts DEF Knows
<1>2. /\ k.at = "fetch" /\ k1.at = "post-fetch" /\ k1.result = result /\ Same(k, k1)
  BY FetchEffect DEF Went, Moved, Same
<1>3. /\ Typed' /\ OthersKept(u)
      /\ \A w \in Performs \ {p} : perform'[w] = perform[w]
      /\ UNCHANGED <<hook, object, fetchUse>>
  BY FetchEffect, WentSame, HookUnchanged, TypedParts DEF Moved
<1> HIDE DEF k, u, r, q, f, ob, k1
<1>4. Local(k1, u, r, q, f, ob)
  BY <1>1, <1>2 DEF Local, Shared, AtRest, Coherent, RouteKnown, QueueKnown,
     PolicyKnown, RequestKnown, WithProvider, InMap, InRequest, Same, Located
<1>5. QED
  BY <1>3, <1>4 DEF Keeps, Knows, UseCase, k, u, r, q, f, ob, k1

LEMMA PostFetchKeeps ==
  ASSUME Typed, NEW p \in Performs, Knows(p), PostFetch(p)
  PROVE  Keeps(p)
<1> DEFINE k  == perform[p]
           u  == UseCase(p)
           r  == hook[u].router
           q  == hook[u].queuedAction
           f  == fetchUse
           ob == object[ObjectOf[p]]
           k1 == perform'[p]
           f1 == fetchUse'
<1>1. Local(k, u, r, q, f, ob) /\ Located(k)
  BY KnownFields, TypedParts DEF Knows
<1>2. f = NoUseCase \/ f = u
  BY <1>1 DEF Local, Shared
<1>3. /\ k.at = "post-fetch" /\ Same(k, k1)
      /\ \/ /\ f # NoUseCase /\ k.result \notin {"ok", "http"} /\ f1 = f
            /\ q = NoAction
            /\ k1.at = "fetch-failed" /\ k1.result = k.result /\ k1.heard = f
         \/ /\ k.phase = "map" /\ k.result \in {"ok", "http"} /\ f1 = f
            /\ k1.at \in {"map", "unhandled"} /\ k1.result = k.result
         \/ /\ k.phase = "bind" /\ k.result = "ok" /\ f1 = NoUseCase
            /\ k1.at = "assign" /\ k1.result = k.result
         \/ /\ f1 = f /\ k1.at = "post-bind" /\ k1.result # "ok"
            /\ k1.result \in {"sdk-error", "error", k.result}
  BY <1>2, PostFetchEffect DEF Went, Moved, Same
<1>4. /\ Typed' /\ OthersKept(u)
      /\ \A w \in Performs \ {p} : perform'[w] = perform[w]
      /\ UNCHANGED <<hook, object>>
  BY <1>2, PostFetchEffect, WentSame, HookUnchanged, TypedParts DEF Moved, Same
<1> HIDE DEF k, u, r, q, f, ob, k1, f1
<1>5. Local(k1, u, r, q, f1, ob)
  <2>1. CASE k1.at = "fetch-failed"
    BY <1>1, <1>2, <1>3, <2>1 DEF Local, Shared, AtRest, Coherent, RouteKnown, QueueKnown,
       PolicyKnown, RequestKnown, WithProvider, InMap, InRequest, Same, Located
  <2>2. CASE k1.at \in {"map", "unhandled"}
    BY <1>1, <1>2, <1>3, <2>2 DEF Local, Shared, AtRest, Coherent, RouteKnown, QueueKnown,
       PolicyKnown, RequestKnown, WithProvider, InMap, InRequest, Same, Located
  <2>3. CASE k1.at = "assign"
    BY <1>1, <1>2, <1>3, <2>3 DEF Local, Shared, AtRest, Coherent, RouteKnown, QueueKnown,
       PolicyKnown, RequestKnown, WithProvider, InMap, InRequest, Same, Located
  <2>4. CASE k1.at = "post-bind"
    BY <1>1, <1>2, <1>3, <2>4 DEF Local, Shared, AtRest, Coherent, RouteKnown, QueueKnown,
       PolicyKnown, RequestKnown, WithProvider, InMap, InRequest, Same, Located
  <2>5. QED
    BY <1>3, <2>1, <2>2, <2>3, <2>4
<1>6. QED
  BY <1>4, <1>5 DEF Keeps, Knows, UseCase, k, u, r, q, f, ob, k1, f1

LEMMA FetchFailedKeeps ==
  ASSUME Typed, NEW p \in Performs, Knows(p), FetchFailed(p)
  PROVE  Keeps(p)
<1> DEFINE k  == perform[p]
           u  == UseCase(p)
           r  == hook[u].router
           q  == hook[u].queuedAction
           f  == fetchUse
           ob == object[ObjectOf[p]]
           k1 == perform'[p]
           s  == hook'[u].router
           a  == hook'[u].queuedAction
<1>1. Local(k, u, r, q, f, ob) /\ Located(k)
  BY KnownFields, TypedParts DEF Knows
<1>2. k.heard = u
  BY <1>1, FetchFailedEffect, PerformAssumption DEF Local, Shared, Coherent, RequestKnown
<1>3. /\ k.at = "fetch-failed" /\ Same(k, k1)
      /\ \/ /\ s = r /\ a = q
            /\ r.current # NoProvider => ~MayCall(r)
            /\ k1.at = "post-bind" /\ k1.result \in {"throw", "error"}
         \/ /\ a = q /\ Admitted(r, s)
            /\ k1.at = "pre-fetch" /\ k1.result = k.result
         \/ /\ QueuedFor(r, s, a, TRUE)
            /\ k1.at = "post-bind" /\ k1.result \in {"placeholder", "error"}
  <2>1. k.at = "fetch-failed" /\ Same(k, k1)
    BY <1>2, FetchFailedEffect DEF Moved, Same
  <2>2. \/ /\ UNCHANGED hook /\ (r.current # NoProvider => ~MayCall(r))
           /\ k1.at = "post-bind" /\ k1.result \in {"throw", "error"}
        \/ /\ a = q /\ Admitted(r, s)
           /\ k1.at = "pre-fetch" /\ k1.result = k.result
        \/ /\ QueuedFor(r, s, a, TRUE)
           /\ k1.at = "post-bind" /\ k1.result \in {"placeholder", "error"}
    BY <1>2, FetchFailedEffect, ZenonT(40) DEF Moved
  <2>3. QED
    BY <2>1, <2>2
<1>4. /\ Typed' /\ OthersKept(u)
      /\ \A w \in Performs \ {p} : perform'[w] = perform[w]
      /\ UNCHANGED <<object, fetchUse>>
  <2>1. Typed' /\ OthersKept(u) /\ UNCHANGED <<object, fetchUse>>
    BY <1>2, FetchFailedEffect
  <2>2. \A w \in Performs \ {p} : perform'[w] = perform[w]
    BY FetchFailedEffect DEF Moved
  <2>3. QED
    BY <2>1, <2>2
<1> HIDE DEF k, u, r, q, f, ob, k1, s, a
<1>5. Local(k1, u, s, a, f, ob)
  <2>1. CASE s = r /\ a = q /\ (r.current # NoProvider => ~MayCall(r))
              /\ k1.at = "post-bind" /\ k1.result \in {"throw", "error"}
    BY <1>1, <1>2, <1>3, <2>1 DEF Local, Shared, AtRest, Coherent, RouteKnown, QueueKnown,
       PolicyKnown, RequestKnown, WithProvider, InMap, InRequest, Same, Located, Admitted, NoAction, FullAbort
  <2>2. CASE k1.at = "pre-fetch" /\ a = q /\ Admitted(r, s) /\ k1.result = k.result
    BY <1>1, <1>2, <1>3, <2>2 DEF Local, Shared, AtRest, Coherent, RouteKnown, QueueKnown,
       PolicyKnown, RequestKnown, WithProvider, InMap, InRequest, Same, Located, Admitted, NoAction, FullAbort
  <2>3. CASE QueuedFor(r, s, a, TRUE) /\ k1.at = "post-bind"
              /\ k1.result \in {"placeholder", "error"}
    <3>1. (k.named => ~r.allowFailover) /\ r.current = k.target
      BY <1>1, <1>2, <1>3, <2>3 DEF Local, Coherent, RouteKnown, QueueKnown, PolicyKnown, WithProvider
    <3>2. QueuedFor(r, s, a, TRUE)
      BY <1>1, <1>2, <1>3, <2>3
    <3>3. /\ a # NoAction /\ s.current # NoProvider
          /\ k.named => ~s.allowFailover
          /\ a # FullAbort => MayCall(s)
          /\ a.kind = "switch-provider" =>
               /\ ~k.named /\ a.provider = s.current
               /\ \E i \in DOMAIN Priority :
                    Priority[i] = a.provider /\ i > IndexOf(k.target)
      BY <3>1, <3>2, QueuedKnows
    <3>4. QED
      BY <1>1, <1>2, <1>3, <2>3, <3>1, <3>3 DEF Local, Shared, AtRest, Coherent, RouteKnown, QueueKnown,
         PolicyKnown, RequestKnown, WithProvider, InMap, InRequest, Same, Located, Admitted, NoAction, FullAbort
  <2>4. QED
    BY <1>3, <2>1, <2>2, <2>3
<1>6. QED
  BY <1>4, <1>5 DEF Keeps, Knows, UseCase, k, u, r, q, f, ob, k1, s, a

LEMMA UnhandledHttpKeeps ==
  ASSUME Typed, NEW p \in Performs, Knows(p), UnhandledHttp(p)
  PROVE  Keeps(p)
<1> DEFINE k  == perform[p]
           u  == UseCase(p)
           r  == hook[u].router
           q  == hook[u].queuedAction
           f  == fetchUse
           ob == object[ObjectOf[p]]
           k1 == perform'[p]
           s  == hook'[u].router
           a  == hook'[u].queuedAction
<1>1. Local(k, u, r, q, f, ob) /\ Located(k)
  BY KnownFields, TypedParts DEF Knows
<1>2. /\ k.at = "unhandled" /\ Same(k, k1)
      /\ \/ /\ s = r /\ a = q /\ k1.at = "map" /\ k1.result = k.result
         \/ /\ s = r /\ a = q /\ q # NoAction
            /\ k1.at = "post-bind" /\ k1.result = "error"
         \/ /\ s = r /\ a = q /\ (r.current # NoProvider => ~MayCall(r))
            /\ k1.at = "post-bind" /\ k1.result = "throw"
         \/ /\ a = q /\ Admitted(r, s)
            /\ k1.at = "pre-fetch" /\ k1.result = k.result
         \/ /\ QueuedFor(r, s, a, TRUE)
            /\ k1.at = "post-bind" /\ k1.result = "placeholder"
  BY UnhandledHttpEffect DEF Went, Moved, Same
<1>3. /\ Typed' /\ OthersKept(u)
      /\ \A w \in Performs \ {p} : perform'[w] = perform[w]
      /\ UNCHANGED <<object, fetchUse>>
  BY UnhandledHttpEffect, WentSame, HookUnchanged, TypedParts DEF Moved
<1> HIDE DEF k, u, r, q, f, ob, k1, s, a
<1>4. Local(k1, u, s, a, f, ob)
  <2>1. CASE k1.at = "map"
    BY <1>1, <1>2, <2>1 DEF Local, Shared, AtRest, Coherent, RouteKnown, QueueKnown,
       PolicyKnown, RequestKnown, WithProvider, InMap, InRequest, Same, Located, Admitted, NoAction, FullAbort
  <2>2. CASE k1.result = "error"
    BY <1>1, <1>2, <2>2 DEF Local, Shared, AtRest, Coherent, RouteKnown, QueueKnown,
       PolicyKnown, RequestKnown, WithProvider, InMap, InRequest, Same, Located, Admitted, NoAction, FullAbort
  <2>3. CASE k1.result = "throw"
    BY <1>1, <1>2, <2>3 DEF Local, Shared, AtRest, Coherent, RouteKnown, QueueKnown,
       PolicyKnown, RequestKnown, WithProvider, InMap, InRequest, Same, Located, Admitted, NoAction, FullAbort
  <2>4. CASE k1.at = "pre-fetch"
    BY <1>1, <1>2, <2>4 DEF Local, Shared, AtRest, Coherent, RouteKnown, QueueKnown,
       PolicyKnown, RequestKnown, WithProvider, InMap, InRequest, Same, Located, Admitted, NoAction, FullAbort
  <2>5. CASE QueuedFor(r, s, a, TRUE) /\ k1.at = "post-bind" /\ k1.result = "placeholder"
    <3>1. (k.named => ~r.allowFailover) /\ r.current = k.target
      BY <1>1, <1>2, <2>5 DEF Local, Coherent, RouteKnown, QueueKnown, PolicyKnown, WithProvider
    <3>2. QueuedFor(r, s, a, TRUE)
      BY <1>1, <1>2, <2>5
    <3>3. /\ a # NoAction /\ s.current # NoProvider
          /\ k.named => ~s.allowFailover
          /\ a # FullAbort => MayCall(s)
          /\ a.kind = "switch-provider" =>
               /\ ~k.named /\ a.provider = s.current
               /\ \E i \in DOMAIN Priority :
                    Priority[i] = a.provider /\ i > IndexOf(k.target)
      BY <3>1, <3>2, QueuedKnows
    <3>4. QED
      BY <1>1, <1>2, <2>5, <3>1, <3>3 DEF Local, Shared, AtRest, Coherent, RouteKnown, QueueKnown,
         PolicyKnown, RequestKnown, WithProvider, InMap, InRequest, Same, Located, Admitted, NoAction, FullAbort
  <2>6. QED
    BY <1>2, <2>1, <2>2, <2>3, <2>4, <2>5
<1>5. QED
  BY <1>3, <1>4 DEF Keeps, Knows, UseCase, k, u, r, q, f, ob, k1, s, a

LEMMA PostBindKeeps ==
  ASSUME Typed, NEW p \in Performs, Knows(p), PostBind(p)
  PROVE  Keeps(p)
<1> DEFINE k  == perform[p]
           u  == UseCase(p)
           r  == hook[u].router
           q  == hook[u].queuedAction
           f  == fetchUse
           ob == object[ObjectOf[p]]
           k1 == perform'[p]
           s  == hook'[u].router
           a  == hook'[u].queuedAction
<1>1. Local(k, u, r, q, f, ob) /\ Located(k)
  BY KnownFields, TypedParts DEF Knows
<1>2. /\ k.at = "post-bind" /\ s = r
      /\ k1.named = k.named /\ k1.target = k.target /\ k1.served = k.served
      /\ k1.phase = k.phase
      /\ \/ /\ ob.provider = NoProvider /\ a = q
            /\ k1.provider = k.provider
            /\ k1.at = "done" /\ k1.result = "invalid-context"
         \/ /\ ob.provider # NoProvider /\ q = NoAction /\ a = NoAction
            /\ k1.provider = k.provider
            /\ k1.at = "settle" /\ k1.result = k.result
         \/ /\ ob.provider # NoProvider /\ q # NoAction /\ a = NoAction
            /\ q.kind = "switch-provider" /\ k1.at = "bind" /\ k1.result = "none"
            /\ k1.provider = q.provider
         \/ /\ ob.provider # NoProvider /\ q # NoAction /\ a = NoAction
            /\ k1.at = "done" /\ k1.result = "reason"
  BY PostBindEffect DEF Went, Moved, Same, Consumed
<1>3. /\ Typed' /\ OthersKept(u)
      /\ \A w \in Performs \ {p} : perform'[w] = perform[w]
      /\ UNCHANGED <<object, fetchUse>>
  BY PostBindEffect, WentSame, HookUnchanged, TypedParts DEF Moved, Same, Consumed
<1> HIDE DEF k, u, r, q, f, ob, k1, s, a
<1>4. Local(k1, u, s, a, f, ob)
  <2>1. CASE k1.result = "invalid-context"
    BY <1>1, <1>2, <2>1 DEF Local, Shared, AtRest, Coherent, RouteKnown, QueueKnown,
       PolicyKnown, RequestKnown, WithProvider, InMap, InRequest, Same, NoAction, FullAbort
  <2>2. CASE k1.at = "settle"
    BY <1>1, <1>2, <2>2 DEF Local, Shared, AtRest, Coherent, RouteKnown, QueueKnown,
       PolicyKnown, RequestKnown, WithProvider, InMap, InRequest, Same, NoAction, FullAbort
  <2>3. CASE k1.at = "bind"
    BY <1>1, <1>2, <2>3 DEF Local, Shared, AtRest, Coherent, RouteKnown, QueueKnown,
       PolicyKnown, RequestKnown, WithProvider, InMap, InRequest, Same, NoAction, FullAbort
  <2>4. CASE k1.result = "reason"
    BY <1>1, <1>2, <2>4 DEF Local, Shared, AtRest, Coherent, RouteKnown, QueueKnown,
       PolicyKnown, RequestKnown, WithProvider, InMap, InRequest, Same, NoAction, FullAbort
  <2>5. QED
    BY <1>2, <2>1, <2>2, <2>3, <2>4
<1>5. QED
  BY <1>3, <1>4 DEF Keeps, Knows, UseCase, k, u, r, q, f, ob, k1, s, a

LEMMA SettleSuccessKeeps ==
  ASSUME Typed, NEW p \in Performs, Knows(p), SettleSuccess(p)
  PROVE  Keeps(p)
<1> DEFINE k  == perform[p]
           u  == UseCase(p)
           r  == hook[u].router
           q  == hook[u].queuedAction
           f  == fetchUse
           ob == object[ObjectOf[p]]
           k1 == perform'[p]
           s  == hook'[u].router
           a  == hook'[u].queuedAction
<1>1. Local(k, u, r, q, f, ob) /\ Located(k)
  BY KnownFields, TypedParts DEF Knows
<1>2. /\ k.at = "settle" /\ a = q /\ s.current = r.current
      /\ Same(k, k1) /\ k1.at = "done" /\ k1.result \in {"ok", "throw"}
      /\ r.current # NoProvider /\ MayCall(r) => k1.result = "ok"
  BY SettleSuccessEffect DEF Went, Moved, Same
<1>3. /\ Typed' /\ OthersKept(u)
      /\ \A w \in Performs \ {p} : perform'[w] = perform[w]
      /\ UNCHANGED <<object, fetchUse>>
  BY SettleSuccessEffect, WentSame, HookUnchanged, TypedParts DEF Moved
<1> HIDE DEF k, u, r, q, f, ob, k1, s, a
<1>4. Local(k1, u, s, a, f, ob)
  BY <1>1, <1>2 DEF Local, Shared, AtRest, Coherent, RouteKnown, QueueKnown,
     PolicyKnown, RequestKnown, WithProvider, InMap, InRequest, Same, NoAction, FullAbort
<1>5. QED
  BY <1>3, <1>4 DEF Keeps, Knows, UseCase, k, u, r, q, f, ob, k1, s, a

LEMMA SettleFailureKeeps ==
  ASSUME Typed, NEW p \in Performs, Knows(p), SettleFailure(p)
  PROVE  Keeps(p)
<1> DEFINE k  == perform[p]
           u  == UseCase(p)
           r  == hook[u].router
           q  == hook[u].queuedAction
           f  == fetchUse
           ob == object[ObjectOf[p]]
           k1 == perform'[p]
           s  == hook'[u].router
           a  == hook'[u].queuedAction
<1>1. Local(k, u, r, q, f, ob) /\ Located(k)
  BY KnownFields, TypedParts DEF Knows
<1>2. /\ k.at = "settle"
      /\ k1.named = k.named /\ k1.target = k.target /\ k1.served = k.served
      /\ k1.phase = k.phase
      /\ \/ /\ a = NoAction
            /\ Diverted(r, s, k1.provider)
            /\ k1.at = "bind" /\ k1.result = "none"
         \/ a = NoAction /\ q # NoAction
         \/ /\ a = q /\ s.current = r.current /\ k1.at = "done"
            /\ \/ k1.result = k.result /\ q = NoAction
               \/ /\ k1.result = "throw"
                  /\ r.current # NoProvider => ~MayCall(r)
  BY SettleFailureEffect DEF Went, Moved, Same, Consumed
<1>3. /\ Typed' /\ OthersKept(u)
      /\ \A w \in Performs \ {p} : perform'[w] = perform[w]
      /\ UNCHANGED <<object, fetchUse>>
  BY SettleFailureEffect, WentSame, HookUnchanged, TypedParts DEF Moved, Same, Consumed
<1> HIDE DEF k, u, r, q, f, ob, k1, s, a
<1>4. Local(k1, u, s, a, f, ob)
  <2>1. CASE q # NoAction
    BY <1>1, <1>2, <2>1 DEF Local, Shared, AtRest, Coherent, RouteKnown, QueueKnown,
       PolicyKnown, RequestKnown, WithProvider, InMap, InRequest, Same, NoAction, FullAbort, Diverted
  <2>2. CASE q = NoAction /\ k1.at = "bind"
    BY <1>1, <1>2, <2>2 DEF Local, Shared, AtRest, Coherent, RouteKnown, QueueKnown,
       PolicyKnown, RequestKnown, WithProvider, InMap, InRequest, Same, NoAction, FullAbort, Diverted
  <2>3. CASE q = NoAction /\ k1.at = "done"
    BY <1>1, <1>2, <2>3 DEF Local, Shared, AtRest, Coherent, RouteKnown, QueueKnown,
       PolicyKnown, RequestKnown, WithProvider, InMap, InRequest, Same, NoAction, FullAbort, Diverted
  <2>4. QED
    BY <1>2, <2>1, <2>2, <2>3
<1>5. QED
  BY <1>3, <1>4 DEF Keeps, Knows, UseCase, k, u, r, q, f, ob, k1, s, a

(* A step of a started perform keeps what it knows, and each place that    *)
(* the properties speak of is reached and left by these steps alone.       *)
LEMMA StepKeeps ==
  ASSUME Typed, NEW p \in Performs, Knows(p), Step(p)
  PROVE  Keeps(p)
<1>1. CASE Bind(p)
  BY <1>1, BindKeeps
<1>2. CASE Load(p)
  BY <1>2, LoadKeeps
<1>3. CASE Assign(p)
  BY <1>3, AssignKeeps
<1>4. CASE PerformBound(p)
  BY <1>4, PerformBoundKeeps
<1>5. CASE \E result \in {"ok", "error", "sdk-error"} : MapEnds(p, result)
  BY <1>5, MapEndsKeeps
<1>6. CASE MapCalls(p)
  BY <1>6, MapCallsKeeps
<1>7. CASE PreFetch(p)
  BY <1>7, PreFetchKeeps
<1>8. CASE Wake(p)
  BY <1>8, WakeKeeps
<1>9. CASE \E result \in {"ok", "http", "network"} : Fetch(p, result)
  BY <1>9, FetchKeeps
<1>10. CASE PostFetch(p)
  BY <1>10, PostFetchKeeps
<1>11. CASE FetchFailed(p)
  BY <1>11, FetchFailedKeeps
<1>12. CASE UnhandledHttp(p)
  BY <1>12, UnhandledHttpKeeps
<1>13. CASE PostBind(p)
  BY <1>13, PostBindKeeps
<1>14. CASE SettleSuccess(p)
  BY <1>14, SettleSuccessKeeps
<1>15. CASE SettleFailure(p)
  BY <1>15, SettleFailureKeeps
<1>16. QED
  BY <1>1, <1>2, <1>3, <1>4, <1>5, <1>6, <1>7, <1>8, <1>9, <1>10, <1>11,
     <1>12, <1>13, <1>14, <1>15 DEF Step

(* The steps that move a perform to or from a place some property names.   *)
Tracked(p) ==
  /\ perform[p].at \notin {"idle", "done"}
  /\ perform'[p].at = "fetch" => PreFetch(p) \/ Wake(p)
  /\ perform[p].at = "settle" => SettleSuccess(p) \/ SettleFailure(p)
  /\ perform'[p].provider # perform[p].provider => PostBind(p) \/ SettleFailure(p)
  /\ \A q \in Performs \ {p} : perform'[q] = perform[q]

LEMMA StepTracked ==
  ASSUME Typed, NEW p \in Performs, Step(p)
  PROVE  Tracked(p)
<1>1. CASE Bind(p)
  BY <1>1, BindEffect DEF Tracked, Went, Moved
<1>2. CASE Load(p)
  BY <1>2, LoadEffect DEF Tracked, Went, Moved
<1>3. CASE Assign(p)
  BY <1>3, AssignEffect DEF Tracked, Went, Moved
<1>4. CASE PerformBound(p)
  BY <1>4, PerformBoundEffect DEF Tracked, Went, Moved
<1>5. CASE \E result \in {"ok", "error", "sdk-error"} : MapEnds(p, result)
  BY <1>5, MapEndsEffect DEF Tracked, Went, Moved
<1>6. CASE MapCalls(p)
  BY <1>6, MapCallsEffect DEF Tracked, Went, Moved
<1>7. CASE PreFetch(p)
  BY <1>7, PreFetchEffect DEF Tracked, Went, Moved
<1>8. CASE Wake(p)
  BY <1>8, WakeEffect DEF Tracked, Went, Moved
<1>9. CASE \E result \in {"ok", "http", "network"} : Fetch(p, result)
  BY <1>9, FetchEffect DEF Tracked, Went, Moved
<1>10. CASE PostFetch(p)
  BY <1>10, PostFetchEffect DEF Tracked, Went, Moved
<1>11. CASE FetchFailed(p)
  BY <1>11, FetchFailedEffect DEF Tracked, Went, Moved
<1>12. CASE UnhandledHttp(p)
  BY <1>12, UnhandledHttpEffect DEF Tracked, Went, Moved
<1>13. CASE PostBind(p)
  BY <1>13, PostBindEffect DEF Tracked, Consumed, Went, Moved
<1>14. CASE SettleSuccess(p)
  BY <1>14, SettleSuccessEffect DEF Tracked, Went, Moved
<1>15. CASE SettleFailure(p)
  BY <1>15, SettleFailureEffect DEF Tracked, Consumed, Went, Moved
<1>16. QED
  BY <1>1, <1>2, <1>3, <1>4, <1>5, <1>6, <1>7, <1>8, <1>9, <1>10, <1>11,
     <1>12, <1>13, <1>14, <1>15 DEF Step

(* A perform is started when no other runs.                                *)
LEMMA StartsAlone ==
  ASSUME OneAtATime, Cardinality(Running) < Concurrency
  PROVE  Running = {}
<1>1. Running \in SUBSET Performs
  BY DEF Running
<1>2. IsFiniteSet(Running)
  BY <1>1, FS_Subset
<1>3. Cardinality(Running) \in Nat
  BY <1>2, FS_CardinalityType
<1>4. Cardinality(Running) = 0
  BY <1>3 DEF OneAtATime, OnOneObject
<1>5. QED
  BY <1>2, <1>4, FS_EmptySet

(* What each step of a running perform starts from.                        *)
LEMMA StepAlone ==
  ASSUME OneAtATime, IInv, NEW p \in Performs, Step(p)
  PROVE  Typed /\ Knows(p) /\ Alone(p) /\ Tracked(p)
<1>1. Typed
  BY DEF IInv, Typed
<1>2. Tracked(p)
  BY <1>1, StepTracked
<1>3. p \in Running
  BY <1>2 DEF Tracked, Running
<1>4. QED
  BY <1>2, <1>3, Opens

LEMMA InitIInv == Init => IInv
<1> SUFFICES ASSUME Init PROVE IInv
  OBVIOUS
<1>1. TypeOK /\ SoundState
  BY InitTyped DEF Typed
<1>2. \A p \in Performs : perform[p] = NewPerform
  BY DEF Init
<1>3. \A u \in UseCases : hook[u].router = NewRouter /\ hook[u].queuedAction = NoAction
  BY DEF Init
<1>4. Running = {}
  BY <1>2 DEF Running, NewPerform
<1>5. \A p \in Performs : AtRest(perform[p])
  <2>1. NewPerform.at = "idle"
    BY DEF NewPerform
  <2>2. QED
    BY <1>2, <2>1 DEF AtRest
<1>6. SharedState
  <2>1. fetchUse = NoUseCase /\ \A o \in UseCaseObjects : object[o].provider = NoProvider
    BY DEF Init
  <2>2. /\ NewRouter.current = NoProvider
        /\ \A d \in DOMAIN NewRouter.policies : NewRouter.policies[d].state = "closed"
    BY DEF NewRouter, NewPolicy
  <2>3. \A p \in Performs : ObjectOf[p] \in UseCaseObjects /\ UseCase(p) \in UseCases
    BY UseCaseType
  <2>4. QED
    BY <1>3, <1>4, <2>1, <2>2, <2>3 DEF SharedState
<1>7. QueueDrained
  BY <1>3 DEF QueueDrained
<1>8. MapRequestsPoliced /\ UnnamedNeverThrows
  BY <1>2 DEF MapRequestsPoliced, UnnamedNeverThrows, NewPerform
<1>9. QED
  BY <1>1, <1>4, <1>5, <1>6, <1>7, <1>8 DEF IInv

LEMMA NextIInv ==
  ASSUME OneAtATime, IInv, [Next]_vars
  PROVE  IInv'
<1>1. ASSUME NEW p \in Performs, NEW choice \in Options, Start(p, choice)
      PROVE  IInv'
  <2>1. Typed
    BY DEF IInv, Typed
  <2>2. Running = {}
    BY <1>1, <2>1, StartEffect, StartsAlone
  <2>3. Knows(p) /\ Alone(p)
    BY <2>2, Opens
  <2>4. Keeps(p)
    BY <1>1, <2>1, <2>3, StartKeeps
  <2>5. QED
    BY <2>3, <2>4, Closes DEF Keeps
<1>2. ASSUME NEW p \in Performs, Step(p)
      PROVE  IInv'
  <2>1. Typed /\ Knows(p) /\ Alone(p)
    BY <1>2, StepAlone
  <2>2. Keeps(p)
    BY <1>2, <2>1, StepKeeps
  <2>3. QED
    BY <2>1, <2>2, Closes DEF Keeps
<1>3. CASE Tick \/ UNCHANGED vars
  <2>1. Typed
    BY DEF IInv, Typed
  <2>2. Typed' /\ UNCHANGED <<hook, object, fetchUse, perform>>
    BY <1>3, <2>1, RestEffect
  <2>3. TypeOK' /\ SoundState'
    BY <2>2 DEF Typed
  <2>4. Running' = Running /\ SharedState'
    BY <2>2 DEF IInv, SharedState, Running, UseCase
  <2>5. \A p \in Performs : AtRest(perform'[p])
    BY <2>2 DEF IInv
  <2>6. \A p \in Running' :
          Coherent(perform'[p], UseCase(p), hook'[UseCase(p)].router,
                   hook'[UseCase(p)].queuedAction, fetchUse', object'[ObjectOf[p]])
    BY <2>2, <2>4 DEF IInv
  <2>7. QueueDrained' /\ MapRequestsPoliced' /\ UnnamedNeverThrows'
    BY <2>2, <2>4 DEF IInv, QueueDrained, MapRequestsPoliced, UnnamedNeverThrows, UseCase
  <2>8. QED
    BY <2>3, <2>4, <2>5, <2>6, <2>7 DEF IInv, UseCase
<1>4. QED
  BY <1>1, <1>2, <1>3 DEF Next, AllDone

-----------------------------------------------------------------------------
(* What follows for one perform at a time.                                 *)

(* While performs of one object follow each other, the invariant holds:    *)
(* the action a nested hook queues is consumed before the perform that     *)
(* queued it is done, the router's current provider is the one the perform *)
(* is bound to, requests of a map are policed by its own use case, and     *)
(* nothing throws at a perform whose user named no provider.               *)
THEOREM InductiveInvariant == OneAtATime => (Spec => []IInv)
<1> SUFFICES ASSUME OneAtATime PROVE Spec => []IInv
  OBVIOUS
<1>1. Init => IInv
  BY InitIInv
<1>2. IInv /\ [Next]_vars => IInv'
  BY NextIInv
<1>3. QED
  BY <1>1, <1>2, PTL DEF Spec

(* "this error will be overridden in post-bind-and-perform": a perform     *)
(* never settles with the placeholder a hook rejects with when it queues.  *)
THEOREM PlaceholderNeverSettles == OneAtATime => (Spec => []PlaceholderOverridden)
<1> SUFFICES ASSUME OneAtATime PROVE Spec => []PlaceholderOverridden
  OBVIOUS
<1>1. IInv => PlaceholderOverridden
  BY DEF IInv, AtRest, PlaceholderOverridden
<1>2. QED
  BY <1>1, InductiveInvariant, PTL

(* What a running perform knows of the router of its use case.             *)
LEMMA Facts ==
  ASSUME NEW p \in Performs, Knows(p), perform[p].at \notin {"idle", "done"}
  PROVE  Coherent(perform[p], UseCase(p), hook[UseCase(p)].router,
                  hook[UseCase(p)].queuedAction, fetchUse, object[ObjectOf[p]])
  BY DEF Knows, Local

(* A request leaves after its policy let it through, or after the sleep    *)
(* the policy asked for: the policy of the provider that serves the map,   *)
(* so no request of a map goes to a provider whose breaker is open.        *)
THEOREM OpenBreakerIsNotCalled == OneAtATime => (Spec => OpenBreakerNotCalled)
<1> SUFFICES ASSUME OneAtATime PROVE Spec => OpenBreakerNotCalled
  OBVIOUS
<1> DEFINE Leaves(p) == perform[p].at # "fetch" /\ perform'[p].at = "fetch"
                          /\ perform[p].phase = "map"
           A == \A p \in Performs : Leaves(p) =>
                  hook'[UseCase(p)].router.policies[perform[p].served].state # "open"
<1>1. ASSUME IInv, [Next]_vars, NEW p \in Performs, Leaves(p)
      PROVE  hook'[UseCase(p)].router.policies[perform[p].served].state # "open"
  <2> DEFINE u == UseCase(p)
             k == perform[p]
             r == hook[u].router
             s == hook'[u].router
  <2>1. Typed
    BY <1>1 DEF IInv, Typed
  <2>2. ASSUME NEW q \in Performs, NEW choice \in Options, Start(q, choice)
        PROVE  FALSE
    BY <1>1, <2>1, <2>2, StartEffect DEF Moved
  <2>3. ASSUME NEW q \in Performs, Step(q)
        PROVE  q = p
    BY <1>1, <2>3, StepAlone DEF Tracked
  <2>4. CASE Tick \/ UNCHANGED vars
    BY <1>1, <2>1, <2>4, RestEffect
  <2>5. CASE Step(p)
    <3>1. /\ Knows(p) /\ k.at \notin {"idle", "done"}
          /\ PreFetch(p) \/ Wake(p)
      BY <1>1, <2>5, StepAlone DEF Tracked
    <3>2. /\ RouteKnown(k, r, hook[u].queuedAction, object[ObjectOf[p]])
          /\ QueueKnown(k, r, hook[u].queuedAction)
          /\ PolicyKnown(k, r, hook[u].queuedAction)
          /\ RequestKnown(k, u, fetchUse)
      BY <3>1, Facts DEF Coherent
    <3>3. Located(k) /\ u \in UseCases
      BY <2>1, TypedParts, KnownFields, UseCaseType
    <3>4. k.at \in {"pre-fetch", "sleep"}
      BY <2>1, <3>1, PreFetchEffect, WakeEffect
    <3>5. /\ fetchUse = u /\ k.served = k.target /\ k.target # NoProvider
          /\ r.current = k.target
      BY <1>1, <3>2, <3>3, <3>4 DEF RouteKnown, QueueKnown, RequestKnown, Located,
         InMap, InRequest, WithProvider
    <3>6. CASE PreFetch(p)
      <4>1. Admitted(r, s)
        BY <1>1, <2>1, <3>3, <3>5, <3>6, PreFetchEffect DEF Went, Moved
      <4>2. QED
        BY <3>5, <4>1 DEF Admitted, MayCall
    <3>7. CASE Wake(p)
      <4>1. s = r /\ k.at = "sleep"
        BY <2>1, <3>7, WakeEffect
      <4>2. QED
        BY <1>1, <3>2, <3>5, <4>1 DEF PolicyKnown, MayCall
    <3>8. QED
      BY <3>1, <3>6, <3>7
  <2>6. QED
    BY <1>1, <2>2, <2>3, <2>4, <2>5 DEF Next, AllDone
<1>2. IInv /\ [Next]_vars => [A]_vars
  BY <1>1
<1>3. QED
  BY <1>2, InductiveInvariant, PTL DEF Spec, OpenBreakerNotCalled

(* The post hook hears of a success with the provider current that served  *)
(* it, so the success closes the breaker of no other provider.             *)
THEOREM SuccessIsCredited == OneAtATime => (Spec => SuccessCredited)
<1> SUFFICES ASSUME OneAtATime PROVE Spec => SuccessCredited
  OBVIOUS
<1> DEFINE Succeeds(p) == perform[p].at = "settle" /\ perform'[p].result = "ok"
                            /\ perform'[p].at = "done"
           A == \A p \in Performs :
                  Succeeds(p) => hook'[UseCase(p)].router.current = perform[p].served
<1>1. ASSUME IInv, [Next]_vars, NEW p \in Performs, Succeeds(p)
      PROVE  hook'[UseCase(p)].router.current = perform[p].served
  <2> DEFINE u == UseCase(p)
             k == perform[p]
  <2>1. Typed
    BY <1>1 DEF IInv, Typed
  <2>2. ASSUME NEW q \in Performs, NEW choice \in Options, Start(q, choice)
        PROVE  FALSE
    BY <1>1, <2>1, <2>2, StartEffect DEF Moved
  <2>3. ASSUME NEW q \in Performs, Step(q)
        PROVE  q = p
    BY <1>1, <2>3, StepAlone DEF Tracked
  <2>4. CASE Tick \/ UNCHANGED vars
    BY <1>1, <2>1, <2>4, RestEffect
  <2>5. CASE Step(p)
    <3>1. Knows(p) /\ (SettleSuccess(p) \/ SettleFailure(p))
      BY <1>1, <2>5, StepAlone DEF Tracked
    <3>2. ~SettleFailure(p)
      BY <1>1, <2>1, SettleFailureEffect DEF Consumed, Went, Moved
    <3>3. k.result = "ok" /\ hook'[u].router.current = hook[u].router.current
      BY <2>1, <3>1, <3>2, SettleSuccessEffect
    <3>4. RouteKnown(k, hook[u].router, hook[u].queuedAction, object[ObjectOf[p]])
      BY <1>1, <3>1, Facts DEF Coherent
    <3>5. QED
      BY <1>1, <3>3, <3>4 DEF RouteKnown
  <2>6. QED
    BY <1>1, <2>2, <2>3, <2>4, <2>5 DEF Next, AllDone
<1>2. IInv /\ [Next]_vars => [A]_vars
  BY <1>1
<1>3. QED
  BY <1>2, InductiveInvariant, PTL DEF Spec, SuccessCredited

(* A perform changes its provider only when it consumes a queued switch or *)
(* a failed bind diverts it, both for an unnamed one and down the list.    *)
LEMMA ProviderChanges ==
  ASSUME OneAtATime, IInv, [Next]_vars, NEW p \in Performs, perform[p].at # "idle",
         perform'[p].provider # perform[p].provider
  PROVE  /\ ~perform[p].named
         /\ perform[p].target \in PrioritySet =>
              \E i \in DOMAIN Priority :
                Priority[i] = perform'[p].provider /\ i > IndexOf(perform[p].target)
<1> DEFINE u == UseCase(p)
           k == perform[p]
           r == hook[u].router
           q == hook[u].queuedAction
<1>1. Typed
  BY DEF IInv, Typed
<1>2. ASSUME NEW w \in Performs, NEW choice \in Options, Start(w, choice)
      PROVE  FALSE
  BY <1>1, <1>2, StartEffect DEF Moved
<1>3. ASSUME NEW w \in Performs, Step(w)
      PROVE  w = p
  BY <1>3, StepAlone DEF Tracked
<1>4. ~(Tick \/ UNCHANGED vars)
  BY <1>1, RestEffect
<1>5. Step(p)
  BY <1>2, <1>3, <1>4 DEF Next, AllDone
<1>6. /\ Knows(p) /\ k.at \notin {"idle", "done"}
      /\ PostBind(p) \/ SettleFailure(p)
  BY <1>5, StepAlone DEF Tracked
<1>7. /\ RouteKnown(k, r, q, object[ObjectOf[p]])
      /\ QueueKnown(k, r, q) /\ PolicyKnown(k, r, q)
  BY <1>6, Facts DEF Coherent
<1>8. CASE q.kind = "switch-provider" /\ perform'[p].provider = q.provider
  BY <1>7, <1>8 DEF QueueKnown
<1>9. CASE k.at = "settle" /\ Diverted(r, hook'[u].router, perform'[p].provider)
  <2>1. r.current = k.target
    BY <1>7, <1>9 DEF RouteKnown, QueueKnown, WithProvider
  <2>2. QED
    BY <1>7, <1>9, <2>1 DEF Diverted, PolicyKnown
<1>10. CASE PostBind(p)
  BY <1>1, <1>8, <1>10, PostBindEffect DEF Consumed, Went, Moved
<1>11. CASE SettleFailure(p)
  BY <1>1, <1>8, <1>9, <1>11, SettleFailureEffect DEF Consumed, Went, Moved
<1>12. QED
  BY <1>6, <1>10, <1>11

(* "Disable failover when user specified provider": whatever fails, a      *)
(* perform stays with the provider its user named.                         *)
THEOREM NamedProviderStays == OneAtATime => (Spec => NamedProviderKept)
<1> SUFFICES ASSUME OneAtATime PROVE Spec => NamedProviderKept
  OBVIOUS
<1> DEFINE A == \A p \in Performs :
                  perform[p].at # "idle" /\ perform[p].named =>
                    perform'[p].provider = perform[p].provider
<1>1. IInv /\ [Next]_vars => [A]_vars
  BY ProviderChanges
<1>2. QED
  BY <1>1, InductiveInvariant, PTL DEF Spec, NamedProviderKept

(* Without duplicates in the priority, a perform whose provider fails goes *)
(* on with one further down: it cannot go round the providers for ever.    *)
THEOREM PerformMovesDown == OneAtATime /\ NoDuplicates => (Spec => GoesWhereItMay)
<1> SUFFICES ASSUME OneAtATime, NoDuplicates PROVE Spec => GoesWhereItMay
  OBVIOUS
<1> DEFINE A == \A p \in Performs :
                  perform[p].at # "idle" /\ perform'[p].provider # perform[p].provider
                    /\ perform[p].target \in PrioritySet =>
                    IndexOf(perform'[p].provider) > IndexOf(perform[p].target)
<1>1. IInv /\ [Next]_vars => [A]_vars
  BY ProviderChanges, IndexWithoutDuplicates
<1>2. Spec => SwitchesMoveDown
  BY <1>1, InductiveInvariant, PTL DEF Spec, SwitchesMoveDown
<1>3. Spec => NamedProviderKept
  BY NamedProviderStays
<1>4. QED
  BY <1>2, <1>3 DEF GoesWhereItMay
=============================================================================
