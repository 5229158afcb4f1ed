-------------------------- MODULE RouterCycleProofs --------------------------
(***************************************************************************)
(* Proofs about RouterCycle, for any providers, priority, configurations   *)
(* and bounds.  The type and the soundness of the router are inductive     *)
(* together; what a step may do follows from the lemmas on the methods.    *)
(***************************************************************************)
EXTENDS RouterCycle, FailurePolicyLemmas

USE RouterAssumption, RouterBoundsAssumption

LEMMA InvGood == RouterInv => GoodRouter(router) /\ now \in Nat
  BY DEF RouterInv, TypeOK, SoundAlways, GoodRouter

LEMMA Settled ==
  ASSUME RouterInv, NEW answered, NEW call \in Call,
         GoodRouter(answered.router), answered.resolution.kind \in Answer,
         Settle(call, answered)
  PROVE  RouterInv'
<1>1. event' = [call |-> call, answer |-> answered.resolution.kind]
      /\ router' = answered.router /\ now' = now
  BY DEF Settle
<1>2. event' \in [call : Call, answer : Answer]
  BY <1>1
<1>3. QED
  BY <1>1, <1>2 DEF RouterInv, TypeOK, SoundAlways, GoodRouter

(* What one call of the router leaves: its answer and its next state.      *)
LEMMA BeforeStep ==
  ASSUME RouterInv, NEW check \in BOOLEAN, Before(check)
  PROVE  /\ RouterInv'
         /\ event'.call = IF check THEN "restore" ELSE "before"
         /\ now' = now
         /\ \/ /\ router.current = NoProvider
               /\ router' = router /\ event'.answer = "throw"
            \/ /\ router.current # NoProvider
               /\ event'.answer = "switch-provider"
               /\ Switched(router, router', RestoreCandidates(router, check), now)
            \/ /\ router.current # NoProvider
               /\ NoneAdmits(router, RestoreCandidates(router, check), now)
               /\ event'.answer \in {"continue", "backoff", "abort"}
               /\ router'.current = router.current
               /\ \A q \in (DOMAIN router.policies) \ {router.current} :
                    router'.policies[q] = router.policies[q]
               /\ event'.answer = "abort" =>
                    NoneAdmits(router, FailoverCandidates(router), now)
            \/ /\ router.current # NoProvider
               /\ NoneAdmits(router, RestoreCandidates(router, check), now)
               /\ Probe(router, router.current, now).resolution.kind = "abort"
               /\ event'.answer = "switch-provider"
               /\ Switched(router, router', FailoverCandidates(router), now)
<1> DEFINE out  == RouterBeforeExecution(router, now, check)
           call == IF check THEN "restore" ELSE "before"
<1>1. Settle(call, out)
  BY DEF Before
<1>2. /\ router' = out.router /\ now' = now
      /\ event' = [call |-> call, answer |-> out.resolution.kind]
  BY <1>1 DEF Settle
<1>3. call \in Call /\ {"continue", "backoff", "abort", "throw", "switch-provider"}
        \subseteq Answer
  BY DEF Call, Answer
<1>4. event'.call = call /\ event'.answer = out.resolution.kind
  BY <1>2
<1>5. CASE router.current = NoProvider
  <2>1. out = Answered(router, Throws)
    BY <1>5 DEF RouterBeforeExecution
  <2>2. out.router = router /\ out.resolution.kind = "throw"
    BY <2>1 DEF Answered, Throws, Resolution
  <2> HIDE DEF out, call
  <2>3. RouterInv'
    BY <1>1, <1>3, <2>2, InvGood, Settled
  <2>4. QED
    BY <1>2, <1>4, <1>5, <2>2, <2>3 DEF call
<1>6. CASE router.current # NoProvider
  <2>1. /\ GoodRouter(out.router)
        /\ \/ /\ out.resolution.kind = "switch-provider"
              /\ Switched(router, out.router, RestoreCandidates(router, check), now)
           \/ /\ NoneAdmits(router, RestoreCandidates(router, check), now)
              /\ out.resolution.kind \in {"continue", "backoff", "abort"}
              /\ out.router.current = router.current
              /\ \A q \in (DOMAIN router.policies) \ {router.current} :
                   out.router.policies[q] = router.policies[q]
              /\ out.resolution.kind = "abort" =>
                   NoneAdmits(router, FailoverCandidates(router), now)
           \/ /\ NoneAdmits(router, RestoreCandidates(router, check), now)
              /\ Probe(router, router.current, now).resolution.kind = "abort"
              /\ out.resolution.kind = "switch-provider"
              /\ Switched(router, out.router, FailoverCandidates(router), now)
    BY <1>6, InvGood, RouterBeforeGood
  <2> HIDE DEF out, call
  <2>2. out.resolution.kind \in Answer
    BY <1>3, <2>1
  <2>3. RouterInv'
    BY <1>1, <1>3, <2>1, <2>2, Settled
  <2>4. QED
    BY <1>2, <1>4, <1>6, <2>1, <2>3 DEF call
<1>7. QED
  BY <1>5, <1>6

LEMMA FailureStep ==
  ASSUME RouterInv, NEW failure \in FailureKind, Failure(failure)
  PROVE  /\ RouterInv' /\ event'.call = "failure" /\ now' = now
         /\ \/ /\ router.current = NoProvider
               /\ router' = router /\ event'.answer = "throw"
            \/ /\ router.current # NoProvider
               /\ \E changed :
                    /\ GoodRouter(changed)
                    /\ DOMAIN changed.policies = DOMAIN router.policies
                    /\ changed.current = router.current
                    /\ \A q \in (DOMAIN router.policies) \ {router.current} :
                         changed.policies[q] = router.policies[q]
                    /\ \/ /\ event'.answer \in {"retry", "abort", "throw"}
                          /\ router' = changed
                          /\ event'.answer = "abort" =>
                               NoneAdmits(changed, FailoverCandidates(router), now)
                       \/ /\ event'.answer = "switch-provider"
                          /\ Switched(changed, router', FailoverCandidates(router), now)
<1> DEFINE out == RouterAfterFailure(router, failure, now)
<1>1. Settle("failure", out)
  BY DEF Failure
<1>2. /\ router' = out.router /\ now' = now
      /\ event'.call = "failure" /\ event'.answer = out.resolution.kind
  BY <1>1 DEF Settle
<1>3. "failure" \in Call /\ {"retry", "abort", "throw", "switch-provider"} \subseteq Answer
  BY DEF Call, Answer
<1>4. CASE router.current = NoProvider
  <2>1. out = Answered(router, Throws)
    BY <1>4 DEF RouterAfterFailure
  <2>2. out.router = router /\ out.resolution.kind = "throw"
    BY <2>1 DEF Answered, Throws, Resolution
  <2> HIDE DEF out
  <2>3. RouterInv'
    BY <1>1, <1>3, <2>2, InvGood, Settled
  <2>4. QED
    BY <1>2, <1>4, <2>2, <2>3
<1>5. CASE router.current # NoProvider
  <2> DEFINE changed == SetPolicy(router, router.current,
                          AfterFailure(Configs[router.current],
                                       router.policies[router.current],
                                       failure, now).policy)
  <2>1. /\ GoodRouter(out.router)
        /\ GoodRouter(changed)
        /\ DOMAIN changed.policies = DOMAIN router.policies
        /\ changed.current = router.current
        /\ \A q \in (DOMAIN router.policies) \ {router.current} :
             changed.policies[q] = router.policies[q]
        /\ \/ /\ out.resolution.kind \in {"retry", "abort", "throw"}
              /\ out.router = changed
              /\ out.resolution.kind = "abort" =>
                   NoneAdmits(changed, FailoverCandidates(router), now)
           \/ /\ out.resolution.kind = "switch-provider"
              /\ Switched(changed, out.router, FailoverCandidates(router), now)
    BY <1>5, InvGood, RouterFailureGood
  <2> HIDE DEF out, changed
  <2>2. RouterInv'
    BY <1>1, <1>3, <2>1, Settled
  <2>3. QED
    BY <1>2, <1>5, <2>1, <2>2
<1>6. QED
  BY <1>4, <1>5

LEMMA SuccessStep ==
  ASSUME RouterInv, Success
  PROVE  /\ RouterInv' /\ event'.call = "success" /\ now' = now
         /\ event'.answer \in {"continue", "throw"}
         /\ router'.current = router.current
         /\ \A q \in (DOMAIN router.policies) \ {router.current} :
              router'.policies[q] = router.policies[q]
<1> DEFINE out == RouterAfterSuccess(router, now)
<1>1. Settle("success", out)
  BY DEF Success
<1>2. /\ router' = out.router /\ now' = now
      /\ event'.call = "success" /\ event'.answer = out.resolution.kind
  BY <1>1 DEF Settle
<1>3. "success" \in Call /\ {"continue", "throw"} \subseteq Answer
  BY DEF Call, Answer
<1>4. CASE router.current = NoProvider
  <2>1. out = Answered(router, Throws)
    BY <1>4 DEF RouterAfterSuccess
  <2>2. out.router = router /\ out.resolution.kind = "throw"
    BY <2>1 DEF Answered, Throws, Resolution
  <2> HIDE DEF out
  <2>3. RouterInv'
    BY <1>1, <1>3, <2>2, InvGood, Settled
  <2>4. QED
    BY <1>2, <2>2, <2>3
<1>5. CASE router.current # NoProvider
  <2>1. /\ GoodRouter(out.router)
        /\ out.router.current = router.current
        /\ \A q \in (DOMAIN router.policies) \ {router.current} :
             out.router.policies[q] = router.policies[q]
        /\ out.resolution.kind \in {"continue", "throw"}
    BY <1>5, InvGood, RouterSuccessGood
  <2> HIDE DEF out
  <2>2. RouterInv'
    BY <1>1, <1>3, <2>1, Settled
  <2>3. QED
    BY <1>2, <2>1, <2>2
<1>6. QED
  BY <1>4, <1>5

LEMMA SetCurrentStep ==
  ASSUME RouterInv, NEW p \in Providers, SetCurrent(p)
  PROVE  /\ RouterInv' /\ event'.call = "set-current" /\ event'.answer = "none"
         /\ \A q \in DOMAIN router.policies : router'.policies[q] = router.policies[q]
<1> DEFINE next == SetCurrentProvider(router, p)
           out  == Answered(next, Resolution("none"))
<1>1. GoodRouter(next)
      /\ \A q \in DOMAIN router.policies : next.policies[q] = router.policies[q]
  BY InvGood, SetCurrentProviderGood
<1>2. Settle("set-current", out)
  BY DEF SetCurrent
<1>3. out.router = next /\ out.resolution.kind = "none"
  BY DEF Answered, Resolution
<1> HIDE DEF next, out
<1>4. "set-current" \in Call /\ "none" \in Answer
  BY DEF Call, Answer
<1>5. RouterInv'
  BY <1>1, <1>2, <1>3, <1>4, Settled
<1>6. QED
  BY <1>1, <1>2, <1>3, <1>5 DEF Settle

LEMMA SetAllowStep ==
  ASSUME RouterInv, NEW allow \in BOOLEAN, SetAllow(allow)
  PROVE  /\ RouterInv' /\ event'.call = "set-allow" /\ event'.answer = "none"
         /\ router'.current = router.current /\ router'.policies = router.policies
<1> DEFINE next == SetAllowFailover(router, allow)
           out  == Answered(next, Resolution("none"))
<1>1. /\ GoodRouter(next) /\ next.current = router.current
      /\ next.policies = router.policies
  BY InvGood, SetAllowFailoverGood
<1>2. Settle("set-allow", out)
  BY DEF SetAllow
<1>3. out.router = next /\ out.resolution.kind = "none"
  BY DEF Answered, Resolution
<1> HIDE DEF next, out
<1>4. "set-allow" \in Call /\ "none" \in Answer
  BY DEF Call, Answer
<1>5. RouterInv'
  BY <1>1, <1>2, <1>3, <1>4, Settled
<1>6. QED
  BY <1>1, <1>2, <1>3, <1>5 DEF Settle

LEMMA ResetStep ==
  ASSUME RouterInv, Reset
  PROVE  RouterInv' /\ event'.call = "reset" /\ event'.answer = "none"
<1> DEFINE next == RouterReset(router)
           out  == Answered(next, Resolution("none"))
<1>1. GoodRouter(next)
  BY InvGood, RouterResetGood DEF Reset
<1>2. Settle("reset", out)
  BY DEF Reset
<1>3. out.router = next /\ out.resolution.kind = "none"
  BY DEF Answered, Resolution
<1> HIDE DEF next, out
<1>4. "reset" \in Call /\ "none" \in Answer
  BY DEF Call, Answer
<1>5. RouterInv'
  BY <1>1, <1>2, <1>3, <1>4, Settled
<1>6. QED
  BY <1>2, <1>3, <1>5 DEF Settle

LEMMA TickStep ==
  ASSUME RouterInv, Tick
  PROVE  /\ RouterInv' /\ event'.call = "tick" /\ event'.answer = "none"
         /\ router' = router
<1>1. /\ now' \in 0..MaxTime /\ router' = router
      /\ event' = [call |-> "tick", answer |-> "none"]
  BY DEF Tick, RouterInv, TypeOK
<1>2. event' \in [call : Call, answer : Answer]
  BY <1>1 DEF Call, Answer
<1>3. QED
  BY <1>1, <1>2 DEF RouterInv, TypeOK, SoundAlways

(* In every reachable state the router is well typed, its current provider *)
(* has a policy, and each policy is sound, whatever was called.            *)
THEOREM RouterInductive == Spec => []RouterInv
<1>1. Init => RouterInv
  <2> SUFFICES ASSUME Init PROVE RouterInv
    OBVIOUS
  <2>1. GoodRouter(router)
    BY NewRouterGood DEF Init
  <2>2. now \in 0..MaxTime /\ event \in [call : Call, answer : Answer]
    BY DEF Init, Call, Answer
  <2>3. QED
    BY <2>1, <2>2 DEF RouterInv, TypeOK, SoundAlways, GoodRouter
<1>2. RouterInv /\ [Next]_vars => RouterInv'
  <2> SUFFICES ASSUME RouterInv, [Next]_vars PROVE RouterInv'
    OBVIOUS
  <2>1. ASSUME NEW p \in Providers, SetCurrent(p) PROVE RouterInv'
    BY <2>1, SetCurrentStep
  <2>2. ASSUME NEW allow \in BOOLEAN, SetAllow(allow) PROVE RouterInv'
    BY <2>2, SetAllowStep
  <2>3. ASSUME NEW check \in BOOLEAN, Before(check) PROVE RouterInv'
    BY <2>3, BeforeStep
  <2>4. ASSUME NEW failure \in FailureKind, Failure(failure) PROVE RouterInv'
    BY <2>4, FailureStep
  <2>5. CASE Success
    BY <2>5, SuccessStep
  <2>6. CASE Reset
    BY <2>6, ResetStep
  <2>7. CASE Tick
    BY <2>7, TickStep
  <2>8. CASE UNCHANGED vars
    BY <2>8 DEF vars, RouterInv, TypeOK, SoundAlways
  <2>9. QED
    BY <2>1, <2>2, <2>3, <2>4, <2>5, <2>6, <2>7, <2>8 DEF Next
<1>3. QED
  BY <1>1, <1>2, PTL DEF Spec

(* The current provider always has a policy and every policy is sound.     *)
THEOREM RouterSound == Spec => []SoundAlways
<1>1. RouterInv => SoundAlways
  BY DEF RouterInv
<1>2. QED
  BY <1>1, RouterInductive, PTL

-----------------------------------------------------------------------------
(* What a step may do.                                                     *)

LEMMA SwitchedCurrent ==
  ASSUME NEW r, NEW s, NEW candidates, NEW time, Switched(r, s, candidates, time)
  PROVE  \E i \in candidates : s.current = Priority[i]
  BY DEF Switched

(* With failover disallowed no call but setCurrentProvider and reset moves *)
(* the router to another provider.                                         *)
THEOREM StaysWhenDisallowed == Spec => NoSwitchWhenDisallowed
<1> DEFINE Stays == ~router.allowFailover /\ event'.call \notin {"set-current", "reset"} =>
                      ~Moved
<1>1. RouterInv /\ [Next]_vars => [Stays]_vars
  <2> SUFFICES ASSUME RouterInv, Next, ~router.allowFailover,
                      event'.call \notin {"set-current", "reset"}
               PROVE  router'.current = router.current
    BY DEF Moved
  <2>1. FailoverCandidates(router) = {}
        /\ \A check : RestoreCandidates(router, check) = {}
    BY CandidatesType
  <2>2. ASSUME NEW candidates, candidates = {}, NEW r
        PROVE  ~Switched(r, router', candidates, now)
    BY <2>2 DEF Switched
  <2>4. ASSUME NEW check \in BOOLEAN, Before(check)
        PROVE  router'.current = router.current
    <3>1. /\ ~Switched(router, router', RestoreCandidates(router, check), now)
          /\ ~Switched(router, router', FailoverCandidates(router), now)
      BY <2>1, <2>2
    <3>2. QED
      BY <2>4, <3>1, BeforeStep
  <2>5. ASSUME NEW failure \in FailureKind, Failure(failure)
        PROVE  router'.current = router.current
    <3>1. \A r : ~Switched(r, router', FailoverCandidates(router), now)
      BY <2>1, <2>2
    <3>2. QED
      BY <2>5, <3>1, FailureStep
  <2>6. CASE Success
    BY <2>6, SuccessStep
  <2>7. CASE Tick
    BY <2>7, TickStep
  <2>8. ASSUME NEW p \in Providers, SetCurrent(p) PROVE FALSE
    BY <2>8, SetCurrentStep
  <2>9. ASSUME NEW allow \in BOOLEAN, SetAllow(allow)
        PROVE  router'.current = router.current
    BY <2>9, SetAllowStep
  <2>10. CASE Reset
    BY <2>10, ResetStep
  <2>11. QED
    BY <2>4, <2>5, <2>6, <2>7, <2>8, <2>9, <2>10 DEF Next
<1>2. QED
  BY <1>1, RouterInductive, PTL DEF Spec, NoSwitchWhenDisallowed

(* Wherever the router switches to, an execution would be let through.     *)
THEOREM SwitchAdmits == Spec => SwitchTargetAdmits
<1> DEFINE A == event'.answer = "switch-provider" =>
                  Admits(router', router'.current, now)
<1>1. RouterInv /\ [Next]_vars => [A]_vars
  <2> SUFFICES ASSUME RouterInv, Next, event'.answer = "switch-provider"
               PROVE  Probe(router', router'.current, now).resolution.kind = "continue"
    BY DEF Admits
  <2>1. GoodRouter(router) /\ now \in Nat
    BY InvGood
  <2>9. ASSUME NEW r, GoodRouter(r), NEW candidates \in SUBSET DOMAIN Priority,
               Switched(r, router', candidates, now)
        PROVE  Probe(router', router'.current, now).resolution.kind = "continue"
    BY <2>1, <2>9, SwitchedAdmits, ZenonT(60)
  <2>2. ASSUME NEW check \in BOOLEAN, Before(check)
        PROVE  Probe(router', router'.current, now).resolution.kind = "continue"
    <3>1. \/ Switched(router, router', RestoreCandidates(router, check), now)
          \/ Switched(router, router', FailoverCandidates(router), now)
      BY <2>2, BeforeStep
    <3>2. QED
      BY <2>1, <2>9, <3>1, CandidatesType
  <2>3. ASSUME NEW failure \in FailureKind, Failure(failure)
        PROVE  Probe(router', router'.current, now).resolution.kind = "continue"
    <3>1. PICK changed : /\ GoodRouter(changed)
                         /\ Switched(changed, router', FailoverCandidates(router), now)
      BY <2>3, FailureStep
    <3>2. QED
      BY <2>1, <2>9, <3>1, CandidatesType
  <2>4. ~Success
    BY SuccessStep
  <2>5. ~Tick /\ ~Reset
    BY TickStep, ResetStep
  <2>6. \A p \in Providers : ~SetCurrent(p)
    BY SetCurrentStep
  <2>7. \A allow \in BOOLEAN : ~SetAllow(allow)
    BY SetAllowStep
  <2>8. QED
    BY <2>2, <2>3, <2>4, <2>5, <2>6, <2>7 DEF Next
<1>2. QED
  BY <1>1, RouterInductive, PTL DEF Spec, SwitchTargetAdmits

(* Without duplicates in the priority a failure, and an execution that is  *)
(* not let in, only ever move the router down the list: failover cannot go *)
(* round.                                                                  *)
THEOREM MovesDownOnFailure == NoDuplicates => (Spec => FailureMovesDown)
<1> SUFFICES ASSUME NoDuplicates PROVE Spec => FailureMovesDown
  OBVIOUS
<1> DEFINE A == event'.call \in {"failure", "before"} /\ Moved =>
                  IndexOf(router'.current) > IndexOf(router.current)
<1>1. RouterInv /\ [Next]_vars => [A]_vars
  <2> SUFFICES ASSUME RouterInv, Next, event'.call \in {"failure", "before"},
                      router'.current # router.current
               PROVE  IndexOf(router'.current) > IndexOf(router.current)
    BY DEF Moved
  <2>2. ASSUME NEW r, Switched(r, router', FailoverCandidates(router), now)
        PROVE  IndexOf(router'.current) > IndexOf(router.current)
    <3>1. PICK i \in FailoverCandidates(router) : router'.current = Priority[i]
      BY <2>2, SwitchedCurrent
    <3>2. i \in DOMAIN Priority /\ i > IndexOf(router.current)
      BY CandidatesType
    <3>3. QED
      BY <3>1, <3>2, IndexWithoutDuplicates
  <2>3. ASSUME NEW check \in BOOLEAN, Before(check)
        PROVE  IndexOf(router'.current) > IndexOf(router.current)
    <3>1. ~check
      BY <2>3, BeforeStep
    <3>2. RestoreCandidates(router, check) = {}
      BY <3>1 DEF RestoreCandidates
    <3>3. ~Switched(router, router', RestoreCandidates(router, check), now)
      BY <3>2 DEF Switched
    <3>4. Switched(router, router', FailoverCandidates(router), now)
      BY <2>3, <3>3, BeforeStep
    <3>5. QED
      BY <2>2, <3>4
  <2>4. ASSUME NEW failure \in FailureKind, Failure(failure)
        PROVE  IndexOf(router'.current) > IndexOf(router.current)
    BY <2>2, <2>4, FailureStep
  <2>5. ~Success /\ ~Tick /\ ~Reset
    BY SuccessStep, TickStep, ResetStep
  <2>6. \A p \in Providers : ~SetCurrent(p)
    BY SetCurrentStep
  <2>7. \A allow \in BOOLEAN : ~SetAllow(allow)
    BY SetAllowStep
  <2>8. QED
    BY <2>3, <2>4, <2>5, <2>6, <2>7 DEF Next
<1>2. QED
  BY <1>1, RouterInductive, PTL DEF Spec, FailureMovesDown

(* A call changes the policy of the provider it is about and of the one it *)
(* switches to, however many policies the search probed.                   *)
THEOREM ThirdPoliciesUntouched == Spec => OthersUntouched
<1> DEFINE A == event'.call # "reset" =>
                  \A p \in DOMAIN router.policies \ {router.current, router'.current} :
                    router'.policies[p] = router.policies[p]
<1>1. RouterInv /\ [Next]_vars => [A]_vars
  <2> SUFFICES ASSUME RouterInv, Next, event'.call # "reset",
                      NEW p \in DOMAIN router.policies \ {router.current, router'.current}
               PROVE  router'.policies[p] = router.policies[p]
    OBVIOUS
  <2>1. GoodRouter(router) /\ now \in Nat
    BY InvGood
  <2>2. ASSUME NEW r, GoodRouter(r), NEW candidates \in SUBSET DOMAIN Priority,
               Switched(r, router', candidates, now), p \in DOMAIN r.policies
        PROVE  router'.policies[p] = r.policies[p]
    <3>1. \A q \in (DOMAIN r.policies) \ {router'.current} :
            router'.policies[q] = r.policies[q]
      BY <2>1, <2>2, SwitchedAdmits
    <3>2. p # router'.current
      OBVIOUS
    <3>3. QED
      BY <2>2, <3>1, <3>2
  <2>3. ASSUME NEW check \in BOOLEAN, Before(check)
        PROVE  router'.policies[p] = router.policies[p]
    <3>1. /\ FailoverCandidates(router) \in SUBSET DOMAIN Priority
          /\ RestoreCandidates(router, check) \in SUBSET DOMAIN Priority
      BY CandidatesType
    <3>2. CASE Switched(router, router', RestoreCandidates(router, check), now)
      BY <2>1, <2>2, <3>1, <3>2
    <3>3. CASE Switched(router, router', FailoverCandidates(router), now)
      BY <2>1, <2>2, <3>1, <3>3
    <3>4. p \in (DOMAIN router.policies) \ {router.current}
      OBVIOUS
    <3>5. QED
      BY <2>3, <3>2, <3>3, <3>4, BeforeStep
  <2>4. ASSUME NEW failure \in FailureKind, Failure(failure)
        PROVE  router'.policies[p] = router.policies[p]
    <3>1. CASE router' = router
      BY <3>1
    <3>2. CASE router' # router
      <4>1. PICK changed :
              /\ GoodRouter(changed)
              /\ DOMAIN changed.policies = DOMAIN router.policies
              /\ changed.policies[p] = router.policies[p]
              /\ \/ router' = changed
                 \/ Switched(changed, router', FailoverCandidates(router), now)
        BY <2>4, <3>2, FailureStep
      <4>2. FailoverCandidates(router) \in SUBSET DOMAIN Priority
        BY CandidatesType
      <4>3. QED
        BY <2>2, <4>1, <4>2
    <3>3. QED
      BY <3>1, <3>2
  <2>5. CASE Success
    BY <2>5, SuccessStep
  <2>6. CASE Tick
    BY <2>6, TickStep
  <2>7. ~Reset
    BY ResetStep
  <2>8. ASSUME NEW q \in Providers, SetCurrent(q)
        PROVE  router'.policies[p] = router.policies[p]
    BY <2>8, SetCurrentStep
  <2>9. ASSUME NEW allow \in BOOLEAN, SetAllow(allow)
        PROVE  router'.policies[p] = router.policies[p]
    BY <2>9, SetAllowStep
  <2>10. QED
    BY <2>3, <2>4, <2>5, <2>6, <2>7, <2>8, <2>9 DEF Next
<1>2. QED
  BY <1>1, RouterInductive, PTL DEF Spec, OthersUntouched

(* Without duplicates, an execution is aborted only when no provider after *)
(* the current one would let it through.                                   *)
THEOREM AbortsWhenExhausted == NoDuplicates => (Spec => AbortMeansExhausted)
<1> SUFFICES ASSUME NoDuplicates PROVE Spec => AbortMeansExhausted
  OBVIOUS
<1> DEFINE A == event'.answer = "abort" /\ router.allowFailover =>
                  \A i \in DOMAIN Priority :
                    i > IndexOf(router.current) => ~Admits(router, Priority[i], now)
<1>1. RouterInv /\ [Next]_vars => [A]_vars
  <2> SUFFICES ASSUME RouterInv, Next, event'.answer = "abort", router.allowFailover,
                      NEW i \in DOMAIN Priority, i > IndexOf(router.current)
               PROVE  Probe(router, Priority[i], now).resolution.kind # "continue"
    BY DEF Admits
  <2>1. i \in FailoverCandidates(router)
    BY DEF FailoverCandidates
  <2>2. Priority[i] # router.current
    <3>1. IndexOf(Priority[i]) = i
      BY IndexWithoutDuplicates
    <3>2. i \in Nat /\ IndexOf(router.current) \in Nat
      BY PriorityType, IndexOfFirst
    <3>3. QED
      BY <3>1, <3>2
  <2>3. Priority[i] \in DOMAIN router.policies
    BY InvGood DEF GoodRouter, SoundRouter, PrioritySet
  <2>4. ASSUME NEW check \in BOOLEAN, Before(check)
        PROVE  Probe(router, Priority[i], now).resolution.kind # "continue"
    <3>1. NoneAdmits(router, FailoverCandidates(router), now)
      BY <2>4, BeforeStep
    <3>2. QED
      BY <2>1, <3>1 DEF NoneAdmits
  <2>5. ASSUME NEW failure \in FailureKind, Failure(failure)
        PROVE  Probe(router, Priority[i], now).resolution.kind # "continue"
    <3>1. PICK changed :
            /\ changed.policies[Priority[i]] = router.policies[Priority[i]]
            /\ NoneAdmits(changed, FailoverCandidates(router), now)
      BY <2>2, <2>3, <2>5, FailureStep
    <3>2. Probe(changed, Priority[i], now).resolution.kind # "continue"
      BY <2>1, <3>1 DEF NoneAdmits
    <3>3. QED
      BY <3>1, <3>2 DEF Probe
  <2>6. ~Success /\ ~Tick /\ ~Reset
    BY SuccessStep, TickStep, ResetStep
  <2>7. \A p \in Providers : ~SetCurrent(p)
    BY SetCurrentStep
  <2>8. \A allow \in BOOLEAN : ~SetAllow(allow)
    BY SetAllowStep
  <2>9. QED
    BY <2>4, <2>5, <2>6, <2>7, <2>8 DEF Next
<1>2. QED
  BY <1>1, RouterInductive, PTL DEF Spec, AbortMeansExhausted

(* So a failover ends: it goes down the priority, each provider once, and  *)
(* gives up only when nobody further down lets an execution through.       *)
THEOREM FailoverGoesDown == NoDuplicates => (Spec => FailsOverDown)
<1> SUFFICES ASSUME NoDuplicates PROVE Spec => FailsOverDown
  OBVIOUS
<1>1. Spec => FailureMovesDown
  BY MovesDownOnFailure
<1>2. Spec => AbortMeansExhausted
  BY AbortsWhenExhausted
<1>3. QED
  BY <1>1, <1>2 DEF FailsOverDown

(* After a restore check no provider before the current one would let an   *)
(* execution through, those without a policy left aside.                   *)
THEOREM RestoresToBest == Spec => RestoreFindsBest
<1> DEFINE A == event'.call = "restore" /\ router.allowFailover
                  /\ router.current # NoProvider =>
                  \A i \in Above(router') :
                    Configs[Priority[i]].kind # "none" =>
                      ~Admits(router, Priority[i], now)
<1>1. RouterInv /\ [Next]_vars => [A]_vars
  <2> SUFFICES ASSUME RouterInv, Next, event'.call = "restore", router.allowFailover,
                      router.current # NoProvider,
                      NEW i \in Above(router'),
                      Configs[Priority[i]].kind # "none"
               PROVE  Probe(router, Priority[i], now).resolution.kind # "continue"
    BY DEF Admits
  <2> DEFINE k == IndexOf(router.current)
  <2> DEFINE end == IF k = 0 THEN Len(Priority) ELSE k
  <2>1. /\ k \in 0..Len(Priority) /\ Len(Priority) \in Nat
        /\ DOMAIN Priority = 1..Len(Priority)
        /\ k # 0 => Priority[k] = router.current
        /\ router.current \in PrioritySet <=> k # 0
    <3>1. CASE router.current \in PrioritySet
      BY <3>1, IndexOfFirst, PriorityType DEF PrioritySet
    <3>2. CASE router.current \notin PrioritySet
      BY <3>2, PriorityType DEF IndexOf
    <3>3. QED
      BY <3>1, <3>2
  <2>0. RestoreCandidates(router, TRUE) =
          {j \in DOMAIN Priority : j < end /\ Configs[Priority[j]].kind # "none"}
    BY DEF RestoreCandidates
  <2>2. Before(TRUE)
    <3>1. ~Success /\ ~Tick /\ ~Reset
      BY SuccessStep, TickStep, ResetStep
    <3>2. /\ \A p \in Providers : ~SetCurrent(p)
          /\ \A allow \in BOOLEAN : ~SetAllow(allow)
      BY SetCurrentStep, SetAllowStep
    <3>3. \A failure \in FailureKind : ~Failure(failure)
      BY FailureStep
    <3>4. ~Before(FALSE)
      BY BeforeStep
    <3>5. QED
      BY <3>1, <3>2, <3>3, <3>4 DEF Next
  <2>8. i \in Nat /\ i >= 1
    BY DEF Above
  <2>3. i < end /\ NoneAdmits(router, RestoreCandidates(router, TRUE), now) =>
          Probe(router, Priority[i], now).resolution.kind # "continue"
    <3> SUFFICES ASSUME i < end PROVE i \in RestoreCandidates(router, TRUE)
      BY Zenon DEF NoneAdmits
    <3>1. i \in DOMAIN Priority
      BY <2>1, <2>8
    <3>2. QED
      BY <2>0, <3>1
  <2>4. CASE Switched(router, router', RestoreCandidates(router, TRUE), now)
    <3>1. PICK f \in RestoreCandidates(router, TRUE) :
            /\ router'.current = Priority[f]
            /\ \A j \in RestoreCandidates(router, TRUE) :
                 j < f => Probe(router, Priority[j], now).resolution.kind # "continue"
      BY <2>4 DEF Switched
    <3>2. f \in DOMAIN Priority /\ f < end
      BY <2>0
    <3>3. IndexOf(Priority[f]) <= f /\ IndexOf(Priority[f]) \in Nat
          /\ Priority[f] \in PrioritySet
      BY <3>2, IndexOfFirst DEF PrioritySet
    <3>4. i < f /\ i \in DOMAIN Priority /\ i < end
      BY <2>1, <2>8, <3>1, <3>2, <3>3 DEF Above
    <3>5. i \in RestoreCandidates(router, TRUE)
      BY <2>0, <3>4
    <3>6. QED
      BY <3>1, <3>4, <3>5
  <2>5. CASE /\ NoneAdmits(router, RestoreCandidates(router, TRUE), now)
             /\ router'.current = router.current
    <3>1. i \in Above(router)
      BY <2>5 DEF Above
    <3>2. i < end
      BY <2>1, <3>1 DEF Above
    <3>3. QED
      BY <2>3, <2>5, <3>2
  <2>6. CASE /\ NoneAdmits(router, RestoreCandidates(router, TRUE), now)
             /\ Probe(router, router.current, now).resolution.kind = "abort"
             /\ Switched(router, router', FailoverCandidates(router), now)
    <3>1. PICK f \in FailoverCandidates(router) :
            /\ router'.current = Priority[f]
            /\ \A j \in FailoverCandidates(router) :
                 j < f => Probe(router, Priority[j], now).resolution.kind # "continue"
      BY <2>6 DEF Switched
    <3>2. f \in DOMAIN Priority /\ f > k
      BY CandidatesType
    <3>3. IndexOf(Priority[f]) <= f /\ IndexOf(Priority[f]) \in Nat
          /\ Priority[f] \in PrioritySet
      BY <3>2, IndexOfFirst DEF PrioritySet
    <3>4. i < f /\ i \in DOMAIN Priority
      BY <2>1, <2>8, <3>1, <3>2, <3>3 DEF Above
    <3>5. CASE i < k
      <4>1. i < end
        BY <2>1, <2>8, <3>5
      <4>2. QED
        BY <2>3, <2>6, <4>1
    <3>6. CASE i = k
      BY <2>1, <2>6, <2>8, <3>6
    <3>7. CASE i > k
      <4>1. i \in FailoverCandidates(router)
        BY <3>4, <3>7 DEF FailoverCandidates
      <4>2. QED
        BY <3>1, <3>4, <4>1
    <3>8. QED
      BY <2>1, <2>8, <3>5, <3>6, <3>7
  <2>7. QED
    <3>1. \/ Switched(router, router', RestoreCandidates(router, TRUE), now)
          \/ /\ NoneAdmits(router, RestoreCandidates(router, TRUE), now)
             /\ router'.current = router.current
          \/ /\ NoneAdmits(router, RestoreCandidates(router, TRUE), now)
             /\ Probe(router, router.current, now).resolution.kind = "abort"
             /\ Switched(router, router', FailoverCandidates(router), now)
      BY <2>2, BeforeStep
    <3>2. QED
      BY <2>4, <2>5, <2>6, <3>1
<1>2. QED
  BY <1>1, RouterInductive, PTL DEF Spec, RestoreFindsBest
=============================================================================
