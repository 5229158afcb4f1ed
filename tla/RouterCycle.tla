----------------------------- MODULE RouterCycle -----------------------------
(***************************************************************************)
(* The router of one use case under any sequence of calls of its methods.  *)
(* Performs interleave, so the calls of one perform may come between those *)
(* of another: no order is assumed, except that a policy's own contract is *)
(* kept (an open breaker is not told about an execution it never let in;   *)
(* PolicyCycle and Perform show what happens otherwise).                   *)
(***************************************************************************)
EXTENDS FailurePolicyRouter

CONSTANTS MaxTime,      \* bound of the clock
          MaxStreak     \* bound of a streak of either sign

ASSUME RouterBoundsAssumption == MaxTime \in Nat /\ MaxStreak \in Nat

VARIABLES router,   \* the router of the use case
          now,      \* timers.now()
          event     \* history: the last call and its answer

vars == <<router, now, event>>

Call == {"none", "set-current", "set-allow", "before", "restore", "failure",
         "success", "reset", "tick"}
Answer == {"none", "continue", "backoff", "abort", "retry", "throw",
           "switch-provider"}

TypeOK ==
  /\ IsRouter(router)
  /\ now \in 0..MaxTime
  /\ event \in [call : Call, answer : Answer]

Init ==
  /\ router = NewRouter
  /\ now = 0
  /\ event = [call |-> "none", answer |-> "none"]

CurrentPolicy == router.policies[router.current]

Settle(call, answered) ==
  /\ router' = answered.router
  /\ event' = [call |-> call, answer |-> answered.resolution.kind]
  /\ UNCHANGED now

-----------------------------------------------------------------------------

SetCurrent(p) ==
  Settle("set-current", Answered(SetCurrentProvider(router, p), Resolution("none")))

SetAllow(allow) ==
  Settle("set-allow", Answered(SetAllowFailover(router, allow), Resolution("none")))

Before(checkFailoverRestore) ==
  Settle(IF checkFailoverRestore THEN "restore" ELSE "before",
         RouterBeforeExecution(router, now, checkFailoverRestore))

Failure(failure) ==
  /\ router.current # NoProvider =>
       CurrentPolicy.state # "open" /\ CurrentPolicy.streak > -MaxStreak
         /\ CurrentPolicy.ups < MaxStreak
  /\ Settle("failure", RouterAfterFailure(router, failure, now))

Success ==
  /\ router.current # NoProvider =>
       CurrentPolicy.state # "open" /\ CurrentPolicy.streak < MaxStreak
  /\ Settle("success", RouterAfterSuccess(router, now))

(* With an empty priority the method would make undefined current.         *)
Reset ==
  /\ Len(Priority) > 0
  /\ Settle("reset", Answered(RouterReset(router), Resolution("none")))

Tick ==
  /\ now < MaxTime
  /\ now' = now + 1
  /\ event' = [call |-> "tick", answer |-> "none"]
  /\ UNCHANGED router

Next ==
  \/ \E p \in Providers : SetCurrent(p)
  \/ \E allow \in BOOLEAN : SetAllow(allow)
  \/ \E check \in BOOLEAN : Before(check)
  \/ \E failure \in FailureKind : Failure(failure)
  \/ Success
  \/ Reset
  \/ Tick

Spec == Init /\ [][Next]_vars

-----------------------------------------------------------------------------
Admits(r, p, time) == Probe(r, p, time).resolution.kind = "continue"

Moved == router'.current # router.current

(* With failover disabled (the user named a provider) the router stays     *)
(* with its provider whatever fails and whatever policies say.             *)
NoSwitchWhenDisallowed ==
  [][~router.allowFailover /\ event'.call \notin {"set-current", "reset"} =>
       ~Moved]_vars

(* A provider the router switches to would let an execution through right  *)
(* away: never one with an open breaker or one that is backing off.        *)
SwitchTargetAdmits ==
  [][event'.answer = "switch-provider" =>
       Admits(router', router'.current, now)]_vars

(* A failure only ever moves the router down the priority list; going back *)
(* up is left to a failover restore before a perform.                      *)
FailureMovesDown ==
  [][event'.call \in {"failure", "before"} /\ Moved =>
       IndexOf(router'.current) > IndexOf(router.current)]_vars

(* After a restore check the router is at the best provider of the         *)
(* priority that admits an execution; those without a policy never return. *)
(* From a provider outside the priority all but the last may be restored.  *)
Above(r) == IF r.current \in PrioritySet THEN 1..(IndexOf(r.current) - 1)
                                         ELSE 1..(Len(Priority) - 1)

RestoreFindsBest ==
  [][event'.call = "restore" /\ router.allowFailover /\ router.current # NoProvider =>
       \A i \in Above(router') :
         Configs[Priority[i]].kind # "none" => ~Admits(router, Priority[i], now)]_vars

(* The router gives up on an execution only when no provider after the     *)
(* current one would let it through.                                       *)
AbortMeansExhausted ==
  [][event'.answer = "abort" /\ router.allowFailover =>
       \A i \in DOMAIN Priority :
         i > IndexOf(router.current) => ~Admits(router, Priority[i], now)]_vars

(* A failover goes down, and to the end before the router gives up.        *)
FailsOverDown == FailureMovesDown /\ AbortMeansExhausted

(* A call touches the policy of the provider it is about and the one it    *)
(* switches to, never that of a third, although it asks others in between: *)
(* who is asked and not taken has neither spent a trial nor begun to wait. *)
OthersUntouched ==
  [][event'.call # "reset" =>
       \A p \in DOMAIN router.policies \ {router.current, router'.current} :
         router'.policies[p] = router.policies[p]]_vars

(* The router and every policy in it stay sound under any calls.           *)
SoundAlways == SoundRouter(router)

(* Both at once are inductive: the router is sound because every lookup    *)
(* finds a policy, which TypeOK does not say, and a policy stays well      *)
(* typed because it is sound.                                              *)
RouterInv == TypeOK /\ SoundAlways
=============================================================================
