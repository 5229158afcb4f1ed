------------------------- MODULE FailurePolicyRouter -------------------------
(***************************************************************************)
(* FailurePolicyRouter as operators: it keeps one failure policy per       *)
(* provider of a use case, knows which provider is current, and turns an   *)
(* abort of the current policy into a switch to another provider.  Every   *)
(* method takes the router r and yields an Answer: the router after the    *)
(* call and the resolution.                                                *)
(***************************************************************************)
EXTENDS FailurePolicies, Sequences, FiniteSetsExt

CONSTANTS Providers,    \* every provider a perform may name
          NoProvider,   \* stands for undefined
          Priority,     \* the failover priority of the use case
          Configs       \* the policy configuration of every provider

ASSUME RouterAssumption ==
  /\ Priority \in Seq(Providers)
  /\ Configs \in [Providers -> PolicyConfig]
  /\ NoProvider \notin Providers

PrioritySet == {Priority[i] : i \in DOMAIN Priority}

(* Array.prototype.indexOf, counted from 1; 0 stands for -1.               *)
IndexOf(p) == IF p \in PrioritySet
              THEN Min({i \in DOMAIN Priority : Priority[i] = p})
              ELSE 0

Answered(r, resolution) == [router |-> r, resolution |-> resolution]
SwitchTo(p) == [kind |-> "switch-provider", provider |-> p]

NewRouter == [current |-> NoProvider, allowFailover |-> TRUE,
              policies |-> [p \in PrioritySet |-> NewPolicy]]

-----------------------------------------------------------------------------

(* Mutated form: the provider gets no policy.                              *)
SetCurrentNoPolicy(r, p) == [r EXCEPT !.current = p]

(* A provider outside the priority gets its policy when it is first used.  *)
SetCurrentProvider(r, p) ==
  [current |-> p, allowFailover |-> r.allowFailover,
   policies |-> [q \in (DOMAIN r.policies) \cup {p} |->
                   IF q \in DOMAIN r.policies THEN r.policies[q] ELSE NewPolicy]]

SetAllowFailover(r, allow) == [r EXCEPT !.allowFailover = allow]

SetPolicy(r, p, s) == [r EXCEPT !.policies = [@ EXCEPT ![p] = s]]

(* What the policy of provider p answers to beforeExecution.               *)
Probe(r, p, time) == BeforeExecution(Configs[p], r.policies[p], time)

(* Mutated form: takes a provider that does not abort, as the comment on   *)
(* attemptSwitch says, where the code asks for one that continues.         *)
TryBackingOff(r, p, time) ==
  LET probed == Probe(r, p, time)
      tested == SetPolicy(r, p, probed.policy)
  IN IF probed.resolution.kind # "abort"
     THEN Answered(SetCurrentProvider(tested, p), SwitchTo(p))
     ELSE Answered(tested, Resolution("none"))

(* One provider is asked, which may change its policy whatever it answers  *)
(* (a breaker turns half-open), and is taken if it answers continue.       *)
Try(r, p, time) ==
  LET probed == Probe(r, p, time)
      tested == SetPolicy(r, p, probed.policy)
  IN IF probed.resolution.kind = "continue"
     THEN Answered(SetCurrentProvider(tested, p), SwitchTo(p))
     ELSE Answered(tested, Resolution("none"))

(* Array.prototype.find over the candidates, given by their places in the  *)
(* priority: search[i] is what has come of those up to place i.            *)
AttemptSwitch(r, candidates, time) ==
  LET search[i \in 0..Len(Priority)] ==
        IF i = 0 THEN Answered(r, Resolution("none"))
        ELSE IF search[i - 1].resolution.kind = "switch-provider" \/ i \notin candidates
        THEN search[i - 1]
        ELSE Try(search[i - 1].router, Priority[i], time)
  IN search[Len(Priority)]

(* Mutated forms: failover although it is disallowed, from the top of the  *)
(* list, or to the next provider only.                                     *)
FailoverAnyway(r)  == {i \in DOMAIN Priority : i > IndexOf(r.current)}
FailoverFromTop(r) == IF r.allowFailover THEN DOMAIN Priority ELSE {}
FailoverToNext(r)  ==
  IF r.allowFailover THEN DOMAIN Priority \cap {IndexOf(r.current) + 1} ELSE {}

(* priority.slice(indexOf(current) + 1)                                    *)
FailoverCandidates(r) ==
  IF r.allowFailover THEN {i \in DOMAIN Priority : i > IndexOf(r.current)} ELSE {}

(* Mutated form: the first provider of the priority is left out.           *)
RestoreSkipsFirst(r, checkFailoverRestore) ==
  IF r.allowFailover /\ checkFailoverRestore
  THEN {i \in 2..(IndexOf(r.current) - 1) : Configs[Priority[i]].kind # "none"}
  ELSE {}

(* priority.slice(0, indexOf(current)) without the abort policies; a       *)
(* current provider outside the priority makes that slice(0, -1).          *)
RestoreCandidates(r, checkFailoverRestore) ==
  LET index == IndexOf(r.current)
      end   == IF index = 0 THEN Len(Priority) ELSE index
  IN IF r.allowFailover /\ checkFailoverRestore
     THEN {i \in DOMAIN Priority : i < end /\ Configs[Priority[i]].kind # "none"}
     ELSE {}

HandleFailover(r, resolution, time) ==
  LET failover == AttemptSwitch(r, FailoverCandidates(r), time)
  IN IF resolution.kind # "abort" THEN Answered(r, resolution)
     ELSE IF failover.resolution.kind = "switch-provider" THEN failover
     ELSE Answered(failover.router, resolution)

-----------------------------------------------------------------------------

(* The own policy is asked only when the restore has found nobody.         *)
RouterBeforeExecution(r, time, checkFailoverRestore) ==
  LET restore == AttemptSwitch(r, RestoreCandidates(r, checkFailoverRestore), time)
      inner   == Probe(restore.router, r.current, time)
  IN IF r.current = NoProvider THEN Answered(r, Throws)
     ELSE IF restore.resolution.kind = "switch-provider" THEN restore
     ELSE HandleFailover(SetPolicy(restore.router, r.current, inner.policy),
                         inner.resolution, time)

RouterAfterFailure(r, failure, time) ==
  LET inner == AfterFailure(Configs[r.current], r.policies[r.current], failure, time)
  IN IF r.current = NoProvider THEN Answered(r, Throws)
     ELSE HandleFailover(SetPolicy(r, r.current, inner.policy),
                         inner.resolution, time)

RouterAfterSuccess(r, time) ==
  LET inner == AfterSuccess(Configs[r.current], r.policies[r.current], time)
  IN IF r.current = NoProvider THEN Answered(r, Throws)
     ELSE Answered(SetPolicy(r, r.current, inner.policy), inner.resolution)

RouterReset(r) ==
  LET first == SetCurrentProvider(r, Priority[1])
  IN [first EXCEPT !.policies =
        [p \in DOMAIN @ |-> ResetPolicy(Configs[p], @[p])]]

-----------------------------------------------------------------------------
(* What every call leaves true of a router: the current provider has a     *)
(* policy, and each policy is sound for its configuration.                 *)
IsRouter(r) ==
  /\ DOMAIN r.policies \subseteq Providers
  /\ r \in [current : Providers \cup {NoProvider}, allowFailover : BOOLEAN,
            policies : [DOMAIN r.policies -> PolicyState]]

SoundRouter(r) ==
  /\ r.current # NoProvider => r.current \in DOMAIN r.policies
  /\ PrioritySet \subseteq DOMAIN r.policies
  /\ \A p \in DOMAIN r.policies :
       /\ SoundPolicy(r.policies[p])
       /\ Configs[p].kind # "circuit-breaker" =>
            r.policies[p].state = "closed" /\ r.policies[p].openTime = 0
=============================================================================
