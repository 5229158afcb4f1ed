------------------------------- MODULE Perform -------------------------------
(***************************************************************************)
(* UseCase.perform from the call to the settled promise: the interceptors  *)
(* of bind-and-perform, fetch and unhandled-http with the failover hooks   *)
(* on them, binding a provider, and the HTTP calls a map makes.            *)
(*                                                                         *)
(* Every action is the code between two awaits.  Performs interleave at    *)
(* awaits and share what the code shares: the router and the queued action *)
(* of a use case (Events.hookContext), the metadata and boundProfile-      *)
(* Provider of a UseCase object, and the metadata of the one fetch object  *)
(* of the client.                                                          *)
(*                                                                         *)
(* Data abstraction: an input, a result and an error are their kinds, a    *)
(* map is any sequence of at most MaxCalls HTTP calls, the cache of bound  *)
(* providers does not expire within the horizon of a run.                  *)
(***************************************************************************)
EXTENDS FailurePolicyRouter, FiniteSets

CONSTANTS Performs, UseCaseObjects, UseCases, NoUseCase,
          ObjectOf,         \* the UseCase object a perform is called on
          UseCaseOf,        \* the use case of an object
          Options,          \* options.provider: a provider or NoProvider
          DefaultProvider,  \* priority[0] of the profile, or NoProvider
          Concurrency,      \* performs that may run at the same time
          MaxTime,          \* bound of the clock when nobody sleeps
          MaxCalls          \* HTTP calls a map makes

ASSUME PerformAssumption ==
  /\ IsFiniteSet(Performs)
  /\ ObjectOf \in [Performs -> UseCaseObjects]
  /\ UseCaseOf \in [UseCaseObjects -> UseCases]
  /\ NoUseCase \notin UseCases
  /\ Options \subseteq Providers \cup {NoProvider}
  /\ DefaultProvider \in Providers \cup {NoProvider}
  /\ Concurrency \in Nat /\ MaxTime \in Nat /\ MaxCalls \in Nat

VARIABLES hook,       \* Events.hookContext
          object,     \* metadata.provider and boundProfileProvider of objects
          fetchUse,   \* metadata.usecase of the fetch object
          cache,      \* providers in boundProfileProviderCache
          now,        \* timers.now()
          perform,    \* the calls of UseCase.perform
          wake        \* when the backoff of a perform is over

vars == <<hook, object, fetchUse, cache, now, perform, wake>>

Action     == [kind : {"none", "full-abort", "switch-provider"},
               provider : Providers \cup {NoProvider}]
NoAction   == [kind |-> "none", provider |-> NoProvider]
FullAbort  == [kind |-> "full-abort", provider |-> NoProvider]

(* How a promise settles; a "sdk-error" is an SDKExecutionError, whose     *)
(* constructor makes each an instance of SDKBindError as well.             *)
Settled == {"none", "ok", "http", "network", "error", "sdk-error", "placeholder", "throw",
            "reason", "invalid-context"}
Place == {"idle", "bind", "load", "assign", "perform", "map", "pre-fetch",
          "sleep", "fetch", "post-fetch", "fetch-failed", "unhandled", "post-bind",
          "settle", "done"}

NewPerform ==
  [at |-> "idle", provider |-> NoProvider, named |-> FALSE,
   target |-> NoProvider, served |-> NoProvider, phase |-> "bind",
   heard |-> NoUseCase, result |-> "none", calls |-> 0]

ObjectState ==
  [provider : Providers \cup {NoProvider}, bound : Providers \cup {NoProvider}]

PerformState ==
  [at : Place, provider : Providers \cup {NoProvider}, named : BOOLEAN,
   target : Providers \cup {NoProvider}, served : Providers \cup {NoProvider},
   phase : {"bind", "map"}, heard : UseCases \cup {NoUseCase},
   result : Settled, calls : 0..MaxCalls]

(* When a perform wakes is a time; only the clock is compared with it.     *)
TypeOK ==
  /\ hook = [u \in UseCases |-> [router |-> hook[u].router,
                                 queuedAction |-> hook[u].queuedAction]]
  /\ \A u \in UseCases : IsRouter(hook[u].router) /\ hook[u].queuedAction \in Action
  /\ object \in [UseCaseObjects -> ObjectState]
  /\ fetchUse \in UseCases \cup {NoUseCase}
  /\ cache \subseteq Providers
  /\ now \in Nat
  /\ perform \in [Performs -> PerformState]

Init ==
  /\ hook = [u \in UseCases |-> [router |-> NewRouter, queuedAction |-> NoAction]]
  /\ object = [o \in UseCaseObjects |-> [provider |-> NoProvider,
                                         bound |-> NoProvider]]
  /\ fetchUse = NoUseCase
  /\ cache = {}
  /\ now = 0
  /\ perform = [p \in Performs |-> NewPerform]
  /\ wake = [p \in Performs |-> 0]

Running   == {p \in Performs : perform[p].at \notin {"idle", "done"}}
UseCase(p) == UseCaseOf[ObjectOf[p]]

(* Mutated form: an abort is not queued at all.                            *)
QueuedSwitchOnly(resolution) ==
  IF resolution.kind = "abort" THEN NoAction
  ELSE [kind |-> "switch-provider", provider |-> resolution.provider]

(* handleCommonResolution: what an abort or a switch leaves in the queue;  *)
(* the result becomes a placeholder rejection.                             *)
Queued(resolution) ==
  IF resolution.kind = "abort" THEN FullAbort
  ELSE [kind |-> "switch-provider", provider |-> resolution.provider]

Goto(p, place) == perform' = [perform EXCEPT ![p] = [@ EXCEPT !.at = place]]
GotoWith(p, place, result) ==
  perform' = [perform EXCEPT ![p] = [@ EXCEPT !.at = place, !.result = result]]
Return(p, result) == GotoWith(p, "post-bind", result)
Finish(p, result) == GotoWith(p, "done", result)

-----------------------------------------------------------------------------
(* UseCase.perform, then pre-bind-and-perform.                             *)

Start(p, choice) ==
  LET u       == UseCase(p)
      allowed == SetAllowFailover(hook[u].router, choice = NoProvider)
      answer  == RouterBeforeExecution(allowed, now, TRUE)
      started(place, result) ==
        perform' = [perform EXCEPT ![p] =
                      [@ EXCEPT !.at = place, !.result = result,
                                !.provider = choice,
                                !.named = (choice # NoProvider)]]
  IN /\ perform[p].at = "idle"
     /\ Cardinality(Running) < Concurrency
     /\ \/ /\ choice # NoProvider \/ allowed.current = NoProvider
           /\ hook' = [hook EXCEPT ![u].router = allowed]
           /\ started("bind", "none")
        \/ /\ choice = NoProvider /\ allowed.current # NoProvider
           /\ IF answer.resolution.kind \in {"continue", "backoff"}
              THEN /\ hook' = [hook EXCEPT ![u].router = answer.router]
                   /\ started("bind", "none")
              ELSE /\ hook' = [hook EXCEPT ![u] =
                        [router |-> answer.router,
                         queuedAction |-> Queued(answer.resolution)]]
                   /\ started("post-bind", "placeholder")
     /\ UNCHANGED <<object, fetchUse, cache, now, wake>>

-----------------------------------------------------------------------------
(* UseCaseBase.bind and rebind                                             *)

Bind(p) ==
  LET u      == UseCase(p)
      router == hook[u].router
      target == IF perform[p].provider # NoProvider THEN perform[p].provider
                ELSE IF router.current # NoProvider THEN router.current
                ELSE DefaultProvider
  IN /\ perform[p].at = "bind"
     /\ \/ /\ target = NoProvider
           /\ Return(p, "sdk-error")
           /\ UNCHANGED <<hook, object>>
        \/ /\ target # NoProvider
           /\ hook' = [hook EXCEPT ![u].router = SetCurrentProvider(router, target)]
           /\ object' = [object EXCEPT ![ObjectOf[p]].provider = target]
           /\ perform' = [perform EXCEPT ![p] =
                 [@ EXCEPT !.at = IF target \in cache THEN "assign" ELSE "load",
                           !.target = target, !.phase = "bind"]]
     /\ UNCHANGED <<fetchUse, cache, now, wake>>

(* bindProfileProvider without its requests: from local files alone, or    *)
(* up to the request to the registry; a broken file fails it.              *)
BoundProvider(p) ==
  /\ cache' = cache \cup {perform[p].target}
  /\ fetchUse' = NoUseCase      \* the constructor names no use case
  /\ Goto(p, "assign")

Load(p) ==
  /\ perform[p].at = "load"
  /\ \/ BoundProvider(p)
     \/ /\ Goto(p, "pre-fetch")
        /\ UNCHANGED <<fetchUse, cache>>
     \/ /\ \E result \in {"error", "sdk-error"} : Return(p, result)
        /\ UNCHANGED <<fetchUse, cache>>
  /\ UNCHANGED <<hook, object, now, wake>>

(* Mutated form: a provider is bound to an object only once.               *)
AssignOnce(p) ==
  /\ perform[p].at = "assign"
  /\ object' = [object EXCEPT ![ObjectOf[p]].bound =
                  IF @ = NoProvider THEN perform[p].target ELSE @]
  /\ Goto(p, "perform")
  /\ UNCHANGED <<hook, fetchUse, cache, now, wake>>

(* The awaited provider becomes the one of the object ...                  *)
Assign(p) ==
  /\ perform[p].at = "assign"
  /\ object' = [object EXCEPT ![ObjectOf[p]].bound = perform[p].target]
  /\ Goto(p, "perform")
  /\ UNCHANGED <<hook, fetchUse, cache, now, wake>>

(* ... and after the pre-perform event the one of the object performs.     *)
PerformBound(p) ==
  /\ perform[p].at = "perform"
  /\ fetchUse' = UseCase(p)
  /\ perform' = [perform EXCEPT ![p] =
                  [@ EXCEPT !.at = "map", !.phase = "map",
                            !.served = object[ObjectOf[p]].bound]]
  /\ UNCHANGED <<hook, object, cache, now, wake>>

-----------------------------------------------------------------------------
(* The map: any number of HTTP calls, then an outcome.                     *)

MapEnds(p, result) ==
  /\ perform[p].at = "map"
  /\ Return(p, result)
  /\ UNCHANGED <<hook, object, fetchUse, cache, now, wake>>

MapCalls(p) ==
  /\ perform[p].at = "map"
  /\ perform[p].calls < MaxCalls
  /\ perform' = [perform EXCEPT ![p] =
                  [@ EXCEPT !.at = "pre-fetch",
                            !.calls = perform[p].calls + 1]]
  /\ UNCHANGED <<hook, object, fetchUse, cache, now, wake>>

(* A request that ends without a response rejects: in a map, and in        *)
(* fetchBind, as it is, while cacheProviderInfo makes the rejection an     *)
(* UnexpectedError (it looks for the cached provider under a name it is    *)
(* never written to).                                                      *)
Rejections(p, result) ==
  IF perform[p].phase = "bind" THEN {result, "error"} ELSE {result}

(* Binding turns a bad response into a bind error.                         *)
FetchReturns(p, result) ==
  CASE perform[p].phase = "map" /\ result \in {"ok", "http"} ->
         /\ \/ Goto(p, "map")         \* a response handler of the map took it
            \/ GotoWith(p, "unhandled", result)
         /\ UNCHANGED <<fetchUse, cache>>
    [] perform[p].phase = "bind" /\ result = "ok" ->
         \/ BoundProvider(p)
         \/ /\ Return(p, "sdk-error")
            /\ UNCHANGED <<fetchUse, cache>>
    [] perform[p].phase = "bind" /\ result = "http" ->
         /\ Return(p, "sdk-error")
         /\ UNCHANGED <<fetchUse, cache>>
    [] result \notin {"ok", "http"} ->
         /\ \E rejection \in Rejections(p, result) : Return(p, rejection)
         /\ UNCHANGED <<fetchUse, cache>>

-----------------------------------------------------------------------------
(* pre-fetch, the request itself, post-fetch                               *)

PreFetch(p) ==
  LET answer == RouterBeforeExecution(hook[fetchUse].router, now, FALSE)
      kind   == answer.resolution.kind
  IN /\ perform[p].at = "pre-fetch"
     /\ \/ /\ fetchUse = NoUseCase
           /\ Goto(p, "fetch")
           /\ UNCHANGED <<hook, wake>>
        \/ /\ fetchUse # NoUseCase /\ kind \in {"continue", "backoff"}
           /\ hook' = [hook EXCEPT ![fetchUse].router = answer.router]
           /\ IF kind = "continue" THEN Goto(p, "fetch")
              ELSE Goto(p, "sleep")
           /\ wake' = IF kind = "continue" THEN wake
                      ELSE [wake EXCEPT ![p] = now + answer.resolution.backoff]
        \/ /\ fetchUse # NoUseCase /\ kind \in {"abort", "switch-provider"}
           /\ hook' = [hook EXCEPT ![fetchUse] =
                         [router |-> answer.router,
                          queuedAction |-> Queued(answer.resolution)]]
           /\ GotoWith(p, "post-fetch", "placeholder")
           /\ UNCHANGED wake
     /\ UNCHANGED <<object, fetchUse, cache, now>>

Wake(p) ==
  /\ perform[p].at = "sleep"
  /\ now >= wake[p]
  /\ Goto(p, "fetch")
  /\ UNCHANGED <<hook, object, fetchUse, cache, now, wake>>

Fetch(p, result) ==
  /\ perform[p].at = "fetch"
  /\ GotoWith(p, "post-fetch", result)
  /\ UNCHANGED <<hook, object, fetchUse, cache, now, wake>>

(* What the policy of use case u makes of a failed request.                *)
FailedRequest(u, failure) == RouterAfterFailure(hook[u].router, failure, now)

PostFetch(p) ==
  LET result == perform[p].result
      heard  == /\ fetchUse # NoUseCase
                /\ hook[fetchUse].queuedAction = NoAction
                /\ result \notin {"ok", "http"}
  IN /\ perform[p].at = "post-fetch"
     /\ \/ /\ ~heard
           /\ FetchReturns(p, result)
        \/ /\ heard
           /\ perform' = [perform EXCEPT ![p] =
                            [@ EXCEPT !.at = "fetch-failed", !.heard = fetchUse]]
           /\ UNCHANGED <<fetchUse, cache>>
     /\ UNCHANGED <<hook, object, now, wake>>

(* The kind of a failure that has no response.                             *)
FailureOf(result) == IF result = "network" THEN "network" ELSE "unknown"

(* The use case that listened has answered.                                *)
HeardOut(p, place, result) ==
  perform' = [perform EXCEPT ![p] =
                [@ EXCEPT !.at = place, !.result = result, !.heard = NoUseCase]]

(* After `await res`: the use case is the one the event was emitted with,  *)
(* and an action queued meanwhile is overwritten.                          *)
FetchFailed(p) ==
  LET u      == perform[p].heard
      answer == FailedRequest(u, FailureOf(perform[p].result))
      kind   == answer.resolution.kind
  IN /\ perform[p].at = "fetch-failed"
     /\ \/ /\ kind = "throw"
           /\ \E rejection \in Rejections(p, "throw") : HeardOut(p, "post-bind", rejection)
           /\ UNCHANGED hook
        \/ /\ kind = "retry"
           /\ hook' = [hook EXCEPT ![u].router = answer.router]
           /\ HeardOut(p, "pre-fetch", perform[p].result)
        \/ /\ kind \in {"abort", "switch-provider"}
           /\ hook' = [hook EXCEPT ![u] =
                         [router |-> answer.router,
                          queuedAction |-> Queued(answer.resolution)]]
           /\ \E rejection \in Rejections(p, "placeholder") :
                HeardOut(p, "post-bind", rejection)
     /\ UNCHANGED <<object, fetchUse, cache, now, wake>>

(* pre-unhandled-http and unhandledHttp, which know the use case they were *)
(* created for.                                                            *)
UnhandledHttp(p) ==
  LET u      == UseCase(p)
      answer == FailedRequest(u, "http")
      kind   == answer.resolution.kind
  IN /\ perform[p].at = "unhandled"
     /\ \/ /\ perform[p].result = "ok"
           /\ Goto(p, "map")
           /\ UNCHANGED hook
        \/ /\ perform[p].result = "http" /\ hook[u].queuedAction # NoAction
           /\ Return(p, "error")
           /\ UNCHANGED hook
        \/ /\ perform[p].result = "http" /\ hook[u].queuedAction = NoAction
           /\ CASE kind = "throw" -> Return(p, "throw") /\ UNCHANGED hook
                [] kind = "retry" ->
                     /\ hook' = [hook EXCEPT ![u].router = answer.router]
                     /\ Goto(p, "pre-fetch")
                [] kind \in {"abort", "switch-provider"} ->
                     /\ hook' = [hook EXCEPT ![u] =
                                   [router |-> answer.router,
                                    queuedAction |-> Queued(answer.resolution)]]
                     /\ Return(p, "placeholder")
     /\ UNCHANGED <<object, fetchUse, cache, now, wake>>

-----------------------------------------------------------------------------
(* post-bind-and-perform                                                   *)

(* Mutated form: the queued action stays in the queue.                     *)
ConsumeKeeps(p, u, r, action) ==
  /\ hook' = [hook EXCEPT ![u].router = r]
  /\ perform' = [perform EXCEPT ![p] = [@ EXCEPT
       !.at = IF action.kind = "switch-provider" THEN "bind" ELSE "done",
       !.result = IF action.kind = "switch-provider" THEN "none" ELSE "reason",
       !.provider = IF action.kind = "switch-provider" THEN action.provider ELSE @]]

(* The queued action of router r is taken and done: bind again with        *)
(* another provider, or reject with the reason of the abort.               *)
Consume(p, u, r, action) ==
  /\ hook' = [hook EXCEPT ![u] = [router |-> r, queuedAction |-> NoAction]]
  /\ IF action.kind = "switch-provider"
     THEN perform' = [perform EXCEPT ![p] =
                          [@ EXCEPT !.at = "bind", !.result = "none",
                                    !.provider = action.provider]]
     ELSE Finish(p, "reason")

PostBind(p) ==
  LET u == UseCase(p)
  IN /\ perform[p].at = "post-bind"
     /\ \/ /\ object[ObjectOf[p]].provider = NoProvider
           /\ Finish(p, "invalid-context")
           /\ UNCHANGED hook
        \/ /\ object[ObjectOf[p]].provider # NoProvider
           /\ IF hook[u].queuedAction = NoAction
              THEN Goto(p, "settle") /\ UNCHANGED hook
              ELSE Consume(p, u, hook[u].router, hook[u].queuedAction)
     /\ UNCHANGED <<object, fetchUse, cache, now, wake>>

(* After `await res`, when nothing was queued before it.                   *)
SettleSuccess(p) ==
  LET u      == UseCase(p)
      answer == RouterAfterSuccess(hook[u].router, now)
      thrown == answer.resolution.kind = "throw"
  IN /\ perform[p].at = "settle"
     /\ perform[p].result = "ok"
     /\ hook' = [hook EXCEPT ![u].router = answer.router]
     /\ Finish(p, IF thrown THEN "throw" ELSE "ok")
     /\ UNCHANGED <<object, fetchUse, cache, now, wake>>

SettleFailure(p) ==
  LET u      == UseCase(p)
      bind   == perform[p].result = "sdk-error"
      answer == IF bind THEN FailedRequest(u, "bind")
                ELSE Answered(hook[u].router, Resolution("none"))
      kind   == answer.resolution.kind
      action == IF kind = "switch-provider" THEN Queued(answer.resolution)
                ELSE hook[u].queuedAction
  IN /\ perform[p].at = "settle"
     /\ perform[p].result # "ok"
     /\ IF action # NoAction /\ kind # "throw"
        THEN Consume(p, u, answer.router, action)
        ELSE /\ hook' = [hook EXCEPT ![u].router = answer.router]
             /\ Finish(p, IF kind = "throw" THEN "throw" ELSE perform[p].result)
     /\ UNCHANGED <<object, fetchUse, cache, now, wake>>

-----------------------------------------------------------------------------

(* The clock goes on to MaxTime, and further while a backoff needs it.     *)
Tick ==
  /\ \/ now < MaxTime
     \/ \E p \in Performs : perform[p].at = "sleep" /\ now < wake[p]
  /\ now' = now + 1
  /\ UNCHANGED <<hook, object, fetchUse, cache, perform, wake>>

Step(p) ==
  \/ Bind(p)
  \/ Load(p)
  \/ Assign(p)
  \/ PerformBound(p)
  \/ \E result \in {"ok", "error", "sdk-error"} : MapEnds(p, result)
  \/ MapCalls(p)
  \/ PreFetch(p)
  \/ Wake(p)
  \/ \E result \in {"ok", "http", "network"} : Fetch(p, result)
  \/ PostFetch(p)
  \/ FetchFailed(p)
  \/ UnhandledHttp(p)
  \/ PostBind(p)
  \/ SettleSuccess(p)
  \/ SettleFailure(p)

AllDone ==
  /\ \A p \in Performs : perform[p].at = "done"
  /\ now >= MaxTime
  /\ UNCHANGED vars

Next ==
  \/ \E p \in Performs, choice \in Options : Start(p, choice)
  \/ \E p \in Performs : Step(p)
  \/ Tick
  \/ AllDone

(* ENABLED Step(p), spelled out for TLC: a started perform can always go   *)
(* on, except that it sleeps until its backoff is over.                    *)
Ready(p) ==
  /\ perform[p].at \notin {"idle", "done"}
  /\ perform[p].at = "sleep" => now >= wake[p]

(* Weak fairness of the steps of every perform and of the clock: requests  *)
(* have timeouts, files are read, the event loop runs every microtask, and *)
(* timers fire.                                                            *)
Fairness ==
  /\ WF_vars(Tick)
  /\ \A p \in Performs : []<>~Ready(p) \/ []<><<Step(p)>>_vars

Spec == Init /\ [][Next]_vars /\ Fairness
-----------------------------------------------------------------------------
(* A policy never throws at a perform that names no provider: its pre hook *)
(* asks the policy, so a breaker that is open never hears of a failure or  *)
(* a success.                                                              *)
UnnamedNeverThrows ==
  \A p \in Performs :
    perform[p].at = "done" /\ ~perform[p].named => perform[p].result # "throw"

(* The `Unreachable circuit breaker state` and `Unreachable` of a breaker  *)
(* reach no perform at all.                                                *)
UnreachableStaysSo ==
  \A p \in Performs : perform[p].at = "done" => perform[p].result # "throw"

(* "this error will be overridden in post-bind-and-perform"                *)
PlaceholderOverridden ==
  \A p \in Performs : perform[p].at = "done" => perform[p].result # "placeholder"

(* The action a nested hook queues is consumed by the last hook of the     *)
(* same perform: none is left when no perform runs.                        *)
QueueDrained ==
  Running = {} => \A u \in UseCases : hook[u].queuedAction = NoAction

(* Why, however performs of one object overlap: an action waits for a      *)
(* perform that has nothing but the last hook before it, which takes it    *)
(* because the object has a provider.                                      *)
WaitsForHook(k) == \/ k.at = "post-bind"
                   \/ k.at = "post-fetch" /\ k.result = "placeholder"

QueueAwaited ==
  /\ \A p \in Performs :
       /\ fetchUse \in {NoUseCase, UseCase(p)}
       /\ perform[p].at = "fetch-failed" => perform[p].heard = UseCase(p)
       /\ (\/ perform[p].at \notin {"idle", "bind", "post-bind", "done"}
           \/ hook[UseCase(p)].router.current # NoProvider) =>
            object[ObjectOf[p]].provider # NoProvider
  /\ \A u \in UseCases :
       hook[u].queuedAction # NoAction =>
         \E p \in Performs : /\ UseCase(p) = u /\ WaitsForHook(perform[p])
                             /\ object[ObjectOf[p]].provider # NoProvider

(* The requests of a map go through the failure policy of its use case.    *)
MapRequestsPoliced ==
  \A p \in Performs :
    perform[p].at \in {"pre-fetch", "sleep", "fetch", "post-fetch"}
      /\ perform[p].phase = "map" => fetchUse = UseCase(p)

-----------------------------------------------------------------------------
(* Why these hold while one perform runs at a time.  A perform is with its *)
(* provider from the moment it is bound until its result is in.            *)
WithProvider == {"load", "assign", "perform", "map", "pre-fetch", "sleep",
                 "fetch", "post-fetch", "fetch-failed", "unhandled", "settle"}
InMap        == {"map", "unhandled"}
InRequest    == {"pre-fetch", "sleep", "fetch", "post-fetch", "fetch-failed"}

(* The current provider of a router may be called: it has no open breaker. *)
MayCall(r) == r.current # NoProvider => r.policies[r.current].state # "open"

(* A router is always sound; who listens to a failed request is known, and *)
(* a perform that has come to its provider has named one.                  *)
SoundState ==
  /\ \A u \in UseCases : SoundRouter(hook[u].router)
  /\ \A p \in Performs :
       /\ perform[p].at = "fetch-failed" => perform[p].heard # NoUseCase
       /\ perform[p].at \in WithProvider \ {"settle"} => perform[p].target # NoProvider

(* What performs leave in the state they share: the router has a provider  *)
(* as soon as the object has, and the fetch object names no other use case *)
(* than theirs; a queued action belongs to the perform that is running.    *)
SharedState ==
  /\ \A p, q \in Running : p = q
  /\ \A u \in UseCases :
       /\ hook[u].queuedAction # NoAction => \E p \in Running : UseCase(p) = u
       /\ hook[u].router.current = NoProvider =>
            \A d \in DOMAIN hook[u].router.policies :
               hook[u].router.policies[d].state = "closed"
  /\ \A p \in Performs :
       /\ hook[UseCase(p)].router.current = NoProvider
            <=> object[ObjectOf[p]].provider = NoProvider
       /\ fetchUse # NoUseCase =>
            fetchUse = UseCase(p) /\ hook[fetchUse].router.current # NoProvider

(* A perform k that is not running, and the result it settled with.        *)
AtRest(k) ==
  /\ k.at = "idle" => k = NewPerform
  /\ k.at = "done" => k.result # "placeholder" /\ (~k.named => k.result # "throw")

(* What a running perform k knows of its router r, of the queued action q  *)
(* and of the state ob of its object: its provider is the current one of   *)
(* the router and the bound one of the object, until an action is queued.  *)
RouteKnown(k, r, q, ob) ==
  /\ k.at = "bind" =>
       /\ q = NoAction /\ k.result = "none"
       /\ k.named => k.provider # NoProvider
       /\ ~k.named /\ k.provider # NoProvider => k.provider = r.current
  /\ k.at \in WithProvider /\ q = NoAction => r.current = k.target
  /\ k.at = "post-bind" /\ q = NoAction /\ r.current # NoProvider =>
       r.current = k.target
  /\ k.at = "settle" => r.current # NoProvider
  /\ k.at = "perform" => ob.bound = k.target
  /\ k.at \in {"post-bind", "settle"} /\ k.result = "ok" =>
       q = NoAction /\ k.served = r.current

(* A queued action waits only on the way out, under a result that stands   *)
(* for it or for a failed bind; a switch is to the provider the router now *)
(* has, further down than where the perform has been.                      *)
QueueKnown(k, r, q) ==
  /\ q # NoAction => k.at \in {"post-fetch", "post-bind"} /\ r.current # NoProvider
  /\ q # NoAction /\ k.at = "post-fetch" => k.result = "placeholder"
  /\ k.result = "placeholder" => q # NoAction
  /\ q.kind = "switch-provider" =>
       /\ ~k.named /\ q.provider = r.current
       /\ k.target \in PrioritySet =>
            \E i \in DOMAIN Priority :
              Priority[i] = q.provider /\ i > IndexOf(k.target)

(* Failover is off for a perform with a named provider, and for one        *)
(* without, no breaker is open except the one whose abort is queued.       *)
PolicyKnown(k, r, q) ==
  /\ k.named => ~r.allowFailover
  /\ ~k.named => k.result # "throw" /\ (q # FullAbort => MayCall(r))
  /\ k.at \in {"sleep", "fetch"} /\ k.phase = "map" => MayCall(r)

(* The HTTP calls of a map go to the provider the map was started with, in *)
(* the context f of its own use case u.                                    *)
RequestKnown(k, u, f) ==
  /\ k.at \in InMap => k.phase = "map"
  /\ k.at \in {"load", "assign", "perform"} => k.phase = "bind"
  /\ k.at \in InMap \cup InRequest /\ k.phase = "map" =>
       f = u /\ k.served = k.target
  /\ k.at = "fetch-failed" => k.heard = f

Coherent(k, u, r, q, f, ob) ==
  /\ RouteKnown(k, r, q, ob)
  /\ QueueKnown(k, r, q)
  /\ PolicyKnown(k, r, q)
  /\ RequestKnown(k, u, f)

(* The inductive invariant.                                                *)
IInv ==
  /\ TypeOK /\ SoundState /\ SharedState
  /\ \A p \in Performs : AtRest(perform[p])
  /\ \A p \in Running :
       Coherent(perform[p], UseCase(p), hook[UseCase(p)].router,
                hook[UseCase(p)].queuedAction, fetchUse, object[ObjectOf[p]])
  /\ QueueDrained /\ MapRequestsPoliced /\ UnnamedNeverThrows

(* "Disable failover when user specified provider": a perform whose user   *)
(* named a provider never goes to another one.                             *)
NamedProviderKept ==
  [][\A p \in Performs :
       perform[p].at # "idle" /\ perform[p].named =>
         perform'[p].provider = perform[p].provider]_vars

(* Each switch within a perform takes it to a provider of lower priority,  *)
(* so it never comes back to one that has just failed it.                  *)
SwitchesMoveDown ==
  [][\A p \in Performs :
       perform[p].at # "idle" /\ perform'[p].provider # perform[p].provider
         /\ perform[p].target \in PrioritySet =>
         IndexOf(perform'[p].provider) > IndexOf(perform[p].target)]_vars

(* Where a perform may go: where its user sent it, or downwards.           *)
GoesWhereItMay == NamedProviderKept /\ SwitchesMoveDown

(* A success is credited to the policy of the provider that served it.     *)
SuccessCredited ==
  [][\A p \in Performs :
       perform[p].at = "settle" /\ perform'[p].result = "ok"
         /\ perform'[p].at = "done" =>
           hook'[UseCase(p)].router.current = perform[p].served]_vars

(* "the breaker will abort any outgoing request until a configured timeout *)
(* is reached": no request of a map leaves for a provider whose breaker is *)
(* open, not even one that slept through a backoff.                        *)
OpenBreakerNotCalled ==
  [][\A p \in Performs :
       perform[p].at # "fetch" /\ perform'[p].at = "fetch" /\ perform[p].phase = "map" =>
         hook'[UseCase(p)].router.policies[perform[p].served].state # "open"]_vars

(* "only listen to fetch events in perform context": a request made while  *)
(* binding is none of the failure policy's business.                       *)
BindRequestsNotPoliced ==
  [][\A p \in Performs :
       perform[p].at \in {"pre-fetch", "fetch-failed"} /\ perform[p].phase = "bind"
         /\ perform'[p] # perform[p] => hook' = hook]_vars

(* "Handle bind-level failure here": only a failure of bind is one.        *)
BindFailureFromBind ==
  [][\A p \in Performs :
       perform[p].at = "settle" /\ perform[p].result = "sdk-error"
         /\ perform[p].phase = "map" => hook' = hook]_vars

(* Every perform that is started settles, whatever fails.                  *)
EveryPerformSettles ==
  \A p \in Performs : perform[p].at # "idle" ~> perform[p].at = "done"
=============================================================================
