# OneSDK failover and failure handling in TLA+

This directory is a TLA+ model of the core of OneSDK (`src/`, a TypeScript
library that performs use cases by binding a profile to a provider and running
the provider's map). It covers what happens between `profile.getUseCase(..)
.perform(..)` and the settled promise: the failure policies, the router that
fails over between providers, and the event hooks that connect both to binding
and to the HTTP requests of a map. It also has the interpreter of maps, the HTTP
client with its digest handler, the way a client gets its profile and its bound
provider, the events themselves, the reader of streamed files, the metric
reporter and the editing of super.json. The modules are checked with TLC on
small instances; the safety of a shared policy, of the router, of a perform, of
the map interpreter, of the events, of the reader of files, of the metric
reporter, of the binding of providers and of the HTTP client, and that the policy
implements an abstract circuit breaker, is proved with TLAPS for every instance.

## The system and its parts

| Part | Code (`src/src/...`) | State it keeps | Operations |
|---|---|---|---|
| Failure policies | `core/events/failure/{policy,policies,backoff,resolution}.ts` | streak, balance, last call time, backoff; breaker state and open time | `beforeExecution`, `afterFailure`, `afterSuccess`, `reset` |
| Failover router | `policies.ts` `FailurePolicyRouter` | current provider, whether failover is allowed, one policy per provider | the same four, `setCurrentProvider`, `setAllowFailover` |
| Failover hooks | `core/events/failure/event-adapter.ts`, `map-interpreter-adapter.ts` | `queuedAction` in the hook context of a use case | pre and post of `bind-and-perform` and `fetch`, pre of `unhandled-http` |
| Events, interceptor | `core/events/events.ts` | listeners by event and priority, hook contexts | `on`, `emit`, `@eventInterceptor` |
| Use case | `core/usecase/usecase.ts` | `metadata.provider`, `boundProfileProvider` | `perform`, `bind`, `rebind` |
| Bound profile provider | `core/profile-provider/bound-profile-provider.ts` | the fetch metadata | `perform` |
| Profile provider | `core/profile-provider/*` | files and cache | `bind` |
| Map interpreter | `core/interpreter/map-interpreter.ts` | stack of visitors, open files | `perform`, one visitor per kind of node |
| HTTP | `core/interpreter/http/**` | auth cache | filters, digest |
| Profiles, providers, registry | `core/profile`, `core/provider`, `core/registry` | AST cache | resolution |
| Cache | `lib/cache/cache.ts` | entries with expiry | `getCached`, `invalidate` |
| Metric reporter | `core/events/reporter/reporter.ts` | events of a batch, two times, a timer | `reportEvent`, `flush` |
| Streams | `node/filesystem/binary.node.ts` | buffer, end flag, waiting reader | `peek`, `read`, `chunkBy`, `getAllData`, `toStream` |
| super.json tools | `schema-tools/superjson/*` | the document | load, normalize, merge |
| Client, config, environment, errors, sandbox, mocks | `node/client`, `core/config`, ... | wiring | construction |

How they interact. `UseCase.perform` and the objects below it are wrapped by
interceptors: each emits a pre event, makes the call, emits a post event, and
the listeners decide whether to go on, to replace the call by a rejection, or
to repeat it. The hooks of `event-adapter.ts` listen; they ask the router of
the use case, which asks the policy of the current provider. A nested hook (on
a fetch or on an unhandled response) cannot rebind a provider, so it puts the
action in the hook context, rejects with a placeholder, and the hook around the
whole perform takes the action out and does it. Everything runs in one event
loop: code between two awaits is atomic, and performs interleave at awaits.

What is hard here, and what must hold:

- one policy is shared by all performs of a use case and provider, so failures
  of different executions form one streak, and calls come in orders the policy's
  own doc (beforeExecution, then one of the others) does not show;
- the backoff is a stateful object whose ups and downs must cancel exactly;
- the router probes policies, and a probe has effects;
- failover must move down the priority, restore up, and never go round;
- the hook context, the fetch metadata and the fields of a `UseCase` object are
  shared by concurrent performs and read before and after awaits;
- a perform must settle whatever fails, with the right error;
- the reader of a stream has one place for a waiting call and pauses the stream
  behind its back: a byte must be neither lost nor handed out twice;
- the metric batch lives between a debounce timer, a deadline and the exit of
  the process: no report may be stranded, doubled or delayed for ever;
- bound providers and digest headers are cached: two calls fill one key, an
  entry expires or is refused while others use it, a rebind fails unseen;
- the profile cache is written in place by processes that may end meanwhile;
- listeners are registered while an event is being emitted, and what several of
  them answer, in several rounds, must add up;
- super.json, which orders the providers for failover, is edited by calls that
  rebuild an entry in one of many forms: none may lose what it does not replace.

`PROJECT.json` lists every such hazard at its line, and the properties for it.

## Modules

- **FailurePolicies**: `AbortPolicy`, `RetryPolicy` and `CircuitBreakerPolicy`
  as operators from a state to a state and a resolution. A `Backoff` is the
  number of `up()` calls not undone; a breaker's record holds the inner retry
  policy's fields beside its own.
- **PolicyCycle** (MCPolicyCycle): one policy shared by `Executions`, each
  following the documented cycle, interleaved freely, with a clock and resets.
  History: `failures` in a row, `trippedAt`, the last call in `event`.
- **CircuitBreaker**: what a breaker promises, without the inner retry policy,
  the signed streak, the balance of the backoff and the executions.
  `PolicyCycle!Breaker` is an instance of it under a refinement mapping: its
  `failed` is the length of the policy's streak, its `until` the open time plus
  the timeout.
- **FailurePolicyRouter**: the router's methods as operators. `AttemptSwitch`
  is `Array.find` with its side effects: it asks one policy after the other
  until one answers continue, and keeps what each has become by being asked.
- **RouterCycle** (MCRouterCycle): one router under every sequence of calls
  that respects the policies' contract (an open breaker is not told of
  executions it has not admitted).
- **Perform** (MCPerform): `UseCase.perform` to its settled promise. An action
  is the code between two awaits, and each perform is a record with a place:

  | Place | Code that runs next |
  |---|---|
  | `idle` | `UseCase.perform`, `pre-bind-and-perform` (`Start`) |
  | `bind`, `load`, `assign` | `UseCaseBase.bind`, `ProfileProvider.bind`, the assignment after the await |
  | `perform`, `map` | `BoundProfileProvider.perform`, the interpreted map |
  | `pre-fetch`, `sleep`, `fetch`, `post-fetch`, `fetch-failed` | the fetch interceptor and its two hooks |
  | `unhandled` | the unhandled-http interceptor |
  | `post-bind`, `settle` | `post-bind-and-perform` before and after its await |

  Abstractions: inputs, results and errors are their kinds; a map is any
  sequence of at most `MaxCalls` calls with any outcome; binding may need a
  request to the registry, or not, and may fail; the cache of bound providers
  does not expire during a run (Binding has that); metrics are not emitted.
- **Events** (MCEvents): `on`, `emit` and the function that replaces an
  intercepted one. A call is a record; `todo` is the rest of the list that
  `emit` has taken (a listener whose filter fails is a step of its own, `PassOver`),
  `sub` and `by` its subresult. Arguments and results are who
  set them. History: the `log` of one call, which listener or the function was
  given what and answered what; `LastWordCounts` computes from it who has the
  last word. Calls share only the lists; the context that an emit takes from the
  metadata of its object is any, as any concurrent call may have set it.
- **Binding** (MCBinding): `getProfile` with the cached file (`profile`,
  `files.profile`), `rebind` with the SuperCache of bound providers (`cache`) and
  `ProfileProvider.bind` (`task`: one per perform, and one per background
  rebind). Between the answer of the cache and the check of its expiry `rebind`
  awaits (usecase.ts:159): a task holds what it was given (`checking`), and drops
  by the key whatever is cached by then (`Check`). History: a held binding is
  `overtaken` once a later one is cached. An answer of the registry that does not
  fit (`garbled`: the map does not parse, providers do not match, the security is
  not configured) fails at once or after the provider was saved (`unfit`). Other processes share the directory, the registry publishes and
  fails, and the process may end between any two steps.
- **HttpClient** (MCHttpClient): `request` up to its checks (`Unsendable`), then
  fetches: for a challenge, the request, and once more after a refusal (`pc`).
  The digest header in the SuperCache is its nonce and the method and path it was
  built for. The server is external: it may count nonces (`once`) or compare the
  target (`strict`), and until it `settled` let nonces expire and answer oddly.
  Abstractions: see the head of the module; a server settles only for the
  properties that need it.
- **MapInterpreter** (MCMapInterpreter): `performStream` with its stack of
  visitors, for any map of the grammar (`ProgramsAssumption`: which kinds of
  nodes a node may have below it). A frame of `frames` is a
  visitor: its node, its scope (`this.stack`), its outcome, and `at`, the yield
  it waits at. An action is what one visitor does from one yield to the next,
  sometimes in two steps when a loop goes round (nothing runs in between).
  `act` names the activation a frame belongs to: the map, or a call of an
  operation, named by the depth of its first frame. Histories: `said` holds for
  each activation how many outcomes its statements stated, the status of the
  answer it handled last or a set statement wrote since, and the last error and the
  last data with where they were stated; `ended` and `stopped` say which activations stated their end and
  which calls got an error. They do not look at the outcomes and scopes the
  visitors hand on. Abstractions: expressions evaluate to any of the values of
  their node (out of `Values`) or throw; a scope is its owner and its
  status code; a list is its length, and holds no file. `InlineCall` writes its
  iteration variable into the scope object it shares with its parents
  (map-interpreter.ts:617), which the owner does not show. The status code in a
  scope is that of the last answer handled, so an error stated in a handler after
  another HTTP call of the same handler carries the status of that call; or it is
  what a set statement has assigned to `statusCode` since (an assignment with
  `toStatus`), which a mapped HTTP error then carries. An iteration variable of
  that name is left out: it is written into an object that an earlier outcome may
  hold as its `stack`. What is iterated may throw at any item, as a stream does.
- **BinaryData** (MCBinaryData): the readers of a file or stream. An action is
  the code between two awaits of one call (`waiting`, `resumed`, `append`,
  `filled` are the awaits of `waitForData`, `read` and `fillBuffer`), or a data
  or end event of the Node stream, which the reader pauses after every event and
  a waiting read resumes. History: what was read, and whether calls overlapped.
  The bytes are kept by `Holders`: what was handed out, the buffers of BinaryData
  and of the reader, the stream, and the chunk of each call.
- **MetricReporter** (MCMetricReporter): the batch, the debounce timer and the
  process around them. The histories `reported` and `sent` count per profile,
  provider and outcome.
- **SuperJson** (MCSuperJson): the calls of `mutate.ts` on one document, and
  normalization. One operator per function takes the old entry (and the payload)
  to the new one; one action per exported function, with its answer. Objects
  keyed by provider are ordered maps, because `Object.keys` becomes the order of
  failover: the keys in their order, and what each of them has. Entries are
  shorthands or records whose missing keys are `None`.
  Abstractions: see the head of the module; two entries made from one payload
  object share it in the code, which the model does not have.
- **FailurePolicyLemmas** (on the operators of FailurePolicies and
  FailurePolicyRouter), **PolicyCycleProofs**, **RouterCycleProofs**,
  **PerformProofs**, **MapInterpreterProofs**, **EventsProofs** (Events and
  MetricReporter), **TransferProofs** (BinaryData and HttpClient),
  **ConfigurationProofs** (SuperJson and Binding): theorems, see below. Modules
  that share a proof module name their specifications apart (`BinarySpec`,
  `SuperJsonSpec`, `EventsSpec`).

`FailurePolicies` has no state of its own; `PolicyCycle` and, through
`FailurePolicyRouter`, `RouterCycle` and `Perform` all use the same operators,
so what is proved about them in FailurePolicyLemmas holds in each.

## Runs

| Run | What it shows |
|---|---|
| `policy_shared` | Three executions share a breaker with threshold 3. It implements `CircuitBreaker` (`ImplementsBreaker`): it trips on exactly a full streak, admits nobody before its timeout, and answers as that does; and it is fresh after recovery. `IInv`, the invariant of the proofs, holds: the backoff balances and a closed breaker stays below its threshold. |
| `router_failover` | Four providers in the priority, a breaker, a simple retry and two without a policy, and one provider outside it. A failover goes down the priority or, if nobody further down would admit, gives up (`FailsOverDown`); restore finds the best provider above that admits, also when the current one is outside the priority; the provider switched to admits; and of all the policies probed only the current one and the one found come out different. |
| `perform_sequential` | Three performs one after another, with and without a named provider, and no default provider. No placeholder leaks, the requests of a map are policed, no open breaker is called, a perform goes where it may (`GoesWhereItMay`: a named provider is kept, switches move down), a success is credited to the provider that served it, and an unnamed perform never meets an internal throw. |
| `perform_settles` | Two overlapping performs of one object settle under fairness, and when both are done no queued action is left, whichever of them took it (`QueueDrained`). |
| `map_visitors` | One map iterates a call of an operation that makes an HTTP call, one assigns from an inline call and makes an HTTP call whose handlers call and request again; each outcome statement is tried as data and as error, terminating and not; set statements write the status code, and lists and streams throw. The result is the last error stated, or the last data; it is mapped as an HTTP error exactly below an HTTP call, with the right status; nothing runs after the end; scopes stay apart; a map that succeeds closes its files; every perform settles. |
| `binary_data` | Two callers of one BinaryData. One at a time, `peek`, `read`, `chunkBy`, `getAllData` and `toStream` hand out the content whole and in order in every mix, chunks are full but the last, and every call settles. When calls overlap one may fail or hang, yet no byte is lost or doubled. |
| `metrics` | Every report is counted once, a batch always has a timer, leaves when it is quiet or its time is up, waits less than both debounce times together, and is sent in the end; `IInv` says that none is lost by a regular exit. |
| `super_json` | Any three edits of an empty document, a shorthand and a full one. A call that answers `false` or refuses leaves what a client reads as it was; an order of failover never names a provider twice or one that is not configured; overwriting, merging and swapping a provider keep the stated order; swaps between local and remote keep a provider's defaults; merges keep what the payload does not replace; normalizing twice is normalizing once. |
| `binding` | Two performs and a background rebind. A binding that has not expired is lost in one way only: to the check of a task that was given an expired one before, which has it bound anew at once (`FreshLostOnlyToLateCheck`); once the registry stands still the client ends up on what it has published, though later binds may be overwritten by earlier ones and rebinds fail unseen; a half-written profile file is no obstacle, and no perform runs on it. |
| `http` | Two requests. With a server that lets nonces expire, counts or compares them, a digest request gets through in three fetches unless its last nonce is taken from it; every request ends and is acted on at most once; with a server that takes a header again the requests end up in single fetches. |
| `events` | Three listeners registered at any time around a call with one retry. They are called by priority and order of registration, none twice in an emit; the function gets the arguments, and the caller the result, that was set last. |

One run is expected to find a violation: in `perform_placeholder`, concurrent
performs of one use case share one `queuedAction`, so one takes the other's
action and the other settles with the placeholder that "will be overridden"
(event-adapter.ts:46). Three more promises of comments that the code does not
keep are definitions of Perform in no run; put in place of the properties of
PerformSequential.cfg, TLC finds each violated:

- `UnreachableStaysSo`: a perform with a named provider does not ask the policy
  at perform level; its bind failure is reported to a breaker that may be open,
  which throws "Unreachable circuit breaker state". No concurrency is needed.
- `BindRequestsNotPoliced`: registry requests made while binding carry the
  metadata of the last perform and are treated as requests of its map.
- `BindFailureFromBind`: every `SDKExecutionError` passes `instanceof
  SDKBindError`, so a map's error takes the bind branch.

`IInv` is in each module the conjunction of its type invariant and the safety
invariants that are strengthened by it (`RouterInv` in RouterCycle, `EventsInv`
in Events, `BinaryInv` in BinaryData, `SuperJsonInv` in SuperJson).

Observed while modelling, without a run of their own: after
sleeping its backoff a request leaves without asking the policy again, also when
a concurrent perform has opened the breaker meanwhile (event-adapter.ts:301;
`OpenBreakerNotCalled` holds of sequential performs only); the backoff of a breaker has no maximum,
and two retried failures for each success raise it for ever (policies.ts:287); failover skips a provider that backs off although
a comment says "doesn't abort" (policies.ts:57); metrics are emitted per failed
fetch and not for a perform ended by a queued action (event-adapter.ts:204);
the queue is left filled when an object that never bound is aborted first while
another object of the same use case runs (event-adapter.ts:127); `read(size)` of a
BinaryData returns its whole buffer and not `size` bytes of it; a second call
that waits for data is rejected but leaves the first waiting for ever; a file is
closed after a map only when the map succeeded; `toggleFailover` writes the router
that all performs of a use case share, so with `Concurrency = 2` a perform without
a provider enables failover for one in flight that named its own
(`NamedProviderKept` holds of sequential performs only); the times of
a metric batch are sorted as text, so that one that crosses midnight may begin
after it ends.

One perform at a time is not enough for the queue: two `UseCase` objects of one
use case share the queue and the router, and with `Concurrency = 1` TLC still finds
it left filled (`QueueDrained`) when the second object is aborted before it ever
bound. With two use cases of one profile `PlaceholderOverridden` fails as well: the
fetch object keeps the use case of the last map, so a registry request made while
the other use case binds queues its action in the wrong queue. `MapRequestsPoliced`
and `UnnamedNeverThrows` hold there. A priority that lists a provider twice lets a
switch go back up.

Of overlapping performs the runs show that they settle and drain the queue, and
that a placeholder may come through. The other properties of `perform_sequential`
are about one perform at a time: with `Concurrency = 2` TLC finds
`OpenBreakerNotCalled`, `GoesWhereItMay`, `SuccessCredited`, `MapRequestsPoliced`
and `UnnamedNeverThrows` violated, by the interleavings that the hazards at
event-adapter.ts:301, usecase.ts:366 and 143, bound-profile-provider.ts:121 and
policies.ts:404 name. No doc promises otherwise, so they are told here and are no
findings.

In binding: a binding that was just cached can be dropped by a perform that was
given the expired one before it and goes on after it (usecase.ts:159, 177): the
price is one more bind. The key of the cache of bound providers has neither map revision nor
variant (usecase.ts:144), so a perform that asks for another one is served what
the first asked for, until it expires; the copy of provider.json is written as
`<name>.json` and read as `<name>` (profile-provider.ts:231, 286), so "we try to
read it from cache" never finds it; a background rebind that fails is an unhandled
rejection (usecase.ts:178).

In the HTTP client: what is cached is a whole digest header, with its nonce
count, method and path (digest.ts:102), so a server that counts or compares
refuses the next request once, and two requests to two paths refuse each other
for ever, one fetch more each; a body that is a stream is spent by the fetch for
the challenge, so that such a request fails until a header is cached
(fetch.node.ts:248); a server that asks for no credentials has served the request
when the caller gets "digest header not found" (digest.ts:116).

In events: a post listener after one that modified is given `undefined` for the
arguments and no result (events.ts:241).

In the editing of super.json: `mergeProfileProvider` with a payload that has a
file or a map but no defaults drops the defaults the provider had, though the
comment says "keep previous structure and merge" (mutate.ts:396); `mergeProvider`
with a shorthand drops the security or the parameters unless the provider has
both (658); `mergeProfile` with a shorthand drops the order (124), and with
settings it leaves the providers it adds out of an existing order (190) and drops
the payload's defaults and providers if the profile had none (179, 197);
`swapProfileProviderVariant` of a shorthand compares with `===` (576), so a
swap to another file is not written and one to the same file answers `true`;
merging a provider into a profile without an order makes it the only one in the
order, so that the others no longer take part in failover (357); a shorthand
provider reads with no defaults where `{ file }` reads with the profile's
(normalize.ts:50); `mergeProfileDefaults` puts `file://...` where a path belongs
(60), as a test of it expects.

### Bounds

- `policy_shared`: clock to 4, `ups` to 4, streak to 4 with threshold 3: long enough
  for the breaker to trip, time out, half-open, close and trip again, with the
  third execution still in flight from before the trip. `MaxUps` and
  `MaxStreak` only cut runs of identical calls.
- `router_failover`: streaks to 2 and a clock to 4; four providers give failover
  several to probe and skip and restore something to choose from, the breaker at the
  top and the simple retry among them; the fifth exercises `indexOf = -1`.
- `perform_sequential`: clock to 2, one call per map, threshold 2: one perform
  can trip a breaker, the next meets it open, the third half-open. The performs
  are interchangeable (symmetry; only safety is checked there).
- `perform_settles`: the clock advances only while somebody sleeps, and
  `MaxTime` is 0, so it advances for no other reason. `Concurrency` says how many
  performs run at once.
- `binary_data`: three bytes with data events of at most two and sizes of two, so
  a chunk is made of several events, the last one is short, and the end of the
  stream may come with or after the last byte. Two callers are enough for one to
  take the place of the other's waiting call. Deadlock is not checked: when two
  calls overlap, one of them really may wait for ever (`CallSettles` is what must
  hold without overlap).
- `map_visitors`: lists of up to two items, two files, two attempts of a request
  (`MaxRequests`, the patience of an external handler), calls one deep. A visitor
  only sees its parent's scope and its child's result, so deeper maps repeat the
  same handovers. Deadlock is not checked: a settled perform stops.
- `super_json`: three edits (`MaxCalls`) from three documents, so that an entry can be
  deleted, made again and changed, or normalized, merged and swapped; one profile
  and two providers, as no call touches another profile; payloads in every form
  with one use case and two inputs, so that defaults overlap and add. Properties
  of a call quantify over all calls on each document reached, so they see one
  edit more. Deadlock is not checked: the editing stops.
- `binding`: two performs race for the key, one of which may hold an expired binding
  while the other and the rebind fill the cache again; a second expiry waits until
  the rebind is over. Two publications, a timeout of one tick,
  one crash.
- `http`: two requests, one of which overtakes the other's nonce, for two targets;
  four nonces are enough for a fresh one always to exist. `MCPlans` has one plan per
  outcome of the checks and one per scheme.
- `events`: three listeners of two priorities, before or after the call, with two
  filters; two rounds. A third listener can modify between two others, and be
  registered between them while the first is awaited.
- `metrics`: four ticks of the clock, days of three ticks, so a batch can begin
  before and end after midnight; three reports, so that one can come after a
  flush by the deadline.

### Fairness

`BinaryData!BinarySpec` assumes weak fairness of the stream's events while it flows,
and of the next step of every call: Node delivers what a flowing stream has, and
continues an async function whose promise is resolved. It assumes nothing of the
program that calls. `MapInterpreter!Spec` assumes that the next step of a perform
is taken: requests, scripts and files answer. `MetricReporter!Spec` assumes that
the clock goes on and that a due timer fires; `Lateness` bounds by how much it
may be late. `SuperJson` needs none: its calls are synchronous.
`Binding!FairSpec` assumes that reads, writes and requests end (each fetch of the
registry does, with an answer or without), that time passes, and that the program
goes on getting the profile and performing; that the registry is up for ever is
in the properties, not assumed. `HttpClient!FairSpec` assumes that each fetch
ends: `Pending(r)` is ENABLED of `Exchange(r)` spelled out. `Events` has no fairness: its listeners
are the program's and may never return.

`Perform!Spec` assumes weak fairness of the clock and of the steps of each
started perform. `Ready(p)` is ENABLED of `Step(p)` spelled out: a perform can
always go on, except while it sleeps. The code justifies it: requests have
timeouts, file reads end, the event loop runs every continuation, and
`setTimeout` fires. Nothing is assumed about outcomes; a request may fail
for ever, and `EveryPerformSettles` holds because retries are counted and
switches only go down.

## Proofs

All of PolicyCycle is proved for every configuration in `PolicyConfig`, any set
of executions and any bounds (`ConfigAssumption`, `BoundsAssumption`).

- `TypeCorrect`, `InductiveInvariant`: `IInv` joins the type invariant,
  `SoundPolicy` (the balance is never positive, the backoff is its negation,
  and a breaker that is not closed carries neither streak nor backoff),
  `OnlyBreakersTrip`, and `HistoryMatches` (the counted failures are the
  policy's streak, the noted trip its open time). The last part is what makes
  the properties inductive: they speak of failures that happened, while the
  code decides on a streak that is overwritten by bind failures and cleared by
  resets.
- `PolicyIsABreaker`: a policy that is a circuit breaker implements
  `CircuitBreaker` under the mapping above. One step per operation: given `IInv`,
  the answer and the next state of the policy are those of the action of the
  same name of the abstract breaker. `IInv` is needed where the abstract breaker counts
  failures and the code compares a signed streak, and where it keeps no backoff.
- From `IInv` (checked as parts of it, or only proved): `BackoffBalanced`,
  `ThresholdHolds`, `NoEarlyTrip`, `OpenBreakerBlocks`, `RetriesBounded`.
- `RecoversAfresh`: `RecoveryIsFresh`, a breaker that closes again starts without the
  failures and the backoff of before.
- `SequentialNeverThrows`: with at most one execution the "Unreachable" throws
  of the breaker are unreachable. With two, TLC finds them reached: an
  execution admitted before the trip reports after it (the hooks make one
  perform at a time the usual case).
- `FailurePolicyLemmas` has one lemma per policy operation (type, soundness,
  streak), and the same for the operators of the router.

RouterCycle is proved for any priority, configurations and bounds
(`RouterAssumption`, `RouterBoundsAssumption`):

- `RouterInductive`: `RouterInv`, the type invariant and `SoundRouter`, holds always. `TypeOK`
  alone is not inductive: a lookup in `policies` is defined only because the
  current provider always has a policy, and a reset yields a policy again only
  because every backoff is balanced.
- From it, with one lemma per action on what its step leaves, every property of
  the run and `NoSwitchWhenDisallowed`: `StaysWhenDisallowed`, `SwitchAdmits`,
  `MovesDownOnFailure`, `RestoresToBest`, `AbortsWhenExhausted`, `FailoverGoesDown`
  (`FailsOverDown`, which joins two of them), `ThirdPoliciesUntouched`. The argument
  is `AttemptSwitchFinds`: over the probes one after the other, a policy that answers
  something else than continue is as it was before (an open breaker that stays open,
  a backoff that is only read), so that although every probed policy is written
  back, each is asked in the state it had at first, and the provider found is the
  first that admits. It rests on a property of each policy, not of the search:
  were a breaker to count a refused probe, the theorem would fail.
- Those about going down need `NoDuplicates`: a provider listed twice in the priority is
  looked up at its first place, and then failover may move up again. Nothing in
  the router excludes it; `resolvePriorityAddition` (mutate.ts:222) never adds a
  provider twice and by `OrderNamesConfigured` no edit does, but a super.json
  written by hand may list it so.

Perform is proved for any providers, priority, configurations, objects and use
cases, any number of performs and any bounds (`PerformAssumption`,
`RouterAssumption`):

- `StaysSound` needs no more: however performs overlap on whatever objects, every
  router stays sound and everything well typed. Each place's step changes the
  router by calls the policies' contract allows, also when the perform that makes
  them no longer knows the router's provider.
- `QueueIsDrained`: `QueueDrained`, for any number of overlapping performs of one
  object (`OnOneObject`). An action may be taken by another perform than the one
  that queued it, so the argument is not about whose it is: `QueueAwaited` says
  that as long as an action is queued some perform of the use case has nothing but
  the last hook before it (`WaitsForHook`), and that hook takes it because the object
  has a provider. With two objects the latter fails (event-adapter.ts:127).
- The other theorems assume `OneAtATime`: `Concurrency = 1` and one object for all
  performs, the case in which one queue, one fetch metadata and one bound provider
  are enough; what happens otherwise is told above. `InductiveInvariant`: `IInv` says
  for each place what the perform knows of what it shares (`Coherent`). `RouteKnown`:
  until an action is queued the router's current provider is the one the perform is
  bound to. `QueueKnown`: a queued action waits only on the way out, under a
  placeholder or a failed bind, and a switch goes further down than the
  perform has been. `PolicyKnown`: failover is off for a named provider, and without
  one no breaker is open except the one whose abort is queued. `RequestKnown`: the
  fetch metadata names the use case of the map. `SharedState` and `AtRest` say what a
  perform leaves to the next. No part is inductive by itself: that a
  placeholder is overridden needs that only a request of this use case queues, which
  needs the metadata, which needs the phase; that nothing throws needs that
  the breaker of the provider in use is known not to be open.
- From it: `PlaceholderNeverSettles`, `OpenBreakerIsNotCalled`,
  `SuccessIsCredited`, `NamedProviderStays`, and with `NoDuplicates` also
  `PerformMovesDown`.
- When a sleeper wakes (`wake`) is a sum with an exponential backoff in it, and the
  prover knows no exponents; the type invariant leaves it out and no theorem
  depends on it.

MapInterpreter is proved for every map of the grammar (`ProgramsAssumption`), any
values, answers and files (`InterpreterAssumption`):

- `InterpreterInductive`: `IInv` is the invariant of a stack. Each frame fits its
  place (`FrameFits`), each the one above it (`ChildFits`: its own activation and
  the kind of node its place says, or the operation it calls), and
  above a visitor that waits for a value there are only values or other activations
  (`Above`). The pending result fits the place that waits for it
  (`ResultFits`). What an activation stated is what its outcomes on the stack hold
  (`Held`): one of them is the counting one (`Counts`), those above it do not
  replace it when they are merged, and an error is marked as from HTTP
  exactly if it has passed an HTTP call. `ScopeIsCurrent` alone is not inductive, as a
  scope is lost on the way up wherever a result is not processed; nor is the rest
  without `ResultFits`, since `mergeOutcome` is right only when the later
  outcome is the one above.
- The argument has two halves. A visitor that goes on is `Ready`: having processed
  the result it waited for, its outcome and those below it hold what was stated
  (`StatementReady`, `HeldMerged`). And a ready visitor that explores a child, goes on
  or returns keeps the invariant (`PushKeeps`, `GotoKeeps`, `ReturnKeeps`). Each
  action then has a lemma that joins the two; the outcome statement alone adds to
  what is held (`HeldStated`).
- From it: `StatedOutcomesCount` (`OutcomesAsStated`: only one outcome is left when an
  activation hands over its result, so it is what was stated, `HeldAlone`),
  `EndIsTheEnd` and `ErrorBreaksIteration`, which need `EndedFits` and `StoppedFits`:
  an activation that stated its end only hands it on, and a call whose operation
  failed is at its statements.

MetricReporter is proved for any subjects, debounce times with
`DebounceMin <= DebounceMax` and `DebounceMax > 0`, and any lateness and bounds
(`ReporterAssumption`). `IInv` joins the types, `NothingStranded`,
`TimerKeepsTime` (where the timer stands between the last report, the start of
the batch and its deadline), `CountsConserved` and `ExitLosesNothing`. The
debounce bound `WaitBounded` is not inductive without `TimerKeepsTime`. That
aggregation counts right (`CountsConserved`) rests on lemmas on the cardinality
of the reports that match a subject and an outcome.

Events is proved for any calls, callbacks, filters and rounds (the assumptions at
its head):

- `EventsCallsGood`, `EventsInvHolds`: `EventsInv` holds always. That a log is in turn
  (`HeardInTurn`) compares a listener with the one heard before it, while an emit
  walks a list that was taken before others were registered; `Emitting` is what
  makes it inductive: those still to be called are in the list as it is now, after
  the one called last. The lists are sorted (`InOrder`) because the place
  `Inserted` chooses exists in a sorted list, is behind all equals, and a new
  listener is registered after all others (`Registrations`).
- `LastWordCounts` computes from the whole log who set what, the code keeps three
  variables. `HoldsArgs` and `HoldsResult` say at each place which of them holds
  it: `given` while pre listeners are heard, `args` once they are, `by` when a post
  listener has asked for a retry with new ones. `Phases` orders the log, so that
  an entry of this round is after all earlier ones.

BinaryData is proved for any content without repetition (a byte is its place in the
content), any callers and sizes (`BinaryAssumption`):

- `BytesAccounted`: `BinaryInv` holds always, however calls overlap. Each action
  moves bytes from one holder to another (`MovedBytes`, `PooledBytes`), so that none is
  held twice (`NoByteTwice`) or lost (`NoByteLost`), and
  without overlap the holders in their order are the content (`InOrder`). This
  needs `OneChunk`: two chunks on their way could be appended in either order.
- `WholeIsRead`: `ReadsWhole`, chunks are full but the last and `getAllData` returns
  the rest. It needs `ShortAtEnd`, that a call has less than it asked for only
  after the end of the stream, which holds as a call waits for exactly what the
  buffer lacks and nobody else takes from the buffer meanwhile.

Binding is proved for any sets of performs and background rebinds, any timeout
above 0 (`TimeoutAssumption`) and any bounds (`BoundsAssumption`):

- `BindingInductive`: `IInv` holds always. What is cached must fit super.json
  (`CachedWasBound`: from files alone only if the map is local), but it is cached
  by whichever task ends last, and a task decides when it starts. `TasksFit`
  carries that decision through its awaits, and the invariant is not inductive
  without it. A profile that is being saved is whole too, which the next step
  needs, whatever other processes leave in the file.
- `FreshLostOnlyLate`: `FreshLostOnlyToLateCheck`. A check that drops the key holds an
  expired binding; by `HeldIsCached` (what a task holds and what is cached have the
  same time left unless a later binding was cached in between) the one it drops is
  expired too, or the check is late. Nothing else empties the cache: a rebind that
  fails touches none, or ends the process.

SuperJson is proved for any names, values, payloads and documents of the schema's
form, and any number of edits (`SuperJsonAssumption`; `NoneAssumption` says
that undefined is none of the values a key may have):

- `SuperJsonInvHolds`: `SuperJsonInv` holds always. The inductive part is
  `SuperJsonTypeOK`, which is more than a type: an ordered map has each key once and
  exactly the keys that have a value (`Ordered`), and a remote map has no file. The
  other parts follow from the form of the document alone, for every call that could
  come next, so they hold after any history. Each function of `mutate.ts` has
  a lemma that says what it leaves: its form, which keys come first, whose
  defaults are whose, and what the order becomes (`ProviderIsMerged`,
  `ProfileIsMerged`, `ProviderIsSet`, `VariantIsSwapped`, ...). Normalizing is stable
  part by part (`SettingsStable`, `ProfileStable`, `ProviderStable`); it rests on
  defaults laid over the same defaults twice (`OverOver`).
- The loops over the keys of a payload (`PutAll`, `MergeProviders`) are functions of
  the number of rounds. That such a function exists, and that what each round keeps
  holds after the last one (`LoopExists`, `Rounds`), is shown from the least round
  at which it would fail, since the induction theorems take an operator as parameter.
- `AnswersTellChange`: `AnswerTellsChange`. Where a call says `false` it has at most
  written a shorthand in full (`SameRead`), which reads as before because
  `NormalizeShorthand` hands down the order of the document as normalization does.
- `OrdersNameConfigured`: `OrderNamesConfigured`, if no payload breaks it by itself and
  no order names a provider twice (`PayloadsOrdered`): the functions copy what they
  are given, and check neither. An overwritten provider is taken from the providers and
  kept in the order, so in between the order is wrong by that name only (`OrderedBut`);
  the merge that follows puts it back.

HttpClient is proved for any requests, plans and targets (`TargetsAssumption`: at
least one), and for nonces of which one is free whatever the cache and the
requests hold (`NoncesAssumption`, the server's side of the bargain; it bounds
`Nonces` for TLC from below):

- `HttpInductive`: `IInv` holds always. `ServedOnce` is what matters: no path sends
  a request again that the server has acted on. The argument is `ReadEnds`: an answer
  without a usable challenge ends the request at each of its three places, so only
  a refusal leads to another fetch (`ResendFits`). `HeadersFit` holds because the
  header of a retry is built from the answer to its own fetch and not taken from
  the cache, which others overwrite meanwhile. What is said of each call, `Fit`, is
  preserved whatever happens to the others.
- `DigestGetsThrough`: `GetsThrough`. The last fetch succeeds because its nonce is
  still accepted: `RetryAccepted`, that a retry's nonce is valid unless somebody
  took it from that very request (`lost`), is the strengthening it needs.

Only model-checked: liveness (fairness and ENABLED are outside the prover); and the
period of a batch in MetricReporter, which compares times as text.

## Plan

What would come next, in order:

1. *Composition*: Perform with a cache that expires (Binding) and with the metrics
   its paths emit (MetricReporter).
2. *super.json*: retry policies and environment values in normalization.
3. *Profile parameter validator* against a reference definition.

## Not modelled

Execution of JavaScript in the sandbox, parsing of configuration and
environment, texts of errors, test doubles, and generated or vendored code have
no state machine worth checking. Nor has the profile parameter validator, a pure
function from a value and a type to its errors. The rest of the table above that has no module
yet is in the plan; `components` in `PROJECT.json` says which part is modelled,
partly modelled, or not.
