------------------------------ MODULE Binding ------------------------------
(***************************************************************************)
(* How a client gets what a perform runs on: the AST of the profile, from  *)
(* a file that processes share or from the registry, and the bound         *)
(* provider, from the SuperCache of the client or by a bind that reads     *)
(* files and asks the registry.  A cached provider that has expired is     *)
(* served once more while a rebind runs in the background.                 *)
(*                                                                         *)
(* A task is a call of rebind(), by a perform or in the background; tasks  *)
(* interleave at their awaits, and the process may end between any two     *)
(* steps, leaving the files behind.                                        *)
(*                                                                         *)
(* A binding that cannot be used is told from one that can only when it is *)
(* built, which is all that "garbled" says of what the registry gives.     *)
(*                                                                         *)
(* Data abstraction: one profile and one provider (hence one key of the    *)
(* cache); what comes from the registry is the number of its publication,  *)
(* 0 for what comes from local files; the time to the expiry of a binding  *)
(* is kept instead of the time of it.                                      *)
(***************************************************************************)
EXTENDS Integers

CONSTANTS Performs,     \* the performs that may be under way at once
          Rebinds,      \* bound: background rebinds under way at once
          Timeout,      \* superfaceCacheTimeout
          MaxVersion,   \* bound of the publications of the registry
          MaxCrashes    \* bound of the ends of the process

ASSUME TimeoutAssumption == Timeout \in Nat \ {0}
ASSUME TasksAssumption == Performs \cap Rebinds = {}
ASSUME BoundsAssumption == MaxVersion \in Nat \ {0} /\ MaxCrashes \in Nat

VARIABLES setup,      \* what super.json has for the provider; config.cache
          registry,   \* external: its state and its last publication
          files,      \* the cache directory
          profile,    \* progress of getProfile, and the AST it got
          cache,      \* the bound provider in the SuperCache, if any
          task,       \* progress of every rebind()
          crashes     \* how often the process has ended

vars == <<setup, registry, files, profile, cache, task, crashes>>

Tasks    == Performs \cup Rebinds
Versions == 0..MaxVersion

Setup    == [map : {"local", "remote"}, info : {"local", "remote"}, cache : BOOLEAN]
Registry == [state : {"up", "down", "garbled"}, version : 1..MaxVersion]
Left     == -1..Timeout
Binding  == [version : Versions, left : Left]

(* version: what a task has got of the registry; left: the time left to    *)
(* the binding it has got of the cache; overtaken (history): whether       *)
(* another binding has been cached since.                                  *)
TaskState ==
  [pc : {"idle", "resolving", "binding", "asking", "saving", "unfit", "reading", "checking"},
   version : Versions, left : Left, overtaken : BOOLEAN]

TypeOK ==
  /\ setup \in Setup /\ registry \in Registry
  /\ files \in [profile : {"absent", "partial", "whole"}, info : SUBSET {"name", "name.json"}]
  /\ profile \in [pc : {"none", "fetching", "saving", "ready"},
                  ast : {"none", "partial", "whole"}]
  /\ \A b \in cache : b \in Binding /\ cache = {b}
  /\ task \in [Tasks -> TaskState]
  /\ crashes \in 0..MaxCrashes

NoProfile == [pc |-> "none", ast |-> "none"]
At(pc, version) == [pc |-> pc, version |-> version, left |-> 0, overtaken |-> FALSE]
AtRest    == At("idle", 0)
Checking(left) ==
  [pc |-> "checking", version |-> 0, left |-> left, overtaken |-> FALSE]

Init ==
  /\ setup \in Setup
  /\ registry = [state |-> "up", version |-> 1]
  /\ files = [profile |-> "absent", info |-> {}]
  /\ profile = NoProfile
  /\ cache = {}
  /\ task = [t \in Tasks |-> AtRest]
  /\ crashes = 0

-----------------------------------------------------------------------------
(* getProfile: resolveProfileAst with the cached file of the version.      *)

(* tryToLoadCachedAst takes a file only if it parses, is a profile and has *)
(* the id and version asked for.                                           *)
Usable(file) == file = "whole"

(* Mutated forms: any file is taken; one that does not parse is an error.  *)
LoadAnyFile ==
  IF setup.cache /\ files.profile # "absent"
  THEN [pc |-> "ready", ast |-> files.profile]
  ELSE [pc |-> "fetching", ast |-> "none"]

LoadOrThrow ==
  IF setup.cache /\ files.profile = "partial" THEN NoProfile ELSE LoadAnyFile

Load ==
  IF setup.cache /\ Usable(files.profile)
  THEN [pc |-> "ready", ast |-> files.profile]
  ELSE [pc |-> "fetching", ast |-> "none"]

GetProfile ==
  /\ profile.pc = "none"
  /\ profile' = Load
  /\ UNCHANGED <<setup, registry, files, cache, task, crashes>>

(* fetchProfileAst, then cacheProfileAst, whose writeFile truncates first. *)
ProfileAnswer ==
  /\ profile.pc = "fetching"
  /\ profile' = CASE registry.state # "up" -> NoProfile   \* getProfile rejects
                  [] setup.cache -> [pc |-> "saving", ast |-> "whole"]
                  [] OTHER       -> [pc |-> "ready", ast |-> "whole"]
  /\ files' = IF profile'.pc = "saving"
              THEN [files EXCEPT !.profile = "partial"] ELSE files
  /\ UNCHANGED <<setup, registry, cache, task, crashes>>

(* The write ends, perhaps with an error that is only logged.              *)
ProfileSaved ==
  /\ profile.pc = "saving"
  /\ profile' = [profile EXCEPT !.pc = "ready"]
  /\ \E written \in {"partial", "whole"} :
       files' = [files EXCEPT !.profile = written]
  /\ UNCHANGED <<setup, registry, cache, task, crashes>>

(* External: another process fetches the same profile and writes the file. *)
OtherProcess ==
  /\ setup.cache
  /\ files' = [files EXCEPT !.profile = IF @ = "partial" THEN "whole" ELSE "partial"]
  /\ UNCHANGED <<setup, registry, profile, cache, task, crashes>>

-----------------------------------------------------------------------------
(* The process ends and starts again: only the files survive.              *)

Restarted ==
  /\ crashes < MaxCrashes /\ crashes' = crashes + 1
  /\ profile' = NoProfile /\ cache' = {}
  /\ task' = [t \in Tasks |-> AtRest]

Crash == /\ Restarted
         /\ UNCHANGED <<setup, registry, files>>

-----------------------------------------------------------------------------
(* rebind: getCached, an await, and then the check of the expiry.  What is *)
(* dropped is whatever is cached by then.                                  *)

(* Mutated form: never expired.                                            *)
NeverExpired(b) == FALSE

Expired(b) == b.left < 0

(* Nothing cached: the initializer of the cache starts a bind.             *)
Perform(t) ==
  /\ profile.pc = "ready" /\ task[t].pc = "idle"
  /\ \/ cache = {} /\ task' = [task EXCEPT ![t] = At("resolving", 0)]
     \/ \E b \in cache : task' = [task EXCEPT ![t] = Checking(b.left)]
  /\ UNCHANGED <<setup, registry, files, profile, cache, crashes>>

(* The binding is served even if it has expired.  Then the key is dropped  *)
(* and bound anew in a task that nobody awaits, which asks the empty cache *)
(* at once.                                                                *)
Check(t) ==
  /\ task[t].pc = "checking"
  /\ \/ /\ ~Expired(task[t])
        /\ task' = [task EXCEPT ![t] = AtRest]
        /\ UNCHANGED cache
     \/ /\ Expired(task[t])
        /\ cache' = {}
        /\ \E r \in Rebinds :
             /\ r = t \/ task[r].pc = "idle"
             /\ task' = [task EXCEPT ![t] = AtRest, ![r] = At("resolving", 0)]
  /\ UNCHANGED <<setup, registry, files, profile, crashes>>

-----------------------------------------------------------------------------
(* The bind ends: its value is cached over whatever another task cached    *)
(* meanwhile, and returned to the await in rebind.                         *)
Bound(t, version) ==
  /\ cache' = {[version |-> version, left |-> Timeout]}
  /\ task' = [u \in Tasks |->
               IF u = t THEN Checking(Timeout)
               ELSE [task[u] EXCEPT !.overtaken = task[u].pc = "checking"]]
  /\ UNCHANGED <<profile, crashes>>

(* Mutated form: a bind that fails clears its key in the cache.            *)
FailedClears(t) ==
  \/ /\ task' = [task EXCEPT ![t] = AtRest]
     /\ cache' = {}
     /\ UNCHANGED <<profile, crashes>>
  \/ t \in Rebinds /\ Restarted

(* A failed bind is not cached.  In the background nobody handles it: an   *)
(* unhandled rejection, which Node 14 warns of and later versions end on.  *)
Failed(t) ==
  \/ /\ task' = [task EXCEPT ![t] = AtRest]
     /\ UNCHANGED <<profile, cache, crashes>>
  \/ t \in Rebinds /\ Restarted

GoesOn(t, pc, version) ==
  /\ task' = [task EXCEPT ![t] = At(pc, version)]
  /\ UNCHANGED <<profile, cache, crashes>>

(* resolveProviderJson and resolveMapAst read what super.json names, and   *)
(* throw if it is missing or of another provider, profile or variant.      *)
Resolve(t) ==
  /\ task[t].pc = "resolving"
  /\ \/ setup.map = "local" /\ setup.info = "local" /\ Bound(t, 0)
     \/ setup.map = "local" /\ setup.info = "remote" /\ GoesOn(t, "asking", 0)
     \/ setup.map = "remote" /\ setup.info = "remote" /\ GoesOn(t, "binding", 0)
     \/ "local" \in {setup.map, setup.info} /\ Failed(t)
  /\ UNCHANGED <<setup, registry, files>>

(* fetchBind; what is wrong with an answer may be noticed at once, or when *)
(* the provider has been saved (the map does not parse or is of another    *)
(* provider, the security schemes are not those configured).               *)
BindAnswer(t) ==
  /\ task[t].pc = "binding"
  /\ \/ registry.state = "up" /\ GoesOn(t, "saving", registry.version)
     \/ registry.state = "garbled" /\ GoesOn(t, "unfit", 0)
     \/ registry.state # "up" /\ Failed(t)
  /\ UNCHANGED <<setup, registry, files>>

(* fetchProviderInfo; its failure leads to the copy in the cache.          *)
InfoAnswer(t) ==
  /\ task[t].pc = "asking"
  /\ \/ registry.state = "up" /\ GoesOn(t, "saving", registry.version)
     \/ registry.state = "garbled" /\ GoesOn(t, "unfit", 0)
     \/ registry.state # "up" /\ GoesOn(t, "reading", 0)
  /\ UNCHANGED <<setup, registry, files>>

(* The names of the copy of provider.json in the cache: it is written as   *)
(* <name>.json and looked for as <name>.                                   *)
WrittenAs == "name.json"
ReadAs    == "name"

(* writeProviderCache, whose errors are only logged.                       *)
Save(t) ==
  /\ task[t].pc \in {"saving", "unfit"}
  /\ files' = IF setup.cache
              THEN [files EXCEPT !.info = @ \cup {WrittenAs}] ELSE files
  /\ IF task[t].pc = "saving" THEN Bound(t, task[t].version) ELSE Failed(t)
  /\ UNCHANGED <<setup, registry>>

(* The copy may be broken, or unfit for the configuration.                 *)
ReadCopy(t) ==
  /\ task[t].pc = "reading"
  /\ IF ReadAs \in files.info THEN Bound(t, 0) \/ Failed(t) ELSE Failed(t)
  /\ UNCHANGED <<setup, registry, files>>

Step(t) ==
  \/ Resolve(t) \/ BindAnswer(t) \/ InfoAnswer(t) \/ Save(t) \/ ReadCopy(t)
  \/ Check(t)

-----------------------------------------------------------------------------
(* Time passes for every binding that is cached or held, down to the first *)
(* second after its expiry.                                                *)
Later(left) == IF left >= 0 THEN left - 1 ELSE left

Held == {t \in Tasks : task[t].pc = "checking"}

Tick ==
  /\ (\E b \in cache : b.left >= 0) \/ (\E t \in Held : task[t].left >= 0)
  /\ cache' = {[b EXCEPT !.left = Later(@)] : b \in cache}
  /\ task' = [t \in Tasks |-> IF t \in Held THEN [task[t] EXCEPT !.left = Later(@)]
                                            ELSE task[t]]
  /\ UNCHANGED <<setup, registry, files, profile, crashes>>

(* External: a map or a provider is published; the registry changes state. *)
Publish ==
  /\ registry.version < MaxVersion
  /\ registry' = [registry EXCEPT !.version = @ + 1]
  /\ UNCHANGED <<setup, files, profile, cache, task, crashes>>

Outage ==
  /\ \E s \in {"up", "down", "garbled"} : registry' = [registry EXCEPT !.state = s]
  /\ UNCHANGED <<setup, files, profile, cache, task, crashes>>

Next ==
  \/ GetProfile \/ ProfileAnswer \/ ProfileSaved \/ OtherProcess
  \/ \E t \in Performs : Perform(t)
  \/ \E t \in Tasks : Step(t)
  \/ Tick \/ Publish \/ Outage \/ Crash

(* Reads, writes and requests end, time passes, and the caller goes on     *)
(* getting the profile and performing.                                     *)
Fairness ==
  /\ WF_vars(GetProfile) /\ WF_vars(ProfileAnswer) /\ WF_vars(ProfileSaved)
  /\ WF_vars(\E t \in Performs : Perform(t))
  /\ \A t \in Tasks : WF_vars(Step(t))
  /\ WF_vars(Tick)

Spec == Init /\ [][Next]_vars
FairSpec == Spec /\ Fairness

-----------------------------------------------------------------------------
(* A profile in use (or being saved for others) is whole, although a       *)
(* process may end while it writes the file, and another reads it then.    *)
ProfileWhole == profile.pc \in {"saving", "ready"} => profile.ast = "whole"

(* What is cached came out of a bind that succeeded: from files only if    *)
(* the map is local, and never from a local provider and a remote map.     *)
CachedWasBound ==
  \A b \in cache : /\ b.version = 0 => setup.map = "local"
                   /\ setup.map = "remote" => setup.info = "remote"

(* A task that is past its files needs the registry, and knows what for.   *)
TasksFit ==
  \A t \in Tasks :
    /\ task[t].pc \in {"asking", "reading"} => setup.map = "local"
    /\ task[t].pc \in {"binding", "asking", "unfit"} => setup.info = "remote"
    /\ task[t].pc = "saving" =>
         /\ task[t].version # 0
         /\ setup.map = "remote" => setup.info = "remote"

(* What a task has got of the cache is still what is cached, if anything,  *)
(* unless another binding has been cached since.                           *)
HeldIsCached ==
  \A t \in Held, b \in cache : ~task[t].overtaken => b.left = task[t].left

IInv == TypeOK /\ ProfileWhole /\ CachedWasBound /\ TasksFit /\ HeldIsCached

(* A binding that has not expired is lost in one way only, as long as the  *)
(* process runs: a task which had got an expired one, before this one was  *)
(* cached, checks it afterwards and drops what is cached; it has it bound  *)
(* anew at once.  Failing binds, late binds and other performs never do.   *)
FreshLostOnlyToLateCheck ==
  [][\A b \in cache :
       b.left >= 0 /\ cache' = {} /\ crashes' = crashes =>
         /\ \E t \in Held : task[t].overtaken /\ task'[t].pc # "checking"
         /\ \E r \in Rebinds : task'[r].pc = "resolving" /\ task[r].pc # "resolving"]_vars

(* A later bind may be overwritten by an earlier one that ends after it,   *)
(* and a perform may still be served an expired map; but once the registry *)
(* stands still, the client ends up on what it has published, and stays on *)
(* it.                                                                     *)
Refreshes ==
  setup.map = "remote" /\ setup.info = "remote" =>
    \A v \in 1..MaxVersion :
      <>[](registry = [state |-> "up", version |-> v]) =>
        /\ <>[](\A b \in cache : b.version = v)
        /\ []<>(cache # {})

(* A file that a process left half written is no obstacle: while the       *)
(* registry is up a client gets its profile.                               *)
ProfileRecovers == <>[](registry.state = "up") => <>[](profile.pc = "ready")
=============================================================================
