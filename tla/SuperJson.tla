------------------------------ MODULE SuperJson ------------------------------
(***************************************************************************)
(* The super.json document and the calls that edit it (schema-tools/       *)
(* superjson/mutate.ts), with the normalization every client reads it      *)
(* through (normalize.ts).                                                 *)
(*                                                                         *)
(* A call edits the document in place and answers whether it changed       *)
(* something; only setPriority answers with an error.  Whether the keys of *)
(* an object are ordered matters, because the order of the providers is    *)
(* the order of failover, so an object with names for keys is an ordered   *)
(* map.                                                                    *)
(*                                                                         *)
(* Data abstraction: a file and a version are atoms, a path has one        *)
(* spelling, and a use case's defaults are a partial function on inputs;   *)
(* a missing key and a key with the value undefined are both None; the     *)
(* `ast' forms, retry policies, providerFailover, the substitution of      *)
(* environment variables and the errors for malformed strings are left out.*)
(***************************************************************************)
EXTENDS Naturals, SequencesExt

CONSTANTS Profiles, Providers, ProfileVersions, Files,
          Usecases,
          Names,            \* of inputs, parameters, security ids, variants, revisions
          Values,           \* of inputs, parameters and security ids
          DefaultVersion,   \* '0.0.0'
          None,             \* undefined
          ProfilePayloads, SettingsPayloads, DefaultsPayloads, ProviderPayloads,
          Maps,             \* [variant, revision] of a remote map
          Orders,           \* arguments of setPriority
          Documents,        \* documents the edits start from
          MaxCalls          \* bound on the number of edits

VARIABLES doc,     \* SuperJsonDocument
          answer,  \* of the last call: "changed", "same" or "refused"
          calls    \* calls made

superJsonVars == <<doc, answer, calls>>

-----------------------------------------------------------------------------
(* Objects without an order are functions, with None for a missing key;    *)
(* ordered maps are the keys in the order of insertion, and such a function*)

Ordered(K, V) ==
  {m \in [keys : Seq(K), at : [K -> V \cup {None}]] :
     IsInjective(m.keys) /\ ToSet(m.keys) = {k \in K : m.at[k] # None}}

Empty(K) == [k \in K |-> None]
EmptyMap(K) == [keys |-> <<>>, at |-> Empty(K)]

Has(m, k) == m # None /\ m.at[k] # None
Get(m, k) == IF m = None THEN None ELSE m.at[k]
Keys(m) == IF m = None THEN <<>> ELSE m.keys

Put(m, k, v) ==
  [keys |-> IF Has(m, k) THEN m.keys ELSE Append(m.keys, k),
   at   |-> [m.at EXCEPT ![k] = v]]

(* `delete', and of the map itself when it is left empty. *)
Delete(m, k) ==
  IF m.keys = <<k>> THEN None
  ELSE [keys |-> RemoveFirst(m.keys, k), at |-> [m.at EXCEPT ![k] = None]]

PutAll(m, n) ==
  LET put[i \in 0..Len(n.keys)] ==
        IF i = 0 THEN m ELSE Put(put[i - 1], n.keys[i], n.at[n.keys[i]])
  IN put[Len(n.keys)]

-----------------------------------------------------------------------------
(* The entries of a document.  A string is a shorthand: of a version or a  *)
(* file for a profile, of a file for a provider.                           *)

Short(s) == [short |-> s]
IsShort(e) == e # None /\ DOMAIN e = {"short"}

Uri(f) == [uri |-> f]   \* the string `file://f' where a path belongs

EmptyProfile(source) ==
  [source |-> source, priority |-> None, defaults |-> None, providers |-> None]
EmptySettings == [file |-> None, variant |-> None, revision |-> None, defaults |-> None]
EmptyProvider == [file |-> None, security |-> None, parameters |-> None]

Uris     == {Uri(f) : f \in Files}
Fields   == [Names -> Values \cup {None}]
Defaults == [Usecases -> Fields \cup {None}]

(* A remote map has no file. *)
FullSettings ==
  {e \in [file : Files \cup Uris \cup {None}, variant : Names \cup {None},
          revision : Names \cup {None}, defaults : Defaults \cup {None}] :
     e.file = None \/ (e.variant = None /\ e.revision = None)}
Settings == [short : Files] \cup FullSettings

FullProfile ==
  [source : ProfileVersions \cup Files \cup Uris, priority : Seq(Providers) \cup {None},
   defaults : Defaults \cup {None}, providers : Ordered(Providers, Settings) \cup {None}]
Profile == [short : ProfileVersions \cup Files] \cup FullProfile

FullProvider ==
  [file : Files \cup Uris \cup {None}, security : Ordered(Names, Values) \cup {None},
   parameters : Fields \cup {None}]
Provider == [short : Files] \cup FullProvider

Document ==
  [profiles : [Profiles -> Profile \cup {None}],
   providers : Ordered(Providers, Provider) \cup {None}]

ASSUME SuperJsonAssumption ==
  /\ DefaultVersion \in ProfileVersions
  /\ MaxCalls \in Nat
  /\ ProfilePayloads \subseteq Profile /\ SettingsPayloads \subseteq Settings
  /\ DefaultsPayloads \subseteq Defaults /\ ProviderPayloads \subseteq Provider
  /\ Maps \subseteq [variant : Names \cup {None}, revision : Names \cup {None}]
  /\ Orders \subseteq Seq(Providers)
  /\ Documents \subseteq Document

(* undefined is none of the values a key may have. *)
ASSUME NoneAssumption ==
  /\ None \notin Files /\ None \notin Uris /\ None \notin Values
  /\ None \notin Fields /\ None \notin Defaults /\ None \notin Seq(Providers)
  /\ None \notin Settings /\ None \notin Profile /\ None \notin Provider
  /\ None \notin Ordered(Names, Values) /\ None \notin Ordered(Providers, Settings)
  /\ None \notin Ordered(Providers, Provider)

IsEmptyRecord(d) == d = None \/ \A x \in DOMAIN d : d[x] = None

NoDefaults  == Empty(Usecases)
NoProviders == EmptyMap(Providers)
OrEmpty(map) == IF map = None THEN NoProviders ELSE map   \* ?? {}

Inputs(defaults, usecase) ==
  IF defaults[usecase] = None THEN Empty(Names) ELSE defaults[usecase]

Over(r, l) == [x \in DOMAIN l |-> IF r[x] # None THEN r[x] ELSE l[x]]

(* Mutated form: a use case of r replaces that of l. *)
MergeShallow(l, r) == Over(r, l)

MergeVariables(l, r) ==
  [u \in Usecases |-> IF l[u] = None /\ r[u] = None THEN None
                      ELSE Over(Inputs(r, u), Inputs(l, u))]

-----------------------------------------------------------------------------
(* Normalization. *)

NormalizeProfileProviderSettings(e, base) ==
  IF IsShort(e) THEN [EmptySettings EXCEPT !.file = e.short, !.defaults = NoDefaults]
  ELSE [file     |-> e.file,
        variant  |-> IF e.file = None THEN e.variant ELSE None,
        revision |-> IF e.file = None THEN e.revision ELSE None,
        defaults |-> IF e.defaults = None THEN base
                     ELSE [u \in Usecases |-> IF e.defaults[u] = None THEN None
                             ELSE Over(e.defaults[u], Inputs(base, u))]]

(* Mutated form: the order of the document is not handed down. *)
ShorthandUnordered(e, topOrder) ==
  [source |-> e.short, priority |-> <<>>, defaults |-> NoDefaults, providers |-> NoProviders]

NormalizeShorthand(e, topOrder) ==
  [source |-> e.short, priority |-> topOrder, defaults |-> NoDefaults, providers |-> NoProviders]

NormalizePriority(e, topOrder) ==
  IF e.priority \notin {None, <<>>} THEN e.priority
  ELSE IF Keys(e.providers) # <<>> THEN Keys(e.providers) ELSE topOrder

NormalizeUsecaseDefaults(defaults) == IF defaults = None THEN NoDefaults ELSE defaults

NormalizeProfileSettings(e, topOrder) ==
  IF IsShort(e) THEN NormalizeShorthand(e, topOrder)
  ELSE LET defaults  == NormalizeUsecaseDefaults(e.defaults)
           providers == OrEmpty(e.providers)
       IN [source    |-> e.source,
           priority  |-> NormalizePriority(e, topOrder),
           defaults  |-> defaults,
           providers |-> [providers EXCEPT !.at =
             [s \in Providers |-> IF @[s] = None THEN None
                ELSE NormalizeProfileProviderSettings(@[s], defaults)]]]

NormalizeProviderSettings(e) ==
  IF IsShort(e)
  THEN [file |-> e.short, security |-> EmptyMap(Names), parameters |-> Empty(Names)]
  ELSE [file       |-> e.file,
        security   |-> IF e.security = None THEN EmptyMap(Names) ELSE e.security,
        parameters |-> IF e.parameters = None THEN Empty(Names) ELSE e.parameters]

NormalizeSuperJsonDocument(d) ==
  LET providers == OrEmpty(d.providers)
  IN [profiles  |-> [p \in Profiles |->
        IF d.profiles[p] = None THEN None
        ELSE NormalizeProfileSettings(d.profiles[p], providers.keys)],
      providers |-> [providers EXCEPT !.at =
        [s \in Providers |-> IF @[s] = None THEN None
           ELSE NormalizeProviderSettings(@[s])]]]

-----------------------------------------------------------------------------
(* Edits of a profile: each takes the entry and returns the new one; those *)
(* that can answer `false' return both.                                    *)

Result(value, changed) == [value |-> value, changed |-> changed]

MergeProfileDefaults(entry, payload) ==
  LET target == IF entry = None THEN Short(DefaultVersion) ELSE entry
  IN IF IsShort(target)
     THEN [EmptyProfile(IF target.short \in ProfileVersions THEN target.short ELSE Uri(target.short))
             EXCEPT !.defaults = payload]
     ELSE [target EXCEPT !.defaults = IF @ = None THEN payload ELSE MergeVariables(@, payload)]

ResolvePriorityAddition(existing, provider) ==
  IF existing \in {None, <<>>} THEN <<provider>>
  ELSE IF Contains(existing, provider) THEN existing
  ELSE Append(existing, provider)

EnsureProfileWithProviders(entry) ==
  IF entry = None THEN [EmptyProfile(DefaultVersion) EXCEPT !.providers = NoProviders]
  ELSE IF IsShort(entry) THEN NormalizeShorthand(entry, <<>>)
  ELSE [entry EXCEPT !.providers = OrEmpty(@)]

(* The entry a provider gets when the one it has, old, is merged with a    *)
(* payload, and None when the payload has nothing to merge.                *)
MergeSettings(old, payload) ==
  LET defaults ==
        IF payload.defaults = None \/ IsShort(old) \/ old.defaults = None THEN payload.defaults
        ELSE MergeVariables(old.defaults, payload.defaults)
      isRemote == payload.variant # None \/ payload.revision # None
      Older(field) == IF IsShort(old) \/ old.file # None THEN None ELSE old[field]
      Newer(field) == IF payload[field] = None THEN Older(field) ELSE payload[field]
  IN IF payload.file # None THEN [payload EXCEPT !.defaults = defaults]
     ELSE IF isRemote
          THEN [file |-> None, variant |-> Newer("variant"), revision |-> Newer("revision"),
                defaults |-> defaults]
     ELSE IF defaults = None THEN None
     ELSE IF IsShort(old)
          THEN [EmptySettings EXCEPT !.file = Uri(old.short), !.defaults = defaults]
     ELSE [old EXCEPT !.defaults = defaults]

MergeProviderEntry(old, payload) ==
  IF old = None THEN payload
  ELSE IF ~IsShort(payload) THEN MergeSettings(old, payload)
  ELSE IF IsShort(old) \/ IsEmptyRecord(old.defaults) THEN payload
  ELSE [EmptySettings EXCEPT !.file = payload.short, !.defaults = old.defaults]

MergeProfileProvider(entry, provider, payload) ==
  LET profile == EnsureProfileWithProviders(entry)
      merged  == MergeProviderEntry(Get(profile.providers, provider), payload)
  IN IF merged = None THEN Result(profile, FALSE)
     ELSE Result([profile EXCEPT
                    !.providers = Put(@, provider, merged),
                    !.priority = ResolvePriorityAddition(@, provider)], TRUE)

(* forEach of the payload's providers. *)
MergeProviders(entry, payload) ==
  LET keys == Keys(payload.providers)
      merging[i \in 0..Len(keys)] ==
        IF i = 0 THEN entry
        ELSE MergeProfileProvider(merging[i - 1], keys[i], payload.providers.at[keys[i]]).value
  IN merging[Len(keys)]

MergeProfile(entry, payload) ==
  IF entry = None THEN payload
  ELSE IF IsShort(payload) THEN
    IF IsShort(entry) \/ (IsEmptyRecord(entry.defaults) /\ Keys(entry.providers) = <<>>)
    THEN payload
    ELSE [entry EXCEPT !.source = payload.short, !.priority = None]
  ELSE IF IsShort(entry) THEN [payload EXCEPT !.priority = None]
  ELSE [source    |-> payload.source,
        priority  |-> entry.priority,   \* read before the providers are merged
        defaults  |-> IF entry.defaults = None \/ payload.defaults = None THEN entry.defaults
                      ELSE MergeVariables(entry.defaults, payload.defaults),
        providers |-> IF entry.providers = None THEN None
                      ELSE MergeProviders(entry, payload).providers]

SetProfile(entry, payload) ==
  IF payload = None THEN Result(None, entry # None)
  ELSE Result(MergeProfile(None, payload), TRUE)

(* Mutated form: the order keeps the name. *)
DeleteOnlyProvider(entry, provider, overwritten) ==
  [entry EXCEPT !.providers = Delete(@, provider)]

DeleteProfileProvider(entry, provider, overwritten) ==
  [entry EXCEPT
     !.providers = Delete(@, provider),
     !.priority = IF overwritten \/ @ = None THEN @
                  ELSE IF RemoveFirst(@, provider) = <<>> THEN None
                  ELSE RemoveFirst(@, provider)]

SetProfileProvider(entry, provider, payload) ==
  LET present == entry # None /\ ~IsShort(entry) /\ Has(entry.providers, provider)
      profile == IF present THEN DeleteProfileProvider(entry, provider, payload # None)
                 ELSE entry
      merged  == MergeProfileProvider(profile, provider, payload)
  IN IF payload = None THEN Result(profile, present)
     ELSE Result(merged.value, present \/ merged.changed)

(* A shorthand that stays a shorthand is written when it is the same. *)
SwapToLocal(old, file) ==
  IF IsShort(old) THEN Result(Short(file), file = old.short)
  ELSE IF old = None THEN Result(Short(file), TRUE)
  ELSE Result(IF IsEmptyRecord(old.defaults) THEN Short(file)
              ELSE [EmptySettings EXCEPT !.file = file, !.defaults = old.defaults],
              old.file # file)

SwapToRemote(old, map) ==
  LET settings == IF old = None \/ IsShort(old) THEN EmptySettings ELSE old
      isRemote == old # None /\ ~IsShort(old) /\ old.file = None
  IN Result([file |-> None, variant |-> map.variant, revision |-> map.revision,
             defaults |-> settings.defaults],
            isRemote => <<old.variant, old.revision>> # <<map.variant, map.revision>>)

(* variant is a file, or the map of a remote provider. *)
SwapProfileProviderVariant(entry, provider, variant) ==
  LET profile == EnsureProfileWithProviders(entry)
      old     == Get(profile.providers, provider)
      swapped == IF variant \in Files THEN SwapToLocal(old, variant)
                 ELSE SwapToRemote(old, variant)
  IN IF swapped.changed
     THEN Result([profile EXCEPT !.providers = Put(@, provider, swapped.value)], TRUE)
     ELSE Result(profile, FALSE)

-----------------------------------------------------------------------------
(* Edits of the providers of the document, and of the order of a profile.  *)

MergeSecurity(l, r) == PutAll(l, r)

MergeProvider(entry, payload) ==
  LET target == IF entry = None THEN EmptyProvider ELSE entry
      isShorthandAvailable ==
        \/ IsShort(target)
        \/ Keys(target.security) = <<>>
        \/ IsEmptyRecord(target.parameters)
      Either(l, r, merged) == IF l = None THEN r ELSE IF r = None THEN l ELSE merged
  IN IF IsShort(payload)
     THEN IF isShorthandAvailable THEN payload ELSE [target EXCEPT !.file = payload.short]
     ELSE IF IsShort(target)
     THEN [payload EXCEPT !.file = IF @ = None THEN Uri(target.short) ELSE @]
     ELSE [file       |-> IF payload.file = None THEN target.file ELSE payload.file,
           security   |-> Either(target.security, payload.security,
                                 MergeSecurity(target.security, payload.security)),
           parameters |-> Either(target.parameters, payload.parameters,
                                 Over(payload.parameters, target.parameters))]

(* variant is a file, or None for a remote provider. *)
SwapProviderVariant(entry, variant) ==
  IF variant = None
  THEN IF entry = None \/ IsShort(entry) THEN Result(EmptyProvider, TRUE)
       ELSE Result([entry EXCEPT !.file = None], entry.file # None)
  ELSE IF IsShort(entry) THEN Result(Short(variant), variant # entry.short)
  ELSE IF entry = None \/ Keys(entry.security) = <<>> THEN Result(Short(variant), TRUE)
  ELSE Result([entry EXCEPT !.file = variant], variant # entry.file)

Answer(value, kind) == [value |-> value, answer |-> kind]

(* providers are the document's; None when it has none. *)
SetPriority(entry, order, providers) ==
  LET profile == IF IsShort(entry) THEN NormalizeShorthand(entry, Keys(providers)) ELSE entry
      AllIn(m) == \A i \in DOMAIN order : Has(m, order[i])
  IN IF entry = None THEN Answer(None, "refused")
     ELSE IF profile.providers = None THEN Answer(profile, "refused")
     ELSE IF order = None THEN Answer([profile EXCEPT !.priority = None], "changed")
     ELSE IF ~AllIn(profile.providers) \/ providers = None THEN Answer(profile, "refused")
     ELSE IF ~AllIn(providers) THEN Answer(profile, "refused")
     ELSE IF order = (IF profile.priority = None THEN <<>> ELSE profile.priority)
     THEN Answer(profile, "same")
     ELSE Answer([profile EXCEPT !.priority = order], "changed")

-----------------------------------------------------------------------------
(* The calls. *)

SuperJsonInit ==
  /\ doc \in Documents
  /\ answer = "same"
  /\ calls = 0

Calls ==
  /\ calls < MaxCalls
  /\ calls' = calls + 1

EditProfile(profile, result) ==
  /\ Calls
  /\ doc' = [doc EXCEPT !.profiles[profile] = result.value]
  /\ answer' = IF result.changed THEN "changed" ELSE "same"

EditProvider(provider, result) ==
  /\ Calls
  /\ doc' = [doc EXCEPT !.providers = Put(OrEmpty(@), provider, result.value)]
  /\ answer' = IF result.changed THEN "changed" ELSE "same"

mergeProfileDefaults(p) ==
  \E payload \in DefaultsPayloads :
    EditProfile(p, Result(MergeProfileDefaults(doc.profiles[p], payload), TRUE))

mergeProfile(p) ==
  \E payload \in ProfilePayloads :
    EditProfile(p, Result(MergeProfile(doc.profiles[p], payload), TRUE))

setProfile(p) ==
  \E payload \in ProfilePayloads \cup {None} :
    EditProfile(p, SetProfile(doc.profiles[p], payload))

mergeProfileProvider(p, s) ==
  \E payload \in SettingsPayloads :
    EditProfile(p, MergeProfileProvider(doc.profiles[p], s, payload))

setProfileProvider(p, s) ==
  \E payload \in SettingsPayloads \cup {None} :
    EditProfile(p, SetProfileProvider(doc.profiles[p], s, payload))

swapProfileProviderVariant(p, s) ==
  \E variant \in Files \cup Maps :
    EditProfile(p, SwapProfileProviderVariant(doc.profiles[p], s, variant))

mergeProvider(s) ==
  \E payload \in ProviderPayloads :
    EditProvider(s, Result(MergeProvider(Get(doc.providers, s), payload), TRUE))

swapProviderVariant(s) ==
  \E variant \in Files \cup {None} :
    EditProvider(s, SwapProviderVariant(Get(doc.providers, s), variant))

(* An overwritten provider moves to the end of the object. *)
setProvider(s) ==
  LET deleted == IF Has(doc.providers, s) THEN Delete(doc.providers, s) ELSE doc.providers
  IN /\ Calls
     /\ \/ /\ doc' = [doc EXCEPT !.providers = deleted]
           /\ answer' = IF Has(doc.providers, s) THEN "changed" ELSE "same"
        \/ \E payload \in ProviderPayloads :
             /\ doc' = [doc EXCEPT !.providers =
                          Put(OrEmpty(deleted), s, MergeProvider(None, payload))]
             /\ answer' = "changed"

setPriority(p) ==
  \E order \in Orders \cup {None} :
    LET result == SetPriority(doc.profiles[p], order, doc.providers)
    IN /\ Calls
       /\ doc' = [doc EXCEPT !.profiles[p] = result.value]
       /\ answer' = result.answer

SuperJsonNext ==
  \/ \E p \in Profiles :
       \/ mergeProfileDefaults(p) \/ mergeProfile(p) \/ setProfile(p) \/ setPriority(p)
       \/ \E s \in Providers : \/ mergeProfileProvider(p, s)
                               \/ setProfileProvider(p, s)
                               \/ swapProfileProviderVariant(p, s)
  \/ \E s \in Providers : mergeProvider(s) \/ setProvider(s) \/ swapProviderVariant(s)

SuperJsonSpec == SuperJsonInit /\ [][SuperJsonNext]_superJsonVars

-----------------------------------------------------------------------------
(* Properties.  Those about a call quantify over every call on the         *)
(* document a history of edits has left.                                   *)

(* The document keeps the form the schema of super.json gives it: a remote *)
(* map has no file, an object no key twice, a security list no id twice.   *)
SuperJsonTypeOK ==
  /\ doc \in Document
  /\ answer \in {"changed", "same", "refused"}
  /\ calls \in 0 .. MaxCalls

(* Normalizing a normalized document changes nothing (normalize.ts:382):   *)
(* the client may hand one on, and what it reads is what the next reader   *)
(* of the same document does.                                              *)
NormalizeStable ==
  LET normalized == NormalizeSuperJsonDocument(doc)
  IN NormalizeSuperJsonDocument(normalized) = normalized

(* A call that answers `false', or refuses, has not changed what a client  *)
(* reads from the document, although setPriority and the calls that ensure *)
(* a profile rewrite a shorthand before they decide.                       *)
AnswerTellsChange ==
  [][answer' # "changed" =>
       NormalizeSuperJsonDocument(doc') = NormalizeSuperJsonDocument(doc)]_superJsonVars

WellOrdered(e) ==
  e # None /\ ~IsShort(e) /\ e.priority # None =>
    IsInjective(e.priority) /\ ToSet(e.priority) \subseteq ToSet(Keys(e.providers))

(* The order of failover of a profile names each provider once and none    *)
(* that the profile does not configure: no call that is not refused breaks *)
(* that, whichever providers it adds, overwrites or deletes.               *)
OrderNamesConfigured ==
  [][answer' # "refused" =>
       \A p \in Profiles : WellOrdered(doc.profiles[p]) => WellOrdered(doc'.profiles[p])]_superJsonVars

ExplicitOrder(e) == IF e = None \/ IsShort(e) \/ e.priority = None THEN <<>> ELSE e.priority

(* "Preserves existing profile priority when overwriting": setting, merging *)
(* or swapping a provider of a profile adds to the stated order at most, at *)
(* its end, although setting deletes the provider first.                   *)
EditKeepsOrder ==
  \A p \in Profiles, s \in Providers :
    LET e == doc.profiles[p]
        Keeps(result) == IsPrefix(ExplicitOrder(e), ExplicitOrder(result.value))
    IN /\ \A payload \in SettingsPayloads : /\ Keeps(SetProfileProvider(e, s, payload))
                                           /\ Keeps(MergeProfileProvider(e, s, payload))
       /\ \A v \in Files \cup Maps : Keeps(SwapProfileProviderVariant(e, s, v))

OwnDefaults(profile, provider) ==
  LET e == IF profile = None \/ IsShort(profile) THEN None ELSE Get(profile.providers, provider)
  IN IF e = None \/ IsShort(e) THEN NoDefaults
     ELSE IF e.defaults = None THEN NoDefaults ELSE e.defaults

(* Swapping the map of a provider, from a file to a remote one and back    *)
(* any number of times, keeps the defaults the provider was given, and     *)
(* leaves the other providers alone.                                       *)
SwapKeepsDefaults ==
  \A p \in Profiles, s \in Providers, v \in Files \cup Maps :
    LET e == doc.profiles[p]
        once == SwapProfileProviderVariant(e, s, v).value
    IN \A w \in Files \cup Maps, t \in Providers :
         OwnDefaults(SwapProfileProviderVariant(once, s, w).value, t) = OwnDefaults(e, t)

FieldsIn(f, g) == \A x \in Names : f # None /\ f[x] # None => g # None /\ g[x] # None
AllSetIn(l, r) == \A u \in Usecases : FieldsIn(l[u], r[u])

(* "Keep previous structure and merge": merging a profile keeps every      *)
(* default input it had and every provider, in their order, and merging    *)
(* the settings of a provider keeps its security schemes and parameters.   *)
MergeForgetsNothing ==
  /\ \A p \in Profiles, payload \in ProfilePayloads :
       LET e == doc.profiles[p]
           merged == MergeProfile(e, payload)
       IN e # None /\ ~IsShort(e) /\ ~IsShort(merged) =>
            /\ IsPrefix(Keys(e.providers), Keys(merged.providers))
            /\ AllSetIn(NormalizeUsecaseDefaults(e.defaults),
                        NormalizeUsecaseDefaults(merged.defaults))
  /\ \A s \in Providers, payload \in ProviderPayloads :
       LET e == Get(doc.providers, s)
           merged == MergeProvider(e, payload)
       IN e # None /\ ~IsShort(e) /\ ~IsShort(payload) =>
            /\ IsPrefix(Keys(e.security), Keys(merged.security))
            /\ FieldsIn(e.parameters, merged.parameters)

(* These, and the form of the document.                                    *)
SuperJsonInv ==
  /\ SuperJsonTypeOK
  /\ NormalizeStable /\ EditKeepsOrder /\ SwapKeepsDefaults /\ MergeForgetsNothing
=============================================================================
