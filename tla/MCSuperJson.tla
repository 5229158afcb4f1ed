----------------------------- MODULE MCSuperJson -----------------------------
(* One profile and two providers; documents that are empty, in shorthand   *)
(* and in full, and payloads of every form with overlapping defaults.      *)
EXTENDS SuperJson

CONSTANTS map, map2, version

Map1(K, k, v) == Put(EmptyMap(K), k, v)
Field(name, value) == [Empty(Names) EXCEPT ![name] = value]
Default(input, value) == [u \in Usecases |-> Field(input, value)]

MCMaps == {[variant |-> "variant", revision |-> None]}

WithDefaults(d) == [EmptySettings EXCEPT !.defaults = d]

MCSettingsPayloads ==
  {Short(map), WithDefaults(Default("y", 2)), WithDefaults(NoDefaults),
   [EmptySettings EXCEPT !.file = map], [EmptySettings EXCEPT !.revision = "revision"]}

MCProfilePayloads ==
  {Short(version), Short(map),
   [EmptyProfile(map) EXCEPT !.defaults = Default("x", 1), !.priority = <<"a">>,
                             !.providers = Map1(Providers, "a", Short(map))],
   [EmptyProfile(version) EXCEPT
      !.providers = Map1(Providers, "b", WithDefaults(Default("x", 3)))]}

MCDefaultsPayloads == {Default("x", 2), Default("y", 1)}

MCProviderPayloads ==
  {Short(map),
   [EmptyProvider EXCEPT !.security = Map1(Names, "key", 1)],
   [EmptyProvider EXCEPT !.security = Put(Map1(Names, "basic", 1), "key", 2), !.file = map2],
   [EmptyProvider EXCEPT !.parameters = Field("q", 1)]}

MCOrders == {<<>>, <<"a">>, <<"b", "a">>}

DocumentOf(profile, providers) ==
  [profiles |-> [p \in {"profile"} |-> profile], providers |-> providers]

MCDocuments ==
  {DocumentOf(None, None),
   DocumentOf(Short(map), Map1(Providers, "a", Short(map))),
   DocumentOf(
     [source |-> version, priority |-> <<"a", "b">>, defaults |-> Default("x", 1),
      providers |-> Put(Map1(Providers, "a",
                             [WithDefaults(Default("x", 2)) EXCEPT !.file = map]),
                        "b", WithDefaults(None))],
     Put(Map1(Providers, "b", EmptyProvider), "a", Short(map)))}
=============================================================================
