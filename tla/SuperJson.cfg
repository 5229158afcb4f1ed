SPECIFICATION SuperJsonSpec
CONSTANTS
  Profiles = {"profile"}
  Providers = {"a", "b"}
  ProfileVersions = {version0, version}
  Files = {map, map2}
  Usecases = {"usecase"}
  Names = {"x", "y", "variant", "revision", "basic", "key", "q"}
  Values = {1, 2, 3}
  DefaultVersion = version0
  map = map
  map2 = map2
  version = version
  None = None
  ProfilePayloads <- MCProfilePayloads
  SettingsPayloads <- MCSettingsPayloads
  DefaultsPayloads <- MCDefaultsPayloads
  ProviderPayloads <- MCProviderPayloads
  Maps <- MCMaps
  Orders <- MCOrders
  Documents <- MCDocuments
  MaxCalls = 3
INVARIANTS SuperJsonInv
PROPERTIES AnswerTellsChange OrderNamesConfigured
CHECK_DEADLOCK FALSE
