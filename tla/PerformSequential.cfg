SPECIFICATION Spec
CONSTANTS
  a = a
  b = b
  p1 = p1
  p2 = p2
  p3 = p3
  o1 = o1
  u1 = u1
  NoProvider = NoProvider
  NoUseCase = NoUseCase
  Providers <- MCProviders
  Priority <- MCPriority
  Configs <- MCConfigs
  Performs = {p1, p2, p3}
  UseCaseObjects = {o1}
  UseCases = {u1}
  ObjectOf <- OneObject
  UseCaseOf <- OneUseCase
  Options = {NoProvider, a}
  DefaultProvider = NoProvider
  Concurrency = 1
  MaxTime = 2
  MaxCalls = 1
SYMMETRY Interchangeable
INVARIANTS IInv PlaceholderOverridden
PROPERTIES OpenBreakerNotCalled GoesWhereItMay SuccessCredited
