SPECIFICATION Spec
CONSTANTS
  a = a
  b = b
  c = c
  d = d
  e = e
  NoProvider = NoProvider
  Providers <- MCProviders
  Priority <- MCPriority
  Configs <- MCConfigs
  MaxTime = 4
  MaxStreak = 2
INVARIANTS RouterInv
PROPERTIES SwitchTargetAdmits FailsOverDown RestoreFindsBest OthersUntouched
