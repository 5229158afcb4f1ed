SPECIFICATION Spec
CONSTANTS
  Executions = {e1, e2, e3}
  Config <- MCBreaker
  MaxTime = 4
  MaxUps = 4
  MaxStreak = 4
INVARIANTS IInv
PROPERTIES ImplementsBreaker RecoveryIsFresh
