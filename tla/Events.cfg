SPECIFICATION EventsSpec
CONSTANTS
  Calls = {c1}
  l1 = l1
  l2 = l2
  l3 = l3
  Callbacks <- MCCallbacks
  Priorities = {1, 2}
  Contexts = {x1, x2}
  Filters <- MCFilters
  MaxRounds = 2
INVARIANTS EventsInv LastWordCounts
