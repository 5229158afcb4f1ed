SPECIFICATION FairSpec
CONSTANTS
  Performs = {p1, p2}
  Rebinds = {r1}
  Timeout = 1
  MaxVersion = 2
  MaxCrashes = 1
INVARIANTS IInv
PROPERTIES FreshLostOnlyToLateCheck Refreshes ProfileRecovers
