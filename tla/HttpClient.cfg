SPECIFICATION FairSpec
CONSTANTS
  Requests = {r1, r2}
  Targets = {t1, t2}
  Nonces = {n1, n2, n3, n4}
  Plans <- MCPlans
INVARIANTS IInv
PROPERTIES GetsThrough RequestsEnd OneFetchInTheEnd
