SPECIFICATION BinarySpec
CONSTANTS
  Content <- MCContent
  Callers = {c1, c2}
  NoCaller = NoCaller
  Sizes = {2}
  MaxData = 2
INVARIANTS BinaryInv
PROPERTIES ReadsWhole CallSettles
CHECK_DEADLOCK FALSE
