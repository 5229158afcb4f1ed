SPECIFICATION Spec
CONSTANTS
  s1 = s1
  s2 = s2
  Subjects <- MCSubjects
  Undefined = Undefined
  DebounceMin = 2
  DebounceMax = 3
  Lateness = 1
  TicksPerDay = 3
  MaxTime = 4
  MaxReports = 3
  MaxRequests = 1
INVARIANTS IInv WaitBounded
PROPERTIES SentWhenQuiet SentInTheEnd
