SPECIFICATION Spec
CONSTANTS
  Programs <- MCPrograms
  Values = {"undefined", "true", "false", "binary", "list0", "list1", "list2"}
  Root = "map"
  None = "none"
  AnyStatus = 0
  AnyType = "any"
  Responses <- MCResponses
  Files = 2
  MaxRequests = 2
INVARIANTS IInv OutcomesAsStated
PROPERTIES NothingAfterEnd BreaksOnError Settles
CHECK_DEADLOCK FALSE
