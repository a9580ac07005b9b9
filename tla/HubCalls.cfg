SPECIFICATION HubSpec
CONSTANTS
  Callers = {c1, c2}
  FAILURE_THRESHOLD = 2
  MaxFailures = 2
  MaxTries = 2
  Methods = {"GetRules", "Embed", "GetContext", "Reason", "AnalyzeStream", "AnalyzeFile"}
INVARIANTS
  LockHasLiveOwners
PROPERTIES
  SentOnlyWhenCool
  BoundedCallsEnd
  CircuitCloses
