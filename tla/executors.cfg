SPECIFICATION FairSpec
CONSTANTS
  CodeRequests <- MCCodeRequests
  RuleRequests <- MCRuleRequests
  HttpRequests <- MCHttpRequests
  ModelRequests <- MCModelRequests
  MaxRedirects = 2
  Absent = Absent
INVARIANT HandlerRuns
INVARIANT FittingHandlerRuns
INVARIANT RuleOutputIsReference
PROPERTY ExecutionEnds
CHECK_DEADLOCK FALSE
