\* perform_leader_election against a cluster that refuses the request with
\* a top-level ElectLeadersResponse error_code (e.g. cluster authorization).
CONSTANTS
  b1 = b1
  b2 = b2
  b3 = b3
  t1 = t1
  Brokers <- MCBrokers
  OldBrokers <- MCOldBrokers
  Topics <- MCTopics
  NoController = NoController
  None = None
  TopLevelErrors = {"ClusterAuthorizationFailed"}
  MaxMoves = 0
  MaxCalls = 1
  MaxPolls = 1
  AutoCreate = FALSE
SPECIFICATION Spec
INVARIANT
  ReturnsOnlyErrorFreeResponses
CHECK_DEADLOCK FALSE
