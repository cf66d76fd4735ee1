CONSTANTS
  b1 = b1
  b2 = b2
  b3 = b3
  t1 = t1
  Brokers <- MCBrokers
  OldBrokers <- MCOldBrokers
  Topics <- MCTopics
  NoController = NoController
  None = None
  TopLevelErrors = {}
  MaxMoves = 1
  MaxCalls = 2
  MaxPolls = 2
  AutoCreate = TRUE
SPECIFICATION Spec
INVARIANTS
  TypeOK
  OutcomeMatchesCluster
  NeverExhaustsLoop
PROPERTIES
  ImplementsControllerCall
\* The caller stops after MaxCalls calls, and a constructor that raised
\* leaves no client: both are real final states.
CHECK_DEADLOCK FALSE
