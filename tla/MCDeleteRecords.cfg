\* delete_records against two brokers and three partitions, with up to two
\* leader changes racing the call.
CONSTANTS
  b1 = b1  b2 = b2  p1 = p1  p2 = p2  p3 = p3
  Brokers <- MCBrokers
  Partitions <- MCPartitions
  NoLeader = NoLeader
  None = None
  MaxMoves = 2
SPECIFICATION Spec
INVARIANTS TypeOK ReturnMeansDeleted ErrorNamesEveryFailure
\* One call: the system stops once it returned or raised.
CHECK_DEADLOCK FALSE
