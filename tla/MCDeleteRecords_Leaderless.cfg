\* The docstring of _get_leader_for_partitions against a leaderless partition;
\* leader changes racing the call.
CONSTANTS
  b1 = b1  b2 = b2  p1 = p1  p2 = p2  p3 = p3
  Brokers <- MCBrokers
  Partitions <- MCPartitions
  NoLeader = NoLeader
  None = None
  MaxMoves = 2
SPECIFICATION Spec
INVARIANTS LeaderlessRaisesUnknown
\* One call: the system stops once it returned or raised.
CHECK_DEADLOCK FALSE
