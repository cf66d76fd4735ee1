\* The consumer-group calls against two brokers and two groups, group_ids
\* lists of up to three ids (duplicates included), with one
\* coordinator move and one failed request racing the call.
CONSTANTS
  b1 = b1  b2 = b2  g1 = g1  g2 = g2
  Brokers <- MCBrokers
  Groups <- MCGroups
  None = None
  MaxMoves = 1
  MaxFailures = 1
  MaxIds = 3
SPECIFICATION Spec
INVARIANTS TypeOK CoordinatorsMatchReplies DescribeAlignedToInput DeleteReportsEachGroupOnce ListsEveryStableGroup
PROPERTIES CallsReturn
\* One call: the system stops once it returned or raised.
CHECK_DEADLOCK FALSE
