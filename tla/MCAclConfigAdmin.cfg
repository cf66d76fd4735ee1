\* One ACL or config call against two brokers, two ACLs (one of which the
\* brokers refuse to create), one topic and two configuration values,
\* argument lists of up to three entries, and one failed request.
CONSTANTS
  b1 = b1  b2 = b2  a1 = a1  a2 = a2  t1 = t1  v1 = v1  v2 = v2
  Brokers <- MCBrokers
  Acls <- MCAcls
  Refused <- MCRefused
  Topics <- MCTopics
  Vals <- MCVals
  BadName = BadName
  None = None
  MaxLen = 3
  MaxFailures = 1
SPECIFICATION Spec
INVARIANTS TypeOK AclResultsMatchCluster DeleteAclsReportsRemoved DescribeConfigsRouted
\* One call: the system stops once it returned or raised.
CHECK_DEADLOCK FALSE
