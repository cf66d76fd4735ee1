\* A round trip over every version list, against every broker version range
\* within 0..MaxBrokerVersion (JoinGroup, the longest list, has 6 versions).
CONSTANTS
  Apis <- MCApis
  MaxBrokerVersion = 6

SPECIFICATION Spec

INVARIANTS
  TypeOK
  WireAgreement

\* One request: the round trip ends in done, incompatible or rejected.
CHECK_DEADLOCK FALSE
