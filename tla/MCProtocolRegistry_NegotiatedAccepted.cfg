\* ListGroups and ElectLeaders: ListGroupsRequest_v2 declares API_VERSION = 1,
\* ElectLeadersRequest_v0 declares API_VERSION = 1.
CONSTANTS
  Apis = {"ListGroups", "ElectLeaders"}
  MaxBrokerVersion = 3

SPECIFICATION Spec

INVARIANT NegotiatedRequestAccepted

CHECK_DEADLOCK FALSE
