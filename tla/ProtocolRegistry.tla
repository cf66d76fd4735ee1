-------------------------- MODULE ProtocolRegistry --------------------------
(***************************************************************************)
(* The versioned Request/Response classes of src/kafka/protocol/admin.py   *)
(* and src/kafka/protocol/group.py, and one request's round trip through   *)
(* them: the caller negotiates a version, builds Request[version], the     *)
(* header carries the class's API_KEY and API_VERSION, the broker decodes  *)
(* the body with the schema of the header's version and encodes its reply  *)
(* with the response schema of that version, and the client decodes the    *)
(* reply with the request's RESPONSE_TYPE.                                 *)
(*                                                                         *)
(* A class is a record of its class attributes: API_KEY (key),             *)
(* API_VERSION (ver), RESPONSE_TYPE (resp, requests only) and SCHEMA.  A   *)
(* schema is abstracted to the number of the class whose Schema(...)       *)
(* literal it is: `SCHEMA = X_v1.SCHEMA` resolves to X_v1's literal, and   *)
(* two literals with the same fields in the same order are one schema.     *)
(* Versions are list indexes, so Python's X[v] is X[v + 1] here.           *)
(***************************************************************************)
EXTENDS Naturals, Sequences, FiniteSets

CONSTANTS
  Apis,              \* the version lists the round trip is checked for
  MaxBrokerVersion   \* the largest version a broker supports

ASSUME MaxBrokerVersion \in Nat

Rs(k, v, s) == [dir |-> "Response", key |-> k, ver |-> v, schema |-> s]
Rq(k, v, r, s) == [dir |-> "Request", key |-> k, ver |-> v, resp |-> r, schema |-> s]

\* An API whose response list is its Response_v0, Response_v1, ... classes.
Api(reqs, rsps) == [req |-> reqs, rsp |-> rsps, rspList |-> rsps]

-----------------------------------------------------------------------------
(* protocol/admin.py                                                       *)

CreateTopicsVersions ==
  LET R == <<Rs(19, 0, 0), Rs(19, 1, 1), Rs(19, 2, 2), Rs(19, 3, 2)>>
  IN Api(<<Rq(19, 0, R[1], 0), Rq(19, 1, R[2], 1), Rq(19, 2, R[3], 1),
           Rq(19, 3, R[4], 1)>>, R)

DeleteTopicsVersions ==
  LET R == <<Rs(20, 0, 0), Rs(20, 1, 1), Rs(20, 2, 1), Rs(20, 3, 1)>>
  IN Api(<<Rq(20, 0, R[1], 0), Rq(20, 1, R[2], 0), Rq(20, 2, R[3], 0),
           Rq(20, 3, R[4], 0)>>, R)

DeleteRecordsVersions ==
  LET R == <<Rs(21, 0, 0)>> IN Api(<<Rq(21, 0, R[1], 0)>>, R)

\* ListGroupsRequest_v2 declares API_VERSION = 1.
ListGroupsVersions ==
  LET R == <<Rs(16, 0, 0), Rs(16, 1, 1), Rs(16, 2, 1)>>
  IN Api(<<Rq(16, 0, R[1], 0), Rq(16, 1, R[2], 0), Rq(16, 1, R[3], 0)>>, R)

\* Mutant: DescribeGroupsRequest_v3 copies API_VERSION = 2 from _v2.
DescribeGroupsVersionsV3AsV2 ==
  LET R == <<Rs(15, 0, 0), Rs(15, 1, 1), Rs(15, 2, 1), Rs(15, 3, 3)>>
  IN Api(<<Rq(15, 0, R[1], 0), Rq(15, 1, R[2], 0), Rq(15, 2, R[3], 0),
           Rq(15, 2, R[4], 3)>>, R)

DescribeGroupsVersions ==
  LET R == <<Rs(15, 0, 0), Rs(15, 1, 1), Rs(15, 2, 1), Rs(15, 3, 3)>>
  IN Api(<<Rq(15, 0, R[1], 0), Rq(15, 1, R[2], 0), Rq(15, 2, R[3], 0),
           Rq(15, 3, R[4], 3)>>, R)

DescribeAclsVersions ==
  LET R == <<Rs(29, 0, 0), Rs(29, 1, 1), Rs(29, 2, 1)>>
  IN Api(<<Rq(29, 0, R[1], 0), Rq(29, 1, R[2], 1), Rq(29, 2, R[3], 1)>>, R)

CreateAclsVersions ==
  LET R == <<Rs(30, 0, 0), Rs(30, 1, 0)>>
  IN Api(<<Rq(30, 0, R[1], 0), Rq(30, 1, R[2], 1)>>, R)

DeleteAclsVersions ==
  LET R == <<Rs(31, 0, 0), Rs(31, 1, 1)>>
  IN Api(<<Rq(31, 0, R[1], 0), Rq(31, 1, R[2], 1)>>, R)

\* AlterConfigsResponse = [AlterConfigsResponse_v0, AlterConfigsRequest_v1].
AlterConfigsVersions ==
  LET R  == <<Rs(33, 0, 0), Rs(33, 1, 0)>>
      Q  == <<Rq(33, 0, R[1], 0), Rq(33, 1, R[2], 0)>>
  IN [req |-> Q, rsp |-> R, rspList |-> <<R[1], Q[2]>>]

DescribeConfigsVersions ==
  LET R == <<Rs(32, 0, 0), Rs(32, 1, 1), Rs(32, 2, 2)>>
  IN Api(<<Rq(32, 0, R[1], 0), Rq(32, 1, R[2], 1), Rq(32, 2, R[3], 1)>>, R)

DescribeLogDirsVersions ==
  LET R == <<Rs(35, 0, 0)>> IN Api(<<Rq(35, 0, R[1], 0)>>, R)

SaslAuthenticateVersions ==
  LET R == <<Rs(36, 0, 0), Rs(36, 1, 1)>>
  IN Api(<<Rq(36, 0, R[1], 0), Rq(36, 1, R[2], 0)>>, R)

CreatePartitionsVersions ==
  LET R == <<Rs(37, 0, 0), Rs(37, 1, 0)>>
  IN Api(<<Rq(37, 0, R[1], 0), Rq(37, 1, R[2], 0)>>, R)

DeleteGroupsVersions ==
  LET R == <<Rs(42, 0, 0), Rs(42, 1, 0)>>
  IN Api(<<Rq(42, 0, R[1], 0), Rq(42, 1, R[2], 0)>>, R)

DescribeClientQuotasVersions ==
  LET R == <<Rs(48, 0, 0)>> IN Api(<<Rq(48, 0, R[1], 0)>>, R)

AlterPartitionReassignmentsVersions ==
  LET R == <<Rs(45, 0, 0)>> IN Api(<<Rq(45, 0, R[1], 0)>>, R)

ListPartitionReassignmentsVersions ==
  LET R == <<Rs(46, 0, 0)>> IN Api(<<Rq(46, 0, R[1], 0)>>, R)

\* ElectLeaders*_v0 declare API_VERSION = 1, and their Schema(...) literals
\* are field for field those of the _v1 classes.
ElectLeadersVersions ==
  LET R == <<Rs(43, 1, 1), Rs(43, 1, 1)>>
  IN Api(<<Rq(43, 1, R[1], 1), Rq(43, 1, R[2], 1)>>, R)

-----------------------------------------------------------------------------
(* protocol/group.py                                                       *)

JoinGroupVersions ==
  LET R == <<Rs(11, 0, 0), Rs(11, 1, 0), Rs(11, 2, 2), Rs(11, 3, 2),
             Rs(11, 4, 2), Rs(11, 5, 5)>>
  IN Api(<<Rq(11, 0, R[1], 0), Rq(11, 1, R[2], 1), Rq(11, 2, R[3], 1),
           Rq(11, 3, R[4], 1), Rq(11, 4, R[5], 1), Rq(11, 5, R[6], 5)>>, R)

SyncGroupVersions ==
  LET R == <<Rs(14, 0, 0), Rs(14, 1, 1), Rs(14, 2, 1), Rs(14, 3, 1)>>
  IN Api(<<Rq(14, 0, R[1], 0), Rq(14, 1, R[2], 0), Rq(14, 2, R[3], 0),
           Rq(14, 3, R[4], 3)>>, R)

HeartbeatVersions ==
  LET R == <<Rs(12, 0, 0), Rs(12, 1, 1), Rs(12, 2, 1), Rs(12, 3, 1)>>
  IN Api(<<Rq(12, 0, R[1], 0), Rq(12, 1, R[2], 0), Rq(12, 2, R[3], 0),
           Rq(12, 3, R[4], 3)>>, R)

LeaveGroupVersions ==
  LET R == <<Rs(13, 0, 0), Rs(13, 1, 1), Rs(13, 2, 1), Rs(13, 3, 3)>>
  IN Api(<<Rq(13, 0, R[1], 0), Rq(13, 1, R[2], 0), Rq(13, 2, R[3], 0),
           Rq(13, 3, R[4], 3)>>, R)

\* The version lists by name, as `from kafka.protocol.admin import ...` and
\* kafka.protocol.group export them.
Registry ==
  [CreateTopics |-> CreateTopicsVersions, DeleteTopics |-> DeleteTopicsVersions,
   DeleteRecords |-> DeleteRecordsVersions, ListGroups |-> ListGroupsVersions,
   DescribeGroups |-> DescribeGroupsVersions,
   DescribeAcls |-> DescribeAclsVersions, CreateAcls |-> CreateAclsVersions,
   DeleteAcls |-> DeleteAclsVersions, AlterConfigs |-> AlterConfigsVersions,
   DescribeConfigs |-> DescribeConfigsVersions,
   DescribeLogDirs |-> DescribeLogDirsVersions,
   SaslAuthenticate |-> SaslAuthenticateVersions,
   CreatePartitions |-> CreatePartitionsVersions,
   DeleteGroups |-> DeleteGroupsVersions,
   DescribeClientQuotas |-> DescribeClientQuotasVersions,
   AlterPartitionReassignments |-> AlterPartitionReassignmentsVersions,
   ListPartitionReassignments |-> ListPartitionReassignmentsVersions,
   ElectLeaders |-> ElectLeadersVersions,
   JoinGroup |-> JoinGroupVersions, SyncGroup |-> SyncGroupVersions,
   Heartbeat |-> HeartbeatVersions, LeaveGroup |-> LeaveGroupVersions]

ASSUME Apis \subseteq DOMAIN Registry

\* The max_version each caller passes to api_version(): the KafkaAdminClient
\* call sites; lists used only outside src/ (the group coordinator, SASL,
\* reassignments, quotas) are taken to ask for their newest class.
ClientMaxVersion(a) ==
  LET admin == [CreateTopics |-> 3, DeleteTopics |-> 3, DeleteRecords |-> 0,
                ListGroups |-> 2, DescribeGroups |-> 3, DescribeAcls |-> 1,
                CreateAcls |-> 1, DeleteAcls |-> 1, AlterConfigs |-> 1,
                DescribeConfigs |-> 2, DescribeLogDirs |-> 0,
                CreatePartitions |-> 1, DeleteGroups |-> 1, ElectLeaders |-> 1]
  IN IF a \in DOMAIN admin THEN admin[a] ELSE Len(Registry[a].req) - 1

-----------------------------------------------------------------------------
(* One request's round trip.                                               *)

VARIABLES
  api,       \* the version list the caller uses
  lo, hi,    \* the broker's supported version range for its API key
  pc,        \* "idle", "built", "sent", "replied", "done",
             \* "incompatible" (IncompatibleBrokerVersion), "rejected"
  version,   \* the version api_version() returned
  req,       \* the Request class instantiated, Request[version]
  header,    \* [key, ver] of the encoded request header
  brokerReq, \* the request schema the broker decodes the body with
  brokerRsp, \* the response schema the broker encodes its reply with
  decoded    \* the Response class the client decodes the reply with

vars == <<api, lo, hi, pc, version, req, header, brokerReq, brokerRsp, decoded>>

\* KafkaClient.api_version(operation, max_version): the largest version
\* both the caller's list and the broker support.
NegotiatedVersion ==
  LET m == IF ClientMaxVersion(api) < Len(Registry[api].req) - 1
           THEN ClientMaxVersion(api) ELSE Len(Registry[api].req) - 1
  IN IF m < hi THEN m ELSE hi

\* The broker's range does not meet the client's: IncompatibleBrokerVersion.
NegotiateIncompatible ==
  /\ pc = "idle" /\ NegotiatedVersion < lo
  /\ pc' = "incompatible"
  /\ UNCHANGED <<api, lo, hi, version, req, header, brokerReq, brokerRsp, decoded>>

\* `version = self._client.api_version(X, max_version=N)` and
\* `request = X[version](...)`.
BuildRequest ==
  /\ pc = "idle" /\ NegotiatedVersion >= lo
  /\ version' = NegotiatedVersion
  /\ req' = Registry[api].req[NegotiatedVersion + 1]
  /\ pc' = "built"
  /\ UNCHANGED <<api, lo, hi, header, brokerReq, brokerRsp, decoded>>

\* send_request: the header is the class's API_KEY and API_VERSION, the body
\* is encoded with its SCHEMA.
Send ==
  /\ pc = "built"
  /\ header' = [key |-> req.key, ver |-> req.ver]
  /\ pc' = "sent"
  /\ UNCHANGED <<api, lo, hi, version, req, brokerReq, brokerRsp, decoded>>

\* The broker refuses a header version outside its range.
BrokerReject ==
  /\ pc = "sent" /\ header.ver \notin lo..hi
  /\ pc' = "rejected"
  /\ UNCHANGED <<api, lo, hi, version, req, header, brokerReq, brokerRsp, decoded>>

\* The broker decodes the body with the request schema of the header's
\* version and answers with the response schema of that version (the
\* Request_vN and Response_vN classes of the API).
BrokerAccept ==
  /\ pc = "sent" /\ header.ver \in lo..hi
  /\ brokerReq' = Registry[api].req[header.ver + 1].schema
  /\ brokerRsp' = Registry[api].rsp[header.ver + 1].schema
  /\ pc' = "replied"
  /\ UNCHANGED <<api, lo, hi, version, req, header, decoded>>

\* Mutant: the reply is decoded with the Response list's entry for the
\* negotiated version instead of RESPONSE_TYPE.
ClientDecodeFromList ==
  /\ pc = "replied"
  /\ decoded' = Registry[api].rspList[version + 1]
  /\ pc' = "done"
  /\ UNCHANGED <<api, lo, hi, version, req, header, brokerReq, brokerRsp>>

\* The client decodes the reply with request.RESPONSE_TYPE.
ClientDecode ==
  /\ pc = "replied"
  /\ decoded' = req.resp
  /\ pc' = "done"
  /\ UNCHANGED <<api, lo, hi, version, req, header, brokerReq, brokerRsp>>

Init ==
  /\ api \in Apis
  /\ lo \in 0..MaxBrokerVersion /\ hi \in lo..MaxBrokerVersion
  /\ pc = "idle" /\ version = 0
  /\ req = Registry[api].req[1]
  /\ header = [key |-> 0, ver |-> 0]
  /\ brokerReq = 0 /\ brokerRsp = 0
  /\ decoded = Registry[api].rsp[1]

Next ==
  \/ NegotiateIncompatible \/ BuildRequest \/ Send
  \/ BrokerReject \/ BrokerAccept \/ ClientDecode

Spec == Init /\ [][Next]_vars

-----------------------------------------------------------------------------
(* Properties                                                              *)

ResponseClass == [dir : {"Response"}, key : Nat, ver : Nat, schema : Nat]
RequestClass == [dir : {"Request"}, key : Nat, ver : Nat, schema : Nat,
                 resp : ResponseClass]

TypeOK ==
  /\ api \in Apis
  /\ lo \in 0..MaxBrokerVersion /\ hi \in 0..MaxBrokerVersion
  /\ pc \in {"idle", "built", "sent", "replied", "done", "incompatible",
             "rejected"}
  /\ version \in 0..MaxBrokerVersion
  /\ req \in RequestClass /\ decoded \in ResponseClass
  /\ header \in [key : Nat, ver : Nat]
  /\ brokerReq \in Nat /\ brokerRsp \in Nat

\* Whatever version api_version() negotiates, the broker decodes the request
\* body with the schema the client encoded it with, and the client decodes
\* the reply, a Response of the same API key, with the schema the broker
\* encoded it with: the class attributes API_VERSION, SCHEMA and
\* RESPONSE_TYPE of every list entry agree on the wire.
WireAgreement ==
  /\ pc \in {"replied", "done"} => brokerReq = req.schema
  /\ pc = "done" =>
       /\ decoded.dir = "Response" /\ decoded.key = header.key
       /\ decoded.schema = brokerRsp

\* A broker never refuses a request for its version when api_version()
\* chose that version from the broker's own range.
NegotiatedRequestAccepted == pc # "rejected"

=============================================================================
