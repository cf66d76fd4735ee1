--------------------------- MODULE AclConfigAdmin ---------------------------
(***************************************************************************)
(* The ACL and config calls of KafkaAdminClient (src/kafka/admin/client.py): *)
(* describe_acls, create_acls, delete_acls, describe_configs and           *)
(* alter_configs.  Each builds its request(s) from its arguments, sends    *)
(* them with send_request (one request to least_loaded_node()) or, for     *)
(* describe_configs, send_requests (one request per BROKER resource to the *)
(* broker it names, the other resources together to least_loaded_node()), *)
(* and turns the response(s) into its result by position.  A request may   *)
(* fail before or after its broker acted.  ACLs are model values, an ACL   *)
(* filter is the set of ACLs it matches, and a resource's configuration is *)
(* one value.                                                              *)
(***************************************************************************)
EXTENDS Naturals, Sequences, FiniteSets, SequencesExt

CONSTANTS
  Brokers,      \* broker node ids
  Acls,         \* ACL bindings a caller may name
  Refused,      \* ACLs a broker refuses to create (e.g. an invalid pattern)
  Topics,       \* topic names of TOPIC config resources
  Vals,         \* configuration values
  BadName,      \* a BROKER resource name that is not an integer
  None,         \* node_id=None (least_loaded_node) and "no value"
  MaxLen,       \* longest argument list a caller passes
  MaxFailures   \* bound on failed requests

ASSUME Refused \subseteq Acls /\ BadName \notin Brokers /\ None \notin Brokers

\* Error codes the model tells apart.
NoError == 0
InvalidRequest == 42
SecurityDisabled == 54

BrokerRes == [type : {"BROKER"}, name : Brokers]
TopicRes == [type : {"TOPIC"}, name : Topics]
Resources == BrokerRes \cup TopicRes
\* ConfigResource arguments: a BROKER name may fail to parse as an integer.
ResourceArgs == Resources \cup [type : {"BROKER"}, name : {BadName}]
Filters == SUBSET Acls

Lists(S) == UNION {[1..n -> S] : n \in 1..MaxLen}

VARIABLES
  \* the cluster
  acls,       \* ACL bindings the authorizer holds
  conf,       \* conf[r]: the configuration of resource r
  failures,
  \* the call
  pc,         \* "idle", "wait", "done"
  op, arg,    \* the call and its list argument
  futures,    \* the requests sent: [api, body, node, status, value]
  outcome,    \* [kind, err, value] once the call returned or raised
  \* history
  acls0       \* the ACLs when the call began

cluster == <<acls, conf, failures>>
call == <<pc, op, arg, futures, outcome>>
vars == <<cluster, call, acls0>>

Req(api, body, n) ==
  [api |-> api, body |-> body, node |-> n, status |-> "pending", value |-> None]

Returned(v) == [kind |-> "ok", err |-> NoError, value |-> v]
Raised(e) == [kind |-> "raise", err |-> e, value |-> None]
FutureFailed == [kind |-> "future_failed", err |-> None, value |-> None]
\* An exception the client raises before sending anything.
ClientError(k) == [kind |-> k, err |-> None, value |-> None]

-----------------------------------------------------------------------------
(* The client.                                                             *)

\* A call whose requests go out with send_request / send_requests; a node
\* of None is replaced by least_loaded_node(), any broker.
Send(o, a, rs) ==
  /\ pc = "idle"
  /\ \E ll \in Brokers :
       futures' = [i \in DOMAIN rs |->
                     IF rs[i].node = None THEN [rs[i] EXCEPT !.node = ll]
                     ELSE rs[i]]
  /\ op' = o /\ arg' = a /\ acls0' = acls
  /\ pc' = IF rs = <<>> THEN "done" ELSE "wait"
  /\ outcome' = IF rs = <<>> THEN Returned(<<>>) ELSE None
  /\ UNCHANGED cluster

\* describe_acls(acl_filter): one DescribeAclsRequest.
DescribeAcls(f) == Send("describe_acls", <<f>>, <<Req("DescribeAcls", f, None)>>)

\* create_acls(acls): one CreateAclsRequest with a creation per ACL.
CreateAcls(as) == Send("create_acls", as, <<Req("CreateAcls", as, None)>>)

\* delete_acls(acl_filters): one DeleteAclsRequest with a filter per input.
DeleteAcls(fs) == Send("delete_acls", fs, <<Req("DeleteAcls", fs, None)>>)

\* alter_configs: every resource in one AlterConfigsRequest to
\* least_loaded_node(), BROKER resources included (the TODO in the code).
AlterConfigs(cs) == Send("alter_configs", cs, <<Req("AlterConfigs", cs, None)>>)

\* describe_configs' requests: one per BROKER resource, in input order, to
\* node int(name); then the other resources in one request to None.
BrokerSeq(rs) == SelectSeq(rs, LAMBDA r : r.type = "BROKER")
TopicSeq(rs) == SelectSeq(rs, LAMBDA r : r.type # "BROKER")

\* Mutant: BROKER resources are sent to least_loaded_node() like the others.
ConfigRequestsAnyNode(rs) ==
  LET B == BrokerSeq(rs) IN
  [i \in DOMAIN B |-> Req("DescribeConfigs", <<B[i]>>, None)]
  \o (IF TopicSeq(rs) = <<>> THEN <<>>
      ELSE <<Req("DescribeConfigs", TopicSeq(rs), None)>>)

ConfigRequests(rs) ==
  LET B == BrokerSeq(rs) IN
  [i \in DOMAIN B |-> Req("DescribeConfigs", <<B[i]>>, B[i].name)]
  \o (IF TopicSeq(rs) = <<>> THEN <<>>
      ELSE <<Req("DescribeConfigs", TopicSeq(rs), None)>>)

\* Mutant: the int() check of BROKER names is dropped.
DescribeConfigsUnparsed(rs, syn, v) ==
  IF syn /\ v = 0
  THEN /\ pc = "idle" /\ op' = "describe_configs" /\ arg' = rs
       /\ outcome' = ClientError("IncompatibleBrokerVersion") /\ pc' = "done"
       /\ UNCHANGED <<cluster, futures, acls0>>
  ELSE Send("describe_configs", rs, ConfigRequests(rs))

\* describe_configs(config_resources, include_synonyms=syn) with
\* DescribeConfigs version v negotiated: include_synonyms on v0 raises,
\* then a BROKER name that is not an integer raises ValueError; both before
\* any request is sent.
DescribeConfigs(rs, syn, v) ==
  IF (syn /\ v = 0) \/ \E i \in DOMAIN rs : rs[i].name = BadName
  THEN /\ pc = "idle" /\ op' = "describe_configs" /\ arg' = rs
       /\ outcome' = ClientError(IF syn /\ v = 0 THEN "IncompatibleBrokerVersion"
                                 ELSE "ValueError")
       /\ pc' = "done"
       /\ UNCHANGED <<cluster, futures, acls0>>
  ELSE Send("describe_configs", rs, ConfigRequests(rs))

AllSucceeded == \A i \in DOMAIN futures : futures[i].status = "succeeded"

\* _wait_for_futures raises the exception of a failed future.
WaitForFuturesRaises ==
  /\ pc = "wait"
  /\ \E i \in DOMAIN futures : futures[i].status = "failed"
  /\ outcome' = FutureFailed /\ pc' = "done"
  /\ UNCHANGED <<cluster, op, arg, futures, acls0>>

\* The first components of the pairs in ps.
Firsts(ps) == [i \in DOMAIN ps |-> ps[i][1]]

\* Mutant: the creation results are paired with the ACLs in reverse.
CreateResultReversed(as, codes) ==
  LET pairs == [i \in DOMAIN codes |-> <<as[Len(as) + 1 - i], codes[i]>>]
  IN [succeeded |-> Firsts(SelectSeq(pairs, LAMBDA p : p[2] = NoError)),
      failed |-> SelectSeq(pairs, LAMBDA p : p[2] # NoError)]

\* _convert_create_acls_response_to_acls: creation_responses[i] is taken as
\* the result of acls[i]: the ACLs with code 0 succeeded, the others failed.
CreateResult(as, codes) ==
  LET pairs == [i \in DOMAIN codes |-> <<as[i], codes[i]>>]
  IN [succeeded |-> Firsts(SelectSeq(pairs, LAMBDA p : p[2] = NoError)),
      failed |-> SelectSeq(pairs, LAMBDA p : p[2] # NoError)]

\* Mutant: the filter results are paired with the filters in reverse.
DeleteResultReversed(fs, rs) ==
  [i \in DOMAIN rs |-> <<fs[Len(fs) + 1 - i], rs[i].acls, rs[i].err>>]

\* _convert_delete_acls_response_to_matching_acls: filter_responses[i] is
\* taken as the result of acl_filters[i]: (filter, matching ACLs, error).
DeleteResult(fs, rs) == [i \in DOMAIN rs |-> <<fs[i], rs[i].acls, rs[i].err>>]

\* The value the call returns, or the error it raises, once every future
\* succeeded: describe_acls raises a non-zero top-level error_code;
\* create_acls and delete_acls convert the response; describe_configs
\* returns the responses in request order, alter_configs the response.
Result(o, a, vs) ==
  CASE o = "describe_acls" ->
         IF vs[1].err # NoError THEN Raised(vs[1].err)
         ELSE Returned(vs[1].acls)
    [] o = "create_acls" -> Returned(CreateResult(a, vs[1]))
    [] o = "delete_acls" -> Returned(DeleteResult(a, vs[1]))
    [] o = "describe_configs" -> Returned(vs)
    [] o = "alter_configs" -> Returned(vs[1])

CallDone ==
  /\ pc = "wait" /\ AllSucceeded
  /\ outcome' = Result(op, arg, [i \in DOMAIN futures |-> futures[i].value])
  /\ pc' = "done"
  /\ UNCHANGED <<cluster, op, arg, futures, acls0>>

-----------------------------------------------------------------------------
(* The brokers.                                                            *)

\* A BROKER resource naming another broker than the one asked.
Foreign(r, n) == r.type = "BROKER" /\ r.name # n

\* The answer of broker n to a request with body b (e as in Respond), the
\* ACLs after it and the configuration after it.  The authorizer reports a
\* deleted binding under the first filter that matches it.
Answer(api, b, n, e) ==
  CASE api = "DescribeAcls" ->
         [err |-> e, acls |-> IF e = NoError THEN acls \cap b ELSE {}]
    [] api = "CreateAcls" ->
         [i \in DOMAIN b |-> IF b[i] \in Refused THEN InvalidRequest
                             ELSE NoError]
    [] api = "DeleteAcls" ->
         [i \in DOMAIN b |->
            [err |-> NoError,
             acls |-> {x \in acls \cap b[i] : \A j \in 1..i-1 : x \notin b[j]}]]
    [] api = "DescribeConfigs" ->
         [i \in DOMAIN b |->
            IF Foreign(b[i], n)
            THEN [res |-> b[i], err |-> InvalidRequest, val |-> None]
            ELSE [res |-> b[i], err |-> NoError, val |-> conf[b[i]]]]
    [] api = "AlterConfigs" ->
         [i \in DOMAIN b |-> IF Foreign(b[i].res, n) THEN e ELSE NoError]

AclsAfter(api, b) ==
  CASE api = "CreateAcls" -> acls \cup (ToSet(b) \ Refused)
    [] api = "DeleteAcls" -> acls \ UNION ToSet(b)
    [] OTHER -> acls

ConfAfter(api, b, n, e) ==
  IF api # "AlterConfigs" THEN conf
  ELSE [r \in Resources |->
          IF \E i \in DOMAIN b : b[i].res = r /\ (e = NoError \/ ~Foreign(r, n))
          THEN (CHOOSE c \in ToSet(b) : c.res = r).val
          ELSE conf[r]]

\* Broker futures[i].node handles request i; its answer arrives, or (lost)
\* the connection fails after it acted.  e is DescribeAcls' top-level error
\* (SECURITY_DISABLED without an authorizer) and, for AlterConfigs, the
\* code the broker gives a BROKER resource of another broker (NoError: it
\* applies it).
Respond(i, e, lost) ==
  LET f == futures[i] IN
  /\ f.status = "pending"
  /\ lost => failures < MaxFailures
  /\ acls' = AclsAfter(f.api, f.body)
  /\ conf' = ConfAfter(f.api, f.body, f.node, e)
  /\ futures' = [futures EXCEPT ![i].status = IF lost THEN "failed"
                                              ELSE "succeeded",
                                ![i].value = Answer(f.api, f.body, f.node, e)]
  /\ failures' = IF lost THEN failures + 1 ELSE failures
  /\ UNCHANGED <<pc, op, arg, outcome, acls0>>

\* A request fails before reaching its broker.
RequestFails(i) ==
  /\ futures[i].status = "pending" /\ failures < MaxFailures
  /\ futures' = [futures EXCEPT ![i].status = "failed"]
  /\ failures' = failures + 1
  /\ UNCHANGED <<acls, conf, pc, op, arg, outcome, acls0>>

-----------------------------------------------------------------------------
(* Properties.                                                             *)

Ops == {"describe_acls", "create_acls", "delete_acls", "describe_configs",
        "alter_configs"}
APIs == {"DescribeAcls", "CreateAcls", "DeleteAcls", "DescribeConfigs",
         "AlterConfigs"}

TypeOK ==
  /\ acls \subseteq Acls /\ conf \in [Resources -> Vals]
  /\ failures \in 0..MaxFailures
  /\ pc \in {"idle", "wait", "done"} /\ op \in Ops \cup {None}
  /\ \A i \in DOMAIN futures :
       /\ futures[i].api \in APIs /\ futures[i].node \in Brokers
       /\ futures[i].status \in {"pending", "succeeded", "failed"}
  /\ acls0 \subseteq Acls

\* create_acls reports as succeeded only ACLs the authorizer now holds and
\* as failed none that this call created (creation_responses[i] is read as
\* the result of acls[i]); describe_acls returns exactly the held ACLs its
\* filter matches, and raises when the broker reports an error.
AclResultsMatchCluster ==
  outcome # None /\ outcome.kind = "ok" =>
    /\ op = "create_acls" =>
         /\ ToSet(outcome.value.succeeded) \subseteq acls
         /\ \A i \in DOMAIN outcome.value.failed :
              outcome.value.failed[i][1] \notin acls \ acls0
    /\ op = "describe_acls" => outcome.value = acls \cap arg[1]

\* delete_acls returns one entry per filter, every ACL the call removed is
\* reported exactly once, and always together with a filter that matches
\* it (filter_responses[i] is read as the result of acl_filters[i]).
DeleteAclsReportsRemoved ==
  op = "delete_acls" /\ outcome # None /\ outcome.kind = "ok" =>
    LET v == outcome.value IN
    /\ Len(v) = Len(arg)
    /\ \A i \in DOMAIN v : v[i][2] \subseteq v[i][1]
    /\ UNION {v[i][2] : i \in DOMAIN v} = acls0 \ acls
    /\ \A i, j \in DOMAIN v : i # j => v[i][2] \cap v[j][2] = {}

\* describe_configs returns one response per BROKER resource, in input
\* order, each describing that resource without error (so answered by the
\* broker it names), then one response for all the other resources.
DescribeConfigsRouted ==
  op = "describe_configs" /\ outcome # None /\ outcome.kind = "ok" =>
    LET v == outcome.value
        B == BrokerSeq(arg)
        T == TopicSeq(arg)
        Described(r) == [res |-> r, err |-> NoError, val |-> conf[r]]
    IN /\ Len(v) = Len(B) + (IF T = <<>> THEN 0 ELSE 1)
       /\ \A i \in DOMAIN B : v[i] = <<Described(B[i])>>
       /\ T # <<>> => v[Len(v)] = [k \in DOMAIN T |-> Described(T[k])]

-----------------------------------------------------------------------------

Init ==
  /\ acls \in SUBSET Acls /\ conf \in [Resources -> Vals] /\ failures = 0
  /\ pc = "idle" /\ op = None /\ arg = <<>> /\ futures = <<>>
  /\ outcome = None /\ acls0 = {}

\* AlterConfigs arguments: each resource once.
Alterations ==
  {cs \in Lists([res : Resources, val : Vals]) :
     \A i, j \in DOMAIN cs : i # j => cs[i].res # cs[j].res}

ClientNext ==
  \/ \E f \in Filters : DescribeAcls(f)
  \/ \E as \in Lists(Acls) : CreateAcls(as)
  \/ \E fs \in Lists(Filters) : DeleteAcls(fs)
  \/ \E rs \in Lists(ResourceArgs) \cup {<<>>}, syn \in BOOLEAN, v \in {0, 1} :
       DescribeConfigs(rs, syn, v)
  \/ \E cs \in Alterations : AlterConfigs(cs)
  \/ CallDone \/ WaitForFuturesRaises

BrokerNext ==
  \E i \in DOMAIN futures :
    \/ \E e \in {NoError, SecurityDisabled, InvalidRequest}, lost \in BOOLEAN :
         /\ e = SecurityDisabled => futures[i].api = "DescribeAcls"
         /\ e = InvalidRequest => futures[i].api = "AlterConfigs"
         /\ Respond(i, e, lost)
    \/ RequestFails(i)

Next == ClientNext \/ BrokerNext

Spec == Init /\ [][Next]_vars

=============================================================================
