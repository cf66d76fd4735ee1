--------------------------- MODULE AdminController ---------------------------
(***************************************************************************)
(* The controller-bound request path of KafkaAdminClient                   *)
(* (src/kafka/admin/client.py):                                            *)
(*   __init__ -> _refresh_controller_id                                    *)
(*   create_topics / delete_topics / perform_leader_election               *)
(*     -> _send_request_to_controller -> send_request                      *)
(*     -> _parse_topic_request_response                                    *)
(*      | _parse_topic_partition_request_response                          *)
(*     -> (on NotControllerError) _refresh_controller_id and resend;       *)
(*   list_topics / describe_topics / describe_cluster                      *)
(*     -> _get_cluster_metadata -> send_request, and describe_log_dirs     *)
(*     -> send_request, to least_loaded_node().                            *)
(*                                                                         *)
(* The client is one caller thread.  The cluster around it is an           *)
(* environment: the controller may move or be absent during an election,   *)
(* and every broker answers Metadata from its own, possibly stale, view    *)
(* of who the controller is.  A request in flight is either answered by    *)
(* its broker or its future fails (disconnect, request timeout), before or *)
(* after the broker acted on it.  The KafkaClient keeps its own view of    *)
(* the cluster's topics, refreshed while it polls; perform_leader_election *)
(* without topic_partitions elects the topics of that view.  A broker      *)
(* answering Metadata below v4 may create the topics the request names.   *)
(***************************************************************************)
EXTENDS Naturals, FiniteSets

CONSTANTS
  Brokers,        \* broker node ids
  OldBrokers,     \* brokers whose check_version() is < (0, 10, 0)
  Topics,         \* topic names an admin call may name
  NoController,   \* controller_id -1 in a MetadataResponse
  None,           \* no request in flight / no reply yet
  TopLevelErrors, \* top-level error_codes an ElectLeadersResponse may carry
                  \* with an empty replication_election_results
  MaxMoves,       \* bound on controller changes in the cluster
  MaxCalls,       \* bound on admin calls the caller issues, reads included
  MaxPolls,       \* refresh iterations before time.time() passes timeout_at
  AutoCreate      \* the brokers' auto.create.topics.enable

ASSUME OldBrokers \subseteq Brokers
ASSUME NoController \notin Brokers
ASSUME MaxMoves \in Nat /\ MaxCalls \in Nat /\ MaxPolls \in Nat \ {0}
ASSUME AutoCreate \in BOOLEAN

\* The four controller-bound operations, and the error codes the
\* broker can put in their per-topic / per-partition error lists.
OpKinds == {"CreateTopics", "DeleteTopics", "CreatePartitions", "ElectLeaders"}
Replies == {"NoError", "NotController", "TopicAlreadyExists",
            "UnknownTopicOrPartition", "ElectionNotNeeded"}
\* What a finished call ended with: a returned response or a raised error.
Outcomes == {"ok", "NotController", "TopicAlreadyExists",
             "UnknownTopicOrPartition", "RequestFailed", "NodeNotReady",
             "UnrecognizedBrokerVersion", "IncompatibleBrokerVersion"}
\* api_version(MetadataRequest, max_version=8): none with a controller_id,
\* one without allow_auto_topic_creation, the newest.
MetadataVersions == {0, 2, 8}

VARIABLES
  \* cluster
  controller,   \* the actual controller, or NoController
  view,         \* view[b]: the controller_id broker b reports in Metadata
  topics,       \* topics that exist
  moves,        \* controller changes so far
  mdVersion,    \* api_version(MetadataRequest, max_version=8)
  \* client
  cached,       \* self._controller_id (None until the first refresh succeeds)
  pc,           \* control point of the caller thread
  ret,          \* where _refresh_controller_id returns to: "init" | "op"
  tries,        \* `tries` of _send_request_to_controller
  polls,        \* iterations of the refresh loop since timeout_at was set
  inflight,     \* the request whose future send_request waits on, or None
  call,         \* the admin call in progress: [kind, topic]
  outcome,      \* how the last call ended
  lastReply,    \* the response the last call's parser looked at
  calls,        \* admin calls issued
  \* per-call history, for the properties
  applied,      \* times the real controller acted on the current call
  effect,       \* the real controller's answer to the current call, or None
  \* the KafkaClient's view and the metadata reads
  known,        \* self._client.cluster.topics()
  read,         \* the topics the read in progress names, None for all or none
  reads         \* metadata reads issued

cluster == <<controller, view, topics, moves, mdVersion>>
client  == <<cached, pc, ret, tries, polls, inflight, call, outcome, lastReply,
            calls>>
history == <<applied, effect>>
metadata == <<known, read, reads>>
vars    == <<cluster, client, history, metadata>>

Request == [type : {"Metadata", "Op", "Read"}, dest : Brokers,
            reply : Replies \cup TopLevelErrors \cup Brokers
                    \cup {NoController, None}]

TypeOK ==
  /\ controller \in Brokers \cup {NoController}
  /\ view \in [Brokers -> Brokers \cup {NoController}]
  /\ topics \in SUBSET Topics
  /\ moves \in 0..MaxMoves
  /\ mdVersion \in MetadataVersions
  /\ cached \in Brokers \cup {NoController, None}
  /\ pc \in {"refresh", "refresh_wait", "idle", "op", "op_wait",
             "read_wait", "failed", "bug"}
  /\ ret \in {"init", "op"}
  /\ tries \in Nat
  /\ polls \in 0..MaxPolls
  /\ inflight \in Request \cup {None}
  /\ call \in [kind : OpKinds, topics : SUBSET Topics] \cup {None}
  /\ outcome \in Outcomes \cup {None}
  /\ lastReply \in Replies \cup TopLevelErrors \cup {None}
  /\ calls \in 0..MaxCalls
  /\ applied \in Nat
  /\ effect \in Replies \cup {None}
  /\ known \in SUBSET Topics
  /\ read \in SUBSET Topics \cup {None}
  /\ reads \in 0..MaxCalls

-----------------------------------------------------------------------------
(* Control of _refresh_controller_id.                                      *)

\* Entering _refresh_controller_id: timeout_at = time.time() + 30 s.
EnterRefresh(r) ==
  /\ pc' = "refresh"
  /\ ret' = r
  /\ polls' = 0

\* The head of `while tries` in _send_request_to_controller: another turn,
\* or, with tries == 0, the RuntimeError "This should never happen" ("bug").
LoopHead == IF tries > 0 THEN "op" ELSE "bug"

\* _refresh_controller_id returns: to the constructor, or to the loop head
\* of the call whose parser refreshed.
ReturnFromRefresh == IF ret = "init" THEN "idle" ELSE LoopHead

\* Leaving the client call with an exception or a result.  An exception
\* raised by the constructor's refresh leaves no usable client.
Finish(o) ==
  /\ outcome' = o
  /\ pc' = IF ret = "init" /\ pc \in {"refresh", "refresh_wait"}
           THEN "failed" ELSE "idle"
  /\ inflight' = None

\* MetadataRequest_v0 has no controller_id: refuse before the loop.
RefreshUnrecognizedVersion ==
  /\ pc = "refresh" /\ polls = 0
  /\ mdVersion = 0
  /\ Finish("UnrecognizedBrokerVersion")
  /\ UNCHANGED <<metadata, cluster, cached, ret, tries, polls, call, lastReply, calls, history>>

\* `while time.time() < timeout_at` is false: NodeNotReadyError('controller').
RefreshTimeout ==
  /\ pc = "refresh" /\ polls = MaxPolls
  /\ Finish("NodeNotReady")
  /\ UNCHANGED <<metadata, cluster, cached, ret, tries, polls, call, lastReply, calls, history>>

\* Mutant: the loop condition is off by one (`<=` for `<`).
RefreshSendMetadataOffByOne(b) ==
  /\ pc = "refresh" /\ mdVersion # 0 /\ polls <= MaxPolls
  /\ inflight' = [type |-> "Metadata", dest |-> b, reply |-> None]
  /\ pc' = "refresh_wait"
  /\ UNCHANGED <<metadata, cluster, cached, ret, tries, polls, call, outcome, lastReply,
                 calls, history>>

\* send_request(MetadataRequest) to least_loaded_node(): any broker.
RefreshSendMetadata(b) ==
  /\ pc = "refresh" /\ mdVersion # 0 /\ polls < MaxPolls
  /\ inflight' = [type |-> "Metadata", dest |-> b, reply |-> None]
  /\ pc' = "refresh_wait"
  /\ UNCHANGED <<metadata, cluster, cached, ret, tries, polls, call, outcome, lastReply, calls,
                 history>>

\* The Metadata future succeeded: read controller_id.
\*   -1: sleep(1) and loop; a broker older than 0.10.0: raise;
\*   otherwise cache it and return to the caller of the refresh.
RefreshReceive ==
  /\ pc = "refresh_wait" /\ inflight # None /\ inflight.reply # None
  /\ LET cid == inflight.reply IN
     \/ /\ cid = NoController
        /\ polls' = polls + 1
        /\ pc' = "refresh" /\ inflight' = None
        /\ UNCHANGED <<cached, outcome>>
     \/ /\ cid \in OldBrokers
        /\ Finish("IncompatibleBrokerVersion")
        /\ UNCHANGED <<cached, polls>>
     \/ /\ cid \in Brokers \ OldBrokers
        /\ cached' = cid
        /\ pc' = ReturnFromRefresh
        /\ inflight' = None
        /\ UNCHANGED <<polls, outcome>>
  /\ UNCHANGED <<metadata, cluster, ret, tries, call, lastReply, calls, history>>

-----------------------------------------------------------------------------
(* An admin call routed to the controller.                                 *)

\* The request is built and _send_request_to_controller entered with
\* tries = 2 (argument conversion and the request's fields are abstracted).
StartCall(k, ts) ==
  /\ pc = "idle" /\ calls + reads < MaxCalls
  /\ call' = [kind |-> k, topics |-> ts]
  /\ calls' = calls + 1
  /\ tries' = 2
  /\ pc' = "op"
  /\ outcome' = None /\ lastReply' = None
  /\ applied' = 0 /\ effect' = None
  /\ UNCHANGED <<metadata, cluster, cached, ret, polls, inflight>>

\* create_topics([NewTopic(t, ...)]).
CreateTopics(t) == StartCall("CreateTopics", {t})

\* delete_topics([t]).
DeleteTopics(t) == StartCall("DeleteTopics", {t})

\* create_partitions({t: NewPartitions(...)}).
CreatePartitions(t) == StartCall("CreatePartitions", {t})

\* _get_topic_partitions: the caller's topic_partitions, or, for None,
\* _get_all_topic_partitions: every topic of self._client.cluster.
TopicPartitions(tp) == IF tp = None THEN known ELSE {tp}

\* perform_leader_election(election_type, topic_partitions): tp is a topic
\* {tp: [...]} or None.
PerformLeaderElection(tp) == StartCall("ElectLeaders", TopicPartitions(tp))

\* One turn of `while tries`: tries -= 1; send_request(request,
\* node_id=self._controller_id).
SendToController ==
  /\ pc = "op" /\ tries > 0
  /\ tries' = tries - 1
  /\ inflight' = [type |-> "Op", dest |-> cached, reply |-> None]
  /\ pc' = "op_wait"
  /\ UNCHANGED <<metadata, cluster, cached, ret, polls, call, outcome, lastReply, calls,
                 applied, effect>>

\* Mutant: NotControllerError is let through like ElectionNotNeededError.
SuccessRepliesWithNotController(k) ==
  IF k = "ElectLeaders" THEN {"NoError", "ElectionNotNeeded", "NotController"}
  ELSE {"NoError"}

\* The error types the parsers accept as success.
SuccessReplies(k) ==
  IF k = "ElectLeaders" THEN {"NoError", "ElectionNotNeeded"} ELSE {"NoError"}

\* The error code the parser acts on.  _parse_topic_partition_request_response
\* only walks replication_election_results: a response whose sole error is
\* the top-level error_code has no entries there and passes as success.
ErrorSeen(r) == IF r \in TopLevelErrors THEN "NoError" ELSE r

\* Mutant: the `tries and` guard on the NotControllerError branch is gone.
ParseResponseAlwaysRefreshes ==
  /\ pc = "op_wait" /\ inflight # None /\ inflight.reply # None
  /\ lastReply' = inflight.reply
  /\ LET e == ErrorSeen(inflight.reply) IN
     \/ /\ e \in SuccessReplies(call.kind)
        /\ Finish("ok")
        /\ UNCHANGED <<ret, polls>>
     \/ /\ e = "NotController"
        /\ EnterRefresh("op")
        /\ inflight' = None
        /\ UNCHANGED outcome
     \/ /\ e \notin SuccessReplies(call.kind) \cup {"NotController"}
        /\ Finish(e)
        /\ UNCHANGED <<ret, polls>>
  /\ UNCHANGED <<metadata, cluster, cached, tries, call, calls, applied, effect>>

\* Mutant: every error refreshes and resends while tries remain, not only
\* NotControllerError.
ParseResponseRetriesAnyError ==
  /\ pc = "op_wait" /\ inflight # None /\ inflight.reply # None
  /\ lastReply' = inflight.reply
  /\ LET e == ErrorSeen(inflight.reply) IN
     \/ /\ e \in SuccessReplies(call.kind)
        /\ Finish("ok")
        /\ UNCHANGED <<ret, polls>>
     \/ /\ tries # 0 /\ e \notin SuccessReplies(call.kind)
        /\ EnterRefresh("op")
        /\ inflight' = None
        /\ UNCHANGED outcome
     \/ /\ e \notin SuccessReplies(call.kind) /\ tries = 0
        /\ Finish(e)
        /\ UNCHANGED <<ret, polls>>
  /\ UNCHANGED <<metadata, cluster, cached, tries, call, calls, applied, effect>>

\* _parse_topic_request_response / _parse_topic_partition_request_response:
\* a NotControllerError while tries is non-zero refreshes the controller
\* and returns False (the loop resends); any other error is raised.
ParseResponse ==
  /\ pc = "op_wait" /\ inflight # None /\ inflight.reply # None
  /\ lastReply' = inflight.reply
  /\ LET e == ErrorSeen(inflight.reply) IN
     \/ /\ e \in SuccessReplies(call.kind)
        /\ Finish("ok")
        /\ UNCHANGED <<ret, polls>>
     \/ /\ tries # 0 /\ e = "NotController"
        /\ EnterRefresh("op")
        /\ inflight' = None
        /\ UNCHANGED outcome
     \/ /\ e \notin SuccessReplies(call.kind)
        /\ ~(tries # 0 /\ e = "NotController")
        /\ Finish(e)
        /\ UNCHANGED <<ret, polls>>
  /\ UNCHANGED <<metadata, cluster, cached, tries, call, calls, applied, effect>>

-----------------------------------------------------------------------------
(* The metadata reads: one send_request to least_loaded_node().            *)

\* _get_cluster_metadata(topics, auto_topic_creation=False) builds
\* MetadataRequest[v]: up to v3 it has no allow_auto_topic_creation and
\* the broker takes it as true; from v4 it carries auto_topic_creation,
\* False for every caller, so the raise for v <= 3 is never taken.
MetadataAutoCreate(v) == v <= 3

\* A read naming the topics ts (None: all topics, or a request that names
\* none) is built and sent (send_request without node_id) to any broker.
ReadCall(ts) ==
  /\ pc = "idle" /\ calls + reads < MaxCalls
  /\ \E b \in Brokers :
       inflight' = [type |-> "Read", dest |-> b, reply |-> None]
  /\ read' = ts /\ reads' = reads + 1
  /\ pc' = "read_wait"
  /\ UNCHANGED <<cluster, cached, ret, tries, polls, call, outcome, lastReply,
                 calls, history, known>>

\* list_topics: _get_cluster_metadata(topics=None).
ListTopics == ReadCall(None)

\* describe_topics(topics): ts names the topics, None for all of them.
DescribeTopics(ts) == ReadCall(ts)

\* describe_cluster: _get_cluster_metadata() without topics.
DescribeCluster == ReadCall(None)

\* describe_log_dirs: a DescribeLogDirsRequest, not a Metadata one.
DescribeLogDirs == ReadCall(None)

\* The read's future succeeded: _process_metadata_response and the call's
\* selection of topics, brokers or controller_id are returned as they
\* are; per-topic error codes of describe_topics are returned, not raised.
ReadReturns ==
  /\ pc = "read_wait" /\ inflight # None /\ inflight.reply # None
  /\ pc' = "idle" /\ inflight' = None /\ read' = None
  /\ UNCHANGED <<cluster, cached, ret, tries, polls, call, outcome, lastReply,
                 calls, history, known, reads>>

-----------------------------------------------------------------------------
(* Brokers and the network (the KafkaClient collaborator).                 *)

\* What the controller does with an admin request for the topics ts.
ControllerReplies(k, ts) ==
  CASE k = "CreateTopics" ->
         IF ts \cap topics # {} THEN {"TopicAlreadyExists"} ELSE {"NoError"}
    [] k \in {"DeleteTopics", "CreatePartitions"} ->
         IF ts \subseteq topics THEN {"NoError"} ELSE {"UnknownTopicOrPartition"}
    [] k = "ElectLeaders" ->
         CASE ts = {} -> {"NoError"}
           [] ts \subseteq topics -> {"NoError", "ElectionNotNeeded"}
           [] OTHER -> {"UnknownTopicOrPartition"}

TopicsAfter(k, ts, e) ==
  CASE e # "NoError"        -> topics
    [] k = "CreateTopics"   -> topics \cup ts
    [] k = "DeleteTopics"   -> topics \ ts
    [] OTHER                -> topics

\* Any broker may refuse an ElectLeaders request before it looks at who the
\* controller is (cluster authorization), answering with a top-level error
\* and an empty result list.
RefusedBeforeRouting(k) == IF k = "ElectLeaders" THEN TopLevelErrors ELSE {}

\* The topics a broker creates while answering the read in progress: those
\* a describe_topics Metadata request names, when it allows auto-creation.
AutoCreated ==
  IF read # None /\ AutoCreate /\ MetadataAutoCreate(mdVersion)
  THEN read ELSE {}

\* The destination broker handles the request and its answer is on the way.
BrokerHandle ==
  /\ inflight # None /\ inflight.reply = None
  /\ \/ /\ inflight.type = "Metadata"
        /\ inflight' = [inflight EXCEPT !.reply = view[inflight.dest]]
        /\ UNCHANGED <<topics, applied, effect>>
     \/ /\ inflight.type = "Read"
        /\ inflight' = [inflight EXCEPT !.reply = "NoError"]
        /\ topics' = topics \cup AutoCreated
        /\ UNCHANGED <<applied, effect>>
     \/ /\ inflight.type = "Op" /\ inflight.dest # controller
        /\ \E e \in {"NotController"} \cup RefusedBeforeRouting(call.kind) :
             inflight' = [inflight EXCEPT !.reply = e]
        /\ UNCHANGED <<topics, applied, effect>>
     \/ /\ inflight.type = "Op" /\ inflight.dest = controller
        /\ \E e \in ControllerReplies(call.kind, call.topics)
                   \cup RefusedBeforeRouting(call.kind) :
             /\ inflight' = [inflight EXCEPT !.reply = e]
             /\ topics' = TopicsAfter(call.kind, call.topics, e)
             /\ applied' = IF e \in TopLevelErrors THEN applied ELSE applied + 1
             /\ effect' = IF e \in TopLevelErrors THEN effect ELSE e
  /\ UNCHANGED <<metadata, controller, view, moves, mdVersion, cached, pc, ret, tries,
                 polls, call, outcome, lastReply, calls>>

\* The future fails (disconnect or request_timeout_ms), whether or not the
\* broker acted on the request: _wait_for_futures raises future.exception.
RequestFailed ==
  /\ inflight # None
  /\ pc \in {"refresh_wait", "op_wait"}
  /\ Finish("RequestFailed")
  /\ UNCHANGED <<metadata, cluster, cached, ret, tries, polls, call, lastReply, calls, history>>

\* A read's future fails: _wait_for_futures raises to the read's caller.
ReadFailed ==
  /\ pc = "read_wait" /\ inflight # None
  /\ pc' = "idle" /\ inflight' = None /\ read' = None
  /\ UNCHANGED <<cluster, cached, ret, tries, polls, call, outcome, lastReply,
                 calls, history, known, reads>>

\* The KafkaClient refreshes its cluster metadata inside the poll that
\* waits for a future (metadata_max_age_ms, or a request needing it).
ClusterViewRefresh ==
  /\ pc \in {"refresh_wait", "op_wait", "read_wait"}
  /\ known # topics
  /\ known' = topics
  /\ UNCHANGED <<cluster, client, history, read, reads>>

\* The controller moves to another broker, or is lost until an election.
ControllerMoves(c) ==
  /\ moves < MaxMoves /\ c # controller
  /\ controller' = c
  /\ moves' = moves + 1
  /\ UNCHANGED <<metadata, view, topics, mdVersion, client, history>>

\* Broker b's metadata cache catches up with the controller.
PropagateView(b) ==
  /\ view[b] # controller
  /\ view' = [view EXCEPT ![b] = controller]
  /\ UNCHANGED <<metadata, controller, topics, moves, mdVersion, client, history>>

-----------------------------------------------------------------------------

Init ==
  /\ controller \in Brokers
  /\ view = [b \in Brokers |-> controller]
  /\ topics \in SUBSET Topics
  /\ moves = 0
  /\ mdVersion \in MetadataVersions
  /\ cached = None
  /\ pc = "refresh" /\ ret = "init" /\ polls = 0   \* __init__'s refresh
  /\ tries = 0
  /\ inflight = None
  /\ call = None /\ outcome = None /\ lastReply = None /\ calls = 0
  /\ applied = 0 /\ effect = None
  /\ known = topics /\ read = None /\ reads = 0

ClientNext ==
  \/ RefreshUnrecognizedVersion
  \/ RefreshTimeout
  \/ \E b \in Brokers : RefreshSendMetadata(b)
  \/ RefreshReceive
  \/ \E t \in Topics : CreateTopics(t)
  \/ \E t \in Topics : DeleteTopics(t)
  \/ \E t \in Topics : CreatePartitions(t)
  \/ \E tp \in Topics \cup {None} : PerformLeaderElection(tp)
  \/ SendToController
  \/ ParseResponse
  \/ ListTopics
  \/ \E ts \in (SUBSET Topics \ {{}}) \cup {None} : DescribeTopics(ts)
  \/ DescribeCluster
  \/ DescribeLogDirs
  \/ ReadReturns

NetworkNext == BrokerHandle \/ RequestFailed \/ ReadFailed

ClusterNext ==
  \/ \E c \in (Brokers \cup {NoController}) : ControllerMoves(c)
  \/ \E b \in Brokers : PropagateView(b)
  \/ ClusterViewRefresh

Next == ClientNext \/ NetworkNext \/ ClusterNext

\* The caller thread is never starved, and the KafkaClient reactor completes
\* every future it polls (a response, or a failure at request_timeout_ms).
\* The cluster is given no fairness: an election may take arbitrarily long.
Fairness ==
  /\ WF_vars(ClientNext)
  /\ WF_vars(NetworkNext)

Spec == Init /\ [][Next]_vars /\ Fairness

-----------------------------------------------------------------------------
(* Properties                                                              *)

\* A call that returned a response was acted on by the real controller
\* exactly once, and a call that raised NotControllerError was never acted
\* on: the outcome _send_request_to_controller reports matches what the
\* cluster did, across a controller move, a stale Metadata answer and the
\* one resend.
OutcomeMatchesCluster ==
  pc = "idle" /\ call # None =>
    /\ outcome \in {"ok", "TopicAlreadyExists", "UnknownTopicOrPartition"}
         => applied = 1
    /\ outcome = "NotController" => applied = 0

\* The RuntimeError "This should never happen" at the end of
\* _send_request_to_controller is unreachable.
NeverExhaustsLoop == pc # "bug"

\* A call returns a response only if no level of it carries an error: the
\* error handling of spec section 7 ("a non-NoError error code from any
\* level of a response ... raise it"), applied to perform_leader_election.
ReturnsOnlyErrorFreeResponses ==
  pc = "idle" /\ outcome = "ok" => lastReply \in SuccessReplies(call.kind)

-----------------------------------------------------------------------------
(* Refinement: the routing, refresh and resend machinery implements the    *)
(* call contract of ControllerCall.                                        *)

\* The contract's phase of the client: constructing, unusable, between
\* calls, or inside a call (its refreshes included).
Phase ==
  CASE pc = "failed" -> "failed"
    [] pc \in {"idle", "read_wait"} -> "ready"
    [] ret = "init" /\ pc \in {"refresh", "refresh_wait"} -> "init"
    [] OTHER -> "busy"

NoneAs(x) == IF x = None THEN "none" ELSE x

Contract == INSTANCE ControllerCall WITH
  phase <- Phase, call <- NoneAs(call), effect <- NoneAs(effect),
  outcome <- NoneAs(outcome)

\* Seen from its caller, the client implements ControllerCall: the
\* controller acts on a call at most once, and the call returns what the
\* controller answered, or NotController / a refresh error only when the
\* controller did not act, or the transport failure; construction ends and
\* every call returns.
ImplementsControllerCall == Contract!Spec

=============================================================================
