--------------------------- MODULE ControllerCall ---------------------------
(***************************************************************************)
(* What a controller-bound admin call of KafkaAdminClient promises         *)
(* (spec.md section 4.2 and the state machine of section 4.3), with the   *)
(* routing hidden: the client is constructed or fails; then each call      *)
(* (create_topics, delete_topics, create_partitions,                       *)
(* perform_leader_election) is acted on by the controller at most once,    *)
(* atomically, and returns an outcome that reports that action: the        *)
(* controller's answer, or a failure to reach or hear from it.  Which      *)
(* broker was asked, refreshes and resends are not visible here.           *)
(***************************************************************************)
EXTENDS Naturals

CONSTANTS Topics, MaxCalls

OpKinds == {"CreateTopics", "DeleteTopics", "CreatePartitions", "ElectLeaders"}

\* Errors of the controller-discovery path (construction or a refresh
\* inside a call) and of the transport.
RefreshErrors == {"UnrecognizedBrokerVersion", "NodeNotReady",
                  "IncompatibleBrokerVersion"}

VARIABLES
  topics,   \* topics that exist
  phase,    \* "init", "failed", "ready", "busy"
  call,     \* the call in progress: [kind, topics]
  calls,    \* calls issued
  effect,   \* the controller's answer to the current call, or "none"
  outcome   \* how the last call (or the construction) ended

avars == <<topics, phase, call, calls, effect, outcome>>

\* The controller's answers to kind k on the topics ts, and the topics
\* after it.  An election over no topic has nothing to report.
Answers(k, ts) ==
  CASE k = "CreateTopics" ->
         IF ts \cap topics # {} THEN {"TopicAlreadyExists"} ELSE {"NoError"}
    [] k \in {"DeleteTopics", "CreatePartitions"} ->
         IF ts \subseteq topics THEN {"NoError"} ELSE {"UnknownTopicOrPartition"}
    [] k = "ElectLeaders" ->
         CASE ts = {} -> {"NoError"}
           [] ts \subseteq topics -> {"NoError", "ElectionNotNeeded"}
           [] OTHER -> {"UnknownTopicOrPartition"}

After(k, ts, e) ==
  CASE e # "NoError"      -> topics
    [] k = "CreateTopics" -> topics \cup ts
    [] k = "DeleteTopics" -> topics \ ts
    [] OTHER              -> topics

\* How an answer is reported: ElectionNotNeeded counts as success.
Reported(k, e) ==
  IF e = "NoError" \/ (k = "ElectLeaders" /\ e = "ElectionNotNeeded")
  THEN "ok" ELSE e

Construct ==
  /\ phase = "init" /\ phase' = "ready"
  /\ UNCHANGED <<topics, call, calls, effect, outcome>>

ConstructFails(o) ==
  /\ phase = "init" /\ phase' = "failed" /\ outcome' = o
  /\ UNCHANGED <<topics, call, calls, effect>>

Begin(k, ts) ==
  /\ phase = "ready" /\ calls < MaxCalls
  /\ phase' = "busy" /\ call' = [kind |-> k, topics |-> ts]
  /\ calls' = calls + 1 /\ effect' = "none" /\ outcome' = "none"
  /\ UNCHANGED topics

\* The controller acts on the call: once.
Process(e) ==
  /\ phase = "busy" /\ effect = "none"
  /\ e \in Answers(call.kind, call.topics)
  /\ effect' = e /\ topics' = After(call.kind, call.topics, e)
  /\ UNCHANGED <<phase, call, calls, outcome>>

\* The call returns: the answer of the controller if it acted and the
\* answer came back; NotController or a discovery error only if it did
\* not act; a transport failure either way.
Return(o) ==
  /\ phase = "busy" /\ phase' = "ready" /\ outcome' = o
  /\ \/ effect # "none" /\ o = Reported(call.kind, effect)
     \/ effect = "none" /\ o \in {"NotController"} \cup RefreshErrors
     \/ o = "RequestFailed"
  /\ UNCHANGED <<topics, call, calls, effect>>

\* Between calls, a broker may create topics that a Metadata request named
\* (auto.create.topics.enable): the client's metadata reads are not
\* controller calls, yet they may add topics.
CreatedOutside(ts) ==
  /\ phase = "ready" /\ topics' = topics \cup ts
  /\ UNCHANGED <<phase, call, calls, effect, outcome>>

Init ==
  /\ topics \in SUBSET Topics
  /\ phase = "init" /\ call = "none" /\ calls = 0
  /\ effect = "none" /\ outcome = "none"

Next ==
  \/ Construct
  \/ \E o \in RefreshErrors \cup {"RequestFailed"} : ConstructFails(o)
  \/ \E k \in OpKinds, ts \in SUBSET Topics : Begin(k, ts)
  \/ \E ts \in SUBSET Topics : CreatedOutside(ts)
  \/ \E e \in {"NoError", "TopicAlreadyExists", "UnknownTopicOrPartition",
               "ElectionNotNeeded"} : Process(e)
  \/ \E o \in {"ok", "NotController", "TopicAlreadyExists",
               "UnknownTopicOrPartition", "RequestFailed"} \cup RefreshErrors :
       Return(o)

\* Construction ends and every call returns; the controller need not act.
Spec ==
  /\ Init /\ [][Next]_avars
  /\ WF_avars(Construct \/ \E o \in RefreshErrors \cup {"RequestFailed"} :
                              ConstructFails(o))
  /\ WF_avars(\E o \in {"ok", "NotController", "TopicAlreadyExists",
                        "UnknownTopicOrPartition", "RequestFailed"}
                       \cup RefreshErrors : Return(o))

=============================================================================
