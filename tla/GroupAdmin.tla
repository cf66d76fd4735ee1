----------------------------- MODULE GroupAdmin -----------------------------
(***************************************************************************)
(* The consumer-group operations of KafkaAdminClient                       *)
(* (src/kafka/admin/client.py): describe_consumer_groups,                  *)
(* delete_consumer_groups, list_consumer_groups and                        *)
(* list_consumer_group_offsets, with the helpers they share:               *)
(* _find_coordinator_ids, send_requests and _wait_for_futures.             *)
(*                                                                         *)
(* One call runs.  A group-routed call first sends one FindCoordinator per *)
(* group id (unless the caller names the coordinator), zips the answers    *)
(* back to the ids, then fans the group requests out to the coordinators.  *)
(* send_requests submits a batch of requests at once; the brokers answer   *)
(* them in any order, a request may fail (before or after its broker acted *)
(* on it), and coordinators move while the call runs.  Group descriptions, *)
(* offsets and error classes are abstracted to the fields the properties   *)
(* compare.                                                                *)
(***************************************************************************)
EXTENDS Naturals, Sequences, FiniteSets, SequencesExt

CONSTANTS
  Brokers,      \* broker node ids
  Groups,       \* consumer group ids
  None,         \* node_id=None (least_loaded_node) and "no value yet"
  MaxMoves,     \* bound on coordinator moves
  MaxFailures,  \* bound on failed requests
  MaxIds        \* longest group_ids list a caller passes

ASSUME None \notin Brokers

\* Error codes the model tells apart.
NoError == 0
CoordinatorNotAvailable == 15
NotCoordinator == 16
GroupIdNotFound == 69

Ops == {"describe", "delete", "list", "offsets"}

\* group_ids arguments: lists of 1..MaxIds ids, duplicates included.
GroupLists == UNION {[1..n -> Groups] : n \in 1..MaxIds}

VARIABLES
  \* the cluster
  exists,     \* groups that exist
  coord,      \* coord[g]: the broker coordinating g
  moves, failures,
  \* the call
  pc,         \* "idle", "find", "op", "done"
  op, gids, hint,
  futures,    \* the batch of send_requests: [api, groups, node, status, value]
  arrivals,   \* indices of futures in the order their replies arrived
  gc,         \* groups_coordinators, {group_id: node_id}
  outcome,    \* [kind, err, value] once the call returned or raised
  \* history
  answered,   \* answered[g]: coordinators FindCoordinator replies named for g
  deletedNow, \* groups this call's DeleteGroups requests deleted
  movedNow    \* groups whose coordinator moved since the call began

cluster == <<exists, coord, moves, failures>>
call == <<pc, op, gids, hint, futures, arrivals, gc, outcome>>
history == <<answered, deletedNow, movedNow>>
vars == <<cluster, call, history>>

Req(api, gs, n) ==
  [api |-> api, groups |-> gs, node |-> n, status |-> "pending", value |-> None]

\* The keys of a dict built from s, in insertion order.
DictKeys(s) ==
  FoldLeft(LAMBDA acc, x : IF x \in ToSet(acc) THEN acc ELSE Append(acc, x),
           <<>>, s)

Returned(v) == [kind |-> "ok", err |-> NoError, value |-> v]
Raised(e) == [kind |-> "raise", err |-> e, value |-> None]
\* _wait_for_futures raised the failed future's exception.
FutureFailed == [kind |-> "future_failed", err |-> None, value |-> None]

AllSucceeded == \A i \in DOMAIN futures : futures[i].status = "succeeded"
Values == [i \in DOMAIN futures |-> futures[i].value]

-----------------------------------------------------------------------------
(* The client.                                                             *)

\* Mutant: every coordinator is sent all the group ids, as with a
\* caller-supplied coordinator.
CoordinatorsGroupsAll(gs, m) ==
  LET K == DictKeys(gs)
      Cs == DictKeys([i \in DOMAIN K |-> m[K[i]]])
  IN [j \in DOMAIN Cs |-> Req("DeleteGroups", ToSet(gs), Cs[j])]

\* coordinators_groups of delete_consumer_groups: the groups bucketed by
\* coordinator, one DeleteGroups per coordinator, in insertion order.
CoordinatorsGroups(gs, m) ==
  LET K == DictKeys(gs)
      Cs == DictKeys([i \in DOMAIN K |-> m[K[i]]])
  IN [j \in DOMAIN Cs |->
        Req("DeleteGroups", {g \in ToSet(gs) : m[g] = Cs[j]}, Cs[j])]

\* describe_consumer_groups: one DescribeGroups per distinct group id, to
\* the group's coordinator, in groups_coordinators order.
DescribeRequests(gs, m) ==
  LET K == DictKeys(gs)
  IN [i \in DOMAIN K |-> Req("DescribeGroups", {K[i]}, m[K[i]])]

\* Mutant: with no broker_ids, only the first broker is asked.
ListRequestsFirstBroker(h) ==
  IF h # None THEN <<Req("ListGroups", {}, h)>>
  ELSE <<Req("ListGroups", {}, CHOOSE b \in Brokers : TRUE)>>

\* list_consumer_groups: one ListGroups per broker of the cluster, or to the
\* broker named.
ListRequests(h) ==
  IF h # None THEN <<Req("ListGroups", {}, h)>>
  ELSE LET B == SetToSeq(Brokers)
       IN [i \in DOMAIN B |-> Req("ListGroups", {}, B[i])]

\* The requests operation o sends once groups_coordinators is m; with a
\* caller-supplied coordinator delete_consumer_groups sends it all the ids.
OpRequests(o, gs, m, h) ==
  CASE o = "describe" -> DescribeRequests(gs, m)
    [] o = "delete" /\ h # None -> <<Req("DeleteGroups", ToSet(gs), h)>>
    [] o = "delete" -> CoordinatorsGroups(gs, m)
    [] o = "offsets" -> <<Req("OffsetFetch", {gs[1]}, m[gs[1]])>>
    [] o = "list" -> ListRequests(h)

\* A call.  With a caller-supplied coordinator (or for list_consumer_groups)
\* the operation's requests go out at once; otherwise _find_coordinator_ids
\* sends one FindCoordinator per id, each to least_loaded_node().
Call(o, gs, h) ==
  /\ pc = "idle"
  /\ op' = o /\ gids' = gs /\ hint' = h
  /\ IF o = "list" \/ h # None
     THEN /\ gc' = [g \in ToSet(gs) |-> h]
          /\ futures' = OpRequests(o, gs, gc', h)
          /\ pc' = "op"
     ELSE /\ gc' = [g \in {} |-> None]
          /\ futures' = [i \in DOMAIN gs |->
                           Req("FindCoordinator", {gs[i]}, None)]
          /\ pc' = "find"
  /\ arrivals' = <<>> /\ outcome' = None /\ movedNow' = {}
  /\ UNCHANGED <<cluster, answered, deletedNow>>

\* The four calls.  describe_consumer_groups(group_ids,
\* group_coordinator_id=h); list_consumer_groups(broker_ids=[h]), every
\* broker for None; list_consumer_group_offsets(group_id,
\* group_coordinator_id=h); delete_consumer_groups(group_ids,
\* group_coordinator_id=h).
DescribeConsumerGroups(gs, h) == Call("describe", gs, h)
ListConsumerGroups(h) == Call("list", <<>>, h)
ListConsumerGroupOffsets(g, h) == Call("offsets", <<g>>, h)
DeleteConsumerGroups(gs, h) == Call("delete", gs, h)

\* The error of the first response, in input order, whose error is not 0.
FirstError(vs) ==
  LET i == CHOOSE k \in DOMAIN vs : /\ vs[k].err # NoError
                                    /\ \A j \in 1..k-1 : vs[j].err = NoError
  IN vs[i].err

\* dict(zip(keys, vals)): a repeated key keeps its last value.
ZipToDict(keys, vals) ==
  [g \in ToSet(keys) |->
     vals[CHOOSE i \in DOMAIN keys :
            keys[i] = g /\ \A j \in DOMAIN keys : keys[j] = g => j <= i]]

\* Mutant: coordinator ids taken in the order the replies arrived.
FindCoordinatorsDoneArrivalOrder ==
  /\ pc = "find" /\ AllSucceeded
  /\ IF \E i \in DOMAIN futures : Values[i].err # NoError
     THEN /\ outcome' = Raised(FirstError(Values)) /\ pc' = "done"
          /\ UNCHANGED <<gc, futures>>
     ELSE /\ gc' = ZipToDict(gids, [i \in DOMAIN arrivals |->
                                      Values[arrivals[i]].node])
          /\ futures' = OpRequests(op, gids, gc', hint)
          /\ pc' = "op" /\ UNCHANGED outcome
  /\ arrivals' = <<>>
  /\ UNCHANGED <<cluster, op, gids, hint, history>>

\* Mutant: the FindCoordinator error check is dropped, so a failed lookup's
\* coordinator_id -1 is zipped in like any other.
FindCoordinatorsDoneUnchecked ==
  /\ pc = "find" /\ AllSucceeded
  /\ gc' = ZipToDict(gids, [i \in DOMAIN futures |-> Values[i].node])
  /\ futures' = OpRequests(op, gids, gc', hint)
  /\ pc' = "op" /\ UNCHANGED outcome
  /\ arrivals' = <<>>
  /\ UNCHANGED <<cluster, op, gids, hint, history>>

\* _find_coordinator_ids once send_requests returned: the response_fn
\* raises the first FindCoordinator error in input order; otherwise
\* dict(zip(group_ids, coordinator_ids)) and the operation's requests go out.
FindCoordinatorsDone ==
  /\ pc = "find" /\ AllSucceeded
  /\ IF \E i \in DOMAIN futures : Values[i].err # NoError
     THEN /\ outcome' = Raised(FirstError(Values)) /\ pc' = "done"
          /\ UNCHANGED <<gc, futures>>
     ELSE /\ gc' = ZipToDict(gids, [i \in DOMAIN futures |-> Values[i].node])
          /\ futures' = OpRequests(op, gids, gc', hint)
          /\ pc' = "op" /\ UNCHANGED outcome
  /\ arrivals' = <<>>
  /\ UNCHANGED <<cluster, op, gids, hint, history>>

\* _describe_consumer_groups_process_response, over the responses in
\* order: the first group whose error_code is not 0 raises; otherwise the
\* descriptions are returned.
DescribeResult(vs) ==
  IF \E i \in DOMAIN vs : vs[i].err # NoError
  THEN Raised(FirstError(vs)) ELSE Returned(vs)

\* _convert_delete_groups_response per coordinator, then
\* list(itertools.chain(*results)): the (group_id, error) pairs, not raised.
DeleteResult(vs) == Returned(FlattenSeq(vs))

\* list_consumer_groups: set().union of the brokers' group lists.
ListResult(vs) == Returned(UNION {vs[i] : i \in DOMAIN vs})

\* _list_consumer_group_offsets_process_response: an error raises.
OffsetsResult(vs) ==
  IF vs[1].err # NoError THEN Raised(vs[1].err) ELSE Returned(vs)

OpResult(o, vs) ==
  CASE o = "describe" -> DescribeResult(vs)
    [] o = "delete" -> DeleteResult(vs)
    [] o = "list" -> ListResult(vs)
    [] o = "offsets" -> OffsetsResult(vs)

\* Mutant: the results listed in the order the replies arrived.
OpDoneArrivalOrder ==
  /\ pc = "op" /\ AllSucceeded
  /\ outcome' = OpResult(op, [i \in DOMAIN arrivals |-> Values[arrivals[i]]])
  /\ pc' = "done"
  /\ UNCHANGED <<cluster, op, gids, hint, futures, arrivals, gc, history>>

\* send_requests returned the operation's responses.
OpDone ==
  /\ pc = "op" /\ AllSucceeded
  /\ outcome' = OpResult(op, Values)
  /\ pc' = "done"
  /\ UNCHANGED <<cluster, op, gids, hint, futures, arrivals, gc, history>>

\* Mutant: only the first future is checked for failure.
WaitForFuturesChecksFirst ==
  /\ pc \in {"find", "op"}
  /\ futures[1].status = "failed"
  /\ outcome' = FutureFailed /\ pc' = "done"
  /\ UNCHANGED <<cluster, op, gids, hint, futures, arrivals, gc, history>>

\* _wait_for_futures polls the futures in turn and raises the exception of
\* a failed one as soon as it finds it, whatever the others' state.
WaitForFuturesRaises ==
  /\ pc \in {"find", "op"}
  /\ \E i \in DOMAIN futures : futures[i].status = "failed"
  /\ outcome' = FutureFailed /\ pc' = "done"
  /\ UNCHANGED <<cluster, op, gids, hint, futures, arrivals, gc, history>>

-----------------------------------------------------------------------------
(* The brokers.                                                            *)

\* The request's future completes: its reply arrives, or (lost) the
\* connection closes after the broker acted and the future fails.
Complete(i, v, lost) ==
  /\ futures' = [futures EXCEPT ![i].status = IF lost THEN "failed"
                                              ELSE "succeeded",
                                ![i].value = v]
  /\ arrivals' = IF lost THEN arrivals ELSE Append(arrivals, i)
  /\ failures' = IF lost THEN failures + 1 ELSE failures

\* Any broker answers FindCoordinator with the group's coordinator, or with
\* COORDINATOR_NOT_AVAILABLE and coordinator_id -1 (None) while it loads.
RespondFindCoordinator(i, e, lost) ==
  /\ futures[i].status = "pending" /\ futures[i].api = "FindCoordinator"
  /\ lost => failures < MaxFailures
  /\ LET g == CHOOSE x \in futures[i].groups : TRUE
     IN /\ Complete(i, [err |-> e,
                       node |-> IF e = NoError THEN coord[g] ELSE None], lost)
        /\ answered' = IF e = NoError
                       THEN [answered EXCEPT ![g] = @ \cup {coord[g]}]
                       ELSE answered
  /\ UNCHANGED <<exists, coord, moves, pc, op, gids, hint, gc, outcome,
                 deletedNow, movedNow>>

\* The broker r.node answers a group request: NOT_COORDINATOR for a group
\* it does not coordinate; DeleteGroups deletes the other groups, answering
\* GROUP_ID_NOT_FOUND for a missing one; ListGroups lists its groups.
Answer(r) ==
  LET g == CHOOSE x \in r.groups : TRUE
      Err(x) == IF coord[x] = r.node THEN NoError ELSE NotCoordinator
  IN CASE r.api = "DescribeGroups" ->
            [group |-> g, err |-> Err(g), exists |-> g \in exists]
       [] r.api = "DeleteGroups" ->
            SetToSeq({[group |-> x,
                       err |-> IF Err(x) # NoError THEN Err(x)
                               ELSE IF x \in exists THEN NoError
                               ELSE GroupIdNotFound] : x \in r.groups})
       [] r.api = "ListGroups" -> {x \in exists : coord[x] = r.node}
       [] r.api = "OffsetFetch" -> [group |-> g, err |-> Err(g)]

Deletes(r) ==
  IF r.api = "DeleteGroups"
  THEN {x \in r.groups : coord[x] = r.node /\ x \in exists} ELSE {}

RespondGroupRequest(i, lost) ==
  /\ futures[i].status = "pending" /\ futures[i].api # "FindCoordinator"
  /\ lost => failures < MaxFailures
  /\ Complete(i, Answer(futures[i]), lost)
  /\ exists' = exists \ Deletes(futures[i])
  /\ deletedNow' = deletedNow \cup Deletes(futures[i])
  /\ UNCHANGED <<coord, moves, pc, op, gids, hint, gc, outcome, answered,
                 movedNow>>

\* A request fails before reaching its broker (connection refused,
\* request timeout).
RequestFails(i) ==
  /\ futures[i].status = "pending" /\ failures < MaxFailures
  /\ futures' = [futures EXCEPT ![i].status = "failed"]
  /\ failures' = failures + 1
  /\ UNCHANGED <<exists, coord, moves, pc, op, gids, hint, arrivals, gc,
                 outcome, history>>

\* A group's coordinator moves to another broker.
CoordinatorMoves(g, b) ==
  /\ moves < MaxMoves /\ b # coord[g]
  /\ coord' = [coord EXCEPT ![g] = b]
  /\ moves' = moves + 1 /\ movedNow' = movedNow \cup {g}
  /\ UNCHANGED <<exists, failures, call, answered, deletedNow>>

-----------------------------------------------------------------------------
(* Properties.                                                             *)

Status == {"pending", "succeeded", "failed"}
APIs == {"FindCoordinator", "DescribeGroups", "DeleteGroups", "ListGroups",
         "OffsetFetch"}

TypeOK ==
  /\ exists \subseteq Groups /\ coord \in [Groups -> Brokers]
  /\ moves \in 0..MaxMoves /\ failures \in 0..MaxFailures
  /\ pc \in {"idle", "find", "op", "done"} /\ op \in Ops
  /\ gids \in GroupLists \cup {<<>>} /\ hint \in Brokers \cup {None}
  /\ \A i \in DOMAIN futures :
       /\ futures[i].api \in APIs /\ futures[i].groups \subseteq Groups
       /\ futures[i].node \in Brokers \cup {None}
       /\ futures[i].status \in Status
  /\ arrivals \in Seq(DOMAIN futures)
  /\ gc \in [ToSet(gids) -> Brokers] \cup {[g \in {} |-> None]}
  /\ answered \in [Groups -> SUBSET Brokers] /\ deletedNow \subseteq Groups
  /\ movedNow \subseteq Groups

\* _find_coordinator_ids pairs each group id with the coordinator that the
\* FindCoordinator request for that id named, however the replies were
\* ordered (send_requests returns them in request order, and the ids are
\* zipped with them).
CoordinatorsMatchReplies ==
  hint = None /\ op # "list" =>
    \A g \in DOMAIN gc : gc[g] \in answered[g]

\* describe_consumer_groups returns one description per distinct group id,
\* aligned to the input order, each as its coordinator gave it.
DescribeAlignedToInput ==
  op = "describe" /\ outcome # None /\ outcome.kind = "ok" =>
    LET K == DictKeys(gids)
    IN /\ Len(outcome.value) = Len(K)
       /\ \A i \in DOMAIN K :
            outcome.value[i] = [group |-> K[i], err |-> NoError,
                                exists |-> K[i] \in exists]

\* delete_consumer_groups reports every requested group exactly once, and
\* reports NoError for exactly the groups its requests deleted.
DeleteReportsEachGroupOnce ==
  op = "delete" /\ outcome # None /\ outcome.kind = "ok" =>
    LET v == outcome.value
    IN /\ Len(v) = Cardinality(ToSet(gids))
       /\ {v[i].group : i \in DOMAIN v} = ToSet(gids)
       /\ \A i \in DOMAIN v : v[i].err = NoError <=> v[i].group \in deletedNow

\* Every call returns or raises: _wait_for_futures leaves its loop once all
\* futures succeeded or one failed.
CallsReturn == pc \in {"find", "op"} ~> pc = "done"

\* spec.md (send_requests): it "blocks until every submission has either
\* completed or failed" and only then raises the first failure.
SettledBeforeRaise ==
  [][outcome' # None /\ outcome'.kind = "future_failed" /\ outcome = None =>
       \A i \in DOMAIN futures : futures[i].status # "pending"]_vars

\* list_consumer_groups, with no broker_ids, lists every group that exists
\* and whose coordinator stayed put while the call ran: every broker is
\* asked and the answers are unioned.  (A group whose coordinator moves
\* from a broker not yet answered to one that already answered is missed;
\* the union only removes the duplicates of the opposite move.)
ListsEveryStableGroup ==
  op = "list" /\ hint = None /\ outcome # None /\ outcome.kind = "ok" =>
    exists \ movedNow \subseteq outcome.value

-----------------------------------------------------------------------------

Init ==
  /\ exists \in SUBSET Groups
  /\ coord \in [Groups -> Brokers]
  /\ moves = 0 /\ failures = 0
  /\ pc = "idle" /\ op = "list" /\ gids = <<>> /\ hint = None
  /\ futures = <<>> /\ arrivals = <<>> /\ gc = [g \in {} |-> None]
  /\ outcome = None
  /\ answered = [g \in Groups |-> {}] /\ deletedNow = {} /\ movedNow = {}

ClientNext ==
  \/ \E gs \in GroupLists, h \in Brokers \cup {None} :
       \/ DescribeConsumerGroups(gs, h)
       \/ DeleteConsumerGroups(gs, h)
  \/ \E g \in Groups, h \in Brokers \cup {None} : ListConsumerGroupOffsets(g, h)
  \/ \E h \in Brokers \cup {None} : ListConsumerGroups(h)
  \/ FindCoordinatorsDone \/ OpDone \/ WaitForFuturesRaises

BrokerNext ==
  \E i \in DOMAIN futures :
    \/ \E e \in {NoError, CoordinatorNotAvailable}, lost \in BOOLEAN :
         RespondFindCoordinator(i, e, lost)
    \/ \E lost \in BOOLEAN : RespondGroupRequest(i, lost)
    \/ RequestFails(i)

Next ==
  \/ ClientNext \/ BrokerNext
  \/ \E g \in Groups, b \in Brokers : CoordinatorMoves(g, b)

\* The client loop runs while it can, and every request in flight is
\* answered or times out (request_timeout_ms), so brokers are weakly fair.
Fairness == WF_vars(ClientNext) /\ WF_vars(BrokerNext)

Spec == Init /\ [][Next]_vars /\ Fairness

=============================================================================
