---------------------------- MODULE DeleteRecords ----------------------------
(***************************************************************************)
(* KafkaAdminClient.delete_records and _get_leader_for_partitions          *)
(* (src/kafka/admin/client.py).                                            *)
(*                                                                         *)
(* One call deletes records from a set of partitions.  Without a           *)
(* partition_leader_id hint it reads the partitions' leaders from one      *)
(* Metadata reply and buckets the partitions by leader; it then sends one  *)
(* DeleteRecords request per leader, in dict order, waiting for each, and  *)
(* finally raises if any partition reported an error.  Leaders may move    *)
(* between the Metadata reply and a send, a partition may have no leader   *)
(* (-1), and a send may fail after or before its broker acted on it.       *)
(* Topics and offsets are abstracted away: a request names partitions and  *)
(* a deletion is a partition moving into `deleted`.                        *)
(***************************************************************************)
EXTENDS Naturals, FiniteSets

CONSTANTS
  Brokers,     \* broker node ids
  Partitions,  \* topic partitions a caller may name
  NoLeader,    \* the leader id -1
  None,        \* partition_leader_id=None, and "no request in flight"
  MaxMoves     \* bound on leader changes

ASSUME NoLeader \notin Brokers /\ None \notin Brokers \cup {NoLeader}

\* Error codes the model tells apart.
NoError == 0
UnknownTopicOrPartition == 3
NotLeaderForPartition == 6

VARIABLES
  \* the cluster
  known,      \* partitions that exist
  leader,     \* leader[p]: the current leader of p, or NoLeader
  deleted,    \* partitions whose records the leader has deleted
  moves,      \* leader changes so far
  \* the call
  pc,         \* "idle", "metadata", "send", "wait", "collect", "done"
  req,        \* set(records_to_delete)
  hint,       \* partition_leader_id
  l2p,        \* leader2partitions
  toSend,     \* leaders of leader2partitions not yet sent to
  inflight,   \* [dest, parts, reply] of the request awaiting its future
  results,    \* the partition results of the responses: [p, code] records
  outcome,    \* [kind, named] once the call returned or raised
  \* history
  leaderless  \* requested partitions the Metadata reply gave leader -1

cluster == <<known, leader, deleted, moves>>
call == <<pc, req, hint, l2p, toSend, inflight, results, outcome>>
vars == <<cluster, call, leaderless>>

Outcome(k, n) == [kind |-> k, named |-> n]

-----------------------------------------------------------------------------
(* The client.                                                             *)

\* delete_records(records_to_delete, partition_leader_id=h): with a hint
\* every partition goes to that node in one request, unchecked.
DeleteRecordsCall(ps, h) ==
  /\ pc = "idle"
  /\ req' = ps /\ hint' = h
  /\ IF h = None
     THEN pc' = "metadata" /\ UNCHANGED <<l2p, toSend>>
     ELSE /\ l2p' = [l \in {h} |-> ps] /\ toSend' = {h}
          /\ pc' = "send"
  /\ UNCHANGED <<cluster, inflight, results, outcome, leaderless>>

\* _get_leader_for_partitions: one Metadata request for the partitions'
\* topics; each partition found is bucketed under partition["leader"]
\* (whatever it is), and any partition not found raises
\* UnknownTopicOrPartitionError naming all of them.
GetLeaderForPartitions ==
  /\ pc = "metadata"
  /\ IF req \subseteq known
     THEN /\ l2p' = [l \in {leader[p] : p \in req} |->
                       {p \in req : leader[p] = l}]
          /\ toSend' = {leader[p] : p \in req}
          /\ leaderless' = {p \in req : leader[p] = NoLeader}
          /\ pc' = "send"
          /\ UNCHANGED outcome
     ELSE /\ outcome' = Outcome("UnknownTopicOrPartition", req \ known)
          /\ pc' = "done"
          /\ UNCHANGED <<l2p, toSend, leaderless>>
  /\ UNCHANGED <<cluster, req, hint, inflight, results>>

\* Mutant: the loop's await_ready failure for node -1 is not taken; the
\* request is queued for leader -1 like any other.
SendToLeaderAnyId ==
  /\ pc = "send"
  /\ \E l \in toSend :
       /\ inflight' = [dest |-> l, parts |-> l2p[l], reply |-> None]
       /\ toSend' = toSend \ {l}
  /\ pc' = "wait"
  /\ UNCHANGED <<cluster, req, hint, l2p, results, outcome, leaderless>>

\* One turn of `for leader, partitions in leader2partitions.items()`:
\* send_request(request, node_id=leader) for a live broker id.
SendToLeader ==
  /\ pc = "send"
  /\ \E l \in toSend \ {NoLeader} :
       /\ inflight' = [dest |-> l, parts |-> l2p[l], reply |-> None]
       /\ toSend' = toSend \ {l}
  /\ pc' = "wait"
  /\ UNCHANGED <<cluster, req, hint, l2p, results, outcome, leaderless>>

\* The turn for leader -1: send_request(node_id=-1) cannot reach a node;
\* await_ready raises and the call ends with the loop unfinished.
SendToNoLeader ==
  /\ pc = "send" /\ NoLeader \in toSend
  /\ outcome' = Outcome("NodeNotReady", {})
  /\ pc' = "done"
  /\ UNCHANGED <<cluster, req, hint, l2p, toSend, inflight, results, leaderless>>

\* Mutant: only the last response is kept (responses = [response]).
ReceiveResponseKeepsLast ==
  /\ pc = "wait" /\ inflight # None /\ inflight.reply # None
  /\ results' = inflight.reply
  /\ inflight' = None
  /\ pc' = IF toSend = {} THEN "collect" ELSE "send"
  /\ UNCHANGED <<cluster, req, hint, l2p, toSend, outcome, leaderless>>

\* The future succeeded: responses.append(response.to_object()).
ReceiveResponse ==
  /\ pc = "wait" /\ inflight # None /\ inflight.reply # None
  /\ results' = results \cup inflight.reply
  /\ inflight' = None
  /\ pc' = IF toSend = {} THEN "collect" ELSE "send"
  /\ UNCHANGED <<cluster, req, hint, l2p, toSend, outcome, leaderless>>

\* The future failed (connection lost, request timed out), before or after
\* the leader acted on the request: _wait_for_futures raises.
RequestFailed ==
  /\ pc = "wait" /\ inflight # None
  /\ outcome' = Outcome("RequestFailed", {})
  /\ inflight' = None
  /\ pc' = "done"
  /\ UNCHANGED <<cluster, req, hint, l2p, toSend, results, leaderless>>

\* partition2error: the partitions whose error_code is not 0.
Failed(rs) == {r.p : r \in {x \in rs : x.code # NoError}}

\* Mutant: the single-error branch is missing (`len(partition2error) > 1`).
CollectSkipsSingleError ==
  /\ pc = "collect"
  /\ outcome' = CASE Cardinality(Failed(results)) <= 1 -> Outcome("ok", {})
                  [] OTHER -> Outcome("aggregate", Failed(results))
  /\ pc' = "done"
  /\ UNCHANGED <<cluster, req, hint, l2p, toSend, inflight, results, leaderless>>

\* Mutant: the error of the first failed partition is raised, whatever the
\* number of failures.
CollectRaisesFirstOnly ==
  /\ pc = "collect"
  /\ outcome' = IF Failed(results) = {} THEN Outcome("ok", {})
                ELSE Outcome("typed", {CHOOSE p \in Failed(results) : TRUE})
  /\ pc' = "done"
  /\ UNCHANGED <<cluster, req, hint, l2p, toSend, inflight, results, leaderless>>

\* After the loop: no failed partition returns partition2result; exactly
\* one raises its typed error; several raise BrokerResponseError naming all.
Collect ==
  /\ pc = "collect"
  /\ outcome' = CASE Failed(results) = {} -> Outcome("ok", {})
                  [] Cardinality(Failed(results)) = 1 ->
                       Outcome("typed", Failed(results))
                  [] OTHER -> Outcome("aggregate", Failed(results))
  /\ pc' = "done"
  /\ UNCHANGED <<cluster, req, hint, l2p, toSend, inflight, results, leaderless>>

-----------------------------------------------------------------------------
(* The brokers.                                                            *)

\* The broker `inflight.dest` handles DeleteRecords: it deletes from the
\* partitions it leads and answers the others with an error code.
LeaderHandles ==
  /\ pc = "wait" /\ inflight # None /\ inflight.reply = None
  /\ LET d == inflight.dest
         Code(p) == CASE p \notin known -> UnknownTopicOrPartition
                      [] leader[p] = d  -> NoError
                      [] OTHER          -> NotLeaderForPartition
     IN /\ inflight' = [inflight EXCEPT !.reply =
                          {[p |-> p, code |-> Code(p)] : p \in inflight.parts}]
        /\ deleted' = deleted \cup {p \in inflight.parts : Code(p) = NoError}
  /\ UNCHANGED <<known, leader, moves, pc, req, hint, l2p, toSend, results,
                 outcome, leaderless>>

\* Leadership of a partition moves, or the partition loses its leader.
LeaderMoves ==
  /\ moves < MaxMoves
  /\ \E p \in known, b \in Brokers \cup {NoLeader} :
       /\ b # leader[p]
       /\ leader' = [leader EXCEPT ![p] = b]
  /\ moves' = moves + 1
  /\ UNCHANGED <<known, deleted, call, leaderless>>

-----------------------------------------------------------------------------
(* Properties.                                                             *)

TypeOK ==
  /\ known \subseteq Partitions /\ deleted \subseteq known
  /\ leader \in [Partitions -> Brokers \cup {NoLeader}]
  /\ moves \in 0..MaxMoves
  /\ pc \in {"idle", "metadata", "send", "wait", "collect", "done"}
  /\ req \subseteq Partitions /\ hint \in Brokers \cup {None}
  /\ toSend \subseteq DOMAIN l2p
  /\ inflight \in {None} \cup
       [dest : Brokers, parts : SUBSET Partitions,
        reply : {None} \cup SUBSET [p : Partitions, code : {NoError,
                  UnknownTopicOrPartition, NotLeaderForPartition}]]
  /\ results \subseteq [p : Partitions, code : {NoError,
                  UnknownTopicOrPartition, NotLeaderForPartition}]
  /\ outcome \in {None} \cup
       [kind : {"ok", "typed", "aggregate", "UnknownTopicOrPartition",
                "NodeNotReady", "RequestFailed"}, named : SUBSET Partitions]

\* delete_records returns only when every requested partition was deleted by
\* its leader, even when leadership moved between the Metadata reply and
\* the DeleteRecords request (the docstring: "error_code for all partitions
\* is guaranteed to be zero, otherwise an exception is raised").
ReturnMeansDeleted ==
  outcome # None /\ outcome.kind = "ok" => req \subseteq deleted

\* When delete_records raises after the per-leader loop, the error names
\* exactly the requested partitions that were not deleted, over all the
\* leaders' responses, and is the typed error iff there is one of them.
ErrorNamesEveryFailure ==
  outcome # None /\ outcome.kind \in {"typed", "aggregate"} =>
    /\ outcome.named = req \ deleted
    /\ (outcome.kind = "typed") <=> (Cardinality(outcome.named) = 1)

\* The docstring of _get_leader_for_partitions: it "will raise
\* UnknownTopicOrPartitionError if for some partition no leader can be
\* found"; a partition the Metadata reply gives leader -1 has none.
LeaderlessRaisesUnknown ==
  outcome # None /\ leaderless # {} =>
    outcome.kind = "UnknownTopicOrPartition"

-----------------------------------------------------------------------------

Init ==
  /\ known \in SUBSET Partitions
  /\ leader \in [Partitions -> Brokers \cup {NoLeader}]
  /\ deleted = {} /\ moves = 0
  /\ pc = "idle" /\ req = {} /\ hint = None
  /\ l2p = [l \in {} |-> {}] /\ toSend = {}
  /\ inflight = None /\ results = {} /\ outcome = None
  /\ leaderless = {}

Next ==
  \/ \E ps \in SUBSET Partitions \ {{}}, h \in Brokers \cup {None} :
       DeleteRecordsCall(ps, h)
  \/ GetLeaderForPartitions
  \/ SendToLeader \/ SendToNoLeader
  \/ ReceiveResponse \/ RequestFailed \/ Collect
  \/ LeaderHandles \/ LeaderMoves

Spec == Init /\ [][Next]_vars

=============================================================================
