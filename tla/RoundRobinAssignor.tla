------------------------- MODULE RoundRobinAssignor -------------------------
(***************************************************************************)
(* RoundRobinPartitionAssignor.assign                                      *)
(* (src/kafka/coordinator/assignors/roundrobin.py).                        *)
(*                                                                         *)
(* The input is group_subscriptions, a dict from member id to Subscription *)
(* (topics, group_instance_id), iterated in insertion order, and the       *)
(* cluster's partition count for each topic (None when it has no           *)
(* metadata).  The set-up of assign (all_topic_partitions, the static /    *)
(* dynamic member_list) is a pure computation and is stated as operators;  *)
(* the loop over partitions, with its itertools.cycle iterator and the     *)
(* inner `while` that skips unsubscribed members, is a state machine, one  *)
(* step per next(member_iter), so that a loop that never ends is a cycle   *)
(* TLC can find.                                                           *)
(***************************************************************************)
EXTENDS Naturals, Sequences, SequencesExt, FiniteSets

CONSTANTS
  Members,        \* member ids (ordered as sorted() orders them)
  TopicIds,       \* topic names (ordered as sorted() orders them)
  MaxPartitions,  \* largest partition count of a topic
  NoMetadata      \* partitions_for_topic(topic) is None

ASSUME Members \subseteq Nat /\ TopicIds \subseteq Nat
ASSUME MaxPartitions \in Nat \ {0}

VARIABLES
  \* the input of assign()
  order,       \* group_subscriptions' member ids, in dict order
  static,      \* members whose subscription.group_instance_id is not None
  subs,        \* subs[m]: group_subscriptions[m].topics
  parts,       \* parts[t]: len(cluster.partitions_for_topic(t)), or NoMetadata
  \* the locals of assign(), computed before the loop
  tps,         \* all_topic_partitions
  memberList,  \* member_list
  \* the loop
  i,           \* index into all_topic_partitions of the partition at hand
  cur,         \* position in member_list of the next next(member_iter)
  member,      \* member_id last taken from member_iter
  assignment,  \* assignment[m]: the topic partitions given to m so far
  pc           \* "take" (next(member_iter)), "check" (the while), "done"

input == <<order, static, subs, parts>>
locals == <<tps, memberList>>
vars  == <<input, locals, i, cur, member, assignment, pc>>

Group == {order[k] : k \in 1..Len(order)}
IsStatic(m) == m \in static

-----------------------------------------------------------------------------
(* The set-up of assign().                                                 *)

\* all_topics: the union of every member's subscribed topics.
AllTopics == UNION {subs[m] : m \in Group}

\* TopicPartition(topic, partition) ordered as namedtuples are.
TPLess(a, b) == a[1] < b[1] \/ (a[1] = b[1] /\ a[2] < b[2])

\* all_topic_partitions, sorted; topics without metadata are skipped.
AllTopicPartitions ==
  SetToSortSeq(UNION {{<<t, p>> : p \in 0..(parts[t] - 1)} :
                        t \in {u \in AllTopics : parts[u] # NoMetadata}},
               TPLess)

\* grouped = {k: list(g) for k, g in itertools.groupby(ungrouped, key)}:
\* groupby yields one group per run of consecutive members with the same
\* key, and the dict keeps, for each key, the members of its LAST run.
LastRun(k) ==
  LET idx  == {j \in 1..Len(order) : IsStatic(order[j]) = k}
      last == CHOOSE j \in idx : \A j2 \in idx : j2 <= j
      RunStart(f) == \A j \in f..last : IsStatic(order[j]) = k
      first == CHOOSE f \in 1..last :
                 RunStart(f) /\ (f = 1 \/ ~RunStart(f - 1))
  IN IF idx = {} THEN {} ELSE {order[j] : j \in first..last}

\* member_list: sorted static members first, then sorted dynamic members.
MemberList ==
  SetToSortSeq(LastRun(TRUE), <) \o SetToSortSeq(LastRun(FALSE), <)

Advance(c) == (c % Len(memberList)) + 1

-----------------------------------------------------------------------------
(* The assignment loop.                                                    *)

\* `for partition in all_topic_partitions: member_id = next(member_iter)`.
NextMember ==
  /\ pc = "take"
  /\ member' = memberList[cur]
  /\ cur' = Advance(cur)
  /\ pc' = "check"
  /\ UNCHANGED <<input, locals, i, assignment>>

\* `while partition.topic not in group_subscriptions[member_id].topics:
\*    member_id = next(member_iter)`.
SkipMember ==
  /\ pc = "check"
  /\ tps[i][1] \notin subs[member]
  /\ member' = memberList[cur]
  /\ cur' = Advance(cur)
  /\ UNCHANGED <<input, locals, i, assignment, pc>>

AssignPartition ==
  /\ pc = "check"
  /\ tps[i][1] \in subs[member]
  /\ assignment' = [assignment EXCEPT ![member] = @ \cup {tps[i]}]
  /\ i' = i + 1
  /\ pc' = IF i = Len(tps) THEN "done" ELSE "take"
  /\ UNCHANGED <<input, locals, cur, member>>

\* Every group_subscriptions assign() can be called with: at least one
\* member, each subscribed to at least one topic.
Init ==
  /\ \E g \in SUBSET Members \ {{}} :
       order \in {s \in [1..Cardinality(g) -> g] : ToSet(s) = g}
  /\ static \in SUBSET Group
  /\ subs \in [Group -> SUBSET TopicIds \ {{}}]
  /\ parts \in [TopicIds -> (1..MaxPartitions) \cup {NoMetadata}]
  /\ tps = AllTopicPartitions
  /\ memberList = MemberList
  /\ i = 1 /\ cur = 1 /\ member = 0
  /\ assignment = [m \in Group |-> {}]
  /\ pc = IF Len(tps) = 0 THEN "done" ELSE "take"

Next == NextMember \/ SkipMember \/ AssignPartition

\* assign() runs on the consumer's thread without blocking.
Spec == Init /\ [][Next]_vars /\ WF_vars(Next)

-----------------------------------------------------------------------------
(* Properties                                                              *)

TypeOK ==
  /\ order \in Seq(Members)
  /\ static \subseteq Members
  /\ subs \in [Group -> SUBSET TopicIds]
  /\ parts \in [TopicIds -> (1..MaxPartitions) \cup {NoMetadata}]
  /\ tps \in Seq(TopicIds \X (0..(MaxPartitions - 1)))
  /\ memberList \in Seq(Members)
  /\ i \in 1..(Len(tps) + 1)
  /\ cur \in 1..Len(memberList)
  /\ member \in Members \cup {0}
  /\ assignment \in [Group -> SUBSET (TopicIds \X (0..(MaxPartitions - 1)))]
  /\ pc \in {"take", "check", "done"}

UniformWhenIdentical ==
  (pc = "done" /\ \A m, m2 \in Group : subs[m] = subs[m2]) =>
    \A m, m2 \in Group :
      Cardinality(assignment[m]) <= Cardinality(assignment[m2]) + 1

=============================================================================
