------------------------ MODULE MCRoundRobinAssignor ------------------------
(* Model-checking instance of RoundRobinAssignor: up to three members,     *)
(* each static or dynamic, in every dict order, two topics with up to      *)
(* three partitions or no metadata.                                        *)
EXTENDS RoundRobinAssignor

MCMembers == {1, 2, 3}
MCTopicIds == {1, 2}
=============================================================================
