------------------------- MODULE MCAdminController -------------------------
(* Model-checking instance of AdminController: three brokers, one of them  *)
(* older than 0.10.0, one topic, two controller moves, two admin calls and *)
(* two refresh iterations before the refresh deadline.                     *)
EXTENDS AdminController, TLC

CONSTANTS b1, b2, b3, t1

MCBrokers == {b1, b2, b3}
MCOldBrokers == {b3}
MCTopics == {t1}
=============================================================================
