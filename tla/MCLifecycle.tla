---------------------------- MODULE MCLifecycle ----------------------------
(***************************************************************************)
(* TLC instances of Lifecycle: three managers, and the environments they   *)
(* are deployed with.                                                      *)
(***************************************************************************)
EXTENDS Lifecycle

CONSTANTS m1, m2, m3

Member(slot) ==
  [PORT |-> NULL, LOG_LEVEL |-> NULL, ETCD_ENABLED |-> TRUE, CLUSTER_SIZE |-> 3,
   TASK_SLOT |-> slot]

Deployed(third) ==
  [m \in {m1, m2, m3} |-> CASE m = m1 -> Member(1) [] m = m2 -> Member(2) [] m = m3 -> third]

\* A cluster of three; one with a slot out of range, with a bad port; and
\* with a third manager that has a cluster, or a memory store, of its own.
MCEnvironments ==
  { Deployed(Member(3)),
    Deployed(Member(4)),
    Deployed([Member(3) EXCEPT !.PORT = 0]),
    Deployed([Member(3) EXCEPT !.CLUSTER_SIZE = NULL]),
    Deployed([v \in DOMAIN Member(3) |-> NULL]) }

\* The cluster of three alone.
MCProper == {Deployed(Member(3))}
=============================================================================
