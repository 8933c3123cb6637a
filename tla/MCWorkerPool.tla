---------------------------- MODULE MCWorkerPool ----------------------------
(***************************************************************************)
(* Two messages for one consumer, and one loss of the connection.          *)
(***************************************************************************)
EXTENDS WorkerPool
CONSTANTS m1, m2, c1
TwoJobs == {m1, m2}
OneConsumer == {c1}
OneLoss == [k \in {"connection"} |-> 1]
====
