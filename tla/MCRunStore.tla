----------------------------- MODULE MCRunStore -----------------------------
(* Instances of RunStore: names of clients, pipelines and request keys. *)
EXTENDS RunStore
CONSTANTS c1, c2, c3, p1, k1
====
