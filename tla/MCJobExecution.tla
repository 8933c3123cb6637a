--------------------------- MODULE MCJobExecution ---------------------------
(***************************************************************************)
(* Two messages: one with a repository to clone, one with a path.          *)
(***************************************************************************)
EXTENDS JobExecution
CONSTANTS m1, m2, c1, c2
TwoJobs == {m1, m2}
TwoConsumers == {c1, c2}
Sources == [m \in TwoJobs |-> IF m = m1 THEN "repo" ELSE "path"]
\* One fault of any kind, then perhaps a reopening that fails.  Calls of ExecuteJob
\* fail without bound.
Bounds ==
  [k \in {"connection", "channel", "reopen", "callback", "shutdown", "crash"} |->
     IF k = "reopen" THEN 2 ELSE 1]
====
