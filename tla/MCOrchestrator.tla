--------------------------- MODULE MCOrchestrator ---------------------------
(* Instances of Orchestrator: which pipeline, how many workers, which faults. *)
EXTENDS Orchestrator, TLC

CONSTANTS j1, j2, j3, j4, j5, w1, w2, h1, h2

\* Stage 1: j1, j2, and j3 that needs both; stage 2: j4.
DiamondJobs == {j1, j2, j3, j4}
DiamondStageOf == [j \in DiamondJobs |-> IF j = j4 THEN 2 ELSE 1]
DiamondNeeds == [j \in DiamondJobs |-> IF j = j3 THEN <<j1, j2>> ELSE << >>]

\* Stage 1: j1, j2, j3 that needs both, and j4 that needs j3 and j1; stage 2: j5.
LadderJobs == {j1, j2, j3, j4, j5}
LadderStageOf == [j \in LadderJobs |-> IF j = j5 THEN 2 ELSE 1]
LadderNeeds ==
  [j \in LadderJobs |-> CASE j = j3 -> <<j1, j2>> [] j = j4 -> <<j3, j1>> [] OTHER -> << >>]

\* The first and the last stage have no jobs; stage 2: j1, and j2 that needs it;
\* stage 3: j3.
GapsJobs == {j1, j2, j3}
GapsStageOf == [j \in GapsJobs |-> IF j = j3 THEN 3 ELSE 2]
GapsNeeds == [j \in GapsJobs |-> IF j = j2 THEN <<j1>> ELSE << >>]

\* The slots for callback requests are alike.
Alike == Permutations(Handlers)
====
