---------------------------- MODULE MCReporting ----------------------------
(* Reports on the diamond pipeline while two workers and two handlers run it. *)
EXTENDS Reporting, TLC

CONSTANTS j1, j2, j3, j4, w1, w2, h1, h2

\* Stage 1: j1, j2, and j3 that needs both; stage 2: j4.
ReportJobs == {j1, j2, j3, j4}
ReportStageOf == [j \in ReportJobs |-> IF j = j4 THEN 2 ELSE 1]
ReportNeeds == [j \in ReportJobs |-> IF j = j3 THEN <<j1, j2>> ELSE << >>]

Query(run, stage, job) == [run |-> run, stage |-> stage, job |-> job]

\* The run, each stage, one job, a stage that the run does not have, another run,
\* all runs, and two queries that are refused.
SomeQueries ==
  {Query(1, NoFilter, NoFilter), Query(1, 1, NoFilter), Query(1, 2, NoFilter),
   Query(1, 1, j3), Query(1, 3, NoFilter), Query(2, NoFilter, NoFilter),
   Query(NoFilter, NoFilter, NoFilter), Query(NoFilter, 1, NoFilter), Query(1, NoFilter, j1)}

\* Workers are alike, and so are handlers.
Alike == Permutations(Workers) \cup Permutations(Handlers)
====
