----------------------------- MODULE Reporting -----------------------------
(***************************************************************************)
(* A report on a run while the run goes on: GET /report through the        *)
(* gateway to GetReport (internal/services/reporting/{handler,service}.go, *)
(* internal/store/read.go), beside the orchestrator that writes the rows.  *)
(*                                                                         *)
(* GetReport reads the row of the run, then the stages, then the jobs, each*)
(* with a SELECT of its own and no transaction around them, so handlers    *)
(* write between the reads.  One request is in progress at a time: reports *)
(* change nothing, so two of them do not meet.                             *)
(***************************************************************************)
EXTENDS Orchestrator

CONSTANTS
  Queries,   \* the queries that arrive: [run, stage, job]
  NoFilter   \* a filter that is not given

RunNo == 1   \* the run_no of the run that Orchestrator models

ASSUME QueryAssumption ==
  /\ \A q \in Queries : /\ DOMAIN q = {"run", "stage", "job"}
                        /\ q.run = NoFilter \/ q.run \in Int
  /\ NoFilter # RunNo /\ NoFilter \notin Stages /\ NoFilter \notin Jobs

\* The request in progress: the query, the next read, and the statuses read so far.
VARIABLE report
reportingVars == <<vars, report>>

NoReport == [at |-> "none", stage |-> NoFilter, job |-> NoFilter, run |-> "none", status |-> "none"]

-----------------------------------------------------------------------------
\* The checks of GetReport on the query (400), and those of the report command.

InvalidQuery(q) ==
  \/ q.run # NoFilter /\ q.run <= 0
  \/ q.stage # NoFilter /\ q.run = NoFilter
  \/ q.job # NoFilter /\ (q.run = NoFilter \/ q.stage = NoFilter)

\* buildReportQuery: the flag --run is an integer, 0 by default, and is sent when it
\* is positive.
RefusedByCommand(f) ==
  \/ f.run < 0
  \/ f.stage # NoFilter /\ f.run = 0
  \/ f.job # NoFilter /\ (f.run = 0 \/ f.stage = NoFilter)
CommandQuery(f) == [f EXCEPT !.run = IF @ > 0 THEN @ ELSE NoFilter]

\* What the SELECTs find: "none" stands for no row.
RunRow(run) == IF run = RunNo THEN runRow ELSE "none"
StageRow(stage) == IF stage \in Stages THEN stageRow[stage] ELSE "none"
JobRows(stage, job) ==
  {j \in Jobs : StageOf[j] = stage /\ jobRow[j] # "none" /\ (job = NoFilter \/ job = j)}

Answered == report' = NoReport

\* GetRun: no such run is a 404.
GetRun(q) ==
  /\ report.at = "none" /\ ~InvalidQuery(q) /\ q.run # NoFilter /\ RunRow(q.run) # "none"
  /\ report' = [at |-> IF q.stage = NoFilter THEN "stages" ELSE "stage",
                stage |-> q.stage, job |-> q.job, run |-> RunRow(q.run), status |-> "none"]

\* GetStagesForRun without a filter: the report of a run is complete.
GetStages == report.at = "stages" /\ Answered

\* Mutant: a stage without a row is reported like any other.
GetStageUnchecked ==
  /\ report.at = "stage"
  /\ report' = [report EXCEPT !.at = "jobs", !.status = StageRow(report.stage)]

\* GetStagesForRun with a filter: no such stage is a 404.
GetStage ==
  /\ report.at = "stage"
  /\ \/ StageRow(report.stage) = "none" /\ Answered
     \/ /\ StageRow(report.stage) # "none"
        /\ report' = [report EXCEPT !.at = "jobs", !.status = StageRow(report.stage)]

\* GetJobsForRun: the jobs of the stage, or the job asked for (404 if there is none).
GetJobs == report.at = "jobs" /\ Answered

\* A read fails (500), or the gateway or its client gives up (502, 504).
ReportFails == report.at # "none" /\ Answered

ReportStep == (\E q \in Queries : GetRun(q)) \/ GetStages \/ GetStage \/ GetJobs \/ ReportFails

ReportingInit == Init /\ report = NoReport
ReportingNext == (Next /\ UNCHANGED report) \/ (ReportStep /\ UNCHANGED vars)
ReportingSpec == ReportingInit /\ [][ReportingNext]_reportingVars

-----------------------------------------------------------------------------
\* Properties.

\* The statuses in a report are those of rows: what GetReport copies into the
\* answer was found in the store.
ReportTypeOK ==
  /\ report.at \in {"none", "stages", "stage", "jobs"}
  /\ report.at # "none" => report.run \in JobStatuses \ {"none", "running"}
  /\ report.at = "jobs" => /\ report.stage \in Stages
                           /\ report.status \in JobStatuses \ {"none", "running"}

\* GetReport reads from the run down, so a torn report errs on the safe side: one
\* that calls the run a success shows no stage without an end ...
SuccessfulRunShowsEndedStages ==
  report.at \in {"stages", "stage"} /\ report.run = "success" =>
    \A s \in Stages : StageRow(s) \in Terminal

\* ... and one that calls the run or the stage a success shows every job of the
\* stage, none of them still queued.
SuccessShowsItsJobs ==
  report.at = "jobs" /\ "success" \in {report.run, report.status} =>
    \A j \in StageJobs(report.stage) :
      j \in JobRows(report.stage, NoFilter) /\ jobRow[j] # "queued"
====
