---------------------------- MODULE Orchestrator ----------------------------
(***************************************************************************)
(* One pipeline run, from POST /run to its last job: the request goroutine *)
(* and the dispatch goroutine of Run, the job-started and job-finished     *)
(* callback handlers, the report-store rows they write, the in-memory      *)
(* runtime, the job queue and the workers that drain it                    *)
(* (internal/services/orchestrator/{service,callbacks,dispatch,            *)
(* persistence}.go, internal/services/worker/service.go).                  *)
(*                                                                         *)
(* Every statement of a callback handler that reads or writes shared state *)
(* is a step of its own.  The maps of stageState have no lock, and         *)
(* handlers run on one goroutine per request, so their steps interleave;   *)
(* the crash by which the Go runtime may answer a concurrent map write is  *)
(* the Crash action.  A store write, a publish or a delivery may fail, up  *)
(* to MaxFaults times in a behaviour.                                      *)
(***************************************************************************)
EXTENDS Integers, Sequences, FiniteSets

CONSTANTS
  Jobs,           \* the jobs of the pipeline
  NumStages,      \* stages are named by their position in stageOrder
  StageOf,        \* StageOf[j]: the stage of j
  Needs,          \* Needs[j]: the needs list of j, all of the same stage
  AllowFailures,  \* the jobs with failures: true
  Workers,        \* job consumers
  Handlers,       \* bound: callback requests the service works on at once
  FaultKinds,     \* the kinds of fault that happen
  MaxFaults,      \* bound: how many faults happen
  NoWorker        \* the client of a request that nobody waits for any more

Stages == 1 .. NumStages

\* What planner.BuildStagePlan guarantees of a validated pipeline: needs stay in
\* the stage, and a stage with jobs has one to begin with (no cycles).
ASSUME PipelineAssumption ==
  /\ IsFiniteSet(Jobs) /\ Jobs # {}
  /\ NumStages \in Nat \ {0}
  /\ StageOf \in [Jobs -> Stages]
  /\ Needs \in [Jobs -> Seq(Jobs)]
  /\ \A j \in Jobs : \A i \in DOMAIN Needs[j] : StageOf[Needs[j][i]] = StageOf[j]
  /\ \A j \in Jobs : \E k \in Jobs : StageOf[k] = StageOf[j] /\ Needs[k] = << >>
  /\ AllowFailures \subseteq Jobs
  /\ NoWorker \notin Workers
  /\ FaultKinds \subseteq {"db", "publish", "redeliver", "timeout", "stop", "crash"}
  /\ MaxFaults \in Nat

\* planner.BuildStagePlan: the jobs of a stage, and for each job the places in
\* other jobs' needs lists where it is named (plan.Dependents, with repetition).
StageJobs(s) == {j \in Jobs : StageOf[j] = s}
Dependents(j) == UNION {{d} \X {i \in DOMAIN Needs[d] : Needs[d][i] = j} : d \in Jobs}
InDegree == [j \in Jobs |-> Len(Needs[j])]

JobStatuses == {"none", "queued", "running", "success", "failed"}
Terminal == {"success", "failed"}

VARIABLES
  runRow, stageRow, jobRow,       \* status columns of the report store
  runtime,                        \* the run has an entry in s.runtimes
  remainingNeeds, queued, completed,  \* the maps of its stageStates
  request,                        \* the goroutines of Run: [pc, at, ready]
  handler,                        \* handler[h]: one job-finished request
  lateStarted,                    \* job-started requests whose client gave up
  broker,                         \* broker[j]: messages for j waiting in the job queue
  worker,                         \* worker[w]: one job consumer
  faults,                         \* faults still to come
  published,                      \* history: how often a message for j was published
  reported                        \* history: the outcomes finishJob stored for j

rows == <<runRow, stageRow, jobRow>>
maps == <<remainingNeeds, queued, completed>>
history == <<published, reported>>
vars == <<rows, runtime, maps, request, handler, lateStarted, broker, worker, faults, history>>

HandlerPCs ==
  {"free", "finishJob", "lookup", "terminal", "failStage", "failRun", "delete", "check", "mark",
   "dependents", "load", "store", "release", "queue", "publish", "complete",
   "finishStage", "finishRun", "finishNext"}
RequestPCs == {"create", "rows", "scan", "publish", "abort", "delete", "done"}
WorkerPCs == {"idle", "started", "execute", "report", "wait"}

RequestStates == [pc : RequestPCs, at : Nat, ready : SUBSET Jobs]
HandlerStates ==
  [pc : HandlerPCs, job : Jobs, status : Terminal, client : Workers \cup {NoWorker},
   stage : Stages, todo : SUBSET (Jobs \X Nat), at : Jobs, value : Int, ready : SUBSET Jobs]
WorkerStates == [pc : WorkerPCs, job : Jobs, status : Terminal, unacked : BOOLEAN]

TypeOK ==
  /\ runRow \in JobStatuses \ {"running"}
  /\ stageRow \in [Stages -> JobStatuses \ {"running"}]
  /\ jobRow \in [Jobs -> JobStatuses]
  /\ runtime \in BOOLEAN
  /\ remainingNeeds \in [Jobs -> Int]
  /\ queued \subseteq Jobs
  /\ completed \subseteq Jobs
  /\ request \in RequestStates
  /\ handler \in [Handlers -> HandlerStates]
  /\ lateStarted \subseteq Jobs
  /\ broker \in [Jobs -> Nat]
  /\ worker \in [Workers -> WorkerStates]
  /\ faults \in 0 .. MaxFaults
  /\ published \in [Jobs -> Nat]
  /\ reported \in [Jobs -> SUBSET Terminal]

AnyJob == CHOOSE j \in Jobs : TRUE
FreeHandler ==
  [pc |-> "free", job |-> AnyJob, status |-> "success", client |-> NoWorker,
   stage |-> 1, todo |-> {}, at |-> AnyJob, value |-> 0, ready |-> {}]
IdleWorker == [pc |-> "idle", job |-> AnyJob, status |-> "success", unacked |-> FALSE]

Init ==
  /\ runRow = "none"
  /\ stageRow = [s \in Stages |-> "none"]
  /\ jobRow = [j \in Jobs |-> "none"]
  /\ runtime = FALSE
  /\ remainingNeeds = InDegree
  /\ queued = {}
  /\ completed = {}
  /\ request = [pc |-> "create", at |-> 1, ready |-> {}]
  /\ handler = [h \in Handlers |-> FreeHandler]
  /\ lateStarted = {}
  /\ broker = [j \in Jobs |-> 0]
  /\ worker = [w \in Workers |-> IdleWorker]
  /\ faults = MaxFaults
  /\ published = [j \in Jobs |-> 0]
  /\ reported = [j \in Jobs |-> {}]

-----------------------------------------------------------------------------
\* Faults.  A request whose client is gone has a cancelled context: its next
\* store write or publish may fail without any fault of the store or broker.
\* A write that fails may still have been applied (a lost answer).

Spend(kind) == kind \in FaultKinds /\ faults > 0 /\ faults' = faults - 1
FailsFor(h, kind) == IF handler[h].client = NoWorker THEN UNCHANGED faults ELSE Spend(kind)

\* A message is routed to the job queue n times and counted as published.
Route(j, n) ==
  /\ broker' = [broker EXCEPT ![j] = @ + n]
  /\ published' = [published EXCEPT ![j] = @ + n]

\* enqueueJob fails: the message may still have been routed (a lost confirm).
RouteUnconfirmed(j) == Route(j, 1) \/ UNCHANGED <<broker, published>>

-----------------------------------------------------------------------------
\* Service.Run.  startPipelineRun, then one row per stage and job.

StartPipelineRun ==
  /\ request.pc = "create"
  /\ \/ /\ runRow' = "queued"
        /\ request' = [request EXCEPT !.pc = "rows"]
        /\ UNCHANGED faults
     \/ /\ Spend("db")
        /\ runRow' \in {runRow, "queued"}
        /\ request' = [request EXCEPT !.pc = "done"]
  /\ UNCHANGED <<stageRow, jobRow, runtime, maps, handler, lateStarted, broker, worker, history>>

RowsWritten(s) == stageRow[s] = "queued" /\ \A j \in StageJobs(s) : jobRow[j] = "queued"

\* The error paths of initializePipelineRuntime ignore the errors of their own
\* writes, which use the context that may have caused the failure.
StartStage(s) ==
  /\ request.pc = "rows" /\ stageRow[s] = "none"
  /\ \A earlier \in 1 .. s - 1 : RowsWritten(earlier)
  /\ \/ /\ stageRow' = [stageRow EXCEPT ![s] = "queued"]
        /\ UNCHANGED <<runRow, request, faults>>
     \/ /\ Spend("db")
        /\ stageRow' \in {stageRow, [stageRow EXCEPT ![s] = "queued"]}
        /\ runRow' \in {runRow, "failed"}
        /\ request' = [request EXCEPT !.pc = "done"]
  /\ UNCHANGED <<jobRow, runtime, maps, handler, lateStarted, broker, worker, history>>

StartJob(j) ==
  /\ request.pc = "rows" /\ stageRow[StageOf[j]] = "queued" /\ jobRow[j] = "none"
  /\ \/ /\ jobRow' = [jobRow EXCEPT ![j] = "queued"]
        /\ UNCHANGED <<runRow, stageRow, request, faults>>
     \/ /\ Spend("db")
        /\ jobRow' \in {jobRow, [jobRow EXCEPT ![j] = "queued"]}
        /\ stageRow' \in {stageRow, [stageRow EXCEPT ![StageOf[j]] = "failed"]}
        /\ runRow' \in {runRow, "failed"}
        /\ request' = [request EXCEPT !.pc = "done"]
  /\ UNCHANGED <<runtime, maps, handler, lateStarted, broker, worker, history>>

\* putRuntime, the 200 answer and the start of the dispatch goroutine.
PutRuntime ==
  /\ request.pc = "rows" /\ \A s \in Stages : RowsWritten(s)
  /\ runtime' = TRUE
  /\ request' = [request EXCEPT !.pc = "scan"]
  /\ UNCHANGED <<rows, maps, handler, lateStarted, broker, worker, faults, history>>

-----------------------------------------------------------------------------
\* dispatchPipelineStartJobs.  Nothing of the run is published yet when the
\* goroutine looks for ready jobs, so getReadyJobs is one step here.

ReadyJobs(s) ==
  {j \in StageJobs(s) : remainingNeeds[j] = 0 /\ j \notin queued /\ j \notin completed}

EnqueueFirstReadyStageJobs ==
  /\ request.pc = "scan" /\ request.at <= NumStages
  /\ LET ready == ReadyJobs(request.at)
     IN \/ /\ ready # {}
           /\ queued' = queued \cup ready
           /\ request' = [request EXCEPT !.pc = "publish", !.ready = ready]
           /\ UNCHANGED <<stageRow, faults>>
        \/ /\ ready = {}
           /\ stageRow' = IF StageJobs(request.at) = {}
                          THEN [stageRow EXCEPT ![request.at] = "success"] ELSE stageRow
           /\ request' = [request EXCEPT !.at = @ + 1]
           /\ UNCHANGED <<queued, faults>>
        \/ /\ ready = {} /\ StageJobs(request.at) = {} /\ Spend("db")
           /\ stageRow' \in {stageRow, [stageRow EXCEPT ![request.at] = "success"]}
           /\ request' = [request EXCEPT !.pc = "abort"]
           /\ UNCHANGED queued
  /\ UNCHANGED <<runRow, jobRow, runtime, remainingNeeds, completed, handler, lateStarted,
                 broker, worker, history>>

DispatchPublish ==
  /\ request.pc = "publish"
  /\ \E j \in request.ready :
       \/ /\ Route(j, 1)
          /\ request' = [request EXCEPT !.ready = @ \ {j}]
          /\ UNCHANGED faults
       \/ /\ Spend("publish") /\ Route(j, 2)
          /\ request' = [request EXCEPT !.ready = @ \ {j}]
       \/ /\ Spend("publish") /\ RouteUnconfirmed(j)
          /\ request' = [request EXCEPT !.pc = "abort", !.ready = {}]
  /\ UNCHANGED <<rows, runtime, maps, handler, lateStarted, worker, reported>>

DispatchDone ==
  /\ \/ request.pc = "scan" /\ request.at > NumStages
     \/ request.pc = "publish" /\ request.ready = {}
  /\ request' = [request EXCEPT !.pc = "done"]
  /\ UNCHANGED <<rows, runtime, maps, handler, lateStarted, broker, worker, faults, history>>

\* The error path: the run is marked failed, whether or not the store accepts it.
DispatchAbort ==
  /\ request.pc = "abort"
  /\ \/ runRow' = "failed" /\ UNCHANGED faults
     \/ Spend("db") /\ runRow' \in {runRow, "failed"}
  /\ request' = [request EXCEPT !.pc = "delete"]
  /\ UNCHANGED <<stageRow, jobRow, runtime, maps, handler, lateStarted, broker, worker, history>>

DispatchDeleteRuntime ==
  /\ request.pc = "delete"
  /\ runtime' = FALSE
  /\ request' = [request EXCEPT !.pc = "done"]
  /\ UNCHANGED <<rows, maps, handler, lateStarted, broker, worker, faults, history>>

-----------------------------------------------------------------------------
\* HandleJobFinished, statement by statement, for the request in slot h.

Become(h, state) == handler' = [handler EXCEPT ![h] = state]
Goto(h, label) == Become(h, [handler[h] EXCEPT !.pc = label])

\* The handler returns: 200 lets the worker acknowledge the message, 500 makes
\* it report again.  Nobody hears the answer to an abandoned request.
Respond(h, ok) ==
  LET w == handler[h].client
  IN /\ Become(h, FreeHandler)
     /\ worker' = IF w = NoWorker THEN worker
                  ELSE [worker EXCEPT ![w] = IF ok THEN IdleWorker ELSE [@ EXCEPT !.pc = "report"]]

\* Mutant: an error of the store is answered with 200.
StoreErrorAcked(h) == FailsFor(h, "db") /\ Respond(h, TRUE)

StoreError(h) == FailsFor(h, "db") /\ Respond(h, FALSE)

\* Mutant: the error of finishJob is logged and the handler goes on.
FinishJobIgnoresError(h) ==
  /\ handler[h].pc = "finishJob"
  /\ \/ /\ jobRow' = [jobRow EXCEPT ![handler[h].job] = handler[h].status]
        /\ reported' = [reported EXCEPT ![handler[h].job] = @ \cup {handler[h].status}]
        /\ UNCHANGED faults
     \/ FailsFor(h, "db") /\ UNCHANGED <<jobRow, reported>>
  /\ Goto(h, "lookup")
  /\ UNCHANGED <<runRow, stageRow, runtime, maps, request, lateStarted, broker, worker, published>>

FinishJob(h) ==
  LET j == handler[h].job
      st == handler[h].status
      Stored == /\ jobRow' = [jobRow EXCEPT ![j] = st]
                /\ reported' = [reported EXCEPT ![j] = @ \cup {st}]
  IN /\ handler[h].pc = "finishJob"
     /\ \/ Stored /\ Goto(h, "lookup") /\ UNCHANGED <<worker, faults>>
        \/ StoreError(h) /\ (Stored \/ UNCHANGED <<jobRow, reported>>)
     /\ UNCHANGED <<runRow, stageRow, runtime, maps, request, lateStarted, broker, published>>

\* getPipelineRuntime; the handler keeps the pointer it found.
LookupRuntime(h) ==
  /\ handler[h].pc = "lookup"
  /\ \/ ~runtime /\ Respond(h, TRUE)
     \/ /\ runtime
        /\ IF handler[h].status = "failed" /\ handler[h].job \notin AllowFailures
           THEN Goto(h, "terminal")
           ELSE Goto(h, "check")
        /\ UNCHANGED worker
  /\ UNCHANGED <<rows, runtime, maps, request, lateStarted, broker, faults, history>>

MarkJobTerminal(h) ==
  /\ handler[h].pc = "terminal"
  /\ completed' = completed \cup {handler[h].job}
  /\ Goto(h, "failStage")
  /\ UNCHANGED <<rows, runtime, remainingNeeds, queued, request, lateStarted, broker, worker,
                 faults, history>>

\* finishStage with the given status; "next" is where the handler goes on.
FinishStageAs(h, s, status, next) ==
  /\ \/ /\ stageRow' = [stageRow EXCEPT ![s] = status]
        /\ Become(h, next)
        /\ UNCHANGED <<worker, faults>>
     \/ /\ StoreError(h)
        /\ stageRow' \in {stageRow, [stageRow EXCEPT ![s] = status]}
  /\ UNCHANGED <<runRow, jobRow, runtime, maps, request, lateStarted, broker, history>>

FinishRunAs(h, status) ==
  /\ \/ runRow' = status /\ Goto(h, "delete") /\ UNCHANGED <<worker, faults>>
     \/ StoreError(h) /\ runRow' \in {runRow, status}
  /\ UNCHANGED <<stageRow, jobRow, runtime, maps, request, lateStarted, broker, history>>

FailStage(h) ==
  /\ handler[h].pc = "failStage"
  /\ FinishStageAs(h, StageOf[handler[h].job], "failed", [handler[h] EXCEPT !.pc = "failRun"])

FailRun(h) == handler[h].pc = "failRun" /\ FinishRunAs(h, "failed")

DeleteRuntime(h) ==
  /\ handler[h].pc = "delete"
  /\ runtime' = FALSE
  /\ Respond(h, TRUE)
  /\ UNCHANGED <<rows, maps, request, lateStarted, broker, faults, history>>

\* markJobSucceeded.  The dependents are visited in an order that the pipeline
\* file decides, so the model allows every order.
MarkJobSucceeded(h) ==
  LET j == handler[h].job
  IN \/ /\ handler[h].pc = "check"
        /\ Goto(h, IF j \in completed THEN "complete" ELSE "mark")
        /\ UNCHANGED completed
     \/ /\ handler[h].pc = "mark"
        /\ completed' = completed \cup {j}
        /\ Become(h, [handler[h] EXCEPT !.pc = "dependents", !.todo = Dependents(j)])

\* The loop over the dependents; p[2] = 0 marks a job of getReadyJobs, which is
\* tested without a decrement.
NextDependent(h) ==
  /\ handler[h].pc = "dependents"
  /\ \/ handler[h].todo = {} /\ Goto(h, "publish")
     \/ \E p \in handler[h].todo :
          Become(h, [handler[h] EXCEPT
            !.todo = @ \ {p}, !.at = p[1],
            !.pc = IF p[2] # 0 /\ remainingNeeds[p[1]] > 0 THEN "load" ELSE "release"])

\* remainingNeeds[dependent]-- reads the map and writes it back.
LoadRemaining(h) ==
  /\ handler[h].pc = "load"
  /\ Become(h, [handler[h] EXCEPT !.pc = "store", !.value = remainingNeeds[handler[h].at]])

StoreRemaining(h) ==
  /\ handler[h].pc = "store"
  /\ remainingNeeds' = [remainingNeeds EXCEPT ![handler[h].at] = handler[h].value - 1]
  /\ Goto(h, "release")

\* Mutant: a dependent is released by the first of its needs.
TestReadyIgnoresNeeds(h) ==
  LET d == handler[h].at
  IN /\ handler[h].pc = "release"
     /\ Goto(h, IF d \notin queued /\ d \notin completed THEN "queue" ELSE "dependents")

TestReady(h) ==
  LET d == handler[h].at
  IN /\ handler[h].pc = "release"
     /\ Goto(h, IF remainingNeeds[d] = 0 /\ d \notin queued /\ d \notin completed
                THEN "queue" ELSE "dependents")

MarkQueued(h) ==
  LET d == handler[h].at
  IN /\ handler[h].pc = "queue"
     /\ queued' = queued \cup {d}
     /\ Become(h, [handler[h] EXCEPT !.pc = "dependents", !.ready = @ \cup {d}])

\* The steps on stageState: they touch nothing but its maps and the handler.
StageStateStep(h) ==
  /\ \/ MarkJobSucceeded(h) /\ UNCHANGED <<remainingNeeds, queued>>
     \/ NextDependent(h) /\ UNCHANGED maps
     \/ LoadRemaining(h) /\ UNCHANGED maps
     \/ StoreRemaining(h) /\ UNCHANGED <<queued, completed>>
     \/ TestReady(h) /\ UNCHANGED maps
     \/ MarkQueued(h) /\ UNCHANGED <<remainingNeeds, completed>>
  /\ UNCHANGED <<rows, runtime, request, lateStarted, broker, worker, faults, history>>

\* enqueueReadyJobs: the confirm of a publish may be lost, and enqueueJob then
\* publishes again, or gives up.
EnqueueReadyJobs(h) ==
  /\ handler[h].pc = "publish"
  /\ \/ /\ handler[h].ready = {}
        /\ Goto(h, "complete")
        /\ UNCHANGED <<broker, published, worker, faults>>
     \/ \E j \in handler[h].ready :
          \/ /\ \/ Route(j, 1) /\ UNCHANGED faults
                \/ Route(j, 2) /\ Spend("publish")
             /\ Become(h, [handler[h] EXCEPT !.ready = @ \ {j}])
             /\ UNCHANGED worker
          \/ RouteUnconfirmed(j) /\ FailsFor(h, "publish") /\ Respond(h, FALSE)
  /\ UNCHANGED <<rows, runtime, maps, request, lateStarted, reported>>

\* Mutant: isStageComplete counts the queued jobs.
TestCompleteCountsQueued(h) ==
  LET s == handler[h].stage
  IN /\ handler[h].pc = "complete"
     /\ \/ ~(StageJobs(s) \subseteq queued) /\ Respond(h, TRUE)
        \/ /\ StageJobs(s) \subseteq queued
           /\ Goto(h, IF s = StageOf[handler[h].job] THEN "finishStage" ELSE "finishNext")
           /\ UNCHANGED worker
     /\ UNCHANGED <<rows, runtime, maps, request, lateStarted, broker, faults, history>>

\* isStageComplete, of the job's own stage and of the next one.
TestComplete(h) ==
  LET s == handler[h].stage
  IN /\ handler[h].pc = "complete"
     /\ \/ ~(StageJobs(s) \subseteq completed) /\ Respond(h, TRUE)
        \/ /\ StageJobs(s) \subseteq completed
           /\ Goto(h, IF s = StageOf[handler[h].job] THEN "finishStage" ELSE "finishNext")
           /\ UNCHANGED worker
     /\ UNCHANGED <<rows, runtime, maps, request, lateStarted, broker, faults, history>>

\* Mutant: nextStageName returns one name too many.
FinishStageOffByOne(h) ==
  LET s == handler[h].stage
  IN /\ handler[h].pc = "finishStage"
     /\ FinishStageAs(h, s, "success",
          [handler[h] EXCEPT !.pc = "dependents", !.stage = s + 1,
                             !.todo = StageJobs(s + 1) \X {0}])

\* Mutant: the last stage is left to finishRun.
FinishStageSkipsLast(h) ==
  LET s == handler[h].stage
  IN /\ handler[h].pc = "finishStage"
     /\ \/ /\ s = NumStages /\ Goto(h, "finishRun")
           /\ UNCHANGED <<rows, runtime, maps, request, lateStarted, broker, worker, faults, history>>
        \/ /\ s < NumStages
           /\ FinishStageAs(h, s, "success",
                [handler[h] EXCEPT !.pc = "dependents", !.stage = s + 1,
                                   !.todo = StageJobs(s + 1) \X {0}])

FinishStage(h) ==
  LET s == handler[h].stage
  IN /\ handler[h].pc = "finishStage"
     /\ FinishStageAs(h, s, "success",
          IF s = NumStages
          THEN [handler[h] EXCEPT !.pc = "finishRun"]
          ELSE [handler[h] EXCEPT !.pc = "dependents", !.stage = s + 1,
                                  !.todo = StageJobs(s + 1) \X {0}])

FinishRun(h) == handler[h].pc = "finishRun" /\ FinishRunAs(h, "success")

\* A next stage that is complete at once (it has no jobs) is finished here.
FinishNextStage(h) ==
  LET s == handler[h].stage
  IN /\ handler[h].pc = "finishNext"
     /\ \/ /\ stageRow' = [stageRow EXCEPT ![s] = "success"]
           /\ Respond(h, TRUE) /\ UNCHANGED faults
        \/ /\ StoreError(h)
           /\ stageRow' \in {stageRow, [stageRow EXCEPT ![s] = "success"]}
     /\ UNCHANGED <<runRow, jobRow, runtime, maps, request, lateStarted, broker, history>>

HandleJobFinished(h) ==
  \/ FinishJob(h) \/ LookupRuntime(h) \/ MarkJobTerminal(h) \/ FailStage(h) \/ FailRun(h)
  \/ DeleteRuntime(h) \/ StageStateStep(h) \/ EnqueueReadyJobs(h) \/ TestComplete(h)
  \/ FinishStage(h) \/ FinishRun(h) \/ FinishNextStage(h)

-----------------------------------------------------------------------------
\* A worker: handleJobMessage and reportJobFinishedUntilSuccess, under the
\* consume loop that acknowledges the message or puts it back.

WorkerOnly == <<rows, runtime, maps, request, history>>
PutBack(w) == broker' = IF worker[w].unacked
                        THEN [broker EXCEPT ![worker[w].job] = @ + 1] ELSE broker
\* The client of a request hangs up; the handler keeps running.
Abandon(w) ==
  handler' = [h \in Handlers |-> IF handler[h].pc # "free" /\ handler[h].client = w
                                 THEN [handler[h] EXCEPT !.client = NoWorker] ELSE handler[h]]

Deliver(w) ==
  /\ worker[w].pc = "idle"
  /\ \E j \in Jobs :
       /\ broker[j] > 0
       /\ broker' = [broker EXCEPT ![j] = @ - 1]
       /\ worker' = [worker EXCEPT ![w] = [@ EXCEPT !.pc = "started", !.job = j, !.unacked = TRUE]]
  /\ UNCHANGED <<WorkerOnly, handler, lateStarted, faults>>

\* callbackJobStarted and HandleJobStarted.  An error puts the message back; on
\* a time-out the update may still be applied later.
CallbackJobStarted(w) ==
  LET j == worker[w].job
      Running == jobRow' = [jobRow EXCEPT ![j] = "running"]
      Requeue == worker' = [worker EXCEPT ![w] = IdleWorker] /\ PutBack(w)
  IN /\ worker[w].pc = "started"
     /\ \/ /\ Running
           /\ worker' = [worker EXCEPT ![w].pc = "execute"]
           /\ UNCHANGED <<broker, lateStarted, faults>>
        \/ /\ Spend("db") /\ Requeue
           /\ Running \/ UNCHANGED jobRow
           /\ UNCHANGED lateStarted
        \/ /\ Spend("timeout") /\ Requeue
           /\ lateStarted' = lateStarted \cup {j}
           /\ UNCHANGED jobRow
     /\ UNCHANGED <<runRow, stageRow, runtime, maps, request, handler, history>>

LateJobStarted ==
  /\ \E j \in lateStarted :
       /\ lateStarted' = lateStarted \ {j}
       /\ jobRow' \in {jobRow, [jobRow EXCEPT ![j] = "running"]}
  /\ UNCHANGED <<runRow, stageRow, runtime, maps, request, handler, broker, worker, faults, history>>

ExecuteJob(w) ==
  /\ worker[w].pc = "execute"
  /\ \E st \in Terminal : worker' = [worker EXCEPT ![w].pc = "report", ![w].status = st]
  /\ UNCHANGED <<WorkerOnly, handler, lateStarted, broker, faults>>

CallbackJobFinished(w) ==
  /\ worker[w].pc = "report"
  /\ \E h \in Handlers :
       /\ handler[h].pc = "free"
       /\ Become(h, [FreeHandler EXCEPT
            !.pc = "finishJob", !.job = worker[w].job, !.client = w,
            !.status = worker[w].status, !.stage = StageOf[worker[w].job]])
  /\ worker' = [worker EXCEPT ![w].pc = "wait"]
  /\ UNCHANGED <<WorkerOnly, lateStarted, broker, faults>>

\* The 15 s timeout of the HTTP client; the worker will report again.
CallbackTimeout(w) ==
  /\ worker[w].pc = "wait" /\ Spend("timeout")
  /\ worker' = [worker EXCEPT ![w].pc = "report"]
  /\ Abandon(w)
  /\ UNCHANGED <<WorkerOnly, lateStarted, broker>>

\* The broker loses the consumer's channel and queues the message again, while
\* the worker goes on with the job.
ChannelLost(w) ==
  /\ worker[w].pc # "idle" /\ worker[w].unacked /\ Spend("redeliver")
  /\ PutBack(w)
  /\ worker' = [worker EXCEPT ![w].unacked = FALSE]
  /\ UNCHANGED <<WorkerOnly, handler, lateStarted>>

\* The worker process stops; another one takes its place.
WorkerStops(w) ==
  /\ worker[w].pc # "idle" /\ Spend("stop")
  /\ PutBack(w)
  /\ worker' = [worker EXCEPT ![w] = IdleWorker]
  /\ Abandon(w)
  /\ UNCHANGED <<WorkerOnly, lateStarted>>

\* The orchestrator process stops and starts again with empty runtimes.
Crash ==
  /\ Spend("crash")
  /\ runtime' = FALSE
  /\ remainingNeeds' = InDegree /\ queued' = {} /\ completed' = {}
  /\ request' = [pc |-> "done", at |-> 1, ready |-> {}]
  /\ handler' = [h \in Handlers |-> FreeHandler]
  /\ worker' = [w \in Workers |-> IF worker[w].pc = "wait"
                                  THEN [worker[w] EXCEPT !.pc = "report"] ELSE worker[w]]
  /\ lateStarted' = {}
  /\ UNCHANGED <<rows, broker, history>>

\* Nothing is left to do for this run.
Quiescent ==
  /\ request.pc = "done" /\ lateStarted = {}
  /\ \A j \in Jobs : broker[j] = 0
  /\ \A w \in Workers : worker[w].pc = "idle"
  /\ \A h \in Handlers : handler[h].pc = "free"
  /\ UNCHANGED vars

RequestStep ==
  \/ StartPipelineRun \/ PutRuntime \/ EnqueueFirstReadyStageJobs \/ DispatchPublish
  \/ DispatchDone \/ DispatchAbort \/ DispatchDeleteRuntime
  \/ \E s \in Stages : StartStage(s)
  \/ \E j \in Jobs : StartJob(j)

WorkerStep(w) ==
  Deliver(w) \/ CallbackJobStarted(w) \/ ExecuteJob(w) \/ CallbackJobFinished(w)

Fault == Crash \/ \E w \in Workers : CallbackTimeout(w) \/ ChannelLost(w) \/ WorkerStops(w)

Next ==
  \/ RequestStep \/ LateJobStarted \/ Fault \/ Quiescent
  \/ \E h \in Handlers : HandleJobFinished(h)
  \/ \E w \in Workers : WorkerStep(w)

\* Go schedules every runnable goroutine, the broker delivers what it holds and
\* a worker retries its report without limit; faults are never forced.
Fairness ==
  /\ WF_vars(RequestStep) /\ WF_vars(LateJobStarted)
  /\ \A h \in Handlers : WF_vars(HandleJobFinished(h))
  /\ \A w \in Workers : WF_vars(WorkerStep(w))

Spec == Init /\ [][Next]_vars /\ Fairness

-----------------------------------------------------------------------------
\* Properties.

\* A job has counted as done for the jobs and stages after it.
Passed(j) == "success" \in reported[j] \/ (j \in AllowFailures /\ reported[j] # {})

\* HandleJobFinished and dispatchPipelineStartJobs release the stages in order:
\* no message of a job is published before every job of every earlier stage has
\* an outcome in the store.
StagesInOrder ==
  \A j \in Jobs : published[j] > 0 =>
    \A k \in Jobs : StageOf[k] < StageOf[j] => reported[k] # {}

\* A stage, or the run, is recorded as "success" only when every job up to its
\* end has an outcome in the store, whatever went wrong on the way.
SuccessCoversJobs ==
  /\ runRow = "success" => \A j \in Jobs : reported[j] # {}
  /\ \A s \in Stages : stageRow[s] = "success" =>
       \A j \in Jobs : StageOf[j] <= s => reported[j] # {}

\* markJobSucceeded releases a job only after all its needs have passed, when the
\* callbacks of the run are handled one at a time.
NeedsBeforeRelease ==
  \A j \in Jobs : published[j] > 0 => \A i \in DOMAIN Needs[j] : Passed(Needs[j][i])

\* finishPipelineRun: once the row of the run is terminal its status stays.
TerminalRunStatusIsFinal == [][~(runRow \in Terminal)]_runRow

\* A run whose runtime was registered ends with a terminal status in the store.
DispatchedRunTerminates == runtime ~> runRow \in Terminal

\* The run keeps the promise that PipelineRun states.
Promise == INSTANCE PipelineRun WITH
  status <- runRow, released <- {j \in Jobs : published[j] > 0}, outcome <- reported
KeepsPromise == Promise!Spec
====
