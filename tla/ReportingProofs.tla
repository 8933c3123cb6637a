-------------------------- MODULE ReportingProofs --------------------------
(***************************************************************************)
(* Reports of any run, for every pipeline, number of workers and handlers, *)
(* and set of faults: what a report calls a success is complete.  Proved   *)
(* from the invariant of OrchestratorProofs and three facts about the rows *)
(* that GetReport reads: the row of a job leaves "queued" with its first   *)
(* outcome, an ended stage stays ended, and stages end in order.           *)
(***************************************************************************)
EXTENDS Reporting, OrchestratorProofs

\* How long the provers may take over a leaf.
USE SMTT(20), ZenonT(20)

\* The row of a job that has an outcome was taken off the queue.
RowsMoveOn == \A j \in Jobs : reported[j] # {} => jobRow[j] \notin {"none", "queued"}

\* The stages up to s have ended.
Ended(table, s) == \A t \in Stages : t <= s => table[t] \in Terminal

HandlerEnds(table, r) ==
  r.pc # "free" => Ended(table, r.stage - 1) /\ (r.pc = "finishRun" => Ended(table, NumStages))

StagesEnd ==
  /\ runRow = "success" => Ended(stageRow, NumStages)
  /\ \A j \in Jobs : published[j] > 0 => Ended(stageRow, StageOf[j] - 1)
  /\ \A h \in Handlers : HandlerEnds(stageRow, handler[h])
  /\ request.pc \in {"scan", "publish"} => Ended(stageRow, request.at - 1)

\* What was read in this request still holds of the rows that are read next.
IsReport ==
  \E at, stage, job, run, status :
    report = [at |-> at, stage |-> stage, job |-> job, run |-> run, status |-> status]
ReportKnows ==
  /\ IsReport /\ ReportTypeOK
  /\ report.at # "none" /\ report.run = "success" =>
       Ended(stageRow, NumStages) /\ \A j \in Jobs : reported[j] # {}
  /\ report.at = "jobs" /\ report.status = "success" =>
       \A j \in Jobs : StageOf[j] <= report.stage => reported[j] # {}

ReportInv == IInv /\ RowsMoveOn /\ StagesEnd /\ ReportKnows

-----------------------------------------------------------------------------
\* The rows.

\* The row of a job is written by StartJob while it is missing, and afterwards
\* only with "running" or an outcome.
LEMMA NextRows == TypeOK /\ RowsMoveOn /\ [Next]_vars => RowsMoveOn'
<1> SUFFICES ASSUME TypeOK, RowsMoveOn, [Next]_vars PROVE RowsMoveOn'
  OBVIOUS
<1>a. ASSUME UNCHANGED <<jobRow, reported>> PROVE RowsMoveOn'
  BY <1>a DEF RowsMoveOn
<1>b. ASSUME reported' = reported, NEW j \in Jobs,
             jobRow' \in {jobRow, [jobRow EXCEPT ![j] = "running"]}
      PROVE  RowsMoveOn'
  BY <1>b DEF RowsMoveOn, TypeOK
<1>1. CASE RequestStep
  <2>1. ASSUME NEW j \in Jobs, StartJob(j) PROVE RowsMoveOn'
    <3>1. /\ jobRow[j] = "none" /\ reported' = reported
          /\ jobRow' \in {jobRow, [jobRow EXCEPT ![j] = "queued"]}
      BY <2>1 DEF StartJob, history
    <3> QED
      BY <3>1 DEF RowsMoveOn, TypeOK
  <2>2. CASE ~\E j \in Jobs : StartJob(j)
    BY <1>1, <1>a, <2>2, RequestFrame
  <2> QED
    BY <2>1, <2>2
<1>2. CASE LateJobStarted
  <2>1. lateStarted \subseteq Jobs
    BY DEF TypeOK
  <2> QED
    BY <1>2, <1>b, <2>1 DEF LateJobStarted, history
<1>3. CASE Quiescent \/ UNCHANGED vars \/ Crash
  BY <1>3, <1>a DEF Quiescent, vars, Crash, rows, history
<1>4. ASSUME NEW w \in Workers, WorkerStep(w) \/ CallbackTimeout(w) \/ ChannelLost(w) \/ WorkerStops(w)
      PROVE  RowsMoveOn'
  <2>1. CASE CallbackJobStarted(w)
    <3>1. worker[w].job \in Jobs
      BY DEF TypeOK, WorkerStates
    <3>2. /\ reported' = reported
          /\ jobRow' \in {jobRow, [jobRow EXCEPT ![worker[w].job] = "running"]}
      BY <2>1 DEF CallbackJobStarted, history
    <3> QED
      BY <1>b, <3>1, <3>2
  <2>2. CASE ~CallbackJobStarted(w)
    BY Zenon, <1>4, <1>a, <2>2, WorkerFrame
  <2> QED
    BY <2>1, <2>2
<1>5. ASSUME NEW h \in Handlers, HandleJobFinished(h) PROVE RowsMoveOn'
  <2>1. CASE FinishJob(h)
    <3>1. handler[h].job \in Jobs /\ handler[h].status \in {"success", "failed"}
      BY DEF TypeOK, HandlerStates, Terminal
    <3>2. \/ UNCHANGED <<jobRow, reported>>
          \/ /\ jobRow' = [jobRow EXCEPT ![handler[h].job] = handler[h].status]
             /\ reported' = [reported EXCEPT ![handler[h].job] = @ \cup {handler[h].status}]
      BY <2>1 DEF FinishJob
    <3> QED
      BY <3>1, <3>2 DEF RowsMoveOn, TypeOK
  <2>2. CASE ~FinishJob(h)
    BY Zenon, <1>5, <1>a, <2>2, HandlerFrame
  <2> QED
    BY <2>1, <2>2
<1> QED
  BY <1>1, <1>2, <1>3, <1>4, <1>5 DEF Next, Fault

\* An ended stage stays ended: StartStage writes missing rows only, and every
\* other write of a stage row ends the stage.
EndsStay == \A s \in Stages : stageRow[s] \in Terminal => stageRow'[s] \in Terminal

\* No step reopens a stage.
LEMMA NextEndsStay == TypeOK /\ [Next]_vars => EndsStay
<1> SUFFICES ASSUME TypeOK, [Next]_vars PROVE EndsStay
  OBVIOUS
<1>a. ASSUME stageRow' = stageRow PROVE EndsStay
  BY <1>a DEF EndsStay
<1>b. ASSUME NEW s, NEW st \in Terminal, stageRow' \in {stageRow, [stageRow EXCEPT ![s] = st]}
      PROVE  EndsStay
  BY <1>b DEF EndsStay, TypeOK
<1>c. "success" \in Terminal /\ "failed" \in Terminal
  BY DEF Terminal
<1>1. CASE RequestStep
  <2>1. ASSUME NEW s \in Stages, StartStage(s) PROVE EndsStay
    <3>1. stageRow[s] = "none" /\ stageRow' \in {stageRow, [stageRow EXCEPT ![s] = "queued"]}
      BY <2>1 DEF StartStage
    <3> QED
      BY <3>1 DEF EndsStay, TypeOK, Terminal
  <2>2. ASSUME NEW j \in Jobs, StartJob(j) PROVE EndsStay
    <3>1. stageRow' \in {stageRow, [stageRow EXCEPT ![StageOf[j]] = "failed"]}
      BY <2>2 DEF StartJob
    <3> QED
      BY <1>b, <1>c, <3>1
  <2>3. CASE EnqueueFirstReadyStageJobs
    <3>1. stageRow' \in {stageRow, [stageRow EXCEPT ![request.at] = "success"]}
      BY <2>3 DEF EnqueueFirstReadyStageJobs
    <3> QED
      BY <1>b, <1>c, <3>1
  <2>4. CASE StartPipelineRun \/ PutRuntime \/ DispatchPublish \/ DispatchDone \/ DispatchAbort
             \/ DispatchDeleteRuntime
    BY <1>a, <2>4 DEF StartPipelineRun, PutRuntime, DispatchPublish, DispatchDone, DispatchAbort,
                      DispatchDeleteRuntime, rows
  <2> QED
    BY <1>1, <2>1, <2>2, <2>3, <2>4 DEF RequestStep
<1>2. CASE LateJobStarted \/ Quiescent \/ UNCHANGED vars \/ Crash
  BY <1>2, <1>a, IdleFrame DEF Crash, rows
<1>3. ASSUME NEW w \in Workers, WorkerStep(w) \/ CallbackTimeout(w) \/ ChannelLost(w) \/ WorkerStops(w)
      PROVE  EndsStay
  BY Zenon, <1>3, <1>a, WorkerFrame
<1>4. ASSUME NEW h \in Handlers, HandleJobFinished(h) PROVE EndsStay
  <2>1. CASE FailStage(h)
    <3>1. stageRow' \in {stageRow, [stageRow EXCEPT ![StageOf[handler[h].job]] = "failed"]}
      BY <2>1 DEF FailStage, FinishStageAs
    <3> QED
      BY <1>b, <1>c, <3>1
  <2>2. CASE FinishStage(h) \/ FinishNextStage(h)
    <3>1. stageRow' \in {stageRow, [stageRow EXCEPT ![handler[h].stage] = "success"]}
      BY Zenon, <2>2 DEF FinishStage, FinishNextStage, FinishStageAs
    <3> QED
      BY Zenon, <1>b, <1>c, <3>1
  <2>3. CASE ~FailStage(h) /\ ~FinishStage(h) /\ ~FinishNextStage(h)
    BY Zenon, <1>4, <1>a, <2>3, HandlerFrame
  <2> QED
    BY <2>1, <2>2, <2>3
<1> QED
  BY <1>1, <1>2, <1>3, <1>4 DEF Next, Fault

\* What has ended, has ended after any step.
LEMMA EndedStays ==
  ASSUME EndsStay, NEW s, Ended(stageRow, s) PROVE Ended(stageRow', s)
BY DEF EndsStay, Ended

\* A handler changes the stage it works on, or reaches finishRun, in FinishStage only.
LEMMA StageOfRequest ==
  ASSUME TypeOK, NEW h \in Handlers, HandleJobFinished(h), ~FinishStage(h)
  PROVE  \/ handler'[h].pc = "free"
         \/ handler'[h].stage = handler[h].stage /\ handler'[h].pc # "finishRun"
<1> DEFINE Goal == \/ handler'[h].pc = "free"
                   \/ handler'[h].stage = handler[h].stage /\ handler'[h].pc # "finishRun"
<1>0. handler[h] \in HandlerStates
  BY DEF TypeOK
<1>a. ASSUME NEW r, Become(h, r), r.stage = handler[h].stage, r.pc # "finishRun" PROVE Goal
  BY <1>a, BecomeEffect
<1>b. ASSUME NEW label, Goto(h, label), label # "finishRun" PROVE Goal
  <2>1. /\ [handler[h] EXCEPT !.pc = label].stage = handler[h].stage
        /\ [handler[h] EXCEPT !.pc = label].pc = label
    BY <1>0 DEF HandlerStates
  <2> QED
    BY Zenon, <1>a, <1>b, <2>1 DEF Goto
<1>c. ASSUME NEW ok \in BOOLEAN, Respond(h, ok) PROVE Goal
  BY <1>c, RespondEffect
<1>1. CASE FinishJob(h)
  BY Zenon, <1>1, <1>b, <1>c DEF FinishJob, StoreError
<1>2. CASE LookupRuntime(h)
  BY Zenon, <1>2, <1>b, <1>c DEF LookupRuntime
<1>3. CASE MarkJobTerminal(h)
  BY <1>3, <1>b DEF MarkJobTerminal
<1>4. CASE FailStage(h)
  <2> DEFINE r == [handler[h] EXCEPT !.pc = "failRun"]
  <2>1. r.stage = handler[h].stage /\ r.pc = "failRun"
    BY <1>0 DEF HandlerStates
  <2>2. Become(h, r) \/ Respond(h, FALSE)
    BY Zenon, <1>4 DEF FailStage, FinishStageAs, StoreError
  <2> HIDE DEF r
  <2> QED
    BY Zenon, <1>a, <1>c, <2>1, <2>2
<1>5. CASE FailRun(h) \/ FinishRun(h)
  BY Zenon, <1>5, <1>b, <1>c DEF FailRun, FinishRun, FinishRunAs, StoreError
<1>6. CASE DeleteRuntime(h) \/ FinishNextStage(h)
  BY Zenon, <1>6, <1>c DEF DeleteRuntime, FinishNextStage, StoreError
<1>7. CASE TestComplete(h)
  BY Zenon, <1>7, <1>b, <1>c DEF TestComplete
<1>8. CASE EnqueueReadyJobs(h)
  <2> DEFINE r(j) == [handler[h] EXCEPT !.ready = @ \ {j}]
  <2>1. ASSUME NEW j PROVE r(j).stage = handler[h].stage /\ r(j).pc = handler[h].pc
    BY <1>0 DEF HandlerStates
  <2>2. \/ \E j \in handler[h].ready : Become(h, r(j))
        \/ Goto(h, "complete") \/ \E ok \in BOOLEAN : Respond(h, ok)
    BY Zenon, <1>8 DEF EnqueueReadyJobs
  <2>3. handler[h].pc = "publish"
    BY <1>8 DEF EnqueueReadyJobs
  <2> HIDE DEF r
  <2> QED
    BY <1>a, <1>b, <1>c, <2>1, <2>2, <2>3
<1>9. CASE StageStateStep(h)
  <2>1. CASE MarkJobSucceeded(h)
    <3> DEFINE r == [handler[h] EXCEPT !.pc = "dependents", !.todo = Dependents(handler[h].job)]
    <3>1. r.stage = handler[h].stage /\ r.pc = "dependents"
      BY <1>0 DEF HandlerStates
    <3>2. Become(h, r) \/ Goto(h, "complete") \/ Goto(h, "mark")
      BY <2>1 DEF MarkJobSucceeded
    <3> HIDE DEF r
    <3> QED
      BY <1>a, <1>b, <3>1, <3>2
  <2>2. CASE NextDependent(h)
    <3> DEFINE r(p) == [handler[h] EXCEPT
                 !.todo = @ \ {p}, !.at = p[1],
                 !.pc = IF p[2] # 0 /\ remainingNeeds[p[1]] > 0 THEN "load" ELSE "release"]
    <3>1. ASSUME NEW p PROVE r(p).stage = handler[h].stage /\ r(p).pc # "finishRun"
      BY <1>0 DEF HandlerStates
    <3>2. (\E p \in handler[h].todo : Become(h, r(p))) \/ Goto(h, "publish")
      BY Zenon, <2>2 DEF NextDependent
    <3> HIDE DEF r
    <3> QED
      BY <1>a, <1>b, <3>1, <3>2
  <2>3. CASE LoadRemaining(h)
    <3> DEFINE r == [handler[h] EXCEPT !.pc = "store", !.value = remainingNeeds[handler[h].at]]
    <3>1. r.stage = handler[h].stage /\ r.pc = "store"
      BY <1>0 DEF HandlerStates
    <3>2. Become(h, r)
      BY <2>3 DEF LoadRemaining
    <3> HIDE DEF r
    <3> QED
      BY <1>a, <3>1, <3>2
  <2>4. CASE StoreRemaining(h) \/ TestReady(h)
    BY <1>b, <2>4 DEF StoreRemaining, TestReady
  <2>5. CASE MarkQueued(h)
    <3> DEFINE r == [handler[h] EXCEPT !.pc = "dependents", !.ready = @ \cup {handler[h].at}]
    <3>1. r.stage = handler[h].stage /\ r.pc = "dependents"
      BY <1>0 DEF HandlerStates
    <3>2. Become(h, r)
      BY <2>5 DEF MarkQueued
    <3> HIDE DEF r
    <3> QED
      BY <1>a, <3>1, <3>2
  <2> QED
    BY <1>9, <2>1, <2>2, <2>3, <2>4, <2>5 DEF StageStateStep
<1> QED
  BY <1>1, <1>2, <1>3, <1>4, <1>5, <1>6, <1>7, <1>8, <1>9 DEF HandleJobFinished

-----------------------------------------------------------------------------
\* Stages end in order.

\* The steps after which handlers, publications and the dispatch goroutine are
\* where they were keep what is known, and so do those of the first three.
LEMMA StagesEndFrame ==
  ASSUME EndsStay, StagesEnd,
         runRow' = "success" => runRow = "success" \/ Ended(stageRow', NumStages),
         \A j \in Jobs : published'[j] > 0 =>
           published[j] > 0 \/ Ended(stageRow', StageOf[j] - 1),
         \A h \in Handlers : HandlerEnds(stageRow', handler'[h]),
         request'.pc \in {"scan", "publish"} => Ended(stageRow', request'.at - 1)
  PROVE  StagesEnd'
BY EndedStays DEF StagesEnd

\* A slot that holds the same request knows the same.
LEMMA SameRequestEnds ==
  ASSUME EndsStay, StagesEnd, NEW h \in Handlers,
         handler'[h].pc = handler[h].pc /\ handler'[h].stage = handler[h].stage
  PROVE  HandlerEnds(stageRow', handler'[h])
BY EndedStays DEF StagesEnd, HandlerEnds

\* So does the dispatch goroutine when it does not move.
LEMMA SameDispatchEnds ==
  ASSUME EndsStay, StagesEnd, request' = request
  PROVE  request'.pc \in {"scan", "publish"} => Ended(stageRow', request'.at - 1)
BY EndedStays DEF StagesEnd

\* The steps of Run and its dispatch goroutine.
LEMMA RequestStagesEnd ==
  ASSUME IInv, StagesEnd, EndsStay, RequestStep
  PROVE  StagesEnd'
<1>0. TypeOK /\ RequestKnows /\ request \in RequestStates /\ request.at \in Nat
  BY DEF IInv, TypeOK, RequestStates
<1>1. handler' = handler
  BY DEF RequestStep, StartPipelineRun, PutRuntime, EnqueueFirstReadyStageJobs, DispatchPublish,
         DispatchDone, DispatchAbort, DispatchDeleteRuntime, StartStage, StartJob
<1>2. runRow' = "success" => runRow = "success"
  BY DEF RequestStep, StartPipelineRun, PutRuntime, EnqueueFirstReadyStageJobs, DispatchPublish,
         DispatchDone, DispatchAbort, DispatchDeleteRuntime, StartStage, StartJob, rows
<1>3. \A h \in Handlers : HandlerEnds(stageRow', handler'[h])
  BY <1>1, SameRequestEnds
<1>4. CASE DispatchPublish
  <2>0. request.pc = "publish" /\ Ended(stageRow, request.at - 1)
    BY <1>4 DEF DispatchPublish, StagesEnd
  <2>1. PICK j \in request.ready :
          /\ Route(j, 1) \/ Route(j, 2) \/ RouteUnconfirmed(j)
          /\ \/ request' = [request EXCEPT !.ready = @ \ {j}]
             \/ request' = [request EXCEPT !.pc = "abort", !.ready = {}]
    BY <1>4 DEF DispatchPublish
  <2>2. j \in Jobs /\ StageOf[j] = request.at
    BY <1>0 DEF RequestKnows, StageJobs
  <2>3. \A k \in Jobs : published'[k] > 0 => published[k] > 0 \/ k = j
    BY <1>0, <2>1, <2>2, RouteGrows DEF RouteUnconfirmed
  <2>4. request'.at = request.at
    BY Zenon, <1>0, <2>1 DEF RequestStates
  <2>5. Ended(stageRow', request.at - 1)
    BY <2>0, EndedStays
  <2> QED
    BY <1>2, <1>3, <2>2, <2>3, <2>4, <2>5, StagesEndFrame
<1>5. CASE EnqueueFirstReadyStageJobs
  <2> DEFINE s == request.at
             r1 == [request EXCEPT !.pc = "publish", !.ready = ReadyJobs(s)]
             r2 == [request EXCEPT !.at = @ + 1]
             r3 == [request EXCEPT !.pc = "abort"]
  <2>0. request.pc = "scan" /\ published' = published /\ Ended(stageRow, s - 1) /\ s \in Nat
        /\ s <= NumStages
    BY <1>0, <1>5 DEF EnqueueFirstReadyStageJobs, history, StagesEnd
  <2>1. /\ r1.at = s /\ r2.at = s + 1 /\ r3.pc = "abort"
    BY <1>0 DEF RequestStates
  <2>2. Ended(stageRow', s - 1)
    BY <2>0, EndedStays
  <2>3. \/ request' = r1
        \/ /\ request' = r2 /\ ReadyJobs(s) = {}
           /\ stageRow' = IF StageJobs(s) = {}
                          THEN [stageRow EXCEPT ![s] = "success"] ELSE stageRow
        \/ request' = r3
    BY <1>5 DEF EnqueueFirstReadyStageJobs
  <2> HIDE DEF r1, r2, r3
  <2>4. CASE request' = r1 \/ request' = r3
    BY <1>2, <1>3, <2>0, <2>1, <2>2, <2>4, StagesEndFrame
  <2>5. CASE /\ request' = r2 /\ ReadyJobs(s) = {}
             /\ stageRow' = IF StageJobs(s) = {}
                            THEN [stageRow EXCEPT ![s] = "success"] ELSE stageRow
    <3>1. stageRow' = [stageRow EXCEPT ![s] = "success"]
      BY <1>0, <2>0, <2>5, NothingReady
    <3>2. \A t \in Stages : t \in Int
      BY PipelineAssumption DEF Stages
    <3>3. s \in Stages => stageRow'[s] \in Terminal
      BY <1>0, <3>1 DEF TypeOK, Terminal
    <3>4. Ended(stageRow', (s + 1) - 1)
      BY <2>0, <2>2, <3>2, <3>3 DEF Ended
    <3> QED
      BY Zenon, <1>2, <1>3, <2>0, <2>1, <2>5, <3>4, StagesEndFrame
  <2> QED
    BY <2>3, <2>4, <2>5
<1>6. CASE ~DispatchPublish /\ ~EnqueueFirstReadyStageJobs
  <2>1. /\ published' = published
        /\ request' = request \/ \E pc : request' = [request EXCEPT !.pc = pc]
        /\ request'.pc \in {"scan", "publish"} => request' = request \/ request.pc = "rows"
    BY <1>0, <1>6
       DEF RequestStep, StartPipelineRun, PutRuntime, DispatchDone, DispatchAbort,
           DispatchDeleteRuntime, StartStage, StartJob, history, RequestStates
  <2>2. request'.at = request.at
    BY <1>0, <2>1 DEF RequestStates
  <2>3. request.pc = "rows" => request.at = 1
    BY <1>0 DEF RequestKnows
  <2>4. Ended(stageRow', 1 - 1)
    <3>1. \A t \in Stages : ~(t <= 0)
      BY PipelineAssumption DEF Stages
    <3> QED
      BY <3>1 DEF Ended
  <2> QED
    BY <1>2, <1>3, <2>1, <2>2, <2>3, <2>4, SameDispatchEnds, StagesEndFrame
<1> QED
  BY <1>4, <1>5, <1>6

\* The steps of a handler.
LEMMA HandlerStagesEnd ==
  ASSUME IInv, StagesEnd, EndsStay, NEW h \in Handlers, HandleJobFinished(h)
  PROVE  StagesEnd'
<1>0. /\ TypeOK /\ handler[h] \in HandlerStates /\ handler[h].pc # "free"
      /\ Knows(reported, handler[h]) /\ HandlerEnds(stageRow, handler[h])
      /\ handler[h].stage \in Stages
  BY HandlerEffect DEF IInv, TypeOK, HandlersKnow, StagesEnd, HandlerStates
<1>1. request' = request
  BY Zenon, HandlerFrame
<1>2. \A g \in Handlers \ {h} : handler'[g] = handler[g]
  BY <1>0, HandlerEffect, RespondEffect DEF Moves
<1>3. Ended(stageRow', handler[h].stage - 1)
  BY <1>0, EndedStays DEF HandlerEnds
<1>4. HandlerEnds(stageRow', handler'[h])
  <2>1. CASE ~FinishStage(h)
    BY <1>0, <1>3, <2>1, StageOfRequest DEF HandlerEnds
  <2>2. CASE FinishStage(h)
    <3> DEFINE s == handler[h].stage
               r1 == [handler[h] EXCEPT !.pc = "finishRun"]
               r2 == [handler[h] EXCEPT !.pc = "dependents", !.stage = s + 1,
                                        !.todo = StageJobs(s + 1) \X {0}]
    <3>1. /\ r1.stage = s /\ r1.pc = "finishRun" /\ r2.stage = s + 1 /\ r2.pc = "dependents"
      BY <1>0 DEF HandlerStates
    <3>2. \/ Respond(h, FALSE)
          \/ /\ stageRow' = [stageRow EXCEPT ![s] = "success"]
             /\ (s = NumStages /\ Become(h, r1)) \/ Become(h, r2)
      BY Zenon, <2>2 DEF FinishStage, FinishStageAs, StoreError
    <3> HIDE DEF r1, r2
    <3>3. CASE Respond(h, FALSE)
      BY Zenon, <1>0, <3>3, RespondEffect DEF HandlerEnds
    <3>4. CASE /\ stageRow' = [stageRow EXCEPT ![s] = "success"]
               /\ (s = NumStages /\ Become(h, r1)) \/ Become(h, r2)
      <4>1. stageRow'[s] \in Terminal
        BY <1>0, <3>4 DEF TypeOK, Terminal
      <4>2. Ended(stageRow', s)
        <5>1. \A t \in Stages : t \in Int
          BY PipelineAssumption DEF Stages
        <5> QED
          BY <1>0, <1>3, <4>1, <5>1 DEF Ended
      <4>3. s = (s + 1) - 1
        BY <1>0, PipelineAssumption DEF Stages
      <4>4. (s = NumStages /\ handler'[h] = r1) \/ handler'[h] = r2
        BY <1>0, <3>4, BecomeEffect
      <4> QED
        BY <1>3, <3>1, <4>2, <4>3, <4>4 DEF HandlerEnds
    <3> QED
      BY Zenon, <3>2, <3>3, <3>4
  <2> QED
    BY <2>1, <2>2
<1>5. runRow' = "success" => runRow = "success" \/ Ended(stageRow', NumStages)
  <2>1. CASE FinishRun(h)
    <3>1. handler[h].pc = "finishRun"
      BY <2>1 DEF FinishRun
    <3> QED
      BY <1>0, <3>1, EndedStays DEF HandlerEnds
  <2>2. CASE ~FinishRun(h)
    BY Zenon, <2>2, HandlerFrame DEF FailRun, FinishRunAs
  <2> QED
    BY <2>1, <2>2
<1>6. \A j \in Jobs : published'[j] > 0 => published[j] > 0 \/ Ended(stageRow', StageOf[j] - 1)
  <2>1. CASE EnqueueReadyJobs(h)
    <3>1. \/ published' = published
          \/ \E j \in handler[h].ready : Route(j, 1) \/ Route(j, 2)
      BY Zenon, <2>1 DEF EnqueueReadyJobs, RouteUnconfirmed
    <3>2. \A j \in handler[h].ready : j \in Jobs /\ StageOf[j] = handler[h].stage
      BY <1>0 DEF Knows, StageJobs
    <3> QED
      BY <1>0, <1>3, <3>1, <3>2, RouteGrows
  <2>2. CASE ~EnqueueReadyJobs(h)
    BY Zenon, <2>2, HandlerFrame
  <2> QED
    BY <2>1, <2>2
<1>7. \A g \in Handlers : HandlerEnds(stageRow', handler'[g])
  BY <1>2, <1>4, SameRequestEnds
<1> QED
  BY <1>1, <1>5, <1>6, <1>7, SameDispatchEnds, StagesEndFrame

\* The stages of a run end in order, whatever the steps of the system.
LEMMA NextStagesEnd == IInv /\ StagesEnd /\ [Next]_vars => StagesEnd'
<1> SUFFICES ASSUME IInv, StagesEnd, [Next]_vars PROVE StagesEnd'
  OBVIOUS
<1>0. TypeOK /\ MessagesArePublished /\ EndsStay
  BY NextEndsStay DEF IInv
<1>1. CASE RequestStep
  BY <1>0, <1>1, RequestStagesEnd
<1>2. ASSUME NEW h \in Handlers, HandleJobFinished(h) PROVE StagesEnd'
  BY <1>0, <1>2, HandlerStagesEnd
<1>3. CASE LateJobStarted \/ Quiescent \/ UNCHANGED vars
  BY <1>3, IdleFrame DEF StagesEnd
<1>4. CASE Crash
  <2>1. \A h \in Handlers : HandlerEnds(stageRow', handler'[h])
    BY <1>4 DEF Crash, HandlerEnds, FreeHandler
  <2> QED
    BY <1>0, <1>4, <2>1, StagesEndFrame DEF Crash, rows, history
<1>5. ASSUME NEW w \in Workers, WorkerStep(w) \/ CallbackTimeout(w) \/ ChannelLost(w) \/ WorkerStops(w)
      PROVE  StagesEnd'
  <2>0. UNCHANGED <<runRow, stageRow, request, published>>
    BY Zenon, <1>5, WorkerFrame
  <2>1. \A h \in Handlers : HandlerEnds(stageRow', handler'[h])
    <3>1. CASE CallbackJobFinished(w)
      <4>1. worker[w].pc = "report" /\ worker[w].job \in Jobs
        BY <1>0, <3>1, RequestEffect DEF TypeOK, WorkerStates
      <4>2. Ended(stageRow', StageOf[worker[w].job] - 1)
        BY <1>0, <2>0, <4>1, EndedStays DEF MessagesArePublished, StagesEnd
      <4>3. PICK h \in Handlers :
              /\ handler'[h].pc = "finishJob" /\ handler'[h].stage = StageOf[worker[w].job]
              /\ \A g \in Handlers \ {h} : handler'[g] = handler[g]
        BY <1>0, <3>1, RequestEffect
      <4>4. HandlerEnds(stageRow', handler'[h])
        BY <4>2, <4>3 DEF HandlerEnds
      <4> QED
        BY <1>0, <4>3, <4>4, SameRequestEnds
    <3>2. CASE CallbackTimeout(w) \/ WorkerStops(w)
      <4>1. Abandon(w)
        BY <3>2 DEF CallbackTimeout, WorkerStops
      <4> QED
        BY <1>0, <4>1, AbandonEffect, SameRequestEnds
    <3>3. CASE Deliver(w) \/ CallbackJobStarted(w) \/ ExecuteJob(w) \/ ChannelLost(w)
      <4>1. handler' = handler
        BY Zenon, <3>3 DEF Deliver, CallbackJobStarted, ExecuteJob, ChannelLost
      <4> QED
        BY <1>0, <4>1, SameRequestEnds
    <3> QED
      BY <1>5, <3>1, <3>2, <3>3 DEF WorkerStep
  <2> QED
    BY <1>0, <2>0, <2>1, SameDispatchEnds, StagesEndFrame
<1> QED
  BY <1>1, <1>2, <1>3, <1>4, <1>5 DEF Next, Fault

-----------------------------------------------------------------------------
\* Reports.

\* A step of the system keeps what a report in progress knows.
LEMMA SystemKeepsReport ==
  ASSUME IInv, ReportKnows, [Next]_vars, UNCHANGED report
  PROVE  ReportKnows'
<1>1. TypeOK
  BY DEF IInv
<1>2. Grows /\ EndsStay
  BY <1>1, NextGrows, NextEndsStay
<1>3. IsReport' /\ ReportTypeOK'
  BY Zenon DEF ReportKnows, IsReport, ReportTypeOK
<1>4. Ended(stageRow, NumStages) => Ended(stageRow', NumStages)
  BY <1>2, EndedStays
<1> QED
  BY <1>2, <1>3, <1>4 DEF ReportKnows, Grows

\* A read adds what the invariant of the orchestrator says of the row it finds.
LEMMA ReadsKnow ==
  ASSUME IInv, StagesEnd, ReportKnows, ReportStep, UNCHANGED vars
  PROVE  ReportKnows'
<1>0. /\ TypeOK /\ SuccessCoversJobs /\ IsReport /\ ReportTypeOK
      /\ UNCHANGED <<runRow, stageRow, reported>>
  BY DEF IInv, ReportKnows, vars, rows, history
<1>1. CASE Answered
  <2>1. IsReport'
    BY Zenon, <1>1 DEF Answered, NoReport, IsReport
  <2> QED
    BY <1>1, <2>1 DEF Answered, NoReport, ReportKnows, ReportTypeOK
<1>2. ASSUME NEW q \in Queries, GetRun(q) PROVE ReportKnows'
  <2>1. /\ report' = [at |-> IF q.stage = NoFilter THEN "stages" ELSE "stage",
                      stage |-> q.stage, job |-> q.job, run |-> RunRow(q.run), status |-> "none"]
        /\ RunRow(q.run) = runRow /\ runRow # "none"
    BY <1>2 DEF GetRun, RunRow
  <2>2. /\ IsReport' /\ report'.at \in {"stages", "stage"} /\ report'.run = runRow
    BY Zenon, <2>1 DEF IsReport
  <2>3. runRow \in JobStatuses \ {"none", "running"}
    BY <1>0, <2>1 DEF TypeOK
  <2>4. ReportTypeOK'
    BY <2>2, <2>3 DEF ReportTypeOK
  <2>5. runRow = "success" => Ended(stageRow, NumStages) /\ \A j \in Jobs : reported[j] # {}
    BY <1>0 DEF StagesEnd, SuccessCoversJobs
  <2> QED
    BY <1>0, <2>2, <2>4, <2>5 DEF ReportKnows
<1>3. CASE GetStage /\ ~Answered
  <2> DEFINE s == report.stage
  <2>1. /\ report.at = "stage" /\ StageRow(s) # "none"
        /\ report' = [report EXCEPT !.at = "jobs", !.status = StageRow(s)]
    BY <1>3 DEF GetStage
  <2>2. s \in Stages /\ StageRow(s) = stageRow[s]
    BY <2>1 DEF StageRow
  <2>3. /\ report'.at = "jobs" /\ report'.status = stageRow[s] /\ report'.run = report.run
        /\ report'.stage = s /\ IsReport'
    BY Zenon, <1>0, <2>1, <2>2 DEF IsReport
  <2>4. stageRow[s] \in JobStatuses \ {"none", "running"}
    BY <1>0, <2>1, <2>2 DEF TypeOK
  <2>5. ReportTypeOK'
    BY <1>0, <2>1, <2>2, <2>3, <2>4 DEF ReportTypeOK
  <2>6. stageRow[s] = "success" => \A j \in Jobs : StageOf[j] <= s => reported[j] # {}
    BY <1>0, <2>2 DEF SuccessCoversJobs
  <2> QED
    BY <1>0, <2>1, <2>3, <2>5, <2>6 DEF ReportKnows
<1> QED
  BY <1>1, <1>2, <1>3 DEF ReportStep, GetStages, GetJobs, ReportFails

\* The invariant holds at the start.
LEMMA ReportInitial == ReportingInit => ReportInv
<1> SUFFICES ASSUME ReportingInit PROVE ReportInv
  OBVIOUS
<1>1. Init /\ IInv
  BY InitIInv DEF ReportingInit
<1>2. RowsMoveOn
  BY <1>1 DEF Init, RowsMoveOn
<1>3. StagesEnd
  BY <1>1 DEF Init, FreeHandler, StagesEnd, HandlerEnds
<1>4. IsReport
  BY Zenon DEF ReportingInit, NoReport, IsReport
<1>5. ReportKnows
  BY <1>4 DEF ReportingInit, NoReport, ReportKnows, ReportTypeOK
<1> QED
  BY <1>1, <1>2, <1>3, <1>5 DEF ReportInv

\* Every step keeps the invariant.
LEMMA ReportInductive == ReportInv /\ [ReportingNext]_reportingVars => ReportInv'
<1> SUFFICES ASSUME ReportInv, [ReportingNext]_reportingVars PROVE ReportInv'
  OBVIOUS
<1>0. IInv /\ TypeOK /\ RowsMoveOn /\ StagesEnd /\ ReportKnows
  BY DEF ReportInv, IInv
<1>1. /\ [Next]_vars
      /\ UNCHANGED report \/ (ReportStep /\ UNCHANGED vars)
  BY DEF ReportingNext, reportingVars
<1>2. IInv' /\ RowsMoveOn' /\ StagesEnd'
  BY <1>0, <1>1, NextIInv, NextRows, NextStagesEnd
<1>3. ReportKnows'
  BY <1>0, <1>1, SystemKeepsReport, ReadsKnow
<1> QED
  BY <1>2, <1>3 DEF ReportInv

\* Reports rest on the invariant in every behaviour.
LEMMA ReportInvariance == ReportingSpec => []ReportInv
BY ReportInitial, ReportInductive, PTL DEF ReportingSpec

\* GetReport copies statuses of rows that it found.
THEOREM ReportTypeCorrect == ReportingSpec => []ReportTypeOK
<1>1. ReportInv => ReportTypeOK
  BY DEF ReportInv, ReportKnows
<1> QED
  BY <1>1, ReportInvariance, PTL

\* A report that calls the run a success shows only stages that ended, whatever
\* the handlers write between the SELECT of the run and that of the stages.
THEOREM ReportedRunsEnded == ReportingSpec => []SuccessfulRunShowsEndedStages
<1>1. ReportInv => SuccessfulRunShowsEndedStages
  <2> SUFFICES ASSUME ReportInv, report.at \in {"stages", "stage"}, report.run = "success",
                      NEW s \in Stages
               PROVE  StageRow(s) \in Terminal
    BY DEF SuccessfulRunShowsEndedStages
  <2>1. Ended(stageRow, NumStages)
    BY DEF ReportInv, ReportKnows
  <2>2. s <= NumStages
    BY PipelineAssumption DEF Stages
  <2> QED
    BY <2>1, <2>2 DEF Ended, StageRow
<1> QED
  BY <1>1, ReportInvariance, PTL

\* A report that calls the run or the stage a success shows every job of the stage,
\* none of them still queued.
THEOREM ReportedSuccessIsComplete == ReportingSpec => []SuccessShowsItsJobs
<1>1. ReportInv => SuccessShowsItsJobs
  <2> SUFFICES ASSUME ReportInv, report.at = "jobs", "success" \in {report.run, report.status},
                      NEW j \in StageJobs(report.stage)
               PROVE  j \in JobRows(report.stage, NoFilter) /\ jobRow[j] # "queued"
    BY DEF SuccessShowsItsJobs
  <2>1. j \in Jobs /\ StageOf[j] = report.stage /\ StageOf[j] \in Int
    BY PipelineAssumption DEF StageJobs, Stages
  <2>2. reported[j] # {}
    BY <2>1 DEF ReportInv, ReportKnows
  <2>3. jobRow[j] \notin {"none", "queued"}
    BY <2>1, <2>2 DEF ReportInv, RowsMoveOn
  <2> QED
    BY <2>1, <2>3 DEF JobRows
<1> QED
  BY <1>1, ReportInvariance, PTL

\* What buildReportQuery lets through, GetReport accepts: the flags of the command
\* never lead to a 400.
THEOREM CommandQueriesAreValid ==
  ASSUME NEW f, f.run \in Int, DOMAIN f = {"run", "stage", "job"},
         f = [x \in DOMAIN f |-> f[x]], NoFilter \notin Int, ~RefusedByCommand(f)
  PROVE  ~InvalidQuery(CommandQuery(f))
<1>1. /\ CommandQuery(f).run = IF f.run > 0 THEN f.run ELSE NoFilter
      /\ CommandQuery(f).stage = f.stage /\ CommandQuery(f).job = f.job
  BY DEF CommandQuery
<1> QED
  BY <1>1 DEF InvalidQuery, RefusedByCommand
====
