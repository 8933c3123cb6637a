------------------------- MODULE OrchestratorProofs -------------------------
(***************************************************************************)
(* For every pipeline, every number of workers and callback requests, and  *)
(* every pattern of faults: the stages are released in order, and success  *)
(* is never recorded over a job without an outcome.  The inductive         *)
(* invariant follows a message from its publication over the broker and a  *)
(* worker to the handler of its callback, and keeps for each handler the   *)
(* fact that the stages before the one it works on are done.               *)
(***************************************************************************)
EXTENDS Orchestrator, TLAPS

\* How long the provers may take over a leaf.
USE SMTT(20), ZenonT(20)

\* Every job up to stage s has an outcome in rep.
Done(rep, s) == \A k \in Jobs : StageOf[k] <= s => rep[k] # {}

MessagesArePublished ==
  /\ \A j \in Jobs : broker[j] > 0 => published[j] > 0
  /\ \A w \in Workers : worker[w].pc # "idle" => published[worker[w].job] > 0
  /\ \A h \in Handlers : handler[h].pc # "free" => published[handler[h].job] > 0

\* A client waits for the one request it made.
ClientsWait ==
  \A h \in Handlers : handler[h].pc # "free" /\ handler[h].client # NoWorker =>
    /\ worker[handler[h].client].pc = "wait"
    /\ \A g \in Handlers \ {h} : handler[g].pc # "free" => handler[g].client # handler[h].client

CompletedAreReported == \A j \in completed : reported[j] # {}

\* What the request in a slot r relies on, where rep holds the outcomes.
Knows(rep, r) ==
  r.pc # "free" =>
    /\ Done(rep, r.stage - 1)
    /\ r.ready \subseteq StageJobs(r.stage)
    /\ \A p \in r.todo : p[1] \in StageJobs(r.stage)
    /\ r.pc \in {"load", "store", "release", "queue"} => r.at \in StageJobs(r.stage)
    /\ r.pc \notin {"dependents", "load", "store", "release", "queue", "publish"} => r.ready = {}
    /\ r.pc \in {"finishJob", "lookup", "check", "mark"} => r.stage = StageOf[r.job]
    /\ r.pc # "finishJob" => rep[r.job] # {}
    /\ r.pc \in {"finishStage", "finishNext", "finishRun"} => Done(rep, r.stage)
    /\ r.pc = "finishRun" => r.stage = NumStages

HandlersKnow == \A h \in Handlers : Knows(reported, handler[h])

RequestKnows ==
  /\ request.pc \in {"create", "rows", "scan"} =>
       /\ \A j \in Jobs : published[j] = 0
       /\ queued = {} /\ completed = {} /\ remainingNeeds = InDegree
  /\ request.pc \in {"create", "rows"} => request.at = 1
  /\ request.pc \in {"scan", "publish"} => Done(reported, request.at - 1)
  /\ request.ready \subseteq StageJobs(request.at)

IInv ==
  /\ TypeOK /\ ClientsWait /\ MessagesArePublished /\ CompletedAreReported
  /\ HandlersKnow /\ RequestKnows
  /\ StagesInOrder /\ SuccessCoversJobs

\* When the stages before s are done and so are the jobs of s, s is done.
LEMMA OneMoreStage ==
  ASSUME NEW rep, NEW s \in Int, Done(rep, s - 1), \A k \in StageJobs(s) : rep[k] # {}
  PROVE  Done(rep, s)
<1> SUFFICES ASSUME NEW k \in Jobs, StageOf[k] <= s PROVE rep[k] # {}
  BY DEF Done
<1>1. StageOf[k] \in Int
  BY PipelineAssumption DEF Stages
<1>2. StageOf[k] <= s - 1 \/ StageOf[k] = s
  BY <1>1
<1> QED
  BY <1>2 DEF Done, StageJobs

-----------------------------------------------------------------------------
\* Types.  A handler or worker record keeps its type under the updates that the
\* steps make.

\* A handler that becomes a well-typed state keeps the type of the slots.
LEMMA BecomeType ==
  ASSUME TypeOK, NEW h \in Handlers, NEW state \in HandlerStates, Become(h, state)
  PROVE  handler' \in [Handlers -> HandlerStates]
BY DEF TypeOK, Become

\* Goto moves a handler to a known label.
LEMMA GotoType ==
  ASSUME TypeOK, NEW h \in Handlers, NEW label \in HandlerPCs, Goto(h, label)
  PROVE  handler' \in [Handlers -> HandlerStates]
<1>1. handler[h] \in HandlerStates
  BY DEF TypeOK
<1>2. [handler[h] EXCEPT !.pc = label] \in HandlerStates
  BY <1>1 DEF HandlerStates
<1> QED
  BY <1>2, BecomeType DEF Goto

\* The idle records are records of the right type.
LEMMA IdleTypes == FreeHandler \in HandlerStates /\ IdleWorker \in WorkerStates
<1>1. AnyJob \in Jobs
  BY PipelineAssumption DEF AnyJob
<1>2. 1 \in Stages
  BY PipelineAssumption DEF Stages
<1> QED
  BY <1>1, <1>2 DEF FreeHandler, IdleWorker, HandlerStates, WorkerStates, HandlerPCs, WorkerPCs,
                    Terminal

\* Respond frees the handler and moves its client.
LEMMA RespondType ==
  ASSUME TypeOK, NEW h \in Handlers, NEW ok \in BOOLEAN, Respond(h, ok)
  PROVE  handler' \in [Handlers -> HandlerStates] /\ worker' \in [Workers -> WorkerStates]
<1>1. handler' \in [Handlers -> HandlerStates]
  BY IdleTypes, BecomeType DEF Respond
<1>2. handler[h].client \in Workers \cup {NoWorker}
  BY DEF TypeOK, HandlerStates
<1>3. \A w \in Workers : [worker[w] EXCEPT !.pc = "report"] \in WorkerStates
  BY DEF TypeOK, WorkerStates, WorkerPCs
<1>4. worker' \in [Workers -> WorkerStates]
  BY <1>2, <1>3, IdleTypes DEF Respond, TypeOK
<1> QED
  BY <1>1, <1>4

\* Init and every step keep the variables in their types.
LEMMA InitType == Init => TypeOK
<1> SUFFICES ASSUME Init PROVE TypeOK
  OBVIOUS
<1>1. InDegree \in [Jobs -> Int]
  BY PipelineAssumption DEF InDegree
<1>2. request \in RequestStates
  BY DEF Init, RequestPCs, RequestStates
<1>3. faults \in 0 .. MaxFaults
  BY PipelineAssumption DEF Init
<1> QED
  BY Zenon, <1>1, <1>2, <1>3, IdleTypes DEF Init, TypeOK, JobStatuses

\* A fault is counted.
LEMMA SpendType ==
  ASSUME TypeOK, NEW kind, Spend(kind)
  PROVE  faults' \in 0 .. MaxFaults
BY PipelineAssumption DEF Spend, TypeOK

\* The updates of the request record keep its type.
LEMMA RequestUpdates ==
  ASSUME NEW r \in RequestStates, NEW pc \in RequestPCs, NEW ready \in SUBSET Jobs
  PROVE  /\ [r EXCEPT !.pc = pc] \in RequestStates
         /\ [r EXCEPT !.at = @ + 1] \in RequestStates
         /\ [r EXCEPT !.ready = ready] \in RequestStates
         /\ [r EXCEPT !.pc = pc, !.ready = ready] \in RequestStates
<1>1. [r EXCEPT !.pc = pc] \in RequestStates
  BY DEF RequestStates
<1>2. [r EXCEPT !.at = @ + 1] \in RequestStates
  BY DEF RequestStates
<1>3. \A q \in RequestStates : [q EXCEPT !.ready = ready] \in RequestStates
  BY DEF RequestStates
<1>4. [r EXCEPT !.pc = pc, !.ready = ready] = [[r EXCEPT !.pc = pc] EXCEPT !.ready = ready]
  OBVIOUS
<1> QED
  BY Zenon, <1>1, <1>2, <1>3, <1>4

\* A routed message is counted.
LEMMA RouteType ==
  ASSUME TypeOK, NEW j \in Jobs, NEW n \in Nat, Route(j, n)
  PROVE  broker' \in [Jobs -> Nat] /\ published' \in [Jobs -> Nat]
BY DEF TypeOK, Route

\* The steps of Run and of its dispatch goroutine keep the types.
LEMMA RequestStepType == TypeOK /\ RequestStep => TypeOK'
<1> SUFFICES ASSUME TypeOK, RequestStep PROVE TypeOK'
  OBVIOUS
<1>0. \A kind : Spend(kind) => faults' \in 0 .. MaxFaults
  BY SpendType
<1> USE DEF rows, maps, history
<1>1. CASE StartPipelineRun
  BY <1>1, <1>0 DEF StartPipelineRun, TypeOK, RequestPCs, RequestStates, JobStatuses
<1>2. CASE PutRuntime
  BY <1>2 DEF PutRuntime, TypeOK, RequestPCs, RequestStates
<1>3. CASE EnqueueFirstReadyStageJobs
  <2>1. ReadyJobs(request.at) \subseteq Jobs
    BY DEF ReadyJobs, StageJobs
  <2>2. queued' \subseteq Jobs
    BY <1>3, <2>1 DEF EnqueueFirstReadyStageJobs, TypeOK
  <2>3. request' \in RequestStates
    <3>1. "publish" \in RequestPCs /\ "abort" \in RequestPCs
      BY DEF RequestPCs
    <3>2. request \in RequestStates
      BY DEF TypeOK
    <3>3. \/ request' = [request EXCEPT !.pc = "publish", !.ready = ReadyJobs(request.at)]
          \/ request' = [request EXCEPT !.at = @ + 1]
          \/ request' = [request EXCEPT !.pc = "abort"]
      BY <1>3 DEF EnqueueFirstReadyStageJobs
    <3>4. [request EXCEPT !.pc = "publish", !.ready = ReadyJobs(request.at)] \in RequestStates
      BY Zenon, <2>1, <3>1, <3>2, RequestUpdates
    <3>5. [request EXCEPT !.at = @ + 1] \in RequestStates
      BY Zenon, <3>1, <3>2, RequestUpdates
    <3>6. [request EXCEPT !.pc = "abort"] \in RequestStates
      BY Zenon, <3>1, <3>2, RequestUpdates
    <3> QED
      BY <3>3, <3>4, <3>5, <3>6
  <2>4. stageRow' \in [Stages -> JobStatuses \ {"running"}]
    BY <1>3 DEF EnqueueFirstReadyStageJobs, TypeOK, JobStatuses
  <2>5. faults' \in 0 .. MaxFaults
    BY <1>3, <1>0 DEF EnqueueFirstReadyStageJobs, TypeOK
  <2> QED
    BY <1>3, <2>2, <2>3, <2>4, <2>5 DEF EnqueueFirstReadyStageJobs, TypeOK
<1>4. CASE DispatchPublish
  <2>1. PICK j \in request.ready :
          /\ Route(j, 1) \/ Route(j, 2) \/ UNCHANGED <<broker, published>>
          /\ \/ request' = [request EXCEPT !.ready = @ \ {j}]
             \/ request' = [request EXCEPT !.pc = "abort", !.ready = {}]
          /\ UNCHANGED faults \/ Spend("publish")
    BY <1>4 DEF DispatchPublish, RouteUnconfirmed
  <2>2. j \in Jobs
    BY DEF TypeOK, RequestStates
  <2>3. request' \in RequestStates
    <3>1. "abort" \in RequestPCs
      BY DEF RequestPCs
    <3>2. request \in RequestStates /\ request.ready \ {j} \in SUBSET Jobs /\ {} \in SUBSET Jobs
      BY DEF TypeOK, RequestStates
    <3>3. [request EXCEPT !.ready = request.ready \ {j}] \in RequestStates
      BY Zenon, <3>1, <3>2, RequestUpdates
    <3>4. [request EXCEPT !.pc = "abort", !.ready = {}] \in RequestStates
      BY Zenon, <3>1, <3>2, RequestUpdates
    <3> QED
      BY <2>1, <3>3, <3>4
  <2>4. broker' \in [Jobs -> Nat] /\ published' \in [Jobs -> Nat]
    BY <2>1, <2>2, RouteType DEF TypeOK
  <2>5. faults' \in 0 .. MaxFaults
    BY <2>1, <1>0 DEF TypeOK
  <2> QED
    BY <1>4, <2>3, <2>4, <2>5 DEF DispatchPublish, TypeOK
<1>5. CASE DispatchDone
  BY <1>5 DEF DispatchDone, TypeOK, RequestPCs, RequestStates
<1>6. CASE DispatchAbort
  BY <1>6, <1>0 DEF DispatchAbort, TypeOK, RequestPCs, RequestStates, JobStatuses
<1>7. CASE DispatchDeleteRuntime
  BY Zenon, <1>7 DEF DispatchDeleteRuntime, TypeOK, RequestPCs, RequestStates
<1>8. CASE \E s \in Stages : StartStage(s)
  BY <1>8, <1>0 DEF StartStage, TypeOK, RequestPCs, RequestStates, JobStatuses
<1>9. CASE \E j \in Jobs : StartJob(j)
  <2>1. PICK j \in Jobs : StartJob(j)
    BY <1>9
  <2>2. StageOf[j] \in Stages
    BY PipelineAssumption
  <2>3. jobRow' \in [Jobs -> JobStatuses]
    BY <2>1 DEF StartJob, TypeOK, JobStatuses
  <2>4. stageRow' \in [Stages -> JobStatuses \ {"running"}]
    BY <2>1, <2>2 DEF StartJob, TypeOK, JobStatuses
  <2>5. request' \in RequestStates
    BY <2>1 DEF StartJob, TypeOK, RequestPCs, RequestStates
  <2>6. runRow' \in JobStatuses \ {"running"} /\ faults' \in 0 .. MaxFaults
    BY <2>1, <1>0 DEF StartJob, TypeOK, JobStatuses
  <2> QED
    BY <2>1, <2>3, <2>4, <2>5, <2>6 DEF StartJob, TypeOK
<1> QED
  BY <1>1, <1>2, <1>3, <1>4, <1>5, <1>6, <1>7, <1>8, <1>9 DEF RequestStep

\* The updates of a handler record keep its type.
LEMMA HandlerUpdates ==
  ASSUME NEW r \in HandlerStates, NEW pc \in HandlerPCs
  PROVE  /\ [r EXCEPT !.pc = pc] \in HandlerStates
         /\ \A todo \in SUBSET (Jobs \X Nat) :
              [r EXCEPT !.pc = pc, !.todo = todo] \in HandlerStates
         /\ \A todo \in SUBSET (Jobs \X Nat), at \in Jobs :
              [r EXCEPT !.todo = todo, !.at = at, !.pc = pc] \in HandlerStates
         /\ \A value \in Int : [r EXCEPT !.pc = pc, !.value = value] \in HandlerStates
         /\ \A ready \in SUBSET Jobs :
              /\ [r EXCEPT !.ready = ready] \in HandlerStates
              /\ [r EXCEPT !.pc = pc, !.ready = ready] \in HandlerStates
         /\ \A todo \in SUBSET (Jobs \X Nat), s \in Stages :
              [r EXCEPT !.pc = pc, !.stage = s, !.todo = todo] \in HandlerStates
<1>1. [r EXCEPT !.pc = pc] \in HandlerStates
  BY DEF HandlerStates
<1>2. ASSUME NEW todo \in SUBSET (Jobs \X Nat), NEW at \in Jobs
      PROVE  [r EXCEPT !.todo = todo, !.at = at, !.pc = pc] \in HandlerStates
  BY Zenon DEF HandlerStates
<1>3. ASSUME NEW todo \in SUBSET (Jobs \X Nat), NEW s \in Stages
      PROVE  [r EXCEPT !.pc = pc, !.stage = s, !.todo = todo] \in HandlerStates
  BY Zenon DEF HandlerStates
<1>4. ASSUME NEW todo \in SUBSET (Jobs \X Nat)
      PROVE  [r EXCEPT !.pc = pc, !.todo = todo] \in HandlerStates
  BY Zenon DEF HandlerStates
<1>5. ASSUME NEW value \in Int
      PROVE  [r EXCEPT !.pc = pc, !.value = value] \in HandlerStates
  BY Zenon DEF HandlerStates
<1>6. ASSUME NEW ready \in SUBSET Jobs
      PROVE  /\ [r EXCEPT !.ready = ready] \in HandlerStates
             /\ [r EXCEPT !.pc = pc, !.ready = ready] \in HandlerStates
  BY Zenon DEF HandlerStates
<1> QED
  BY Zenon, <1>1, <1>2, <1>3, <1>4, <1>5, <1>6

\* The dependents of a job are places in needs lists of the same stage.
LEMMA DependentsType ==
  ASSUME NEW j \in Jobs
  PROVE  /\ Dependents(j) \in SUBSET (Jobs \X Nat)
         /\ \A p \in Dependents(j) : p[1] \in Jobs /\ StageOf[p[1]] = StageOf[j]
<1>1. ASSUME NEW d \in Jobs, NEW i \in DOMAIN Needs[d]
      PROVE  i \in Nat
  BY PipelineAssumption
<1>2. \A p \in Dependents(j) : \E d \in Jobs : \E i \in DOMAIN Needs[d] :
        Needs[d][i] = j /\ p = <<d, i>>
  BY DEF Dependents
<1> QED
  BY <1>1, <1>2, PipelineAssumption

\* A request that fails frees its handler and counts the fault.
LEMMA StoreErrorType ==
  ASSUME TypeOK, NEW h \in Handlers, NEW kind, FailsFor(h, kind), Respond(h, FALSE)
  PROVE  /\ handler' \in [Handlers -> HandlerStates] /\ worker' \in [Workers -> WorkerStates]
         /\ faults' \in 0 .. MaxFaults
<1>1. faults' \in 0 .. MaxFaults
  BY SpendType DEF FailsFor, TypeOK
<1> QED
  BY Zenon, <1>1, RespondType

\* The handler steps that write to the store keep the types.
LEMMA StoreStepType ==
  ASSUME TypeOK, NEW h \in Handlers,
         FinishJob(h) \/ FailStage(h) \/ FailRun(h) \/ FinishStage(h) \/ FinishRun(h)
           \/ FinishNextStage(h) \/ DeleteRuntime(h)
  PROVE  TypeOK'
<1>0. /\ handler[h] \in HandlerStates /\ handler[h].job \in Jobs /\ handler[h].status \in Terminal
      /\ handler[h].stage \in Stages /\ StageOf[handler[h].job] \in Stages
  BY Zenon, PipelineAssumption DEF TypeOK, HandlerStates
<1>a. ASSUME StoreError(h)
      PROVE  /\ handler' \in [Handlers -> HandlerStates] /\ worker' \in [Workers -> WorkerStates]
             /\ faults' \in 0 .. MaxFaults
  BY Zenon, <1>a, StoreErrorType DEF StoreError
<1>b. "lookup" \in HandlerPCs /\ "failRun" \in HandlerPCs /\ "delete" \in HandlerPCs
      /\ "finishRun" \in HandlerPCs /\ "dependents" \in HandlerPCs
  BY DEF HandlerPCs
<1>c. ASSUME NEW s \in Stages, NEW status \in Terminal, NEW next \in HandlerStates,
             FinishStageAs(h, s, status, next)
      PROVE  TypeOK'
  <2>1. handler' \in [Handlers -> HandlerStates] /\ worker' \in [Workers -> WorkerStates]
        /\ faults' \in 0 .. MaxFaults
    BY <1>a, <1>c, BecomeType DEF FinishStageAs, TypeOK
  <2>2. stageRow' \in [Stages -> JobStatuses \ {"running"}]
    BY <1>c DEF FinishStageAs, TypeOK, JobStatuses, Terminal
  <2> QED
    BY <1>c, <2>1, <2>2 DEF FinishStageAs, TypeOK, maps, history
<1>d. ASSUME NEW status \in Terminal, FinishRunAs(h, status)
      PROVE  TypeOK'
  <2>1. handler' \in [Handlers -> HandlerStates] /\ worker' \in [Workers -> WorkerStates]
        /\ faults' \in 0 .. MaxFaults
    BY <1>a, <1>b, <1>d, GotoType DEF FinishRunAs, TypeOK
  <2>2. runRow' \in JobStatuses \ {"running"}
    BY <1>d DEF FinishRunAs, TypeOK, JobStatuses, Terminal
  <2> QED
    BY <1>d, <2>1, <2>2 DEF FinishRunAs, TypeOK, maps, history
<1>e. "success" \in Terminal /\ "failed" \in Terminal
  BY DEF Terminal
<1>1. CASE FinishJob(h)
  <2>1. handler' \in [Handlers -> HandlerStates] /\ worker' \in [Workers -> WorkerStates]
        /\ faults' \in 0 .. MaxFaults
    BY <1>1, <1>a, <1>b, GotoType DEF FinishJob, TypeOK
  <2>2. jobRow' \in [Jobs -> JobStatuses] /\ reported' \in [Jobs -> SUBSET Terminal]
    BY <1>1, <1>0 DEF FinishJob, TypeOK, JobStatuses, Terminal
  <2> QED
    BY <1>1, <2>1, <2>2 DEF FinishJob, TypeOK, maps
<1>2. CASE FailStage(h)
  <2>1. [handler[h] EXCEPT !.pc = "failRun"] \in HandlerStates
    BY Zenon, <1>0, <1>b, HandlerUpdates
  <2> QED
    BY <1>2, <1>0, <1>c, <1>e, <2>1 DEF FailStage
<1>3. CASE FailRun(h)
  BY <1>3, <1>d, <1>e DEF FailRun
<1>4. CASE FinishStage(h)
  <2> DEFINE s == handler[h].stage
             todo == StageJobs(s + 1) \X {0}
             next == IF s = NumStages
                     THEN [handler[h] EXCEPT !.pc = "finishRun"]
                     ELSE [handler[h] EXCEPT !.pc = "dependents", !.stage = s + 1, !.todo = todo]
  <2>1. todo \in SUBSET (Jobs \X Nat)
    BY DEF StageJobs
  <2>2. s # NumStages => s + 1 \in Stages
    BY <1>0, PipelineAssumption DEF Stages
  <2>3. next \in HandlerStates
    <3> HIDE DEF todo
    <3>1. CASE s = NumStages
      BY Zenon, <3>1, <1>0, <1>b, HandlerUpdates
    <3>2. CASE s # NumStages
      BY Zenon, <3>2, <2>1, <2>2, <1>0, <1>b, HandlerUpdates
    <3> QED
      BY <3>1, <3>2
  <2>4. FinishStageAs(h, s, "success", next)
    BY <1>4 DEF FinishStage
  <2> HIDE DEF next
  <2> QED
    BY <2>3, <2>4, <1>0, <1>c, <1>e
<1>5. CASE FinishRun(h)
  BY <1>5, <1>d, <1>e DEF FinishRun
<1>6. CASE FinishNextStage(h)
  <2>1. handler' \in [Handlers -> HandlerStates] /\ worker' \in [Workers -> WorkerStates]
        /\ faults' \in 0 .. MaxFaults
    BY Zenon, <1>6, <1>a, RespondType DEF FinishNextStage, TypeOK
  <2>2. stageRow' \in [Stages -> JobStatuses \ {"running"}]
    BY Zenon, <1>6, <1>0 DEF FinishNextStage, TypeOK, JobStatuses
  <2> QED
    BY <1>6, <2>1, <2>2 DEF FinishNextStage, TypeOK, maps, history
<1>7. CASE DeleteRuntime(h)
  BY Zenon, <1>7, RespondType DEF DeleteRuntime, TypeOK, rows, maps, history
<1> QED
  BY <1>1, <1>2, <1>3, <1>4, <1>5, <1>6, <1>7

\* The handler steps on stageState and on the queue keep the types.
LEMMA MapStepType ==
  ASSUME TypeOK, NEW h \in Handlers,
         LookupRuntime(h) \/ MarkJobTerminal(h) \/ StageStateStep(h) \/ EnqueueReadyJobs(h)
           \/ TestComplete(h)
  PROVE  TypeOK'
<1>0. /\ handler[h] \in HandlerStates /\ handler[h].job \in Jobs /\ handler[h].at \in Jobs
      /\ handler[h].value \in Int /\ handler[h].ready \in SUBSET Jobs
      /\ handler[h].todo \in SUBSET (Jobs \X Nat)
  BY DEF TypeOK, HandlerStates
<1>b. /\ "terminal" \in HandlerPCs /\ "check" \in HandlerPCs /\ "failStage" \in HandlerPCs
      /\ "finishStage" \in HandlerPCs /\ "finishNext" \in HandlerPCs
      /\ "complete" \in HandlerPCs /\ "mark" \in HandlerPCs /\ "dependents" \in HandlerPCs
      /\ "publish" \in HandlerPCs /\ "load" \in HandlerPCs /\ "store" \in HandlerPCs
      /\ "release" \in HandlerPCs /\ "queue" \in HandlerPCs
  BY DEF HandlerPCs
<1>1. CASE LookupRuntime(h)
  <2>1. handler' \in [Handlers -> HandlerStates] /\ worker' \in [Workers -> WorkerStates]
    BY Zenon, <1>1, <1>b, GotoType, RespondType DEF LookupRuntime, TypeOK
  <2> QED
    BY <1>1, <2>1 DEF LookupRuntime, TypeOK, rows, maps, history
<1>2. CASE MarkJobTerminal(h)
  <2>1. handler' \in [Handlers -> HandlerStates]
    BY <1>2, <1>b, GotoType DEF MarkJobTerminal
  <2> QED
    BY <1>2, <1>0, <2>1 DEF MarkJobTerminal, TypeOK, rows, history
<1>3. CASE TestComplete(h)
  <2>1. handler' \in [Handlers -> HandlerStates] /\ worker' \in [Workers -> WorkerStates]
    BY Zenon, <1>3, <1>b, GotoType, RespondType DEF TestComplete, TypeOK
  <2> QED
    BY <1>3, <2>1 DEF TestComplete, TypeOK, rows, maps, history
<1>4. CASE StageStateStep(h)
  <2> SUFFICES handler' \in [Handlers -> HandlerStates]
               /\ remainingNeeds' \in [Jobs -> Int] /\ queued' \subseteq Jobs
               /\ completed' \subseteq Jobs
    BY <1>4 DEF StageStateStep, TypeOK, rows, history
  <2>1. CASE MarkJobSucceeded(h) /\ UNCHANGED <<remainingNeeds, queued>>
    <3>1. [handler[h] EXCEPT !.pc = "dependents", !.todo = Dependents(handler[h].job)]
            \in HandlerStates
      BY Zenon, <1>0, <1>b, DependentsType, HandlerUpdates
    <3>2. handler' \in [Handlers -> HandlerStates]
      BY <2>1, <3>1, <1>b, GotoType, BecomeType DEF MarkJobSucceeded
    <3> QED
      BY <2>1, <3>2, <1>0 DEF MarkJobSucceeded, TypeOK
  <2>2. CASE NextDependent(h) /\ UNCHANGED maps
    <3>1. ASSUME NEW p \in handler[h].todo, NEW pc \in {"load", "release"}
          PROVE  [handler[h] EXCEPT !.todo = @ \ {p}, !.at = p[1], !.pc = pc] \in HandlerStates
      <4>1. p[1] \in Jobs /\ handler[h].todo \ {p} \in SUBSET (Jobs \X Nat) /\ pc \in HandlerPCs
        BY <1>0, <1>b
      <4> QED
        BY Zenon, <4>1, <1>0, HandlerUpdates
    <3>2. \A p \in handler[h].todo :
            (IF p[2] # 0 /\ remainingNeeds[p[1]] > 0 THEN "load" ELSE "release")
              \in {"load", "release"}
      OBVIOUS
    <3>3. handler' \in [Handlers -> HandlerStates]
      BY Zenon, <2>2, <3>1, <3>2, <1>b, GotoType, BecomeType DEF NextDependent
    <3> QED
      BY <2>2, <3>3 DEF maps, TypeOK
  <2>3. CASE LoadRemaining(h) /\ UNCHANGED maps
    <3>1. [handler[h] EXCEPT !.pc = "store", !.value = remainingNeeds[handler[h].at]]
            \in HandlerStates
      <4>1. remainingNeeds[handler[h].at] \in Int
        BY <1>0 DEF TypeOK
      <4> QED
        BY Zenon, <4>1, <1>0, <1>b, HandlerUpdates
    <3> QED
      BY <2>3, <3>1, BecomeType DEF LoadRemaining, maps, TypeOK
  <2>4. CASE StoreRemaining(h) /\ UNCHANGED <<queued, completed>>
    <3>1. handler' \in [Handlers -> HandlerStates]
      BY <2>4, <1>b, GotoType DEF StoreRemaining
    <3> QED
      BY <2>4, <1>0, <3>1 DEF StoreRemaining, TypeOK
  <2>5. CASE TestReady(h) /\ UNCHANGED maps
    BY <2>5, <1>b, GotoType DEF TestReady, maps, TypeOK
  <2>6. CASE MarkQueued(h) /\ UNCHANGED <<remainingNeeds, completed>>
    <3>1. [handler[h] EXCEPT !.pc = "dependents", !.ready = @ \cup {handler[h].at}]
            \in HandlerStates
      <4>1. handler[h].ready \cup {handler[h].at} \in SUBSET Jobs
        BY <1>0
      <4> QED
        BY Zenon, <4>1, <1>0, <1>b, HandlerUpdates
    <3> QED
      BY <2>6, <3>1, <1>0, BecomeType DEF MarkQueued, TypeOK
  <2> QED
    BY <1>4, <2>1, <2>2, <2>3, <2>4, <2>5, <2>6 DEF StageStateStep
<1>5. CASE EnqueueReadyJobs(h)
  <2>1. CASE handler[h].ready = {} /\ Goto(h, "complete")
             /\ UNCHANGED <<broker, published, worker, faults>>
    <3>1. handler' \in [Handlers -> HandlerStates]
      BY <2>1, <1>b, GotoType
    <3> QED
      BY <1>5, <2>1, <3>1 DEF EnqueueReadyJobs, TypeOK, rows, maps
  <2>2. ASSUME NEW j \in handler[h].ready, Route(j, 1) \/ Route(j, 2),
               UNCHANGED faults \/ Spend("publish"),
               Become(h, [handler[h] EXCEPT !.ready = @ \ {j}]), UNCHANGED worker
        PROVE  TypeOK'
    <3>1. [handler[h] EXCEPT !.ready = @ \ {j}] \in HandlerStates
      <4>1. handler[h].ready \ {j} \in SUBSET Jobs
        BY <1>0
      <4> QED
        BY Zenon, <4>1, <1>0, <1>b, HandlerUpdates
    <3>2. handler' \in [Handlers -> HandlerStates]
      BY <3>1, <2>2, BecomeType
    <3>3. broker' \in [Jobs -> Nat] /\ published' \in [Jobs -> Nat]
      BY <2>2, <1>0, RouteType
    <3>4. faults' \in 0 .. MaxFaults
      BY <2>2, SpendType DEF TypeOK
    <3> QED
      BY <1>5, <2>2, <3>2, <3>3, <3>4 DEF EnqueueReadyJobs, TypeOK, rows, maps
  <2>3. ASSUME NEW j \in handler[h].ready, RouteUnconfirmed(j), FailsFor(h, "publish"),
               Respond(h, FALSE)
        PROVE  TypeOK'
    <3>1. broker' \in [Jobs -> Nat] /\ published' \in [Jobs -> Nat]
      BY <2>3, <1>0, RouteType DEF RouteUnconfirmed, TypeOK
    <3>2. handler' \in [Handlers -> HandlerStates] /\ worker' \in [Workers -> WorkerStates]
          /\ faults' \in 0 .. MaxFaults
      BY Zenon, <2>3, StoreErrorType
    <3> QED
      BY <1>5, <3>1, <3>2 DEF EnqueueReadyJobs, TypeOK, rows, maps
  <2> QED
    BY Zenon, <1>5, <2>1, <2>2, <2>3 DEF EnqueueReadyJobs
<1> QED
  BY <1>1, <1>2, <1>3, <1>4, <1>5

\* A message that is put back is counted, and an abandoned request stays typed.
LEMMA PutBackType ==
  ASSUME TypeOK, NEW w \in Workers
  PROVE  /\ PutBack(w) => broker' \in [Jobs -> Nat]
         /\ Abandon(w) => handler' \in [Handlers -> HandlerStates]
<1>1. worker[w].job \in Jobs /\ worker[w] \in WorkerStates
  BY DEF TypeOK, WorkerStates
<1>2. ASSUME NEW h \in Handlers
      PROVE  /\ handler[h] \in HandlerStates
             /\ [handler[h] EXCEPT !.client = NoWorker] \in HandlerStates
  BY DEF TypeOK, HandlerStates
<1>3. PutBack(w) => broker' \in [Jobs -> Nat]
  BY <1>1 DEF PutBack, TypeOK
<1>4. Abandon(w) => handler' \in [Handlers -> HandlerStates]
  BY <1>2 DEF Abandon
<1> QED
  BY <1>3, <1>4

\* The steps of a worker keep the types.
LEMMA WorkerStepType ==
  ASSUME TypeOK, NEW w \in Workers,
         WorkerStep(w) \/ CallbackTimeout(w) \/ ChannelLost(w) \/ WorkerStops(w)
  PROVE  TypeOK'
<1>0. worker[w] \in WorkerStates /\ worker[w].job \in Jobs /\ worker[w].status \in Terminal
      /\ StageOf[worker[w].job] \in Stages
  BY Zenon, PipelineAssumption DEF TypeOK, WorkerStates
<1>a. /\ \A pc \in WorkerPCs : [worker[w] EXCEPT !.pc = pc] \in WorkerStates
      /\ [worker[w] EXCEPT !.unacked = FALSE] \in WorkerStates
  BY Zenon, <1>0 DEF WorkerStates
<1>b. "started" \in WorkerPCs /\ "execute" \in WorkerPCs /\ "report" \in WorkerPCs
      /\ "wait" \in WorkerPCs
  BY DEF WorkerPCs
<1>c. \A r \in WorkerStates : worker' = [worker EXCEPT ![w] = r] =>
        worker' \in [Workers -> WorkerStates]
  BY DEF TypeOK
<1>d. \A kind : Spend(kind) => faults' \in 0 .. MaxFaults
  BY SpendType
<1> USE DEF WorkerOnly, rows, maps, history
<1>1. CASE Deliver(w)
  <2>1. PICK j \in Jobs :
          /\ broker' = [broker EXCEPT ![j] = @ - 1] /\ broker[j] > 0
          /\ worker' = [worker EXCEPT ![w] =
                         [@ EXCEPT !.pc = "started", !.job = j, !.unacked = TRUE]]
    BY Zenon, <1>1 DEF Deliver
  <2>2. [worker[w] EXCEPT !.pc = "started", !.job = j, !.unacked = TRUE] \in WorkerStates
    BY Zenon, <1>0, <1>b DEF WorkerStates
  <2>3. worker' \in [Workers -> WorkerStates]
    BY <2>1, <2>2 DEF TypeOK
  <2>4. broker' \in [Jobs -> Nat]
    BY <2>1 DEF TypeOK
  <2> QED
    BY <1>1, <2>3, <2>4 DEF Deliver, TypeOK
<1>2. CASE CallbackJobStarted(w)
  <2>1. jobRow' \in [Jobs -> JobStatuses]
    BY <1>2, <1>0 DEF CallbackJobStarted, TypeOK, JobStatuses
  <2>2. worker' \in [Workers -> WorkerStates]
    <3>1. \/ worker' = [worker EXCEPT ![w] = [worker[w] EXCEPT !.pc = "execute"]]
          \/ worker' = [worker EXCEPT ![w] = IdleWorker]
      BY <1>2 DEF CallbackJobStarted
    <3> QED
      BY <3>1, <1>a, <1>b, <1>c, IdleTypes
  <2>3. broker' \in [Jobs -> Nat]
    BY <1>2, PutBackType DEF CallbackJobStarted, TypeOK
  <2>4. lateStarted' \subseteq Jobs /\ faults' \in 0 .. MaxFaults
    BY <1>2, <1>0, <1>d DEF CallbackJobStarted, TypeOK
  <2> QED
    BY <1>2, <2>1, <2>2, <2>3, <2>4 DEF CallbackJobStarted, TypeOK
<1>3. CASE ExecuteJob(w)
  <2>1. PICK st \in Terminal : worker' = [worker EXCEPT ![w].pc = "report", ![w].status = st]
    BY Zenon, <1>3 DEF ExecuteJob
  <2>2. [worker[w] EXCEPT !.pc = "report", !.status = st] \in WorkerStates
    BY Zenon, <1>0, <1>b DEF WorkerStates
  <2>3. worker' = [worker EXCEPT ![w] = [worker[w] EXCEPT !.pc = "report", !.status = st]]
    BY Zenon, <2>1 DEF TypeOK
  <2>4. worker' \in [Workers -> WorkerStates]
    BY Zenon, <2>2, <2>3, <1>c
  <2> QED
    BY <1>3, <2>4 DEF ExecuteJob, TypeOK
<1>4. CASE CallbackJobFinished(w)
  <2> DEFINE r == [FreeHandler EXCEPT
                    !.pc = "finishJob", !.job = worker[w].job, !.client = w,
                    !.status = worker[w].status, !.stage = StageOf[worker[w].job]]
  <2>1. PICK h \in Handlers : Become(h, r)
    BY <1>4 DEF CallbackJobFinished
  <2>2. r \in HandlerStates
    BY Zenon, <1>0, IdleTypes DEF HandlerStates, HandlerPCs
  <2> HIDE DEF r
  <2>3. handler' \in [Handlers -> HandlerStates]
    BY <2>1, <2>2, BecomeType
  <2>4. worker' \in [Workers -> WorkerStates]
    BY Zenon, <1>4, <1>a, <1>b, <1>c DEF CallbackJobFinished
  <2> QED
    BY <1>4, <2>3, <2>4 DEF CallbackJobFinished, TypeOK
<1>5. CASE CallbackTimeout(w)
  <2>1. worker' \in [Workers -> WorkerStates]
    BY Zenon, <1>5, <1>a, <1>b, <1>c DEF CallbackTimeout
  <2>2. handler' \in [Handlers -> HandlerStates] /\ faults' \in 0 .. MaxFaults
    BY <1>5, <1>d, PutBackType DEF CallbackTimeout
  <2> QED
    BY <1>5, <2>1, <2>2 DEF CallbackTimeout, TypeOK
<1>6. CASE ChannelLost(w)
  <2>1. worker' \in [Workers -> WorkerStates]
    BY Zenon, <1>6, <1>a, <1>c DEF ChannelLost
  <2>2. broker' \in [Jobs -> Nat] /\ faults' \in 0 .. MaxFaults
    BY <1>6, <1>d, PutBackType DEF ChannelLost
  <2> QED
    BY <1>6, <2>1, <2>2 DEF ChannelLost, TypeOK
<1>7. CASE WorkerStops(w)
  <2>1. worker' \in [Workers -> WorkerStates]
    BY Zenon, <1>7, <1>c, IdleTypes DEF WorkerStops
  <2>2. handler' \in [Handlers -> HandlerStates] /\ broker' \in [Jobs -> Nat]
        /\ faults' \in 0 .. MaxFaults
    BY <1>7, <1>d, PutBackType DEF WorkerStops
  <2> QED
    BY <1>7, <2>1, <2>2 DEF WorkerStops, TypeOK
<1> QED
  BY <1>1, <1>2, <1>3, <1>4, <1>5, <1>6, <1>7 DEF WorkerStep

\* A crash of the orchestrator, a late job-started request and the idle steps
\* keep the types.
LEMMA OtherStepType ==
  ASSUME TypeOK, Crash \/ LateJobStarted \/ Quiescent \/ UNCHANGED vars
  PROVE  TypeOK'
<1> USE DEF rows, maps, history
<1>1. CASE Crash
  <2>1. InDegree \in [Jobs -> Int]
    BY PipelineAssumption DEF InDegree
  <2>2. request' \in RequestStates
    BY <1>1 DEF Crash, RequestStates, RequestPCs
  <2>3. \A w \in Workers : worker[w] \in WorkerStates
                           /\ [worker[w] EXCEPT !.pc = "report"] \in WorkerStates
    BY DEF TypeOK, WorkerStates, WorkerPCs
  <2>4. worker' \in [Workers -> WorkerStates]
    BY <1>1, <2>3 DEF Crash
  <2>5. handler' \in [Handlers -> HandlerStates]
    BY <1>1, IdleTypes DEF Crash
  <2>6. faults' \in 0 .. MaxFaults
    BY <1>1, SpendType DEF Crash
  <2> QED
    BY Zenon, <1>1, <2>1, <2>2, <2>4, <2>5, <2>6 DEF Crash, TypeOK
<1>2. CASE LateJobStarted
  BY <1>2 DEF LateJobStarted, TypeOK, JobStatuses
<1>3. CASE Quiescent \/ UNCHANGED vars
  BY <1>3 DEF Quiescent, vars, TypeOK
<1> QED
  BY <1>1, <1>2, <1>3

\* Every step keeps the types.
LEMMA NextType == TypeOK /\ [Next]_vars => TypeOK'
BY RequestStepType, StoreStepType, MapStepType, WorkerStepType, OtherStepType
   DEF Next, Fault, HandleJobFinished

\* TypeOK for every pipeline, every number of workers and every fault pattern.
THEOREM TypeCorrect == Spec => []TypeOK
<1>1. Init => TypeOK
  BY InitType
<1>2. TypeOK /\ [Next]_vars => TypeOK'
  BY NextType
<1> QED
  BY <1>1, <1>2, PTL DEF Spec

-----------------------------------------------------------------------------
\* Which variables each process leaves alone.

\* The goroutines of Run touch no handler, no worker and no outcome, and publish
\* only in dispatchPipelineStartJobs.
LEMMA RequestFrame ==
  ASSUME RequestStep
  PROVE  /\ UNCHANGED <<handler, worker, lateStarted, remainingNeeds, completed, reported>>
         /\ UNCHANGED <<broker, published>> \/ DispatchPublish
         /\ UNCHANGED jobRow \/ \E j \in Jobs : StartJob(j)
<1> USE DEF rows, maps, history
<1>1. CASE StartPipelineRun \/ PutRuntime \/ EnqueueFirstReadyStageJobs
  BY Zenon, <1>1 DEF StartPipelineRun, PutRuntime, EnqueueFirstReadyStageJobs
<1>2. CASE DispatchPublish
  BY Zenon, <1>2 DEF DispatchPublish
<1>3. CASE DispatchDone \/ DispatchAbort \/ DispatchDeleteRuntime
  BY Zenon, <1>3 DEF DispatchDone, DispatchAbort, DispatchDeleteRuntime
<1>4. CASE (\E s \in Stages : StartStage(s)) \/ (\E j \in Jobs : StartJob(j))
  BY Zenon, <1>4 DEF StartStage, StartJob
<1> QED
  BY Zenon, <1>1, <1>2, <1>3, <1>4 DEF RequestStep

\* A handler leaves the request goroutine alone; each variable of the store, the
\* runtime and the history is written by the steps named here.
LEMMA HandlerFrame ==
  ASSUME NEW h \in Handlers, HandleJobFinished(h)
  PROVE  /\ UNCHANGED <<request, lateStarted>>
         /\ UNCHANGED <<jobRow, reported>> \/ FinishJob(h)
         /\ UNCHANGED <<broker, published>> \/ EnqueueReadyJobs(h)
         /\ UNCHANGED completed \/ MarkJobTerminal(h) \/ StageStateStep(h)
         /\ UNCHANGED <<remainingNeeds, queued>> \/ StageStateStep(h)
         /\ UNCHANGED runRow \/ FailRun(h) \/ FinishRun(h)
         /\ UNCHANGED stageRow \/ FailStage(h) \/ FinishStage(h) \/ FinishNextStage(h)
         /\ UNCHANGED runtime \/ DeleteRuntime(h)
<1> USE DEF rows, maps, history
<1>1. CASE FinishJob(h)
  BY Zenon, <1>1 DEF FinishJob
<1>2. CASE LookupRuntime(h) \/ MarkJobTerminal(h) \/ TestComplete(h)
  BY Zenon, <1>2 DEF LookupRuntime, MarkJobTerminal, TestComplete
<1>3. CASE FailStage(h) \/ FinishStage(h) \/ FinishNextStage(h)
  BY Zenon, <1>3 DEF FailStage, FinishStage, FinishNextStage, FinishStageAs
<1>4. CASE FailRun(h) \/ FinishRun(h)
  BY Zenon, <1>4 DEF FailRun, FinishRun, FinishRunAs
<1>5. CASE DeleteRuntime(h) \/ StageStateStep(h)
  BY Zenon, <1>5 DEF DeleteRuntime, StageStateStep
<1>6. CASE EnqueueReadyJobs(h)
  BY Zenon, <1>6 DEF EnqueueReadyJobs
<1> QED
  BY Zenon, <1>1, <1>2, <1>3, <1>4, <1>5, <1>6 DEF HandleJobFinished

\* A worker, or a fault of one, reaches the store only through a callback.
LEMMA WorkerFrame ==
  ASSUME NEW w \in Workers,
         WorkerStep(w) \/ CallbackTimeout(w) \/ ChannelLost(w) \/ WorkerStops(w)
  PROVE  /\ UNCHANGED <<runRow, stageRow, runtime, remainingNeeds, queued, completed, request>>
         /\ UNCHANGED <<published, reported>>
         /\ UNCHANGED jobRow \/ CallbackJobStarted(w)
<1> USE DEF rows, maps, history, WorkerOnly
<1>1. CASE WorkerStep(w)
  BY Zenon, <1>1
     DEF WorkerStep, Deliver, CallbackJobStarted, ExecuteJob, CallbackJobFinished
<1>2. CASE CallbackTimeout(w) \/ ChannelLost(w) \/ WorkerStops(w)
  BY Zenon, <1>2 DEF CallbackTimeout, ChannelLost, WorkerStops
<1> QED
  BY Zenon, <1>1, <1>2

\* A late job-started request and the idle steps touch no more than a job's row.
LEMMA IdleFrame ==
  ASSUME LateJobStarted \/ Quiescent \/ UNCHANGED vars
  PROVE  /\ UNCHANGED <<runRow, stageRow, runtime, remainingNeeds, queued, completed, request>>
         /\ UNCHANGED <<handler, broker, worker, published, reported>>
BY Zenon DEF LateJobStarted, Quiescent, vars, rows, maps, history

-----------------------------------------------------------------------------
\* Requests and clients.

\* What Become does to the slots.
LEMMA BecomeEffect ==
  ASSUME TypeOK, NEW h \in Handlers, NEW state, Become(h, state)
  PROVE  handler'[h] = state /\ \A g \in Handlers \ {h} : handler'[g] = handler[g]
BY DEF TypeOK, Become

\* The handler moves its own request on, for the same job and client.
Moves(h) ==
  /\ UNCHANGED worker
  /\ handler'[h].client = handler[h].client /\ handler'[h].job = handler[h].job
  /\ \A g \in Handlers \ {h} : handler'[g] = handler[g]

\* A step of a handler either moves its request on or answers it.
LEMMA HandlerEffect ==
  ASSUME TypeOK, NEW h \in Handlers, HandleJobFinished(h)
  PROVE  handler[h].pc # "free" /\ (Moves(h) \/ \E ok \in BOOLEAN : Respond(h, ok))
<1>0. handler[h] \in HandlerStates
  BY DEF TypeOK
<1>1. handler[h].pc # "free"
  BY Zenon DEF HandleJobFinished, FinishJob, LookupRuntime, MarkJobTerminal, FailStage, FailRun,
         DeleteRuntime, StageStateStep, MarkJobSucceeded, NextDependent, LoadRemaining,
         StoreRemaining, TestReady, MarkQueued, EnqueueReadyJobs, TestComplete, FinishStage,
         FinishRun, FinishNextStage
<1> DEFINE Answers == \E ok \in BOOLEAN : Respond(h, ok)
<1> SUFFICES Moves(h) \/ Answers
  BY <1>1
<1>a. ASSUME NEW r, Become(h, r), r.client = handler[h].client, r.job = handler[h].job,
             UNCHANGED worker
      PROVE  Moves(h)
  BY <1>a, BecomeEffect DEF Moves
<1>2. ASSUME NEW label, Goto(h, label), UNCHANGED worker PROVE Moves(h)
  BY <1>0, <1>2, <1>a DEF Goto, HandlerStates
<1>3. CASE FinishJob(h)
  BY Zenon, <1>3, <1>2 DEF FinishJob, StoreError
<1>4. CASE LookupRuntime(h)
  BY Zenon, <1>4, <1>2 DEF LookupRuntime
<1>5. CASE MarkJobTerminal(h)
  BY <1>5, <1>2 DEF MarkJobTerminal
<1>6. CASE FailStage(h)
  <2> DEFINE r == [handler[h] EXCEPT !.pc = "failRun"]
  <2>1. r.client = handler[h].client /\ r.job = handler[h].job
    BY <1>0 DEF HandlerStates
  <2>2. (Become(h, r) /\ UNCHANGED worker) \/ Answers
    BY Zenon, <1>6 DEF FailStage, FinishStageAs, StoreError
  <2> QED
    BY Zenon, <2>1, <2>2, <1>a
<1>7. CASE FailRun(h) \/ FinishRun(h)
  BY Zenon, <1>7, <1>2 DEF FailRun, FinishRun, FinishRunAs, StoreError
<1>8. CASE DeleteRuntime(h)
  BY Zenon, <1>8 DEF DeleteRuntime
<1>9. CASE StageStateStep(h)
  <2>0. UNCHANGED worker
    BY <1>9 DEF StageStateStep
  <2>1. CASE MarkJobSucceeded(h)
    <3> DEFINE r == [handler[h] EXCEPT !.pc = "dependents", !.todo = Dependents(handler[h].job)]
    <3>1. r.client = handler[h].client /\ r.job = handler[h].job
      BY <1>0 DEF HandlerStates
    <3>2. Become(h, r) \/ \E label : Goto(h, label)
      BY <2>1 DEF MarkJobSucceeded
    <3> QED
      BY Zenon, <2>0, <3>1, <3>2, <1>a, <1>2
  <2>2. CASE NextDependent(h)
    <3> DEFINE r(p) == [handler[h] EXCEPT
                 !.todo = @ \ {p}, !.at = p[1],
                 !.pc = IF p[2] # 0 /\ remainingNeeds[p[1]] > 0 THEN "load" ELSE "release"]
    <3>1. ASSUME NEW p
          PROVE  r(p).client = handler[h].client /\ r(p).job = handler[h].job
      BY <1>0 DEF HandlerStates
    <3>2. (\E p \in handler[h].todo : Become(h, r(p))) \/ Goto(h, "publish")
      BY Zenon, <2>2 DEF NextDependent
    <3> HIDE DEF r
    <3> QED
      BY <2>0, <3>1, <3>2, <1>a, <1>2
  <2>3. CASE LoadRemaining(h)
    <3> DEFINE r == [handler[h] EXCEPT !.pc = "store", !.value = remainingNeeds[handler[h].at]]
    <3>1. r.client = handler[h].client /\ r.job = handler[h].job
      BY <1>0 DEF HandlerStates
    <3> QED
      BY Zenon, <2>0, <2>3, <3>1, <1>a DEF LoadRemaining
  <2>4. CASE StoreRemaining(h)
    BY <2>0, <2>4, <1>2 DEF StoreRemaining
  <2>5. CASE TestReady(h)
    BY <2>0, <2>5, <1>2 DEF TestReady
  <2>6. CASE MarkQueued(h)
    <3> DEFINE r == [handler[h] EXCEPT !.pc = "dependents", !.ready = @ \cup {handler[h].at}]
    <3>1. r.client = handler[h].client /\ r.job = handler[h].job
      BY <1>0 DEF HandlerStates
    <3> QED
      BY Zenon, <2>0, <2>6, <3>1, <1>a DEF MarkQueued
  <2> QED
    BY <1>9, <2>1, <2>2, <2>3, <2>4, <2>5, <2>6 DEF StageStateStep
<1>10. CASE EnqueueReadyJobs(h)
  <2> DEFINE r(j) == [handler[h] EXCEPT !.ready = @ \ {j}]
  <2>1. ASSUME NEW j
        PROVE  r(j).client = handler[h].client /\ r(j).job = handler[h].job
    BY <1>0 DEF HandlerStates
  <2>2. \/ (\E j \in handler[h].ready : Become(h, r(j))) /\ UNCHANGED worker
        \/ Goto(h, "complete") /\ UNCHANGED worker
        \/ Answers
    BY Zenon, <1>10 DEF EnqueueReadyJobs
  <2> HIDE DEF r
  <2> QED
    BY <2>1, <2>2, <1>a, <1>2
<1>11. CASE TestComplete(h)
  BY Zenon, <1>11, <1>2 DEF TestComplete
<1>12. CASE FinishStage(h)
  <2> DEFINE s == handler[h].stage
             r1 == [handler[h] EXCEPT !.pc = "finishRun"]
             r2 == [handler[h] EXCEPT !.pc = "dependents", !.stage = s + 1,
                                      !.todo = StageJobs(s + 1) \X {0}]
  <2>1. r1.client = handler[h].client /\ r1.job = handler[h].job
        /\ r2.client = handler[h].client /\ r2.job = handler[h].job
    BY <1>0 DEF HandlerStates
  <2>2. ((Become(h, r1) \/ Become(h, r2)) /\ UNCHANGED worker) \/ Answers
    BY Zenon, <1>12 DEF FinishStage, FinishStageAs, StoreError
  <2> HIDE DEF r1, r2
  <2> QED
    BY <2>1, <2>2, <1>a
<1>13. CASE FinishNextStage(h)
  BY Zenon, <1>13 DEF FinishNextStage, StoreError
<1> QED
  BY <1>3, <1>4, <1>5, <1>6, <1>7, <1>8, <1>9, <1>10, <1>11, <1>12, <1>13
     DEF HandleJobFinished

\* What an answer does: the slot is free, and only the client of the request moves.
LEMMA RespondEffect ==
  ASSUME TypeOK, NEW h \in Handlers, NEW ok \in BOOLEAN, Respond(h, ok)
  PROVE  /\ handler'[h].pc = "free"
         /\ \A g \in Handlers \ {h} : handler'[g] = handler[g]
         /\ \A w \in Workers : w # handler[h].client => worker'[w] = worker[w]
         /\ \A w \in Workers : w = handler[h].client =>
              worker'[w].pc = "idle" \/ (worker'[w].pc = "report" /\ worker'[w].job = worker[w].job)
<1>1. FreeHandler.pc = "free" /\ IdleWorker.pc = "idle"
  BY DEF FreeHandler, IdleWorker
<1>2. handler'[h].pc = "free" /\ \A g \in Handlers \ {h} : handler'[g] = handler[g]
  BY <1>1, BecomeEffect DEF Respond
<1>3. \A w \in Workers : /\ [worker[w] EXCEPT !.pc = "report"].pc = "report"
                         /\ [worker[w] EXCEPT !.pc = "report"].job = worker[w].job
  BY DEF TypeOK, WorkerStates
<1>4. \A w \in Workers : w # handler[h].client => worker'[w] = worker[w]
  BY DEF Respond, TypeOK, HandlerStates
<1>5. ASSUME NEW w \in Workers, w = handler[h].client
      PROVE  worker'[w] = IF ok THEN IdleWorker ELSE [worker[w] EXCEPT !.pc = "report"]
  BY Zenon, <1>5, PipelineAssumption DEF Respond, TypeOK
<1> QED
  BY Zenon, <1>1, <1>2, <1>3, <1>4, <1>5

\* A worker that hangs up leaves no handler with itself as the client.
LEMMA AbandonEffect ==
  ASSUME TypeOK, NEW w \in Workers, Abandon(w), NEW h \in Handlers
  PROVE  /\ handler'[h].pc = handler[h].pc /\ handler'[h].job = handler[h].job
         /\ handler'[h].stage = handler[h].stage /\ handler'[h].ready = handler[h].ready
         /\ handler'[h].todo = handler[h].todo /\ handler'[h].at = handler[h].at
         /\ handler'[h].value = handler[h].value /\ handler'[h].status = handler[h].status
         /\ handler'[h].client = handler[h].client \/ handler'[h].client = NoWorker
         /\ handler[h].pc # "free" => handler'[h].client # w
<1>1. handler[h] \in HandlerStates
  BY DEF TypeOK
<1>2. handler'[h] = IF handler[h].pc # "free" /\ handler[h].client = w
                    THEN [handler[h] EXCEPT !.client = NoWorker] ELSE handler[h]
  BY DEF Abandon
<1> QED
  BY <1>1, <1>2, PipelineAssumption DEF HandlerStates

\* CallbackJobFinished opens a request in a free slot.
LEMMA RequestEffect ==
  ASSUME TypeOK, NEW w \in Workers, CallbackJobFinished(w)
  PROVE  /\ worker[w].pc = "report" /\ worker'[w].pc = "wait" /\ worker'[w].job = worker[w].job
         /\ \A v \in Workers \ {w} : worker'[v] = worker[v]
         /\ \E h \in Handlers :
              /\ handler[h].pc = "free"
              /\ handler'[h].pc = "finishJob" /\ handler'[h].client = w
              /\ handler'[h].job = worker[w].job /\ handler'[h].stage = StageOf[worker[w].job]
              /\ handler'[h].ready = {} /\ handler'[h].todo = {}
              /\ \A g \in Handlers \ {h} : handler'[g] = handler[g]
<1> DEFINE r == [FreeHandler EXCEPT
                  !.pc = "finishJob", !.job = worker[w].job, !.client = w,
                  !.status = worker[w].status, !.stage = StageOf[worker[w].job]]
<1>1. PICK h \in Handlers : handler[h].pc = "free" /\ Become(h, r)
  BY DEF CallbackJobFinished
<1>2. /\ r.pc = "finishJob" /\ r.client = w /\ r.job = worker[w].job
      /\ r.stage = StageOf[worker[w].job] /\ r.ready = {} /\ r.todo = {}
  BY DEF FreeHandler
<1> HIDE DEF r
<1>3. handler'[h] = r /\ \A g \in Handlers \ {h} : handler'[g] = handler[g]
  BY <1>1, BecomeEffect
<1>4. /\ worker[w].pc = "report" /\ worker'[w].pc = "wait" /\ worker'[w].job = worker[w].job
      /\ \A v \in Workers \ {w} : worker'[v] = worker[v]
  BY DEF CallbackJobFinished, TypeOK, WorkerStates
<1> QED
  BY <1>1, <1>2, <1>3, <1>4

\* Each client keeps waiting for the one request it made.
LEMMA NextClients == TypeOK /\ ClientsWait /\ [Next]_vars => ClientsWait'
<1> SUFFICES ASSUME TypeOK, ClientsWait, [Next]_vars PROVE ClientsWait'
  OBVIOUS
<1>0. \A h \in Handlers : handler[h].client \in Workers \cup {NoWorker}
  BY DEF TypeOK, HandlerStates
<1>1. ASSUME handler' = handler, \A w \in Workers : worker[w].pc = "wait" => worker'[w].pc = "wait"
      PROVE  ClientsWait'
  BY <1>0, <1>1 DEF ClientsWait
<1>2. CASE RequestStep \/ LateJobStarted \/ Quiescent \/ UNCHANGED vars
  <2>1. UNCHANGED <<handler, worker>>
    BY <1>2, RequestFrame, IdleFrame
  <2> QED
    BY <1>1, <2>1
<1>3. ASSUME NEW h \in Handlers, HandleJobFinished(h) PROVE ClientsWait'
  <2>1. CASE Moves(h)
    BY <1>0, <1>3, <2>1, HandlerEffect DEF Moves, ClientsWait
  <2>2. ASSUME NEW ok \in BOOLEAN, Respond(h, ok) PROVE ClientsWait'
    <3>1. /\ handler[h].pc # "free" /\ handler'[h].pc = "free"
          /\ \A g \in Handlers \ {h} : handler'[g] = handler[g]
          /\ \A w \in Workers : w # handler[h].client => worker'[w] = worker[w]
      BY <1>3, <2>2, HandlerEffect, RespondEffect
    <3> QED
      BY <1>0, <3>1 DEF ClientsWait
  <2> QED
    BY <1>3, <2>1, <2>2, HandlerEffect
<1>4. ASSUME NEW w \in Workers, Deliver(w) \/ CallbackJobStarted(w) \/ ExecuteJob(w) \/ ChannelLost(w)
      PROVE  ClientsWait'
  <2>1. handler' = handler /\ \A v \in Workers : worker[v].pc = "wait" => worker'[v].pc = "wait"
    <3>1. CASE Deliver(w)
      BY <3>1 DEF Deliver, TypeOK
    <3>2. CASE CallbackJobStarted(w)
      BY <3>2 DEF CallbackJobStarted, TypeOK
    <3>3. CASE ExecuteJob(w)
      BY <3>3 DEF ExecuteJob, TypeOK
    <3>4. CASE ChannelLost(w)
      BY <3>4 DEF ChannelLost, TypeOK, WorkerStates
    <3> QED
      BY <1>4, <3>1, <3>2, <3>3, <3>4
  <2> QED
    BY <1>1, <2>1
<1>5. ASSUME NEW w \in Workers, CallbackJobFinished(w) PROVE ClientsWait'
  <2>1. worker[w].pc = "report" /\ worker'[w].pc = "wait"
        /\ \A v \in Workers \ {w} : worker'[v] = worker[v]
    BY <1>5, RequestEffect
  <2>2. PICK h \in Handlers :
          /\ handler[h].pc = "free" /\ handler'[h].client = w
          /\ \A g \in Handlers \ {h} : handler'[g] = handler[g]
    BY <1>5, RequestEffect
  <2>3. \A g \in Handlers \ {h} : handler[g].pc # "free" => handler[g].client # w
    BY <2>1, PipelineAssumption DEF ClientsWait
  <2> QED
    BY <1>0, <2>1, <2>2, <2>3 DEF ClientsWait
<1>6. ASSUME NEW w \in Workers, CallbackTimeout(w) \/ WorkerStops(w) PROVE ClientsWait'
  <2>1. Abandon(w) /\ \A v \in Workers \ {w} : worker'[v] = worker[v]
    BY <1>6 DEF CallbackTimeout, WorkerStops, TypeOK
  <2>2. ASSUME NEW h \in Handlers
        PROVE  /\ handler'[h].pc = handler[h].pc
               /\ handler'[h].client = handler[h].client \/ handler'[h].client = NoWorker
               /\ handler[h].pc # "free" => handler'[h].client # w
    BY <2>1, AbandonEffect
  <2> QED
    BY <1>0, <2>1, <2>2 DEF ClientsWait
<1>7. CASE Crash
  BY <1>7 DEF Crash, ClientsWait, FreeHandler
<1> QED
  BY <1>2, <1>3, <1>4, <1>5, <1>6, <1>7 DEF Next, Fault, WorkerStep

-----------------------------------------------------------------------------
\* The path of a message, and what the handlers know.

\* Outcomes and publications are never taken back.
Grows ==
  /\ \A j \in Jobs : reported[j] # {} => reported'[j] # {}
  /\ \A j \in Jobs : published[j] > 0 => published'[j] > 0

\* A publish is counted before anything else happens to the message.
LEMMA RouteGrows ==
  ASSUME TypeOK, NEW j \in Jobs, NEW n \in Nat \ {0}, Route(j, n)
  PROVE  /\ \A k \in Jobs : published[k] > 0 => published'[k] > 0
         /\ \A k \in Jobs : published'[k] > 0 => published[k] > 0 \/ k = j
         /\ \A k \in Jobs : broker'[k] > 0 => broker[k] > 0 \/ k = j
         /\ published'[j] > 0
BY DEF TypeOK, Route

\* No step takes back an outcome or a publication.
LEMMA NextGrows == TypeOK /\ [Next]_vars => Grows
<1> SUFFICES ASSUME TypeOK, [Next]_vars PROVE Grows
  OBVIOUS
<1>1. ASSUME UNCHANGED <<published, reported>> PROVE Grows
  BY <1>1 DEF Grows
<1>2. CASE RequestStep
  <2>1. CASE DispatchPublish
    <3>1. PICK j \in request.ready : Route(j, 1) \/ Route(j, 2) \/ UNCHANGED <<broker, published>>
      BY <2>1 DEF DispatchPublish, RouteUnconfirmed
    <3>2. j \in Jobs /\ reported' = reported
      BY <2>1 DEF DispatchPublish, TypeOK, RequestStates
    <3> QED
      BY <3>1, <3>2, RouteGrows DEF Grows
  <2>2. CASE ~DispatchPublish
    BY <1>1, <1>2, <2>2, RequestFrame
  <2> QED
    BY <2>1, <2>2
<1>3. CASE LateJobStarted \/ Quiescent \/ UNCHANGED vars \/ Crash
  BY <1>1, <1>3, IdleFrame DEF Crash, history
<1>4. ASSUME NEW w \in Workers,
             WorkerStep(w) \/ CallbackTimeout(w) \/ ChannelLost(w) \/ WorkerStops(w)
      PROVE  Grows
  BY Zenon, <1>1, <1>4, WorkerFrame
<1>5. ASSUME NEW h \in Handlers, HandleJobFinished(h) PROVE Grows
  <2>1. CASE FinishJob(h)
    BY <2>1 DEF FinishJob, Grows, TypeOK, HandlerStates
  <2>2. CASE EnqueueReadyJobs(h)
    <3>1. /\ reported' = reported
          /\ \/ UNCHANGED published
             \/ \E j \in handler[h].ready : Route(j, 1) \/ Route(j, 2)
      BY Zenon, <2>2 DEF EnqueueReadyJobs, RouteUnconfirmed
    <3>2. handler[h].ready \subseteq Jobs
      BY DEF TypeOK, HandlerStates
    <3> QED
      BY <3>1, <3>2, RouteGrows DEF Grows
  <2>3. CASE ~FinishJob(h) /\ ~EnqueueReadyJobs(h)
    BY Zenon, <1>1, <1>5, <2>3, HandlerFrame
  <2> QED
    BY <2>1, <2>2, <2>3
<1> QED
  BY <1>2, <1>3, <1>4, <1>5 DEF Next, Fault

\* A message in the broker, at a worker or in a callback has been published.
LEMMA NextMessages ==
  TypeOK /\ ClientsWait /\ MessagesArePublished /\ [Next]_vars => MessagesArePublished'
<1> SUFFICES ASSUME TypeOK, ClientsWait, MessagesArePublished, [Next]_vars
             PROVE  MessagesArePublished'
  OBVIOUS
<1>0. Grows /\ TypeOK'
  BY NextGrows, NextType
<1>a. /\ \A h \in Handlers : handler[h].job \in Jobs /\ handler[h].ready \subseteq Jobs
                             /\ handler[h].client \in Workers \cup {NoWorker}
      /\ \A w \in Workers : worker[w].job \in Jobs
  BY DEF TypeOK, HandlerStates, WorkerStates
<1>1. CASE RequestStep
  <2>1. UNCHANGED <<handler, worker>>
    BY <1>1, RequestFrame
  <2>2. \A j \in Jobs : broker'[j] > 0 => published'[j] > 0
    <3>1. CASE DispatchPublish
      <4>1. PICK j \in request.ready : Route(j, 1) \/ Route(j, 2) \/ UNCHANGED <<broker, published>>
        BY <3>1 DEF DispatchPublish, RouteUnconfirmed
      <4>2. j \in Jobs
        BY DEF TypeOK, RequestStates
      <4> QED
        BY <4>1, <4>2, RouteGrows DEF MessagesArePublished
    <3>2. CASE ~DispatchPublish
      BY <1>1, <3>2, RequestFrame DEF MessagesArePublished
    <3> QED
      BY <3>1, <3>2
  <2> QED
    BY <1>0, <1>a, <2>1, <2>2 DEF MessagesArePublished, Grows
<1>2. CASE LateJobStarted \/ Quiescent \/ UNCHANGED vars
  BY <1>2, IdleFrame DEF MessagesArePublished
<1>3. ASSUME NEW h \in Handlers, HandleJobFinished(h) PROVE MessagesArePublished'
  <2>1. \A j \in Jobs : broker'[j] > 0 => published'[j] > 0
    <3>1. CASE EnqueueReadyJobs(h)
      <4>1. \/ UNCHANGED <<broker, published>>
            \/ \E j \in handler[h].ready : Route(j, 1) \/ Route(j, 2)
        BY Zenon, <3>1 DEF EnqueueReadyJobs, RouteUnconfirmed
      <4> QED
        BY <1>a, <4>1, RouteGrows DEF MessagesArePublished
    <3>2. CASE ~EnqueueReadyJobs(h)
      <4>1. UNCHANGED <<broker, published>>
        BY Zenon, <1>3, <3>2, HandlerFrame
      <4> QED
        BY <4>1 DEF MessagesArePublished
    <3> QED
      BY <3>1, <3>2
  <2>2. CASE Moves(h)
    BY <1>0, <1>3, <1>a, <2>1, <2>2, HandlerEffect DEF Moves, MessagesArePublished, Grows
  <2>3. ASSUME NEW ok \in BOOLEAN, Respond(h, ok) PROVE MessagesArePublished'
    <3>1. /\ handler[h].pc # "free" /\ handler'[h].pc = "free"
          /\ \A g \in Handlers \ {h} : handler'[g] = handler[g]
          /\ \A w \in Workers : w # handler[h].client => worker'[w] = worker[w]
          /\ \A w \in Workers : w = handler[h].client =>
               worker'[w].pc = "idle" \/ worker'[w].job = worker[w].job
      BY <1>3, <2>3, HandlerEffect, RespondEffect
    <3>2. \A w \in Workers : w = handler[h].client => worker[w].pc = "wait"
      BY <3>1, PipelineAssumption DEF ClientsWait
    <3>3. \A w \in Workers : worker'[w].pc # "idle" => published'[worker'[w].job] > 0
      BY <1>0, <1>a, <3>1, <3>2 DEF MessagesArePublished, Grows
    <3>4. \A g \in Handlers : handler'[g].pc # "free" => published'[handler'[g].job] > 0
      BY <1>0, <1>a, <3>1 DEF MessagesArePublished, Grows
    <3> QED
      BY <2>1, <3>3, <3>4 DEF MessagesArePublished
  <2> QED
    BY <1>3, <2>2, <2>3, HandlerEffect
<1>4. ASSUME NEW w \in Workers,
             WorkerStep(w) \/ CallbackTimeout(w) \/ ChannelLost(w) \/ WorkerStops(w)
      PROVE  MessagesArePublished'
  <2>0. UNCHANGED published
    BY Zenon, <1>4, WorkerFrame
  <2>a. ASSUME PutBack(w), worker[w].pc # "idle" \/ ~worker[w].unacked
        PROVE  \A j \in Jobs : broker'[j] > 0 => published'[j] > 0
    BY <2>0, <2>a, <1>a DEF PutBack, MessagesArePublished, TypeOK
  <2>1. CASE Deliver(w)
    <3>1. PICK j \in Jobs :
            /\ broker[j] > 0 /\ broker' = [broker EXCEPT ![j] = @ - 1]
            /\ worker' = [worker EXCEPT ![w] =
                           [@ EXCEPT !.pc = "started", !.job = j, !.unacked = TRUE]]
      BY Zenon, <2>1 DEF Deliver
    <3>2. worker'[w].job = j /\ \A v \in Workers \ {w} : worker'[v] = worker[v]
      BY <3>1 DEF TypeOK, WorkerStates
    <3>3. \A k \in Jobs : broker'[k] > 0 => broker[k] > 0
      BY <3>1 DEF TypeOK
    <3>4. handler' = handler
      BY <2>1 DEF Deliver
    <3> QED
      BY <2>0, <3>1, <3>2, <3>3, <3>4 DEF MessagesArePublished
  <2>2. CASE CallbackJobStarted(w)
    <3>1. worker[w].pc = "started" /\ handler' = handler
          /\ \A v \in Workers \ {w} : worker'[v] = worker[v]
      BY <2>2 DEF CallbackJobStarted, TypeOK
    <3>2. worker'[w].pc = "idle" \/ worker'[w].job = worker[w].job
      BY <2>2 DEF CallbackJobStarted, TypeOK, WorkerStates, IdleWorker
    <3>3. \A j \in Jobs : broker'[j] > 0 => published'[j] > 0
      <4>1. PutBack(w) \/ UNCHANGED broker
        BY <2>2 DEF CallbackJobStarted
      <4> QED
        BY <2>0, <2>a, <3>1, <4>1 DEF MessagesArePublished
    <3> QED
      BY <2>0, <3>1, <3>2, <3>3 DEF MessagesArePublished
  <2>3. CASE ExecuteJob(w)
    <3>1. /\ worker[w].pc = "execute" /\ UNCHANGED <<handler, broker>>
          /\ \A v \in Workers : worker'[v].job = worker[v].job
          /\ \A v \in Workers \ {w} : worker'[v] = worker[v]
      BY <2>3 DEF ExecuteJob, TypeOK, WorkerStates
    <3> QED
      BY <2>0, <3>1 DEF MessagesArePublished
  <2>4. CASE CallbackJobFinished(w)
    <3>1. /\ worker[w].pc = "report" /\ worker'[w].job = worker[w].job
          /\ \A v \in Workers \ {w} : worker'[v] = worker[v]
      BY <2>4, RequestEffect
    <3>2. PICK h \in Handlers :
            /\ handler'[h].job = worker[w].job
            /\ \A g \in Handlers \ {h} : handler'[g] = handler[g]
      BY <2>4, RequestEffect
    <3>3. UNCHANGED broker
      BY <2>4 DEF CallbackJobFinished
    <3> QED
      BY <2>0, <3>1, <3>2, <3>3 DEF MessagesArePublished
  <2>5. CASE ChannelLost(w)
    <3>1. handler' = handler /\ \A v \in Workers : worker'[v].pc = worker[v].pc
                                                  /\ worker'[v].job = worker[v].job
      BY <2>5 DEF ChannelLost, TypeOK, WorkerStates
    <3>2. \A j \in Jobs : broker'[j] > 0 => published'[j] > 0
      <4>1. worker[w].pc # "idle"
        BY <2>5 DEF ChannelLost
      <4> QED
        BY <2>5, <2>a, <4>1 DEF ChannelLost
    <3> QED
      BY <2>0, <3>1, <3>2 DEF MessagesArePublished
  <2>6. CASE CallbackTimeout(w) \/ WorkerStops(w)
    <3>1. /\ Abandon(w) /\ worker[w].pc # "idle"
          /\ \A v \in Workers \ {w} : worker'[v] = worker[v]
          /\ PutBack(w) \/ UNCHANGED broker
      BY <2>6 DEF CallbackTimeout, WorkerStops, TypeOK
    <3>2. worker'[w].pc = "idle" \/ worker'[w].job = worker[w].job
      BY <2>6 DEF CallbackTimeout, WorkerStops, TypeOK, WorkerStates, IdleWorker
    <3>3. \A j \in Jobs : broker'[j] > 0 => published'[j] > 0
      BY <2>0, <2>a, <3>1 DEF MessagesArePublished
    <3>4. \A h \in Handlers : handler'[h].pc = handler[h].pc /\ handler'[h].job = handler[h].job
      BY <3>1, AbandonEffect
    <3> QED
      BY <2>0, <3>1, <3>2, <3>3, <3>4 DEF MessagesArePublished
  <2> QED
    BY <1>4, <2>1, <2>2, <2>3, <2>4, <2>5, <2>6 DEF WorkerStep
<1>5. CASE Crash
  <2>1. broker' = broker /\ published' = published
    BY <1>5 DEF Crash, history
  <2>2. \A h \in Handlers : handler'[h].pc = "free"
    BY <1>5 DEF Crash, FreeHandler
  <2>3. ASSUME NEW w \in Workers, worker'[w].pc # "idle"
        PROVE  worker[w].pc # "idle" /\ worker'[w].job = worker[w].job
    <3>1. worker'[w] = IF worker[w].pc = "wait" THEN [worker[w] EXCEPT !.pc = "report"]
                       ELSE worker[w]
      BY <1>5 DEF Crash
    <3> QED
      BY <2>3, <3>1 DEF TypeOK, WorkerStates
  <2> QED
    BY <2>1, <2>2, <2>3 DEF MessagesArePublished
<1> QED
  BY <1>1, <1>2, <1>3, <1>4, <1>5 DEF Next, Fault

\* A request keeps what it relies on while outcomes are only added.
LEMMA KnowsGrows ==
  ASSUME Grows, NEW r \in HandlerStates, Knows(reported, r)
  PROVE  Knows(reported', r)
BY DEF Grows, Knows, Done, HandlerStates

\* A completed job has an outcome: markJobSucceeded and markJobTerminal run after finishJob.
LEMMA NextCompleted ==
  TypeOK /\ CompletedAreReported /\ HandlersKnow /\ [Next]_vars => CompletedAreReported'
<1> SUFFICES ASSUME TypeOK, CompletedAreReported, HandlersKnow, [Next]_vars
             PROVE  CompletedAreReported'
  OBVIOUS
<1>0. Grows
  BY NextGrows
<1>1. ASSUME completed' = completed \/ completed' = {} PROVE CompletedAreReported'
  BY <1>0, <1>1 DEF CompletedAreReported, Grows, TypeOK
<1>2. ASSUME NEW h \in Handlers, handler[h].pc \in {"terminal", "mark"},
             completed' = completed \cup {handler[h].job}
      PROVE  CompletedAreReported'
  <2>1. reported[handler[h].job] # {} /\ handler[h].job \in Jobs
    BY <1>2 DEF HandlersKnow, Knows, TypeOK, HandlerStates
  <2> QED
    BY <1>0, <1>2, <2>1 DEF CompletedAreReported, Grows, TypeOK
<1>3. CASE RequestStep \/ LateJobStarted \/ Quiescent \/ UNCHANGED vars \/ Crash
  BY <1>1, <1>3, RequestFrame, IdleFrame DEF Crash
<1>4. ASSUME NEW w \in Workers,
             WorkerStep(w) \/ CallbackTimeout(w) \/ ChannelLost(w) \/ WorkerStops(w)
      PROVE  CompletedAreReported'
  BY Zenon, <1>1, <1>4, WorkerFrame
<1>5. ASSUME NEW h \in Handlers, HandleJobFinished(h) PROVE CompletedAreReported'
  <2>1. CASE MarkJobTerminal(h)
    BY <1>2, <2>1 DEF MarkJobTerminal
  <2>2. CASE StageStateStep(h)
    BY <1>1, <1>2, <2>2 DEF StageStateStep, MarkJobSucceeded, StoreRemaining, MarkQueued, maps
  <2>3. CASE ~MarkJobTerminal(h) /\ ~StageStateStep(h)
    BY Zenon, <1>1, <1>5, <2>3, HandlerFrame
  <2> QED
    BY <2>1, <2>2, <2>3
<1> QED
  BY <1>3, <1>4, <1>5 DEF Next, Fault

\* The places in which a job is needed belong to jobs of its own stage.
LEMMA DependentsStage ==
  ASSUME NEW j \in Jobs, NEW p \in Dependents(j)
  PROVE  p[1] \in StageJobs(StageOf[j])
BY PipelineAssumption DEF Dependents, StageJobs

\* A step of a handler keeps what its own request relies on.
LEMMA HandlerStepKnows ==
  ASSUME TypeOK, TypeOK', Grows, HandlersKnow, CompletedAreReported, NEW h \in Handlers,
         HandleJobFinished(h)
  PROVE  Knows(reported', handler'[h])
<1> DEFINE r0 == handler[h]
<1>0. /\ r0 \in HandlerStates /\ Knows(reported, r0)
      /\ handler'[h] \in HandlerStates
      /\ \A j \in Jobs : StageOf[j] \in Stages
  BY PipelineAssumption DEF TypeOK, HandlersKnow
<1>a. ASSUME NEW r, Become(h, r), Knows(reported, r) PROVE Knows(reported', handler'[h])
  <2>1. handler'[h] = r
    BY <1>a, BecomeEffect
  <2> QED
    BY <1>0, <1>a, <2>1, KnowsGrows
<1>b. ASSUME NEW ok \in BOOLEAN, Respond(h, ok) PROVE Knows(reported', handler'[h])
  BY <1>b, RespondEffect DEF Knows
<1>c. ASSUME StoreError(h) PROVE Knows(reported', handler'[h])
  BY Zenon, <1>b, <1>c DEF StoreError
<1>d. ASSUME NEW label, Goto(h, label), Knows(reported, [handler[h] EXCEPT !.pc = label])
      PROVE  Knows(reported', handler'[h])
  BY <1>a, <1>d DEF Goto
<1>1. CASE FinishJob(h)
  <2>1. CASE StoreError(h)
    BY <1>c, <2>1
  <2>2. CASE Goto(h, "lookup") /\ reported' = [reported EXCEPT ![r0.job] = @ \cup {r0.status}]
    <3>1. handler'[h] = [r0 EXCEPT !.pc = "lookup"]
      BY <2>2, BecomeEffect DEF Goto
    <3>2. r0.pc = "finishJob" /\ reported'[r0.job] # {}
      BY <1>0, <1>1, <2>2 DEF FinishJob, TypeOK, HandlerStates
    <3>3. Knows(reported', r0)
      BY <1>0, KnowsGrows
    <3> QED
      BY <1>0, <3>1, <3>2, <3>3 DEF Knows, HandlerStates
  <2> QED
    BY Zenon, <1>1, <2>1, <2>2 DEF FinishJob
<1>2. CASE LookupRuntime(h)
  <2>1. r0.pc = "lookup"
    BY Zenon, <1>2 DEF LookupRuntime
  <2>2. \A label \in {"terminal", "check"} : Knows(reported, [r0 EXCEPT !.pc = label])
    BY <1>0, <2>1 DEF Knows, HandlerStates
  <2> QED
    BY Zenon, <1>2, <1>b, <1>d, <2>2 DEF LookupRuntime
<1>3. CASE MarkJobTerminal(h)
  <2>1. Knows(reported, [r0 EXCEPT !.pc = "failStage"])
    BY <1>0, <1>3 DEF Knows, HandlerStates, MarkJobTerminal
  <2> QED
    BY <1>3, <1>d, <2>1 DEF MarkJobTerminal
<1>4. CASE FailStage(h)
  <2>1. Knows(reported, [r0 EXCEPT !.pc = "failRun"])
    BY <1>0, <1>4 DEF Knows, HandlerStates, FailStage
  <2> QED
    BY <1>4, <1>a, <1>c, <2>1 DEF FailStage, FinishStageAs
<1>5. CASE FailRun(h) \/ FinishRun(h)
  <2>1. Knows(reported, [r0 EXCEPT !.pc = "delete"])
    BY <1>0, <1>5 DEF Knows, HandlerStates, FailRun, FinishRun
  <2> QED
    BY <1>5, <1>c, <1>d, <2>1 DEF FailRun, FinishRun, FinishRunAs
<1>6. CASE DeleteRuntime(h)
  BY Zenon, <1>6, <1>b DEF DeleteRuntime
<1>7. CASE StageStateStep(h)
  <2>1. CASE MarkJobSucceeded(h)
    <3>1. CASE r0.pc = "check" /\ Goto(h, IF r0.job \in completed THEN "complete" ELSE "mark")
      <4>1. \A label \in {"complete", "mark"} : Knows(reported, [r0 EXCEPT !.pc = label])
        BY <1>0, <3>1 DEF Knows, HandlerStates
      <4> QED
        BY <3>1, <1>d, <4>1
    <3>2. CASE /\ r0.pc = "mark"
               /\ Become(h, [r0 EXCEPT !.pc = "dependents", !.todo = Dependents(r0.job)])
      <4>1. r0.job \in Jobs /\ r0.stage = StageOf[r0.job]
        BY <1>0, <3>2 DEF Knows, HandlerStates
      <4>2. \A p \in Dependents(r0.job) : p[1] \in StageJobs(r0.stage)
        BY <4>1, DependentsStage
      <4>3. Knows(reported, [r0 EXCEPT !.pc = "dependents", !.todo = Dependents(r0.job)])
        BY <1>0, <3>2, <4>2 DEF Knows, HandlerStates
      <4> QED
        BY <3>2, <4>3, <1>a
    <3> QED
      BY <2>1, <3>1, <3>2 DEF MarkJobSucceeded
  <2>2. CASE NextDependent(h)
    <3> DEFINE r(p) == [r0 EXCEPT
                 !.todo = @ \ {p}, !.at = p[1],
                 !.pc = IF p[2] # 0 /\ remainingNeeds[p[1]] > 0 THEN "load" ELSE "release"]
    <3>0. r0.pc = "dependents"
      BY Zenon, <2>2 DEF NextDependent
    <3>1. ASSUME NEW p \in r0.todo PROVE Knows(reported, r(p))
      BY <1>0, <3>0 DEF Knows, HandlerStates
    <3>2. Knows(reported, [r0 EXCEPT !.pc = "publish"])
      BY <1>0, <3>0 DEF Knows, HandlerStates
    <3>3. (\E p \in r0.todo : Become(h, r(p))) \/ Goto(h, "publish")
      BY Zenon, <2>2 DEF NextDependent
    <3> HIDE DEF r
    <3> QED
      BY <3>1, <3>2, <3>3, <1>a, <1>d
  <2>3. CASE LoadRemaining(h)
    <3>1. Knows(reported, [r0 EXCEPT !.pc = "store", !.value = remainingNeeds[r0.at]])
      BY <1>0, <2>3 DEF Knows, HandlerStates, LoadRemaining
    <3> QED
      BY <2>3, <3>1, <1>a DEF LoadRemaining
  <2>4. CASE StoreRemaining(h)
    <3>1. Knows(reported, [r0 EXCEPT !.pc = "release"])
      BY <1>0, <2>4 DEF Knows, HandlerStates, StoreRemaining
    <3> QED
      BY <2>4, <3>1, <1>d DEF StoreRemaining
  <2>5. CASE TestReady(h)
    <3>0. r0.pc = "release" /\ (Goto(h, "queue") \/ Goto(h, "dependents"))
      BY <2>5 DEF TestReady
    <3>1. \A label \in {"queue", "dependents"} : Knows(reported, [r0 EXCEPT !.pc = label])
      BY <1>0, <3>0 DEF Knows, HandlerStates
    <3> QED
      BY <3>0, <3>1, <1>d
  <2>6. CASE MarkQueued(h)
    <3>1. Knows(reported, [r0 EXCEPT !.pc = "dependents", !.ready = @ \cup {r0.at}])
      BY <1>0, <2>6 DEF Knows, HandlerStates, MarkQueued
    <3> QED
      BY <2>6, <3>1, <1>a DEF MarkQueued
  <2> QED
    BY <1>7, <2>1, <2>2, <2>3, <2>4, <2>5, <2>6 DEF StageStateStep
<1>8. CASE EnqueueReadyJobs(h)
  <2> DEFINE r(j) == [r0 EXCEPT !.ready = @ \ {j}]
  <2>0. r0.pc = "publish"
    BY <1>8 DEF EnqueueReadyJobs
  <2>1. ASSUME NEW j \in r0.ready PROVE Knows(reported, r(j))
    BY <1>0, <2>0 DEF Knows, HandlerStates
  <2>2. ASSUME r0.ready = {} PROVE Knows(reported, [r0 EXCEPT !.pc = "complete"])
    BY <1>0, <2>0, <2>2 DEF Knows, HandlerStates
  <2>3. \/ \E j \in r0.ready : Become(h, r(j))
        \/ r0.ready = {} /\ Goto(h, "complete")
        \/ Respond(h, FALSE)
    BY Zenon, <1>8 DEF EnqueueReadyJobs
  <2> HIDE DEF r
  <2> QED
    BY Zenon, <2>1, <2>2, <2>3, <1>a, <1>b, <1>d
<1>9. CASE TestComplete(h)
  <2>1. CASE Respond(h, TRUE)
    BY Zenon, <2>1, <1>b
  <2>2. CASE /\ StageJobs(r0.stage) \subseteq completed
             /\ Goto(h, IF r0.stage = StageOf[r0.job] THEN "finishStage" ELSE "finishNext")
    <3>0. r0.pc = "complete"
      BY <1>9 DEF TestComplete
    <3>5. r0.stage \in Stages
      BY <1>0 DEF HandlerStates
    <3>6. Stages \subseteq Int
      BY PipelineAssumption DEF Stages
    <3>1. r0.pc = "complete" /\ r0.stage \in Int
      BY Zenon, <3>0, <3>5, <3>6
    <3>2. Done(reported, r0.stage - 1)
      BY <1>0, <3>1 DEF Knows
    <3>3. Done(reported, r0.stage)
      <4>1. \A k \in StageJobs(r0.stage) : reported[k] # {}
        BY <2>2 DEF CompletedAreReported
      <4> HIDE DEF r0
      <4> QED
        BY <3>1, <3>2, <4>1, OneMoreStage
    <3>4. \A label \in {"finishStage", "finishNext"} : Knows(reported, [r0 EXCEPT !.pc = label])
      BY <1>0, <3>1, <3>3 DEF Knows, HandlerStates
    <3> QED
      BY <2>2, <3>4, <1>d
  <2> QED
    BY Zenon, <1>9, <2>1, <2>2 DEF TestComplete
<1>10. CASE FinishStage(h)
  <2> DEFINE s == r0.stage
             r1 == [r0 EXCEPT !.pc = "finishRun"]
             r2 == [r0 EXCEPT !.pc = "dependents", !.stage = s + 1,
                              !.todo = StageJobs(s + 1) \X {0}]
  <2>a. r0.pc = "finishStage"
    BY <1>10 DEF FinishStage
  <2>b. s \in Stages
    BY <1>0 DEF HandlerStates
  <2>c. Stages \subseteq Int
    BY PipelineAssumption DEF Stages
  <2>0. r0.pc = "finishStage" /\ s \in Int
    BY Zenon, <2>a, <2>b, <2>c
  <2>1. ASSUME s = NumStages PROVE Knows(reported, r1)
    BY <1>0, <2>0, <2>1 DEF Knows, HandlerStates
  <2>2. Knows(reported, r2)
    <3>1. /\ r2.pc = "dependents" /\ r2.stage = s + 1 /\ r2.todo = StageJobs(s + 1) \X {0}
          /\ r2.ready = r0.ready /\ r2.job = r0.job
      BY <1>0 DEF HandlerStates
    <3>2. r0.ready = {} /\ reported[r0.job] # {} /\ Done(reported, s) /\ (s + 1) - 1 = s
      BY <1>0, <2>0 DEF Knows
    <3> HIDE DEF r2
    <3> QED
      BY <3>1, <3>2 DEF Knows
  <2>3. (s = NumStages /\ Become(h, r1)) \/ Become(h, r2) \/ StoreError(h)
    BY <1>10 DEF FinishStage, FinishStageAs
  <2> HIDE DEF r1, r2
  <2> QED
    BY <2>1, <2>2, <2>3, <1>a, <1>c
<1>11. CASE FinishNextStage(h)
  BY Zenon, <1>11, <1>b, <1>c DEF FinishNextStage
<1> QED
  BY <1>1, <1>2, <1>3, <1>4, <1>5, <1>6, <1>7, <1>8, <1>9, <1>10, <1>11 DEF HandleJobFinished

\* Every request relies on what holds, whoever takes the step.
LEMMA NextHandlersKnow ==
  TypeOK /\ MessagesArePublished /\ CompletedAreReported /\ HandlersKnow /\ StagesInOrder
    /\ [Next]_vars => HandlersKnow'
<1> SUFFICES ASSUME TypeOK, MessagesArePublished, CompletedAreReported, HandlersKnow,
                    StagesInOrder, [Next]_vars, NEW h \in Handlers
             PROVE  Knows(reported', handler'[h])
  BY DEF HandlersKnow
<1>0. Grows /\ TypeOK' /\ handler[h] \in HandlerStates /\ handler'[h] \in HandlerStates
  <2>1. TypeOK'
    BY NextType
  <2> QED
    BY <2>1, NextGrows DEF TypeOK
<1>a. Knows(reported', handler[h])
  BY <1>0, KnowsGrows DEF HandlersKnow
<1>1. CASE handler'[h] = handler[h]
  BY <1>1, <1>a
<1>2. CASE RequestStep \/ LateJobStarted \/ Quiescent \/ UNCHANGED vars
  BY <1>1, <1>2, RequestFrame, IdleFrame
<1>3. ASSUME NEW g \in Handlers, HandleJobFinished(g) PROVE Knows(reported', handler'[h])
  <2>1. CASE g = h
    BY <1>0, <1>3, <2>1, HandlerStepKnows
  <2>2. CASE g # h
    <3>1. Moves(g) \/ \E ok \in BOOLEAN : Respond(g, ok)
      BY <1>3, HandlerEffect
    <3> QED
      BY <1>1, <2>2, <3>1, RespondEffect DEF Moves
  <2> QED
    BY <2>1, <2>2
<1>4. ASSUME NEW w \in Workers, Deliver(w) \/ CallbackJobStarted(w) \/ ExecuteJob(w) \/ ChannelLost(w)
      PROVE  Knows(reported', handler'[h])
  BY Zenon, <1>1, <1>4 DEF Deliver, CallbackJobStarted, ExecuteJob, ChannelLost
<1>5. ASSUME NEW w \in Workers, CallbackJobFinished(w) PROVE Knows(reported', handler'[h])
  <2>1. PICK g \in Handlers :
          /\ handler'[g].pc = "finishJob" /\ handler'[g].job = worker[w].job
          /\ handler'[g].stage = StageOf[worker[w].job]
          /\ handler'[g].ready = {} /\ handler'[g].todo = {}
          /\ \A f \in Handlers \ {g} : handler'[f] = handler[f]
    BY <1>5, RequestEffect
  <2>2. CASE g = h
    <3>1. worker[w].job \in Jobs /\ published[worker[w].job] > 0 /\ reported' = reported
      BY <1>5 DEF CallbackJobFinished, WorkerOnly, history, MessagesArePublished, TypeOK,
                  WorkerStates
    <3>2. \A j \in Jobs : StageOf[j] \in Int
      BY PipelineAssumption DEF Stages
    <3>3. Done(reported', StageOf[worker[w].job] - 1)
      BY <3>1, <3>2 DEF StagesInOrder, Done
    <3> QED
      BY <2>1, <2>2, <3>3 DEF Knows
  <2>3. CASE g # h
    BY Zenon, <1>1, <2>1, <2>3
  <2> QED
    BY <2>2, <2>3
<1>6. ASSUME NEW w \in Workers, CallbackTimeout(w) \/ WorkerStops(w)
      PROVE  Knows(reported', handler'[h])
  <2>1. Abandon(w)
    BY <1>6 DEF CallbackTimeout, WorkerStops
  <2>2. /\ handler'[h].pc = handler[h].pc /\ handler'[h].job = handler[h].job
        /\ handler'[h].stage = handler[h].stage /\ handler'[h].ready = handler[h].ready
        /\ handler'[h].todo = handler[h].todo /\ handler'[h].at = handler[h].at
    BY <2>1, AbandonEffect
  <2> QED
    BY <1>a, <2>2 DEF Knows
<1>7. CASE Crash
  <2>1. handler'[h].pc = "free"
    BY <1>7 DEF Crash, FreeHandler
  <2> QED
    BY <2>1 DEF Knows
<1> QED
  BY <1>2, <1>3, <1>4, <1>5, <1>6, <1>7 DEF Next, Fault, WorkerStep

\* While the dispatch goroutine looks for a stage to start, a stage without ready
\* jobs has no jobs: one of them would need nothing.
LEMMA NothingReady ==
  ASSUME RequestKnows, request.pc = "scan", ReadyJobs(request.at) = {}
  PROVE  StageJobs(request.at) = {}
<1> SUFFICES ASSUME NEW j \in Jobs, StageOf[j] = request.at PROVE FALSE
  BY DEF StageJobs
<1>1. PICK k \in Jobs : StageOf[k] = request.at /\ Needs[k] = << >>
  BY PipelineAssumption
<1>2. remainingNeeds[k] = 0
  <2>1. remainingNeeds = InDegree
    BY DEF RequestKnows
  <2>2. InDegree[k] = Len(<< >>)
    BY <1>1 DEF InDegree
  <2> QED
    BY <2>1, <2>2
<1>3. k \in ReadyJobs(request.at)
  BY <1>1, <1>2 DEF ReadyJobs, StageJobs, RequestKnows
<1> QED
  BY <1>3

\* What the request goroutine relies on.  Until it publishes, nothing of the run
\* is in the broker, so no worker and no handler is active.
LEMMA NextRequestKnows ==
  TypeOK /\ MessagesArePublished /\ RequestKnows /\ [Next]_vars => RequestKnows'
<1> SUFFICES ASSUME TypeOK, MessagesArePublished, RequestKnows, [Next]_vars
             PROVE  RequestKnows'
  OBVIOUS
<1>0. Grows /\ request \in RequestStates /\ request.at \in Nat
  BY NextGrows DEF TypeOK, RequestStates
<1>a. \A j \in Jobs : StageOf[j] \in Int
  BY PipelineAssumption DEF Stages
<1>b. Done(reported, request.at - 1) => Done(reported', request.at - 1)
  BY Zenon, <1>0 DEF Grows, Done
<1>c. ASSUME request' = request, published' = published, UNCHANGED maps PROVE RequestKnows'
  BY <1>b, <1>c DEF RequestKnows, maps
<1>d. ASSUME request' = request, request.pc \notin {"create", "rows", "scan"} PROVE RequestKnows'
  BY <1>b, <1>d DEF RequestKnows
<1>1. CASE RequestStep
  <2>1. CASE StartPipelineRun \/ PutRuntime \/ DispatchDone \/ DispatchAbort \/ DispatchDeleteRuntime
             \/ (\E s \in Stages : StartStage(s)) \/ (\E j \in Jobs : StartJob(j))
    <3>1. /\ UNCHANGED <<maps, published>>
          /\ request' = request \/ \E pc : request' = [request EXCEPT !.pc = pc]
          /\ request'.pc \in {"create", "rows"} => request.pc \in {"create", "rows"}
          /\ request'.pc \in {"create", "rows", "scan"} => request.pc \in {"create", "rows"}
          /\ request'.pc # "publish"
      BY <1>0, <2>1 DEF StartPipelineRun, PutRuntime, DispatchDone, DispatchAbort,
                        DispatchDeleteRuntime, StartStage, StartJob, history, RequestStates
    <3>2. request'.at = request.at /\ request'.ready = request.ready
      BY <1>0, <3>1 DEF RequestStates
    <3>3. request'.pc = "scan" => Done(reported', request'.at - 1)
      BY <1>a, <3>1, <3>2, PipelineAssumption DEF Done, RequestKnows, Stages
    <3> QED
      BY <3>1, <3>2, <3>3 DEF RequestKnows, maps
  <2>2. CASE EnqueueFirstReadyStageJobs
    <3> DEFINE s == request.at
               ready == ReadyJobs(s)
               r1 == [request EXCEPT !.pc = "publish", !.ready = ready]
               r2 == [request EXCEPT !.at = @ + 1]
               r3 == [request EXCEPT !.pc = "abort"]
    <3>0. request.pc = "scan" /\ published' = published /\ reported' = reported
          /\ UNCHANGED <<remainingNeeds, completed>>
      BY <2>2 DEF EnqueueFirstReadyStageJobs, history
    <3>1. /\ r1.pc = "publish" /\ r1.at = s /\ r1.ready = ready
          /\ r2.pc = "scan" /\ r2.at = s + 1 /\ r2.ready = request.ready
          /\ r3.pc = "abort" /\ r3.at = s /\ r3.ready = request.ready
      BY <1>0, <3>0 DEF RequestStates
    <3>2. ready \subseteq StageJobs(s)
      BY DEF ReadyJobs
    <3>3. \/ request' = r1
          \/ request' = r2 /\ ready = {} /\ queued' = queued
          \/ request' = r3
      BY <2>2 DEF EnqueueFirstReadyStageJobs
    <3> HIDE DEF r1, r2, r3, ready
    <3>4. CASE request' = r1
      BY <1>b, <3>0, <3>1, <3>2, <3>4 DEF RequestKnows
    <3>5. CASE request' = r3
      BY <3>0, <3>1, <3>5 DEF RequestKnows
    <3>6. CASE request' = r2 /\ ready = {} /\ queued' = queued
      <4>1. StageJobs(s) = {}
        BY <3>0, <3>6, NothingReady DEF ready
      <4>2. Done(reported, (s + 1) - 1)
        BY <1>0, <1>a, <3>0, <4>1 DEF RequestKnows, Done, StageJobs
      <4>3. request.ready = {}
        BY <4>1 DEF RequestKnows
      <4> QED
        BY <3>0, <3>1, <3>6, <4>2, <4>3 DEF RequestKnows
    <3> QED
      BY <3>3, <3>4, <3>5, <3>6
  <2>3. CASE DispatchPublish
    <3>0. request.pc = "publish"
      BY <2>3 DEF DispatchPublish
    <3>1. \E j : request' = [request EXCEPT !.ready = @ \ {j}]
                 \/ request' = [request EXCEPT !.pc = "abort", !.ready = {}]
      BY <2>3 DEF DispatchPublish
    <3>2. /\ request'.pc \in {"publish", "abort"} /\ request'.at = request.at
          /\ request'.ready \subseteq request.ready
      BY Zenon, <1>0, <3>0, <3>1 DEF RequestStates
    <3> QED
      BY <1>b, <3>0, <3>2 DEF RequestKnows
  <2> QED
    BY <1>1, <2>1, <2>2, <2>3 DEF RequestStep
<1>2. CASE LateJobStarted \/ Quiescent \/ UNCHANGED vars
  BY <1>2, <1>c, IdleFrame DEF maps
<1>3. ASSUME NEW h \in Handlers, HandleJobFinished(h) PROVE RequestKnows'
  <2>1. request' = request
    BY Zenon, <1>3, HandlerFrame
  <2>2. published[handler[h].job] > 0 /\ handler[h].job \in Jobs
    BY <1>3, HandlerEffect DEF MessagesArePublished, TypeOK, HandlerStates
  <2> QED
    BY <1>d, <2>1, <2>2 DEF RequestKnows
<1>4. ASSUME NEW w \in Workers,
             WorkerStep(w) \/ CallbackTimeout(w) \/ ChannelLost(w) \/ WorkerStops(w)
      PROVE  RequestKnows'
  BY Zenon, <1>4, <1>c, WorkerFrame DEF maps
<1>5. CASE Crash
  BY <1>5 DEF Crash, RequestKnows
<1> QED
  BY <1>1, <1>2, <1>3, <1>4, <1>5 DEF Next, Fault

\* A message is published only for a stage whose predecessors are done.
LEMMA NextStagesInOrder ==
  TypeOK /\ HandlersKnow /\ RequestKnows /\ StagesInOrder /\ [Next]_vars => StagesInOrder'
<1> SUFFICES ASSUME TypeOK, HandlersKnow, RequestKnows, StagesInOrder, [Next]_vars
             PROVE  StagesInOrder'
  OBVIOUS
<1>0. Grows /\ \A j \in Jobs : StageOf[j] \in Int
  BY NextGrows, PipelineAssumption DEF Stages
<1>a. ASSUME published' = published PROVE StagesInOrder'
  BY <1>0, <1>a DEF StagesInOrder, Grows
<1>b. ASSUME NEW j \in Jobs, NEW s \in Int, StageOf[j] = s, Done(reported, s - 1),
             Route(j, 1) \/ Route(j, 2) \/ RouteUnconfirmed(j)
      PROVE  StagesInOrder'
  <2>1. \A k \in Jobs : published'[k] > 0 => published[k] > 0 \/ k = j
    BY <1>b, RouteGrows DEF RouteUnconfirmed
  <2> QED
    BY <1>0, <1>b, <2>1 DEF StagesInOrder, Grows, Done
<1>1. CASE RequestStep
  <2>1. CASE DispatchPublish
    <3>1. PICK j \in request.ready : Route(j, 1) \/ Route(j, 2) \/ RouteUnconfirmed(j)
      BY <2>1 DEF DispatchPublish
    <3>2. j \in Jobs /\ StageOf[j] = request.at /\ request.at \in Int
          /\ Done(reported, request.at - 1)
      BY <2>1 DEF DispatchPublish, RequestKnows, StageJobs, TypeOK, RequestStates
    <3> QED
      BY <1>b, <3>1, <3>2
  <2>2. CASE ~DispatchPublish
    BY <1>1, <1>a, <2>2, RequestFrame
  <2> QED
    BY <2>1, <2>2
<1>2. CASE LateJobStarted \/ Quiescent \/ UNCHANGED vars \/ Crash
  BY <1>2, <1>a, IdleFrame DEF Crash, history
<1>3. ASSUME NEW w \in Workers,
             WorkerStep(w) \/ CallbackTimeout(w) \/ ChannelLost(w) \/ WorkerStops(w)
      PROVE  StagesInOrder'
  BY Zenon, <1>3, <1>a, WorkerFrame
<1>4. ASSUME NEW h \in Handlers, HandleJobFinished(h) PROVE StagesInOrder'
  <2>1. CASE EnqueueReadyJobs(h)
    <3>1. CASE published' = published
      BY <1>a, <3>1
    <3>2. CASE published' # published
      <4>1. PICK j \in handler[h].ready : Route(j, 1) \/ Route(j, 2) \/ RouteUnconfirmed(j)
        BY Zenon, <2>1, <3>2 DEF EnqueueReadyJobs
      <4>a. handler[h].pc = "publish"
        BY Zenon, <2>1 DEF EnqueueReadyJobs
      <4>2. handler[h].stage \in Int /\ handler[h].pc = "publish"
        BY <4>a, PipelineAssumption DEF TypeOK, HandlerStates, Stages
      <4>3. j \in Jobs /\ StageOf[j] = handler[h].stage /\ Done(reported, handler[h].stage - 1)
        BY <4>2 DEF HandlersKnow, Knows, StageJobs
      <4> QED
        BY <1>b, <4>1, <4>2, <4>3
    <3> QED
      BY <3>1, <3>2
  <2>2. CASE ~EnqueueReadyJobs(h)
    BY Zenon, <1>4, <1>a, <2>2, HandlerFrame
  <2> QED
    BY <2>1, <2>2
<1> QED
  BY <1>1, <1>2, <1>3, <1>4 DEF Next, Fault

\* Success is recorded by a handler or by the dispatch goroutine only for a stage
\* that is done, and for the run only after its last stage.
LEMMA NextSuccessCovers ==
  TypeOK /\ HandlersKnow /\ RequestKnows /\ SuccessCoversJobs /\ [Next]_vars => SuccessCoversJobs'
<1> SUFFICES ASSUME TypeOK, HandlersKnow, RequestKnows, SuccessCoversJobs, [Next]_vars
             PROVE  SuccessCoversJobs'
  OBVIOUS
<1>0. Grows /\ \A j \in Jobs : StageOf[j] \in 1 .. NumStages
  BY NextGrows, PipelineAssumption DEF Stages
<1>a. ASSUME runRow' = "success" =>
               runRow = "success" \/ (\A j \in Jobs : reported[j] # {}),
             \A s \in Stages : stageRow'[s] = "success" =>
               stageRow[s] = "success" \/ Done(reported, s)
      PROVE  SuccessCoversJobs'
  BY <1>0, <1>a DEF SuccessCoversJobs, Grows, Done
<1>b. ASSUME UNCHANGED <<runRow, stageRow>> PROVE SuccessCoversJobs'
  BY <1>a, <1>b
<1>1. CASE RequestStep
  <2>1. CASE StartPipelineRun \/ DispatchAbort
    BY <1>a, <2>1 DEF StartPipelineRun, DispatchAbort
  <2>2. CASE PutRuntime \/ DispatchPublish \/ DispatchDone \/ DispatchDeleteRuntime
    BY <1>b, <2>2 DEF PutRuntime, DispatchPublish, DispatchDone, DispatchDeleteRuntime, rows
  <2>3. ASSUME NEW s \in Stages, StartStage(s) PROVE SuccessCoversJobs'
    BY <1>a, <2>3 DEF StartStage, TypeOK
  <2>4. ASSUME NEW j \in Jobs, StartJob(j) PROVE SuccessCoversJobs'
    BY <1>a, <2>4 DEF StartJob, TypeOK
  <2>5. CASE EnqueueFirstReadyStageJobs
    <3> DEFINE s == request.at
    <3>1. runRow' = runRow /\ request.pc = "scan" /\ s \in Int
      BY <2>5 DEF EnqueueFirstReadyStageJobs, TypeOK, RequestStates
    <3>2. CASE stageRow' = stageRow
      BY <1>b, <3>1, <3>2
    <3>3. CASE StageJobs(s) = {} /\ stageRow' = [stageRow EXCEPT ![s] = "success"]
      <4>1. Done(reported, s)
        BY <1>0, <3>1, <3>3 DEF RequestKnows, Done, StageJobs
      <4>2. \A t \in Stages : stageRow'[t] = "success" => stageRow[t] = "success" \/ t = s
        BY <3>3 DEF TypeOK
      <4> QED
        BY <1>a, <3>1, <4>1, <4>2
    <3> QED
      BY <2>5, <3>2, <3>3 DEF EnqueueFirstReadyStageJobs
  <2> QED
    BY <1>1, <2>1, <2>2, <2>3, <2>4, <2>5 DEF RequestStep
<1>2. CASE LateJobStarted \/ Quiescent \/ UNCHANGED vars \/ Crash
  BY <1>2, <1>b, IdleFrame DEF Crash, rows
<1>3. ASSUME NEW w \in Workers,
             WorkerStep(w) \/ CallbackTimeout(w) \/ ChannelLost(w) \/ WorkerStops(w)
      PROVE  SuccessCoversJobs'
  BY Zenon, <1>3, <1>b, WorkerFrame
<1>4. ASSUME NEW h \in Handlers, HandleJobFinished(h) PROVE SuccessCoversJobs'
  <2>0. handler[h] \in HandlerStates /\ Knows(reported, handler[h])
    BY DEF TypeOK, HandlersKnow
  <2>1. CASE FailStage(h)
    <3>1. /\ runRow' = runRow
          /\ \/ stageRow' = stageRow
             \/ stageRow' = [stageRow EXCEPT ![StageOf[handler[h].job]] = "failed"]
      BY <2>1 DEF FailStage, FinishStageAs
    <3> QED
      BY <1>a, <3>1 DEF TypeOK
  <2>2. CASE FailRun(h)
    BY Zenon, <1>a, <2>2 DEF FailRun, FinishRunAs
  <2>3. CASE FinishStage(h) \/ FinishNextStage(h)
    <3> DEFINE s == handler[h].stage
    <3>1. /\ runRow' = runRow
          /\ stageRow' = stageRow \/ stageRow' = [stageRow EXCEPT ![s] = "success"]
      BY Zenon, <2>3 DEF FinishStage, FinishNextStage, FinishStageAs
    <3>2. Done(reported, s)
      BY Zenon, <2>0, <2>3 DEF Knows, FinishStage, FinishNextStage
    <3>3. \A t \in Stages : stageRow'[t] = "success" => stageRow[t] = "success" \/ t = s
      BY <3>1 DEF TypeOK
    <3> QED
      BY <1>a, <3>1, <3>2, <3>3
  <2>4. CASE FinishRun(h)
    <3>1. stageRow' = stageRow /\ handler[h].pc = "finishRun"
      BY <2>4 DEF FinishRun, FinishRunAs
    <3>2. Done(reported, NumStages)
      BY <2>0, <3>1 DEF Knows
    <3>3. \A j \in Jobs : reported[j] # {}
      <4>1. NumStages \in Int
        BY PipelineAssumption
      <4> QED
        BY <1>0, <3>2, <4>1 DEF Done
    <3> QED
      BY <1>a, <3>1, <3>3
  <2>5. CASE ~FailStage(h) /\ ~FailRun(h) /\ ~FinishStage(h) /\ ~FinishNextStage(h) /\ ~FinishRun(h)
    BY Zenon, <1>4, <1>b, <2>5, HandlerFrame
  <2> QED
    BY <2>1, <2>2, <2>3, <2>4, <2>5
<1> QED
  BY <1>1, <1>2, <1>3, <1>4 DEF Next, Fault

\* The invariant holds before the run is created.
LEMMA InitIInv == Init => IInv
<1> SUFFICES ASSUME Init PROVE IInv
  OBVIOUS
<1>1. TypeOK
  BY InitType
<1>2. \A h \in Handlers : handler[h].pc = "free"
  BY DEF Init, FreeHandler
<1>3. \A w \in Workers : worker[w].pc = "idle"
  BY DEF Init, IdleWorker
<1>4. ClientsWait /\ HandlersKnow
  BY Zenon, <1>2 DEF ClientsWait, HandlersKnow, Knows
<1>a. \A j \in Jobs : ~(broker[j] > 0) /\ ~(published[j] > 0)
  BY DEF Init
<1>b. completed = {}
  BY DEF Init
<1>5. MessagesArePublished /\ CompletedAreReported /\ StagesInOrder
  BY Zenon, <1>2, <1>3, <1>a, <1>b DEF MessagesArePublished, CompletedAreReported, StagesInOrder
<1>6. RequestKnows
  BY DEF Init, RequestKnows
<1>7. SuccessCoversJobs
  BY DEF Init, SuccessCoversJobs
<1> QED
  BY <1>1, <1>4, <1>5, <1>6, <1>7 DEF IInv

\* Every step keeps the invariant.
LEMMA NextIInv == IInv /\ [Next]_vars => IInv'
BY NextType, NextClients, NextMessages, NextCompleted, NextHandlersKnow, NextRequestKnows,
   NextStagesInOrder, NextSuccessCovers
   DEF IInv

\* Stages are released in order: HandleJobFinished and dispatchPipelineStartJobs
\* publish no job before every job of every earlier stage has an outcome in the
\* store, however the callbacks interleave and whatever fails.
THEOREM StagesReleasedInOrder == Spec => []StagesInOrder
<1>1. IInv => StagesInOrder
  BY DEF IInv
<1> QED
  BY <1>1, InitIInv, NextIInv, PTL DEF Spec

\* Success in the store, of the run or of a stage, covers every job up to that
\* point: no interleaving of HandleJobFinished with itself, with the dispatch
\* goroutine or with a fault records it too early.
THEOREM SuccessIsEarned == Spec => []SuccessCoversJobs
<1>1. IInv => SuccessCoversJobs
  BY DEF IInv
<1> QED
  BY <1>1, InitIInv, NextIInv, PTL DEF Spec
====
