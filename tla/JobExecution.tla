---------------------------- MODULE JobExecution ----------------------------
(***************************************************************************)
(* The worker service with ExecuteJob spelled out                          *)
(* (internal/services/worker/execute.go): WorkerPool lets a consumer take  *)
(* one step from the message to the result of its job; here it pulls the   *)
(* image, makes the workspace, creates, fills, starts and awaits the       *)
(* container, reads its logs, and runs the deferred calls.  A call fails   *)
(* for any reason, among them the end of the context it was given: that of *)
(* the consumer (consumeCtx), or its own limit of jobTimeout.              *)
(***************************************************************************)
EXTENDS WorkerPool

CONSTANT SourceOf   \* what the message of a job says of its workspace

ASSUME SourceAssumption == SourceOf \in [Jobs -> {"none", "path", "repo"}]

VARIABLES
  phase,     \* per consumer: where ExecuteJob is
  dir,       \* the temporary directory its last execution made
  box,       \* the container its last execution made
  files,     \* what was copied into that container
  verdict,   \* what it will return
  ran        \* jobs for which a container with the right files exited with 0

execution == <<phase, dir, box, files, verdict>>
allVars == <<vars, execution, ran>>

Phases == {"pull", "clone", "checkout", "create", "copy", "start", "wait", "logs", "remove", "cleanup", "return"}

\* Nothing is there, or something that nobody will remove any more: its removal was
\* refused, its name was never learnt, or the process that made it has ended.
Unheld == {"none", "left"}

ExecutionTypes ==
  /\ phase \in [Consumers -> Phases]
  /\ dir \in [Consumers -> Unheld \cup {"empty", "cloned", "ready"}]
  /\ box \in [Consumers -> Unheld \cup {"created", "running", "exited"}]
  /\ files \in [Consumers -> {"none", "path", "empty", "cloned", "ready"}]
  /\ verdict \in [Consumers -> {"success", "failed", "interrupted"}]
  /\ ran \subseteq Jobs

\* No consumer executes anything.
Idle(p, f, v) ==
  /\ p = [c \in Consumers |-> "pull"] /\ f = [c \in Consumers |-> "none"]
  /\ v = [c \in Consumers |-> "success"]

WorkerInit ==
  /\ Init /\ Idle(phase, files, verdict) /\ ran = {}
  /\ dir = [c \in Consumers |-> "none"] /\ box = [c \in Consumers |-> "none"]

-----------------------------------------------------------------------------
At(c, p) == pc[c] = "execute" /\ phase[c] = p
Continue(c, p) == phase' = [phase EXCEPT ![c] = p] /\ UNCHANGED verdict

\* An error is returned, through the deferred calls that are registered by then.
Fail(c, p) ==
  /\ phase' = [phase EXCEPT ![c] = p]
  /\ verdict' = [verdict EXCEPT ![c] = IF consumeCtx = "done" THEN "interrupted" ELSE "failed"]

\* os.RemoveAll, whose error is dropped.
RemoveDirectory(c) == \E d \in Unheld : dir' = [dir EXCEPT ![c] = d]

\* pullImage, if the job names one, and the first lines of materializeWorkspace.
PullImage(c) ==
  /\ At(c, "pull")
  /\ \/ /\ SourceOf[job[c]] = "repo"
        /\ dir' = [dir EXCEPT ![c] = "empty"] /\ Continue(c, "clone")
     \/ SourceOf[job[c]] # "repo" /\ Continue(c, "create") /\ UNCHANGED dir
     \/ Fail(c, "return") /\ UNCHANGED dir
  /\ UNCHANGED <<box, files, ran>>

Clone(c) ==
  /\ At(c, "clone")
  /\ \/ dir' = [dir EXCEPT ![c] = "cloned"] /\ Continue(c, "checkout")
     \/ RemoveDirectory(c) /\ Fail(c, "return")
  /\ UNCHANGED <<box, files, ran>>

\* Mutant: the directory is removed by the caller only, which has not got it.
CheckoutLeavesDirectory(c) ==
  /\ At(c, "checkout")
  /\ \/ dir' = [dir EXCEPT ![c] = "ready"] /\ Continue(c, "create")
     \/ Fail(c, "return") /\ UNCHANGED dir
  /\ UNCHANGED <<box, files, ran>>

Checkout(c) ==
  /\ At(c, "checkout")
  /\ \/ dir' = [dir EXCEPT ![c] = "ready"] /\ Continue(c, "create")
     \/ RemoveDirectory(c) /\ Fail(c, "return")
  /\ UNCHANGED <<box, files, ran>>

\* A container whose creation is not answered has no ID to remove it by.
CreateContainer(c) ==
  /\ At(c, "create")
  /\ \/ /\ box' = [box EXCEPT ![c] = "created"]
        /\ Continue(c, IF SourceOf[job[c]] = "none" THEN "start" ELSE "copy")
     \/ \E b \in Unheld : box' = [box EXCEPT ![c] = b] /\ Fail(c, "cleanup")
  /\ UNCHANGED <<dir, files, ran>>

CopyWorkspaceToContainer(c) ==
  /\ At(c, "copy")
  /\ \/ /\ files' = [files EXCEPT ![c] = IF dir[c] = "none" THEN "path" ELSE dir[c]]
        /\ Continue(c, "start")
     \/ Fail(c, "remove") /\ UNCHANGED files
  /\ UNCHANGED <<dir, box, ran>>

StartContainer(c) ==
  /\ At(c, "start")
  /\ \/ box' = [box EXCEPT ![c] = "running"] /\ Continue(c, "wait")
     \/ Fail(c, "remove") /\ UNCHANGED box
  /\ UNCHANGED <<dir, files, ran>>

\* What the script of a job is to find in its container.
Expected(j) == CASE SourceOf[j] = "repo" -> "ready" [] OTHER -> SourceOf[j]

\* The container exits, with 0 or not, or the wait ends without it.
WaitContainer(c) ==
  /\ At(c, "wait")
  /\ \/ /\ box' = [box EXCEPT ![c] = "exited"] /\ Continue(c, "logs")
        /\ ran' = ran \cup {j \in {job[c]} : files[c] = Expected(j)}
     \/ /\ box' = [box EXCEPT ![c] = "exited"] /\ UNCHANGED ran
        /\ phase' = [phase EXCEPT ![c] = "logs"] /\ verdict' = [verdict EXCEPT ![c] = "failed"]
     \/ Fail(c, "logs") /\ UNCHANGED <<box, ran>>
  /\ UNCHANGED <<dir, files>>

\* Mutant: logs that could be read hide the error of the wait.
GetLogsForgetsWait(c) ==
  /\ At(c, "logs")
  /\ phase' = [phase EXCEPT ![c] = "remove"] /\ verdict' = [verdict EXCEPT ![c] = "success"]
  /\ UNCHANGED <<dir, box, files, ran>>

\* The logs are read whatever came of the wait; without them the job has failed.
GetLogs(c) ==
  /\ At(c, "logs")
  /\ \/ Continue(c, "remove")
     \/ verdict[c] = "success" /\ Fail(c, "remove")
  /\ UNCHANGED <<dir, box, files, ran>>

\* The first deferred call.  It has a context of its own, and its error is dropped.
RemoveContainer(c) ==
  /\ At(c, "remove")
  /\ \E b \in Unheld : box' = [box EXCEPT ![c] = b]
  /\ files' = [files EXCEPT ![c] = "none"] /\ Continue(c, "cleanup")
  /\ UNCHANGED <<dir, ran>>

\* The deferred cleanup of the workspace, if there is one yet, and the result.
ReturnResult(c) ==
  /\ pc[c] = "execute" /\ phase[c] \in {"cleanup", "return"}
  /\ ExecuteJob(c) /\ result' = [result EXCEPT ![c] = verdict[c]]
  /\ IF phase[c] = "cleanup" /\ dir[c] # "none" THEN RemoveDirectory(c) ELSE UNCHANGED dir
  /\ phase' = [phase EXCEPT ![c] = "pull"] /\ verdict' = [verdict EXCEPT ![c] = "success"]
  /\ UNCHANGED <<box, files, ran>>

ExecutionStep(c) ==
  \/ PullImage(c) \/ Clone(c) \/ Checkout(c) \/ CreateContainer(c) \/ CopyWorkspaceToContainer(c)
  \/ StartContainer(c) \/ WaitContainer(c) \/ GetLogs(c) \/ RemoveContainer(c)

\* The consumer goes on; what its last execution left is not its concern.
GoOn(c) ==
  /\ dir' = [dir EXCEPT ![c] = IF @ = "left" THEN "none" ELSE @]
  /\ box' = [box EXCEPT ![c] = IF @ = "left" THEN "none" ELSE @]
  /\ UNCHANGED <<phase, files, verdict, ran>>

HandlerStep(c) ==
  \/ MessageStep(c) /\ GoOn(c)
  \/ ExecutionStep(c) /\ UNCHANGED vars
  \/ ReturnResult(c)

ServiceStep == StartStep /\ UNCHANGED <<execution, ran>>

\* The process waits for no execution, and nobody removes what they had made.
ProcessStep(A) ==
  /\ A /\ Idle(phase', files', verdict') /\ UNCHANGED ran
  /\ dir' = [c \in Consumers |-> IF dir[c] = "none" THEN "none" ELSE "left"]
  /\ box' = [c \in Consumers |-> IF box[c] = "none" THEN "none" ELSE "left"]

WorkerNext ==
  \/ ServiceStep
  \/ \E c \in Consumers :
       \/ HandlerStep(c)
       \/ (Deliver(c) \/ ChannelLost(c)) /\ UNCHANGED <<execution, ran>>
  \/ (ConnectionLost \/ Shutdown) /\ UNCHANGED <<execution, ran>>
  \/ ProcessStep(ProcessEnds) \/ ProcessStep(Crash)

\* As for WorkerPool.  ExecuteJob comes to an end: its calls to Docker and git have a
\* deadline (jobTimeout), the container that outlives it is no longer awaited, and
\* the Docker daemon answers the removal, which has no deadline, in the end.
WorkerFairness ==
  /\ WF_allVars(ServiceStep) /\ WF_allVars(ProcessStep(ProcessEnds))
  /\ \A c \in Consumers :
       /\ WF_allVars(HandlerStep(c))
       /\ WF_allVars(Deliver(c) /\ UNCHANGED <<execution, ran>>)

WorkerSpec == WorkerInit /\ [][WorkerNext]_allVars /\ WorkerFairness

-----------------------------------------------------------------------------
\* Types of both parts.
WorkerTypeOK == TypeOK /\ ExecutionTypes

\* Whatever call fails and whenever the context ends, ExecuteJob does not return
\* before it has tried to remove the container and the directory it made:
\* materializeWorkspace removes what it made before it returns an error, and the
\* deferred removal has a context of its own.  What is there when no execution runs
\* refused to go, has a name nobody learnt, or was left by a process that ended.
NothingLeftBehind ==
  \A c \in Consumers : pc[c] # "execute" => dir[c] \in Unheld /\ box[c] \in Unheld

\* The orchestrator is told "success" only of a job for which a container with the
\* files the message asks for (the commit, not just the clone) exited with 0.
SuccessWasRun == \A m \in Jobs : <<m, "success">> \in accepted => m \in ran

\* Start closes the Docker client to connect again only when no consumer runs that
\* could be using it: consumeWorkers waits for all of them after cancel().  (A worker
\* that shuts down does not: main closes the client and ends, ProcessEnds.)
DockerStaysOpen == \A c \in Consumers : pc[c] # "off" => docker
====
