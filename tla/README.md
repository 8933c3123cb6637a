# Verification of the CI/CD system

This directory holds TLA+ models of the CI/CD system in `src/`, the TLC
configurations that check them on small instances, and TLAPS proofs of the
properties that matter most for instances of any size.

`PROJECT.json` is the index: components, runs, mutants (one deliberate bug for
every property, which the property must catch), the map from definitions to source
lines, findings, hazards and theorems.

## 1. The system

A developer runs the CLI (`cicd validate | dryrun | run | report`) in a git
repository. The API gateway forwards the request to one of three services. The
validation service parses, verifies and plans pipeline files and caches its answers
in Redis. The orchestrator creates a run in the report store (MySQL), keeps its
progress in memory, and publishes one RabbitMQ message per job that may start.
Workers consume these messages, execute the jobs in containers and call the
orchestrator back when a job starts and when it is finished; the callback releases
the next jobs or ends the run. The reporting service reads the report store.

| Part | Source | Concurrency, state and failures that matter | Module |
|---|---|---|---|
| Run, dispatch, callbacks | `orchestrator/{service,callbacks,dispatch,persistence}.go` | one goroutine per HTTP request, unlocked maps in `stageState`, unconditional status updates, retries by the worker | `Orchestrator`, `PipelineRun` |
| Publisher sets and publish loop | `orchestrator/{publisher,dispatch}.go`, `mq/{publisher,rabbitmq_cli}.go` | atomic reference counts partly outside the lock, rebuild after a lost connection, retries at two levels, a lock held through the confirm, `Close` | `PublisherManager`, `JobPublisher` |
| Creation of runs | `store/write.go`, `migrations/004*` | overlapping transactions, snapshot reads, a generated unique key, lost commits | `RunStore` |
| Worker and queue client | `services/worker/*`, `mq/rabbitmq_cli.go` | several consumers under one context, lost channels and connections, buffered deliveries, shutdown | `WorkerPool` |
| Execution of a job | `services/worker/execute.go` | directory and container on every failing path, cancellation, one Docker client for all | `JobExecution` |
| Parser, verifier with its locations, planner | `common/{parser,verifier,planner}` | lenient parsing against strict checking, entries counted twice, arbitrary map order | `PipelineDocument`, `PipelineConfig` |
| CLI, gateway, validation service, cache, `prepareRun` | `cli/*`, `services/{gateway,validation}`, `cache/*`, `orchestrator/validation.go` | cached answers, a moving HEAD, failing Redis and gateway | `PipelineAdmission` |
| Reporting service, store reads, `report` command | `services/reporting/*`, `store/read.go`, `cli/report.go` | several SELECTs without a transaction beside callbacks that write | `Reporting` |
| Formatter, observability, configuration, git plumbing | the rest | no shared state of their own, or pure I/O | not modelled (section 7) |

## 2. Modules and how they correspond to the code

Every state-changing statement that another goroutine, transaction or process can
observe is a step of its own; what runs under one lock, or touches only local
state, is merged into the step before or after it. Mutants (`... Mutant: ...` in the
comments) stand beside the definition they replace and are used in no specification.

**`Orchestrator`** is one run. `runRow`, `stageRow`, `jobRow` are the status columns;
`runtime` says whether `s.runtimes` has the run; `remainingNeeds`, `queued`,
`completed` are the maps of its stage states; `request` is the goroutine of `Run` and
then the dispatch goroutine; `handler[h]` is one call of `HandleJobFinished` with its
local variables and the client that waits for it; `broker` counts waiting messages;
`worker[w]` is a consumer inside `handleJobMessage`. `published` and `reported` are
history: they record that a message was routed and that `finishJob` stored an
outcome. The decrement `remainingNeeds[d]--` is a load and a store. The maps have no
lock; besides the interleavings, the Go runtime may end the process when it notices
a concurrent map write, which is the `Crash` action. Faults: `db` (a write fails,
applied or not), `publish` (a confirm is lost; the message is routed twice, once or
not at all), `redeliver`, `timeout` (15 s HTTP client; the abandoned handler runs on
with a cancelled context), `stop` (a worker process), `crash` (the orchestrator).

**`PipelineRun`** is the abstract specification: what a run promises to its user, in
terms of the status of the run, the released jobs and their outcomes. `Orchestrator`
instantiates it with a refinement mapping (`KeepsPromise`).

**`PublisherManager`** has the sets by generation number, their `refs`, `retired`
and `closed` flags, `m.current`, `m.stale`, and the callers of `enqueueJob`.
Sections under `m.mu` are atomic; `refs.Add(-1)`, the first `retired.Load()` and the
closing loop of `Close` are separate steps. A publish is one step with two ends.

**`JobPublisher`** extends it and opens that step: `nextPublisher`, the rounds of
`RabbitClient.Publish` (`step`, `tries`), `publishOnce` with `c.mu` held until the
confirm, `reconnect`, which reopens a channel or finds the connection closed, and the
sleep. Connections (`lost`), channels (`broken`) and contexts (`gone`) end at any time;
a confirm that does not come leaves open whether the broker took the message.
`copies` and `returned` are history. `ImplementsManager` says that these steps are
steps of `PublisherManager`, which is how the two are composed.

**`Reporting`** composes the orchestrator with a report in progress: `GetRun`,
`GetStagesForRun` and `GetJobsForRun` are steps of their own between which handlers
write rows. `report` holds the query and the statuses read so far; what the next
SELECT will find is in the row variables of `Orchestrator`. `RefusedByCommand` and
`CommandQuery` are the checks of the `report` command, `InvalidQuery` those of the
service.

**`RunStore`** runs `CreateRunOrGetActive` statement by statement for several
clients: the first SELECT fixes the snapshot, the counter row is locked until the
end of the transaction, the INSERT fails with 1062 on the unique key over active
requests or on the run number, the second SELECT reads the old snapshot (REPEATABLE
READ, the default of MySQL). `live` are the runs some process works on.

**`WorkerPool`** is one worker service: `Start`, `ensureDependencies` and
`consumeWorkers` (`main`, `outcome`, `errCh`), and per consumer the loop of `Consume`
around `handleJobMessage` (`pc`, `job`, `result`). The broker (`ready`, `unacked`,
`acked`) and the client library (`conn`, `chan`, `buffer`) are external and modelled
as the code uses them. An interrupted job is kept apart from a failed one, although
the code sees an error in both cases. The orchestrator's side of a callback is an
answer; `accepted` is what it took.

**`JobExecution`** extends it: where `WorkerPool` lets a consumer go from the message
to the result of its job in one step, `ExecuteJob` here pulls the image, clones and
checks out, creates, fills, starts and awaits the container, reads its logs and runs
the deferred calls (`phase`, `dir`, `box`, `files`, `verdict`). Every call may fail. The
removals may fail too, and their errors are dropped (`execute.go:73`, `:122`, `:439`); the
creation of a container may have happened although its call returned an error; and the
end of the process waits for no consumer. In all three cases the directory or the
container is `left`: it is there and nobody's, until the consumer goes on to its next
message and the model, like the code, forgets it. `NothingLeftBehind` therefore says that
no execution returns without having tried to remove what it made.
`ran` is history: the jobs for which a container with the right files exited with 0.
All other steps are those of `WorkerPool`, so its invariants are checked, and proved,
for the worker as a whole.

**`PipelineDocument`** holds the parser, the checks without a search, and the lookups
of `location_helpers.go` as operators on a document tree: a sequence of top-level keys
in the order of the file, with the kinds of their nodes. A location is the node it
points at. Keys may be repeated: the parser reads the first `stages`, while
`getStageNameLocation` takes the first one that has a name at the index it looks for.
**`PipelineConfig`** is the sequence parse, verify, plan, with
`checkNoCycles` and `scheduleJobsInStage` step by step in every order the Go maps
allow.

**`PipelineAdmission`** composes CLI commands, gateway, validation service, Redis and
`prepareRun`. A text is valid, invalid or unparsable; keys are built as
`cache/keys.go` does, from what each caller sends. `validate` takes the commit of HEAD and
looks at one file, or at all YAML files under the directory `Root` at any depth;
`dryrun` does the same first (`runValidateQuiet`, the command kind `prerun`) and then reads
HEAD once more for the file it plans (`RunDryRun`), so `first` and `commit` of a command
may differ. A directory is no file at any commit: `dryrun` and `run` of one end in an
error. Files in different directories may have the same base name, which is all the CLI
sends of a path. A remote run sends whatever is in the working tree. The list of files
in the directory is a constant, not empty, and `--format` is taken to be valid.

The interfaces between the modules are the values they share: the plan of
`PipelineConfig` satisfies what `Orchestrator` assumes of its constants
(`PipelineAssumption`; `PlanIsComplete` and `CyclesAreFound` show it, in the runs and in
the proofs), `RunStore`
provides the row `Orchestrator` starts from, `JobPublisher` is the inside of one
publish, and `JobExecution` that of the worker of `Orchestrator`, which keeps of it what
the orchestrator can notice: redelivery, repeated reports and a worker that stops.
These last two are read side by side, not checked as refinements (section 8).

## 3. What the runs check

| Run | Instance | Shows |
|---|---|---|
| `job_publisher` | 2 callers, 1 client per set, 2 generations, 2 attempts of 2 rounds, up to 3 faults | nil means that the broker has the message; copies are bounded and each but one is due to a fault; only a lost connection costs a set; reference counts are exact, no set is used after its close, all retired sets are closed; every call returns (liveness); the loop implements `PublisherManager` |
| `orchestrator_serial` | 5 jobs in 2 stages (two needs, and a job that needs one of those and another), 1 worker, 1 handler, 3 faults of `redeliver`, `db` | the run implements `PipelineRun`; no job starts before its needs have passed; the run ends with a terminal status (liveness) |
| `reporting` | diamond of 4 jobs in 2 stages, 2 workers, 2 handlers, no faults, a report at a time of 9 kinds | a report that shows success is complete although it is torn by interleaved callbacks |
| `orchestrator_faults` | 4 stages of which the first and the last are empty, 1 worker, 2 handlers, any 2 faults of all kinds | stage order, and that a finished stage covers its jobs, whatever goes wrong |
| `orchestrator_verdict` | as `reporting`, without reports | **violated**: a terminal run status can be overwritten |
| `run_store` | 3 clients, 1 pipeline, with and without a key, 4 requests, 1 fault | one active run per request, dense numbers, no client waits for ever |
| `run_store_duplicate` | the same without need of a fault | **violated**: the duplicate can get an error instead of the original number |
| `pipeline_config` | 4200 documents: all graphs over three jobs, two stages in several ways, four-job chains and cycles, `stages` listed twice, one bad shape at a time | cycles are found and reported correctly, plans are complete and ordered and have no empty stage, errors point at what they name, every file gets a verdict |
| `job_execution` | 2 jobs (a repository, a path), 2 consumers, one fault of six kinds and a second failed reopening, any failing call of `ExecuteJob` | no message is lost, acknowledged only after the report, interrupted jobs stay unreported, no execution returns before it tried to remove what it made, a reported success was run with the right files, no reconnection closes the Docker client under a consumer, every job is done in the end |
| `worker_pool_stops` | 2 jobs, 1 consumer, 1 lost connection | **violated**: `Start` can return nil while its context is live |
| `pipeline_admission` | 2 clients, 3 commands, 2 commits, 3 files of which two have the same base name, 4 texts, 1 fault | cached answers and the verdicts of validate and dryrun are those of files of that name at the right commit |
| `pipeline_admission_cached` | the same | **violated**: an invalid pipeline is admitted |

Stage order and the completeness of success are checked with one worker and all faults
(`orchestrator_faults`). The half of `SuccessCoversJobs` about the run is not reached
there, since the empty last stage keeps the run from succeeding: it, and both with more
workers, rest on the proofs of section 5, as do the
promise of `PipelineRun` with several workers and restarts of the orchestrator, and the
types and the bookkeeping of retired sets of `PublisherManager`.

### Bounds

`MaxFaults` bounds faults in a behaviour; two are enough for a fault during the
recovery from another. In `job_publisher` and `job_execution` it is a function of the
kind of fault: a fault of kind `k` happens while there were fewer than `MaxFaults[k]`
of all kinds. Three lost channels in `job_publisher` are what the largest number of
copies takes (three with two attempts of two rounds), so the bound of
`CopiesAreBounded` is reached and a fourth copy could be. One client per set is the
default of the code and the case in which callers share a lock. Two handlers are the
least that interleave; a third adds interleavings of pairs. The diamond is the smallest
graph with a job that has two needs in one stage and a later stage; the graph of
`orchestrator_serial` has a chain of needs besides, so that a need can itself be
released too early. Three database
clients allow one to hold the lock while two others have taken their snapshots. Two
commits and three commands allow a cache entry to be written at one commit, asked for at
another, dropped and overwritten, and HEAD to move between the prerun of `dryrun` and its
plan; the three files are one alone and two that share a name. `MaxRequests` and `MaxCommands` end the behaviours. Symmetry
(clients, handlers, workers) is used in `pipeline_admission`, `orchestrator_faults` and
`reporting`, where all properties are invariants and no constant tells them apart.

Deadlock is checked except in `job_execution` and `worker_pool_stops`, where a worker
whose jobs are done waits for ever, and in the two runs of `PipelineAdmission`, where
the commands are used up.

### Fairness

Weak fairness for every goroutine that has a statement to run (Go's scheduler is
preemptive), for the broker's delivery, for SQL statements, and for the replacement
of a worker process that has ended (its Deployment restarts it). Strong fairness for
the lock on the counter row (InnoDB queues waiters) and for a call of `enqueueJob`: a
goroutine that has waited long enough for `c.mu` gets it next (`sync.Mutex` hands over
in its starvation mode). `ExecuteJob` ends because its calls have a deadline
(`jobTimeout`); the removal of the container has none (`context.Background()`), and
ends because the Docker daemon answers. `EveryJobIsDone` excepts a `Start` that returned
nil while its context was live, which is finding 3. No fairness is assumed for faults, for new requests or for `Close`.

## 4. Findings: where code and documents disagree

1. **A terminal run status is not final** (`orchestrator_verdict`). A handler that
   looked the runtime up before another deleted it goes on and writes its own status:
   `failed` becomes `success` or the reverse (`callbacks.go:68`, `:93`).
2. **A duplicate request can fail** (`run_store_duplicate`). Both requests pass the
   first SELECT; the one that loses gets 1062, reads its old snapshot, finds no run and
   answers with `sql.ErrNoRows` (`write.go:78`).
3. **A worker can stop consuming for good** (`worker_pool_stops`). If all consumers
   have returned an error before `consumeWorkers` selects, `errCh` and `done` are both
   ready; `done` makes `Start` return nil, and nothing starts it again
   (`consumer.go:161`).
4. **Runs are admitted with another file's verdict** (`pipeline_admission_cached`).
   `validatePipeline` sends only the content, so all run requests share one cache key
   (`validation.go:55`).

Further behaviours that TLC shows and no document contradicts; they limit what can be
claimed and are the reason for the instances chosen in section 3:

* *Lost decrement.* With two handlers, both load `remainingNeeds[d] = 2` and both
  store 1: `d` is never released, the run stays `queued`, and every equal request is
  told to wait for it. So `DispatchedRunTerminates` is checked with one handler.
* *Overlapping duplicates.* After a time-out the repeated callback and the abandoned
  handler both read `completed[job]` as false and both decrement: `d` is released
  before its other need is done. Stage order and success hold all the same.
* *Published twice.* Without any fault, the handlers of two needs of `j3` can both find
  `remainingNeeds[j3] = 0` and `queued[j3]` false, and both publish it. `j3` then runs
  twice, and if its two reports are handled at the same time, both read `completed[j3]`
  as false and both decrement the needs of a job `j4` that needs `j3` and `j5`: `j4` is
  released before `j5` has run (73 steps; `callbacks.go:24` says that the callback
  "dispatches newly-ready jobs"). It takes the five jobs; on the diamond it cannot
  happen. So `NeedsBeforeRelease` is claimed for callbacks that are handled one at a
  time, and proved for them.
* *A failure overtaken.* `HandleJobFinished` stores the outcome of a failed job and marks
  the job completed before it marks the run failed. If the store refuses that last write,
  the worker has to report again; another callback of the same stage that comes first
  finds the stage complete and releases the next one. So `KeepsPromise` with failing
  writes is claimed for one worker only.
* *Publish failure.* `markJobSucceeded` marks dependents queued, then the publish
  fails; the repeated callback finds the job completed and publishes nothing.
* *Restart.* The runtimes are gone; callbacks are answered 200 and the run stays
  `queued`.
* *Late start.* A delayed `job-started` sets a finished job back to `running`, and a
  report shows it so, in a stage that succeeded. It is never shown as `queued`
  (`SuccessShowsItsJobs`).
* *Files of one name.* `validate` of a directory walks the files "recursively"
  (`cli/validate.go:20`, `src/README.md:20`) and sends the base name of each
  (`cli/validate.go:98`). Of two files with the same base name the second gets the cached
  answer of the first: it is called valid without having been checked, or refused for the
  errors of the other. `dryrun` (`cli/dryrun.go:66`) shows the plan of the other file. So
  `AnswersFit` and `VerdictsAreRight` speak of a file of that name at that commit; for
  a file whose name is its own they speak of that file.
* *Two readings of HEAD.* `dryrun` validates at one commit and plans at another if a
  commit is made in between.
* *Removal refused.* `os.RemoveAll` and the removal of the container may fail, and the
  process may end before its consumers have come to them; nothing looks for what is left.
* *Last round.* A connection that is lost in the last round of `Publish` makes the call
  fail without a rebuild; the next call meets the closed connection and rebuilds.

Three behaviours of the parser and the verifier, all in the model: an item of `needs` that
is no scalar is skipped by the one and not looked at by the other, so that dependency is
dropped without an error; a job with two `stage` steps is put in the last one by the
parser, while `getJobStageLocation` points at the first; and in a file with two `stages`
of which the first is empty the stages are the default ones, while an error about one of
them points at what the second `stages` has at its index.

Divergences met while reading that are not about behaviour a model could show: a
comment (`validation_checks.go:284`) says that missing stages are "extracted from
jobs", while the parser uses `build`, `test`, `docs` and the verifier then refuses the
empty ones; `pipeline` is called optional in the README and required by the verifier;
`runRun` has the removal of its worktree commented out (`cli/run.go:149`);
`trace_id` is `NOT NULL` in migration 003 while `createRunTx` writes
`NULLIF(?,'')`.

## 5. What is proved

The proofs hold for every value of the constants that satisfies the named
assumptions: any pipeline, any number of workers, handlers, clients, consumers,
callers, any bound on faults. Each follows the same plan: an inductive invariant
(called `IInv`, or `PInv`, `WInv`, `ReportInv` where one rests on another), a lemma for
the initial states, one lemma per conjunct or per action, the inductive step, and the
theorem.

* **`OrchestratorProofs`** (`PipelineAssumption`): `TypeCorrect`,
  `StagesReleasedInOrder`, `SuccessIsEarned`, with all faults and any number of
  concurrent callbacks. Neither property is inductive. `IInv` adds that a message, a
  worker or a handler with job `j` implies that `j` was published
  (`MessagesArePublished`, `HandlersKnow`), that `completed` jobs have an outcome
  (`CompletedAreReported`), that a handler which looks at a stage knows that the stages
  before it are done, and the same for the dispatch goroutine (`RequestKnows`). The
  argument does not use the counts `remainingNeeds` at all, which is why it survives
  lost and doubled decrements. Four lemmas (`RequestFrame`, `HandlerFrame`,
  `WorkerFrame`, `IdleFrame`) say which variables each process leaves alone; the other
  proofs about the orchestrator start from them.
* **`PromiseProofs`** (also `Serial`: at most one callback of the run is handled at a
  time, as with the one consumer a worker has by default, `consumer.go:19`; the Helm chart
  sets two, and then the behaviours of section 4 are possible). `NeedsReleaseInOrder` is `NeedsBeforeRelease`, for every pipeline, any number of
  workers and all faults, time-outs and restarts of the orchestrator included. The
  invariant is about the counts: `remainingNeeds[d]` is at least the number of needs of
  `d` that have not passed and been marked completed, or whose decrement the one handler
  still has before it. `Owed` is that set of places in the needs of `d`, `Covers(S, n)`
  says that it fits into `1 .. n`, and `Walks` follows a handler through
  `markJobSucceeded`. A need that passes leaves the set only with its decrement, and
  `completed` keeps a repeated report from decrementing again. A need listed twice is
  counted twice on both sides.
  `PromiseIsKept` (also `Reliable`: messages are redelivered and the orchestrator
  crashes, but no write, publish or callback fails) is the refinement `KeepsPromise`:
  every step of `Orchestrator` is a step of `PipelineRun` or a stutter. `PromiseInv` adds
  that released jobs have the stages before theirs passed (`ReleasedKeep`), that a
  handler in stage `s` has those stages behind it and at the end of the stage `s` itself,
  that a run with a runtime is `queued`, and that as long as no handler is failing it all
  completed jobs have passed (`Keeps`). Section 4 shows what goes wrong
  without `Serial`, and without `Reliable`.
* **`ReportingProofs`** (`PipelineAssumption`, `QueryAssumption`):
  `ReportedRunsEnded`, `ReportedSuccessIsComplete`, `ReportTypeCorrect`, with all faults
  and any queries, and `CommandQueriesAreValid`: what the `report` command accepts the
  service accepts. `ReportInv` adds to the invariant of `OrchestratorProofs` that the row
  of a job with an outcome is not `queued` (`RowsMoveOn`), that stages end in order
  and stay ended (`StagesEnd`), and that what a report has read is still true of the
  rows it reads next (`ReportKnows`).
* **`PublisherProofs`** (`ConstantsAssumption`, `ClientsAssumption`). Of `PublisherManager`: `TypeCorrect`, `ClosedSetsAreUnused`,
  `ReferencesAreExact`, `GenerationsAdvance`. `SetLifecycle` is the strengthening: a set
  closed or about to be is retired and unreferenced, and the current set and all later
  ones are not retired. That `refs` is the number of holders is stated with a bijection,
  so the proof needs no finite set of callers. Of `JobPublisher`: `PublishLoopImplementsManager` (every step is
  a step of `PublisherManager` or a stutter, so its invariant carries over),
  `PublishesOnOpenSets`, `NilIsConfirmed`, `RetriesAreBounded`, `DuplicatesNeedFaults`,
  `HealthySetsStay`. `PInv` adds to the manager's invariant, per call, where it may be in
  `Publish` (`Control`), how many copies there can be at each attempt and round
  (`CopiesSoFar`), that each of them was paid for by a fault, a cancelled context or a
  channel that broke in this round (`CopiesCharged`), and that a call about to rebuild
  has seen its connection lost (`RebuildsLost`).
* **`RunStoreProofs`**: `TypeCorrect`, `EqualRequestsShareARun`,
  `RunNumbersAreDense`. `IInv` ties the number a transaction holds to the locked
  counter and says that an INSERT which passed found no active equal run, which stays
  so under the lock.
* **`WorkerProofs`**. Of `WorkerPool` (`PoolAssumption`): `TypeCorrect` (with the bound on `errCh`:
  its errors come from different consumers, so the buffer never fills),
  `NothingIsLost`, `AcknowledgedAfterReport`, `InterruptedStaysSilent`. `IInv` adds
  that errors in `errCh` belong to consumers that returned, that no channel consumes
  before its consumer runs or while it is replaced, and what a consumer knows at each
  step of a message (`HandlerKnows`). Of `JobExecution` (also `SourceAssumption`):
  `WorkerTypeCorrect`,
  `WorkerKeepsMessages` (every step is one of `WorkerPool` or leaves its variables alone,
  so the three properties above hold of the worker with its executions), `CleansUp`,
  `SuccessIsEarned`, `DockerOutlivesConsumers`. `WInv` adds what `ExecuteJob` has made and
  knows at each phase (`PhaseKnows`) and that consumers run only while `Start` holds a
  Docker client (`ServingKnows`). The Docker client is also closed when the process ends
  (`cmd/worker-service/main.go:37`), without regard to consumers: `DockerStaysOpen` is
  about reconnection.
* **`PipelineAdmissionProofs`** (`AdmissionAssumption`: any repository, with any base
  names): `TypeCorrect`, `CachedAnswersFit`, `CliVerdictsAreRight`. `IInv` says that
  every named cache entry is the fresh answer for a file of its key (`CacheFits`) and, per
  client, that the text it holds is the one at its commit, that the files it has
  passed may pass there (`PassedSoFar`), and that a `dryrun` past its prerun has
  all of them passed at the commit of the prerun (`PrerunPassed`).
* **`PipelineConfigProofs`** (`DocumentsAssumption`: the YAML library delivers the keys of
  the file, the stages, the steps of a job, their fields and their items as lists, of any
  length and content): `CyclesAreAlwaysFound`, `PlanIsAlwaysComplete`,
  `ErrorsAlwaysPointHome`, `ConfigTypeCorrect`, for any set of files and any order of the
  maps. `ParserMakesPipeline` shows that the parser makes lists of stages, of jobs and of
  needs, whatever it skips. `SearchInv` says
  that the path of the search holds exactly the jobs of `recStack`, that each job on it
  needs the next (`FrameKnows`), and that the jobs the search is done with need only
  such jobs and that among any of them one needs none of the others (`DoneKnows`).
  A job that returns keeps this: what it needs is done. A neighbour on the path closes a
  cycle, which is the path from there on. `PlanInv` says that `inDegree` counts the needs
  of a job that are not in the result and is zero exactly for jobs in the result or in
  the queue (`ScheduleKnows`). When the queue is empty, the jobs left over would each
  need another one of them, which the search has excluded: this is where the planner,
  which would drop such jobs silently, relies on the verifier. What would be induction
  over the length of a path is put as a set of jobs that wait for each other; the
  least number of a set comes from the library's theorem on well-founded relations.
  For `ErrorsPointHome`, `ErrorsKnow` says that each error points home (`PointsHome`).
  The parser appends a job for every key it does not skip, the verifier counts such keys
  up to the index of the job: `PairIsEntry` shows that it arrives at the key
  the job was made from (`NthIsIndex`: the count is strictly increasing along the
  keys). Stages are found by their index alone, which is the right one when no entry of
  the first `stages` was skipped, and in that `stages`, because it has a name at the index
  and comes first (`StagesHaveEntries`); default stages have the start of the file, or a
  place in a later `stages`. If an entry was skipped the file has an error of kind
  `stage` too, and the property asks nothing of the place. A cycle is reported at a step
  with `needs` if the jobs have their types, since a job on a cycle needs something and
  its needs come from such a step (`NeedsAreFound`). `Kept` and `Joined`, the lists the
  parser builds, are defined by what they hold, with `Joined` as a recursive function
  whose existence `PrefixesExist` proves from the least length without one.

## 6. Checked by TLC only

Liveness (`RetiredSetsGetClosed`, `CallsReturn`, `DispatchedRunTerminates`,
`RequestsAreAnswered`, `VerdictIsReached`, `EveryJobIsDone`) is outside what the proof
system does. `KeepsPromise` is proved without failing writes; with them and a single worker
it is checked by `orchestrator_serial` only.

## 7. Not modelled

* What happens inside a call to Docker, git, the file system or YAML decoding: each call
  is an outcome. Directories and containers that are left behind are not tracked further;
  the code has nothing that looks for them.
* The process between `handler.Close()` and its exit: `main` does not wait for `Start`,
  but the context has ended by then.
* Formatter, logging, tracing, metrics, configuration, HTTP status codes, JSON, lines and
  columns. No decision of the modelled code depends on them, apart from the `trace_id`
  noted above.
* Git worktrees and path resolution of the CLI: calls of git and the file system without
  state of their own; `PipelineAdmission` has the file they find at a commit.
* A broker that loses messages (they are not published as persistent), and the load
  balance between several worker services.
* Several runs at a time: they share `s.runtimes` under different keys and the store
  under different rows.

## 8. Plan

Done: publisher sets and the publish loop inside them; the run with its callbacks and
the abstract specification, with the proof that it implements it; creation of runs; parser, verifier with locations, planner;
worker and the execution of a job; admission; reports beside a run; the proofs of all of
them.

To come:

1. the composition of `WorkerPool` with the worker of `Orchestrator` as a refinement;
2. gateway and CLI: status codes, and a run created whose answer is lost and asked
   for again.

## 9. How to run

    tlasany Orchestrator.tla
    tlc -workers 2 -config OrchestratorFaults.cfg MCOrchestrator
    tlapm OrchestratorProofs.tla

Every configuration needs three minutes or less with two workers;
`PipelineConfigProofs` takes some twenty minutes, `OrchestratorProofs`, `PromiseProofs`
and `WorkerProofs` eight or nine each, the other proofs up to five.
