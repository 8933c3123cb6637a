--------------------------- MODULE PipelineConfig ---------------------------
(***************************************************************************)
(* From a pipeline file to an execution plan: parse, verify and plan       *)
(* (validatePipelineContent and DryRunYAML of the validation service,      *)
(* prepareRun of the orchestrator).  The search for cycles and the         *)
(* topological sort go step by step, because both walk Go maps, whose      *)
(* order is arbitrary.                                                     *)
(***************************************************************************)
EXTENDS PipelineDocument

CONSTANT Documents   \* the files to submit

\* The YAML library delivers the parts of a node as lists.
ASSUME DocumentsAssumption == \A d \in Documents : IsDocument(d)

VARIABLES
  doc,        \* the file
  pc,
  pipeline,   \* what the parser made of it
  errors,     \* the errors found
  visited, recStack, path,  \* checkNoCycles
  looked,     \* how many neighbours each call of its dfs has looked at
  cycle,      \* the cycle it reports
  queue, inDegree, result,  \* scheduleJobsInStage
  plan        \* the stages planned so far, each a sequence of job names

cycleVars == <<visited, recStack, path, looked, cycle>>
planVars == <<queue, inDegree, result, plan>>
vars == <<doc, pc, pipeline, errors, cycleVars, planVars>>

NoPipeline == [stages |-> <<>>, jobs |-> <<>>]
Verdicts == {"rejected", "planned"}

\* The names that can occur as vertices of the graph of needs.
Names == JobNames(pipeline) \cup UNION {Range(pipeline.jobs[i].needs) : i \in DOMAIN pipeline.jobs}

TypeOK ==
  /\ pipeline \in {NoPipeline, BuildPipeline(doc)}
  /\ pc \in {"parse", "verify", "cycles", "found", "stage", "schedule"} \cup Verdicts
  /\ visited \subseteq Names /\ recStack \subseteq visited
  /\ Range(path) \subseteq Names /\ Range(looked) \subseteq Nat
  /\ Range(cycle) \subseteq Names
  /\ Range(queue) \cup Range(result) \subseteq JobNames(pipeline)
  /\ DOMAIN inDegree \subseteq JobNames(pipeline)
  /\ \A j \in DOMAIN inDegree : inDegree[j] \in Nat
  /\ Len(plan) <= Len(pipeline.stages)

Init ==
  /\ doc \in Documents
  /\ pc = "parse"
  /\ pipeline = NoPipeline
  /\ errors = {}
  /\ visited = {} /\ recStack = {} /\ path = <<>> /\ looked = <<>> /\ cycle = <<>>
  /\ queue = <<>> /\ inDegree = <<>> /\ result = <<>> /\ plan = <<>>

-----------------------------------------------------------------------------
\* Parse: a document it refuses has no pipeline and one error.
Parse ==
  /\ pc = "parse"
  /\ IF ParseFails(doc)
     THEN pc' = "rejected" /\ errors' = {Shape("parse")} /\ UNCHANGED pipeline
     ELSE pc' = "verify" /\ pipeline' = BuildPipeline(doc) /\ UNCHANGED errors
  /\ UNCHANGED <<doc, cycleVars, planVars>>

\* Verify up to the search for cycles: critical errors end it at once, others are collected.
Verify ==
  /\ pc = "verify"
  /\ IF HasCriticalErrors(CheckYAMLTypes(doc))
     THEN pc' = "rejected" /\ errors' = CheckYAMLTypes(doc)
     ELSE pc' = "cycles" /\ errors' = StaticErrors(doc, pipeline)
  /\ UNCHANGED <<doc, pipeline, cycleVars, planVars>>

-----------------------------------------------------------------------------
Neighbours(job) == IF job \in JobNames(pipeline) THEN LastNamed(pipeline, job).needs ELSE <<>>

Enter(job, counts) ==
  /\ visited' = visited \cup {job}
  /\ recStack' = recStack \cup {job}
  /\ path' = Append(path, job)
  /\ looked' = Append(counts, 0)

\* The outer loop of checkNoCycles, in any order of the map.
StartSearch ==
  /\ pc = "cycles" /\ path = <<>>
  /\ \E job \in JobNames(pipeline) \ visited : Enter(job, <<>>)
  /\ UNCHANGED <<doc, pc, pipeline, errors, cycle, planVars>>

\* Where the path meets the job again; the code starts from 0 and looks for it.
CycleStart(job) == Max({1, First({i \in DOMAIN path : path[i] = job})})

\* One turn of the inner loop: go down, report a cycle, or pass on.
NextNeighbour ==
  /\ pc = "cycles" /\ path # <<>>
  /\ LET neighbours == Neighbours(path[Len(path)])
         passed == [looked EXCEPT ![Len(path)] = @ + 1]
     IN /\ looked[Len(looked)] < Len(neighbours)
        /\ LET next == neighbours[looked[Len(looked)] + 1]
           IN \/ /\ next \notin visited
                 /\ Enter(next, passed)
                 /\ UNCHANGED <<pc, cycle>>
              \/ /\ next \in visited /\ next \in recStack
                 /\ cycle' = SubSeq(path, CycleStart(next), Len(path))
                 /\ pc' = "found"
                 /\ UNCHANGED <<visited, recStack, path, looked>>
              \/ /\ next \in visited \ recStack
                 /\ looked' = passed
                 /\ UNCHANGED <<pc, cycle, visited, recStack, path>>
  /\ UNCHANGED <<doc, pipeline, errors, planVars>>

\* Mutant: the job stays marked as being on the path.
ReturnStillMarked ==
  /\ pc = "cycles" /\ path # <<>> /\ looked[Len(looked)] = Len(Neighbours(path[Len(path)]))
  /\ path' = SubSeq(path, 1, Len(path) - 1) /\ looked' = SubSeq(looked, 1, Len(looked) - 1)
  /\ UNCHANGED <<doc, pc, pipeline, errors, visited, recStack, cycle, planVars>>

\* Mutant: a job that is done can be entered again.
ReturnForgetsVisit ==
  /\ pc = "cycles" /\ path # <<>> /\ looked[Len(looked)] = Len(Neighbours(path[Len(path)]))
  /\ visited' = visited \ {path[Len(path)]} /\ recStack' = recStack \ {path[Len(path)]}
  /\ path' = SubSeq(path, 1, Len(path) - 1) /\ looked' = SubSeq(looked, 1, Len(looked) - 1)
  /\ UNCHANGED <<doc, pc, pipeline, errors, cycle, planVars>>

\* All neighbours are done: the job leaves the path.
Return ==
  /\ pc = "cycles" /\ path # <<>> /\ looked[Len(looked)] = Len(Neighbours(path[Len(path)]))
  /\ recStack' = recStack \ {path[Len(path)]}
  /\ path' = SubSeq(path, 1, Len(path) - 1) /\ looked' = SubSeq(looked, 1, Len(looked) - 1)
  /\ UNCHANGED <<doc, pc, pipeline, errors, visited, cycle, planVars>>

\* The cycle is reported at its first job; jobLocations keeps the last one of a name.
ReportCycle ==
  /\ pc = "found"
  /\ LET job == cycle[1]
     IN errors' = errors \cup
                    {FormatError("cycle", job, GetJobNeedsLocation(doc, LastIndex(pipeline, job)))}
  /\ pc' = "rejected"
  /\ UNCHANGED <<doc, pipeline, cycleVars, planVars>>

\* No cycle: the verdict depends on the other checks.
EndSearch ==
  /\ pc = "cycles" /\ path = <<>> /\ JobNames(pipeline) \subseteq visited
  /\ pc' = IF errors = {} THEN "stage" ELSE "rejected"
  /\ UNCHANGED <<doc, pipeline, errors, cycleVars, planVars>>

-----------------------------------------------------------------------------
JobsForStage(stage) ==
  {pipeline.jobs[i].name : i \in {i \in DOMAIN pipeline.jobs : pipeline.jobs[i].stage = stage}}
CurrentJobs == JobsForStage(pipeline.stages[Len(plan) + 1])

\* Mutant: a need counts once however often it is listed.
StartingDegreeOfSet(job) == Cardinality(Range(LastNamed(pipeline, job).needs))

StartingDegree(job) == Len(LastNamed(pipeline, job).needs)

\* The sequences that have each element of a set once.
Orders(S) == Bijection(1 .. Cardinality(S), S)

\* The next stage: jobs without needs enter the queue in any order of the map.
PlanStage ==
  /\ pc = "stage" /\ Len(plan) < Len(pipeline.stages)
  /\ inDegree' = [j \in CurrentJobs |-> StartingDegree(j)]
  /\ queue' \in Orders({j \in CurrentJobs : StartingDegree(j) = 0})
  /\ result' = <<>>
  /\ pc' = "schedule"
  /\ UNCHANGED <<doc, pipeline, errors, plan, cycleVars>>

\* How often a job lists the need: it is that many times among the dependents.
Times(need, job) ==
  LET needs == LastNamed(pipeline, job).needs
  IN Cardinality({i \in DOMAIN needs : needs[i] = need})

\* Mutant: a dependent is ready once one of its needs is scheduled.
BecomeReadyEarly(name) ==
  {j \in CurrentJobs : Times(name, j) > 0 /\ j \notin Range(result) /\ j \notin Range(queue)}

\* The dependents whose count the job brings to zero.
BecomeReady(name) == {j \in CurrentJobs : Times(name, j) > 0 /\ inDegree[j] = Times(name, j)}

\* dependents lists the jobs of a stage in the order of the file.
InFileOrder(jobs) ==
  \A i, k \in DOMAIN jobs : i < k => LastIndex(pipeline, jobs[i]) < LastIndex(pipeline, jobs[k])

ScheduleNext ==
  /\ pc = "schedule" /\ queue # <<>>
  /\ LET name == Head(queue)
     IN /\ result' = Append(result, name)
        /\ inDegree' = [j \in DOMAIN inDegree |-> inDegree[j] - Times(name, j)]
        /\ \E ready \in Orders(BecomeReady(name)) :
             InFileOrder(ready) /\ queue' = Tail(queue) \o ready
  /\ UNCHANGED <<doc, pc, pipeline, errors, plan, cycleVars>>

StageDone ==
  /\ pc = "schedule" /\ queue = <<>>
  /\ plan' = Append(plan, result)
  /\ pc' = IF Len(plan) + 1 = Len(pipeline.stages) THEN "planned" ELSE "stage"
  /\ UNCHANGED <<doc, pipeline, errors, queue, inDegree, result, cycleVars>>

Answered == pc \in Verdicts /\ UNCHANGED vars

Step ==
  \/ Parse \/ Verify
  \/ StartSearch \/ NextNeighbour \/ Return \/ ReportCycle \/ EndSearch
  \/ PlanStage \/ ScheduleNext \/ StageDone

Next == Step \/ Answered

\* A request is a sequence of statements that do not wait for anything.
Spec == Init /\ [][Next]_vars /\ WF_vars(Step)

-----------------------------------------------------------------------------
NeedsEdge(a, b) == b \in Range(Neighbours(a))

\* Some jobs can never start: each of them waits for another one of them.
SomeJobsWaitForEachOther ==
  \E waiting \in (SUBSET JobNames(pipeline)) \ {{}} :
    \A j \in waiting : \E n \in waiting : NeedsEdge(j, n)

\* checkNoCycles lets no pipeline through in which jobs wait for each other,
\* whatever order the maps are walked in, and the jobs it prints as a cycle
\* are one: each needs the next.
CyclesAreFound ==
  /\ (\E e \in errors : e.kind = "cycle") => cycle # <<>>
  /\ IsInjective(cycle)
  /\ \A i \in DOMAIN cycle : NeedsEdge(cycle[i], cycle[IF i < Len(cycle) THEN i + 1 ELSE 1])
  /\ pc \in {"stage", "schedule", "planned"} => ~SomeJobsWaitForEachOther

\* The plan of an accepted file has every job once, in its own stage, after
\* all the jobs it needs, and no stage without a job; scheduleJobsInStage drops
\* no job silently, which it would do if the checks let a cycle, a need of
\* another stage or a stage that is not listed through.
PlanIsComplete ==
  pc = "planned" =>
    /\ Len(plan) = Len(pipeline.stages)
    /\ JobNames(pipeline) \subseteq UNION {Range(plan[s]) : s \in DOMAIN plan}
    /\ \A s \in DOMAIN plan :
         /\ plan[s] # <<>> /\ Range(plan[s]) = JobsForStage(pipeline.stages[s])
         /\ IsInjective(plan[s])
         /\ \A i \in DOMAIN plan[s] : \A n \in Range(Neighbours(plan[s][i])) :
              \E k \in 1 .. i - 1 : plan[s][k] = n

\* An error is about one of the default stages, which the file does not list.
AboutDefault(e) ==
  pipeline.stages = DefaultStages /\ e.name \in Range(DefaultStages)

\* An error is reported at the stage or the job that it names, although the verifier
\* finds the place by counting again what the parser did not skip.  A stage may be
\* misplaced only in a file with a stage of the wrong shape, which is an error as well.
\* Listed stages are found in the first `stages', where the parser takes them from;
\* default stages have no place, and after an empty first `stages' they are reported
\* at what a later one lists.  A second definition is reported, not the first.
ErrorsPointHome ==
  \A e \in errors :
    LET n == e.at[2]
        first == FirstKey(doc, "stages")
        listed == doc.keys[n].entries
    IN /\ e.at[1] = "entry" => doc.keys[n].name = e.name
       /\ e.at[1] = "stages" /\ Shape("stage") \notin errors
            => \/ n = first /\ listed[e.at[3]].name = e.name
               \/ /\ n > first /\ doc.keys[n].name = "stages"
                  /\ doc.keys[first].entries = <<>> /\ AboutDefault(e)
       /\ e.at = Start /\ e.name # NoText /\ Shape("stage") \notin errors => AboutDefault(e)
       /\ e.kind = "duplicateJob" => \E m \in 1 .. n - 1 : doc.keys[m].name = e.name
       /\ e.kind = "duplicateStage" /\ Shape("stage") \notin errors
            => \E m \in 1 .. e.at[3] - 1 : listed[m].name = e.name
       /\ e.kind = "cycle" /\ Shape("jobType") \notin errors => e.at[3] # 0

\* Every file gets its verdict: the search enters each job once and the queue runs dry.
VerdictIsReached == <>(pc \in Verdicts)
====
