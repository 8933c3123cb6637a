-------------------------- MODULE PipelineDocument --------------------------
(***************************************************************************)
(* A pipeline file as the YAML library delivers it, the pipeline the       *)
(* parser reads out of it (internal/common/parser) and the checks of the   *)
(* verifier that need no search (internal/common/verifier).                *)
(*                                                                         *)
(* The parser is lenient: it skips what has the wrong shape.  The verifier *)
(* looks at the document as well as at the parsed pipeline, and the two    *)
(* must agree on what they skip, or an error is reported at the wrong      *)
(* place.  The wording of errors is left out: an error is its kind, the    *)
(* stage or job it names and the place it is reported at.                  *)
(***************************************************************************)
EXTENDS Integers, Sequences, FiniteSets, FiniteSetsExt, Functions

\* A list; the part of it at some of its indices, in order; lists one after the other.
IsList(s) == s \in Seq(Range(s))
Nth(idxs, i) == CHOOSE n \in idxs : Cardinality({m \in idxs : m <= n}) = i
Kept(s, idxs) == [i \in 1 .. Cardinality(idxs) |-> s[Nth(idxs, i)]]
Joined(lists) ==
  LET upTo[i \in 0 .. Len(lists)] == IF i = 0 THEN <<>> ELSE upTo[i - 1] \o lists[i]
  IN upTo[Len(lists)]

\* The first of some indices, 0 if there is none.
First(idxs) == IF idxs = {} THEN 0 ELSE Min(idxs)

NoText == ""

\* Kinds of a YAML node: a string, another scalar, a sequence, a mapping or an alias.
Scalar(kind) == kind \in {"str", "scalar"}

\* The document: what the root is and, for a mapping, its entries in order.  Each
\* entry has the name and the kind of its key, and the kind of its value; `pipeline'
\* the kind of its name as well, `stages' its entries, and a job its steps.
IsReservedTopLevelKey(name) == name \in {"name", "pipeline", "stages", "jobs"}

Absent == [kind |-> "absent"]

FirstKey(doc, name) == First({i \in DOMAIN doc.keys : doc.keys[i].name = name})

FindMappingNode(doc, name) ==
  IF FirstKey(doc, name) = 0 THEN Absent ELSE doc.keys[FirstKey(doc, name)]

JobEntries(doc) == {i \in DOMAIN doc.keys : ~IsReservedTopLevelKey(doc.keys[i].name)}
GetJobNodes(doc) == Kept(doc.keys, JobEntries(doc))

\* What the library guarantees: an entry has a value, and the parts of a node are lists.
HasLists(node) ==
  /\ node.name = "stages" => IsList(node.entries)
  /\ ~IsReservedTopLevelKey(node.name) =>
       /\ IsList(node.steps)
       /\ \A i \in DOMAIN node.steps : node.steps[i].kind = "map" =>
            LET fields == node.steps[i].fields
            IN /\ IsList(fields)
               /\ \A k \in DOMAIN fields : fields[k].value.kind = "seq" => IsList(fields[k].value.items)
IsDocument(doc) ==
  /\ IsList(doc.keys)
  /\ \A i \in DOMAIN doc.keys :
       doc.keys[i].kind # "absent" /\ (doc.keys[i].kind = "seq" => HasLists(doc.keys[i]))

DefaultStages == <<"build", "test", "docs">>

-----------------------------------------------------------------------------
\* A name for every scalar and every mapping that has one; the rest is skipped.
ParseStages(node) ==
  LET IsNamed(e) == Scalar(e.kind) \/ e.kind \in {"map", "mapOtherName"}
      named == Kept(node.entries, {i \in DOMAIN node.entries : IsNamed(node.entries[i])})
  IN [i \in DOMAIN named |-> named[i].name]

AppendStringValues(value) ==
  CASE Scalar(value.kind)   -> <<value.text>>
    [] value.kind = "seq"   -> Joined([i \in DOMAIN value.items |->
                                 IF Scalar(value.items[i].kind) THEN <<value.items[i].text>> ELSE <<>>])
    [] OTHER                -> <<>>

\* All fields of a job in document order; steps that are no mapping are skipped.
JobFields(node) ==
  IF node.kind # "seq" THEN <<>>
  ELSE Joined([i \in DOMAIN node.steps |->
                 IF node.steps[i].kind = "map" THEN node.steps[i].fields ELSE <<>>])

\* A repeated `stage' overwrites, a repeated `needs' extends.
ParseJob(node) ==
  LET fields == JobFields(node)
      stages == {i \in DOMAIN fields : fields[i].key = "stage" /\ Scalar(fields[i].value.kind)}
  IN [name  |-> node.name,
      stage |-> IF stages = {} THEN NoText ELSE fields[Max(stages)].value.text,
      needs |-> Joined([i \in DOMAIN fields |->
                  IF fields[i].key = "needs" THEN AppendStringValues(fields[i].value) ELSE <<>>])]

ParseFails(doc) ==
  doc.root # "map" \/ \E i \in DOMAIN doc.keys : doc.keys[i].name \in {"name", "jobs"}

BuildPipeline(doc) ==
  LET node   == FindMappingNode(doc, "stages")
      stages == IF node.kind = "seq" THEN ParseStages(node) ELSE <<>>
      parsed == [n \in JobEntries(doc) |-> ParseJob(doc.keys[n])]
  IN [stages |-> IF stages = <<>> THEN DefaultStages ELSE stages,
      jobs   |-> Kept(parsed, JobEntries(doc))]

\* What it makes are lists of stages and of jobs with lists of needs.
IsPipeline(p) ==
  IsList(p.stages) /\ IsList(p.jobs) /\ \A i \in DOMAIN p.jobs : IsList(p.jobs[i].needs)

-----------------------------------------------------------------------------
\* Places: the start of the file, the i-th stage of the n-th entry of the root, or the
\* n-th entry of the root, that is its key or one of its steps.
Start == <<"start", 0, 0>>
StageAt(n, i) == <<"stages", n, i>>
EntryAt(n, stp) == <<"entry", n, stp>>

\* Mutant: reserved keys count as jobs.
GetJobNodePairOfAny(doc, idx) == IF idx \in DOMAIN doc.keys THEN idx ELSE 0

\* The entry of the job with this index, 0 if there is none.
GetJobNodePair(doc, idx) ==
  LET IsJob(n) == ~IsReservedTopLevelKey(doc.keys[n].name)
      found == {n \in DOMAIN doc.keys : IsJob(n) /\ Cardinality({m \in 1 .. n : IsJob(m)}) = idx}
  IN Max(found \cup {0})

\* The first `stages' that has a name at this index: not only the first `stages'.
GetStageNameLocation(doc, idx) ==
  LET HasName(node) == /\ node.name = "stages" /\ node.kind = "seq" /\ idx <= Len(node.entries)
                       /\ node.entries[idx].kind \in {"str", "scalar", "map", "mapOtherName"}
      n == First({k \in DOMAIN doc.keys : HasName(doc.keys[k])})
  IN IF n = 0 THEN Start ELSE StageAt(n, idx)

\* The first step with this field and no other, 0 if there is none.
FindJobField(node, field) ==
  IF node.kind # "seq" THEN 0
  ELSE LET Has(s) == s.kind = "map" /\ Len(s.fields) = 1 /\ s.fields[1].key = field
       IN First({i \in DOMAIN node.steps : Has(node.steps[i])})

JobLocation(doc, idx, field) ==
  LET n == GetJobNodePair(doc, idx)
  IN IF n = 0 THEN Start ELSE EntryAt(n, FindJobField(doc.keys[n], field))

GetStagesLocation(doc) ==
  LET n == FirstKey(doc, "stages")
  IN IF n = 0 THEN Start ELSE EntryAt(n, 0)
GetJobNameLocation(doc, idx) ==
  LET n == GetJobNodePair(doc, idx)
  IN IF n = 0 THEN Start ELSE EntryAt(n, 0)
GetJobsLocation(doc) == GetJobNameLocation(doc, 1)
GetJobStageLocation(doc, idx) == JobLocation(doc, idx, "stage")
GetJobNeedsLocation(doc, idx) == JobLocation(doc, idx, "needs")

FormatError(kind, name, at) == [kind |-> kind, name |-> name, at |-> at]
\* An error about the shape of a node is reported at that node.
Shape(kind) == FormatError(kind, NoText, <<"node", 0, 0>>)

-----------------------------------------------------------------------------
CheckYAMLTypes(doc) ==
  LET node   == FindMappingNode(doc, "pipeline")
      stages == FindMappingNode(doc, "stages")
  IN IF node.kind = "absent" THEN {Shape("noPipeline")}
     ELSE IF node.kind # "map" THEN {Shape("pipelineShape")}
     ELSE {Shape(e) : e \in
            {e \in {"pipelineName", "stages", "stage"} :
               \/ e = "pipelineName" /\ node.nameKind # "str"
               \/ e = "stages" /\ stages.kind \notin {"absent", "seq"}
               \/ e = "stage"  /\ stages.kind = "seq"
                               /\ \E i \in DOMAIN stages.entries :
                                    LET entry == stages.entries[i]
                                    IN entry.kind # "str" /\ (entry.kind # "map" \/ entry.name = NoText)}}

HasCriticalErrors(errs) ==
  \E e \in errs : e.kind \in {"noPipeline", "pipelineShape", "stages"}

FieldIsWellTyped(field) ==
  CASE field.key \in {"stage", "image"} -> field.value.kind = "str"
    [] field.key = "script"   -> \/ field.value.kind = "str"
                                 \/ /\ field.value.kind = "seq"
                                    /\ \A i \in DOMAIN field.value.items :
                                         field.value.items[i].kind = "str"
    [] field.key = "needs"    -> field.value.kind = "seq"
    [] field.key = "failures" -> field.value.kind = "scalar" /\ field.value.text = "bool"
    [] OTHER -> TRUE

JobIsWellTyped(node) ==
  /\ node.keyKind = "str" /\ node.kind = "seq"
  /\ \A i \in DOMAIN node.steps :
       /\ node.steps[i].kind = "map" /\ Len(node.steps[i].fields) = 1
       /\ FieldIsWellTyped(node.steps[i].fields[1])

ValidateJobs(doc) ==
  IF \A i \in DOMAIN GetJobNodes(doc) : JobIsWellTyped(GetJobNodes(doc)[i])
  THEN {} ELSE {Shape("jobType")}

-----------------------------------------------------------------------------
\* Errors about the stages, or the jobs, with these indices.
StageErrors(doc, p, kind, idxs) ==
  {FormatError(kind, p.stages[i], GetStageNameLocation(doc, i)) : i \in idxs}
JobNames(p) == {p.jobs[i].name : i \in DOMAIN p.jobs}
NeedsErrors(doc, p, kind, idxs) ==
  {FormatError(kind, p.jobs[i].name, GetJobNeedsLocation(doc, i)) : i \in idxs}

CheckAtLeastOneStage(doc, p) ==
  IF p.stages = <<>> THEN {FormatError("noStage", NoText, GetStagesLocation(doc))} ELSE {}
CheckAtLeastOneJob(doc, p) ==
  IF p.jobs = <<>> THEN {FormatError("noJob", NoText, GetJobsLocation(doc))} ELSE {}

CheckUniqueStageNames(doc, p) ==
  StageErrors(doc, p, "duplicateStage",
    {i \in DOMAIN p.stages : \E j \in 1 .. i - 1 : p.stages[j] = p.stages[i]})

CheckUniqueJobNames(doc, p) ==
  {FormatError("duplicateJob", p.jobs[i].name, GetJobNameLocation(doc, i)) :
     i \in {i \in DOMAIN p.jobs : \E j \in 1 .. i - 1 : p.jobs[j].name = p.jobs[i].name}}

CheckJobStagesExist(doc, p) ==
  {FormatError("undefinedStage", p.jobs[i].name, GetJobStageLocation(doc, i)) :
     i \in {i \in DOMAIN p.jobs : p.jobs[i].stage \notin Range(p.stages)}}

CheckNoEmptyStages(doc, p) ==
  StageErrors(doc, p, "emptyStage",
    {i \in DOMAIN p.stages : \A j \in DOMAIN p.jobs : p.jobs[j].stage # p.stages[i]})

CheckNeedsReferences(doc, p) ==
  NeedsErrors(doc, p, "undefinedNeed",
    {i \in DOMAIN p.jobs : ~(Range(p.jobs[i].needs) \subseteq JobNames(p))})

\* The maps by job name keep the last job of that name.
LastIndex(p, name) == Max({i \in DOMAIN p.jobs : p.jobs[i].name = name} \cup {0})
LastNamed(p, name) == p.jobs[LastIndex(p, name)]

CheckNeedsStageConsistency(doc, p) ==
  NeedsErrors(doc, p, "foreignNeed",
    {i \in DOMAIN p.jobs : \E n \in Range(p.jobs[i].needs) \cap JobNames(p) :
                              LastNamed(p, n).stage # p.jobs[i].stage})

\* Every check but the last one, which is the search for cycles.
StaticErrors(doc, p) ==
  CheckYAMLTypes(doc) \cup ValidateJobs(doc)
  \cup CheckAtLeastOneStage(doc, p) \cup CheckUniqueStageNames(doc, p)
  \cup CheckAtLeastOneJob(doc, p) \cup CheckUniqueJobNames(doc, p)
  \cup CheckJobStagesExist(doc, p) \cup CheckNoEmptyStages(doc, p)
  \cup CheckNeedsReferences(doc, p) \cup CheckNeedsStageConsistency(doc, p)
====
