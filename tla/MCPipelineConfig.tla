-------------------------- MODULE MCPipelineConfig --------------------------
(***************************************************************************)
(* Files to submit: every graph of needs over three jobs in one or two     *)
(* stages, with repeated, undefined and missing entries; files that list   *)
(* their stages twice; and files that are badly shaped in one place each.  *)
(***************************************************************************)
EXTENDS PipelineConfig

CONSTANT Ghost   \* the name of no job

Str(text) == [kind |-> "str", text |-> text, items |-> <<>>]
List(names) == [kind |-> "seq", text |-> "",
                items |-> [i \in DOMAIN names |-> [kind |-> "str", text |-> names[i]]]]
StepOf(key, value) == [kind |-> "map", fields |-> <<[key |-> key, value |-> value]>>]

JobNode(name, steps) == [name |-> name, keyKind |-> "str", kind |-> "seq", steps |-> steps]
JobIn(name, stage, needs) ==
  JobNode(name, <<StepOf("stage", Str(stage))>>
                \o (IF needs = <<>> THEN <<>> ELSE <<StepOf("needs", List(needs))>>))

Entry(name, kind) == [name |-> name, keyKind |-> "str", kind |-> kind]
PipelineEntry(kind, nameKind) ==
  [name |-> "pipeline", keyKind |-> "str", kind |-> kind, nameKind |-> nameKind]
StagesEntry(kind, entries) ==
  [name |-> "stages", keyKind |-> "str", kind |-> kind, entries |-> entries]
StageList(names) ==
  <<StagesEntry("seq", [i \in DOMAIN names |-> [kind |-> "str", name |-> names[i]]])>>
NoStages == <<>>

\* The stages after the first job, where users may put them.
File(stages, jobs) ==
  [root |-> "map",
   keys |-> <<PipelineEntry("map", "str"), jobs[1]>> \o stages \o Tail(jobs)]

-----------------------------------------------------------------------------
NeedLists(names) == {<<>>} \cup {<<n>> : n \in names} \cup {<<m, n>> : m, n \in names}

\* All graphs over three jobs of one stage, with self-loops and repetitions.
OneStage ==
  {File(StageList(<<"build">>), <<JobIn("a", "build", x), JobIn("b", "build", y), JobIn("c", "build", z)>>) :
     x \in NeedLists({"a", "b", "c"}), y \in NeedLists({"a", "b", "c"}), z \in NeedLists({"a", "b", "c"})}

\* Jobs in two stages, declared in either way, needs across stages and to nobody.
TwoStages ==
  {File(stages, <<JobIn("a", "build", x), JobIn(second, "test", y), JobIn("c", st, z)>>) :
     stages \in {NoStages, StageList(<<>>), StageList(<<"build", "test">>),
                 StageList(<<"test", "build">>), StageList(<<"build", "build", "test">>)},
     second \in {"a", "b"}, st \in {"build", "test", "docs"},
     x \in {<<>>, <<"a">>, <<"c">>}, y \in {<<>>, <<"a">>, <<"b">>, <<"c">>},
     z \in {<<>>, <<"b">>, <<"a">>, <<Ghost>>, <<"b", "b">>}}

\* Chains and cycles through four jobs.
FourJobs ==
  {File(StageList(<<"build">>),
        <<JobIn("a", "build", w), JobIn("b", "build", x), JobIn("c", "build", y), JobIn("d", "build", z)>>) :
     w \in {<<>>, <<"b">>, <<"d">>}, x \in {<<>>, <<"a">>, <<"c", "d">>},
     y \in {<<>>, <<"a", "b">>, <<"d">>}, z \in {<<>>, <<"b", "c">>, <<"a">>}}

-----------------------------------------------------------------------------
Jobs2 == <<JobIn("a", "build", <<>>), JobIn("b", "build", <<"a">>)>>
Plain == File(StageList(<<"build">>), Jobs2)

With(node) == [Plain EXCEPT !.keys = Append(@, node)]
WithStages(entries) == File(<<StagesEntry("seq", entries)>>, Jobs2)

\* `stages' twice, the first of them full, empty, too short or badly shaped.
TwoLists ==
  {File(<<StagesEntry(kind, [i \in DOMAIN names |-> [kind |-> k, name |-> names[i]]])>>
        \o StageList(more), Jobs2) :
     kind \in {"seq", "map"}, k \in {"str", "mapNoName"},
     names \in {<<>>, <<"build">>, <<"build", "test">>, <<"build", "build">>},
     more \in {<<>>, <<"docs">>, <<"build", "test", "test">>}}

BadValue(kind) == [kind |-> kind, text |-> "build", items |-> <<>>]

BadShapes ==
  {[Plain EXCEPT !.root = r] : r \in {"none", "seq"}}
  \cup {With(Entry("jobs", "seq")), With(Entry("name", "str"))}
  \cup {[Plain EXCEPT !.keys[1] = PipelineEntry("seq", "absent")], [Plain EXCEPT !.keys = Tail(@)]}
  \cup {[Plain EXCEPT !.keys[1] = PipelineEntry("map", n)] : n \in {"absent", "scalar"}}
  \cup {File(<<StagesEntry("map", <<>>)>>, Jobs2)}
  \cup {WithStages(<<[kind |-> k, name |-> n], [kind |-> "str", name |-> "build"],
                     [kind |-> "str", name |-> m]>>) :
          k \in {"scalar", "map", "mapNoName", "mapOtherName", "alias"}, n \in {"", "build", "test"},
          m \in {"build", "docs"}}
  \cup {WithStages(<<[kind |-> k, name |-> "build"]>>) : k \in {"map", "mapNoName"}}
  \cup {[Plain EXCEPT !.keys = <<PipelineEntry("map", "str")>>]}
  \cup {With(JobNode("c", <<StepOf("stage", Str("build")),
                            StepOf("needs", [kind |-> "seq", text |-> "",
                                             items |-> <<[kind |-> "map", text |-> ""],
                                                         [kind |-> "str", text |-> n]>>])>>)) :
          n \in {"b", "c"}}
  \cup {With([JobIn("c", "build", <<>>) EXCEPT !.keyKind = "scalar"]),
        With([JobIn("c", "build", <<>>) EXCEPT !.kind = "map"]),
        With(JobNode("c", <<[kind |-> "str", fields |-> <<>>]>>)),
        With(JobNode("c", <<[kind |-> "map", fields |-> StepOf("stage", Str("build")).fields
                                                      \o StepOf("needs", List(<<"b">>)).fields]>>)),
        With(JobNode("c", <<StepOf("stage", Str("test")), StepOf("stage", Str("build")),
                            StepOf("needs", List(<<"b">>)), StepOf("needs", List(<<"a">>))>>))}
  \cup {With(JobNode("c", <<StepOf("stage", Str("build")), StepOf(key, BadValue(kind))>>)) :
          key \in {"stage", "image", "script", "needs", "failures", "other"},
          kind \in {"str", "scalar", "seq", "map", "alias"}}

Files == {Plain} \cup OneStage \cup TwoStages \cup FourJobs \cup TwoLists \cup BadShapes
====
