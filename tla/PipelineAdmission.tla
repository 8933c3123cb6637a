--------------------------- MODULE PipelineAdmission ---------------------------
(***************************************************************************)
(* From a CLI command to a verdict: the commands validate, dryrun and run  *)
(* (internal/cli), the gateway that passes them on, the validation service *)
(* with its Redis cache (internal/services/validation, internal/cache) and *)
(* the part of the orchestrator that asks for a verdict before it creates  *)
(* a run (prepareRun).                                                     *)
(*                                                                         *)
(* A text is the content of a pipeline file.  What the parser, the         *)
(* verifier and the planner say of a text is the subject of                *)
(* PipelineConfig; here a text is valid, invalid or cannot be parsed.      *)
(***************************************************************************)
EXTENDS Naturals, Sequences

CONSTANTS
  Clients,      \* shells in which the CLI runs
  Paths,        \* pipeline files of the repository
  Root,         \* the directory .pipelines
  Texts,        \* contents of files
  ValidTexts,   \* those that pass all checks
  BrokenTexts,  \* those that do not parse
  Absent,       \* "no such file at this commit"
  MaxCommit,    \* bound: commits 1 .. MaxCommit
  Repository,   \* Repository[commit][path], a text or Absent
  Base,         \* Base[path], the last element of a path
  Directory,    \* the YAML files under Root in the working tree, at any depth, sorted
  Miss,         \* "not in the cache"
  FaultKinds,   \* subset of {"redis", "gateway", "answer"}
  MaxFaults,    \* bound: faults in a behaviour
  MaxCommands   \* bound: commands in a behaviour

Commits == 1 .. MaxCommit

\* Files in different directories under Root may share a base name.
ASSUME AdmissionAssumption ==
  /\ MaxCommit \in Nat \ {0} /\ MaxFaults \in Nat /\ MaxCommands \in Nat
  /\ ValidTexts \subseteq Texts /\ BrokenTexts \subseteq Texts \ ValidTexts
  /\ Absent \notin Texts
  /\ Repository \in [Commits -> [Paths -> Texts \cup {Absent}]]
  /\ Directory \in Seq(Paths) /\ Directory # <<>>
  /\ DOMAIN Base = Paths /\ Root \notin Paths

VARIABLES
  head,      \* the commit HEAD names
  cache,     \* Redis: answers by key
  pc, cmd,   \* per client: progress, and the command
  text,      \* the content it read and sent as yaml_content
  answer,    \* what the validation service answered
  commands, faults

vars == <<head, cache, pc, cmd, text, answer, commands, faults>>

\* dryrun starts with a validation of its own, the prerun (PreRunE).
Checks == {"validate", "prerun"}
Named == Checks \cup {"dryrun"}
Kinds == Named \cup {"run", "remote"}

\* An argument is a file or the directory, which is no file at any commit.
Arguments == Paths \cup {Root}
FileAt(commit, p) == IF p = Root THEN Absent ELSE Repository[commit][p]

\* The files to look at: for a validation of the directory those in it.
Targets(kind, arg) == IF arg = Root /\ kind \in Checks THEN Directory ELSE <<arg>>

\* The two responses: a dry run shows the plan of the text, a validation only
\* the errors it has.
Validated(t) == IF t \in ValidTexts THEN <<"valid">> ELSE <<"errors", t>>
DryRun(t) == IF t \in ValidTexts THEN <<"plan", t>> ELSE <<"errors", t>>
Fresh(kind, t) == IF kind = "dryrun" THEN DryRun(t) ELSE Validated(t)

Answers == {Validated(t) : t \in Texts} \cup {DryRun(t) : t \in Texts}
Plans == {DryRun(t) : t \in ValidTexts}

\* Mutant: the commit is not part of the key.
NameWithoutCommit(command) ==
  IF command.kind \in Named THEN <<1, Base[Head(command.left)]>> ELSE <<>>

\* The variable part of a key, commit:path.  The CLI sends the base name of the
\* path; the orchestrator sends neither commit nor path.
Name(command) ==
  IF command.kind \in Named THEN <<command.commit, Base[Head(command.left)]>> ELSE <<>>

Names == {<<>>} \cup (Commits \X {Base[p] : p \in Paths})
Namespace(command) == IF command.kind = "dryrun" THEN "dryrun" ELSE "validate"
Key(command) == <<Namespace(command), Name(command)>>
Keys == {"validate", "dryrun"} \X Names

\* A command looks at files of one commit; first is the one of its prerun.
Commands == [kind : Kinds, arg : Arguments, first : Commits, commit : Commits, left : Seq(Arguments)]

Labels == {"read", "get", "compute", "set", "answered", "checked", "admitted", "ok", "error", "unreachable"}

\* Types; a dry run that failed is not cached.
TypeOK ==
  /\ head \in Commits
  /\ cache \in [Keys -> Answers \cup {Miss}]
  /\ \A n \in Names : cache[<<"dryrun", n>>] \in Plans \cup {Miss}
  /\ pc \in [Clients -> Labels] /\ cmd \in [Clients -> Commands]
  /\ text \in [Clients -> Texts \cup {Absent}]
  /\ answer \in [Clients -> Answers \cup {Miss}]
  /\ commands \in 0 .. MaxCommands /\ faults \in 0 .. MaxFaults

Idle == {"ok", "error", "unreachable"}

\* The clients have done nothing yet.
Init ==
  /\ head = 1 /\ cache = [k \in Keys |-> Miss]
  /\ pc = [c \in Clients |-> "unreachable"]
  /\ cmd = [c \in Clients |-> [kind |-> "run", arg |-> Root, first |-> 1, commit |-> 1, left |-> <<>>]]
  /\ text = [c \in Clients |-> Absent] /\ answer = [c \in Clients |-> Miss]
  /\ commands = 0 /\ faults = 0

Spend(kind) == kind \in FaultKinds /\ faults < MaxFaults /\ faults' = faults + 1
Goto(c, label) == pc' = [pc EXCEPT ![c] = label]

\* A function returns: the content and the answer it held are gone.
Return(c, label) ==
  /\ Goto(c, label)
  /\ text' = [text EXCEPT ![c] = Absent] /\ answer' = [answer EXCEPT ![c] = Miss]

-----------------------------------------------------------------------------
\* A command starts: it takes the commit of HEAD, a local run any commit of its branch.
Begin(c, kind, arg, commit) ==
  /\ pc[c] \in Idle /\ commands < MaxCommands
  /\ commands' = commands + 1
  /\ cmd' = [cmd EXCEPT ![c] = [kind |-> kind, arg |-> arg, first |-> commit, commit |-> commit,
                                left |-> Targets(kind, arg)]]
  /\ Goto(c, "read")
  /\ UNCHANGED <<head, cache, text, answer, faults>>

RunValidate(c) == \E arg \in Arguments : Begin(c, "validate", arg, head)
RunValidateQuiet(c) == \E arg \in Arguments : Begin(c, "prerun", arg, head)
RunLocal(c) == \E arg \in Arguments, commit \in 1 .. head : Begin(c, "run", arg, commit)

\* A remote run sends a file of the working tree; nothing depends on its path.
RunRemote(c) == Begin(c, "remote", Root, head)

\* After its prerun dryrun starts afresh, from what HEAD names by then.
RunDryRun(c) ==
  /\ pc[c] = "checked"
  /\ cmd' = [cmd EXCEPT ![c].kind = "dryrun", ![c].commit = head, ![c].left = <<cmd[c].arg>>]
  /\ Goto(c, "read")
  /\ UNCHANGED <<head, cache, text, answer, commands, faults>>

\* ReadFileAtCommit; a remote run sends the file of the working tree instead.
ReadFile(c) ==
  /\ pc[c] = "read"
  /\ LET command == cmd[c] IN
     /\ IF command.kind = "remote"
        THEN \E t \in Texts \cup {Absent} : text' = [text EXCEPT ![c] = t]
        ELSE text' = [text EXCEPT ![c] = FileAt(command.commit, Head(command.left))]
     /\ Goto(c, IF text'[c] = Absent THEN "error" ELSE "get")
  /\ UNCHANGED <<head, cache, cmd, answer, commands, faults>>

\* The request does not reach the service behind the gateway: 502 or 504.
ForwardFails(c) ==
  /\ pc[c] = "get" /\ Spend("gateway")
  /\ Return(c, "unreachable")
  /\ UNCHANGED <<head, cache, cmd, commands>>

\* cacheStore.Get: a hit is the answer; a miss, and a failure, lead to the checks.
Get(c) ==
  /\ pc[c] = "get"
  /\ LET hit == cache[Key(cmd[c])] IN
     \/ /\ hit # Miss
        /\ answer' = [answer EXCEPT ![c] = hit] /\ Goto(c, "answered") /\ UNCHANGED faults
     \/ hit = Miss /\ Goto(c, "compute") /\ UNCHANGED <<answer, faults>>
     \/ Spend("redis") /\ Goto(c, "compute") /\ UNCHANGED answer
  /\ UNCHANGED <<head, cache, cmd, text, commands>>

\* Mutant: every dry run is cached.
ComputeCachesAll(c) ==
  /\ pc[c] = "compute"
  /\ answer' = [answer EXCEPT ![c] = Fresh(cmd[c].kind, text[c])]
  /\ Goto(c, "set")
  /\ UNCHANGED <<head, cache, cmd, text, commands, faults>>

\* validatePipelineContent, and the plan of a dry run, whose errors are not cached.
Compute(c) ==
  /\ pc[c] = "compute"
  /\ answer' = [answer EXCEPT ![c] = Fresh(cmd[c].kind, text[c])]
  /\ Goto(c, IF cmd[c].kind = "dryrun" /\ text[c] \notin ValidTexts THEN "answered" ELSE "set")
  /\ UNCHANGED <<head, cache, cmd, text, commands, faults>>

\* cacheStore.Set; the response is served if it fails.
Set(c) ==
  /\ pc[c] = "set"
  /\ \/ cache' = [cache EXCEPT ![Key(cmd[c])] = answer[c]] /\ UNCHANGED faults
     \/ Spend("redis") /\ cache' \in {cache, [cache EXCEPT ![Key(cmd[c])] = answer[c]]}
  /\ Goto(c, "answered")
  /\ UNCHANGED <<head, cmd, text, answer, commands>>

\* The answer does not get back through the gateway.
AnswerLost(c) ==
  /\ pc[c] \in {"answered", "admitted"} /\ Spend("answer")
  /\ Return(c, "unreachable")
  /\ UNCHANGED <<head, cache, cmd, commands>>

Accepts(a) == a[1] # "errors"

\* Where an accepted file leads: to the next one, to the plan, or to the end.
AfterAccept(command) ==
  IF Len(command.left) > 1 THEN "read" ELSE IF command.kind = "prerun" THEN "checked" ELSE "ok"

\* Mutant: the rest of a directory is read at the commit HEAD names by then.
ShowAtHead(c) ==
  /\ pc[c] = "answered" /\ cmd[c].kind \in Named
  /\ IF Accepts(answer[c])
     THEN /\ cmd' = [cmd EXCEPT ![c].left = Tail(@), ![c].commit = head]
          /\ Return(c, AfterAccept(cmd[c]))
     ELSE Return(c, "error") /\ UNCHANGED cmd
  /\ UNCHANGED <<head, cache, commands, faults>>

\* validate and dryrun print the answer; a directory stops at its first invalid
\* file, and dryrun if its prerun fails.
Show(c) ==
  /\ pc[c] = "answered" /\ cmd[c].kind \in Named
  /\ IF Accepts(answer[c])
     THEN cmd' = [cmd EXCEPT ![c].left = Tail(@)] /\ Return(c, AfterAccept(cmd[c]))
     ELSE Return(c, "error") /\ UNCHANGED cmd
  /\ UNCHANGED <<head, cache, commands, faults>>

\* The rest of prepareRun: refuse, or parse and plan the text and create the run.
PrepareRun(c) ==
  /\ pc[c] = "answered" /\ cmd[c].kind \notin Named
  /\ IF Accepts(answer[c]) /\ text[c] \notin BrokenTexts
     THEN Goto(c, "admitted") /\ UNCHANGED <<text, answer>>
     ELSE Return(c, "error")
  /\ UNCHANGED <<head, cache, cmd, commands, faults>>

ShowRun(c) ==
  /\ pc[c] = "admitted"
  /\ Return(c, "ok")
  /\ UNCHANGED <<head, cache, cmd, commands, faults>>

-----------------------------------------------------------------------------
\* An entry reaches its TTL, or Redis evicts it.
Expire(k) ==
  /\ cache[k] # Miss
  /\ cache' = [cache EXCEPT ![k] = Miss]
  /\ UNCHANGED <<head, pc, cmd, text, answer, commands, faults>>

\* A developer commits.
Commit ==
  /\ head < MaxCommit /\ head' = head + 1
  /\ UNCHANGED <<cache, pc, cmd, text, answer, commands, faults>>

ClientStep(c) ==
  \/ RunValidate(c) \/ RunValidateQuiet(c) \/ RunDryRun(c) \/ RunLocal(c) \/ RunRemote(c)
  \/ ReadFile(c) \/ ForwardFails(c) \/ Get(c) \/ Compute(c) \/ Set(c)
  \/ AnswerLost(c) \/ Show(c) \/ PrepareRun(c) \/ ShowRun(c)

Next ==
  \/ \E c \in Clients : ClientStep(c)
  \/ \E k \in Keys : Expire(k)
  \/ Commit

Spec == Init /\ [][Next]_vars

-----------------------------------------------------------------------------
\* The files the service cannot tell from p: it is sent base names.
Namesakes(p) == {q \in Paths : Base[q] = Base[p]}

\* Whoever asked with a commit and a path gets an answer the validation service
\* would compute from a file of that name at that commit, cached or not, whatever
\* others ask, HEAD moves to and Redis loses (ValidateYAML, DryRunYAML, buildKey):
\* from the very file, unless another directory has one of the same name.
AnswersFit ==
  \A c \in Clients :
    (pc[c] = "answered" /\ cmd[c].kind \in Named) =>
      \E q \in Namesakes(Head(cmd[c].left)) :
        LET t == Repository[cmd[c].commit][q] IN t # Absent /\ answer[c] = Fresh(cmd[c].kind, t)

\* A file may pass, or fail, because of what it or one of its namesakes holds;
\* a file without namesakes passes exactly if it is there and valid.
MayPass(commit, p) ==
  /\ FileAt(commit, p) # Absent
  /\ \E q \in Namesakes(p) : Repository[commit][q] \in ValidTexts
MayFail(commit, p) ==
  \/ FileAt(commit, p) = Absent
  \/ \E q \in Namesakes(p) : Repository[commit][q] \in Texts \ ValidTexts

AllMayPass(commit, files) == \A i \in DOMAIN files : MayPass(commit, files[i])
SomeMayFail(commit, files) == \E i \in DOMAIN files : MayFail(commit, files[i])

VerdictIsRight(c) ==
  LET command == cmd[c] IN
  command.kind \in Named =>
    /\ pc[c] = "ok" => /\ AllMayPass(command.first, Targets("prerun", command.arg))
                       /\ AllMayPass(command.commit, Targets(command.kind, command.arg))
    /\ pc[c] = "error" => SomeMayFail(command.commit, Targets(command.kind, command.arg))

\* validate judges all its files at one commit, the HEAD of its start: it succeeds
\* only if each is there and it, or a file of its name, is valid, and fails only if
\* one is not there or it, or one of its name, is not valid.  dryrun succeeds only if
\* that holds of its prerun and once more of the commit it plans, and never for a
\* directory.  A failing cache never makes them fail.
VerdictsAreRight == \A c \in Clients : VerdictIsRight(c)

\* The design says of a run request: "If validation fails, error is returned
\* immediately to the user".  No run is created for a file that is not valid.
OnlyValidPipelinesRun == \A c \in Clients : pc[c] = "admitted" => text[c] \in ValidTexts
====
