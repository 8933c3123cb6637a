------------------------ MODULE PipelineAdmissionProofs ------------------------
(***************************************************************************)
(* Proofs about PipelineAdmission, for any repository, any number of       *)
(* clients and commands, and any faults, whether files in different        *)
(* directories share a base name or not.                                   *)
(***************************************************************************)
EXTENDS PipelineAdmission, SequenceTheorems, TLAPS

\* How long the provers may take over a leaf.
USE SMTT(20), ZenonT(20)

Serving == {"get", "compute", "set", "answered"}

\* A command that is under way has a file left to deal with; only runs are admitted.
TargetsLeft(c) ==
  /\ pc[c] \in Serving \cup {"read"} => cmd[c].left # <<>>
  /\ pc[c] = "admitted" => cmd[c].kind \notin Named

\* The content that was sent is a text, and that of the file at the commit it is sent for.
TextIsRead(c) ==
  pc[c] \in Serving =>
    /\ text[c] \in Texts
    /\ cmd[c].kind \in Named => text[c] = FileAt(cmd[c].commit, Head(cmd[c].left))

\* The answer a to a request about the base name b: it comes from a file of that name.
Fits(kind, commit, b, a) ==
  \E q \in Paths :
    /\ Base[q] = b /\ Repository[commit][q] \in Texts
    /\ a = Fresh(kind, Repository[commit][q])

\* An answer on its way to the cache was computed from that content; one on its way
\* to a CLI from a file of the name that was sent.
AnswerIsFresh(c) ==
  /\ pc[c] = "set" =>
       /\ answer[c] = Fresh(cmd[c].kind, text[c])
       /\ cmd[c].kind = "dryrun" => text[c] \in ValidTexts
  /\ (pc[c] = "answered" /\ cmd[c].kind \in Named) =>
       Fits(cmd[c].kind, cmd[c].commit, Base[Head(cmd[c].left)], answer[c])

\* The files that are left are the last ones of the command; the others passed.
PassedSoFar(c) ==
  (pc[c] \in Serving \cup {"read"} /\ cmd[c].kind \in Named) =>
    LET targets == Targets(cmd[c].kind, cmd[c].arg)
        past == Len(targets) - Len(cmd[c].left) IN
    /\ past \in Nat
    /\ \A i \in 1 .. past : MayPass(cmd[c].commit, targets[i])
    /\ \A i \in 1 .. Len(cmd[c].left) : cmd[c].left[i] = targets[past + i]

\* A dryrun has its prerun behind it.
PrerunPassed(c) ==
  /\ cmd[c].kind \in Checks => cmd[c].first = cmd[c].commit
  /\ cmd[c].kind = "dryrun" => AllMayPass(cmd[c].first, Targets("prerun", cmd[c].arg))
  /\ pc[c] = "checked" =>
       /\ cmd[c].kind = "prerun"
       /\ AllMayPass(cmd[c].first, Targets("prerun", cmd[c].arg))

\* What the cache holds under a name is what a file of that name gets.
CacheFits ==
  \A space \in {"validate", "dryrun"}, commit \in Commits, p \in Paths :
    LET a == cache[<<space, <<commit, Base[p]>>>>] IN a = Miss \/ Fits(space, commit, Base[p], a)

ClientInv(c) ==
  /\ TargetsLeft(c) /\ TextIsRead(c) /\ AnswerIsFresh(c)
  /\ PassedSoFar(c) /\ PrerunPassed(c) /\ VerdictIsRight(c)

\* The inductive invariant.
IInv == TypeOK /\ CacheFits /\ \A c \in Clients : ClientInv(c)
-----------------------------------------------------------------------------
USE DEF Commits

\* An answer computed from a text accepts it if and only if the text is valid
\* (ValidateYAML and DryRunYAML).
LEMMA AcceptsFresh ==
  ASSUME NEW kind \in Kinds, NEW t \in Texts
  PROVE  Accepts(Fresh(kind, t)) <=> t \in ValidTexts
BY DEF Accepts, Fresh, DryRun, Validated

\* Every answer that is computed is one of the answers.
LEMMA FreshIsAnswer ==
  ASSUME NEW kind \in Kinds, NEW t \in Texts
  PROVE  Fresh(kind, t) \in Answers
BY DEF Fresh, Answers

\* Every command has a file to look at (runValidate, validatePipelineDir).
LEMMA TargetsAreFiles ==
  ASSUME NEW kind \in Kinds, NEW arg \in Arguments
  PROVE  Targets(kind, arg) \in Seq(Arguments) /\ Targets(kind, arg) # <<>>
<1>1. Directory \in Seq(Arguments) /\ Directory # <<>>
  BY AdmissionAssumption DEF Arguments
<1>2. <<arg>> \in Seq(Arguments) /\ <<arg>> # <<>>
  OBVIOUS
<1> QED
  BY Zenon, <1>1, <1>2 DEF Targets

\* What can be read is a file of the repository (ReadFileAtCommit).
LEMMA ReadableIsFile ==
  ASSUME NEW commit \in Commits, NEW p \in Arguments, FileAt(commit, p) \in Texts
  PROVE  p \in Paths /\ FileAt(commit, p) = Repository[commit][p] /\ FileAt(commit, p) # Absent
BY AdmissionAssumption DEF FileAt, Arguments

\* The service computes the same for the requests it keeps under one namespace.
LEMMA FreshOfNamespace ==
  ASSUME NEW command, command.kind \in Kinds, NEW t
  PROVE  Fresh(Namespace(command), t) = Fresh(command.kind, t)
BY DEF Fresh, Namespace, Kinds, Named, Checks

\* The key of a command that has a file left is a key of the cache (buildKey).
LEMMA KeyIsKey ==
  ASSUME NEW command \in Commands, command.left # <<>>,
         command.kind \in Named => Head(command.left) \in Paths
  PROVE  /\ Key(command) \in Keys
         /\ Namespace(command) \in {"validate", "dryrun"}
         /\ command.kind \in Named =>
              Key(command) = <<Namespace(command), <<command.commit, Base[Head(command.left)]>>>>
         /\ command.kind \notin Named => Key(command) = <<"validate", <<>>>>
<1>1. CASE command.kind \in Named
  <2>1. Name(command) = <<command.commit, Base[Head(command.left)]>>
    BY <1>1 DEF Name
  <2>2. Name(command) \in Names
    BY <1>1, <2>1 DEF Names, Commands
  <2> QED
    BY <1>1, <2>1, <2>2 DEF Key, Keys, Namespace
<1>2. CASE command.kind \notin Named
  <2>1. Name(command) = <<>> /\ Namespace(command) = "validate"
    BY <1>2 DEF Name, Namespace, Named
  <2> QED
    BY <1>2, <2>1 DEF Key, Keys, Names
<1> QED
  BY <1>1, <1>2

\* A file passes or fails for what the answer to its name says (validateSinglePipeline).
LEMMA AnswerDecides ==
  ASSUME NEW kind \in Kinds, NEW commit \in Commits, NEW p \in Paths, NEW a,
         FileAt(commit, p) # Absent, Fits(kind, commit, Base[p], a)
  PROVE  /\ Accepts(a) => MayPass(commit, p)
         /\ ~Accepts(a) => MayFail(commit, p)
<1>1. PICK q \in Paths : /\ Base[q] = Base[p] /\ Repository[commit][q] \in Texts
                         /\ a = Fresh(kind, Repository[commit][q])
  BY Zenon DEF Fits
<1>2. q \in Namesakes(p)
  BY <1>1 DEF Namesakes
<1>3. Accepts(a) <=> Repository[commit][q] \in ValidTexts
  BY <1>1, AcceptsFresh
<1> QED
  BY <1>1, <1>2, <1>3 DEF MayPass, MayFail

\* What holds of a client stays so while others act.
LEMMA OthersKeep ==
  ASSUME NEW d \in Clients, ClientInv(d),
         pc'[d] = pc[d], cmd'[d] = cmd[d], text'[d] = text[d], answer'[d] = answer[d]
  PROVE  ClientInv(d)'
BY Zenon DEF ClientInv, TargetsLeft, TextIsRead, AnswerIsFresh, PassedSoFar, PrerunPassed, VerdictIsRight

\* The initial states satisfy the invariant.
LEMMA Initial == Init => IInv
<1> SUFFICES ASSUME Init PROVE IInv
  OBVIOUS
<1>1. TypeOK
  BY AdmissionAssumption DEF Init, TypeOK, Commands, Arguments, Kinds, Labels, Keys, Names
<1>2. CacheFits
  BY DEF Init, CacheFits, Keys, Names
<1>3. \A c \in Clients : ClientInv(c)
  <2> SUFFICES ASSUME NEW c \in Clients PROVE ClientInv(c)
    BY Zenon
  <2>1. pc[c] = "unreachable" /\ cmd[c].kind = "run"
    BY DEF Init
  <2> QED
    BY <2>1 DEF ClientInv, TargetsLeft, TextIsRead, AnswerIsFresh, PassedSoFar, PrerunPassed, VerdictIsRight,
                Serving, Named, Checks
<1> QED
  BY <1>1, <1>2, <1>3 DEF IInv

\* The file a named command deals with is one of its files, after those that passed.
LEMMA CurrentFile ==
  ASSUME IInv, NEW c \in Clients, pc[c] \in Serving \cup {"read"}, cmd[c].kind \in Named
  PROVE  LET targets == Targets(cmd[c].kind, cmd[c].arg)
             past == Len(targets) - Len(cmd[c].left) IN
         /\ past \in Nat /\ past + 1 \in DOMAIN targets
         /\ targets[past + 1] = Head(cmd[c].left)
         /\ \A i \in 1 .. past : MayPass(cmd[c].commit, targets[i])
<1> DEFINE targets == Targets(cmd[c].kind, cmd[c].arg)
           past == Len(targets) - Len(cmd[c].left)
<1>1. cmd[c].left \in Seq(Arguments) /\ targets \in Seq(Arguments) /\ cmd[c].left # <<>>
  BY TargetsAreFiles DEF IInv, TypeOK, Commands, ClientInv, TargetsLeft
<1>2. Len(cmd[c].left) \in Nat /\ Len(targets) \in Nat /\ Len(cmd[c].left) # 0
  <2> HIDE DEF targets
  <2> QED
    BY <1>1, EmptySeq, LenProperties
<1>3. PassedSoFar(c)
  BY DEF IInv, ClientInv
<1>4. /\ past \in Nat
      /\ \A i \in 1 .. past : MayPass(cmd[c].commit, targets[i])
      /\ \A i \in 1 .. Len(cmd[c].left) : cmd[c].left[i] = targets[past + i]
  BY Zenon, <1>3 DEF PassedSoFar
<1>5. past + 1 \in 1 .. Len(targets)
  <2>1. \A m, n \in Nat : n # 0 /\ m - n \in Nat => m - n + 1 \in 1 .. m
    OBVIOUS
  <2> QED
    BY Zenon, <1>2, <1>4, <2>1
<1>6. 1 \in 1 .. Len(cmd[c].left)
  BY <1>2
<1>7. Head(cmd[c].left) = cmd[c].left[1] /\ DOMAIN targets = 1 .. Len(targets)
  <2> HIDE DEF targets
  <2> QED
    BY <1>1
<1> QED
  BY Zenon, <1>4, <1>5, <1>6, <1>7

\* Dropping the first of the last elements leaves the last elements.
LEMMA TailIsSuffix ==
  ASSUME NEW S, NEW t \in Seq(S), NEW l \in Seq(S), NEW past \in Nat,
         past = Len(t) - Len(l), l # <<>>,
         \A i \in 1 .. Len(l) : l[i] = t[past + i]
  PROVE  /\ Len(t) - Len(Tail(l)) = past + 1
         /\ \A i \in 1 .. Len(Tail(l)) : Tail(l)[i] = t[(past + 1) + i]
         /\ ~(Len(l) > 1) => Len(t) = past + 1
<1>1. PICK m \in Nat : m = Len(t)
  BY LenProperties
<1>2. PICK n \in Nat : n = Len(l) /\ n # 0
  BY EmptySeq
<1>3. Len(Tail(l)) = n - 1 /\ \A i \in 1 .. n - 1 : Tail(l)[i] = l[i + 1]
  BY <1>2, HeadTailProperties
<1>4. \A i \in 1 .. n - 1 : i + 1 \in 1 .. n /\ past + (i + 1) = (past + 1) + i
  BY <1>2
<1>5. \A i \in 1 .. n - 1 : Tail(l)[i] = t[(past + 1) + i]
  BY <1>2, <1>3, <1>4
<1>6. m - (n - 1) = past + 1 /\ (~(n > 1) => m = past + 1)
  BY <1>1, <1>2
<1> QED
  BY <1>1, <1>2, <1>3, <1>5, <1>6

\* Actions of client c that leave the commit, the cache and the other clients alone.
Local(c) ==
  /\ head' = head /\ cache' = cache
  /\ \A d \in Clients \ {c} :
       pc'[d] = pc[d] /\ cmd'[d] = cmd[d] /\ text'[d] = text[d] /\ answer'[d] = answer[d]

\* For such an action only the types and the acting client are left to look at.
LEMMA LocalStep ==
  ASSUME IInv, NEW c \in Clients, Local(c), TypeOK', ClientInv(c)'
  PROVE  IInv'
<1>1. CacheFits'
  BY DEF IInv, CacheFits, Local
<1>2. \A d \in Clients : ClientInv(d)'
  BY OthersKeep DEF IInv, Local
<1> QED
  BY <1>1, <1>2 DEF IInv

\* A new command has all its files before it.
LEMMA BeginStep ==
  ASSUME IInv, NEW c \in Clients, NEW kind \in Kinds \ {"dryrun"}, NEW arg \in Arguments,
         NEW commit \in Commits, Begin(c, kind, arg, commit)
  PROVE  IInv'
<1>1. PICK targets \in Seq(Arguments) : targets = Targets(kind, arg) /\ targets # <<>>
  BY TargetsAreFiles
<1> DEFINE new == [kind |-> kind, arg |-> arg, first |-> commit, commit |-> commit, left |-> targets]
<1>2. new \in Commands
  BY DEF Commands
<1>3. cmd' = [cmd EXCEPT ![c] = new] /\ pc' = [pc EXCEPT ![c] = "read"]
  BY Zenon, <1>1 DEF Begin, Goto
<1>4. TypeOK'
  BY <1>2, <1>3, AdmissionAssumption DEF IInv, TypeOK, Begin, Labels
<1>5. pc'[c] = "read" /\ cmd'[c] = new
  BY <1>3 DEF IInv, TypeOK
<1>6. PassedSoFar(c)'
  <2>1. Len(targets) - Len(targets) = 0 /\ \A i \in 1 .. Len(targets) : targets[i] = targets[0 + i]
    OBVIOUS
  <2>2. 1 .. 0 = {} /\ 0 \in Nat
    OBVIOUS
  <2>3. /\ cmd'[c].kind = kind /\ cmd'[c].arg = arg /\ cmd'[c].left = targets /\ cmd'[c].commit = commit
    BY <1>5
  <2> QED
    BY Zenon, <1>1, <2>1, <2>2, <2>3 DEF PassedSoFar
<1>7. TargetsLeft(c)' /\ TextIsRead(c)' /\ AnswerIsFresh(c)' /\ PrerunPassed(c)' /\ VerdictIsRight(c)'
  BY <1>1, <1>5 DEF TargetsLeft, TextIsRead, AnswerIsFresh, PrerunPassed, VerdictIsRight, Serving
<1>8. Local(c)
  BY DEF IInv, TypeOK, Begin, Goto, Local
<1> QED
  BY <1>4, <1>6, <1>7, <1>8, LocalStep DEF ClientInv

\* After its prerun a dryrun has its one file before it.
LEMMA RunDryRunStep ==
  ASSUME IInv, NEW c \in Clients, RunDryRun(c)
  PROVE  IInv'
<1> DEFINE arg == cmd[c].arg
<1>1. /\ cmd[c] \in Commands /\ arg \in Arguments /\ pc[c] = "checked" /\ head \in Commits
      /\ AllMayPass(cmd[c].first, Targets("prerun", arg))
  BY DEF IInv, TypeOK, Commands, ClientInv, PrerunPassed, RunDryRun
<1>2. PICK one \in Seq(Arguments) : one = <<arg>> /\ one # <<>> /\ Len(one) = 1
  <2>1. \A a \in Arguments : <<a>> \in Seq(Arguments) /\ <<a>> # <<>> /\ Len(<<a>>) = 1
    OBVIOUS
  <2> QED
    BY Zenon, <1>1, <2>1
<1> DEFINE new == [cmd[c] EXCEPT !.kind = "dryrun", !.commit = head, !.left = one]
<1>3. cmd' = [cmd EXCEPT ![c] = new] /\ pc' = [pc EXCEPT ![c] = "read"]
  BY Zenon, <1>2 DEF RunDryRun, Goto
<1>4. /\ cmd' \in [Clients -> Commands] /\ cmd'[c].kind = "dryrun" /\ cmd'[c].commit = head /\ cmd'[c].left = one
      /\ cmd'[c].arg = arg /\ cmd'[c].first = cmd[c].first /\ pc'[c] = "read"
      /\ \A d \in Clients \ {c} : cmd'[d] = cmd[d]
  <2>1. new \in Commands
    BY Zenon, <1>1 DEF Commands, Kinds, Named
  <2>2. new.kind = "dryrun" /\ new.commit = head /\ new.left = one /\ new.arg = arg /\ new.first = cmd[c].first
    BY <1>1 DEF Commands
  <2> HIDE DEF new
  <2> QED
    BY <1>3, <2>1, <2>2 DEF IInv, TypeOK
<1>5. TypeOK'
  BY <1>4 DEF IInv, TypeOK, RunDryRun, Goto, Labels
<1>6. Local(c)
  BY <1>4 DEF IInv, TypeOK, RunDryRun, Goto, Local
<1>7. PassedSoFar(c)'
  <2>1. /\ Len(one) - Len(one) = 0 /\ \A i \in 1 .. Len(one) : one[i] = one[0 + i]
        /\ 1 .. 0 = {} /\ 0 \in Nat
    BY <1>2
  <2>2. Targets("dryrun", arg) = one
    BY <1>2 DEF Targets, Checks
  <2>3. \A i \in 1 .. 0 : MayPass(head, one[i])
    BY <2>1
  <2>4. Targets(cmd'[c].kind, cmd'[c].arg) = one
    BY Zenon, <1>4, <2>2
  <2> QED
    BY <1>4, <2>1, <2>3, <2>4 DEF PassedSoFar
<1>8. TargetsLeft(c)' /\ TextIsRead(c)' /\ AnswerIsFresh(c)' /\ PrerunPassed(c)' /\ VerdictIsRight(c)'
  BY <1>1, <1>2, <1>4 DEF TargetsLeft, TextIsRead, AnswerIsFresh, PrerunPassed, VerdictIsRight, Serving, Checks
<1> QED
  BY <1>5, <1>6, <1>7, <1>8, LocalStep DEF ClientInv

\* Reading a file: the content of the command's commit, or the end.
LEMMA ReadFileStep ==
  ASSUME IInv, NEW c \in Clients, ReadFile(c)
  PROVE  IInv'
<1>1. cmd[c] \in Commands /\ cmd[c].left # <<>>
  BY DEF IInv, TypeOK, ClientInv, TargetsLeft, ReadFile
<1>2. cmd[c].commit \in Commits /\ cmd[c].left \in Seq(Arguments) /\ Head(cmd[c].left) \in Arguments
  BY <1>1 DEF Commands
<1>3. FileAt(cmd[c].commit, Head(cmd[c].left)) \in Texts \cup {Absent}
  BY <1>2, AdmissionAssumption DEF FileAt, Arguments
<1>4. text' \in [Clients -> Texts \cup {Absent}]
  BY <1>3 DEF IInv, TypeOK, ReadFile
<1>5. /\ pc[c] = "read" /\ cmd' = cmd /\ answer' = answer
      /\ pc' = [pc EXCEPT ![c] = IF text'[c] = Absent THEN "error" ELSE "get"]
      /\ cmd[c].kind \in Named => text'[c] = FileAt(cmd[c].commit, Head(cmd[c].left))
  BY DEF IInv, TypeOK, ReadFile, Goto, Named, Checks
<1>6. TypeOK'
  BY <1>4, <1>5 DEF IInv, TypeOK, ReadFile, Labels
<1>7. Local(c)
  BY DEF IInv, TypeOK, ReadFile, Goto, Local
<1>8. TargetsLeft(c)' /\ TextIsRead(c)' /\ AnswerIsFresh(c)'
  BY <1>1, <1>4, <1>5 DEF IInv, TypeOK, TargetsLeft, TextIsRead, AnswerIsFresh, Serving
<1>9. PassedSoFar(c)' /\ PrerunPassed(c)'
  <2>1. pc'[c] \in {"error", "get"}
    BY <1>5 DEF IInv, TypeOK
  <2> QED
    BY Zenon, <1>5, <2>1 DEF IInv, TypeOK, ClientInv, PassedSoFar, PrerunPassed, Serving
<1>10. VerdictIsRight(c)'
  <2> DEFINE targets == Targets(cmd[c].kind, cmd[c].arg)
             past == Len(targets) - Len(cmd[c].left)
  <2> SUFFICES ASSUME cmd[c].kind \in Named, pc'[c] = "error"
               PROVE  SomeMayFail(cmd[c].commit, targets)
    BY <1>5 DEF IInv, TypeOK, VerdictIsRight
  <2>1. past + 1 \in DOMAIN targets /\ targets[past + 1] = Head(cmd[c].left)
    BY Zenon, <1>5, CurrentFile
  <2>2. text'[c] = Absent
    BY <1>5 DEF IInv, TypeOK
  <2>3. MayFail(cmd[c].commit, Head(cmd[c].left))
    BY Zenon, <1>5, <2>2 DEF MayFail
  <2> QED
    BY Zenon, <2>1, <2>3 DEF SomeMayFail
<1> QED
  BY <1>6, <1>7, <1>8, <1>9, <1>10, LocalStep DEF ClientInv

\* A named command whose request is served deals with a file of the repository,
\* whose content gets an answer that fits.
LEMMA FileInHand ==
  ASSUME IInv, NEW c \in Clients, pc[c] \in Serving, cmd[c].kind \in Named
  PROVE  /\ Head(cmd[c].left) \in Paths
         /\ FileAt(cmd[c].commit, Head(cmd[c].left)) # Absent
         /\ Fits(cmd[c].kind, cmd[c].commit, Base[Head(cmd[c].left)], Fresh(cmd[c].kind, text[c]))
<1>1. cmd[c] \in Commands /\ cmd[c].left # <<>>
  BY DEF IInv, TypeOK, ClientInv, TargetsLeft
<1>2. cmd[c].commit \in Commits /\ Head(cmd[c].left) \in Arguments
  BY <1>1 DEF Commands
<1>3. text[c] \in Texts /\ text[c] = FileAt(cmd[c].commit, Head(cmd[c].left))
  BY DEF IInv, ClientInv, TextIsRead
<1>4. /\ Head(cmd[c].left) \in Paths /\ text[c] = Repository[cmd[c].commit][Head(cmd[c].left)]
      /\ FileAt(cmd[c].commit, Head(cmd[c].left)) # Absent
  BY <1>2, <1>3, ReadableIsFile
<1> QED
  BY Zenon, <1>3, <1>4 DEF Fits

\* A function that returns without a verdict leaves nothing to check.
LEMMA UnreachableStep ==
  ASSUME IInv, NEW c \in Clients, ForwardFails(c) \/ AnswerLost(c)
  PROVE  IInv'
<1>1. /\ Return(c, "unreachable") /\ cmd' = cmd /\ head' = head /\ cache' = cache
      /\ commands' = commands /\ faults < MaxFaults /\ faults' = faults + 1
  BY DEF ForwardFails, AnswerLost, Spend
<1>2. TypeOK'
  BY <1>1, AdmissionAssumption DEF IInv, TypeOK, Return, Goto, Labels
<1>3. Local(c)
  BY <1>1 DEF IInv, TypeOK, Return, Goto, Local
<1>4. pc'[c] = "unreachable"
  BY <1>1 DEF IInv, TypeOK, Return, Goto
<1>5. ClientInv(c)'
  BY Zenon, <1>1, <1>4 DEF IInv, ClientInv, TargetsLeft, TextIsRead, AnswerIsFresh, PassedSoFar, PrerunPassed,
                           VerdictIsRight, Serving
<1> QED
  BY <1>2, <1>3, <1>5, LocalStep

\* A hit answers with what the file gets; a miss and a failure answer nothing yet.
LEMMA GetStep ==
  ASSUME IInv, NEW c \in Clients, Get(c)
  PROVE  IInv'
<1> DEFINE hit == cache[Key(cmd[c])]
<1>1. /\ pc[c] = "get" /\ cmd' = cmd /\ text' = text /\ head' = head /\ cache' = cache
      /\ commands' = commands /\ faults' \in {faults, faults + 1} /\ faults' \in 0 .. MaxFaults
      /\ \/ hit # Miss /\ answer' = [answer EXCEPT ![c] = hit] /\ pc' = [pc EXCEPT ![c] = "answered"]
         \/ answer' = answer /\ pc' = [pc EXCEPT ![c] = "compute"]
  BY AdmissionAssumption DEF Get, Spend, Goto, IInv, TypeOK
<1>2. cmd[c] \in Commands /\ cmd[c].kind \in Kinds /\ cmd[c].commit \in Commits /\ cmd[c].left # <<>>
  BY <1>1 DEF IInv, TypeOK, Commands, ClientInv, TargetsLeft, Serving
<1>3. cmd[c].kind \in Named => Head(cmd[c].left) \in Paths
  BY <1>1, FileInHand DEF Serving
<1>4. Key(cmd[c]) \in Keys /\ hit \in Answers \cup {Miss}
  BY <1>2, <1>3, KeyIsKey DEF IInv, TypeOK
<1>5. (cmd[c].kind \in Named /\ hit # Miss) =>
        Fits(cmd[c].kind, cmd[c].commit, Base[Head(cmd[c].left)], hit)
  <2> SUFFICES ASSUME cmd[c].kind \in Named, hit # Miss
               PROVE  Fits(cmd[c].kind, cmd[c].commit, Base[Head(cmd[c].left)], hit)
    OBVIOUS
  <2>1. /\ Namespace(cmd[c]) \in {"validate", "dryrun"}
        /\ Key(cmd[c]) = <<Namespace(cmd[c]), <<cmd[c].commit, Base[Head(cmd[c].left)]>>>>
    BY <1>2, <1>3, KeyIsKey
  <2>2. Fits(Namespace(cmd[c]), cmd[c].commit, Base[Head(cmd[c].left)], hit)
    BY Zenon, <1>2, <1>3, <2>1 DEF IInv, CacheFits
  <2> QED
    BY Zenon, <1>2, <2>2, FreshOfNamespace DEF Fits
<1>6. TypeOK'
  BY <1>1, <1>4 DEF IInv, TypeOK, Labels
<1>7. Local(c)
  BY <1>1 DEF IInv, TypeOK, Local
<1>8. pc'[c] \in {"answered", "compute"} /\ (pc'[c] = "answered" => hit # Miss /\ answer'[c] = hit)
  BY <1>1 DEF IInv, TypeOK
<1>9. TargetsLeft(c)' /\ TextIsRead(c)' /\ AnswerIsFresh(c)'
  BY <1>1, <1>2, <1>5, <1>8 DEF IInv, ClientInv, TargetsLeft, TextIsRead, AnswerIsFresh, Serving
<1>10. PassedSoFar(c)' /\ PrerunPassed(c)' /\ VerdictIsRight(c)'
  BY Zenon, <1>1, <1>8 DEF IInv, ClientInv, PassedSoFar, PrerunPassed, VerdictIsRight, Serving
<1> QED
  BY <1>6, <1>7, <1>9, <1>10, LocalStep DEF ClientInv

\* The checks answer from the content; a dry run that fails skips the cache.
LEMMA ComputeStep ==
  ASSUME IInv, NEW c \in Clients, Compute(c)
  PROVE  IInv'
<1>1. cmd[c] \in Commands /\ cmd[c].kind \in Kinds /\ cmd[c].left # <<>> /\ text[c] \in Texts
  BY DEF IInv, TypeOK, Commands, ClientInv, TargetsLeft, TextIsRead, Serving, Compute
<1> DEFINE fresh == Fresh(cmd[c].kind, text[c])
<1>2. fresh \in Answers
  BY <1>1, FreshIsAnswer
<1>3. TypeOK'
  BY <1>2 DEF IInv, TypeOK, Compute, Goto, Labels
<1>4. Local(c)
  BY DEF IInv, TypeOK, Compute, Goto, Local
<1>5. /\ pc[c] = "compute" /\ cmd' = cmd /\ text' = text /\ answer'[c] = fresh
      /\ pc'[c] = IF cmd[c].kind = "dryrun" /\ text[c] \notin ValidTexts THEN "answered" ELSE "set"
  BY DEF IInv, TypeOK, Compute, Goto
<1>6. TargetsLeft(c)' /\ TextIsRead(c)' /\ AnswerIsFresh(c)'
  <2>1. cmd[c].kind \in Named => Fits(cmd[c].kind, cmd[c].commit, Base[Head(cmd[c].left)], fresh)
    BY <1>5, FileInHand DEF Serving
  <2> QED
    BY <1>1, <1>5, <2>1 DEF IInv, ClientInv, TargetsLeft, TextIsRead, AnswerIsFresh, Serving
<1>7. PassedSoFar(c)' /\ PrerunPassed(c)' /\ VerdictIsRight(c)'
  <2>1. pc'[c] \in {"answered", "set"}
    BY <1>5
  <2> QED
    BY Zenon, <1>5, <2>1 DEF IInv, ClientInv, PassedSoFar, PrerunPassed, VerdictIsRight, Serving
<1> QED
  BY <1>3, <1>4, <1>6, <1>7, LocalStep DEF ClientInv

\* The cache gets the answer of a file under the name of that file.
LEMMA SetStep ==
  ASSUME IInv, NEW c \in Clients, Set(c)
  PROVE  IInv'
<1> DEFINE written == [cache EXCEPT ![Key(cmd[c])] = answer[c]]
<1>1. /\ pc[c] = "set" /\ cmd' = cmd /\ text' = text /\ answer' = answer /\ head' = head
      /\ commands' = commands /\ faults' \in 0 .. MaxFaults
      /\ pc' = [pc EXCEPT ![c] = "answered"] /\ cache' \in {cache, written}
  BY AdmissionAssumption DEF Set, Spend, Goto, IInv, TypeOK
<1>2. cmd[c] \in Commands /\ cmd[c].kind \in Kinds /\ cmd[c].left # <<>>
  BY <1>1 DEF IInv, TypeOK, Commands, ClientInv, TargetsLeft, Serving
<1>3. /\ text[c] \in Texts /\ answer[c] = Fresh(cmd[c].kind, text[c])
      /\ cmd[c].kind = "dryrun" => text[c] \in ValidTexts
      /\ cmd[c].kind \in Named => /\ Head(cmd[c].left) \in Paths
                                  /\ Fits(cmd[c].kind, cmd[c].commit, Base[Head(cmd[c].left)], answer[c])
  BY <1>1, FileInHand DEF IInv, ClientInv, TextIsRead, AnswerIsFresh, Serving
<1>4. /\ Key(cmd[c]) \in Keys /\ answer[c] \in Answers
      /\ written \in [Keys -> Answers \cup {Miss}]
  BY <1>2, <1>3, KeyIsKey, FreshIsAnswer DEF IInv, TypeOK
<1>5. \A n \in Names : written[<<"dryrun", n>>] \in Plans \cup {Miss}
  <2> SUFFICES ASSUME NEW n \in Names PROVE written[<<"dryrun", n>>] \in Plans \cup {Miss}
    BY Zenon
  <2>1. <<"dryrun", n>> \in Keys
    BY DEF Keys
  <2>2. CASE Key(cmd[c]) = <<"dryrun", n>>
    <3>1. cmd[c].kind = "dryrun"
      BY <2>2, <1>2, <1>3, KeyIsKey DEF Namespace
    <3>2. answer[c] \in Plans
      BY <3>1, <1>3 DEF Fresh, Plans
    <3> QED
      BY <3>2, <2>1, <2>2, <1>4 DEF IInv, TypeOK
  <2>3. CASE Key(cmd[c]) # <<"dryrun", n>>
    BY <2>1, <2>3, <1>4 DEF IInv, TypeOK
  <2> QED
    BY <2>2, <2>3
<1>6. TypeOK'
  BY Zenon, <1>1, <1>4, <1>5 DEF IInv, TypeOK, Labels
<1>7. CacheFits'
  <2> SUFFICES ASSUME NEW space \in {"validate", "dryrun"}, NEW commit \in Commits, NEW p \in Paths
               PROVE  LET a == written[<<space, <<commit, Base[p]>>>>] IN
                      a = Miss \/ Fits(space, commit, Base[p], a)
    BY Zenon, <1>1 DEF IInv, CacheFits
  <2> DEFINE key == <<space, <<commit, Base[p]>>>>
  <2>1. key \in Keys
    BY DEF Keys, Names
  <2>2. CASE Key(cmd[c]) = key
    <3>1. cmd[c].kind \in Named
      <4>1. <<space, <<commit, Base[p]>>>> # <<"validate", <<>>>>
        OBVIOUS
      <4> QED
        BY Zenon, <4>1, <2>2, <1>2, <1>3, KeyIsKey
    <3>2. space = Namespace(cmd[c]) /\ commit = cmd[c].commit /\ Base[p] = Base[Head(cmd[c].left)]
      BY <2>2, <3>1, <1>2, <1>3, KeyIsKey
    <3>3. Fits(space, commit, Base[p], answer[c])
      BY Zenon, <3>1, <3>2, <1>2, <1>3, FreshOfNamespace DEF Fits
    <3>4. written[key] = answer[c]
      BY <2>1, <2>2, <1>4 DEF IInv, TypeOK
    <3> QED
      BY Zenon, <3>3, <3>4
  <2>3. CASE Key(cmd[c]) # key
    <3>1. written[key] = cache[key]
      BY <2>1, <2>3, <1>4 DEF IInv, TypeOK
    <3> QED
      BY Zenon, <3>1 DEF IInv, CacheFits
  <2> QED
    BY <2>2, <2>3
<1>8. ClientInv(c)'
  BY Zenon, <1>1, <1>3 DEF IInv, TypeOK, ClientInv, TargetsLeft, TextIsRead, AnswerIsFresh, PassedSoFar,
                           PrerunPassed, VerdictIsRight, Serving
<1>9. \A d \in Clients \ {c} : ClientInv(d)'
  BY <1>1, OthersKeep DEF IInv, TypeOK
<1> QED
  BY <1>6, <1>7, <1>8, <1>9 DEF IInv

\* The next file of a directory is read at the same commit; the last one, or the
\* first that is refused, settles the command.
LEMMA ShowStep ==
  ASSUME IInv, NEW c \in Clients, Show(c)
  PROVE  IInv'
<1> DEFINE left == cmd[c].left
           kind == cmd[c].kind
           commit == cmd[c].commit
           targets == Targets(kind, cmd[c].arg)
           past == Len(targets) - Len(left)
<1>1. pc[c] = "answered" /\ kind \in Named /\ head' = head /\ cache' = cache /\ commands' = commands /\ faults' = faults
  BY DEF Show
<1>2. /\ cmd[c] \in Commands /\ left \in Seq(Arguments) /\ left # <<>> /\ targets \in Seq(Arguments)
      /\ commit \in Commits /\ kind \in Kinds
  BY <1>1, TargetsAreFiles DEF IInv, TypeOK, Commands, ClientInv, TargetsLeft, Serving
<1>3. (Accepts(answer[c]) => MayPass(commit, Head(left))) /\ (~Accepts(answer[c]) => MayFail(commit, Head(left)))
  <2>1. Head(left) \in Paths /\ FileAt(commit, Head(left)) # Absent
    BY <1>1, FileInHand DEF Serving
  <2>2. Fits(kind, commit, Base[Head(left)], answer[c])
    BY <1>1 DEF IInv, ClientInv, AnswerIsFresh
  <2> QED
    BY <1>2, <2>1, <2>2, AnswerDecides
<1>4. /\ past \in Nat /\ past + 1 \in DOMAIN targets /\ targets[past + 1] = Head(left)
      /\ \A i \in 1 .. past : MayPass(commit, targets[i])
  BY Zenon, <1>1, CurrentFile DEF Serving
<1>5. \A i \in 1 .. Len(left) : left[i] = targets[past + i]
  BY Zenon, <1>1 DEF IInv, ClientInv, PassedSoFar, Serving
<1>6. past = Len(targets) - Len(left)
  OBVIOUS
<1>7. PrerunPassed(c)
  BY DEF IInv, ClientInv
<1>8. CASE ~Accepts(answer[c])
  <2>1. cmd' = cmd /\ Return(c, "error")
    BY <1>8 DEF Show
  <2>2. TypeOK'
    BY <1>1, <2>1 DEF IInv, TypeOK, Return, Goto, Labels
  <2>3. Local(c)
    BY <1>1, <2>1 DEF IInv, TypeOK, Return, Goto, Local
  <2>4. pc'[c] = "error"
    BY <2>1 DEF IInv, TypeOK, Return, Goto
  <2>5. SomeMayFail(commit, targets)
    BY Zenon, <1>3, <1>4, <1>8 DEF SomeMayFail
  <2>6. ClientInv(c)'
    BY Zenon, <1>7, <2>1, <2>4, <2>5 DEF ClientInv, TargetsLeft, TextIsRead, AnswerIsFresh, PassedSoFar, PrerunPassed,
                                        VerdictIsRight, Serving
  <2> QED
    BY <2>2, <2>3, <2>6, LocalStep
<1>9. CASE Accepts(answer[c])
  <2> DEFINE label == AfterAccept(cmd[c])
  <2>1. cmd' = [cmd EXCEPT ![c].left = Tail(left)] /\ Return(c, label)
    BY <1>9 DEF Show
  <2>2. Tail(left) \in Seq(Arguments)
    BY <1>2
  <2>3. /\ cmd' \in [Clients -> Commands] /\ cmd'[c].left = Tail(left) /\ cmd'[c].kind = kind
        /\ cmd'[c].arg = cmd[c].arg /\ cmd'[c].commit = commit /\ cmd'[c].first = cmd[c].first
        /\ \A d \in Clients \ {c} : cmd'[d] = cmd[d]
    <3>1. cmd' = [cmd EXCEPT ![c] = [cmd[c] EXCEPT !.left = Tail(left)]]
      BY <2>1
    <3> QED
      BY Zenon, <1>2, <2>2, <3>1 DEF IInv, TypeOK, Commands
  <2>4. label \in {"read", "checked", "ok"}
    BY DEF AfterAccept
  <2>5. TypeOK'
    BY <1>1, <2>1, <2>3, <2>4 DEF IInv, TypeOK, Return, Goto, Labels
  <2>6. Local(c)
    BY <1>1, <2>1, <2>3 DEF IInv, TypeOK, Return, Goto, Local
  <2>7. pc'[c] = label
    BY <2>1 DEF IInv, TypeOK, Return, Goto
  <2>8. \A n \in Nat : \A i \in 1 .. n + 1 : i \in 1 .. n \/ i = n + 1
    OBVIOUS
  <2>9. \A i \in 1 .. past + 1 : MayPass(commit, targets[i])
    BY Zenon, <2>8, <1>3, <1>4, <1>9
  <2>10. CASE Len(left) > 1
    <3>1. label = "read"
      BY <2>10 DEF AfterAccept
    <3>2. /\ Len(targets) - Len(Tail(left)) = past + 1 /\ Tail(left) # <<>>
          /\ \A i \in 1 .. Len(Tail(left)) : Tail(left)[i] = targets[(past + 1) + i]
      <4>1. Len(left) > 1 /\ Len(Tail(left)) = Len(left) - 1 /\ Len(left) \in Nat
        BY <1>2, <2>10, HeadTailProperties, LenProperties
      <4> HIDE DEF left, targets, past
      <4>2. Len(targets) - Len(Tail(left)) = past + 1
        BY <1>2, <1>4, <1>5, <1>6, TailIsSuffix
      <4>3. Tail(left) # <<>>
        <5>1. Len(<<>>) = 0 /\ (\A n \in Nat : n > 1 => n - 1 # 0)
          OBVIOUS
        <5>2. Len(Tail(left)) # 0
          BY <4>1, <5>1
        <5> QED
          BY Zenon, <5>1, <5>2
      <4>4. ASSUME NEW i \in 1 .. Len(Tail(left)) PROVE Tail(left)[i] = targets[(past + 1) + i]
        BY <1>2, <1>4, <1>5, <1>6, TailIsSuffix, SMTT(30)
      <4> QED
        BY <4>2, <4>3, <4>4
    <3>3. past + 1 \in Nat
      BY <1>4
    <3>4. PassedSoFar(c)'
      BY Zenon, <2>3, <2>9, <3>2, <3>3 DEF PassedSoFar
    <3>5. ClientInv(c)'
      BY Zenon, <1>7, <2>3, <2>7, <3>1, <3>2, <3>4 DEF ClientInv, TargetsLeft, TextIsRead, AnswerIsFresh, PrerunPassed,
                                                      VerdictIsRight, Serving
    <3> QED
      BY <2>5, <2>6, <3>5, LocalStep
  <2>11. CASE ~(Len(left) > 1)
    <3>1. label \in {"checked", "ok"} /\ (label = "checked" <=> kind = "prerun")
      BY <2>11 DEF AfterAccept
    <3>2. AllMayPass(commit, targets)
      <4>1. Len(targets) = past + 1
        <5> HIDE DEF left, targets, past
        <5> QED
          BY <1>2, <1>4, <1>5, <1>6, <2>11, TailIsSuffix
      <4>2. DOMAIN targets = 1 .. past + 1
        <5> HIDE DEF targets, past
        <5> QED
          BY <1>2, <4>1, LenProperties
      <4> QED
        BY Zenon, <2>9, <4>2 DEF AllMayPass
    <3>3. AllMayPass(cmd[c].first, Targets("prerun", cmd[c].arg))
      <4>1. CASE kind = "dryrun"
        BY <1>7, <4>1 DEF PrerunPassed
      <4>2. CASE kind # "dryrun"
        <5>1. kind \in Checks /\ cmd[c].first = commit
          BY <1>1, <1>7, <4>2 DEF PrerunPassed, Named
        <5>2. Targets("prerun", cmd[c].arg) = targets
          BY <5>1 DEF Targets, Checks
        <5> QED
          BY Zenon, <3>2, <5>1, <5>2
      <4> QED
        BY <4>1, <4>2
    <3>4. ClientInv(c)'
      BY Zenon, <1>7, <2>3, <2>7, <3>1, <3>2, <3>3 DEF ClientInv, TargetsLeft, TextIsRead, AnswerIsFresh, PassedSoFar,
                                                      PrerunPassed, VerdictIsRight, Serving
    <3> QED
      BY <2>5, <2>6, <3>4, LocalStep
  <2> QED
    BY <2>10, <2>11
<1> QED
  BY <1>8, <1>9

\* The orchestrator's part concerns no named command.
LEMMA RunStep ==
  ASSUME IInv, NEW c \in Clients, PrepareRun(c) \/ ShowRun(c)
  PROVE  IInv'
<1>1. /\ cmd[c].kind \notin Named /\ cmd' = cmd /\ head' = head /\ cache' = cache
      /\ commands' = commands /\ faults' = faults
      /\ \/ Goto(c, "admitted") /\ text' = text /\ answer' = answer
         \/ Return(c, "error")
         \/ Return(c, "ok")
  BY DEF PrepareRun, ShowRun, IInv, ClientInv, TargetsLeft
<1>2. TypeOK'
  BY <1>1 DEF IInv, TypeOK, Return, Goto, Labels
<1>3. Local(c)
  BY <1>1 DEF IInv, TypeOK, Return, Goto, Local
<1>4. pc'[c] \in {"admitted", "ok", "error"}
  BY <1>1 DEF IInv, TypeOK, Return, Goto
<1>5. ClientInv(c)'
  BY Zenon, <1>1, <1>4 DEF IInv, ClientInv, TargetsLeft, TextIsRead, AnswerIsFresh, PassedSoFar, PrerunPassed,
                           VerdictIsRight, Serving, Named
<1> QED
  BY <1>2, <1>3, <1>5, LocalStep

\* Losing entries and committing change no client and add nothing to the cache.
LEMMA SurroundingsStep ==
  ASSUME IInv, (\E k \in Keys : Expire(k)) \/ Commit
  PROVE  IInv'
<1>1. /\ pc' = pc /\ cmd' = cmd /\ text' = text /\ answer' = answer
      /\ commands' = commands /\ faults' = faults
  BY DEF Expire, Commit
<1>2. \A c \in Clients : ClientInv(c)'
  BY <1>1, OthersKeep DEF IInv
<1>3. head' \in Commits
  BY AdmissionAssumption DEF IInv, TypeOK, Expire, Commit
<1>4. \A k \in Keys : cache'[k] \in {cache[k], Miss}
  BY DEF IInv, TypeOK, Expire, Commit
<1>5. cache' \in [Keys -> Answers \cup {Miss}]
  BY DEF IInv, TypeOK, Expire, Commit
<1>6. \A n \in Names : cache'[<<"dryrun", n>>] \in Plans \cup {Miss}
  BY Zenon, <1>4 DEF IInv, TypeOK, Keys
<1>7. TypeOK'
  BY <1>1, <1>3, <1>5, <1>6 DEF IInv, TypeOK
<1>8. CacheFits'
  <2> SUFFICES ASSUME NEW space \in {"validate", "dryrun"}, NEW commit \in Commits, NEW p \in Paths
               PROVE  LET a == cache'[<<space, <<commit, Base[p]>>>>] IN
                      a = Miss \/ Fits(space, commit, Base[p], a)
    BY Zenon DEF CacheFits
  <2>1. <<space, <<commit, Base[p]>>>> \in Keys
    BY DEF Keys, Names
  <2> QED
    BY Zenon, <2>1, <1>4 DEF IInv, CacheFits
<1> QED
  BY <1>2, <1>7, <1>8 DEF IInv

\* Every step preserves the inductive invariant.
LEMMA Inductive == IInv /\ [Next]_vars => IInv'
<1> SUFFICES ASSUME IInv, [Next]_vars PROVE IInv'
  OBVIOUS
<1>1. ASSUME NEW c \in Clients, ClientStep(c) PROVE IInv'
  <2>1. CASE RunValidate(c) \/ RunValidateQuiet(c) \/ RunLocal(c) \/ RunRemote(c)
    <3>1. head \in Commits /\ 1 .. head \subseteq Commits /\ Root \in Arguments
      BY AdmissionAssumption DEF IInv, TypeOK, Arguments
    <3>2. {"validate", "prerun", "run", "remote"} \subseteq Kinds \ {"dryrun"}
      BY DEF Kinds, Named, Checks
    <3>3. PICK kind \in Kinds \ {"dryrun"}, arg \in Arguments, commit \in Commits : Begin(c, kind, arg, commit)
      BY Zenon, <2>1, <3>1, <3>2 DEF RunValidate, RunValidateQuiet, RunLocal, RunRemote
    <3> QED
      BY <3>3, BeginStep
  <2>9. CASE RunDryRun(c)
    BY <2>9, RunDryRunStep
  <2>2. CASE ReadFile(c)
    BY <2>2, ReadFileStep
  <2>3. CASE ForwardFails(c) \/ AnswerLost(c)
    BY <2>3, UnreachableStep
  <2>4. CASE Get(c)
    BY <2>4, GetStep
  <2>5. CASE Compute(c)
    BY <2>5, ComputeStep
  <2>6. CASE Set(c)
    BY <2>6, SetStep
  <2>7. CASE Show(c)
    BY <2>7, ShowStep
  <2>8. CASE PrepareRun(c) \/ ShowRun(c)
    BY <2>8, RunStep
  <2> QED
    BY <1>1, <2>1, <2>2, <2>3, <2>4, <2>5, <2>6, <2>7, <2>8, <2>9 DEF ClientStep
<1>2. CASE (\E k \in Keys : Expire(k)) \/ Commit
  BY <1>2, SurroundingsStep
<1>3. CASE UNCHANGED vars
  <2>1. /\ head' = head /\ cache' = cache /\ pc' = pc /\ cmd' = cmd /\ text' = text
        /\ answer' = answer /\ commands' = commands /\ faults' = faults
    BY <1>3 DEF vars
  <2>2. TypeOK' /\ CacheFits'
    BY <2>1 DEF IInv, TypeOK, CacheFits
  <2>3. \A c \in Clients : ClientInv(c)'
    BY <2>1, OthersKeep DEF IInv
  <2> QED
    BY <2>2, <2>3 DEF IInv
<1> QED
  BY <1>1, <1>2, <1>3 DEF Next

\* The inductive invariant holds throughout.
LEMMA Invariance == Spec => []IInv
BY Initial, Inductive, PTL DEF Spec

\* Every variable of the commands, the validation service and its cache keeps its
\* type; a dry run that failed is never in the cache.
THEOREM TypeCorrect == Spec => []TypeOK
<1>1. IInv => TypeOK
  BY DEF IInv
<1> QED
  BY <1>1, Invariance, PTL

\* A request that names commit and path gets what the validation service would
\* compute for a file of that base name at that commit (ValidateYAML, DryRunYAML),
\* for any repository and any use of the cache.
THEOREM CachedAnswersFit == Spec => []AnswersFit
<1>1. IInv => AnswersFit
  <2> SUFFICES ASSUME IInv, NEW c \in Clients, pc[c] = "answered", cmd[c].kind \in Named
               PROVE  \E q \in Namesakes(Head(cmd[c].left)) :
                        LET t == Repository[cmd[c].commit][q] IN
                        t # Absent /\ answer[c] = Fresh(cmd[c].kind, t)
    BY Zenon DEF AnswersFit
  <2>1. Fits(cmd[c].kind, cmd[c].commit, Base[Head(cmd[c].left)], answer[c])
    BY DEF IInv, ClientInv, AnswerIsFresh
  <2>2. Absent \notin Texts
    BY AdmissionAssumption
  <2> QED
    BY Zenon, <2>1, <2>2 DEF Fits, Namesakes
<1> QED
  BY <1>1, Invariance, PTL

\* validate judges its files at one commit and dryrun at two (runValidate,
\* validatePipelineDir, runValidateQuiet, runDryRun), whatever Redis does: neither
\* succeeds without a valid file, or fails without an invalid or missing one, behind
\* some base name it sent.
THEOREM CliVerdictsAreRight == Spec => []VerdictsAreRight
<1>1. IInv => VerdictsAreRight
  BY Zenon DEF IInv, ClientInv, VerdictsAreRight
<1> QED
  BY <1>1, Invariance, PTL
====
