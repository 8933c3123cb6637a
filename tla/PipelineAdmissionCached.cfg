SPECIFICATION Spec
CONSTANTS
  pathA = pathA
  pathB = pathB
  pathNested = pathNested
  Root = Root
  textOne = textOne
  textTwo = textTwo
  textCyclic = textCyclic
  textBroken = textBroken
  baseA = baseA
  baseB = baseB
  firstClient = firstClient
  secondClient = secondClient
  Clients = {firstClient, secondClient}
  Paths = {pathA, pathB, pathNested}
  Texts = {textOne, textTwo, textCyclic, textBroken}
  ValidTexts = {textOne, textTwo}
  BrokenTexts = {textBroken}
  Absent = Absent
  Miss = Miss
  MaxCommit = 2
  Repository <- MCRepository
  Base <- MCBase
  Directory <- MCDirectory
  FaultKinds = {"redis", "gateway", "answer"}
  MaxFaults = 0
  MaxCommands = 2
INVARIANTS
  OnlyValidPipelinesRun
CHECK_DEADLOCK FALSE
