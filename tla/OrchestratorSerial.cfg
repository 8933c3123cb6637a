SPECIFICATION Spec
CONSTANTS
  j1 = j1
  j2 = j2
  j3 = j3
  j4 = j4
  j5 = j5
  w1 = w1
  w2 = w2
  h1 = h1
  h2 = h2
  NoWorker = NoWorker
  Jobs <- LadderJobs
  NumStages = 2
  StageOf <- LadderStageOf
  Needs <- LadderNeeds
  AllowFailures = {j2}
  Workers = {w1}
  Handlers = {h1}
  FaultKinds = {"redeliver", "db"}
  MaxFaults = 3
INVARIANTS
  TypeOK
  NeedsBeforeRelease
PROPERTIES
  KeepsPromise
  DispatchedRunTerminates
