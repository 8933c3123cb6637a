SPECIFICATION Spec
CONSTANTS
  j1 = j1
  j2 = j2
  j3 = j3
  j4 = j4
  j5 = j5
  w1 = w1
  w2 = w2
  h1 = h1
  h2 = h2
  NoWorker = NoWorker
  Jobs <- GapsJobs
  NumStages = 4
  StageOf <- GapsStageOf
  Needs <- GapsNeeds
  AllowFailures = {}
  Workers = {w1}
  Handlers = {h1, h2}
  FaultKinds = {"db", "publish", "redeliver", "timeout", "stop", "crash"}
  MaxFaults = 2
SYMMETRY Alike
INVARIANTS
  StagesInOrder
  SuccessCoversJobs
