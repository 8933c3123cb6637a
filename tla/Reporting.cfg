SPECIFICATION ReportingSpec
CONSTANTS
  j1 = j1
  j2 = j2
  j3 = j3
  j4 = j4
  w1 = w1
  w2 = w2
  h1 = h1
  h2 = h2
  NoWorker = NoWorker
  Jobs <- ReportJobs
  NumStages = 2
  StageOf <- ReportStageOf
  Needs <- ReportNeeds
  AllowFailures = {j2}
  Workers = {w1, w2}
  Handlers = {h1, h2}
  FaultKinds = {}
  MaxFaults = 0
  Queries <- SomeQueries
  NoFilter = NoFilter
SYMMETRY Alike
INVARIANTS
  ReportTypeOK
  SuccessfulRunShowsEndedStages
  SuccessShowsItsJobs
