CONSTANTS
  m1 = m1  m2 = m2  c1 = c1  c2 = c2
  Jobs <- TwoJobs
  Consumers <- TwoConsumers
  NoJob = NoJob
  SourceOf <- Sources
  MaxFaults <- Bounds
SPECIFICATION WorkerSpec
INVARIANTS WorkerTypeOK NoJobIsLost AckedWereReported InterruptedIsNotReported NothingLeftBehind SuccessWasRun DockerStaysOpen
PROPERTY EveryJobIsDone
CHECK_DEADLOCK FALSE
