CONSTANTS
  m1 = m1  m2 = m2  c1 = c1
  Jobs <- TwoJobs
  Consumers <- OneConsumer
  NoJob = NoJob
  MaxFaults <- OneLoss
SPECIFICATION Spec
INVARIANT ConsumesUntilCancelled
CHECK_DEADLOCK FALSE
