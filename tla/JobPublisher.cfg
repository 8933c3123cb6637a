SPECIFICATION PublisherSpec
CONSTANTS
  c1 = c1
  c2 = c2
  Callers <- TwoCallers
  MaxGen = 1
  MaxPublishAttempts = 2
  Clients = 1
  MaxTries = 2
  MaxFaults <- SomeFaults
INVARIANTS
  PublisherTypeOK
  RefsCountHolders
  NoUseAfterClose
  NilMeansTaken
  CopiesAreBounded
  CopiesNeedFaults
PROPERTIES
  CurrentOnlyAdvances
  OnlyLostSetsAreReplaced
  RetiredSetsGetClosed
  CallsReturn
  ImplementsManager
