SPECIFICATION Spec
CONSTANTS
  c1 = c1
  c2 = c2
  c3 = c3
  p1 = p1
  k1 = k1
  NoKey = NoKey
  Nobody = Nobody
  Clients = {c1, c2}
  Pipelines = {p1}
  Keys = {k1}
  MaxRequests = 2
  MaxFaults = 0
INVARIANT
  DuplicateGetsOriginal
