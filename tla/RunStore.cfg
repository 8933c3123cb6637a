SPECIFICATION Spec
CONSTANTS
  c1 = c1
  c2 = c2
  c3 = c3
  p1 = p1
  k1 = k1
  NoKey = NoKey
  Nobody = Nobody
  Clients = {c1, c2, c3}
  Pipelines = {p1}
  Keys = {k1, NoKey}
  MaxRequests = 4
  MaxFaults = 1
INVARIANTS
  TypeOK
  AtMostOneActive
  NumbersAreDense
PROPERTIES
  RequestsAreAnswered
