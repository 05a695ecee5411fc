\* Two handlers at a time, two requests of one operation, one of them expecting a lease
\* that Init chooses, and a request of another operation.
SPECIFICATION Spec
CONSTANTS
  a = a
  b = b
  t = t
  op = op
  other = other
  Handlers = {h1, h2}
  Requests = {a, b, t}
  Takeovers = {t}
  OperationOf <- OneTakeover
  TTL = 1
  MaxTime = 1
  MaxLeases = 3
  MaxFaults = 1
SYMMETRY SameHandlers
INVARIANTS
  TypeOK
  LiveMutationIsCovered
PROPERTIES
  LeaseOutlivesFailure
  LeaseChangesHands
\* The clock and the leases are bounded.
CHECK_DEADLOCK FALSE
