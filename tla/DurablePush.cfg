\* Two drains, an alert for one device and its dismissal for two.
SPECIFICATION Spec
CONSTANTS
  a = a
  x = x
  d1 = d1
  d2 = d2
  Alerts = {a}
  Dismissals = {x}
  Id <- DismissalFirst
  Cancels <- DismissesA
  Devices = {d1, d2}
  Rows <- TwoDevices
  Drains = {w1, w2}
  Attempts = 2
  Lease = 1
  TTL = 2
  MaxWait = 1
  MaxDelay = 1
  MaxTime = 2
  MaxLeases = 2
SYMMETRY SameDrains
INVARIANTS
  TypeOK
  OneInFlight
  DismissalIsLast
PROPERTIES
  NoOvertaking
  LiveLeaseUndisturbed
\* The clock, the leases and the events are bounded.
CHECK_DEADLOCK FALSE
