\* A queue of one: the report takes the place of the heartbeat.
SPECIFICATION Spec
CONSTANTS
  Protocols = {"settling"}
  MailKinds = {"heartbeat"}
  MaxItems = 2
  Quota = 1
  PageSize = 2
  MaxPages = 1
  MaxEpoch = 1
  MaxFaults = 1
  MaxStops = 0
INVARIANT CommittedHasMessage
\* A settled Dispatch whose faults are spent has nothing left to do.
CHECK_DEADLOCK FALSE
