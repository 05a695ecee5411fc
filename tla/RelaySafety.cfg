\* One Dispatch with a legacy or a settling home, a queue of two unacknowledged items,
\* so that reports take the place of heartbeats, pages of two.
SPECIFICATION Spec
CONSTANTS
  Protocols = {"legacy", "settling"}
  MailKinds = {"status", "heartbeat"}
  MaxItems = 3
  Quota = 2
  PageSize = 2
  MaxPages = 2
  MaxEpoch = 2
  MaxFaults = 1
  MaxStops = 1
INVARIANTS
  TypeOK
  NothingAckedUnseen
  ServersAgree
  ReportsGetVerdicts
\* A settled Dispatch whose faults are spent has nothing left to do.
CHECK_DEADLOCK FALSE
