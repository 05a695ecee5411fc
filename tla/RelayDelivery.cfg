\* One Dispatch with a settling home, pages of one item, a lost call or a restart, a
\* runtime that may lose lifecycle settlement, and a stop.
SPECIFICATION FairSpec
CONSTANTS
  Protocols = {"settling"}
  MailKinds = {"status"}
  MaxItems = 2
  Quota = 4
  PageSize = 1
  MaxPages = 2
  MaxEpoch = 2
  MaxFaults = 1
  MaxStops = 1
PROPERTIES
  Delivery
  VerdictReachesServer
  ImplementsDelivery
\* A settled Dispatch whose faults are spent has nothing left to do.
CHECK_DEADLOCK FALSE
