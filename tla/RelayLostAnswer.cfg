\* One report, a settling home, and one call that may fail: the answer of the
\* acknowledgment is enough.
SPECIFICATION FairSpec
CONSTANTS
  Protocols = {"settling"}
  MailKinds = {"status"}
  MaxItems = 1
  Quota = 2
  PageSize = 2
  MaxPages = 1
  MaxEpoch = 2
  MaxFaults = 1
  MaxStops = 0
PROPERTY Acked
\* A settled Dispatch whose faults are spent has nothing left to do.
CHECK_DEADLOCK FALSE
