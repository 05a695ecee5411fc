\* One Task, two attempts of any kind, a gate.
SPECIFICATION Spec
CONSTANTS
  t1 = t1
  t2 = t2
  Tasks = {t1}
  Deps <- Alone
  Terminals = {h1}
  NoTask = NoTask
  NoTerminal = NoTerminal
  Gates = {1}
  MaxDispatches = 2
  BreakAt = 2
  Placements = {"context", "local", "federated"}
INVARIANTS
  OneAttemptPerTask
  TaskFollowsAttempt
  WorkerHasAttempt
  LocalQuestionsAnswerable
PROPERTIES
  SettledStaysSettled
  OwnStopEndsHonestly
  ImplementsLease
\* The bounded system may stop: every attempt made, every Task settled.
CHECK_DEADLOCK FALSE
