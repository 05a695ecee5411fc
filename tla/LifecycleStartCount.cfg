\* One attempt on a connected server.
SPECIFICATION Spec
CONSTANTS
  t1 = t1
  t2 = t2
  Tasks = {t1}
  Deps <- Alone
  Terminals = {h1}
  NoTask = NoTask
  NoTerminal = NoTerminal
  Gates = {}
  MaxDispatches = 1
  BreakAt = 2
  Placements = {"federated"}
PROPERTIES
  FailedStartsCount
\* The bounded system may stop: every attempt made, every Task settled.
CHECK_DEADLOCK FALSE
