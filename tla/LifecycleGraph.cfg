\* Two Tasks, one waiting for the other, that share a terminal and a gate.
SPECIFICATION Spec
CONSTANTS
  t1 = t1
  t2 = t2
  Tasks = {t1, t2}
  Deps <- Chain
  Terminals = {h1}
  NoTask = NoTask
  NoTerminal = NoTerminal
  Gates = {1}
  MaxDispatches = 2
  BreakAt = 1
  Placements = {"context", "local"}
INVARIANTS
  TypeOK
  TerminalExclusive
  RetriesEndAtBreaker
PROPERTIES
  CompletionNeedsItsWorker
  DependentsReleased
\* The bounded system may stop: every attempt made, every Task settled.
CHECK_DEADLOCK FALSE
