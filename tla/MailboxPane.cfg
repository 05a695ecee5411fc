\* One terminal that coordinates the Run throughout, and whatever upsets its lane; its titles
\* may name an agent that needs no Enter.
SPECIFICATION Spec
CONSTANTS
  p1 = p1
  p2 = p2
  Ptys = {p1}
  Cursors = {p1}
  Outcomes = {"accepted", "refused", "unverifiable"}
  MaxMail = 2
  MaxGeneration = 1
  MaxUpsets = 2
VIEW Present
INVARIANTS
  TypeOK
  ActiveMarkHasFlight
  HeldEnterAwaitsRest
  NobodyForgotten
\* The bounded system may stop: all mail read, no upset left.
CHECK_DEADLOCK FALSE
