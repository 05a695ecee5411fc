\* Two terminals: either may coordinate the Run, the other take it over.
SPECIFICATION Spec
CONSTANTS
  p1 = p1
  p2 = p2
  Ptys = {p1, p2}
  Cursors = {}
  Outcomes = {"accepted", "refused", "unverifiable"}
  MaxMail = 1
  MaxGeneration = 2
  MaxUpsets = 1
VIEW Present
SYMMETRY SamePtys
INVARIANTS
  UnreadDeliveryIsCurrent
  NobodyForgotten
PROPERTIES
  EnteredOncePerBinding
  ImplementsConsumer
\* The bounded system may stop: all mail read, no upset left.
CHECK_DEADLOCK FALSE
