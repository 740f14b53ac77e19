SPECIFICATION FairSpec
CONSTANTS
  Clients = {"c1"}
  Servers = {"s0", "s1", "s2"}
  Companion <- MCCompanion
  Before = "s0"
  None = "none"
  MaxFaults = 1
INVARIANTS
  RegistrationIsCurrent
  ControlErrorHasCause
PROPERTIES
  ClientDecides
CHECK_DEADLOCK FALSE
