SPECIFICATION Spec
CONSTANTS
  Clients = {"c1"}
  Servers = {"s0", "s1", "s2"}
  Companion <- MCCompanion
  Before = "s0"
  None = "none"
  MaxFaults = 0
INVARIANTS
  ConcurrentStartLeavesRoot
CHECK_DEADLOCK FALSE
