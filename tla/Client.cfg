SPECIFICATION ClientSpec
CONSTANTS
  Sessions = {"a", "b"}
  Initial = {"a"}
  NoSession = "none"
  History = 2
  Window = 1
  Held = 2
  Capacity = 4
  Attempts = 2
  Reconnects = 2
  InitialQueries <- MCQueries
  RefreshCount = 1
  MaxKeys = 3
  MaxDisturbances = 1
  MaxLog = 6
INVARIANTS
  InOrderNeverFails
  ShownHasNoGap
  MutationHappensOnce
CHECK_DEADLOCK FALSE
