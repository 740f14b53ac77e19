CONSTANTS
    Logins = {"login"}
    Changes = {"remove", "key"}
    Kind <- KindOf
    Sets <- SetsIt
    None = "none"
    MaxCalls = 3
    MaxConnections = 2
    MaxFaults = 2
SPECIFICATION Spec
INVARIANTS
  RestartReconciles
  RefreshIsSentOnce
  OutcomesAreTrue
  ReadyLeaseIsCurrent
CHECK_DEADLOCK FALSE
