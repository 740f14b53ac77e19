SPECIFICATION FairSpec
CONSTANTS
  s1 = s1
  r1 = r1
  NoRun = NoRun
  Sessions = {s1}
  Runs = {r1}
  Commands = {}
  Archives = {}
  MainSession = s1
  SessionOf <- MCSessionOf
  ArchiveFlag <- MCArchiveFlag
  ToolKinds = {"read", "mutation", "web"}
  MaxTurns = 2
  MaxCalls = 2
  MaxEntries = 4
  MaxConcurrentRuns = 1
  MaxCompactions = 1
  MaxStarts = 3
  MaxFaults = 1
INVARIANTS
  NoTransactionRefused
  EffectsAreJournalled
  ServesRecoveredState
  RunsAreOwned
PROPERTIES
  KeepsLedgerProtocol
  CancelledRunEnds
  ShutdownCompletes
CHECK_DEADLOCK FALSE
