SPECIFICATION FactsSpec
CONSTANTS
  s1 = s1
  r1 = r1
  c1 = c1
  a1 = a1
  NoRun = NoRun
  Sessions = {s1}
  Runs = {r1}
  Commands = {c1}
  Archives = {a1}
  MainSession = s1
  SessionOf <- MCSessionOf
  ArchiveFlag <- MCArchiveFlag
  ToolKinds = {"mutation", "web"}
  MaxTurns = 2
  MaxCalls = 1
  MaxEntries = 5
  MaxAsides = 1
  MaxToolTurns = 1
INVARIANTS
  SessionIsExclusive
  LedgerPassesValidation
  ProjectionsAreRebuildable
PROPERTY ImplementsContract
CHECK_DEADLOCK FALSE
