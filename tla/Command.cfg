SPECIFICATION FairSpec
CONSTANTS
  s1 = s1
  s2 = s2
  c1 = c1
  c2 = c2
  NoRun = NoRun
  NoCommand = NoCommand
  Sessions = {s1, s2}
  Runs = {}
  Commands = {c1, c2}
  Archives = {}
  MainSession = s1
  OtherSession = s2
  Elsewhere = {c2}
  SessionOf <- MCSessionOf
  ArchiveFlag <- MCArchiveFlag
  ToolKinds = {}
  MaxTurns = 0
  MaxCalls = 0
  MaxEntries = 4
  MaxConcurrentCommands = 2
  MaxStarts = 2
  MaxFaults = 1
INVARIANTS
  ShellRunsOnlyIfActive
  CommandCancellationReachesShell
PROPERTIES
  CancelledCommandEnds
CHECK_DEADLOCK FALSE
