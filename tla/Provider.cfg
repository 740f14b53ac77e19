SPECIFICATION TurnsSpec
CONSTANTS
  Null = Null
  MaxInput = 3
  MaxOutput = 2
  MaxToolCalls = 2
  MaxPieces = 2
  RunModels <- MCRunModels
  Records <- MCRecords
  MaxAttempts = 2
  MaxTurns = 3
  MaxRecords = 8
  MaxCompactions = 1
INVARIANTS
  AnswerIsWhole
  TransmittedAtMostOnce
  FollowUpIsAccepted
  CallsAreAnswered
CHECK_DEADLOCK FALSE
