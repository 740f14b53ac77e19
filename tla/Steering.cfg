SPECIFICATION Spec
CONSTANTS
  Runs = {r1, r2}
  Requests = {q1, q2, q3}
  Copies = {c1, c2}
  Archives = {a1}
  ArchiveFlag <- MCArchiveFlag
  Capacity = 1
  MaxStarts = 1
  MaxRows = 5
  MaxSends = 3
  NoRun = NoRun
INVARIANTS
  QueueIsRebuildable
PROPERTIES
  AcceptedRetryIsAnswered
SYMMETRY MCSymmetry
CHECK_DEADLOCK FALSE
