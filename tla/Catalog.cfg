SPECIFICATION Spec
CONSTANTS
  s1 = s1
  Creates = {s1}
  Renames = {n1}
  Archives = {a1, a2}
  Unarchives = {u1}
  Deletes = {d1, d2}
  Stops = {p1, p2}
  SessionOf <- MCSessionOf
  None = None
  MaxStarts = 2
  MaxFaults = 1
INVARIANTS
  StartsUnlessDeletionStranded
  SessionsAreRebuildable
  DeletionIsFinal
  ImagesArePaired
SYMMETRY MCSymmetry
CHECK_DEADLOCK FALSE
