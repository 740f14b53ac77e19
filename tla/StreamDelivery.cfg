SPECIFICATION FairStreamSpec
CONSTANTS
  Subscribers = {s1}
  PageLimit = 2
  MaxSequence = 4
  MaxReserved = 1
  MaxRestarts = 1
INVARIANTS
  SleepersAreWoken
  CommittedAreKnown
PROPERTIES
  EventsArrive
CHECK_DEADLOCK FALSE
