SPECIFICATION FairSpec
CONSTANTS
  Req = {r1, r2, r3}
  MaxClock = 2
  Nothing = Nothing
CHECK_DEADLOCK FALSE
INVARIANTS
  InterfereAtSameTimeOnly
  FilesHaveRemover
PROPERTIES
  EveryRequestAnswered
