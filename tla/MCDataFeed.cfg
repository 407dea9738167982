SPECIFICATION Spec
CONSTANTS
  k1 = k1
  k2 = k2
  Key = {k1, k2}
  Subscriptions <- Several
  History = 1
  MaxTaken = 2
INVARIANTS
  GetsItsCandles
  ServedInTurn
PROPERTIES
  StopEndsFeeds
\* The feeds end.
CHECK_DEADLOCK FALSE
