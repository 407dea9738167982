SPECIFICATION Spec
CONSTANTS
  k1 = k1
  p1 = p1
  Key = {k1}
  Pair = {p1}
  PairOf <- OneKey
  MaxWSRetries = 2
  MaxRead = 2
  MaxFailures = 0
  Subscriptions <- Bot
  History = 1
INVARIANTS
  StreamReachesSubscription
PROPERTIES
  BarsFlow
  ReturnsUnlessHeld
  StreamEnds
\* The bot stops in the end, and messages are bounded.
CHECK_DEADLOCK FALSE
