SPECIFICATION Spec
CONSTANTS
  k1 = k1
  k2 = k2
  p1 = p1
  Key = {k1, k2}
  Pair = {p1}
  PairOf <- OnePair
  MaxWSRetries = 2
  MaxRead = 2
  MaxFailures = 1
INVARIANTS
  OneStream
  SentInOrder
  NoCandleAfterClose
SYMMETRY Timeframes
\* The bot stops in the end, and messages are bounded.
CHECK_DEADLOCK FALSE
