SPECIFICATION Spec
CONSTANTS
  btc = btc
  eth = eth
  o1 = o1
  o2 = o2
  o3 = o3
  o4 = o4
  s1 = s1
  s2 = s2
  s3 = s3
  none = none
  Pair <- MCPair
  PairOf <- MCPairOf
  NoOrder = none
  Order = {o1}
  Publisher = {p1}
  Subscription = {s1}
  Late = {}
  Capacity = 1
INVARIANTS
  QuietAfterStop
\* The system may be stopped.
CHECK_DEADLOCK FALSE
