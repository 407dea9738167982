SPECIFICATION FairSpec
CONSTANTS
  btc = btc
  eth = eth
  o1 = o1
  o2 = o2
  o3 = o3
  o4 = o4
  s1 = s1
  s2 = s2
  s3 = s3
  none = none
  Pair <- MCPair
  PairOf <- MCPairOf
  NoOrder = none
  Order = {o1, o2, o4}
  Publisher = {p1, p2}
  Subscription = {s1, s2}
  Late = {s2}
  Capacity = 1
INVARIANTS
  Conserved
  DeliveredInOrder
  Lockstep
PROPERTIES
  PublishReturns
  AcceptedDelivered
  StopEndsDelivery
  ImplementsQueue
\* The system may be stopped.
CHECK_DEADLOCK FALSE
