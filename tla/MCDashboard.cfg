SPECIFICATION Spec
CONSTANTS
  c1 = c1
  WarmupPeriod = 2
  Attached = TRUE
  Writer = {"feed", "orders"}
  Connection = {c1}
  Capacity = 2
  Preloaded = {0, 2}
  MaxCandles = 2
  MaxOrders = 2
INVARIANTS
  TypeOK
  DataframeFaithful
  DecidesOnLatest
  NothingMissed
  NeverSentToClosed
PROPERTIES
  CallsReturn
  GoneForgotten
\* Candles are bounded.
CHECK_DEADLOCK FALSE
