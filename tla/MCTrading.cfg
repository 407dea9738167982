SPECIFICATION Spec
CONSTANTS
  Coins = 8
  Won = 8
  Minimum = 2
  Capacity = 2
  MaxBars = 2
INVARIANTS
  RefusedWhenStale
  PlacedInOrder
  ToldOfPlaced
PROPERTIES
  AllReported
\* Bars are bounded.
CHECK_DEADLOCK FALSE
