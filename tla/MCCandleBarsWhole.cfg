SPECIFICATION Spec
CONSTANTS
  Duration = {3}
  Day = 6
  Horizon = 9
  Rev = {1, 2}
INVARIANT
  BarsWhole
CONSTRAINT SentBound
\* The stream ends at the horizon.
CHECK_DEADLOCK FALSE
