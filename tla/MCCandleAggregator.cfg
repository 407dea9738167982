SPECIFICATION Spec
CONSTANTS
  Duration = {0, 3}
  Day = 6
  Horizon = 9
  Rev = {1, 2}
INVARIANTS
  FinalIsFinal
  FinalsInOrder
  NothingForgotten
  BufferPruned
  PartialIsCurrent
  SecondsPassedOn
CONSTRAINT SentBound
\* The stream ends at the horizon.
CHECK_DEADLOCK FALSE
