SPECIFICATION Spec
CONSTANTS
  Asked <- MCAsked
  CandlePageLimit = 2
  InitialKRW = 64
  Minimum = 2
  Capacity = 1
  BacktestWarmup = 1
  MonthLength = 3
  ShortWindow = 1
  LongWindow = 2
  RSIPeriod = 3
  BollingerPeriod = 2
  BollingerMultiplier = 1
  MACDShortWindow = 1
  MACDLongWindow = 2
  MACDSignalWindow = 2
  StochPeriod = 2
  Threshold = 10
  InitialBalance = 100
INVARIANTS
  PeriodComplete
  AccountSound
  RefusedWhenBehind
  AllIn
  SignalsCausal
PROPERTY
  ProgramEnds
\* The programs end.
CHECK_DEADLOCK FALSE
