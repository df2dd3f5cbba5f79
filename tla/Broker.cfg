CONSTANTS
  Base = 4
  Second = 3
  Counters <- MCCounters
  MaxTime = 3
  MaxSetBacks = 1
  RealTime = RealTime
  PreciseTime = PreciseTime
  NoTime = NoTime
  Initial = 3
  Amplitude = 1
  FillFloor = 2
  BackFloor = 1
  Names = {bloom, tom}
  Volumes = {2, 3, 4, 5}
  Margins = {1, 2}
  MaxQuotes = 2
  NoRequest = NoRequest
  NoMargin = NoMargin
SPECIFICATION Spec
CHECK_DEADLOCK FALSE
INVARIANTS StampsIncrease AssertionsHold QuoteCoherent ArithmeticExact
PROPERTY QuoteAnswered
