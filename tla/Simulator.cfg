CONSTANTS
  s1 = s1
  s2 = s2
  Simulators = {s1, s2}
  Configs <- MCConfigs
  Products <- MCProducts
  Brokers <- MCBrokers
  Traders <- MCTraders
  Cheaters = {"Cobra"}
  Market <- MCMarket
  MinIterations = 2
  QuoteColumns <- MCQuoteColumns
  TradeColumns <- MCTradeColumns
  MaxBroken = 1
  NoTable = NoTable
SPECIFICATION Spec
CHECK_DEADLOCK FALSE
INVARIANTS TornRows TradesBacked FinishedComplete SomeSimulatorSurvives
PROPERTY ReadersSeeWholeRows
