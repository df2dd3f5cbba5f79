CONSTANTS
  Generators = {g1, g2}
  Configs <- MCConfigs
  FirstWeekdays = {0, 4, 6}
  Entries = 2
  Hour = 5
  NoTable = NoTable
SPECIFICATION Spec
CHECK_DEADLOCK FALSE
INVARIANTS RowsInSession ErrorsInTheMiddle FinishedLogComplete
PROPERTY GeneratorEnds
