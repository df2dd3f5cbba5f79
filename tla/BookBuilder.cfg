CONSTANTS
  Refs = {1, 2, 3, 4}
  Prices = {10000, 10010}
  RoundsDown <- MCNoPrices
  ShareLimit = 8
  Absent = Absent
  Inputs <- MCInputs
  MaxLength = 20
SPECIFICATION Spec
INVARIANTS CollapsedIsTheSum BarsToScale EveryOrderPrinted
