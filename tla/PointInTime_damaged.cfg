CONSTANTS
  Refs = {r1}
  Prices = {10000}
  RoundsDown <- MCNoPrices
  ShareLimit = 8
  Absent = Absent
  Clients = {c1}
  Whens = {8, 10}
  Stamps = {7, 8, 9}
  Records <- MCOneOrder
  Period = 2
  Day = 6
  MaxRows = 2
  FutureRequests = FALSE
  DamagedBlobs = TRUE
SPECIFICATION Spec
INVARIANT PointInTimeBook
