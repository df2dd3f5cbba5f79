CONSTANTS
  Refs = {r1}
  Prices = {10000}
  RoundsDown <- MCNoPrices
  ShareLimit = 8
  Absent = Absent
  Clients = {c1, c2}
  Whens = {8, 10}
  Stamps = {5, 7, 8, 9}
  Records <- MCOneOrder
  Period = 2
  Day = 6
  MaxRows = 3
  FutureRequests = FALSE
  DamagedBlobs = FALSE
SPECIFICATION Spec
SYMMETRY ClientSymmetry
INVARIANTS TypeOK PointInTimeBook SnapshotsExact
PROPERTY SnapshotsStable
