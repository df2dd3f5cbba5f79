CONSTANTS
  Refs = {r1}
  Prices = {10000}
  RoundsDown <- MCNoPrices
  ShareLimit = 8
  Absent = Absent
  Clients = {c1}
  Whens = {7, 8, 9}
  Stamps = {5, 6, 8}
  Records <- MCOneOrder
  Period = 2
  Day = 6
  MaxRows = 2
  FutureRequests = TRUE
  DamagedBlobs = TRUE
SPECIFICATION FairSpec
INVARIANTS PlainReplayExact SoundBooks RunsInRange
PROPERTY RequestTerminates
