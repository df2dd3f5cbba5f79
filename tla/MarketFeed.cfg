CONSTANTS
  Refs = {r1, r2, r3}
  Prices <- MCPrices
  RoundsDown <- MCRoundsDown
  ShareLimit = 8
  Absent = Absent
  MaxOrderShares = 3
  MaxLosses = 2
  MaxRetries = 1
  MaxForeign = 1
SPECIFICATION Spec
SYMMETRY RefSymmetry
CHECK_DEADLOCK FALSE
INVARIANTS TypeOK SidesDisjoint NeverUnderstates SharesInRange MirrorsExchange
PROPERTIES RetryHarmless EngineIsABook
